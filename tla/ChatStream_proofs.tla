-------------------------- MODULE ChatStream_proofs --------------------------
(***************************************************************************)
(* Proofs about ChatStream, for any tool calls and any number of turns,    *)
(* deltas and crashes: a reload shows what the client has shown, and the   *)
(* answer's text stays in its block, and an ended task's chat settles.      *)
(***************************************************************************)
EXTENDS ChatStream, SequenceTheorems, FiniteSetTheorems, TLAPS

-----------------------------------------------------------------------------
(* What the frames do to a view, and which of them reach it.               *)

\* A record with the fields of a view.
IsView(v) ==
  v = [status |-> v.status, block |-> v.block, wrong |-> v.wrong, starts |-> v.starts,
       results |-> v.results, previews |-> v.previews, cards |-> v.cards,
       fields |-> v.fields, end |-> v.end]

\* Two views that show the same, but for the wrong blocks.
Same(v, u) ==
  /\ v.status = u.status /\ v.block = u.block /\ v.starts = u.starts
  /\ v.results = u.results /\ v.previews = u.previews /\ v.cards = u.cards
  /\ v.fields = u.fields /\ v.end = u.end

TextFrame(f) == f.type = "content_delta" /\ f.note = "text"
TextStart(f) == f.type = "content_start" /\ f.of = "text"

\* A view stays a view, two equal views stay equal, and text changes the wrong blocks alone.
LEMMA ShownView ==
  ASSUME NEW v, IsView(v), NEW f
  PROVE  IsView(Shown(v, f))
BY DEF IsView, Shown

LEMMA ShownSame ==
  ASSUME NEW v, NEW u, IsView(v), IsView(u), Same(v, u), NEW f
  PROVE  Same(Shown(v, f), Shown(u, f))
BY DEF IsView, Shown, Same

LEMMA ShownText ==
  ASSUME NEW v, IsView(v), NEW f, TextFrame(f)
  PROVE  /\ Same(Shown(v, f), v)
         /\ Shown(v, f).wrong = v.wrong \cup (IF f.index # v.block THEN {"loose"} ELSE {})
BY DEF IsView, Shown, Same, TextFrame

LEMMA ShownStart ==
  ASSUME NEW v, IsView(v), NEW f, TextStart(f)
  PROVE  /\ Shown(v, f).block = f.index
         /\ Shown(v, f).wrong = v.wrong \cup (IF f.index <= v.block THEN {"reused"} ELSE {})
<1> DEFINE bad == IF f.index <= v.block THEN {"reused"} ELSE {}
<1>1. Shown(v, f) = [v EXCEPT !.block = f.index, !.wrong = @ \cup bad]
  BY DEF Shown, TextStart
<1>. HIDE DEF bad
<1>2. Shown(v, f).block = f.index /\ Shown(v, f).wrong = v.wrong \cup bad
  BY <1>1 DEF IsView
<1>. QED BY <1>2 DEF bad

LEMMA ShownOther ==
  ASSUME NEW v, IsView(v), NEW f, ~TextFrame(f), ~TextStart(f)
  PROVE  Shown(v, f).block = v.block /\ Shown(v, f).wrong = v.wrong
BY DEF IsView, Shown, TextStart, TextFrame

LEMMA SameIsReplay ==
  ASSUME NEW v, NEW u, IsView(v), IsView(u), Same(v, u)
  PROVE  [u EXCEPT !.wrong = v.wrong] = v
BY DEF IsView, Same

\* What the client gets of an event or a frame the trace keeps too, but for text.
LEMMA RawSame == ASSUME NEW t PROVE Live(Raw(t)) <=> Replayed(Raw(t))
BY DEF Live, Replayed, Raw, Kept, AsKept, ShouldEmit, ToServerMessage, RawVisibility, Visibility, ChatFrames, PanelMirrored, ToolEvents, TaskEnds

LEMMA FrameSame == ASSUME NEW f, f.note # "text" PROVE Live(Compat(f)) <=> Replayed(Compat(f))
BY DEF Live, Replayed, Compat, Kept, AsKept, ShouldEmit, ToServerMessage, Recoverable, ChatFrames

LEMMA DeltaKept == Live(TextDelta) /\ ~Replayed(TextDelta)
BY DEF Live, Replayed, TextDelta, Kept, AsKept, ShouldEmit, ToServerMessage, ChatFrames

\* An item before a sequence is its head.
LEMMA Cons ==
  ASSUME NEW S, NEW a \in S, NEW t \in Seq(S)
  PROVE  <<a>> \o t \in Seq(S) /\ <<a>> \o t # << >> /\ Head(<<a>> \o t) = a /\ Tail(<<a>> \o t) = t
<1>1. <<a>> \in Seq(S) /\ Len(<<a>>) = 1 /\ <<a>>[1] = a
  OBVIOUS
<1> DEFINE s == <<a>>
<1>. HIDE DEF s
<1>2. s \in Seq(S) /\ Len(s) = 1 /\ s[1] = a
  BY <1>1 DEF s
<1> DEFINE u == s \o t
<1>4. u \in Seq(S) /\ Len(u) = Len(t) + 1 /\ Len(t) \in Nat
      /\ \A i \in 1 .. (1 + Len(t)) : u[i] = IF i <= 1 THEN s[i] ELSE t[i - 1]
  BY <1>2, ConcatProperties, SMTT(30)
<1>. HIDE DEF u
<1>5. u # << >> /\ u[1] = a /\ \A i \in 1 .. Len(t) : u[i + 1] = t[i]
  BY <1>2, <1>4
<1>6. Head(u) = a
  BY <1>4, <1>5
<1>7. Tail(u) \in Seq(S) /\ Len(Tail(u)) = Len(t) /\ \A i \in 1 .. Len(t) : Tail(u)[i] = u[i + 1]
  BY <1>4, <1>5, HeadTailProperties
<1>8. Tail(u) = t
  <2>1. \A i \in 1 .. Len(t) : Tail(u)[i] = t[i]
    BY <1>5, <1>7
  <2>. QED BY <1>7, <2>1, SeqEqual
<1>3. s \o t \in Seq(S) /\ s \o t # << >> /\ Head(s \o t) = a /\ Tail(s \o t) = t
  BY <1>4, <1>5, <1>6, <1>8 DEF u
<1>. QED BY <1>3 DEF s

LEMMA Tail4 ==
  ASSUME NEW a, NEW b, NEW c, NEW d
  PROVE  Tail(<<a, b, c, d>>) = <<b, c, d>> /\ Tail(<<b, c, d>>) = <<c, d>> /\ Tail(<<c, d>>) = <<d>> /\ Tail(<<d>>) = << >>
OBVIOUS

LEMMA In2 == ASSUME NEW S, NEW b \in S, NEW c \in S PROVE <<b, c>> \in Seq(S)
<1>1. <<b>> \in Seq(S)
  OBVIOUS
<1>2. <<b, c>> = Append(<<b>>, c)
  OBVIOUS
<1>. QED BY <1>1, <1>2

LEMMA In3 == ASSUME NEW S, NEW b \in S, NEW c \in S, NEW d \in S PROVE <<b, c, d>> \in Seq(S)
<1>1. <<b, c>> \in Seq(S)
  BY In2
<1>2. <<b, c, d>> = Append(<<b, c>>, d)
  OBVIOUS
<1>. QED BY <1>1, <1>2

LEMMA In4 == ASSUME NEW S, NEW a \in S, NEW b \in S, NEW c \in S, NEW d \in S PROVE <<a, b, c, d>> \in Seq(S)
<1>1. <<a, b, c>> \in Seq(S)
  BY In3
<1>2. <<a, b, c, d>> = Append(<<a, b, c>>, d)
  OBVIOUS
<1>. QED BY <1>1, <1>2

-----------------------------------------------------------------------------
(* The items of a sequence, and what an event becomes.                     *)

Items(s) == {s[i] : i \in 1 .. Len(s)}
IsSeq(s) == s \in Seq(Items(s))

LEMMA SeqItems ==
  ASSUME NEW S, NEW s \in Seq(S)
  PROVE  IsSeq(s) /\ Items(s) \subseteq S
<1>1. Len(s) \in Nat /\ s \in [1 .. Len(s) -> Items(s)]
  BY DEF Items
<1>2. s \in Seq(Items(s))
  BY <1>1, IsASeq
<1>3. Items(s) \subseteq S
  BY DEF Items
<1>. QED BY <1>2, <1>3 DEF IsSeq

LEMMA NoItems == IsSeq(<< >>) /\ Items(<< >>) = {}
BY DEF IsSeq, Items

LEMMA Items1 == ASSUME NEW a PROVE IsSeq(<<a>>) /\ Items(<<a>>) \subseteq {a}
<1>1. <<a>> \in Seq({a})
  OBVIOUS
<1>. QED BY <1>1, SeqItems

LEMMA Items2 == ASSUME NEW a, NEW b PROVE IsSeq(<<a, b>>) /\ Items(<<a, b>>) \subseteq {a, b}
<1>1. <<a, b>> \in Seq({a, b})
  BY In2
<1>. QED BY <1>1, SeqItems

LEMMA Items3 == ASSUME NEW a, NEW b, NEW c PROVE IsSeq(<<a, b, c>>) /\ Items(<<a, b, c>>) \subseteq {a, b, c}
<1>1. <<a, b, c>> \in Seq({a, b, c})
  BY In3
<1>. QED BY <1>1, SeqItems

LEMMA Items4 ==
  ASSUME NEW a, NEW b, NEW c, NEW d
  PROVE  IsSeq(<<a, b, c, d>>) /\ Items(<<a, b, c, d>>) \subseteq {a, b, c, d}
<1>1. <<a, b, c, d>> \in Seq({a, b, c, d})
  BY In4
<1>. QED BY <1>1, SeqItems

LEMMA ItemsJoined ==
  ASSUME NEW s, IsSeq(s), NEW t, IsSeq(t)
  PROVE  IsSeq(s \o t) /\ Items(s \o t) \subseteq Items(s) \cup Items(t)
<1>1. s \in Seq(Items(s) \cup Items(t)) /\ t \in Seq(Items(s) \cup Items(t))
  BY DEF IsSeq
<1>2. s \o t \in Seq(Items(s) \cup Items(t))
  BY <1>1, ConcatProperties
<1>. QED BY <1>2, SeqItems

LEMMA ItemsTail ==
  ASSUME NEW s, IsSeq(s), s # << >>
  PROVE  IsSeq(Tail(s)) /\ Items(Tail(s)) \subseteq Items(s) /\ Head(s) \in Items(s)
<1>1. Tail(s) \in Seq(Items(s)) /\ Head(s) \in Items(s)
  BY HeadTailProperties DEF IsSeq
<1>. QED BY <1>1, SeqItems

\* An event and an item of work are records.
IsEvent(e) == e = [type |-> e.type, of |-> e.of, note |-> e.note, fields |-> e.fields, index |-> e.index]
IsItem(x) == x = [op |-> x.op, event |-> x.event] /\ IsEvent(x.event)

\* What may come of the publication of an event that is no token.
Derived(e, x) ==
  \/ x.op = "begin" /\ x.event = e /\ e.type = "tool.started"
  \/ /\ x.op = "frame" /\ x.event.note \in {"", "asked", "resolved"}
     /\ x.event.type \in {"tool_use_complete", "tool_result", "permission_request", "message_complete"}
     /\ (x.event.type = "permission_request" => e.type \in {"approval.requested", "approval.resolved"})
  \/ x.op = "say" /\ x.event.type = "content_delta" /\ x.event.note \in {"activity", e.note}
  \/ x.op = "preview" /\ x.event.type = "content_delta" /\ x.event.note = "result_preview"
  \/ /\ x.op = "status" /\ x.event.type = "status"
     /\ \/ x.event.of = "tool_executing" /\ x.event.note = e.of /\ e.type = "tool.started"
        \/ x.event.of = "permission_pending" /\ x.event.note = e.of /\ e.type = "approval.requested"
        \/ /\ x.event.of = "idle" /\ x.event.note = ""
           /\ e.type \in Closers \cup {"approval.resolved"}
  \/ x.op = "raw" /\ x.event.type \in {"goal_event", "message.failed"}

\* The fields of the items that the handlers make.
LEMMA DoIs ==
  ASSUME NEW op, NEW type, NEW of, NEW note, NEW fields
  PROVE  /\ IsItem(Do(op, Event(type, of, note, fields)))
         /\ Do(op, Event(type, of, note, fields)).op = op
         /\ Do(op, Event(type, of, note, fields)).event = Event(type, of, note, fields)
         /\ Event(type, of, note, fields).type = type /\ Event(type, of, note, fields).of = of
         /\ Event(type, of, note, fields).note = note /\ Event(type, of, note, fields).fields = fields
BY DEF Do, Event, IsItem, IsEvent

LEMMA DoEvent ==
  ASSUME NEW op, NEW e, IsEvent(e)
  PROVE  IsItem(Do(op, e)) /\ Do(op, e).op = op /\ Do(op, e).event = e
BY DEF Do, IsItem

\* The items an event becomes.
LEMMA RawIs ==
  ASSUME NEW e, IsEvent(e), e.type \notin ChatFrames
  PROVE  /\ IsSeq(RawEvent(e))
         /\ \A x \in Items(RawEvent(e)) : IsItem(x) /\ x.op = "raw" /\ x.event.type = "message.failed"
<1>1. e.type # "message.failed" => ~Live(Raw(e.type)) /\ ~Replayed(Raw(e.type))
  <2>1. e.type # "message.failed" => ~Live(Raw(e.type))
    BY DEF Live, Raw, ShouldEmit, ToServerMessage
  <2>. QED BY <2>1, RawSame
<1>2. Do("raw", e).op = "raw" /\ Do("raw", e).event = e /\ IsItem(Do("raw", e))
  BY DoEvent
<1>. QED BY <1>1, <1>2, NoItems, Items1 DEF RawEvent

LEMMA StartedAre ==
  ASSUME NEW e, IsEvent(e), e.type = "tool.started"
  PROVE  IsSeq(StartedFrames(e)) /\ \A x \in Items(StartedFrames(e)) : IsItem(x) /\ Derived(e, x)
<1> DEFINE a == Do("begin", e)
           b == Frame("tool_use_complete", e.of, "", PublicInput(Kind[e.of], e.fields))
           c == Say(e.of, "activity", "plain")
           d == Status("tool_executing", e.of)
           s == <<a, b>>
           t == IF Kind[e.of] = "other" THEN <<c>> ELSE <<>>
           u == <<d>>
<1>1. IsItem(a) /\ Derived(e, a)
  <2>1. IsItem(a) /\ a.op = "begin" /\ a.event = e
    BY DoEvent
  <2>. HIDE DEF a
  <2>. QED BY <2>1 DEF Derived
<1>2. IsItem(b) /\ Derived(e, b)
  <2>1. IsItem(b) /\ b.op = "frame" /\ b.event.type = "tool_use_complete" /\ b.event.note = ""
    BY DEF Frame, Do, Event, IsItem, IsEvent
  <2>. HIDE DEF b
  <2>. QED BY <2>1 DEF Derived
<1>3. IsItem(c) /\ Derived(e, c)
  <2>1. IsItem(c) /\ c.op = "say" /\ c.event.type = "content_delta" /\ c.event.note = "activity"
    BY DoIs DEF Say
  <2>. HIDE DEF c
  <2>. QED BY <2>1 DEF Derived
<1>4. IsItem(d) /\ Derived(e, d)
  <2>1. IsItem(d) /\ d.op = "status" /\ d.event.type = "status" /\ d.event.note = e.of /\ d.event.of = "tool_executing"
    BY DEF Status, Do, Event, IsItem, IsEvent
  <2>. HIDE DEF d
  <2>. QED BY <2>1 DEF Derived
<1>5. IsSeq(s) /\ Items(s) \subseteq {a, b}
  <2>. HIDE DEF a, b
  <2>. QED BY Items2
<1>6. IsSeq(t) /\ Items(t) \subseteq {c}
  <2>. HIDE DEF c
  <2>. QED BY Items1, NoItems
<1>7. IsSeq(u) /\ Items(u) \subseteq {d}
  <2>. HIDE DEF d
  <2>. QED BY Items1
<1>8. IsSeq(s \o t \o u) /\ Items(s \o t \o u) \subseteq {a, b, c, d}
  <2>. HIDE DEF a, b, c, d, s, t, u
  <2>1. IsSeq(s \o t) /\ Items(s \o t) \subseteq {a, b, c}
    BY <1>5, <1>6, ItemsJoined
  <2>. QED BY <1>7, <2>1, ItemsJoined
<1>9. StartedFrames(e) = s \o t \o u
  BY DEF StartedFrames
<1>. HIDE DEF a, b, c, d, s, t, u
<1>. QED BY <1>1, <1>2, <1>3, <1>4, <1>8, <1>9

LEMMA OutputAre ==
  ASSUME NEW e, IsEvent(e)
  PROVE  IsSeq(OutputFrames(e)) /\ \A x \in Items(OutputFrames(e)) : IsItem(x) /\ Derived(e, x)
<1> DEFINE o == [e EXCEPT !.type = "content_delta"]
           a == Do("say", o)
<1>1. IsEvent(o) /\ o.type = "content_delta" /\ o.note = e.note
  BY DEF IsEvent
<1>2. IsItem(a) /\ Derived(e, a)
  <2>1. IsItem(a) /\ a.op = "say" /\ a.event = o
    <3>. HIDE DEF o
    <3>. QED BY <1>1, DoEvent
  <2>. HIDE DEF o, a
  <2>. QED BY <1>1, <2>1 DEF Derived
<1>3. OutputFrames(e) = <<a>>
  BY DEF OutputFrames
<1>. HIDE DEF a
<1>. QED BY <1>2, <1>3, Items1

LEMMA ResultAre ==
  ASSUME NEW e, IsEvent(e)
  PROVE  IsSeq(ResultFrames(e)) /\ \A x \in Items(ResultFrames(e)) : IsItem(x) /\ Derived(e, x)
<1> DEFINE a == Do("preview", Event("content_delta", e.of, "result_preview", PublicText("plain")))
           b == Frame("tool_result", e.of, "", PublicResult(e.fields))
           s == IF Kind[e.of] = "run_command" \/ e.note = "streamed" THEN <<>> ELSE <<a>>
           t == <<b>>
<1>1. IsItem(a) /\ Derived(e, a)
  <2>1. IsItem(a) /\ a.op = "preview" /\ a.event.type = "content_delta" /\ a.event.note = "result_preview"
    BY DoIs
  <2>. HIDE DEF a
  <2>. QED BY <2>1 DEF Derived
<1>2. IsItem(b) /\ Derived(e, b)
  <2>1. IsItem(b) /\ b.op = "frame" /\ b.event.type = "tool_result" /\ b.event.note = ""
    BY DEF Frame, Do, Event, IsItem, IsEvent
  <2>. HIDE DEF b
  <2>. QED BY <2>1 DEF Derived
<1>3. IsSeq(s) /\ Items(s) \subseteq {a}
  <2>. HIDE DEF a
  <2>. QED BY Items1, NoItems
<1>4. IsSeq(t) /\ Items(t) \subseteq {b}
  <2>. HIDE DEF b
  <2>. QED BY Items1
<1>5. ResultFrames(e) = s \o t
  BY DEF ResultFrames
<1>. HIDE DEF a, b, s, t
<1>. QED BY <1>1, <1>2, <1>3, <1>4, <1>5, ItemsJoined

LEMMA CardAre ==
  ASSUME NEW e, IsEvent(e), NEW shown, NEW state,
         \/ shown = "asked" /\ state = "permission_pending" /\ e.type = "approval.requested"
         \/ shown = "resolved" /\ state = "idle" /\ e.type = "approval.resolved"
  PROVE  IsSeq(CardFrames(e, shown, state)) /\ \A x \in Items(CardFrames(e, shown, state)) : IsItem(x) /\ Derived(e, x)
<1> DEFINE a == Frame("permission_request", e.of, shown, PublicRequest("write_file", e.fields))
           verb == IF shown = "asked" THEN e.of ELSE ""
           b == Status(state, verb)
<1>1. IsItem(a) /\ Derived(e, a)
  <2>1. IsItem(a) /\ a.op = "frame" /\ a.event.type = "permission_request" /\ a.event.note = shown
    BY DEF Frame, Do, Event, IsItem, IsEvent
  <2>. HIDE DEF a
  <2>. QED BY <2>1 DEF Derived
<1>2. IsItem(b) /\ b.op = "status" /\ b.event.type = "status" /\ b.event.of = state /\ b.event.note = verb
  <2>. HIDE DEF verb
  <2>. QED BY DoIs DEF Status
<1>3. Derived(e, b)
  <2>. HIDE DEF b
  <2>. QED BY <1>2 DEF Derived
<1>4. CardFrames(e, shown, state) = <<a, b>>
  BY DEF CardFrames
<1>. HIDE DEF a, b
<1>5. IsSeq(<<a, b>>) /\ Items(<<a, b>>) \subseteq {a, b}
  BY Items2
<1>. QED BY <1>1, <1>2, <1>3, <1>4, <1>5

LEMMA EndAre ==
  ASSUME NEW e, IsEvent(e), e.type \in Closers
  PROVE  IsSeq(EndFrames(e)) /\ \A x \in Items(EndFrames(e)) : IsItem(x) /\ Derived(e, x)
<1> DEFINE s == GoalEvent(e)
           a == Frame("message_complete", "text", "", {})
           b == Status("idle", "")
           t == IF e.type = "message.completed" THEN <<a>> ELSE <<>>
           u == <<b>>
<1>1. IsSeq(s) /\ \A x \in Items(s) : IsItem(x) /\ Derived(e, x)
  <2> DEFINE g == [e EXCEPT !.type = "goal_event"]
  <2>1. IsEvent(g) /\ g.type = "goal_event"
    BY DEF IsEvent
  <2>2. "goal_event" \notin ChatFrames
    BY DEF ChatFrames
  <2>3. IsSeq(RawEvent(g)) /\ \A x \in Items(RawEvent(g)) : IsItem(x) /\ x.op = "raw" /\ x.event.type = "message.failed"
    <3>. HIDE DEF g
    <3>. QED BY <2>1, <2>2, RawIs
  <2>4. s = IF e.type \in TaskEnds THEN RawEvent(g) ELSE <<>>
    BY DEF GoalEvent
  <2>. HIDE DEF g, s
  <2>. QED BY <2>3, <2>4, NoItems DEF Derived
<1>2. IsItem(a) /\ Derived(e, a)
  <2>1. IsItem(a) /\ a.op = "frame" /\ a.event.type = "message_complete" /\ a.event.note = ""
    BY DEF Frame, Do, Event, IsItem, IsEvent
  <2>. HIDE DEF a
  <2>. QED BY <2>1 DEF Derived
<1>3. IsItem(b) /\ Derived(e, b)
  <2>1. IsItem(b) /\ b.op = "status" /\ b.event.type = "status" /\ b.event.note = "" /\ b.event.of = "idle"
    BY DEF Status, Do, Event, IsItem, IsEvent
  <2>. HIDE DEF b
  <2>. QED BY <2>1 DEF Derived
<1>4. IsSeq(t) /\ Items(t) \subseteq {a}
  <2>. HIDE DEF a
  <2>. QED BY Items1, NoItems
<1>5. IsSeq(u) /\ Items(u) \subseteq {b}
  <2>. HIDE DEF b
  <2>. QED BY Items1
<1>6. EndFrames(e) = s \o t \o u
  BY DEF EndFrames
<1>. HIDE DEF s, a, b, t, u
<1>7. IsSeq(s \o t) /\ Items(s \o t) \subseteq Items(s) \cup {a}
  BY <1>1, <1>4, ItemsJoined
<1>8. IsSeq(s \o t \o u) /\ Items(s \o t \o u) \subseteq Items(s) \cup {a} \cup {b}
  BY <1>5, <1>7, ItemsJoined
<1>. QED BY <1>1, <1>2, <1>3, <1>6, <1>8

LEMMA FramesAre ==
  ASSUME NEW e, IsEvent(e), e.type # "assistant.token"
  PROVE  IsSeq(Frames(e)) /\ \A x \in Items(Frames(e)) : IsItem(x) /\ Derived(e, x)
<1>1. CASE e.type = "tool.started"
  <2>1. Frames(e) = StartedFrames(e)
    BY <1>1 DEF Frames, TaskEnds
  <2>. QED BY <1>1, <2>1, StartedAre
<1>2. CASE e.type \in {"tool.progress", "tool.output", "command.output"}
  <2>1. Frames(e) = OutputFrames(e)
    BY <1>2 DEF Frames, TaskEnds
  <2>. QED BY <2>1, OutputAre
<1>3. CASE e.type \in {"tool.completed", "tool.failed", "tool.blocked"}
  <2>1. Frames(e) = ResultFrames(e)
    BY <1>3 DEF Frames, TaskEnds
  <2>. QED BY <2>1, ResultAre
<1>4. CASE e.type = "approval.requested"
  <2>1. Frames(e) = CardFrames(e, "asked", "permission_pending")
    BY <1>4 DEF Frames, TaskEnds
  <2>. QED BY <1>4, <2>1, CardAre
<1>5. CASE e.type = "approval.resolved"
  <2>1. Frames(e) = CardFrames(e, "resolved", "idle")
    BY <1>5 DEF Frames, TaskEnds
  <2>. QED BY <1>5, <2>1, CardAre
<1>6. CASE e.type \in Closers
  <2>1. Frames(e) = EndFrames(e)
    BY <1>6 DEF Frames, TaskEnds, Closers
  <2>. QED BY <1>6, <2>1, EndAre
<1>7. CASE e.type \notin {"tool.started", "tool.progress", "tool.output", "command.output", "tool.completed", "tool.failed",
                          "tool.blocked", "approval.requested", "approval.resolved"} \cup Closers
  <2>1. Frames(e) = <<>>
    BY <1>7 DEF Frames, TaskEnds, Closers
  <2>. QED BY <2>1, NoItems
<1>. QED BY <1>1, <1>2, <1>3, <1>4, <1>5, <1>6, <1>7

-----------------------------------------------------------------------------
(* What a step of a thread does to its work.                               *)

WorkFn == work = [p \in Threads |-> work[p]]
WorkSeqs == \A p \in Threads : IsSeq(work[p])

LEMMA ThenWork ==
  ASSUME WorkFn, WorkSeqs, NEW p \in Threads, work[p] # <<>>, NEW s, IsSeq(s), Then(p, s)
  PROVE  /\ WorkFn' /\ WorkSeqs'
         /\ \A q \in Threads : q # p => work'[q] = work[q]
         /\ work'[p] = s \o Tail(work[p])
         /\ Items(work'[p]) \subseteq Items(s) \cup Items(work[p])
<1>1. WorkFn' /\ work'[p] = s \o Tail(work[p]) /\ \A q \in Threads : q # p => work'[q] = work[q]
  BY DEF Then, WorkFn
<1>2. IsSeq(Tail(work[p])) /\ Items(Tail(work[p])) \subseteq Items(work[p])
  BY ItemsTail DEF WorkSeqs
<1>3. IsSeq(s \o Tail(work[p])) /\ Items(s \o Tail(work[p])) \subseteq Items(s) \cup Items(work[p])
  BY <1>2, ItemsJoined
<1>4. WorkSeqs'
  <2> SUFFICES ASSUME NEW q \in Threads PROVE IsSeq(work'[q])
    BY DEF WorkSeqs, IsSeq, Items
  <2>. QED BY <1>1, <1>3 DEF WorkSeqs
<1>. QED BY <1>1, <1>3, <1>4

LEMMA BeginWork ==
  ASSUME WorkFn, WorkSeqs, NEW p \in Threads, NEW s, IsSeq(s), Begin(p, s)
  PROVE  /\ WorkFn' /\ WorkSeqs'
         /\ \A q \in Threads : q # p => work'[q] = work[q]
         /\ work[p] = <<>> /\ work'[p] = s
<1>1. WorkFn' /\ work'[p] = s /\ work[p] = <<>> /\ \A q \in Threads : q # p => work'[q] = work[q]
  BY DEF Begin, Idle, WorkFn
<1>2. WorkSeqs'
  <2> SUFFICES ASSUME NEW q \in Threads PROVE IsSeq(work'[q])
    BY DEF WorkSeqs, IsSeq, Items
  <2>. QED BY <1>1 DEF WorkSeqs
<1>. QED BY <1>1, <1>2

\* What is left of the work of a thread, and what a step of it may leave to do.
Ops == {"publish", "begin", "say", "preview", "status", "frame", "raw", "write", "close", "forget", "resume"}

\* Work of a thread that is not the streaming of a token.
Good(p, x) ==
  /\ IsItem(x) /\ x.op \in Ops
  /\ x.op = "publish" =>
       /\ x.event.type \notin {"assistant.token", "content_start"} /\ x.event.note # "text"
       /\ x.event.type = "tool.started" => p \in Tools /\ x.event.of \in Tools
       /\ x.event.type = "approval.requested" => x.event.of # "text"
       /\ x.event.type \in Closers => p \in {"loop", "rpc"}
  /\ x.op = "begin" => p \in Tools /\ x.event.of \in Tools
  /\ x.op \in {"say", "preview"} => x.event.type = "content_delta" /\ x.event.note # "text"
  /\ x.op = "status" => x.event.type = "status" /\ x.event.note # "text"
  /\ x.op = "frame" => x.event.note # "text" /\ ~TextStart(x.event)
  /\ x.op = "raw" => x.event.type \in {"goal_event", "message.failed"}
  /\ x.op = "resume" => p = "rpc"

\* What the item h, done, may leave to do.
From(h, x) ==
  /\ IsItem(x)
  /\ \/ h.op = "publish" /\ Derived(h.event, x)
     \/ h.op = "publish" /\ h.event.type \in ChatFrames /\ x.op = "frame" /\ x.event = h.event
     \/ /\ h.op = "begin" /\ x.op = "frame"
        /\ x.event.type = "content_start" /\ x.event.of = h.event.of /\ x.event.note = ""
     \/ h.op \in {"say", "preview", "status"} /\ x.op = "frame" /\ x.event = h.event
     \/ h.op = "close" /\ x.op = "publish" /\ x.event.type = "tool.failed" /\ x.event.note = ""
     \/ h.op = "close" /\ x.op = "forget"

LEMMA FromGood ==
  ASSUME NEW p, NEW h, Good(p, h), NEW x, From(h, x)
  PROVE  Good(p, x)
<1>0. "text" \notin Tools /\ "text" # "merge"
  BY ChatStreamAssumption
<1>1. CASE h.op = "publish" /\ Derived(h.event, x)
  <2>1. IsItem(x) /\ h.event.note # "text" /\ (h.event.type = "approval.requested" => h.event.of # "text")
        /\ (h.event.type = "tool.started" => p \in Tools /\ h.event.of \in Tools)
    BY <1>1 DEF From, Good
  <2>2. CASE x.op = "begin" /\ x.event = h.event /\ h.event.type = "tool.started"
    BY <2>1, <2>2 DEF Good, Ops
  <2>3. CASE /\ x.op = "frame" /\ x.event.note \in {"", "asked", "resolved"}
             /\ x.event.type \in {"tool_use_complete", "tool_result", "permission_request", "message_complete"}
    BY <2>1, <2>3 DEF Good, Ops, TextStart
  <2>4. CASE x.op = "say" /\ x.event.type = "content_delta" /\ x.event.note \in {"activity", h.event.note}
    BY <2>1, <2>4 DEF Good, Ops
  <2>5. CASE x.op = "preview" /\ x.event.type = "content_delta" /\ x.event.note = "result_preview"
    BY <2>1, <2>5 DEF Good, Ops
  <2>6. CASE /\ x.op = "status" /\ x.event.type = "status"
             /\ \/ x.event.note = h.event.of /\ h.event.type \in {"tool.started", "approval.requested"}
                \/ x.event.note = ""
    BY <1>0, <2>1, <2>6 DEF Good, Ops
  <2>7. CASE x.op = "raw" /\ x.event.type \in {"goal_event", "message.failed"}
    BY <2>1, <2>7 DEF Good, Ops
  <2>. QED BY <1>1, <2>2, <2>3, <2>4, <2>5, <2>6, <2>7 DEF Derived
<1>2. CASE h.op = "publish" /\ h.event.type \in ChatFrames /\ x.op = "frame" /\ x.event = h.event
  BY <1>2 DEF From, Good, Ops, TextStart
<1>3. CASE /\ h.op = "begin" /\ x.op = "frame"
           /\ x.event.type = "content_start" /\ x.event.of = h.event.of /\ x.event.note = ""
  BY <1>0, <1>3 DEF From, Good, Ops, TextStart
<1>4. CASE h.op \in {"say", "preview", "status"} /\ x.op = "frame" /\ x.event = h.event
  BY <1>4 DEF From, Good, Ops, TextStart
<1>5. CASE h.op = "close" /\ x.op = "publish" /\ x.event.type = "tool.failed" /\ x.event.note = ""
  BY <1>5 DEF From, Good, Ops, Closers, TaskEnds
<1>6. CASE h.op = "close" /\ x.op = "forget"
  BY <1>6 DEF From, Good, Ops
<1>. QED BY <1>1, <1>2, <1>3, <1>4, <1>5, <1>6 DEF From

\* What a step of a thread p whose work begins with h may do to the work.
Stepped(p, h) ==
  /\ WorkFn' /\ WorkSeqs'
  /\ \A q \in Threads : q # p => work'[q] = work[q]
  /\ \A x \in Items(work'[p]) : x \in Items(work[p]) \/ From(h, x)
  /\ \E s : /\ IsSeq(s) /\ \A x \in Items(s) : From(h, x)
            /\ work'[p] = s \o Tail(work[p])

LEMMA SteppedBy ==
  ASSUME WorkFn, WorkSeqs, NEW p \in Threads, work[p] # <<>>,
         NEW h, NEW s, IsSeq(s), \A x \in Items(s) : From(h, x), Then(p, s)
  PROVE  Stepped(p, h)
<1>1. WorkFn' /\ WorkSeqs'
  BY ThenWork
<1>2. \A q \in Threads : q # p => work'[q] = work[q]
  BY ThenWork
<1>3. Items(work'[p]) \subseteq Items(s) \cup Items(work[p])
  BY ThenWork
<1>4. work'[p] = s \o Tail(work[p])
  BY ThenWork
<1>5. \A x \in Items(work'[p]) : x \in Items(work[p]) \/ From(h, x)
  BY <1>3
<1>. QED BY <1>1, <1>2, <1>4, <1>5 DEF Stepped

LEMMA SteppedOne ==
  ASSUME WorkFn, WorkSeqs, NEW p \in Threads, work[p] # <<>>,
         NEW h, NEW a, From(h, a), Then(p, <<a>>)
  PROVE  Stepped(p, h)
<1> DEFINE s == <<a>>
<1>1. IsSeq(s) /\ Items(s) \subseteq {a}
  BY Items1
<1>2. Then(p, s)
  OBVIOUS
<1>. HIDE DEF s
<1>3. \A x \in Items(s) : From(h, x)
  BY <1>1
<1>. QED BY <1>1, <1>2, <1>3, SteppedBy

LEMMA SteppedNone ==
  ASSUME WorkFn, WorkSeqs, NEW p \in Threads, work[p] # <<>>, NEW h, Then(p, <<>>)
  PROVE  Stepped(p, h)
<1> DEFINE s == << >>
<1>1. IsSeq(s) /\ Items(s) = {}
  BY NoItems
<1>2. Then(p, s)
  OBVIOUS
<1>. HIDE DEF s
<1>. QED BY <1>1, <1>2, SteppedBy

\* A step of a thread leaves the rest of its work, and what its head makes.
LEMMA StepWork ==
  ASSUME WorkFn, WorkSeqs, NEW p \in Threads, \A x \in Items(work[p]) : Good(p, x), Step(p)
  PROVE  /\ Stepped(p, Head(work[p]))
         /\ work[p] # <<>> /\ Head(work[p]) \in Items(work[p])
<1> DEFINE h == Head(work[p])
           e == h.event
<1>1. work[p] # <<>>
  BY DEF Step, Next1, PublishEvent, OpenText, BindBlock, BeginTool, SayOutput, SayPreview, ShowStatus, SendFrame,
     SendRaw, WriteStatus, ClosePendingCall, ForgetPending, ResumeCall
<1>2. h \in Items(work[p]) /\ Good(p, h)
  BY <1>1, ItemsTail DEF WorkSeqs
<1>3. E(p) = e /\ IsEvent(e) /\ (h.op = "publish" => e.type # "assistant.token")
  BY <1>2 DEF E, Good, IsItem
<1>4. IsItem(h) /\ WorkFn /\ WorkSeqs
  BY <1>2 DEF Good
<1> SUFFICES Stepped(p, h)
  BY <1>1, <1>2
<1>. HIDE DEF e
<1>7. CASE PublishEvent(p)
  <2>1. h.op = "publish"
    BY <1>7 DEF PublishEvent, Next1
  <2>2. \/ Then(p, <<>>)
        \/ e.type \in ChatFrames /\ Then(p, <<Do("frame", e)>>)
        \/ /\ e.type \notin ChatFrames
           /\ \E a \in {Frames(e), <<>>}, b \in {RawEvent(e), <<>>} : Then(p, a \o b)
    BY <1>3, <1>7 DEF PublishEvent
  <2>3. CASE e.type \in ChatFrames /\ Then(p, <<Do("frame", e)>>)
    <3> DEFINE a == Do("frame", e)
    <3>1. IsItem(a) /\ a.op = "frame" /\ a.event = e
      BY <1>3, DoEvent
    <3>2. Then(p, <<a>>)
      BY <2>3
    <3>. HIDE DEF a
    <3>3. From(h, a)
      BY <1>3, <2>1, <2>3, <3>1 DEF From, e
    <3>. HIDE DEF h
    <3>. QED BY <1>1, <1>4, <3>2, <3>3, SteppedOne
  <2>4. ASSUME e.type \notin ChatFrames, NEW a \in {Frames(e), <<>>}, NEW b \in {RawEvent(e), <<>>}, Then(p, a \o b)
        PROVE  Stepped(p, h)
    <3>1. IsSeq(a) /\ \A x \in Items(a) : IsItem(x) /\ Derived(e, x)
      <4>1. CASE a = Frames(e)
        BY <1>3, <2>1, <4>1, FramesAre
      <4>2. CASE a = <<>>
        BY <4>2, NoItems
      <4>. QED BY <2>4, <4>1, <4>2
    <3>2. IsSeq(b) /\ \A x \in Items(b) : IsItem(x) /\ Derived(e, x)
      <4>1. CASE b = RawEvent(e)
        BY <1>3, <2>4, <4>1, RawIs DEF Derived
      <4>2. CASE b = <<>>
        BY <4>2, NoItems
      <4>. QED BY <2>4, <4>1, <4>2
    <3>3. IsSeq(a \o b) /\ Items(a \o b) \subseteq Items(a) \cup Items(b)
      BY <3>1, <3>2, ItemsJoined
    <3>4. \A x \in Items(a \o b) : From(h, x)
      BY <2>1, <3>1, <3>2, <3>3 DEF From, e
    <3> DEFINE c == a \o b
    <3>5. IsSeq(c) /\ (\A x \in Items(c) : From(h, x)) /\ Then(p, c)
      BY <2>4, <3>3, <3>4
    <3>. HIDE DEF h, c
    <3>. QED BY <1>1, <1>4, <3>5, SteppedBy
  <2>5. Then(p, <<>>) => Stepped(p, h)
    <3>. HIDE DEF h
    <3>. QED BY <1>1, <1>4, SteppedNone
  <2>. HIDE DEF h
  <2>. QED BY <2>2, <2>3, <2>4, <2>5
<1>5. Then(p, <<>>) => Stepped(p, h)
  <2>. HIDE DEF h
  <2>. QED BY <1>1, <1>4, SteppedNone
<1>6. ASSUME NEW a, From(h, a), Then(p, <<a>>) PROVE Stepped(p, h)
  <2>. HIDE DEF h
  <2>. QED BY <1>1, <1>4, <1>6, SteppedOne
<1>8. CASE OpenText(p) \/ BindBlock(p)
  BY <1>2, <1>8 DEF OpenText, BindBlock, Next1, Good, Ops
<1>9. CASE BeginTool(p)
  <2> DEFINE f == Event("content_start", e.of, "", {})
             a == Do("frame", f)
  <2>1. h.op = "begin" /\ (Then(p, <<>>) \/ Then(p, <<a>>))
    BY <1>3, <1>9 DEF BeginTool, Next1, Frame
  <2>2. IsEvent(f) /\ f.type = "content_start" /\ f.of = e.of /\ f.note = ""
    BY DEF IsEvent, Event
  <2>. HIDE DEF f
  <2>3. IsItem(a) /\ a.op = "frame" /\ a.event = f
    BY <2>2, DoEvent, ZenonT(40)
  <2>. HIDE DEF a
  <2>4. From(h, a)
    BY <2>1, <2>2, <2>3 DEF From, e
  <2>. HIDE DEF h
  <2>. QED BY <1>5, <1>6, <2>1, <2>4
<1>10. CASE SayOutput(p) \/ SayPreview(p) \/ ShowStatus(p)
  <2> DEFINE a == Do("frame", e)
  <2>1. h.op \in {"say", "preview", "status"} /\ (Then(p, <<>>) \/ Then(p, <<a>>))
    <3>1. CASE SayOutput(p)
      BY <1>3, <3>1 DEF SayOutput, Next1
    <3>2. CASE SayPreview(p)
      BY <1>3, <3>2 DEF SayPreview, Next1
    <3>3. CASE ShowStatus(p)
      BY <1>3, <3>3 DEF ShowStatus, Next1
    <3>. QED BY <1>10, <3>1, <3>2, <3>3
  <2>3. IsItem(a) /\ a.op = "frame" /\ a.event = e
    BY <1>3, DoEvent
  <2>. HIDE DEF a
  <2>2. From(h, a)
    BY <2>1, <2>3 DEF From, e
  <2>. HIDE DEF h
  <2>. QED BY <1>5, <1>6, <2>1, <2>2
<1>11. CASE SendFrame(p) \/ SendRaw(p) \/ WriteStatus(p) \/ ForgetPending(p) \/ ResumeCall(p)
  <2>1. Then(p, <<>>)
    BY <1>11 DEF SendFrame, SendRaw, WriteStatus, ForgetPending, ResumeCall
  <2>. HIDE DEF h
  <2>. QED BY <1>5, <2>1
<1>12. CASE ClosePendingCall(p)
  <2> DEFINE f == Event("tool.failed", pend, "", {"plain"})
             a == Do("publish", f)
             b == Do("forget", e)
             c == <<a, b>>
  <2>1. h.op = "close" /\ (Then(p, <<>>) \/ Then(p, c))
    BY <1>3, <1>12 DEF ClosePendingCall, Next1, Publish
  <2>2. IsEvent(f) /\ f.type = "tool.failed" /\ f.note = ""
    BY DEF IsEvent, Event
  <2>3. From(h, a)
    <3>1. IsItem(a) /\ a.op = "publish" /\ a.event = f
      <4>. HIDE DEF f
      <4>. QED BY <2>2, DoEvent
    <3>. HIDE DEF a, f
    <3>. QED BY <2>1, <2>2, <3>1 DEF From
  <2>5. From(h, b)
    <3>1. IsItem(b) /\ b.op = "forget"
      BY <1>3, DoEvent
    <3>. HIDE DEF b
    <3>. QED BY <2>1, <3>1 DEF From
  <2>4. IsSeq(c) /\ Items(c) \subseteq {a, b}
    <3>. HIDE DEF a, b
    <3>. QED BY Items2
  <2>. HIDE DEF h, a, b, c, f
  <2>6. \A x \in Items(c) : From(h, x)
    BY <2>3, <2>4, <2>5
  <2>. QED BY <1>1, <1>4, <1>5, <2>1, <2>4, <2>6, SteppedBy
<1>. HIDE DEF h
<1>. QED BY <1>7, <1>8, <1>9, <1>10, <1>11, <1>12 DEF Step

-----------------------------------------------------------------------------
(* The inductive invariant.                                                *)

\* The items a token's publication becomes.
TokenEvent == Event("assistant.token", "text", "", {"plain"})
Opens == Do("open", TokenEvent)
Binds == Do("bind", TokenEvent)
Delivers(j) == Do("frame", [Event("content_delta", "text", "text", {"plain"}) EXCEPT !.index = j])
Announces(j) == Do("frame", [Event("content_start", "text", "", {}) EXCEPT !.index = j])

NoCancel == "task.cancel" \notin history

\* What is left of a token's publication.
Tokening ==
  LET w == work["loop"]
  IN \/ w = <<Do("publish", TokenEvent)>>
     \/ w = <<Opens, Binds, Opens, Delivers(0)>>
     \/ /\ w = <<Announces(text.index)>> \o <<Binds, Opens, Delivers(0)>>
        /\ text.known /\ (NoCancel => text.open) /\ chat.block < text.index
     \/ w = <<Binds, Opens, Delivers(0)>> /\ (NoCancel => text.open)
     \/ \E j \in Nat : /\ w = <<Opens, Delivers(j)>>
                       /\ NoCancel => text.open /\ j = text.index
     \/ \E j \in Nat : /\ w = <<Announces(text.index)>> \o <<Delivers(j)>>
                       /\ text.known /\ ~NoCancel /\ chat.block < text.index
     \/ \E j \in Nat : w = <<Delivers(j)>> /\ (NoCancel => j = chat.block)

Announcing == work["loop"] # <<>> /\ Head(work["loop"]) = Announces(text.index)

Works ==
  \A p \in Threads :
    (\A x \in Items(work[p]) : Good(p, x)) \/ (p = "loop" /\ pc = "stream" /\ Tokening)

\* The text block: its number is that of the one announced last, or it is being announced.
TextOK ==
  /\ text = [known |-> text.known, open |-> text.open, index |-> text.index]
  /\ text.index \in Nat /\ chat.block \in Nat
  /\ text.open => text.known
  /\ text.known => chat.block = text.index \/ (Announcing /\ chat.block < text.index)

Closing(x) == x.op = "publish" /\ x.event.type \in Closers

\* A request resumes the loop last.
ResumesLast(w) == \A i \in 1 .. Len(w) : w[i].op = "resume" => i = Len(w)

\* Where the loop is tells what the tools and the requests may be at.
Phases ==
  /\ tool = [t \in Tools |-> tool[t]] /\ approval = [c \in Cards |-> approval[c]]
  /\ pend \in Gated \cup {"none"}
  /\ pend # "none" => approval[pend] # "none" /\ (approval[pend] = "pending" => pc = "waiting")
  /\ \A t \in Tools : tool[t] = "asked" => t \in Gated /\ approval[t] # "none"
  /\ pc \in {"top", "stream"} =>
       \A t \in Tools : tool[t] \in {"idle", "done"} /\ work[t] = <<>>
  /\ \A x \in Items(work["rpc"]) :
       /\ x.op = "resume" => /\ pc = "waiting"
                             /\ pend # "none" => approval[pend] # "pending"
                             /\ \A y \in Items(work["rpc"]) : ~Closing(y)
       /\ Closing(x) /\ NoCancel => pc = "waiting"
  /\ ResumesLast(work["rpc"])

ViewsOK == IsView(chat) /\ IsView(log) /\ Same(chat, log)

CSInv == WorkFn /\ WorkSeqs /\ Works /\ TextOK /\ Phases /\ ViewsOK /\ TextInItsBlock

-----------------------------------------------------------------------------
(* A step of a thread whose work is not the streaming of a token.          *)

\* A handler goes on with neither a resumption nor an end of the task.
LEMMA FromNot ==
  ASSUME NEW h, NEW x, From(h, x)
  PROVE  x.op # "resume" /\ ~Closing(x)
<1>1. x.op = "publish" => x.event.type = "tool.failed"
  BY DEF From, Derived
<1>2. x.op # "resume"
  BY DEF From, Derived
<1>. QED BY <1>1, <1>2 DEF Closing, Closers, TaskEnds

\* What a request resumes it resumes last, whatever goes before.
LEMMA LastKept ==
  ASSUME NEW w, IsSeq(w), w # << >>, ResumesLast(w),
         NEW s, IsSeq(s), \A x \in Items(s) : x.op # "resume"
  PROVE  ResumesLast(s \o Tail(w))
<1> DEFINE t == Tail(w)
           S == Items(s) \cup Items(w)
           n == Len(s)
<1>1. s \in Seq(S) /\ w \in Seq(S)
  BY DEF IsSeq
<1>2. n \in Nat /\ Len(w) \in Nat /\ Len(w) > 0 /\ t \in Seq(S) /\ Len(t) = Len(w) - 1
      /\ \A i \in 1 .. Len(t) : t[i] = w[i + 1]
  BY <1>1, HeadTailProperties, EmptySeq
<1>3. Len(s \o t) = n + Len(t) /\ \A i \in 1 .. (n + Len(t)) : (s \o t)[i] = IF i <= n THEN s[i] ELSE t[i - n]
  BY <1>1, <1>2, ConcatProperties
<1>. HIDE DEF t
<1>4. SUFFICES ASSUME NEW i \in 1 .. (n + Len(t)), (s \o t)[i].op = "resume" PROVE i = n + Len(t)
  BY <1>3 DEF ResumesLast, t
<1>5. CASE i <= n
  <2>1. s[i] \in Items(s) /\ (s \o t)[i] = s[i]
    BY <1>2, <1>3, <1>5 DEF Items
  <2>. QED BY <1>4, <2>1
<1>6. CASE ~(i <= n)
  <2>0. i - n \in 1 .. Len(t)
    BY <1>2, <1>6
  <2>1. i - n \in 1 .. Len(t) /\ (s \o t)[i] = t[i - n] /\ t[i - n] = w[(i - n) + 1]
    BY <1>2, <1>3, <1>6, <2>0
  <2>2. (i - n) + 1 \in 1 .. Len(w)
    BY <1>2, <2>1
  <2>3. (i - n) + 1 = Len(w)
    BY <1>4, <2>1, <2>2 DEF ResumesLast
  <2>. QED BY <1>2, <2>1, <2>3
<1>. QED BY <1>5, <1>6

LEMMA HeadResumes ==
  ASSUME NEW w, IsSeq(w), w # << >>, ResumesLast(w), Head(w).op = "resume"
  PROVE  Tail(w) = << >>
<1>1. Len(w) \in Nat /\ Len(w) > 0 /\ Head(w) = w[1]
  BY EmptySeq DEF IsSeq
<1>2. Len(w) = 1
  <2>1. 1 \in 1 .. Len(w) /\ w[1].op = "resume"
    BY <1>1
  <2>. QED BY <2>1 DEF ResumesLast
<1>3. Tail(w) \in Seq(Items(w)) /\ Len(Tail(w)) = 0
  BY <1>2, HeadTailProperties DEF IsSeq
<1>. QED BY <1>3, EmptySeq

LEMMA TokeningKept ==
  ASSUME Tokening, work'["loop"] = work["loop"], chat'.block = chat.block,
         text'.index = text.index, text.known => text'.known, NoCancel' => NoCancel,
         NoCancel' /\ text.open => text'.open
  PROVE  Tokening'
BY DEF Tokening

\* The step shows the client and the trace the same, and announces no text block.
LEMMA GoodViews ==
  ASSUME ViewsOK, NEW p, Good(p, Head(work[p])), Step(p)
  PROVE  ViewsOK' /\ chat'.block = chat.block /\ chat'.wrong = chat.wrong
<1> DEFINE f == E(p)
<1>1. CASE SendFrame(p)
  <2>1. f.note # "text" /\ ~TextFrame(f) /\ ~TextStart(f)
    BY <1>1 DEF SendFrame, Next1, Good, E, TextFrame
  <2>2. Sent(Compat(f), f)
    BY <1>1, <2>1 DEF SendFrame
  <2>3. Live(Compat(f)) <=> Replayed(Compat(f))
    BY <2>1, FrameSame
  <2>. HIDE DEF f
  <2>4. CASE Live(Compat(f))
    <3>1. chat' = Shown(chat, f) /\ log' = Shown(log, f)
      BY <2>2, <2>3, <2>4 DEF Sent
    <3>. QED BY <2>1, <3>1, ShownView, ShownSame, ShownOther DEF ViewsOK
  <2>5. CASE ~Live(Compat(f))
    <3>1. chat' = chat /\ log' = log
      BY <2>2, <2>3, <2>5 DEF Sent
    <3>. QED BY <3>1 DEF ViewsOK, IsView, Same
  <2>. QED BY <2>4, <2>5
<1>2. CASE SendRaw(p)
  <2>1. ~TextFrame(f) /\ ~TextStart(f)
    BY <1>2 DEF SendRaw, Next1, Good, E, TextFrame, TextStart
  <2>2. Sent(Raw(f.type), f)
    BY <1>2 DEF SendRaw
  <2>3. Live(Raw(f.type)) <=> Replayed(Raw(f.type))
    BY RawSame
  <2>. HIDE DEF f
  <2>4. CASE Live(Raw(f.type))
    <3>1. chat' = Shown(chat, f) /\ log' = Shown(log, f)
      BY <2>2, <2>3, <2>4 DEF Sent
    <3>. QED BY <2>1, <3>1, ShownView, ShownSame, ShownOther DEF ViewsOK
  <2>5. CASE ~Live(Raw(f.type))
    <3>1. chat' = chat /\ log' = log
      BY <2>2, <2>3, <2>5 DEF Sent
    <3>. QED BY <3>1 DEF ViewsOK, IsView, Same
  <2>. QED BY <2>4, <2>5
<1>3. CASE UNCHANGED views
  BY <1>3 DEF views, ViewsOK, IsView, Same
<1>. QED BY <1>1, <1>2, <1>3 DEF Step, PublishEvent, OpenText, BindBlock, BeginTool, SayOutput, SayPreview, ShowStatus,
     WriteStatus, ClosePendingCall, ForgetPending, ResumeCall

\* It leaves the text block, or closes it.
LEMMA GoodText ==
  ASSUME NEW p, Good(p, Head(work[p])), Step(p)
  PROVE  \/ text' = text
         \/ /\ text' = [text EXCEPT !.open = FALSE]
            /\ Closing(Head(work[p])) \/ Head(work[p]).op = "begin"
<1>1. CASE PublishEvent(p)
  BY <1>1 DEF PublishEvent, Next1, E, Closing
<1>2. CASE OpenText(p) \/ BindBlock(p)
  BY <1>2 DEF OpenText, BindBlock, Next1, Good, Ops
<1>3. CASE BeginTool(p)
  BY <1>3 DEF BeginTool, Next1
<1>4. CASE text' = text
  BY <1>4
<1>5. CASE SayOutput(p) \/ SayPreview(p) \/ ShowStatus(p)
  BY <1>5 DEF SayOutput, SayPreview, ShowStatus
<1>6. CASE SendFrame(p) \/ SendRaw(p) \/ WriteStatus(p) \/ ClosePendingCall(p) \/ ForgetPending(p) \/ ResumeCall(p)
  BY <1>6 DEF memory, SendFrame, SendRaw, WriteStatus, ClosePendingCall, ForgetPending, ResumeCall
<1>. QED BY <1>1, <1>2, <1>3, <1>5, <1>6 DEF Step

\* It leaves the loop and the tools, or resumes the waiting call.
LEMMA GoodRun ==
  ASSUME NEW p, Step(p)
  PROVE  /\ approval' = approval /\ crashes' = crashes
         /\ history' \in {history, history \cup {"cancel"}}
         /\ \/ pc' = pc /\ tool' = tool /\ pend' \in {pend, "none"}
            \/ /\ Head(work[p]).op = "resume" /\ pc' = "tools" /\ pend' = pend
               /\ tool' = [tool EXCEPT ![E(p).of] = "ready"]
<1>1. CASE PublishEvent(p) \/ OpenText(p) \/ BindBlock(p) \/ BeginTool(p) \/ SayOutput(p) \/ SayPreview(p)
           \/ ShowStatus(p) \/ SendFrame(p) \/ SendRaw(p)
  BY <1>1 DEF run, PublishEvent, OpenText, BindBlock, BeginTool, SayOutput, SayPreview, ShowStatus, SendFrame, SendRaw
<1>2. CASE WriteStatus(p)
  BY <1>2 DEF WriteStatus
<1>3. CASE ClosePendingCall(p)
  BY <1>3 DEF ClosePendingCall
<1>4. CASE ForgetPending(p)
  BY <1>4 DEF ForgetPending
<1>5. CASE ResumeCall(p)
  BY <1>5 DEF ResumeCall, Next1
<1>. QED BY <1>1, <1>2, <1>3, <1>4, <1>5 DEF Step

LEMMA ThreadsAre == /\ "loop" \in Threads /\ "rpc" \in Threads /\ Tools \subseteq Threads
                    /\ "loop" \notin Tools /\ "rpc" \notin Tools
                    /\ \A p \in Threads : p \in Tools \/ p = "loop" \/ p = "rpc"
BY ChatStreamAssumption DEF Threads

\* It keeps the loop, the tools and the requests in step.
LEMMA GoodPhases ==
  ASSUME Phases, WorkSeqs, NEW p \in Threads, Step(p), work[p] # <<>>,
         Good(p, Head(work[p])), Stepped(p, Head(work[p]))
  PROVE  Phases'
<1> DEFINE h == Head(work[p])
           w == work["rpc"]
<1>1. /\ approval' = approval /\ (NoCancel' => NoCancel)
      /\ \/ pc' = pc /\ tool' = tool /\ pend' \in {pend, "none"}
         \/ /\ h.op = "resume" /\ pc' = "tools" /\ pend' = pend
            /\ tool' = [tool EXCEPT ![E(p).of] = "ready"]
  BY GoodRun DEF NoCancel
<1>2. /\ \A q \in Threads : q # p => work'[q] = work[q]
      /\ \A x \in Items(work'[p]) : x \in Items(work[p]) \/ From(h, x)
      /\ \E s : /\ IsSeq(s) /\ \A x \in Items(s) : From(h, x)
                /\ work'[p] = s \o Tail(work[p])
  BY DEF Stepped
<1>. HIDE DEF h
<1>3. ResumesLast(work'["rpc"])
  <2>1. CASE p = "rpc"
    <3>1. PICK s : IsSeq(s) /\ (\A x \in Items(s) : From(h, x)) /\ work'[p] = s \o Tail(work[p])
      BY <1>2
    <3>2. \A x \in Items(s) : x.op # "resume"
      BY <3>1, FromNot
    <3>3. IsSeq(w) /\ w # << >> /\ ResumesLast(w)
      BY <2>1 DEF WorkSeqs, Phases
    <3>. QED BY <2>1, <3>1, <3>2, <3>3, LastKept
  <2>2. CASE p # "rpc"
    BY <1>2, <2>2, ThreadsAre DEF Phases
  <2>. QED BY <2>1, <2>2
<1>4. \A x \in Items(work'["rpc"]) : x \in Items(w) \/ (x.op # "resume" /\ ~Closing(x))
  <2>1. CASE p = "rpc"
    BY <1>2, <2>1, FromNot
  <2>2. CASE p # "rpc"
    <3>1. work'["rpc"] = w
      BY <1>2, <2>2, ThreadsAre
    <3>. QED BY <3>1
  <2>. QED BY <2>1, <2>2
<1>5. tool' = [t \in Tools |-> tool'[t]] /\ approval' = [c \in Cards |-> approval'[c]] /\ pend' \in Gated \cup {"none"}
  BY <1>1 DEF Phases
<1>6. CASE pc' = pc /\ tool' = tool /\ pend' \in {pend, "none"}
  <2>1. pend' # "none" => approval'[pend'] # "none" /\ (approval'[pend'] = "pending" => pc' = "waiting")
    BY <1>1, <1>6 DEF Phases
  <2>2. \A t \in Tools : tool'[t] = "asked" => t \in Gated /\ approval'[t] # "none"
    BY <1>1, <1>6 DEF Phases
  <2>3. pc' \in {"top", "stream"} => \A t \in Tools : tool'[t] \in {"idle", "done"} /\ work'[t] = <<>>
    <3> SUFFICES ASSUME pc' \in {"top", "stream"}, NEW t \in Tools PROVE tool'[t] \in {"idle", "done"} /\ work'[t] = <<>>
      OBVIOUS
    <3>1. tool[t] \in {"idle", "done"} /\ work[t] = <<>> /\ t \in Threads
      BY <1>6, ThreadsAre DEF Phases
    <3>. QED BY <1>2, <1>6, <3>1
  <2>4. ASSUME NEW x \in Items(work'["rpc"])
        PROVE  /\ x.op = "resume" => /\ pc' = "waiting"
                                     /\ pend' # "none" => approval'[pend'] # "pending"
                                     /\ \A y \in Items(work'["rpc"]) : ~Closing(y)
               /\ Closing(x) /\ NoCancel' => pc' = "waiting"
    <3>1. CASE x \notin Items(w)
      BY <1>4, <2>4, <3>1
    <3>2. CASE x \in Items(w)
      <4>1. /\ x.op = "resume" => /\ pc = "waiting"
                                  /\ pend # "none" => approval[pend] # "pending"
                                  /\ \A y \in Items(w) : ~Closing(y)
            /\ Closing(x) /\ NoCancel => pc = "waiting"
        BY <3>2 DEF Phases
      <4>2. x.op = "resume" => \A y \in Items(work'["rpc"]) : ~Closing(y)
        BY <1>4, <4>1
      <4>3. x.op = "resume" => pc' = "waiting" /\ (pend' # "none" => approval'[pend'] # "pending")
        BY <1>1, <1>6, <4>1
      <4>. QED BY <1>1, <1>6, <4>1, <4>2, <4>3
    <3>. QED BY <3>1, <3>2
  <2>5. \A x \in Items(work'["rpc"]) :
               /\ x.op = "resume" => /\ pc' = "waiting"
                                     /\ pend' # "none" => approval'[pend'] # "pending"
                                     /\ \A y \in Items(work'["rpc"]) : ~Closing(y)
               /\ Closing(x) /\ NoCancel' => pc' = "waiting"
    BY <2>4
  <2>. QED BY <1>3, <1>5, <2>1, <2>2, <2>3, <2>5 DEF Phases, ResumesLast, Closing
<1>7. CASE /\ h.op = "resume" /\ pc' = "tools" /\ pend' = pend
           /\ tool' = [tool EXCEPT ![E(p).of] = "ready"] /\ p = "rpc"
  <2>1. h \in Items(w) /\ Tail(w) = << >>
    <3>1. IsSeq(w) /\ w # <<>> /\ ResumesLast(w) /\ Head(w).op = "resume"
      BY <1>7 DEF WorkSeqs, Phases, h
    <3>. QED BY <1>7, <3>1, HeadResumes, ItemsTail DEF h
  <2>2. pend # "none" => approval[pend] # "pending"
    BY <1>7, <2>1 DEF Phases
  <2>3. pend' # "none" => approval'[pend'] # "none" /\ (approval'[pend'] = "pending" => pc' = "waiting")
    BY <1>1, <1>7, <2>2 DEF Phases
  <2>4. \A t \in Tools : tool'[t] = "asked" => t \in Gated /\ approval'[t] # "none"
    <3> SUFFICES ASSUME NEW t \in Tools, tool'[t] = "asked" PROVE t \in Gated /\ approval'[t] # "none"
      OBVIOUS
    <3>1. tool[t] = "asked"
      BY <1>7 DEF Phases
    <3>. QED BY <1>1, <3>1 DEF Phases
  <2>5. \A x \in Items(work'["rpc"]) : x.op # "resume" /\ ~Closing(x)
    <3>1. PICK s : IsSeq(s) /\ (\A x \in Items(s) : From(h, x)) /\ work'[p] = s \o Tail(work[p])
      BY <1>2
    <3>2. Items(work'["rpc"]) \subseteq Items(s) \cup Items(<< >>)
      BY <1>7, <2>1, <3>1, NoItems, ItemsJoined
    <3>. QED BY <3>1, <3>2, FromNot, NoItems
  <2>. QED BY <1>3, <1>5, <1>7, <2>3, <2>4, <2>5 DEF Phases, ResumesLast, Closing
<1>8. h.op = "resume" => p = "rpc"
  BY DEF Good, h
<1>. QED BY <1>1, <1>6, <1>7, <1>8

\* A step of a thread whose work is good, beside a token's publication.
LEMMA GoodStep ==
  ASSUME CSInv, NEW p \in Threads, \A x \in Items(work[p]) : Good(p, x), Step(p)
  PROVE  CSInv'
<1> DEFINE h == Head(work[p])
<1>1. Stepped(p, h) /\ work[p] # <<>> /\ h \in Items(work[p]) /\ Good(p, h)
  BY StepWork DEF CSInv
<1>2. Phases'
  BY <1>1, GoodPhases DEF CSInv
<1>3. ViewsOK' /\ chat'.block = chat.block /\ chat'.wrong = chat.wrong
  BY <1>1, GoodViews DEF CSInv
<1>4. \/ text' = text
      \/ text' = [text EXCEPT !.open = FALSE] /\ (Closing(h) \/ h.op = "begin")
  BY <1>1, GoodText
<1>5. /\ NoCancel' => NoCancel
      /\ pc' = pc \/ (h.op = "resume" /\ pc' = "tools")
  BY GoodRun DEF NoCancel
<1>6. TextInItsBlock'
  BY <1>3, <1>5 DEF CSInv, TextInItsBlock, NoCancel
<1>7. /\ WorkFn' /\ WorkSeqs'
      /\ \A q \in Threads : q # p => work'[q] = work[q]
      /\ \A x \in Items(work'[p]) : x \in Items(work[p]) \/ From(h, x)
  BY <1>1 DEF Stepped
<1>. HIDE DEF h
<1>8. text'.index = text.index /\ (text.known <=> text'.known)
      /\ text' = [known |-> text'.known, open |-> text'.open, index |-> text'.index]
      /\ (text'.open => text.open)
  BY <1>4 DEF CSInv, TextOK
<1>9. TextOK'
  <2>1. p = "loop" => ~Announcing
    <3>1. ~Good("loop", Announces(text.index))
      BY DEF Good, Announces, Do, Event, TextStart
    <3>. QED BY <1>1, <3>1 DEF Announcing, h
  <2>2. Announcing /\ p # "loop" => Announcing'
    <3>1. p # "loop" => work'["loop"] = work["loop"]
      BY <1>7, ThreadsAre
    <3>. QED BY <1>8, <3>1 DEF Announcing
  <2>3. /\ text.index \in Nat /\ chat.block \in Nat /\ (text.open => text.known)
        /\ text.known => chat.block = text.index \/ (Announcing /\ chat.block < text.index)
    BY DEF CSInv, TextOK
  <2>. QED BY <1>3, <1>8, <2>1, <2>2, <2>3 DEF TextOK
<1>10. Works'
  <2> SUFFICES ASSUME NEW q \in Threads
               PROVE  (\A x \in Items(work'[q]) : Good(q, x)) \/ (q = "loop" /\ pc' = "stream" /\ Tokening')
    BY DEF Works, Good
  <2>1. CASE q = p
    BY <1>1, <1>7, <2>1, FromGood
  <2>2. CASE q # p /\ \A x \in Items(work[q]) : Good(q, x)
    BY <1>7, <2>2
  <2>3. CASE q # p /\ q = "loop" /\ pc = "stream" /\ Tokening
    <3>1. p \in Tools \/ p = "rpc"
      BY <2>3, ThreadsAre
    <3>2. p \notin Tools
      BY <1>1, <2>3 DEF CSInv, Phases
    <3>3. p = "rpc" /\ h \in Items(work["rpc"])
      BY <1>1, <3>1, <3>2
    <3>4. h.op # "resume" /\ (Closing(h) => ~NoCancel)
      BY <2>3, <3>3 DEF CSInv, Phases
    <3>5. h.op # "begin"
      BY <1>1, <3>2 DEF Good
    <3>6. pc' = "stream" /\ (NoCancel' /\ text.open => text'.open)
      BY <1>4, <1>5, <2>3, <3>4, <3>5
    <3>7. work'["loop"] = work["loop"]
      BY <1>7, <2>3
    <3>8. Tokening'
      BY <1>3, <1>5, <1>8, <2>3, <3>6, <3>7, TokeningKept
    <3>. QED BY <2>3, <3>6, <3>8
  <2>. QED BY <2>1, <2>2, <2>3 DEF CSInv, Works
<1>. QED BY <1>2, <1>3, <1>6, <1>7, <1>9, <1>10 DEF CSInv

-----------------------------------------------------------------------------
(* The streaming of a token, item by item.                                 *)

LEMMA PhasesKept ==
  ASSUME Phases, UNCHANGED run, \A q \in Threads : q # "loop" => work'[q] = work[q]
  PROVE  Phases'
<1>1. work'["rpc"] = work["rpc"] /\ \A t \in Tools : work'[t] = work[t]
  BY ThreadsAre
<1>2. pc' = pc /\ tool' = tool /\ approval' = approval /\ pend' = pend /\ history' = history
  BY DEF run
<1>. QED BY <1>1, <1>2 DEF Phases, NoCancel, ResumesLast, Closing

\* The items of a token.
LEMMA TokenIs ==
  /\ IsEvent(TokenEvent) /\ TokenEvent.type = "assistant.token" /\ TokenEvent.note = "" /\ TokenEvent.of = "text"
  /\ \A op : Do(op, TokenEvent).op = op /\ Do(op, TokenEvent).event = TokenEvent
BY DEF TokenEvent, Event, IsEvent, Do

LEMMA DeliversIs ==
  ASSUME NEW j
  PROVE  /\ Delivers(j).op = "frame" /\ Delivers(j).event.type = "content_delta"
         /\ Delivers(j).event.note = "text" /\ Delivers(j).event.index = j
         /\ TextFrame(Delivers(j).event)
         /\ Delivers(0) = Frame("content_delta", "text", "text", {"plain"})
BY DEF Delivers, Do, Event, TextFrame, Frame

LEMMA AnnouncesIs ==
  ASSUME NEW j
  PROVE  /\ Announces(j).op = "frame" /\ Announces(j).event.type = "content_start"
         /\ Announces(j).event.note = "" /\ Announces(j).event.index = j
         /\ Announces(j).event.of = "text"
         /\ TextStart(Announces(j).event)
BY DEF Announces, Do, Event, TextStart

LEMMA StartLive == ASSUME NEW f, f.type = "content_start" PROVE Live(Compat(f)) /\ Replayed(Compat(f))
BY DEF Live, Replayed, Compat, Kept, AsKept, ShouldEmit, ToServerMessage, Recoverable, ChatFrames

LEMMA TokenFramesAre == TokenFrames(TokenEvent) = <<Opens, Binds, Opens, Delivers(0)>>
BY DeliversIs DEF TokenFrames, Opens, Binds

LEMMA NoRaw == RawEvent(TokenEvent) = << >>
<1>1. ~Live(Raw(TokenEvent.type))
  BY TokenIs DEF Live, Raw, ShouldEmit, ToServerMessage
<1>2. ~Replayed(Raw(TokenEvent.type))
  BY <1>1, RawSame
<1>. QED BY <1>1, <1>2 DEF RawEvent

LEMMA EmptyJoins ==
  ASSUME NEW s, IsSeq(s)
  PROVE  << >> \o s = s /\ s \o << >> = s
<1>1. s \in Seq(Items(s)) /\ Len(s) \in Nat /\ << >> \in Seq(Items(s)) /\ Len(<< >>) = 0
  BY DEF IsSeq
<1>2. s \o << >> = s
  BY <1>1, ConcatEmptySeq
<1>3. << >> \o s = s
  BY <1>1, ConcatEmptySeq
<1>. QED BY <1>2, <1>3

LEMMA Joins ==
  ASSUME NEW a, NEW t, IsSeq(t)
  PROVE  /\ IsSeq(<<a>> \o t) /\ <<a>> \o t # << >>
         /\ Head(<<a>> \o t) = a /\ Tail(<<a>> \o t) = t
<1> DEFINE S == Items(t) \cup {a}
<1>1. t \in Seq(S) /\ a \in S
  BY DEF IsSeq
<1>. HIDE DEF S
<1>2. <<a>> \o t \in Seq(S) /\ <<a>> \o t # << >> /\ Head(<<a>> \o t) = a /\ Tail(<<a>> \o t) = t
  BY <1>1, Cons
<1>3. IsSeq(<<a>> \o t)
  BY <1>2, SeqItems
<1>. QED BY <1>2, <1>3

LEMMA Single == ASSUME NEW a PROVE <<a>> # << >> /\ Head(<<a>>) = a /\ Tail(<<a>>) = << >>
OBVIOUS

\* A step of the loop's thread that begins with a token's item.
LEMMA TokenRest ==
  ASSUME WorkFn, NEW s, IsSeq(s), Then("loop", s)
  PROVE  /\ WorkFn' /\ work'["loop"] = s \o Tail(work["loop"])
         /\ \A q \in Threads : q # "loop" => work'[q] = work[q]
BY ThreadsAre DEF Then, WorkFn

LEMMA LoopStep ==
  ASSUME Phases, WorkSeqs, Works, UNCHANGED run, WorkFn', IsSeq(work'["loop"]),
         \A q \in Threads : q # "loop" => work'[q] = work[q],
         pc = "stream", Tokening' \/ work'["loop"] = << >>
  PROVE  Phases' /\ WorkSeqs' /\ Works'
<1>1. Phases'
  BY PhasesKept
<1>2. WorkSeqs'
  <2> SUFFICES ASSUME NEW q \in Threads PROVE IsSeq(work'[q])
    BY DEF WorkSeqs, IsSeq, Items
  <2>. QED BY DEF WorkSeqs
<1>3. Works'
  <2> SUFFICES ASSUME NEW q \in Threads
               PROVE  (\A x \in Items(work'[q]) : Good(q, x)) \/ (q = "loop" /\ pc' = "stream" /\ Tokening')
    BY DEF Works, Good
  <2>1. pc' = pc
    BY DEF run
  <2>2. CASE q = "loop"
    BY <2>1, <2>2, NoItems
  <2>3. CASE q # "loop"
    BY <2>3 DEF Works
  <2>. QED BY <2>2, <2>3
<1>. QED BY <1>1, <1>2, <1>3

\* The first item of the work decides the step.
LEMMA ActionOf ==
  ASSUME NEW p, Step(p)
  PROVE  /\ work[p] # << >>
         /\ Head(work[p]).op = "publish" => PublishEvent(p)
         /\ Head(work[p]).op = "open" => OpenText(p)
         /\ Head(work[p]).op = "bind" => BindBlock(p)
         /\ Head(work[p]).op = "frame" => SendFrame(p)
         /\ Head(work[p]).op = "begin" => BeginTool(p)
         /\ Head(work[p]).op = "say" => SayOutput(p)
         /\ Head(work[p]).op = "preview" => SayPreview(p)
         /\ Head(work[p]).op = "status" => ShowStatus(p)
         /\ Head(work[p]).op = "raw" => SendRaw(p)
         /\ Head(work[p]).op = "write" => WriteStatus(p)
         /\ Head(work[p]).op = "close" => ClosePendingCall(p)
         /\ Head(work[p]).op = "forget" => ForgetPending(p)
         /\ Head(work[p]).op = "resume" => ResumeCall(p)
BY DEF Step, Next1, PublishEvent, OpenText, BindBlock, BeginTool, SayOutput, SayPreview, ShowStatus, SendFrame,
     SendRaw, WriteStatus, ClosePendingCall, ForgetPending, ResumeCall

LEMMA SameViews ==
  ASSUME CSInv, UNCHANGED <<run, views>>
  PROVE  ViewsOK' /\ TextInItsBlock' /\ chat' = chat /\ (NoCancel <=> NoCancel')
BY DEF CSInv, run, views, ViewsOK, IsView, Same, TextInItsBlock, NoCancel

\* The token is published.
LEMMA TokenPublished ==
  ASSUME CSInv, pc = "stream", work["loop"] = <<Do("publish", TokenEvent)>>, Step("loop")
  PROVE  CSInv'
<1> DEFINE e == TokenEvent
           a == Do("publish", e)
           s == <<Opens, Binds, Opens, Delivers(0)>>
<1>1. Head(work["loop"]) = a /\ Tail(work["loop"]) = << >> /\ a.op = "publish" /\ a.event = e
  <2>1. a.op = "publish" /\ a.event = e
    BY TokenIs
  <2>2. work["loop"] = <<a>>
    OBVIOUS
  <2>. HIDE DEF a
  <2>. QED BY <2>1, <2>2, Single
<1>2. E("loop") = e /\ PublishEvent("loop") /\ Tail(work["loop"]) = << >>
  BY <1>1, ActionOf DEF E
<1>. HIDE DEF a, e
<1>3. e.type = "assistant.token" /\ e.note = "" /\ e = TokenEvent
  BY TokenIs DEF e
<1>4. /\ e.type \notin Closers /\ e.type \notin ChatFrames
      /\ Visibility(e.type) = "chat" /\ ChatVisibility(e.type, "chat") = "chat"
  BY <1>3 DEF Closers, TaskEnds, ChatFrames, Visibility, ChatVisibility, ToolEvents
<1>5. UNCHANGED <<run, text, views>> /\ (Then("loop", << >>) \/ Then("loop", Frames(e) \o RawEvent(e)))
  BY <1>2, <1>3, <1>4 DEF PublishEvent
<1>6. Frames(e) = s
  BY <1>3, TokenFramesAre DEF Frames, TaskEnds
<1>7. IsSeq(s) /\ RawEvent(e) = << >>
  BY <1>3, NoRaw, Items4
<1>. HIDE DEF s
<1>8. Then("loop", << >>) \/ Then("loop", s)
  BY <1>5, <1>6, <1>7, EmptyJoins
<1>9. /\ WorkFn' /\ (work'["loop"] = << >> \/ work'["loop"] = s)
      /\ \A q \in Threads : q # "loop" => work'[q] = work[q]
  <2>1. WorkFn
    BY DEF CSInv
  <2>2. CASE Then("loop", << >>)
    BY <1>2, <2>1, <2>2, TokenRest, NoItems, EmptyJoins
  <2>3. CASE Then("loop", s)
    BY <1>2, <1>7, <2>1, <2>3, TokenRest, EmptyJoins
  <2>. QED BY <1>8, <2>2, <2>3
<1>10. Tokening' \/ work'["loop"] = << >>
  BY <1>9 DEF Tokening, s
<1>11. IsSeq(work'["loop"])
  BY <1>7, <1>9, NoItems
<1>12. UNCHANGED run /\ UNCHANGED <<run, views>>
  BY <1>5
<1>13. Phases' /\ WorkSeqs' /\ Works'
  BY <1>9, <1>10, <1>11, <1>12, LoopStep DEF CSInv
<1>14. ViewsOK' /\ TextInItsBlock' /\ chat' = chat
  BY <1>12, SameViews
<1>15. TextOK'
  <2>1. ~Announcing
    BY <1>1, AnnouncesIs DEF Announcing
  <2>. QED BY <1>5, <1>14, <2>1 DEF CSInv, TextOK
<1>. QED BY <1>9, <1>13, <1>14, <1>15 DEF CSInv

\* What the steps of a token's work have in common.
LEMMA LoopTail ==
  ASSUME CSInv, NEW a, NEW t, IsSeq(t), Head(work["loop"]) = a, Tail(work["loop"]) = t, Step("loop")
  PROVE  /\ E("loop") = a.event
         /\ a.op = "open" => OpenText("loop")
         /\ a.op = "bind" => BindBlock("loop")
         /\ a.op = "frame" => SendFrame("loop")
         /\ Then("loop", << >>) => /\ WorkFn' /\ work'["loop"] = t
                                   /\ \A q \in Threads : q # "loop" => work'[q] = work[q]
         /\ \A b : Then("loop", <<b>>) =>
                     /\ WorkFn' /\ work'["loop"] = <<b>> \o t
                     /\ \A q \in Threads : q # "loop" => work'[q] = work[q]
<1>1. Head(work["loop"]) = a /\ Tail(work["loop"]) = t
  OBVIOUS
<1>2. E("loop") = a.event
  BY <1>1 DEF E
<1>3. WorkFn
  BY DEF CSInv
<1>4. Then("loop", << >>) => /\ WorkFn' /\ work'["loop"] = t
                            /\ \A q \in Threads : q # "loop" => work'[q] = work[q]
  <2> SUFFICES ASSUME Then("loop", << >>)
               PROVE  /\ WorkFn' /\ work'["loop"] = t
                      /\ \A q \in Threads : q # "loop" => work'[q] = work[q]
    OBVIOUS
  <2>1. WorkFn' /\ work'["loop"] = << >> \o t /\ \A q \in Threads : q # "loop" => work'[q] = work[q]
    BY <1>1, <1>3, NoItems, TokenRest
  <2>. QED BY <2>1, EmptyJoins
<1>5. ASSUME NEW b, Then("loop", <<b>>)
      PROVE  /\ WorkFn' /\ work'["loop"] = <<b>> \o t
             /\ \A q \in Threads : q # "loop" => work'[q] = work[q]
  <2> DEFINE s == <<b>>
  <2>1. IsSeq(s) /\ Then("loop", s)
    BY <1>5, Items1
  <2>. HIDE DEF s
  <2>2. WorkFn' /\ work'["loop"] = s \o t /\ \A q \in Threads : q # "loop" => work'[q] = work[q]
    BY <1>1, <1>3, <2>1, TokenRest
  <2>. QED BY <2>2 DEF s
<1>. QED BY <1>1, <1>2, <1>4, <1>5, ActionOf

\* It opens a text block, unless one is open.
LEMMA TextOpened ==
  ASSUME CSInv, Step("loop"), NEW t, IsSeq(t), Head(work["loop"]) = Opens, Tail(work["loop"]) = t
  PROVE  /\ UNCHANGED run /\ WorkFn' /\ \A q \in Threads : q # "loop" => work'[q] = work[q]
         /\ ViewsOK' /\ TextInItsBlock' /\ chat' = chat /\ (NoCancel <=> NoCancel') /\ TextOK'
         /\ text'.known /\ text'.open
         /\ \/ text.open /\ text' = text /\ work'["loop"] = t
            \/ /\ ~text.open /\ chat.block < text'.index
               /\ work'["loop"] = <<Announces(text'.index)>> \o t
<1> DEFINE w == work["loop"]
           n == 1 + (IF text.known THEN text.index ELSE Recovered)
<1>0. Opens.op = "open" /\ Head(w) = Opens
  BY TokenIs DEF Opens
<1>1. OpenText("loop") /\ ~Announcing
  <2>1. OpenText("loop")
    BY <1>0, LoopTail
  <2>2. ~Announcing
    <3>1. Announces(text.index).op = "frame"
      BY AnnouncesIs
    <3>. QED BY <1>0, <3>1 DEF Announcing
  <2>. QED BY <2>1, <2>2
<1>2. UNCHANGED <<run, views>>
  BY <1>1 DEF OpenText
<1>3. ViewsOK' /\ TextInItsBlock' /\ chat' = chat /\ (NoCancel <=> NoCancel')
  BY <1>2, SameViews
<1>4. /\ text.index \in Nat /\ chat.block \in Nat /\ (text.open => text.known)
      /\ (text.known => chat.block = text.index) /\ log.block = chat.block
      /\ text = [known |-> text.known, open |-> text.open, index |-> text.index]
  BY <1>1 DEF CSInv, TextOK, ViewsOK, Same
<1>5. CASE text.open
  <2>1. Then("loop", << >>) /\ text' = text
    BY <1>1, <1>5 DEF OpenText
  <2>2. WorkFn' /\ work'["loop"] = t /\ \A q \in Threads : q # "loop" => work'[q] = work[q]
    BY <2>1, LoopTail
  <2>3. TextOK'
    BY <1>3, <1>4, <1>5, <2>1 DEF TextOK
  <2>. QED BY <1>2, <1>3, <1>4, <1>5, <2>1, <2>2, <2>3
<1>6. CASE ~text.open
  <2>1. text' = [known |-> TRUE, open |-> TRUE, index |-> n] /\ Then("loop", <<Announces(n)>>)
    BY <1>1, <1>6 DEF OpenText, Announces
  <2>2. n \in Nat /\ chat.block < n
    BY <1>4 DEF Recovered
  <2>. HIDE DEF n
  <2>3. WorkFn' /\ work'["loop"] = <<Announces(n)>> \o t /\ \A q \in Threads : q # "loop" => work'[q] = work[q]
    BY <2>1, LoopTail
  <2>4. text'.index = n /\ text'.known /\ text'.open
        /\ text' = [known |-> text'.known, open |-> text'.open, index |-> text'.index]
    BY <2>1
  <2>5. Announcing'
    <3>1. work'["loop"] # << >> /\ Head(work'["loop"]) = Announces(n)
      BY <2>3, Joins
    <3>. QED BY <2>4, <3>1 DEF Announcing, Announces
  <2>6. TextOK'
    BY <1>3, <1>4, <2>2, <2>4, <2>5 DEF TextOK
  <2>. QED BY <1>2, <1>3, <1>6, <2>2, <2>3, <2>4, <2>6
<1>. QED BY <1>5, <1>6

\* The new block is announced, with a number above that of the last.
LEMMA BlockAnnounced ==
  ASSUME CSInv, Step("loop"), NEW t, IsSeq(t),
         Head(work["loop"]) = Announces(text.index), Tail(work["loop"]) = t,
         text.known, chat.block < text.index
  PROVE  /\ UNCHANGED run /\ WorkFn' /\ \A q \in Threads : q # "loop" => work'[q] = work[q]
         /\ ViewsOK' /\ TextInItsBlock' /\ (NoCancel <=> NoCancel') /\ TextOK'
         /\ text' = text /\ chat'.block = text.index /\ work'["loop"] = t
<1> DEFINE a == Announces(text.index)
           f == a.event
<1>0. a.op = "frame" /\ f.type = "content_start" /\ f.note = "" /\ f.index = text.index /\ TextStart(f) /\ f.note # "text"
  BY AnnouncesIs
<1>. HIDE DEF a
<1>1. E("loop") = f /\ SendFrame("loop")
  <2>1. Head(work["loop"]) = a /\ Tail(work["loop"]) = t
    BY DEF a
  <2>. QED BY <1>0, <2>1, LoopTail
<1>. HIDE DEF f
<1>2. Sent(Compat(f), f) /\ Then("loop", << >>) /\ UNCHANGED run /\ text' = text
  BY <1>0, <1>1 DEF SendFrame, memory
<1>3. chat' = Shown(chat, f) /\ log' = Shown(log, f)
  BY <1>0, <1>2, StartLive DEF Sent
<1>4. IsView(chat) /\ IsView(log) /\ Same(chat, log)
  BY DEF CSInv, ViewsOK
<1>5. ViewsOK'
  BY <1>3, <1>4, ShownView, ShownSame DEF ViewsOK
<1>6. chat'.block = text.index /\ chat'.wrong = chat.wrong
  <2>1. chat'.block = f.index /\ chat'.wrong = chat.wrong \cup (IF f.index <= chat.block THEN {"reused"} ELSE {})
    BY <1>0, <1>3, <1>4, ShownStart
  <2>2. text.index \in Nat /\ chat.block \in Nat /\ f.index = text.index
    BY <1>0 DEF CSInv, TextOK
  <2>3. ~(f.index <= chat.block)
    BY <2>2
  <2>. QED BY <1>0, <2>1, <2>3
<1>7. WorkFn' /\ work'["loop"] = t /\ \A q \in Threads : q # "loop" => work'[q] = work[q]
  BY <1>2, LoopTail
<1>8. (NoCancel <=> NoCancel') /\ history' = history
  BY <1>2 DEF run, NoCancel
<1>9. TextInItsBlock'
  BY <1>6, <1>8 DEF CSInv, TextInItsBlock
<1>10. TextOK'
  BY <1>2, <1>6 DEF CSInv, TextOK
<1>. QED BY <1>2, <1>5, <1>6, <1>7, <1>8, <1>9, <1>10

\* The delta takes the number of the open block.
LEMMA BlockBound ==
  ASSUME CSInv, Step("loop"), work["loop"] = <<Binds, Opens, Delivers(0)>>
  PROVE  /\ UNCHANGED run /\ WorkFn' /\ \A q \in Threads : q # "loop" => work'[q] = work[q]
         /\ ViewsOK' /\ TextInItsBlock' /\ (NoCancel <=> NoCancel') /\ TextOK' /\ text' = text
         /\ \E j \in Nat : work'["loop"] = <<Opens, Delivers(j)>> /\ (text.open => j = text.index)
<1> DEFINE w == work["loop"]
           block == IF text.open THEN text.index ELSE 0
<1>1. Binds.op = "bind" /\ Opens.op = "open" /\ Head(w) = Binds
  <2>1. Binds.op = "bind"
    BY DEF Binds, Do
  <2>2. Opens.op = "open"
    BY DEF Opens, Do
  <2>3. Head(w) = Binds
    OBVIOUS
  <2>. QED BY <2>1, <2>2, <2>3
<1>2. BindBlock("loop") /\ ~Announcing
  BY <1>1, ActionOf, AnnouncesIs DEF Announcing
<1>3. UNCHANGED <<run, memory, views>> /\ work' = [work EXCEPT !["loop"] = [i \in 1 .. Len(@) - 1 |-> Bound(@[i + 1], block)]]
  <2>1. UNCHANGED <<run, memory, views>>
    BY <1>2 DEF BindBlock
  <2>2. work' = [work EXCEPT !["loop"] = [i \in 1 .. Len(@) - 1 |-> Bound(@[i + 1], block)]]
    BY <1>2 DEF BindBlock
  <2>. QED BY <2>1, <2>2
<1>4. text' = text /\ UNCHANGED run /\ UNCHANGED <<run, views>>
  BY <1>3 DEF memory
<1>5. WorkFn' /\ work'["loop"] = [i \in 1 .. Len(w) - 1 |-> Bound(w[i + 1], block)]
      /\ \A q \in Threads : q # "loop" => work'[q] = work[q]
  <2>. HIDE DEF block
  <2>. QED BY <1>3, ThreadsAre DEF CSInv, WorkFn
<1>6. Bound(Opens, block) = Opens
  BY <1>1 DEF Bound
<1>7. Bound(Delivers(0), block) = Delivers(block)
  <2>1. Delivers(0).op = "frame" /\ Delivers(0).event.note = "text"
    BY DeliversIs
  <2>. HIDE DEF block
  <2>. QED BY <2>1 DEF Bound, Delivers, Do, Event
<1>8. work'["loop"] = <<Opens, Delivers(block)>>
  <2> DEFINE d == Delivers(0)
  <2>0. w = <<Binds, Opens, d>>
    OBVIOUS
  <2>. HIDE DEF block, d, w
  <2>1. Len(w) = 3 /\ w[1 + 1] = Opens /\ w[2 + 1] = d
    BY <2>0
  <2>2. work'["loop"] = [i \in 1 .. 2 |-> Bound(w[i + 1], block)]
    BY <1>5, <2>1
  <2> DEFINE u == [i \in 1 .. 2 |-> Bound(w[i + 1], block)]
  <2>3. u = <<u[1], u[2]>>
    OBVIOUS
  <2>4. u[1] = Opens /\ u[2] = Delivers(block)
    BY <1>6, <1>7, <2>1 DEF d
  <2>. QED BY <2>2, <2>3, <2>4
<1>9. ViewsOK' /\ TextInItsBlock' /\ chat' = chat /\ (NoCancel <=> NoCancel')
  BY <1>4, SameViews
<1>10. TextOK'
  BY <1>2, <1>4, <1>9 DEF CSInv, TextOK
<1>11. block \in Nat /\ (text.open => block = text.index)
  BY DEF CSInv, TextOK
<1>. QED BY <1>4, <1>5, <1>8, <1>9, <1>10, <1>11

\* The delta is sent to the block announced last.
LEMMA TextDelivered ==
  ASSUME CSInv, Step("loop"), NEW j \in Nat, work["loop"] = <<Delivers(j)>>, NoCancel => j = chat.block
  PROVE  /\ UNCHANGED run /\ WorkFn' /\ \A q \in Threads : q # "loop" => work'[q] = work[q]
         /\ ViewsOK' /\ TextInItsBlock' /\ TextOK' /\ work'["loop"] = << >>
<1> DEFINE a == Delivers(j)
           f == a.event
<1>0. a.op = "frame" /\ f.note = "text" /\ f.index = j /\ TextFrame(f)
  BY DeliversIs
<1>1. Head(work["loop"]) = a /\ Tail(work["loop"]) = << >> /\ ~Announcing
  <2>1. work["loop"] = <<a>>
    OBVIOUS
  <2>. HIDE DEF a
  <2>2. Head(work["loop"]) = a /\ Tail(work["loop"]) = << >>
    BY <2>1, Single
  <2>3. ~Announcing
    BY <1>0, <2>2, AnnouncesIs DEF Announcing
  <2>. QED BY <2>2, <2>3
<1>. HIDE DEF a
<1>2. E("loop") = f /\ SendFrame("loop")
  BY <1>0, <1>1, NoItems, LoopTail
<1>. HIDE DEF f
<1>3. Sent(TextDelta, f) /\ Then("loop", << >>) /\ UNCHANGED run /\ text' = text
  BY <1>0, <1>2 DEF SendFrame, memory
<1>4. chat' = Shown(chat, f) /\ log' = log
  BY <1>3, DeltaKept DEF Sent
<1>5. IsView(chat) /\ IsView(log) /\ Same(chat, log)
  BY DEF CSInv, ViewsOK
<1>6. Same(chat', chat) /\ IsView(chat') /\ chat'.wrong = chat.wrong \cup (IF f.index # chat.block THEN {"loose"} ELSE {})
  BY <1>0, <1>4, <1>5, ShownText, ShownView
<1>7. ViewsOK'
  BY <1>4, <1>5, <1>6 DEF ViewsOK, Same, IsView
<1>8. WorkFn' /\ work'["loop"] = << >> /\ \A q \in Threads : q # "loop" => work'[q] = work[q]
  BY <1>1, <1>3, NoItems, LoopTail
<1>9. (NoCancel <=> NoCancel') /\ history' = history
  BY <1>3 DEF run, NoCancel
<1>10. TextInItsBlock'
  BY <1>0, <1>6, <1>9 DEF CSInv, TextInItsBlock, NoCancel
<1>11. TextOK'
  BY <1>1, <1>3, <1>6 DEF CSInv, TextOK, Same
<1>. QED BY <1>3, <1>7, <1>8, <1>10, <1>11

\* All the steps of a token.
LEMMA TokenStep ==
  ASSUME CSInv, pc = "stream", Tokening, Step("loop")
  PROVE  CSInv'
<1> DEFINE w == work["loop"]
           Frame1 == /\ UNCHANGED run /\ WorkFn' /\ \A q \in Threads : q # "loop" => work'[q] = work[q]
                     /\ ViewsOK' /\ TextInItsBlock' /\ TextOK'
<1>1. ASSUME Frame1, IsSeq(work'["loop"]), Tokening' \/ work'["loop"] = << >>
      PROVE  CSInv'
  <2>1. Phases' /\ WorkSeqs' /\ Works'
    BY <1>1, LoopStep DEF CSInv
  <2>. QED BY <1>1, <2>1 DEF CSInv
<1>2. text.index \in Nat /\ chat.block \in Nat /\ (text.open => text.known)
      /\ (text.known => chat.block = text.index \/ Announcing)
  BY DEF CSInv, TextOK
<1>3. CASE w = <<Do("publish", TokenEvent)>>
  BY <1>3, TokenPublished
<1>4. CASE w = <<Opens, Binds, Opens, Delivers(0)>>
  <2> DEFINE t == <<Binds, Opens, Delivers(0)>>
  <2>1. Head(w) = Opens /\ Tail(w) = t
    BY <1>4, Tail4
  <2>2. IsSeq(t)
    BY Items3
  <2>. HIDE DEF t
  <2>3. /\ Frame1 /\ (NoCancel <=> NoCancel') /\ chat' = chat
        /\ text'.known /\ text'.open
        /\ \/ text.open /\ text' = text /\ work'["loop"] = t
           \/ /\ ~text.open /\ chat.block < text'.index
              /\ work'["loop"] = <<Announces(text'.index)>> \o t
    BY <2>1, <2>2, TextOpened
  <2>4. IsSeq(work'["loop"])
    BY <2>2, <2>3, Joins
  <2>5. CASE work'["loop"] = t
    <3>1. work'["loop"] = <<Binds, Opens, Delivers(0)>>
      BY <2>5 DEF t
    <3>. QED BY <1>1, <2>3, <2>4, <3>1 DEF Tokening, Binds, Opens, Delivers
  <2>6. CASE chat.block < text'.index /\ work'["loop"] = <<Announces(text'.index)>> \o t
    <3>1. work'["loop"] = <<Announces(text'.index)>> \o <<Binds, Opens, Delivers(0)>>
      BY <2>6 DEF t
    <3>2. Tokening'
      BY <2>3, <2>6, <3>1 DEF Tokening, Binds, Opens, Delivers, Announces
    <3>. QED BY <1>1, <2>3, <2>4, <3>2
  <2>. QED BY <2>3, <2>5, <2>6
<1>5. CASE /\ w = <<Announces(text.index)>> \o <<Binds, Opens, Delivers(0)>>
           /\ text.known /\ (NoCancel => text.open) /\ chat.block < text.index
  <2> DEFINE t == <<Binds, Opens, Delivers(0)>>
  <2>2. IsSeq(t)
    BY Items3
  <2>0. w = <<Announces(text.index)>> \o t
    BY <1>5
  <2>. HIDE DEF t
  <2>1. Head(w) = Announces(text.index) /\ Tail(w) = t
    BY <2>0, <2>2, Joins
  <2>3. Frame1 /\ (NoCancel <=> NoCancel') /\ text' = text /\ work'["loop"] = t
    BY <1>5, <2>1, <2>2, BlockAnnounced
  <2>4. work'["loop"] = <<Binds, Opens, Delivers(0)>>
    BY <2>3 DEF t
  <2>5. Tokening'
    BY <1>5, <2>3, <2>4 DEF Tokening, Binds, Opens, Delivers
  <2>. QED BY <1>1, <2>2, <2>3, <2>5
<1>6. CASE w = <<Binds, Opens, Delivers(0)>> /\ (NoCancel => text.open)
  <2>1. /\ Frame1 /\ (NoCancel <=> NoCancel') /\ text' = text
        /\ \E j \in Nat : work'["loop"] = <<Opens, Delivers(j)>> /\ (text.open => j = text.index)
    BY <1>6, BlockBound
  <2>2. PICK j \in Nat : work'["loop"] = <<Opens, Delivers(j)>> /\ (text.open => j = text.index)
    BY <2>1
  <2>3. Tokening'
    BY <1>6, <2>1, <2>2 DEF Tokening, Opens, Delivers
  <2>4. IsSeq(work'["loop"])
    BY <2>2, Items2
  <2>. QED BY <1>1, <2>1, <2>3, <2>4
<1>7. ASSUME NEW j \in Nat, w = <<Opens, Delivers(j)>>, NoCancel => text.open /\ j = text.index
      PROVE  CSInv'
  <2> DEFINE t == <<Delivers(j)>>
  <2>1. Head(w) = Opens /\ Tail(w) = t
    BY <1>7
  <2>2. IsSeq(t)
    BY Items1
  <2>. HIDE DEF t
  <2>3. /\ Frame1 /\ (NoCancel <=> NoCancel') /\ chat' = chat
        /\ text'.known /\ text'.open
        /\ \/ text.open /\ text' = text /\ work'["loop"] = t
           \/ /\ ~text.open /\ chat.block < text'.index
              /\ work'["loop"] = <<Announces(text'.index)>> \o t
    BY <2>1, <2>2, TextOpened
  <2>4. IsSeq(work'["loop"])
    BY <2>2, <2>3, Joins
  <2>7. ~Announcing
    <3>1. Announces(text.index).op = "frame" /\ Opens.op = "open"
      BY AnnouncesIs DEF Opens, Do
    <3>. QED BY <2>1, <3>1 DEF Announcing
  <2>5. CASE text.open /\ text' = text /\ work'["loop"] = t
    <3>1. work'["loop"] = <<Delivers(j)>>
      BY <2>5 DEF t
    <3>2. NoCancel' => j = chat'.block
      BY <1>2, <1>7, <2>3, <2>5, <2>7
    <3>3. Tokening'
      BY <3>1, <3>2 DEF Tokening, Delivers
    <3>. QED BY <1>1, <2>3, <2>4, <3>3
  <2>6. CASE ~text.open /\ chat.block < text'.index /\ work'["loop"] = <<Announces(text'.index)>> \o t
    <3>1. work'["loop"] = <<Announces(text'.index)>> \o <<Delivers(j)>>
      BY <2>6 DEF t
    <3>2. Tokening'
      BY <1>7, <2>3, <2>6, <3>1 DEF Tokening, Delivers, Announces
    <3>. QED BY <1>1, <2>3, <2>4, <3>2
  <2>. QED BY <2>3, <2>5, <2>6
<1>8. ASSUME NEW j \in Nat, w = <<Announces(text.index)>> \o <<Delivers(j)>>,
             text.known, ~NoCancel, chat.block < text.index
      PROVE  CSInv'
  <2> DEFINE t == <<Delivers(j)>>
  <2>2. IsSeq(t)
    BY Items1
  <2>0. w = <<Announces(text.index)>> \o t
    BY <1>8
  <2>. HIDE DEF t
  <2>1. Head(w) = Announces(text.index) /\ Tail(w) = t
    BY <2>0, <2>2, Joins
  <2>3. Frame1 /\ (NoCancel <=> NoCancel') /\ text' = text /\ work'["loop"] = t
    BY <1>8, <2>1, <2>2, BlockAnnounced
  <2>4. work'["loop"] = <<Delivers(j)>>
    BY <2>3 DEF t
  <2>5. Tokening'
    BY <1>8, <2>3, <2>4 DEF Tokening, Delivers
  <2>. QED BY <1>1, <2>2, <2>3, <2>5
<1>9. ASSUME NEW j \in Nat, w = <<Delivers(j)>>, NoCancel => j = chat.block
      PROVE  CSInv'
  <2>1. Frame1 /\ work'["loop"] = << >>
    BY <1>9, TextDelivered
  <2>. QED BY <1>1, <2>1, NoItems
<1>. QED BY <1>3, <1>4, <1>5, <1>6, <1>7, <1>8, <1>9 DEF Tokening

-----------------------------------------------------------------------------
(* The handlers begin.                                                     *)

\* The publications the handlers make are good work.
LEMMA PublishIs ==
  ASSUME NEW type, NEW of, NEW note, NEW fields
  PROVE  /\ IsItem(Publish(type, of, note, fields)) /\ Publish(type, of, note, fields).op = "publish"
         /\ Publish(type, of, note, fields).event.type = type
         /\ Publish(type, of, note, fields).event.of = of
         /\ Publish(type, of, note, fields).event.note = note
BY DEF Publish, Do, Event, IsItem, IsEvent

\* The publication of an event that opens and closes nothing.
LEMMA PlainGood ==
  ASSUME NEW p, NEW type, NEW of, NEW note, NEW fields,
         type \notin {"assistant.token", "content_start", "tool.started", "approval.requested"} \cup Closers,
         note # "text"
  PROVE  Good(p, Publish(type, of, note, fields)) /\ ~Closing(Publish(type, of, note, fields))
         /\ Publish(type, of, note, fields).op # "resume"
<1> DEFINE x == Publish(type, of, note, fields)
<1>1. IsItem(x) /\ x.op = "publish" /\ x.event.type = type /\ x.event.of = of /\ x.event.note = note
  BY PublishIs
<1>. HIDE DEF x
<1>2. Good(p, x) /\ ~Closing(x) /\ x.op # "resume"
  BY <1>1 DEF Good, Ops, Closing
<1>. QED BY <1>2 DEF x

LEMMA CloserGood ==
  ASSUME NEW p \in {"loop", "rpc"}, NEW type \in Closers
  PROVE  Good(p, Publish(type, "text", "", {})) /\ Publish(type, "text", "", {}).op # "resume"
<1> DEFINE x == Publish(type, "text", "", {})
<1>1. IsItem(x) /\ x.op = "publish" /\ x.event.type = type /\ x.event.of = "text" /\ x.event.note = ""
  BY DEF Publish, Do, Event, IsItem, IsEvent
<1>. HIDE DEF x
<1>2. type \notin {"assistant.token", "content_start", "tool.started", "approval.requested"}
  BY DEF Closers, TaskEnds
<1>3. Good(p, x) /\ x.op # "resume"
  BY <1>1, <1>2 DEF Good, Ops
<1>. QED BY <1>3 DEF x

LEMMA WriteGood ==
  ASSUME NEW p, NEW status
  PROVE  Good(p, Write(status)) /\ ~Closing(Write(status)) /\ Write(status).op # "resume"
<1>1. IsItem(Write(status)) /\ Write(status).op = "write"
  BY DEF Write, Do, Event, IsItem, IsEvent
<1>. QED BY <1>1 DEF Good, Ops, Closing

LEMMA CloseGood ==
  ASSUME NEW p, NEW why
  PROVE  Good(p, ClosePending(why)) /\ ~Closing(ClosePending(why)) /\ ClosePending(why).op # "resume"
<1>1. IsItem(ClosePending(why)) /\ ClosePending(why).op = "close"
  BY DEF ClosePending, Do, Event, IsItem, IsEvent
<1>. QED BY <1>1 DEF Good, Ops, Closing

LEMMA StatusGood ==
  ASSUME NEW p, NEW state, NEW verb, verb # "text"
  PROVE  Good(p, Status(state, verb))
<1>1. IsItem(Status(state, verb)) /\ Status(state, verb).op = "status"
      /\ Status(state, verb).event.type = "status" /\ Status(state, verb).event.note = verb
  BY DEF Status, Do, Event, IsItem, IsEvent
<1>. QED BY <1>1 DEF Good, Ops

\* A token that is streamed has something left to do.
LEMMA TokeningWorks == Tokening => work["loop"] # << >>
<1>1. <<Announces(text.index)>> \o <<Binds, Opens, Delivers(0)>> # << >>
  BY Items3, Joins
<1>2. \A j \in Nat : <<Announces(text.index)>> \o <<Delivers(j)>> # << >>
  BY Items1, Joins
<1> SUFFICES ASSUME Tokening, work["loop"] = << >> PROVE FALSE
  OBVIOUS
<1>3. <<Do("publish", TokenEvent)>> # << >> /\ <<Opens, Binds, Opens, Delivers(0)>> # << >>
      /\ <<Binds, Opens, Delivers(0)>> # << >>
  OBVIOUS
<1>4. \A j \in Nat : <<Opens, Delivers(j)>> # << >> /\ <<Delivers(j)>> # << >>
  OBVIOUS
<1>. QED BY <1>1, <1>2, <1>3, <1>4 DEF Tokening

\* A handler that begins shows nothing.
LEMMA ViewsKept ==
  ASSUME CSInv, UNCHANGED <<memory, views>>, history \subseteq history'
  PROVE  /\ ViewsOK' /\ TextInItsBlock' /\ (NoCancel' => NoCancel)
         /\ text' = text /\ chat' = chat
BY DEF CSInv, memory, views, ViewsOK, IsView, Same, TextInItsBlock, NoCancel

LEMMA TextKept ==
  ASSUME CSInv, text' = text, chat' = chat, Announcing => Announcing'
  PROVE  TextOK'
BY DEF CSInv, TextOK

\* A handler begins.
LEMMA BegunGood ==
  ASSUME CSInv, NEW p \in Threads, NEW s, IsSeq(s), \A x \in Items(s) : Good(p, x), Begin(p, s),
         UNCHANGED <<memory, views>>, history \subseteq history', pc' = pc \/ p = "loop"
  PROVE  /\ WorkFn' /\ WorkSeqs' /\ Works' /\ TextOK' /\ ViewsOK' /\ TextInItsBlock'
         /\ work'[p] = s /\ \A q \in Threads : q # p => work'[q] = work[q]
<1>1. /\ WorkFn' /\ WorkSeqs'
      /\ \A q \in Threads : q # p => work'[q] = work[q]
      /\ work[p] = << >> /\ work'[p] = s
  BY BeginWork DEF CSInv
<1>2. /\ ViewsOK' /\ TextInItsBlock' /\ (NoCancel' => NoCancel) /\ text' = text /\ chat' = chat
  BY ViewsKept
<1>3. TextOK'
  <2>1. Announcing => Announcing'
    <3>1. CASE p = "loop"
      BY <1>1, <3>1 DEF Announcing
    <3>2. CASE p # "loop"
      <4>1. work'["loop"] = work["loop"]
        BY <1>1, <3>2, ThreadsAre
      <4>. QED BY <1>2, <4>1 DEF Announcing
    <3>. QED BY <3>1, <3>2
  <2>. QED BY <1>2, <2>1, TextKept
<1>4. Works'
  <2> SUFFICES ASSUME NEW q \in Threads
               PROVE  (\A x \in Items(work'[q]) : Good(q, x)) \/ (q = "loop" /\ pc' = "stream" /\ Tokening')
    BY DEF Works, Good
  <2>1. CASE q = p
    BY <1>1, <2>1
  <2>2. CASE q # p /\ \A x \in Items(work[q]) : Good(q, x)
    BY <1>1, <2>2
  <2>3. CASE q # p /\ q = "loop" /\ pc = "stream" /\ Tokening
    <3>1. work'["loop"] = work["loop"]
      BY <1>1, <2>3
    <3>2. Tokening'
      BY <1>2, <2>3, <3>1, TokeningKept
    <3>. QED BY <2>3, <3>2
  <2>. QED BY <2>1, <2>2, <2>3 DEF CSInv, Works
<1>. QED BY <1>1, <1>2, <1>3, <1>4

\* A step that leaves the work of all threads.
LEMMA Unworked ==
  ASSUME CSInv, UNCHANGED <<work, memory, views>>, history \subseteq history',
         pc' = pc \/ pc # "stream" \/ work["loop"] = << >>
  PROVE  WorkFn' /\ WorkSeqs' /\ Works' /\ TextOK' /\ ViewsOK' /\ TextInItsBlock'
<1>1. /\ ViewsOK' /\ TextInItsBlock' /\ (NoCancel' => NoCancel) /\ text' = text /\ chat' = chat /\ work' = work
  BY ViewsKept
<1>2. TextOK'
  <2>1. Announcing => Announcing'
    BY <1>1 DEF Announcing
  <2>. QED BY <1>1, <2>1, TextKept
<1>3. WorkFn' /\ WorkSeqs'
  BY <1>1 DEF CSInv, WorkFn, WorkSeqs, IsSeq, Items
<1>4. Works'
  <2> SUFFICES ASSUME NEW q \in Threads
               PROVE  (\A x \in Items(work'[q]) : Good(q, x)) \/ (q = "loop" /\ pc' = "stream" /\ Tokening')
    BY DEF Works, Good
  <2>2. CASE \A x \in Items(work[q]) : Good(q, x)
    BY <1>1, <2>2
  <2>3. CASE q = "loop" /\ pc = "stream" /\ Tokening
    <3>1. Tokening' /\ pc' = pc
      BY <1>1, <2>3, TokeningKept, TokeningWorks
    <3>. QED BY <2>3, <3>1
  <2>. QED BY <2>2, <2>3 DEF CSInv, Works
<1>. QED BY <1>1, <1>2, <1>3, <1>4

-----------------------------------------------------------------------------
(* The requests of the client.                                             *)

\* The loop moves, and asks for nothing.
LEMMA PhasesMove ==
  ASSUME Phases, work'["rpc"] = work["rpc"], approval' = approval, pend' = pend, NoCancel' => NoCancel,
         tool' = [t \in Tools |-> tool'[t]], \A t \in Tools : tool'[t] = "asked" => tool[t] = "asked",
         pc' = pc \/ pc # "waiting",
         pc' \in {"top", "stream"} => \A t \in Tools : tool'[t] \in {"idle", "done"} /\ work'[t] = << >>
  PROVE  Phases'
<1>1. /\ approval' = [c \in Cards |-> approval'[c]] /\ pend' \in Gated \cup {"none"}
      /\ pend' # "none" => approval'[pend'] # "none" /\ (approval'[pend'] = "pending" => pc' = "waiting")
  BY DEF Phases
<1>2. \A t \in Tools : tool'[t] = "asked" => t \in Gated /\ approval'[t] # "none"
  BY DEF Phases
<1>3. \A x \in Items(work'["rpc"]) :
       /\ x.op = "resume" => /\ pc' = "waiting"
                             /\ pend' # "none" => approval'[pend'] # "pending"
                             /\ \A y \in Items(work'["rpc"]) : ~Closing(y)
       /\ Closing(x) /\ NoCancel' => pc' = "waiting"
  BY DEF Phases
<1>. QED BY <1>1, <1>2, <1>3 DEF Phases, ResumesLast, Closing

\* A request begins.
LEMMA PhasesRequest ==
  ASSUME Phases, NEW s, work'["rpc"] = s, \A q \in Threads : q # "rpc" => work'[q] = work[q],
         tool' = tool, pc' = pc, pend' = pend, NoCancel' => NoCancel,
         approval' = [c \in Cards |-> approval'[c]],
         \A c \in Cards : \/ approval'[c] = approval[c]
                          \/ approval'[c] # "none" /\ (approval'[c] = "pending" => c \notin Gated),
         ResumesLast(s),
         \A x \in Items(s) :
           /\ x.op = "resume" => /\ pc = "waiting"
                                 /\ pend # "none" => approval'[pend] # "pending"
                                 /\ \A y \in Items(s) : ~Closing(y)
           /\ Closing(x) /\ NoCancel' => pc = "waiting"
  PROVE  Phases'
<1>0. Gated \subseteq Cards /\ Gated \subseteq Tools
  BY ChatStreamAssumption DEF Cards
<1>1. /\ tool' = [t \in Tools |-> tool'[t]] /\ pend' \in Gated \cup {"none"}
      /\ pend' # "none" => approval'[pend'] # "none" /\ (approval'[pend'] = "pending" => pc' = "waiting")
  BY <1>0 DEF Phases
<1>2. \A t \in Tools : tool'[t] = "asked" => t \in Gated /\ approval'[t] # "none"
  BY <1>0 DEF Phases
<1>3. \A t \in Tools : work'[t] = work[t]
  BY ThreadsAre
<1>4. pc' \in {"top", "stream"} => \A t \in Tools : tool'[t] \in {"idle", "done"} /\ work'[t] = << >>
  BY <1>3 DEF Phases
<1>. QED BY <1>1, <1>2, <1>4 DEF Phases, ResumesLast, Closing

LEMMA NoneResumes ==
  ASSUME NEW s, \A x \in Items(s) : x.op # "resume"
  PROVE  ResumesLast(s)
BY DEF ResumesLast, Items

\* A request that leaves the task, the loop and the tools where they are.
LEMMA Requested ==
  ASSUME CSInv, NEW s, IsSeq(s), \A x \in Items(s) : Good("rpc", x) /\ x.op # "resume" /\ (Closing(x) /\ NoCancel' => pc = "waiting"),
         Begin("rpc", s), UNCHANGED <<pc, tool, pend, memory, views>>, history \subseteq history',
         approval' = [c \in Cards |-> approval'[c]],
         \A c \in Cards : \/ approval'[c] = approval[c]
                          \/ approval'[c] # "none" /\ (approval'[c] = "pending" => c \notin Gated)
  PROVE  CSInv'
<1>1. pc' = pc /\ tool' = tool /\ pend' = pend /\ UNCHANGED <<memory, views>>
  OBVIOUS
<1>2. \A x \in Items(s) : Good("rpc", x)
  OBVIOUS
<1>3. /\ WorkFn' /\ WorkSeqs' /\ Works' /\ TextOK' /\ ViewsOK' /\ TextInItsBlock'
      /\ work'["rpc"] = s /\ \A q \in Threads : q # "rpc" => work'[q] = work[q]
  BY <1>1, <1>2, ThreadsAre, BegunGood
<1>4. NoCancel' => NoCancel
  BY DEF NoCancel
<1>5. ResumesLast(s)
  BY NoneResumes
<1>6. Phases
  BY DEF CSInv
<1>7. \A x \in Items(s) :
           /\ x.op = "resume" => /\ pc = "waiting"
                                 /\ pend # "none" => approval'[pend] # "pending"
                                 /\ \A y \in Items(s) : ~Closing(y)
           /\ Closing(x) /\ NoCancel' => pc = "waiting"
  OBVIOUS
<1>8. Phases'
  BY <1>1, <1>3, <1>4, <1>5, <1>6, <1>7, PhasesRequest
<1>. QED BY <1>3, <1>8 DEF CSInv

\* One publication that opens and closes nothing, and a decision or none.
LEMMA RequestedOne ==
  ASSUME CSInv, NEW type \in {"approval.requested", "approval.resolved"}, NEW c \in Cards, NEW note, note # "text", NEW fields,
         Begin("rpc", <<Publish(type, c, note, fields)>>), UNCHANGED <<pc, tool, pend, memory, views>>, history \subseteq history',
         NEW d \in {"pending", "approved", "rejected"}, approval' = [approval EXCEPT ![c] = d],
         d = "pending" => c \notin Gated
  PROVE  CSInv'
<1> DEFINE x == Publish(type, c, note, fields)
           s == <<x>>
<1>1. Good("rpc", x) /\ x.op # "resume" /\ ~Closing(x)
  <2>1. IsItem(x) /\ x.op = "publish" /\ x.event.type = type /\ x.event.of = c /\ x.event.note = note
    BY PublishIs
  <2>2. c # "text"
    BY ChatStreamAssumption DEF Cards
  <2>. HIDE DEF x
  <2>. QED BY <2>1, <2>2 DEF Good, Ops, Closing, Closers, TaskEnds
<1>. HIDE DEF x
<1>2. IsSeq(s) /\ Items(s) \subseteq {x}
  BY Items1
<1>3. Begin("rpc", s)
  BY DEF x
<1>. HIDE DEF s
<1>4. \A y \in Items(s) : Good("rpc", y) /\ y.op # "resume" /\ (Closing(y) /\ NoCancel' => pc = "waiting")
  BY <1>1, <1>2
<1>5. /\ approval' = [b \in Cards |-> approval'[b]]
      /\ \A b \in Cards : \/ approval'[b] = approval[b]
                          \/ approval'[b] # "none" /\ (approval'[b] = "pending" => b \notin Gated)
  BY DEF CSInv, Phases
<1>. QED BY <1>2, <1>3, <1>4, <1>5, Requested

\* The requests, one by one.
LEMMA CancelStep == CSInv /\ Cancel => CSInv'
<1> SUFFICES ASSUME CSInv, Cancel PROVE CSInv'
  OBVIOUS
<1> DEFINE a == ClosePending("cancel")
           b == Write("cancelled")
           c == Publish("task.cancelled", "text", "", {})
           s == <<a, b, c>>
<1>1. Good("rpc", a) /\ ~Closing(a) /\ a.op # "resume"
  BY CloseGood
<1>2. Good("rpc", b) /\ ~Closing(b) /\ b.op # "resume"
  BY WriteGood
<1>3. Good("rpc", c) /\ c.op # "resume"
  BY CloserGood DEF Closers, TaskEnds
<1>4. /\ Begin("rpc", s) /\ history' = history \cup {"task.cancel"}
      /\ UNCHANGED <<pc, tool, pend, memory, views>> /\ approval' = approval
  BY DEF Cancel
<1>. HIDE DEF a, b, c
<1>5. IsSeq(s) /\ Items(s) \subseteq {a, b, c}
  BY Items3
<1>. HIDE DEF s
<1>6. ~NoCancel'
  BY <1>4 DEF NoCancel
<1>7. \A x \in Items(s) : Good("rpc", x) /\ x.op # "resume" /\ (Closing(x) /\ NoCancel' => pc = "waiting")
  BY <1>1, <1>2, <1>3, <1>5, <1>6
<1>8. history \subseteq history' /\ approval' = [e \in Cards |-> approval'[e]] /\ \A e \in Cards : approval'[e] = approval[e]
  BY <1>4 DEF CSInv, Phases
<1>. QED BY <1>4, <1>5, <1>7, <1>8, Requested

LEMMA MergeStep == CSInv /\ RequestMerge => CSInv'
<1> SUFFICES ASSUME CSInv, RequestMerge PROVE CSInv'
  OBVIOUS
<1>1. "merge" \in Cards /\ "merge" \notin Gated
  BY ChatStreamAssumption DEF Cards
<1>2. /\ Begin("rpc", <<Publish("approval.requested", "merge", "", {"plain", "internal"})>>)
      /\ approval' = [approval EXCEPT !["merge"] = "pending"] /\ history \subseteq history'
      /\ UNCHANGED <<pc, tool, pend, memory, views>>
  BY DEF RequestMerge
<1>. QED BY <1>1, <1>2, RequestedOne

LEMMA DecideStep ==
  ASSUME CSInv, NEW d \in {"approved", "rejected"}, NEW c \in Cards, NEW note \in {"", "ignored", "early"},
         Decide(c, d), Begin("rpc", <<Resolved(c, note)>>), UNCHANGED <<pc, tool, pend>>, history \subseteq history'
  PROVE  CSInv'
<1>1. /\ Begin("rpc", <<Publish("approval.resolved", c, note, {"plain", "body", "internal"})>>)
      /\ approval' = [approval EXCEPT ![c] = d] /\ UNCHANGED <<pc, tool, pend, memory, views>>
  BY DEF Decide, Resolved
<1>. QED BY <1>1, RequestedOne

LEMMA ApproveStep ==
  ASSUME CSInv, NEW t \in Gated, Approve(t)
  PROVE  CSInv'
<1> DEFINE a == Resolved(t, "")
           b == Do("resume", Event("resume", t, "", {}))
           s == <<a, b>>
<1>0. t \in Cards /\ t # "none"
  BY ChatStreamAssumption DEF Cards
<1>1. Good("rpc", a) /\ ~Closing(a) /\ a.op # "resume"
  BY PlainGood DEF Resolved, Closers, TaskEnds
<1>2. Good("rpc", b) /\ ~Closing(b)
  <2>1. IsItem(b) /\ b.op = "resume"
    BY DEF Do, Event, IsItem, IsEvent
  <2>. HIDE DEF b
  <2>. QED BY <2>1 DEF Good, Ops, Closing
<1>3. /\ Begin("rpc", s) /\ history' = history /\ approval[t] = "pending" /\ pend = t
      /\ UNCHANGED <<pc, tool, pend, memory, views>> /\ approval' = [approval EXCEPT ![t] = "approved"]
  BY DEF Approve, Decide
<1>. HIDE DEF a, b
<1>4. IsSeq(s) /\ Items(s) \subseteq {a, b}
  BY Items2
<1>5. ResumesLast(s)
  <2>1. Len(s) = 2 /\ s[1] = a
    OBVIOUS
  <2>. HIDE DEF s
  <2>2. \A i \in 1 .. 2 : s[i].op = "resume" => i = 2
    BY <1>1, <2>1
  <2>. QED BY <2>1, <2>2 DEF ResumesLast
<1>. HIDE DEF s
<1>6. \A x \in Items(s) : Good("rpc", x) /\ ~Closing(x)
  BY <1>1, <1>2, <1>4
<1>7. pc' = pc /\ tool' = tool /\ pend' = pend /\ UNCHANGED <<memory, views>> /\ history \subseteq history'
  BY <1>3
<1>8. /\ WorkFn' /\ WorkSeqs' /\ Works' /\ TextOK' /\ ViewsOK' /\ TextInItsBlock'
      /\ work'["rpc"] = s /\ \A q \in Threads : q # "rpc" => work'[q] = work[q]
  BY <1>3, <1>4, <1>6, <1>7, ThreadsAre, BegunGood
<1>9. /\ pc = "waiting" /\ approval'[t] = "approved"
      /\ approval' = [c \in Cards |-> approval'[c]]
      /\ \A c \in Cards : \/ approval'[c] = approval[c]
                          \/ approval'[c] # "none" /\ (approval'[c] = "pending" => c \notin Gated)
  BY <1>0, <1>3 DEF CSInv, Phases
<1>10. \A x \in Items(s) :
           /\ x.op = "resume" => /\ pc = "waiting"
                                 /\ pend # "none" => approval'[pend] # "pending"
                                 /\ \A y \in Items(s) : ~Closing(y)
           /\ Closing(x) /\ NoCancel' => pc = "waiting"
  BY <1>3, <1>6, <1>9
<1>11. Phases /\ (NoCancel' => NoCancel)
  BY <1>3 DEF CSInv, NoCancel
<1>12. Phases'
  BY <1>5, <1>7, <1>8, <1>9, <1>10, <1>11, PhasesRequest
<1>. QED BY <1>8, <1>12 DEF CSInv

LEMMA FailureGood ==
  ASSUME NEW p \in {"loop", "rpc"}
  PROVE  IsSeq(Failure) /\ \A x \in Items(Failure) : Good(p, x) /\ x.op # "resume"
<1> DEFINE a == ClosePending("failure")
           b == Write("failed")
           c == Publish("message.failed", "text", "", {})
           d == Publish("task.failed", "text", "", {})
<1>1. Good(p, a) /\ a.op # "resume"
  BY CloseGood
<1>2. Good(p, b) /\ b.op # "resume"
  BY WriteGood
<1>3. Good(p, c) /\ c.op # "resume"
  BY CloserGood DEF Closers, TaskEnds
<1>4. Good(p, d) /\ d.op # "resume"
  BY CloserGood DEF Closers, TaskEnds
<1>5. Failure = <<a, b, c, d>>
  BY DEF Failure
<1>. HIDE DEF a, b, c, d
<1>6. IsSeq(<<a, b, c, d>>) /\ Items(<<a, b, c, d>>) \subseteq {a, b, c, d}
  BY Items4
<1>. QED BY <1>1, <1>2, <1>3, <1>4, <1>5, <1>6

LEMMA RejectStep ==
  ASSUME CSInv, NEW t \in Gated, Reject(t)
  PROVE  CSInv'
<1> DEFINE a == Resolved(t, "")
           b == ClosePending("rejection")
           u == <<a, b>>
           s == u \o Failure
<1>0. t \in Cards /\ t # "none"
  BY ChatStreamAssumption DEF Cards
<1>1. Good("rpc", a) /\ a.op # "resume"
  BY PlainGood DEF Resolved, Closers, TaskEnds
<1>2. Good("rpc", b) /\ b.op # "resume"
  BY CloseGood
<1>3. /\ Begin("rpc", s) /\ history' = history /\ approval[t] = "pending" /\ pend = t
      /\ UNCHANGED <<pc, tool, pend, memory, views>> /\ approval' = [approval EXCEPT ![t] = "rejected"]
  BY DEF Reject, Decide
<1>. HIDE DEF a, b
<1>4. IsSeq(u) /\ Items(u) \subseteq {a, b}
  BY Items2
<1>5. IsSeq(Failure) /\ \A x \in Items(Failure) : Good("rpc", x) /\ x.op # "resume"
  BY FailureGood
<1>. HIDE DEF u
<1>6. IsSeq(s) /\ Items(s) \subseteq Items(u) \cup Items(Failure)
  BY <1>4, <1>5, ItemsJoined
<1>. HIDE DEF s
<1>7. pc = "waiting" /\ history \subseteq history'
      /\ approval' = [c \in Cards |-> approval'[c]]
      /\ \A c \in Cards : \/ approval'[c] = approval[c]
                          \/ approval'[c] # "none" /\ (approval'[c] = "pending" => c \notin Gated)
  BY <1>0, <1>3 DEF CSInv, Phases
<1>8. \A x \in Items(s) : Good("rpc", x) /\ x.op # "resume" /\ (Closing(x) /\ NoCancel' => pc = "waiting")
  BY <1>1, <1>2, <1>4, <1>5, <1>6, <1>7
<1>. QED BY <1>3, <1>6, <1>7, <1>8, Requested

-----------------------------------------------------------------------------
(* The loop.                                                               *)

\* The loop begins a handler.
LEMMA LoopBegun ==
  ASSUME CSInv, NEW s, IsSeq(s), \A x \in Items(s) : Good("loop", x), Begin("loop", s),
         UNCHANGED <<tool, approval, pend, history, memory, views>>,
         pc \in {"top", "stream"}, pc' \in {"stream", "over"}
  PROVE  CSInv'
<1>1. UNCHANGED <<memory, views>> /\ history \subseteq history' /\ (NoCancel' => NoCancel)
  BY DEF NoCancel
<1>2. /\ WorkFn' /\ WorkSeqs' /\ Works' /\ TextOK' /\ ViewsOK' /\ TextInItsBlock'
      /\ work'["loop"] = s /\ \A q \in Threads : q # "loop" => work'[q] = work[q]
  BY <1>1, ThreadsAre, BegunGood
<1>3. Phases /\ pc # "waiting" /\ work'["rpc"] = work["rpc"] /\ \A t \in Tools : work'[t] = work[t]
  BY <1>2, ThreadsAre DEF CSInv
<1>4. /\ tool' = [t \in Tools |-> tool'[t]] /\ \A t \in Tools : tool'[t] = "asked" => tool[t] = "asked"
      /\ \A t \in Tools : tool'[t] \in {"idle", "done"} /\ work'[t] = << >>
  BY <1>3 DEF Phases
<1>5. Phases'
  BY <1>1, <1>3, <1>4, PhasesMove
<1>. QED BY <1>2, <1>5 DEF CSInv

\* The steps of the loop, one by one.
LEMMA TurnStep == CSInv /\ Turn => CSInv'
<1> SUFFICES ASSUME CSInv, Turn PROVE CSInv'
  OBVIOUS
<1> DEFINE a == Status("thinking", "model")
           b == Status("streaming", "model")
           s == <<a, b>>
<1>1. Good("loop", a) /\ Good("loop", b)
  BY StatusGood
<1>2. /\ Begin("loop", s) /\ pc \in {"top", "stream"} /\ pc' \in {"stream", "over"}
      /\ UNCHANGED <<tool, approval, pend, history, memory, views>>
  BY DEF Turn
<1>. HIDE DEF a, b
<1>3. IsSeq(s) /\ Items(s) \subseteq {a, b}
  BY Items2
<1>. HIDE DEF s
<1>. QED BY <1>1, <1>2, <1>3, LoopBegun

LEMMA DeltaStep ==
  ASSUME CSInv, NEW item, Good("loop", item), Delta(item)
  PROVE  CSInv'
<1> DEFINE s == <<item>>
<1>1. /\ Begin("loop", s) /\ pc \in {"top", "stream"} /\ pc' \in {"stream", "over"}
      /\ UNCHANGED <<tool, approval, pend, history, memory, views>>
  BY DEF Delta
<1>2. IsSeq(s) /\ Items(s) \subseteq {item}
  BY Items1
<1>. HIDE DEF s
<1>. QED BY <1>1, <1>2, LoopBegun

LEMMA ThoughtStep == CSInv /\ Thought => CSInv'
<1>1. Good("loop", Publish("thinking", "text", "", {"plain"}))
  BY PlainGood DEF Closers, TaskEnds
<1>. QED BY <1>1, DeltaStep DEF Thought

LEMMA InputStep == ASSUME CSInv, NEW t, ToolInput(t) PROVE CSInv'
<1>1. Good("loop", Publish("content_delta", t, "input", {}))
  BY PlainGood DEF Closers, TaskEnds
<1>. QED BY <1>1, DeltaStep DEF ToolInput

LEMMA TokenBegins == CSInv /\ Token => CSInv'
<1> SUFFICES ASSUME CSInv, Token PROVE CSInv'
  OBVIOUS
<1> DEFINE s == <<Do("publish", TokenEvent)>>
<1>1. /\ pc = "stream" /\ Begin("loop", s) /\ UNCHANGED <<memory, views>> /\ history' = history
      /\ pc' = pc /\ tool' = tool /\ approval' = approval /\ pend' = pend
  BY DEF Token, Delta, Publish, TokenEvent
<1>2. IsSeq(s)
  BY Items1
<1>3. work'["loop"] = s => Tokening'
  BY DEF Tokening, TokenEvent, Do, Event
<1>. HIDE DEF s
<1>4. /\ WorkFn' /\ WorkSeqs' /\ work["loop"] = << >> /\ work'["loop"] = s
      /\ \A q \in Threads : q # "loop" => work'[q] = work[q]
  BY <1>1, <1>2, ThreadsAre, BeginWork DEF CSInv
<1>5. ViewsOK' /\ TextInItsBlock' /\ (NoCancel' => NoCancel) /\ text' = text /\ chat' = chat
  BY <1>1, ViewsKept
<1>6. TextOK'
  <2>1. ~Announcing
    BY <1>4 DEF Announcing
  <2>. QED BY <1>5, <2>1, TextKept
<1>7. Tokening'
  BY <1>3, <1>4
<1>8. Works'
  <2> SUFFICES ASSUME NEW q \in Threads
               PROVE  (\A x \in Items(work'[q]) : Good(q, x)) \/ (q = "loop" /\ pc' = "stream" /\ Tokening')
    BY DEF Works, Good
  <2>1. CASE q = "loop"
    BY <1>1, <1>7, <2>1
  <2>2. CASE q # "loop"
    BY <1>4, <2>2 DEF CSInv, Works
  <2>. QED BY <2>1, <2>2
<1>9. Phases'
  <2>1. Phases /\ pc # "waiting" /\ work'["rpc"] = work["rpc"] /\ \A t \in Tools : work'[t] = work[t]
    BY <1>1, <1>4, ThreadsAre DEF CSInv
  <2>2. /\ tool' = [t \in Tools |-> tool'[t]] /\ \A t \in Tools : tool'[t] = "asked" => tool[t] = "asked"
        /\ \A t \in Tools : tool'[t] \in {"idle", "done"} /\ work'[t] = << >>
    BY <1>1, <2>1 DEF Phases
  <2>. QED BY <1>1, <1>5, <2>1, <2>2, PhasesMove
<1>. QED BY <1>4, <1>5, <1>6, <1>8, <1>9 DEF CSInv

LEMMA CompleteStep == CSInv /\ CompleteTask => CSInv'
<1> SUFFICES ASSUME CSInv, CompleteTask PROVE CSInv'
  OBVIOUS
<1> DEFINE a == Write("completed")
           b == Publish("message.completed", "text", "", {})
           c == Publish("task.completed", "text", "", {})
           s == <<a, b, c>>
<1>1. Good("loop", a)
  BY WriteGood
<1>2. Good("loop", b) /\ Good("loop", c)
  BY CloserGood DEF Closers, TaskEnds
<1>3. /\ Begin("loop", s) /\ pc \in {"top", "stream"} /\ pc' \in {"stream", "over"}
      /\ UNCHANGED <<tool, approval, pend, history, memory, views>>
  BY DEF CompleteTask
<1>. HIDE DEF a, b, c
<1>4. IsSeq(s) /\ Items(s) \subseteq {a, b, c}
  BY Items3
<1>. HIDE DEF s
<1>. QED BY <1>1, <1>2, <1>3, <1>4, LoopBegun

LEMMA FailStep == CSInv /\ FailTask => CSInv'
<1> SUFFICES ASSUME CSInv, FailTask PROVE CSInv'
  OBVIOUS
<1>1. /\ Begin("loop", Failure) /\ pc \in {"top", "stream"} /\ pc' \in {"stream", "over"}
      /\ UNCHANGED <<tool, approval, pend, history, memory, views>>
  BY DEF FailTask
<1>. QED BY <1>1, FailureGood, LoopBegun

\* The loop moves without a handler.
LEMMA LoopMoved ==
  ASSUME CSInv, UNCHANGED <<approval, pend, history, work, memory, views>>,
         work["loop"] = << >> \/ pc # "stream", pc # "waiting",
         tool' = [t \in Tools |-> tool'[t]], \A t \in Tools : tool'[t] = "asked" => tool[t] = "asked",
         pc' \in {"top", "stream"} => \A t \in Tools : tool'[t] \in {"idle", "done"} /\ work'[t] = << >>
  PROVE  CSInv'
<1>1. UNCHANGED <<work, memory, views>> /\ history \subseteq history' /\ (NoCancel' => NoCancel) /\ Phases
  BY DEF NoCancel, CSInv
<1>2. WorkFn' /\ WorkSeqs' /\ Works' /\ TextOK' /\ ViewsOK' /\ TextInItsBlock'
  BY <1>1, Unworked
<1>3. Phases'
  BY <1>1, PhasesMove
<1>. QED BY <1>2, <1>3 DEF CSInv

LEMMA CallStep == ASSUME CSInv, NEW ts, CallTools(ts) PROVE CSInv'
<1>1. /\ UNCHANGED <<approval, pend, history, work, memory, views>> /\ work["loop"] = << >> /\ pc = "stream" /\ pc' = "tools"
      /\ tool' = [t \in Tools |-> IF t \in ts THEN "ready" ELSE tool[t]]
  BY DEF CallTools, Idle
<1>. QED BY <1>1, LoopMoved

LEMMA StopStep == CSInv /\ LoopStops => CSInv'
<1> SUFFICES ASSUME CSInv, LoopStops PROVE CSInv'
  OBVIOUS
<1>1. /\ UNCHANGED <<tool, approval, pend, history, work, memory, views>> /\ work["loop"] = << >>
      /\ pc \in {"top", "stream"} /\ pc' = "over"
  BY DEF LoopStops, Idle
<1>. QED BY <1>1, LoopMoved DEF CSInv, Phases

LEMMA NextStepStep == CSInv /\ NextStep => CSInv'
<1> SUFFICES ASSUME CSInv, NextStep PROVE CSInv'
  OBVIOUS
<1>1. /\ UNCHANGED <<tool, approval, pend, history, work, memory, views>>
      /\ pc = "tools" /\ pc' = "top" /\ \A t \in Tools : tool[t] \in {"idle", "done"} /\ work[t] = << >>
  BY DEF NextStep, Idle
<1>. QED BY <1>1, LoopMoved DEF CSInv, Phases

-----------------------------------------------------------------------------
(* The tools, a restart, and the theorems.                                 *)

\* A tool begins to publish.
LEMMA ToolBegun ==
  ASSUME CSInv, NEW t \in Tools, NEW x, Good(t, x), Begin(t, <<x>>), NEW s, s \notin {"asked", "idle"},
         tool[t] \notin {"idle", "done"}, tool' = [tool EXCEPT ![t] = s],
         UNCHANGED <<pc, approval, pend, history, memory, views>>
  PROVE  CSInv'
<1> DEFINE u == <<x>>
<1>1. IsSeq(u) /\ (\A y \in Items(u) : Good(t, y)) /\ Begin(t, u)
  BY Items1
<1>. HIDE DEF u
<1>2. UNCHANGED <<memory, views>> /\ history \subseteq history' /\ (NoCancel' => NoCancel) /\ pc' = pc
  BY DEF NoCancel
<1>3. /\ WorkFn' /\ WorkSeqs' /\ Works' /\ TextOK' /\ ViewsOK' /\ TextInItsBlock'
      /\ \A q \in Threads : q # t => work'[q] = work[q]
  BY <1>1, <1>2, ThreadsAre, BegunGood
<1>4. Phases /\ pc \notin {"top", "stream"} /\ work'["rpc"] = work["rpc"]
  BY <1>3, ThreadsAre DEF CSInv, Phases
<1>5. /\ tool' = [c \in Tools |-> tool'[c]]
      /\ \A c \in Tools : tool'[c] = "asked" => tool[c] = "asked"
  BY <1>4 DEF Phases
<1>6. Phases'
  BY <1>2, <1>4, <1>5, PhasesMove
<1>. QED BY <1>3, <1>6 DEF CSInv

\* The steps of a tool, one by one.
LEMMA StartStep == ASSUME CSInv, NEW t \in Tools, StartTool(t) PROVE CSInv'
<1> DEFINE x == Publish("tool.started", t, "", {"plain", "extra", "body", "internal"})
<1>1. Good(t, x)
  <2>1. IsItem(x) /\ x.op = "publish" /\ x.event.type = "tool.started" /\ x.event.of = t /\ x.event.note = ""
    BY DEF Publish, Do, Event, IsItem, IsEvent
  <2>. HIDE DEF x
  <2>. QED BY <2>1 DEF Good, Ops, Closers, TaskEnds
<1>2. /\ Begin(t, <<x>>) /\ tool[t] = "ready" /\ tool' = [tool EXCEPT ![t] = "running"]
      /\ UNCHANGED <<pc, approval, pend, history, memory, views>>
  BY DEF StartTool
<1>. HIDE DEF x
<1>. QED BY <1>1, <1>2, ToolBegun

LEMMA OutputStep == ASSUME CSInv, NEW t \in Tools, ToolOutput(t) PROVE CSInv'
<1>1. tool[t] \notin {"idle", "done"} /\ UNCHANGED <<pc, approval, pend, history, memory, views>>
  BY DEF ToolOutput, Executes
<1>2. PICK x \in {"plain", "internal"} :
         \/ /\ Begin(t, <<Publish("tool.progress", t, "activity", PublicText(x))>>)
            /\ tool' = [tool EXCEPT ![t] = "told"]
         \/ /\ Begin(t, <<Publish("tool.output", t, "result_preview", PublicText(x))>>)
            /\ tool' = [tool EXCEPT ![t] = "streamed"]
         \/ /\ Begin(t, <<Publish("command.output", t, "stdout", PublicText(x))>>)
            /\ tool' = [tool EXCEPT ![t] = "told"]
  BY DEF ToolOutput
<1> DEFINE f == PublicText(x)
<1>. HIDE DEF f
<1>3. /\ Good(t, Publish("tool.progress", t, "activity", f))
      /\ Good(t, Publish("tool.output", t, "result_preview", f))
      /\ Good(t, Publish("command.output", t, "stdout", f))
  BY PlainGood DEF Closers, TaskEnds
<1>4. \/ /\ Begin(t, <<Publish("tool.progress", t, "activity", f)>>)
         /\ tool' = [tool EXCEPT ![t] = "told"]
      \/ /\ Begin(t, <<Publish("tool.output", t, "result_preview", f)>>)
         /\ tool' = [tool EXCEPT ![t] = "streamed"]
      \/ /\ Begin(t, <<Publish("command.output", t, "stdout", f)>>)
         /\ tool' = [tool EXCEPT ![t] = "told"]
  BY <1>2 DEF f
<1>. QED BY <1>1, <1>3, <1>4, ToolBegun

LEMMA EndStep == ASSUME CSInv, NEW t \in Tools, EndTool(t) PROVE CSInv'
<1> DEFINE note == IF tool[t] = "streamed" THEN "streamed" ELSE ""
<1>1. tool[t] \notin {"idle", "done"} /\ UNCHANGED <<pc, approval, pend, history, memory, views>>
      /\ tool' = [tool EXCEPT ![t] = "done"]
  BY DEF EndTool, Executes
<1>2. PICK type \in {"tool.completed", "tool.failed", "tool.blocked"} :
        Begin(t, <<Publish(type, t, note, {"plain", "body", "internal"})>>)
  BY DEF EndTool
<1>3. note # "text"
  OBVIOUS
<1>. HIDE DEF note
<1>4. Good(t, Publish(type, t, note, {"plain", "body", "internal"}))
  BY <1>3, PlainGood DEF Closers, TaskEnds
<1>. QED BY <1>1, <1>2, <1>4, ToolBegun

LEMMA AskStep == ASSUME CSInv, NEW t \in Tools, AskApproval(t) PROVE CSInv'
<1> DEFINE a == Write("waiting_approval")
           b == Publish("approval.requested", t, "", {"plain", "body", "diff", "internal"})
           s == <<a, b>>
<1>0. t \in Threads /\ t # "text" /\ t # "rpc"
  BY ChatStreamAssumption, ThreadsAre
<1>1. Good(t, a)
  BY WriteGood
<1>2. Good(t, b)
  <2>1. IsItem(b) /\ b.op = "publish" /\ b.event.type = "approval.requested" /\ b.event.of = t /\ b.event.note = ""
    BY DEF Publish, Do, Event, IsItem, IsEvent
  <2>. HIDE DEF b
  <2>. QED BY <1>0, <2>1 DEF Good, Ops, Closers, TaskEnds
<1>3. /\ Begin(t, s) /\ tool[t] = "running" /\ t \in Gated /\ approval[t] = "none"
      /\ approval' = [approval EXCEPT ![t] = "pending"] /\ tool' = [tool EXCEPT ![t] = "asked"]
      /\ UNCHANGED <<pc, pend, history, memory, views>>
  BY DEF AskApproval
<1>. HIDE DEF a, b
<1>4. IsSeq(s) /\ Items(s) \subseteq {a, b}
  BY Items2
<1>. HIDE DEF s
<1>5. UNCHANGED <<memory, views>> /\ history \subseteq history' /\ (NoCancel' <=> NoCancel) /\ pc' = pc /\ pend' = pend
  BY <1>3 DEF NoCancel
<1>6. \A x \in Items(s) : Good(t, x)
  BY <1>1, <1>2, <1>4
<1>7. /\ WorkFn' /\ WorkSeqs' /\ Works' /\ TextOK' /\ ViewsOK' /\ TextInItsBlock'
      /\ \A q \in Threads : q # t => work'[q] = work[q]
  BY <1>0, <1>3, <1>4, <1>5, <1>6, BegunGood
<1>8. Phases /\ pc \notin {"top", "stream"} /\ work'["rpc"] = work["rpc"] /\ t \in Cards
  BY <1>0, <1>3, <1>7, ThreadsAre DEF CSInv, Phases, Cards
<1>9. /\ tool' = [c \in Tools |-> tool'[c]] /\ approval' = [c \in Cards |-> approval'[c]]
      /\ approval'[t] = "pending" /\ \A c \in Cards : c # t => approval'[c] = approval[c]
      /\ \A c \in Tools : c # t => tool'[c] = tool[c]
  BY <1>3, <1>8 DEF Phases
<1>10. pend' \in Gated \cup {"none"} /\ pend' # t /\ (pend' # "none" => pend' \in Cards)
  BY <1>3, <1>5, <1>8, ChatStreamAssumption DEF Phases, Cards
<1>11. pend' # "none" => approval'[pend'] # "none" /\ (approval'[pend'] = "pending" => pc' = "waiting")
  BY <1>5, <1>8, <1>9, <1>10 DEF Phases
<1>12. \A c \in Tools : tool'[c] = "asked" => c \in Gated /\ approval'[c] # "none"
  BY <1>3, <1>8, <1>9, <1>11 DEF Phases, Cards
<1>13. \A x \in Items(work'["rpc"]) :
       /\ x.op = "resume" => /\ pc' = "waiting"
                             /\ pend' # "none" => approval'[pend'] # "pending"
                             /\ \A y \in Items(work'["rpc"]) : ~Closing(y)
       /\ Closing(x) /\ NoCancel' => pc' = "waiting"
  BY <1>5, <1>8, <1>9, <1>10 DEF Phases
<1>14. Phases'
  BY <1>5, <1>8, <1>9, <1>10, <1>11, <1>12, <1>13 DEF Phases, ResumesLast, Closing
<1>. QED BY <1>7, <1>14 DEF CSInv

LEMMA SaveStep == ASSUME CSInv, NEW t \in Tools, SavePending(t) PROVE CSInv'
<1>1. /\ tool[t] = "asked" /\ pc = "tools" /\ pend' = t /\ pc' = "waiting"
      /\ tool' = [tool EXCEPT ![t] = "waiting"] /\ approval' = approval /\ history' = history /\ work' = work
      /\ UNCHANGED <<memory, views>>
  BY DEF SavePending
<1>2. WorkFn' /\ WorkSeqs' /\ Works' /\ TextOK' /\ ViewsOK' /\ TextInItsBlock'
  BY <1>1, Unworked
<1>3. t \in Gated /\ approval[t] # "none" /\ Phases
  BY <1>1 DEF CSInv, Phases
<1>4. \A x \in Items(work["rpc"]) : x.op # "resume"
  BY <1>1, <1>3 DEF Phases
<1>5. tool' = [c \in Tools |-> tool'[c]] /\ \A c \in Tools : tool'[c] = "asked" => tool[c] = "asked"
  BY <1>1, <1>3 DEF Phases
<1>6. Phases'
  BY <1>1, <1>3, <1>4, <1>5 DEF Phases, ResumesLast, Closing
<1>. QED BY <1>2, <1>6 DEF CSInv

\* A restart forgets the text block; the trace has its number.
LEMMA RestartStep == CSInv /\ Restart => CSInv'
<1> SUFFICES ASSUME CSInv, Restart PROVE CSInv'
  OBVIOUS
<1>1. /\ pc' = (IF pc = "waiting" THEN pc ELSE "over")
      /\ tool' = [t \in Tools |-> IF tool[t] \in {"idle", "waiting"} THEN tool[t] ELSE "done"]
      /\ work' = [p \in Threads |-> << >>]
      /\ text' = [known |-> FALSE, open |-> FALSE, index |-> 0]
      /\ approval' = approval /\ pend' = pend /\ history' = history /\ UNCHANGED views
  BY DEF Restart
<1>2. WorkFn' /\ \A p \in Threads : work'[p] = << >>
  BY <1>1 DEF WorkFn
<1>3. WorkSeqs'
  <2> SUFFICES ASSUME NEW q \in Threads PROVE IsSeq(work'[q])
    BY DEF WorkSeqs, IsSeq, Items
  <2>. QED BY <1>2, NoItems
<1>4. Works'
  <2> SUFFICES ASSUME NEW q \in Threads
               PROVE  (\A x \in Items(work'[q]) : Good(q, x)) \/ (q = "loop" /\ pc' = "stream" /\ Tokening')
    BY DEF Works, Good
  <2>. QED BY <1>2, NoItems
<1>5. ViewsOK' /\ TextInItsBlock' /\ chat' = chat
  BY <1>1 DEF CSInv, views, ViewsOK, IsView, Same, TextInItsBlock
<1>6. TextOK'
  BY <1>1, <1>5 DEF CSInv, TextOK
<1>7. Phases
  BY DEF CSInv
<1>8. Items(work'["rpc"]) = {} /\ ResumesLast(work'["rpc"]) /\ \A t \in Tools : work'[t] = << >>
  BY <1>2, ThreadsAre, NoItems, NoneResumes
<1>9. tool' = [t \in Tools |-> tool'[t]] /\ \A t \in Tools : tool'[t] # "asked"
  BY <1>1
<1>10. pend' # "none" => approval'[pend'] # "none" /\ (approval'[pend'] = "pending" => pc' = "waiting")
  BY <1>1, <1>7 DEF Phases
<1>11. pc' \notin {"top", "stream"} /\ approval' = [c \in Cards |-> approval'[c]] /\ pend' \in Gated \cup {"none"}
  BY <1>1, <1>7 DEF Phases
<1>12. Phases'
  BY <1>8, <1>9, <1>10, <1>11 DEF Phases, ResumesLast, Closing
<1>. QED BY <1>2, <1>3, <1>4, <1>5, <1>6, <1>12 DEF CSInv

\* The initial state, and every step.
LEMMA InitHolds == Init => CSInv
<1> SUFFICES ASSUME Init PROVE CSInv
  OBVIOUS
<1>1. /\ pc = "top" /\ tool = [t \in Tools |-> "idle"] /\ approval = [c \in Cards |-> "none"] /\ pend = "none"
      /\ work = [p \in Threads |-> << >>] /\ text = [known |-> FALSE, open |-> FALSE, index |-> 0]
      /\ chat = NewView /\ log = NewView /\ history = {}
  BY DEF Init
<1>2. WorkFn /\ \A p \in Threads : work[p] = << >>
  BY <1>1 DEF WorkFn
<1>3. WorkSeqs /\ Works
  BY <1>2, NoItems DEF WorkSeqs, Works
<1>4. ViewsOK /\ TextInItsBlock /\ chat.block = 0
  BY <1>1 DEF ViewsOK, IsView, Same, TextInItsBlock, NewView
<1>5. TextOK
  BY <1>1, <1>4 DEF TextOK
<1>6. Items(work["rpc"]) = {} /\ ResumesLast(work["rpc"]) /\ \A t \in Tools : work[t] = << >>
  BY <1>2, ThreadsAre, NoItems, NoneResumes
<1>7. Phases
  BY <1>1, <1>6 DEF Phases
<1>. QED BY <1>2, <1>3, <1>4, <1>5, <1>7 DEF CSInv

LEMMA ThreadStep == ASSUME CSInv, NEW p \in Threads, Step(p) PROVE CSInv'
<1>1. CASE \A x \in Items(work[p]) : Good(p, x)
  BY <1>1, GoodStep
<1>2. CASE p = "loop" /\ pc = "stream" /\ Tokening
  BY <1>2, TokenStep
<1>. QED BY <1>1, <1>2 DEF CSInv, Works

LEMMA ActsKeep == CSInv /\ Acts => CSInv'
<1> SUFFICES ASSUME CSInv, Acts PROVE CSInv'
  OBVIOUS
<1>1. CASE \E p \in Threads : Step(p)
  BY <1>1, ThreadStep
<1>2. CASE Turn \/ Token \/ Thought \/ CompleteTask \/ FailTask \/ LoopStops \/ NextStep
  BY <1>2, TurnStep, TokenBegins, ThoughtStep, CompleteStep, FailStep, StopStep, NextStepStep
<1>3. CASE \E ts \in SUBSET Tools : CallTools(ts)
  BY <1>3, CallStep
<1>4. CASE \E t \in Tools : ToolInput(t) \/ StartTool(t) \/ AskApproval(t) \/ SavePending(t) \/ ToolOutput(t) \/ EndTool(t)
  BY <1>4, InputStep, StartStep, AskStep, SaveStep, OutputStep, EndStep
<1>5. CASE Cancel \/ RequestMerge \/ Restart
  BY <1>5, CancelStep, MergeStep, RestartStep
<1>6. ASSUME NEW d \in {"approved", "rejected"}, DecideMerge(d) PROVE CSInv'
  <2>1. "merge" \in Cards /\ Decide("merge", d) /\ Begin("rpc", <<Resolved("merge", "")>>)
        /\ UNCHANGED <<pc, tool, pend>> /\ history \subseteq history'
    BY <1>6 DEF DecideMerge, Cards
  <2>. QED BY <2>1, DecideStep
<1>7. ASSUME NEW d \in {"approved", "rejected"}, NEW t \in Gated, DecideEnded(t, d) PROVE CSInv'
  <2>1. t \in Cards /\ Decide(t, d) /\ Begin("rpc", <<Resolved(t, "ignored")>>)
        /\ UNCHANGED <<pc, tool, pend>> /\ history \subseteq history'
    BY <1>7 DEF DecideEnded, Cards
  <2>. QED BY <2>1, DecideStep
<1>8. ASSUME NEW d \in {"approved", "rejected"}, NEW t \in Gated, DecideEarly(t, d) PROVE CSInv'
  <2>1. t \in Cards /\ Decide(t, d) /\ Begin("rpc", <<Resolved(t, "early")>>)
        /\ UNCHANGED <<pc, tool, pend>> /\ history \subseteq history'
    BY <1>8 DEF DecideEarly, Cards
  <2>. QED BY <2>1, DecideStep
<1>9. CASE \E t \in Gated : Approve(t) \/ Reject(t)
  BY <1>9, ApproveStep, RejectStep
<1>. QED BY <1>1, <1>2, <1>3, <1>4, <1>5, <1>6, <1>7, <1>8, <1>9 DEF Acts

LEMMA IdleKeeps == CSInv /\ UNCHANGED vars => CSInv'
<1> SUFFICES ASSUME CSInv, UNCHANGED vars PROVE CSInv'
  OBVIOUS
<1>1. /\ UNCHANGED <<work, memory, views>> /\ history \subseteq history' /\ pc' = pc /\ Phases
      /\ work' = work /\ approval' = approval /\ pend' = pend /\ tool' = tool /\ history' = history
  BY DEF vars, memory, views, CSInv
<1>2. WorkFn' /\ WorkSeqs' /\ Works' /\ TextOK' /\ ViewsOK' /\ TextInItsBlock'
  BY <1>1, Unworked
<1>3. Phases'
  BY <1>1 DEF Phases, NoCancel, ResumesLast, Closing
<1>. QED BY <1>2, <1>3 DEF CSInv

\* In every state each thread's work is that of its handler, a token's delta follows
\* the announcement of its block, no request ends or resumes a loop that does not wait,
\* and the client's view is the trace's (_publish, _open_chat_text_block, approval_flow).
THEOREM ChatInductive == Spec => []CSInv
<1>1. Init => CSInv
  BY InitHolds
<1>2. CSInv /\ [Next]_vars => CSInv'
  BY ActsKeep, IdleKeeps DEF Next
<1>. QED BY <1>1, <1>2, PTL DEF Spec

\* A reload shows what the client has shown: each frame that is sent is kept and
\* replayed, but for the text of the answer (EventBus.publish, the trace's replay).
THEOREM ReplayMatchesLiveHolds == Spec => []ReplayMatchesLive
<1>1. CSInv => ReplayMatchesLive
  BY SameIsReplay DEF CSInv, ViewsOK, ReplayMatchesLive
<1>. QED BY <1>1, ChatInductive, PTL

\* Every text block announced is new, and text goes to the block announced last unless
\* a cancel closed it (_open_chat_text_block, _recover_chat_text_block_state).
THEOREM TextInItsBlockHolds == Spec => []TextInItsBlock
<1>1. CSInv => TextInItsBlock
  BY DEF CSInv
<1>. QED BY <1>1, ChatInductive, PTL

-----------------------------------------------------------------------------
(* After the seal: what is left to do changes nothing of the content.      *)

\* What changes nothing of the content of the chat.
Harmless(x) ==
  \/ /\ x.op = "publish" /\ x.event.type \notin Closers
     /\ x.event.note = "early" => x.event.type = "approval.resolved"
  \/ x.op = "frame" /\ x.event.type \in {"permission_request", "status"}
  \/ x.op = "status" /\ x.event.type = "status"
  \/ x.op = "write"

SealOK ==
  sealed # << >> =>
    /\ task \in Ended /\ Content(chat) = sealed
    /\ \A p \in Threads : \A x \in Items(work[p]) : Harmless(x)

\* Cards and statuses are no content.
LEMMA SameContent ==
  ASSUME NEW v, IsView(v), NEW f, f.type \in {"permission_request", "status"}
  PROVE  Content(Shown(v, f)) = Content(v)
<1> DEFINE u == Shown(v, f)
<1>1. u.block = v.block /\ u.starts = v.starts /\ u.results = v.results /\ u.previews = v.previews /\ u.end = v.end
  BY DEF Shown, IsView
<1>. HIDE DEF u
<1>2. Content(u) = Content(v)
  BY <1>1 DEF Content
<1>. QED BY <1>2 DEF u

LEMMA CardsHarmless ==
  ASSUME NEW e, NEW shown, NEW state
  PROVE  IsSeq(CardFrames(e, shown, state)) /\ \A x \in Items(CardFrames(e, shown, state)) : Harmless(x)
<1> DEFINE a == Frame("permission_request", e.of, shown, PublicRequest("write_file", e.fields))
           b == Status(state, IF shown = "asked" THEN e.of ELSE "")
<1>1. a.op = "frame" /\ a.event.type = "permission_request"
  BY DEF Frame, Do, Event
<1>2. b.op = "status" /\ b.event.type = "status"
  BY DEF Status, Do, Event
<1>3. CardFrames(e, shown, state) = <<a, b>>
  BY DEF CardFrames
<1>. HIDE DEF a, b
<1>4. IsSeq(<<a, b>>) /\ Items(<<a, b>>) \subseteq {a, b}
  BY Items2
<1>. QED BY <1>1, <1>2, <1>3, <1>4 DEF Harmless

LEMMA FrameHarmless ==
  ASSUME NEW e, e.type = "status"
  PROVE  Harmless(Do("frame", e))
BY DEF Do, Harmless

\* An ended task's events become cards, or nothing.
LEMMA EndedFrames ==
  ASSUME NEW e, NEW given, task \in Ended, e.type \notin Closers, e.type \notin ChatFrames \cup {"assistant.token"},
         ~Dropped(task, e.type, e.note, ChatVisibility(e.type, given)),
         ChatVisibility(e.type, given) = "chat"
  PROVE  IsSeq(Frames(e)) /\ \A x \in Items(Frames(e)) : Harmless(x)
<1>1. CASE e.type = "approval.requested"
  <2>1. Frames(e) = CardFrames(e, "asked", "permission_pending")
    BY <1>1 DEF Frames, TaskEnds
  <2>. QED BY <2>1, CardsHarmless
<1>2. CASE e.type = "approval.resolved"
  <2>1. Frames(e) = CardFrames(e, "resolved", "idle")
    BY <1>2 DEF Frames, TaskEnds
  <2>. QED BY <2>1, CardsHarmless
<1>3. CASE e.type \notin {"approval.requested", "approval.resolved"}
  <2>1. e.type \notin AllowedAfter(task)
    BY <1>3 DEF AllowedAfter, Closers, TaskEnds
  <2>2. FALSE
    BY <1>3, <2>1 DEF Dropped
  <2>. QED BY <2>2
<1>. QED BY <1>1, <1>2, <1>3

LEMMA EndedPublish ==
  ASSUME NEW p, task \in Ended, PublishEvent(p), Harmless(Head(work[p]))
  PROVE  \E s : IsSeq(s) /\ (\A x \in Items(s) : Harmless(x)) /\ Then(p, s)
<1> DEFINE e == E(p)
           given == IF e.note = "early" THEN "trace" ELSE Visibility(e.type)
           seen == ChatVisibility(e.type, given)
<1>1. e.type \notin Closers /\ (e.note = "early" => e.type = "approval.resolved")
  BY DEF PublishEvent, Next1, Harmless, E
<1>2. CASE Then(p, << >>)
  BY <1>2, NoItems
<1>3. CASE ~Dropped(task, e.type, e.note, given)
  <2>1. e.type \notin ChatFrames \cup {"assistant.token"}
    <3> SUFFICES ASSUME e.type \in ChatFrames \cup {"assistant.token"} PROVE FALSE
      OBVIOUS
    <3>1. e.type \notin AllowedAfter(task) /\ e.type # "approval.resolved"
      <4>. HIDE DEF e
      <4>. QED BY DEF ChatFrames, AllowedAfter
    <3>3. Visibility(e.type) = "chat"
      <4>. HIDE DEF e
      <4>. QED BY DEF Visibility, ChatFrames, TaskEnds
    <3>2. given = "chat"
      BY <1>1, <3>1, <3>3
    <3>. HIDE DEF e, given
    <3>. QED BY <1>3, <3>1, <3>2 DEF Dropped, Ended
  <2>2. RawEvent(e) = << >> \/ e.note = "early"
    <3>1. e.type # "message.failed"
      BY <1>1 DEF Closers
    <3>2. ~Live(Raw(e.type))
      BY <2>1, <3>1 DEF Live, Raw, ShouldEmit, ToServerMessage
    <3>3. ~Replayed(Raw(e.type))
      BY <3>2, RawSame
    <3>. QED BY <3>2, <3>3 DEF RawEvent
  <2>3. /\ e.type \notin ChatFrames /\ e.type \notin TaskEnds
        /\ e.type # "assistant.token"
    BY <1>1, <2>1 DEF Closers
  <2>4. Then(p, (IF seen = "chat" /\ ~Dropped(task, e.type, e.note, seen) THEN Frames(e) ELSE << >>)
                \o (IF e.note = "early" THEN << >> ELSE RawEvent(e)))
    BY <1>3, <2>3 DEF PublishEvent
  <2>5. Then(p, (IF seen = "chat" /\ ~Dropped(task, e.type, e.note, seen) THEN Frames(e) ELSE << >>) \o << >>)
    BY <2>2, <2>4
  <2>6. CASE seen = "chat" /\ ~Dropped(task, e.type, e.note, seen)
    <3>1. IsSeq(Frames(e)) /\ \A x \in Items(Frames(e)) : Harmless(x)
      <4>. HIDE DEF given
      <4>1. e.type \notin Closers /\ e.type \notin ChatFrames \cup {"assistant.token"}
            /\ ~Dropped(task, e.type, e.note, ChatVisibility(e.type, given)) /\ ChatVisibility(e.type, given) = "chat"
        BY <1>1, <2>3, <2>6
      <4>. HIDE DEF e, seen
      <4>. QED BY <4>1, EndedFrames
    <3>2. Then(p, Frames(e))
      <4>1. Then(p, Frames(e) \o << >>)
        BY <2>5, <2>6
      <4>. QED BY <3>1, <4>1, EmptyJoins
    <3>. QED BY <3>1, <3>2
  <2>7. CASE ~(seen = "chat" /\ ~Dropped(task, e.type, e.note, seen))
    <3>1. Then(p, << >> \o << >>)
      BY <2>5, <2>7
    <3>2. Then(p, << >>)
      BY <3>1, NoItems, EmptyJoins
    <3>. QED BY <3>2, NoItems
  <2>. QED BY <2>6, <2>7
<1>. QED BY <1>2, <1>3 DEF PublishEvent

\* Once the task has ended and nothing but harmless work is left, so it stays.
SealKept ==
  /\ Content(chat') = Content(chat)
  /\ \A p \in Threads : \A x \in Items(work'[p]) : Harmless(x)

AllHarmless == \A p \in Threads : \A x \in Items(work[p]) : Harmless(x)

\* A step of a thread after the seal.
LEMMA SealedStep ==
  ASSUME CSInv, task \in Ended, AllHarmless, NEW p \in Threads, Step(p)
  PROVE  SealKept
<1> DEFINE h == Head(work[p])
<1>1. WorkFn /\ WorkSeqs /\ IsView(chat)
  BY DEF CSInv, ViewsOK
<1>2. work[p] # << >> /\ IsSeq(work[p])
  BY <1>1, ActionOf DEF WorkSeqs
<1>3. Harmless(h) /\ h.op \in {"publish", "frame", "status", "write"}
  BY <1>2, ItemsTail DEF AllHarmless, Harmless
<1>4. ASSUME NEW s, IsSeq(s), \A x \in Items(s) : Harmless(x), Then(p, s)
      PROVE  \A q \in Threads : \A x \in Items(work'[q]) : Harmless(x)
  <2>1. /\ \A q \in Threads : q # p => work'[q] = work[q]
        /\ Items(work'[p]) \subseteq Items(s) \cup Items(work[p])
    BY <1>1, <1>2, <1>4, ThenWork
  <2>. QED BY <1>4, <2>1 DEF AllHarmless
<1>5. CASE h.op = "publish"
  <2>1. PublishEvent(p)
    BY <1>5, ActionOf
  <2>2. chat' = chat
    BY <2>1 DEF PublishEvent, views
  <2>3. \E s : IsSeq(s) /\ (\A x \in Items(s) : Harmless(x)) /\ Then(p, s)
    BY <1>3, <2>1, EndedPublish
  <2>. QED BY <1>4, <2>2, <2>3 DEF SealKept
<1>6. CASE h.op = "frame"
  <2>1. SendFrame(p) /\ E(p).type \in {"permission_request", "status"}
    BY <1>3, <1>6, ActionOf DEF Harmless, E
  <2>2. Then(p, << >>) /\ chat' \in {chat, Shown(chat, E(p))}
    BY <2>1 DEF SendFrame, Sent
  <2>3. Content(chat') = Content(chat)
    BY <1>1, <2>1, <2>2, SameContent
  <2>. QED BY <1>4, <2>2, <2>3, NoItems DEF SealKept
<1>7. CASE h.op = "status"
  <2>1. ShowStatus(p) /\ E(p).type = "status"
    BY <1>3, <1>7, ActionOf DEF Harmless, E
  <2> DEFINE a == Do("frame", E(p))
  <2>2. (Then(p, << >>) \/ Then(p, <<a>>)) /\ chat' = chat
    BY <2>1 DEF ShowStatus, views
  <2>3. Harmless(a)
    BY <2>1, FrameHarmless
  <2>. HIDE DEF a
  <2>4. IsSeq(<<a>>) /\ Items(<<a>>) \subseteq {a}
    BY Items1
  <2>5. CASE Then(p, << >>)
    BY <1>4, <2>2, <2>5, NoItems DEF SealKept
  <2>6. CASE Then(p, <<a>>)
    <3>1. \A x \in Items(<<a>>) : Harmless(x)
      BY <2>3, <2>4
    <3>. QED BY <1>4, <2>2, <2>4, <2>6, <3>1 DEF SealKept
  <2>. QED BY <2>2, <2>5, <2>6
<1>8. CASE h.op = "write"
  <2>1. WriteStatus(p)
    BY <1>8, ActionOf
  <2>2. Then(p, << >>) /\ chat' = chat
    BY <2>1 DEF WriteStatus, views
  <2>. QED BY <1>4, <2>2, NoItems DEF SealKept
<1>. QED BY <1>3, <1>5, <1>6, <1>7, <1>8

\* What begins after the seal is harmless.
LEMMA SealedBegun ==
  ASSUME CSInv, AllHarmless, NEW p \in Threads, NEW s, IsSeq(s), \A x \in Items(s) : Harmless(x),
         Begin(p, s), UNCHANGED views
  PROVE  SealKept
<1>1. work'[p] = s /\ (\A q \in Threads : q # p => work'[q] = work[q]) /\ chat' = chat
  BY BeginWork DEF CSInv, views
<1>. QED BY <1>1 DEF SealKept, AllHarmless

LEMMA SealedIdle == AllHarmless /\ UNCHANGED <<work, views>> => SealKept
BY DEF SealKept, AllHarmless, views

LEMMA PublishHarmless ==
  ASSUME NEW type, NEW of, NEW note, NEW fields, type \notin Closers, note = "early" => type = "approval.resolved"
  PROVE  Harmless(Publish(type, of, note, fields))
BY PublishIs DEF Harmless

LEMMA SealedOne ==
  ASSUME CSInv, AllHarmless, NEW p \in Threads, NEW type, NEW of, NEW note, NEW fields,
         type \notin Closers, note = "early" => type = "approval.resolved",
         Begin(p, <<Publish(type, of, note, fields)>>), UNCHANGED views
  PROVE  SealKept
<1> DEFINE x == Publish(type, of, note, fields)
<1>1. Harmless(x) /\ Begin(p, <<x>>)
  BY PublishHarmless
<1>. HIDE DEF x
<1>2. IsSeq(<<x>>) /\ Items(<<x>>) \subseteq {x}
  BY Items1
<1>3. \A y \in Items(<<x>>) : Harmless(y)
  BY <1>1, <1>2
<1> DEFINE s == <<x>>
<1>4. IsSeq(s) /\ (\A y \in Items(s) : Harmless(y)) /\ Begin(p, s)
  BY <1>1, <1>2, <1>3
<1>. HIDE DEF s
<1>. QED BY <1>4, SealedBegun

LEMMA SealedDelta ==
  ASSUME CSInv, AllHarmless, NEW type, NEW of, NEW fields, NEW note, note # "early", type \notin Closers,
         Delta(Publish(type, of, note, fields))
  PROVE  SealKept
<1>1. Begin("loop", <<Publish(type, of, note, fields)>>) /\ UNCHANGED views
  BY DEF Delta
<1>. QED BY <1>1, ThreadsAre, SealedOne

LEMMA SealedAsk ==
  ASSUME CSInv, AllHarmless, NEW t \in Tools, AskApproval(t)
  PROVE  SealKept
<1> DEFINE a == Write("waiting_approval")
           b == Publish("approval.requested", t, "", {"plain", "body", "diff", "internal"})
           s == <<a, b>>
<1>1. Harmless(a)
  BY DEF Write, Do, Harmless
<1>2. Harmless(b)
  BY PublishHarmless DEF Closers, TaskEnds
<1>3. Begin(t, s) /\ UNCHANGED views
  BY DEF AskApproval
<1>. HIDE DEF a, b
<1>4. IsSeq(s) /\ Items(s) \subseteq {a, b}
  BY Items2
<1>. HIDE DEF s
<1>5. \A x \in Items(s) : Harmless(x)
  BY <1>1, <1>2, <1>4
<1>. QED BY <1>3, <1>4, <1>5, ThreadsAre, SealedBegun

LEMMA SealedTool ==
  ASSUME CSInv, AllHarmless, NEW t \in Tools, StartTool(t) \/ ToolOutput(t) \/ EndTool(t)
  PROVE  SealKept
<1>0. t \in Threads
  BY ThreadsAre
<1>1. CASE StartTool(t)
  <2> DEFINE none == ""
  <2>1. Begin(t, <<Publish("tool.started", t, none, {"plain", "extra", "body", "internal"})>>) /\ UNCHANGED views
    BY <1>1 DEF StartTool
  <2>2. "tool.started" \notin Closers /\ none # "early"
    BY DEF Closers, TaskEnds
  <2>. HIDE DEF none
  <2>. QED BY <1>0, <2>1, <2>2, SealedOne
<1>2. CASE ToolOutput(t)
  <2>0. UNCHANGED views
    BY <1>2 DEF ToolOutput
  <2>1. PICK x \in {"plain", "internal"} :
          \/ Begin(t, <<Publish("tool.progress", t, "activity", PublicText(x))>>)
          \/ Begin(t, <<Publish("tool.output", t, "result_preview", PublicText(x))>>)
          \/ Begin(t, <<Publish("command.output", t, "stdout", PublicText(x))>>)
    BY <1>2 DEF ToolOutput
  <2>2. {"tool.progress", "tool.output", "command.output"} \cap Closers = {}
    BY DEF Closers, TaskEnds
  <2> DEFINE f == PublicText(x)
  <2>4. \/ Begin(t, <<Publish("tool.progress", t, "activity", f)>>)
        \/ Begin(t, <<Publish("tool.output", t, "result_preview", f)>>)
        \/ Begin(t, <<Publish("command.output", t, "stdout", f)>>)
    BY <2>1
  <2>. HIDE DEF f
  <2>5. CASE Begin(t, <<Publish("tool.progress", t, "activity", f)>>)
    BY <1>0, <2>0, <2>2, <2>5, SealedOne
  <2>6. CASE Begin(t, <<Publish("tool.output", t, "result_preview", f)>>)
    BY <1>0, <2>0, <2>2, <2>6, SealedOne
  <2>7. CASE Begin(t, <<Publish("command.output", t, "stdout", f)>>)
    BY <1>0, <2>0, <2>2, <2>7, SealedOne
  <2>. QED BY <2>4, <2>5, <2>6, <2>7
<1>3. CASE EndTool(t)
  <2> DEFINE note == IF tool[t] = "streamed" THEN "streamed" ELSE ""
  <2>1. PICK type \in {"tool.completed", "tool.failed", "tool.blocked"} :
          Begin(t, <<Publish(type, t, note, {"plain", "body", "internal"})>>)
    BY <1>3 DEF EndTool
  <2>2. UNCHANGED views /\ type \notin Closers /\ note # "early"
    BY <1>3 DEF EndTool, Closers, TaskEnds
  <2>. HIDE DEF note
  <2>. QED BY <1>0, <2>1, <2>2, SealedOne
<1>. QED BY <1>1, <1>2, <1>3

LEMMA SealedRequest ==
  ASSUME CSInv, AllHarmless, NEW c, NEW note, Begin("rpc", <<Resolved(c, note)>>), UNCHANGED views
  PROVE  SealKept
<1>1. Begin("rpc", <<Publish("approval.resolved", c, note, {"plain", "body", "internal"})>>)
  BY DEF Resolved
<1>2. "approval.resolved" \notin Closers
  BY DEF Closers, TaskEnds
<1>. QED BY <1>1, <1>2, ThreadsAre, SealedOne

\* Every step after the seal.
LEMMA SealedActs ==
  ASSUME CSInv, task \in Ended, AllHarmless, Acts, task' \in Ended
  PROVE  SealKept
<1>0. task # "running"
  BY DEF Ended
<1>1. CASE \E p \in Threads : Step(p)
  BY <1>1, SealedStep
<1>2. CASE Turn \/ CompleteTask \/ FailTask \/ Cancel
  BY <1>0, <1>2 DEF Turn, CompleteTask, FailTask, Cancel
<1>3. CASE Token \/ Thought
  BY <1>3, SealedDelta DEF Token, Thought, Closers, TaskEnds
<1>4. CASE LoopStops \/ NextStep \/ (\E ts \in SUBSET Tools : CallTools(ts)) \/ (\E t \in Tools : SavePending(t))
  BY <1>4, SealedIdle DEF LoopStops, NextStep, CallTools, SavePending
<1>5. ASSUME NEW t \in Tools, ToolInput(t) PROVE SealKept
  BY <1>5, SealedDelta DEF ToolInput, Closers, TaskEnds
<1>6. ASSUME NEW t \in Tools, AskApproval(t) PROVE SealKept
  BY <1>6, SealedAsk
<1>7. ASSUME NEW t \in Tools, StartTool(t) \/ ToolOutput(t) \/ EndTool(t) PROVE SealKept
  BY <1>7, SealedTool
<1>8. CASE RequestMerge
  <2> DEFINE none == ""
  <2>1. Begin("rpc", <<Publish("approval.requested", "merge", none, {"plain", "internal"})>>) /\ UNCHANGED views
    BY <1>8 DEF RequestMerge
  <2>2. "approval.requested" \notin Closers /\ none # "early"
    BY DEF Closers, TaskEnds
  <2>. HIDE DEF none
  <2>. QED BY <2>1, <2>2, ThreadsAre, SealedOne
<1>9. ASSUME NEW d, DecideMerge(d) PROVE SealKept
  BY <1>9, SealedRequest DEF DecideMerge, Decide
<1>10. ASSUME NEW d, NEW t \in Gated, DecideEnded(t, d) \/ DecideEarly(t, d) PROVE SealKept
  BY <1>10, SealedRequest DEF DecideEnded, DecideEarly, Decide
<1>11. CASE \E t \in Gated : Approve(t) \/ Reject(t)
  BY <1>11 DEF Approve, Reject
<1>12. CASE Restart
  <2>1. work' = [p \in Threads |-> << >>] /\ chat' = chat
    BY <1>12 DEF Restart, views
  <2>2. \A p \in Threads : Items(work'[p]) = {}
    BY <2>1, NoItems
  <2>. QED BY <2>1, <2>2 DEF SealKept
<1>. QED BY <1>1, <1>2, <1>3, <1>4, <1>5, <1>6, <1>7, <1>8, <1>9, <1>10, <1>11, <1>12 DEF Acts

\* The seal.
LEMMA SealStep == CSInv /\ SealOK /\ [Next]_vars => SealOK'
<1> SUFFICES ASSUME CSInv, SealOK, [Next]_vars PROVE SealOK'
  OBVIOUS
<1>1. CASE UNCHANGED vars
  <2>1. sealed' = sealed /\ task' = task /\ chat' = chat /\ work' = work
    BY <1>1 DEF vars
  <2>. QED BY <2>1 DEF SealOK
<1>2. CASE Next
  <2>1. Acts /\ sealed' = IF task' \notin Ended THEN << >>
                          ELSE IF sealed = << >> /\ Quiet' THEN Content(chat') ELSE sealed
    BY <1>2 DEF Next, Seal
  <2>2. CASE task' \notin Ended
    BY <2>1, <2>2 DEF SealOK
  <2>3. CASE task' \in Ended /\ sealed = << >> /\ Quiet'
    <3>1. \A p \in Threads : Items(work'[p]) = {}
      BY <2>3, NoItems DEF Quiet, Idle
    <3>. QED BY <2>1, <2>3, <3>1 DEF SealOK
  <2>4. CASE task' \in Ended /\ ~(sealed = << >> /\ Quiet')
    <3>1. CASE sealed = << >>
      BY <2>1, <2>4, <3>1 DEF SealOK
    <3>2. CASE sealed # << >>
      <4>1. task \in Ended /\ Content(chat) = sealed /\ AllHarmless
        BY <3>2 DEF SealOK, AllHarmless
      <4>2. SealKept
        BY <2>1, <2>4, <4>1, SealedActs
      <4>. QED BY <2>1, <2>4, <4>1, <4>2 DEF SealOK, SealKept
    <3>. QED BY <3>1, <3>2
  <2>. QED BY <2>2, <2>3, <2>4
<1>. QED BY <1>1, <1>2

-----------------------------------------------------------------------------
(* A run without a merge request, a cancel or a restart.                   *)

\* A run without a merge request, a cancel or a restart.
Plain == approval["merge"] = "none" /\ NoCancel /\ crashes = 0

StatusFrame(x) == x.op = "frame" /\ x.event.type = "status"
StatusItem(x) == x.op \in {"status", "frame"} /\ x.event.type = "status"
Failing(x) == x.op \in {"write", "close", "forget"}
Early(x) == x.op = "publish" /\ x.event.type = "approval.resolved" /\ x.event.note = "early"

\* What each thread may have to do.
ToolDoes(t, x) ==
  /\ x.op = "publish" => /\ x.event.type \in ToolEvents \cup {"approval.requested"}
                         /\ x.event.type = "approval.requested" => t \in Gated
  /\ StatusItem(x) => x.event.of = "tool_executing" \/ t \in Gated
  /\ x.op = "write" => x.event.type = "waiting_approval"
  /\ x.op \notin {"close", "forget"}

Closes(x) ==
  /\ x.op = "publish" => x.event.type \in {"approval.resolved", "tool.failed"} \cup Closers
  /\ StatusItem(x) => x.event.of = "idle"

RequestDoes(x) == Closes(x) /\ (pc # "waiting" => Early(x))

LoopDoes(x) ==
  IF pc = "over" THEN Closes(x)
  ELSE ~Failing(x) /\ ~Closing(x) /\ (x.op = "publish" => x.event.type # "status")

Active(t) == tool[t] \notin {"idle", "done"} \/ work[t] # << >>

\* One thread at a time works, but for the tools that may run side by side.
Alone ==
  /\ pc \in {"tools", "waiting"} => work["loop"] = << >>
  /\ pc \notin {"tools", "waiting"} => \A t \in Tools : ~Active(t)
  /\ pc = "waiting" => \A t \in Tools : work[t] = << >> /\ tool[t] \in {"idle", "done", "waiting"}
  /\ \A t \in Gated : Active(t) => \A u \in Tools \ {t} : ~Active(u)

Does ==
  /\ \A t \in Tools : \A x \in Items(work[t]) : ToolDoes(t, x)
  /\ \A x \in Items(work["rpc"]) : RequestDoes(x)
  /\ \A x \in Items(work["loop"]) : LoopDoes(x)

\* A pending decision is that of the call that asks or waits, and the task that fails
\* has none; a call is resumed while the task has not ended.
Asking ==
  /\ \A t \in Gated : approval[t] = "pending" =>
       tool[t] = "asked" \/ (tool[t] = "waiting" /\ pend = t /\ pc = "waiting")
  /\ \A x \in Items(work["rpc"]) :
       /\ Failing(x) => \A t \in Gated : approval[t] # "pending"
       /\ x.op = "resume" => /\ task \notin Ended /\ x.event.of \in Gated /\ tool[x.event.of] = "waiting"
                             /\ \A y \in Items(work["rpc"]) : ~Failing(y)
  /\ task \in Ended => pc \in {"waiting", "over"}

\* The status shown is that of the fingerprint, or its frame is the next thing sent.
StatusOK ==
  /\ \A p \in Threads : \A x \in Items(work[p]) : StatusFrame(x) => x.event.of = shownStatus[1]
  /\ \A p \in Threads : work[p] # << >> => \A x \in Items(Tail(work[p])) : ~StatusFrame(x)
  /\ (\A p \in Threads : \A x \in Items(work[p]) : ~StatusFrame(x)) => chat.status = shownStatus[1]

EndOf(status) == IF status = "completed" THEN "task.completed" ELSE "task.failed"
EndsWith(y, status) == y.op = "publish" /\ y.event.note = "" /\ y.event.type = EndOf(status)
Promise(x) == EndsWith(x, task) \/ (x.op = "status" /\ x.event.of = "idle")

\* A status is written before the end is published.
WritesFirst(w) == \A i, j \in 1 .. Len(w) : w[i].op = "write" /\ Closing(w[j]) => i < j

\* The end that is written is published, and that makes the chat idle.
EndsIdle ==
  /\ \A p \in Threads : WritesFirst(work[p])
  /\ \A p \in Threads : \A x \in Items(work[p]) :
       x.op = "write" /\ x.event.type \in {"completed", "failed"} =>
         \E y \in Items(work[p]) : EndsWith(y, x.event.type)
  /\ task \in {"completed", "failed"} =>
       \/ shownStatus[1] = "idle"
       \/ \E p \in {"loop", "rpc"} : \E x \in Items(work[p]) : Promise(x)

PlainInv == Alone /\ Does /\ Asking /\ StatusOK /\ EndsIdle

\* What an item becomes is what its thread may do.
LEMMA ToolFrom ==
  ASSUME NEW p, NEW t, NEW h, NEW x, Good(p, h), ToolDoes(t, h), From(h, x)
  PROVE  ToolDoes(t, x)
<1>1. CASE h.op = "publish" /\ Derived(h.event, x)
  <2>1. h.event.type \notin Closers \cup {"approval.resolved"}
    BY <1>1 DEF ToolDoes, ToolEvents, Closers, TaskEnds
  <2>2. CASE x.op \in {"begin", "say", "preview", "raw"}
    BY <2>2 DEF ToolDoes, StatusItem
  <2>3. CASE x.op = "frame" /\ x.event.type \in {"tool_use_complete", "tool_result", "permission_request", "message_complete"}
    BY <2>3 DEF ToolDoes, StatusItem
  <2>4. CASE x.op = "status" /\ x.event.of = "tool_executing"
    BY <2>4 DEF ToolDoes, StatusItem
  <2>5. CASE x.op = "status" /\ h.event.type = "approval.requested"
    BY <1>1, <2>5 DEF ToolDoes, StatusItem
  <2>6. CASE x.op = "status" /\ h.event.type \in Closers \cup {"approval.resolved"}
    BY <2>1, <2>6
  <2>. QED BY <1>1, <2>2, <2>3, <2>4, <2>5, <2>6 DEF Derived
<1>2. CASE h.op = "publish" /\ h.event.type \in ChatFrames
  BY <1>2 DEF ToolDoes, ToolEvents, ChatFrames
<1>3. CASE x.op = "frame" /\ x.event.type = "content_start"
  BY <1>3 DEF ToolDoes, StatusItem
<1>4. CASE h.op \in {"say", "preview"} /\ x.op = "frame" /\ x.event = h.event
  BY <1>4 DEF ToolDoes, StatusItem, Good
<1>5. CASE h.op = "status" /\ x.op = "frame" /\ x.event = h.event
  BY <1>5 DEF ToolDoes, StatusItem, Good
<1>6. CASE h.op = "close"
  BY <1>6 DEF ToolDoes
<1>. QED BY <1>1, <1>2, <1>3, <1>4, <1>5, <1>6 DEF From

LEMMA ClosesFrom ==
  ASSUME NEW p, NEW h, NEW x, Good(p, h), Closes(h), From(h, x)
  PROVE  Closes(x)
<1>1. CASE h.op = "publish" /\ Derived(h.event, x)
  <2>1. h.event.type \notin {"tool.started", "approval.requested"}
    BY <1>1 DEF Closes, Closers, TaskEnds
  <2>2. CASE x.op \in {"begin", "say", "preview", "raw"}
    BY <2>2 DEF Closes, StatusItem
  <2>3. CASE x.op = "frame" /\ x.event.type \in {"tool_use_complete", "tool_result", "permission_request", "message_complete"}
    BY <2>3 DEF Closes, StatusItem
  <2>4. CASE x.op = "status" /\ x.event.of = "idle"
    BY <2>4 DEF Closes, StatusItem
  <2>. QED BY <1>1, <2>1, <2>2, <2>3, <2>4 DEF Derived
<1>2. CASE h.op = "publish" /\ h.event.type \in ChatFrames
  BY <1>2 DEF Closes, ChatFrames, Closers, TaskEnds
<1>3. CASE x.op = "frame" /\ x.event.type = "content_start"
  BY <1>3 DEF Closes, StatusItem
<1>4. CASE h.op \in {"say", "preview"} /\ x.op = "frame" /\ x.event = h.event
  BY <1>4 DEF Closes, StatusItem, Good
<1>5. CASE h.op = "status" /\ x.op = "frame" /\ x.event = h.event
  BY <1>5 DEF Closes, StatusItem, Good
<1>6. CASE x.op = "publish" /\ x.event.type = "tool.failed"
  BY <1>6 DEF Closes, StatusItem
<1>7. CASE x.op = "forget"
  BY <1>7 DEF Closes, StatusItem
<1>. QED BY <1>1, <1>2, <1>3, <1>4, <1>5, <1>6, <1>7 DEF From

LEMMA FromFails ==
  ASSUME NEW h, NEW x, From(h, x)
  PROVE  /\ x.op \notin {"write", "resume", "close"} /\ ~Closing(x)
         /\ Failing(x) => h.op = "close"
         /\ x.op = "publish" => h.op = "close" /\ x.event.type = "tool.failed"
<1>1. x.op \notin {"write", "resume", "close"} /\ (x.op = "forget" => h.op = "close")
      /\ (x.op = "publish" => h.op = "close" /\ x.event.type = "tool.failed")
  BY DEF From, Derived
<1>. QED BY <1>1, FromNot DEF Failing

\* A status is shown by the items of a status alone.
LEMMA FromStatus ==
  ASSUME NEW p, NEW h, NEW x, Good(p, h), From(h, x), h.op # "status", h.op = "publish" => h.event.type # "status"
  PROVE  ~StatusFrame(x)
<1>1. CASE h.op = "publish" /\ Derived(h.event, x)
  BY <1>1 DEF Derived, StatusFrame
<1>2. CASE h.op = "publish" /\ x.event = h.event
  BY <1>2 DEF StatusFrame
<1>3. CASE x.event.type = "content_start" \/ x.op # "frame"
  BY <1>3 DEF StatusFrame
<1>4. CASE h.op \in {"say", "preview"} /\ x.event = h.event
  BY <1>4 DEF StatusFrame, Good
<1>. QED BY <1>1, <1>2, <1>3, <1>4 DEF From

-----------------------------------------------------------------------------
(* Joined work, and what is left of it.                                    *)

\* The items of joined work.
LEMMA JoinedItems ==
  ASSUME NEW s, IsSeq(s), NEW t, IsSeq(t)
  PROVE  Items(s) \subseteq Items(s \o t) /\ Items(t) \subseteq Items(s \o t)
<1> DEFINE S == Items(s) \cup Items(t)
           n == Len(s)
<1>1. s \in Seq(S) /\ t \in Seq(S)
  BY DEF IsSeq
<1>2. n \in Nat /\ Len(t) \in Nat
  BY <1>1
<1>3. Len(s \o t) = n + Len(t) /\ \A i \in 1 .. (n + Len(t)) : (s \o t)[i] = IF i <= n THEN s[i] ELSE t[i - n]
  BY <1>1, ConcatProperties
<1> DEFINE u == s \o t
<1>4. Len(u) = n + Len(t) /\ \A i \in 1 .. (n + Len(t)) : u[i] = IF i <= n THEN s[i] ELSE t[i - n]
  BY <1>3
<1>. HIDE DEF u
<1>5. ASSUME NEW i \in 1 .. n PROVE s[i] \in Items(u)
  <2>1. i \in 1 .. Len(u) /\ u[i] = s[i]
    BY <1>2, <1>4
  <2>. QED BY <2>1 DEF Items
<1>6. ASSUME NEW i \in 1 .. Len(t) PROVE t[i] \in Items(u)
  <2>1. i + n \in 1 .. Len(u) /\ u[i + n] = t[i]
    BY <1>2, <1>4
  <2>. QED BY <2>1 DEF Items
<1>7. Items(s) \subseteq Items(u) /\ Items(t) \subseteq Items(u)
  BY <1>5, <1>6 DEF Items
<1>. QED BY <1>7 DEF u

LEMMA HeadOrTail ==
  ASSUME NEW w, IsSeq(w), w # << >>, NEW x \in Items(w)
  PROVE  x = Head(w) \/ x \in Items(Tail(w))
<1> DEFINE t == Tail(w)
<1>1. w \in Seq(Items(w)) /\ Len(w) \in Nat /\ Len(w) > 0 /\ Head(w) = w[1]
  BY EmptySeq DEF IsSeq
<1>2. Len(t) = Len(w) - 1 /\ \A i \in 1 .. Len(t) : t[i] = w[i + 1]
  BY <1>1, HeadTailProperties
<1>. HIDE DEF t
<1>3. PICK i \in 1 .. Len(w) : x = w[i]
  BY DEF Items
<1>4. CASE i # 1
  <2>1. i - 1 \in 1 .. Len(t) /\ (i - 1) + 1 = i
    BY <1>1, <1>2, <1>4
  <2>2. t[i - 1] = w[i]
    BY <1>2, <2>1
  <2>. QED BY <1>3, <2>1, <2>2 DEF Items, t
<1>. QED BY <1>1, <1>3, <1>4

\* After a write comes the end it promises.
LEMMA EndsAfter ==
  ASSUME NEW w, IsSeq(w), w # << >>, WritesFirst(w),
         NEW x \in Items(Tail(w)), x.op = "write", NEW y \in Items(w), Closing(y)
  PROVE  y \in Items(Tail(w))
<1> DEFINE t == Tail(w)
<1>1. w \in Seq(Items(w)) /\ Len(w) \in Nat /\ Len(w) > 0
  BY EmptySeq DEF IsSeq
<1>2. Len(t) = Len(w) - 1 /\ \A i \in 1 .. Len(t) : t[i] = w[i + 1]
  BY <1>1, HeadTailProperties
<1>. HIDE DEF t
<1>3. PICK i \in 1 .. Len(t) : x = t[i]
  BY DEF Items, t
<1>4. PICK j \in 1 .. Len(w) : y = w[j]
  BY DEF Items
<1>5. i + 1 \in 1 .. Len(w) /\ w[i + 1] = x
  BY <1>1, <1>2, <1>3
<1>6. i + 1 < j
  BY <1>4, <1>5 DEF WritesFirst
<1>7. j - 1 \in 1 .. Len(t) /\ (j - 1) + 1 = j
  BY <1>1, <1>2, <1>6
<1>8. t[j - 1] = w[j]
  BY <1>2, <1>7
<1>. QED BY <1>4, <1>7, <1>8 DEF Items, t

\* What is left writes first as well.
LEMMA WritesKept ==
  ASSUME NEW w, IsSeq(w), w # << >>, WritesFirst(w),
         NEW s, IsSeq(s), \A x \in Items(s) : x.op # "write" /\ ~Closing(x)
  PROVE  WritesFirst(s \o Tail(w))
<1> DEFINE t == Tail(w)
           S == Items(s) \cup Items(w)
           n == Len(s)
<1>1. s \in Seq(S) /\ w \in Seq(S)
  BY DEF IsSeq
<1>2. n \in Nat /\ Len(w) \in Nat /\ Len(w) > 0 /\ t \in Seq(S) /\ Len(t) = Len(w) - 1
      /\ \A i \in 1 .. Len(t) : t[i] = w[i + 1]
  BY <1>1, HeadTailProperties, EmptySeq
<1>3. Len(s \o t) = n + Len(t) /\ \A i \in 1 .. (n + Len(t)) : (s \o t)[i] = IF i <= n THEN s[i] ELSE t[i - n]
  BY <1>1, <1>2, ConcatProperties
<1> DEFINE u == s \o t
<1>4. Len(u) = n + Len(t) /\ \A i \in 1 .. (n + Len(t)) : u[i] = IF i <= n THEN s[i] ELSE t[i - n]
  BY <1>3
<1>. HIDE DEF u, t
<1>5. ASSUME NEW i \in 1 .. Len(u), u[i].op = "write" \/ Closing(u[i])
      PROVE  (i - n) + 1 \in 1 .. Len(w) /\ w[(i - n) + 1] = u[i]
  <2>1. ~(i <= n)
    <3> SUFFICES ASSUME i <= n PROVE FALSE
      OBVIOUS
    <3>1. i \in 1 .. n /\ u[i] = s[i]
      BY <1>2, <1>4
    <3>2. s[i] \in Items(s)
      BY <3>1 DEF Items
    <3>. QED BY <1>5, <3>1, <3>2
  <2>2. i - n \in 1 .. Len(t) /\ u[i] = t[i - n]
    BY <1>2, <1>4, <2>1
  <2>. QED BY <1>2, <2>2
<1>6. ASSUME NEW i \in 1 .. Len(u), NEW j \in 1 .. Len(u), u[i].op = "write", Closing(u[j])
      PROVE  i < j
  <2> DEFINE a == (i - n) + 1
             b == (j - n) + 1
  <2>1. a \in 1 .. Len(w) /\ w[a].op = "write"
    BY <1>5, <1>6
  <2>2. b \in 1 .. Len(w) /\ Closing(w[b])
    BY <1>5, <1>6
  <2>3. a < b
    <3>. HIDE DEF a, b
    <3>. QED BY <2>1, <2>2 DEF WritesFirst
  <2>. QED BY <1>2, <2>3
<1>7. WritesFirst(u)
  BY <1>6 DEF WritesFirst
<1>. QED BY <1>7 DEF u, t

-----------------------------------------------------------------------------
(* The streaming of a token shows no status and ends nothing.              *)

\* The items of a token's publication.
TokenItem(x) ==
  /\ IsItem(x)
  /\ x.op \in {"publish", "open", "bind", "frame"}
  /\ x.event.type \in {"assistant.token", "content_start", "content_delta"}

LEMMA TokenOps ==
  ASSUME NEW j
  PROVE  /\ TokenItem(Do("publish", TokenEvent)) /\ TokenItem(Opens) /\ Opens.op = "open"
         /\ TokenItem(Binds) /\ Binds.op = "bind"
         /\ TokenItem(Announces(j)) /\ Announces(j).op = "frame"
         /\ TokenItem(Delivers(j)) /\ Delivers(j).op = "frame"
<1>1. IsEvent(TokenEvent) /\ TokenEvent.type = "assistant.token"
  BY TokenIs
<1>2. TokenItem(Do("publish", TokenEvent))
  BY <1>1, DoEvent DEF TokenItem
<1>3. TokenItem(Opens) /\ Opens.op = "open"
  BY <1>1, DoEvent DEF TokenItem, Opens
<1>4. TokenItem(Binds) /\ Binds.op = "bind"
  BY <1>1, DoEvent DEF TokenItem, Binds
<1>5. IsItem(Announces(j)) /\ IsItem(Delivers(j))
  BY DEF Announces, Delivers, Do, Event, IsItem, IsEvent
<1>6. TokenItem(Announces(j)) /\ Announces(j).op = "frame"
  BY <1>5, AnnouncesIs DEF TokenItem
<1>7. TokenItem(Delivers(j)) /\ Delivers(j).op = "frame"
  BY <1>5, DeliversIs DEF TokenItem
<1>. QED BY <1>2, <1>3, <1>4, <1>6, <1>7

\* All items of a token are of these kinds.
LEMMA TokenItems == Tokening => \A x \in Items(work["loop"]) : TokenItem(x)
<1> DEFINE w == work["loop"]
           d == Delivers(0)
           a == Do("publish", TokenEvent)
           b == Announces(text.index)
<1>1. TokenItem(a) /\ TokenItem(Opens) /\ TokenItem(Binds) /\ TokenItem(b) /\ \A j \in Nat : TokenItem(Delivers(j))
  BY TokenOps
<1>2. TokenItem(d)
  BY <1>1
<1> SUFFICES ASSUME Tokening, NEW x \in Items(w) PROVE TokenItem(x)
  OBVIOUS
<1>3. \/ w = <<a>> \/ w = <<Opens, Binds, Opens, d>> \/ w = <<b>> \o <<Binds, Opens, d>> \/ w = <<Binds, Opens, d>>
      \/ \E j \in Nat : w = <<Opens, Delivers(j)>> \/ w = <<b>> \o <<Delivers(j)>> \/ w = <<Delivers(j)>>
  BY DEF Tokening
<1>. HIDE DEF a, b, d, w
<1>4. CASE w = <<a>>
  BY <1>1, <1>4, Items1
<1>5. CASE w = <<Opens, Binds, Opens, d>>
  <2>1. Items(w) \subseteq {Opens, Binds, Opens, d}
    BY <1>5, Items4
  <2>. QED BY <1>1, <1>2, <2>1
<1>6. CASE w = <<Binds, Opens, d>>
  <2>1. Items(w) \subseteq {Binds, Opens, d}
    BY <1>6, Items3
  <2>. QED BY <1>1, <1>2, <2>1
<1>7. CASE w = <<b>> \o <<Binds, Opens, d>>
  <2>1. IsSeq(<<b>>) /\ Items(<<b>>) \subseteq {b}
    BY Items1
  <2>2. IsSeq(<<Binds, Opens, d>>) /\ Items(<<Binds, Opens, d>>) \subseteq {Binds, Opens, d}
    BY Items3
  <2>3. Items(w) \subseteq {b} \cup {Binds, Opens, d}
    BY <1>7, <2>1, <2>2, ItemsJoined
  <2>. QED BY <1>1, <1>2, <2>3
<1>8. ASSUME NEW j \in Nat, w = <<Opens, Delivers(j)>> PROVE TokenItem(x)
  <2>1. Items(w) \subseteq {Opens, Delivers(j)}
    BY <1>8, Items2
  <2>. QED BY <1>1, <2>1
<1>9. ASSUME NEW j \in Nat, w = <<Delivers(j)>> PROVE TokenItem(x)
  <2>1. Items(w) \subseteq {Delivers(j)}
    BY <1>9, Items1
  <2>. QED BY <1>1, <2>1
<1>10. ASSUME NEW j \in Nat, w = <<b>> \o <<Delivers(j)>> PROVE TokenItem(x)
  <2>1. IsSeq(<<b>>) /\ Items(<<b>>) \subseteq {b}
    BY Items1
  <2>2. IsSeq(<<Delivers(j)>>) /\ Items(<<Delivers(j)>>) \subseteq {Delivers(j)}
    BY Items1
  <2>3. Items(w) \subseteq {b} \cup {Delivers(j)}
    BY <1>10, <2>1, <2>2, ItemsJoined
  <2>. QED BY <1>1, <2>3
<1>. QED BY <1>3, <1>4, <1>5, <1>6, <1>7, <1>8, <1>9, <1>10

\* What a step of a token's publication leaves: all but the loop's work and the text.
TokenLeaves ==
  /\ UNCHANGED run /\ shownStatus' = shownStatus /\ chat'.status = chat.status
  /\ \A q \in Threads : q # "loop" => work'[q] = work[q]
  /\ IsSeq(work'["loop"]) /\ \A x \in Items(work'["loop"]) : TokenItem(x)

LEMMA StatusSame ==
  ASSUME NEW v, IsView(v), NEW f, f.type # "status"
  PROVE  Shown(v, f).status = v.status
BY DEF Shown, IsView

LEMMA TokenHead ==
  ASSUME Tokening, Head(work["loop"]).op = "publish"
  PROVE  Head(work["loop"]) = Do("publish", TokenEvent)
<1> DEFINE w == work["loop"]
           b == Announces(text.index)
<1>1. Opens.op # "publish" /\ Binds.op # "publish" /\ b.op # "publish" /\ \A j \in Nat : Delivers(j).op # "publish"
  BY TokenOps
<1>2. CASE \E j \in Nat : w = <<b>> \o <<Delivers(j)>>
  BY <1>1, <1>2, Items1, Joins
<1>3. CASE w = <<b>> \o <<Binds, Opens, Delivers(0)>>
  BY <1>1, <1>3, Items3, Joins
<1>4. CASE w = <<Opens, Binds, Opens, Delivers(0)>> \/ w = <<Binds, Opens, Delivers(0)>> \/ (\E j \in Nat : w = <<Opens, Delivers(j)>>)
           \/ (\E j \in Nat : w = <<Delivers(j)>>)
  <2>1. Head(w) \in {Opens, Binds} \/ \E j \in Nat : Head(w) = Delivers(j)
    BY <1>4
  <2>. HIDE DEF w
  <2>. QED BY <1>1, <2>1 DEF w
<1>5. CASE w = <<Do("publish", TokenEvent)>>
  BY <1>5
<1>. QED BY <1>2, <1>3, <1>4, <1>5 DEF Tokening

LEMMA TokenThen ==
  ASSUME WorkFn, WorkSeqs, work["loop"] # << >>, \A x \in Items(work["loop"]) : TokenItem(x),
         NEW s, IsSeq(s), \A x \in Items(s) : TokenItem(x), Then("loop", s)
  PROVE  /\ \A q \in Threads : q # "loop" => work'[q] = work[q]
         /\ IsSeq(work'["loop"]) /\ \A x \in Items(work'["loop"]) : TokenItem(x)
<1>1. /\ WorkSeqs' /\ \A q \in Threads : q # "loop" => work'[q] = work[q]
      /\ Items(work'["loop"]) \subseteq Items(s) \cup Items(work["loop"])
  BY ThreadsAre, ThenWork
<1>2. IsSeq(work'["loop"])
  <2>1. \A q \in Threads : IsSeq(work'[q])
    BY <1>1 DEF WorkSeqs, IsSeq, Items
  <2>. QED BY <2>1, ThreadsAre
<1>. QED BY <1>1, <1>2

\* A step of a token leaves items of a token.
LEMMA TokenStepLeaves ==
  ASSUME CSInv, Tokening, Step("loop")
  PROVE  TokenLeaves
<1> DEFINE w == work["loop"]
           h == Head(w)
<1>0. WorkFn /\ WorkSeqs /\ IsSeq(w) /\ IsView(chat) /\ w # << >>
  BY ThreadsAre, ActionOf DEF CSInv, WorkSeqs, ViewsOK
<1>1. (\A x \in Items(w) : TokenItem(x)) /\ h \in Items(w)
  BY <1>0, TokenItems, ItemsTail
<1>2. TokenItem(h) /\ E("loop") = h.event
  BY <1>1 DEF E
<1>3. ASSUME NEW s, IsSeq(s), \A x \in Items(s) : TokenItem(x), Then("loop", s)
      PROVE  /\ \A q \in Threads : q # "loop" => work'[q] = work[q]
             /\ IsSeq(work'["loop"]) /\ \A x \in Items(work'["loop"]) : TokenItem(x)
  BY <1>0, <1>1, <1>3, TokenThen
<1>4. CASE h.op = "publish"
  <2>1. PublishEvent("loop")
    BY <1>4, ActionOf
  <2>2. E("loop") = TokenEvent
    BY <1>4, TokenHead, TokenIs DEF E
  <2> DEFINE e == TokenEvent
  <2>3. e.type = "assistant.token" /\ e.note = ""
    BY TokenIs
  <2>4. UNCHANGED <<run, views>> /\ shownStatus' = shownStatus
        /\ (Then("loop", << >>) \/ Then("loop", Frames(e) \o RawEvent(e)))
    <3>1. /\ e.type \notin Closers /\ e.type \notin ChatFrames
          /\ Visibility(e.type) = "chat" /\ ChatVisibility(e.type, "chat") = "chat"
      BY <2>3 DEF Closers, TaskEnds, ChatFrames, Visibility, ChatVisibility, ToolEvents
    <3>. QED BY <2>1, <2>2, <2>3, <3>1 DEF PublishEvent
  <2> DEFINE s == <<Opens, Binds, Opens, Delivers(0)>>
             d == Delivers(0)
  <2>5. Frames(e) = s
    BY <2>3, TokenFramesAre DEF Frames, TaskEnds
  <2>6. IsSeq(s) /\ RawEvent(e) = << >> /\ Items(s) \subseteq {Opens, Binds, Opens, d}
    <3>1. IsSeq(<<Opens, Binds, Opens, d>>) /\ Items(<<Opens, Binds, Opens, d>>) \subseteq {Opens, Binds, Opens, d}
      <4>. HIDE DEF d
      <4>. QED BY Items4
    <3>. QED BY <3>1, NoRaw
  <2>7. TokenItem(Opens) /\ TokenItem(Binds) /\ TokenItem(d)
    BY TokenOps
  <2>. HIDE DEF s, d
  <2>8. \A x \in Items(s) : TokenItem(x)
    BY <2>6, <2>7
  <2>9. Then("loop", << >>) \/ Then("loop", s)
    BY <2>4, <2>5, <2>6, EmptyJoins
  <2>10. chat'.status = chat.status /\ UNCHANGED run
    BY <2>4 DEF views
  <2>. HIDE DEF e
  <2>. QED BY <1>3, <2>4, <2>6, <2>8, <2>9, <2>10, NoItems DEF TokenLeaves
<1>5. CASE h.op = "open"
  <2>1. OpenText("loop")
    BY <1>5, ActionOf
  <2>2. UNCHANGED run /\ chat'.status = chat.status /\ shownStatus' = shownStatus
    BY <2>1 DEF OpenText, views
  <2> DEFINE n == 1 + IF text.known THEN text.index ELSE Recovered
  <2>3. Then("loop", << >>) \/ Then("loop", <<Announces(n)>>)
    BY <2>1 DEF OpenText, Announces
  <2>. HIDE DEF n
  <2> DEFINE a == Announces(n)
  <2>4. TokenItem(a)
    BY TokenOps
  <2>. HIDE DEF a
  <2>5. IsSeq(<<a>>) /\ Items(<<a>>) \subseteq {a}
    BY Items1
  <2> DEFINE s == <<a>>
  <2>6. IsSeq(s) /\ \A x \in Items(s) : TokenItem(x)
    BY <2>4, <2>5
  <2>7. Then("loop", << >>) \/ Then("loop", s)
    BY <2>3 DEF a
  <2>. HIDE DEF s
  <2>. QED BY <1>3, <2>2, <2>6, <2>7, NoItems DEF TokenLeaves
<1>6. CASE h.op = "bind"
  <2>1. BindBlock("loop")
    BY <1>6, ActionOf
  <2>2. UNCHANGED run /\ chat'.status = chat.status /\ shownStatus' = shownStatus
    BY <2>1 DEF BindBlock, views, memory
  <2> DEFINE block == IF text.open THEN text.index ELSE 0
  <2>3. work' = [work EXCEPT !["loop"] = [i \in 1 .. Len(@) - 1 |-> Bound(@[i + 1], block)]]
    BY <2>1 DEF BindBlock
  <2>. HIDE DEF block
  <2>4. work'["loop"] = [i \in 1 .. Len(w) - 1 |-> Bound(w[i + 1], block)]
        /\ \A q \in Threads : q # "loop" => work'[q] = work[q]
    BY <1>0, <2>3, ThreadsAre DEF WorkFn
  <2> DEFINE S == {Bound(w[i + 1], block) : i \in 1 .. Len(w) - 1}
             u == [i \in 1 .. Len(w) - 1 |-> Bound(w[i + 1], block)]
  <2>5. Len(w) \in Nat /\ Len(w) > 0
    BY <1>0, EmptySeq DEF IsSeq
  <2>6. u \in Seq(S)
    <3> DEFINE n == Len(w) - 1
    <3>1. n \in Nat
      BY <2>5
    <3>2. u = [i \in 1 .. n |-> Bound(w[i + 1], block)] /\ S = {Bound(w[i + 1], block) : i \in 1 .. n}
      OBVIOUS
    <3>. HIDE DEF n
    <3>3. \A i \in 1 .. n : Bound(w[i + 1], block) \in S
      BY <3>2
    <3>. HIDE DEF u, S
    <3>4. u \in [1 .. n -> S]
      BY <3>2, <3>3
    <3>. QED BY <3>1, <3>4
  <2>. HIDE DEF u, S
  <2>7. IsSeq(u) /\ Items(u) \subseteq S
    BY <2>6, SeqItems
  <2>8. \A x \in S : TokenItem(x)
    <3> SUFFICES ASSUME NEW i \in 1 .. Len(w) - 1 PROVE TokenItem(Bound(w[i + 1], block))
      BY DEF S
    <3>1. i + 1 \in 1 .. Len(w)
      BY <2>5
    <3>2. w[i + 1] \in Items(w)
      BY <3>1 DEF Items
    <3> DEFINE y == w[i + 1]
    <3>3. TokenItem(y)
      BY <1>1, <3>2
    <3> SUFFICES TokenItem(Bound(y, block))
      OBVIOUS
    <3>. HIDE DEF y
    <3>4. CASE y.op = "frame" /\ y.event.note = "text"
      <4>1. y \in Items(w)
        BY <3>2 DEF y
      <4>2. Bound(y, block) = [y EXCEPT !.event = [y.event EXCEPT !.index = block]]
        BY <3>4 DEF Bound
      <4> DEFINE z == Bound(y, block)
                 e == y.event
                 f == [e EXCEPT !.index = block]
      <4>3. IsItem(y) /\ IsEvent(e)
        BY <3>3 DEF TokenItem, IsItem
      <4>4. f.type = e.type /\ IsEvent(f)
        <5>. HIDE DEF e
        <5>. QED BY <4>3 DEF IsEvent
      <4>5. z.op = y.op /\ z.event = f /\ z = [op |-> z.op, event |-> z.event]
        <5>. HIDE DEF f
        <5>. QED BY <4>2, <4>3 DEF IsItem, f
      <4>. HIDE DEF z, f
      <4>6. TokenItem(z)
        BY <3>3, <4>4, <4>5 DEF TokenItem, IsItem
      <4>. QED BY <4>6 DEF z
    <3>5. CASE ~(y.op = "frame" /\ y.event.note = "text")
      <4>1. Bound(y, block) = y
        BY <3>5 DEF Bound
      <4>. QED BY <3>3, <4>1
    <3>. QED BY <3>4, <3>5
  <2>9. work'["loop"] = u
    BY <2>4 DEF u
  <2>. QED BY <2>2, <2>4, <2>7, <2>8, <2>9 DEF TokenLeaves
<1>7. CASE h.op = "frame"
  <2>1. SendFrame("loop")
    BY <1>7, ActionOf
  <2>2. UNCHANGED run /\ shownStatus' = shownStatus /\ Then("loop", << >>) /\ chat' \in {chat, Shown(chat, E("loop"))}
    BY <2>1 DEF SendFrame, Sent, memory
  <2>3. E("loop").type # "status"
    BY <1>2 DEF TokenItem
  <2>4. chat'.status = chat.status
    BY <1>0, <2>2, <2>3, StatusSame
  <2>. QED BY <1>3, <2>2, <2>4, NoItems DEF TokenLeaves
<1>. QED BY <1>2, <1>4, <1>5, <1>6, <1>7 DEF TokenItem

LEMMA TokenDoes ==
  ASSUME NEW x, TokenItem(x)
  PROVE  ~StatusItem(x) /\ ~StatusFrame(x) /\ ~Failing(x) /\ ~Closing(x) /\ x.op # "write" /\ ~Promise(x)
         /\ (pc # "over" => LoopDoes(x))
<1>1. /\ x.op \in {"publish", "open", "bind", "frame"}
      /\ x.event.type \in {"assistant.token", "content_start", "content_delta"}
  BY DEF TokenItem
<1>2. ~StatusItem(x) /\ ~StatusFrame(x) /\ ~Failing(x) /\ ~Closing(x) /\ x.op # "write"
  BY <1>1 DEF StatusItem, StatusFrame, Failing, Closing, Closers, TaskEnds
<1>3. ~Promise(x)
  BY <1>1 DEF Promise, EndsWith, EndOf
<1>. QED BY <1>1, <1>2, <1>3 DEF LoopDoes

\* A step of a token.
LEMMA TokenPlain ==
  ASSUME WorkSeqs, PlainInv, pc = "stream", TokenLeaves, \A x \in Items(work["loop"]) : TokenItem(x)
  PROVE  PlainInv'
<1>1. /\ pc' = pc /\ tool' = tool /\ task' = task /\ approval' = approval /\ pend' = pend
      /\ shownStatus' = shownStatus /\ chat'.status = chat.status
      /\ \A q \in Threads : q # "loop" => work'[q] = work[q]
      /\ \A x \in Items(work'["loop"]) : TokenItem(x)
  BY DEF TokenLeaves, run
<1>2. work'["rpc"] = work["rpc"] /\ \A t \in Tools : work'[t] = work[t]
  BY <1>1, ThreadsAre
<1>3. Alone'
  BY <1>1, <1>2, ChatStreamAssumption DEF PlainInv, Alone, Active
<1>4. Does'
  <2>1. \A t \in Tools : \A x \in Items(work'[t]) : ToolDoes(t, x)
    BY <1>2 DEF PlainInv, Does
  <2>2. \A x \in Items(work'["rpc"]) : RequestDoes(x)'
    BY <1>1, <1>2 DEF PlainInv, Does, RequestDoes
  <2>3. \A x \in Items(work'["loop"]) : LoopDoes(x)'
    <3>1. \A x \in Items(work'["loop"]) : LoopDoes(x)
      BY <1>1, TokenDoes
    <3>. QED BY <1>1, <3>1 DEF LoopDoes
  <2>. QED BY <2>1, <2>2, <2>3 DEF Does
<1>5. Asking'
  BY <1>1, <1>2 DEF PlainInv, Asking
<1>6. StatusOK'
  <2>1. \A q \in Threads : \A x \in Items(work'[q]) : StatusFrame(x) => q # "loop" /\ x \in Items(work[q])
    BY <1>1, TokenDoes
  <2>2. \A q \in Threads : \A x \in Items(work[q]) : StatusFrame(x) => q # "loop" /\ x \in Items(work'[q])
    BY <1>1, TokenDoes
  <2>3. ASSUME NEW q \in Threads, work'[q] # << >>, NEW x \in Items(Tail(work'[q])) PROVE ~StatusFrame(x)
    <3>1. CASE q = "loop"
      <4>1. x \in Items(work'[q])
        BY <1>1, <2>3, <3>1, ItemsTail DEF TokenLeaves
      <4>. QED BY <2>1, <3>1, <4>1
    <3>2. CASE q # "loop"
      <4>1. work[q] # << >> /\ x \in Items(Tail(work[q]))
        BY <1>1, <2>3, <3>2
      <4>. QED BY <4>1 DEF PlainInv, StatusOK
    <3>. QED BY <3>1, <3>2
  <2>4. \A q \in Threads : \A x \in Items(work'[q]) : StatusFrame(x) => x.event.of = shownStatus'[1]
    BY <1>1, <2>1 DEF PlainInv, StatusOK
  <2>5. (\A q \in Threads : \A x \in Items(work'[q]) : ~StatusFrame(x)) => chat'.status = shownStatus'[1]
    <3>1. (\A q \in Threads : \A x \in Items(work'[q]) : ~StatusFrame(x)) =>
            \A q \in Threads : \A x \in Items(work[q]) : ~StatusFrame(x)
      BY <2>2
    <3>2. (\A q \in Threads : \A x \in Items(work[q]) : ~StatusFrame(x)) => chat.status = shownStatus[1]
      BY DEF PlainInv, StatusOK
    <3>. QED BY <1>1, <3>1, <3>2
  <2>. QED BY <2>3, <2>4, <2>5 DEF StatusOK
<1>7. EndsIdle'
  <2>1. ASSUME NEW q \in Threads PROVE WritesFirst(work'[q])
    <3>1. CASE q = "loop"
      <4>1. \A i \in 1 .. Len(work'["loop"]) : work'["loop"][i].op # "write"
        BY <1>1, TokenDoes DEF Items
      <4>. QED BY <3>1, <4>1 DEF WritesFirst
    <3>2. CASE q # "loop"
      <4>1. work'[q] = work[q]
        BY <1>1, <3>2
      <4>. QED BY <4>1 DEF PlainInv, EndsIdle
    <3>. QED BY <3>1, <3>2
  <2>2. ASSUME NEW q \in Threads, NEW x \in Items(work'[q]), x.op = "write", x.event.type \in {"completed", "failed"}
        PROVE  \E y \in Items(work'[q]) : EndsWith(y, x.event.type)
    <3>1. q # "loop"
      BY <1>1, <2>2, TokenDoes
    <3>2. work'[q] = work[q]
      BY <1>1, <3>1
    <3>. QED BY <2>2, <3>2 DEF PlainInv, EndsIdle
  <2>3. ASSUME task' \in {"completed", "failed"}
        PROVE  \/ shownStatus'[1] = "idle"
               \/ \E q \in {"loop", "rpc"} : \E x \in Items(work'[q]) : Promise(x)'
    <3>1. task \in Ended /\ pc = "stream"
      BY <1>1, <2>3 DEF Ended
    <3>. QED BY <3>1 DEF PlainInv, Asking
  <2>. QED BY <2>1, <2>2, <2>3 DEF EndsIdle
<1>. QED BY <1>3, <1>4, <1>5, <1>6, <1>7 DEF PlainInv

\* What a step of a thread whose work is good may change.
StepLeaves(p, h, s) ==
  /\ IsSeq(s) /\ (\A x \in Items(s) : From(h, x)) /\ work'[p] = s \o Tail(work[p])
  /\ \A q \in Threads : q # p => work'[q] = work[q]
  /\ approval' = approval
  /\ task' = task \/ (h.op = "write" /\ task' = h.event.type)
  /\ pend' = pend \/ Failing(h)
  /\ \/ pc' = pc /\ tool' = tool
     \/ h.op = "resume" /\ pc' = "tools" /\ tool' = [tool EXCEPT ![h.event.of] = "ready"]
  /\ h.op # "status" => shownStatus' = shownStatus
  /\ ~StatusFrame(h) => chat'.status = chat.status

-----------------------------------------------------------------------------
(* What a step leaves to do.                                               *)

\* A step takes the first item and puts what it becomes before the rest.
LEMMA GoodLeaves ==
  ASSUME CSInv, NEW p \in Threads, \A x \in Items(work[p]) : Good(p, x), Step(p)
  PROVE  \E s : StepLeaves(p, Head(work[p]), s)
<1> DEFINE h == Head(work[p])
<1>1. /\ Stepped(p, h) /\ work[p] # << >> /\ h \in Items(work[p])
  BY StepWork DEF CSInv
<1>2. Good(p, h) /\ E(p) = h.event /\ IsView(chat)
  BY <1>1 DEF E, CSInv, ViewsOK
<1>3. PICK s : /\ IsSeq(s) /\ \A x \in Items(s) : From(h, x)
               /\ work'[p] = s \o Tail(work[p])
  BY <1>1 DEF Stepped
<1>4. \A q \in Threads : q # p => work'[q] = work[q]
  BY <1>1 DEF Stepped
<1>5. /\ approval' = approval
      /\ \/ pc' = pc /\ tool' = tool
         \/ h.op = "resume" /\ pc' = "tools" /\ tool' = [tool EXCEPT ![h.event.of] = "ready"]
  BY <1>2, GoodRun
<1>6. h.op \in Ops
  BY <1>2 DEF Good
<1> SUFFICES StepLeaves(p, h, s)
  OBVIOUS
<1>7. CASE h.op \in {"publish", "begin", "say", "preview", "raw", "close", "forget", "resume"}
  <2>1. chat'.status = chat.status /\ task' = task /\ shownStatus' = shownStatus /\ (pend' = pend \/ h.op = "forget")
    <3>1. CASE h.op = "publish"
      BY <3>1, ActionOf DEF PublishEvent, views, run
    <3>2. CASE h.op = "begin"
      BY <3>2, ActionOf DEF BeginTool, views, run
    <3>3. CASE h.op = "say"
      BY <3>3, ActionOf DEF SayOutput, views, run
    <3>4. CASE h.op = "preview"
      BY <3>4, ActionOf DEF SayPreview, views, run
    <3>5. CASE h.op = "raw"
      <4>1. SendRaw(p) /\ h.event.type # "status"
        BY <1>2, <3>5, ActionOf DEF Good
      <4>2. UNCHANGED run /\ shownStatus' = shownStatus /\ chat' \in {chat, Shown(chat, E(p))}
        BY <4>1 DEF SendRaw, Sent, memory
      <4>3. chat'.status = chat.status
        BY <1>2, <4>1, <4>2, StatusSame
      <4>. QED BY <4>2, <4>3 DEF run
    <3>6. CASE h.op = "close"
      BY <3>6, ActionOf DEF ClosePendingCall, views, memory
    <3>7. CASE h.op = "forget"
      BY <3>7, ActionOf DEF ForgetPending, views, memory
    <3>8. CASE h.op = "resume"
      BY <3>8, ActionOf DEF ResumeCall, views, memory
    <3>. QED BY <1>7, <3>1, <3>2, <3>3, <3>4, <3>5, <3>6, <3>7, <3>8
  <2>. HIDE DEF h
  <2>. QED BY <1>3, <1>4, <1>5, <2>1 DEF StepLeaves, Failing
<1>8. CASE h.op = "status"
  <2>1. chat'.status = chat.status /\ task' = task /\ pend' = pend
    BY <1>8, ActionOf DEF ShowStatus, views, run
  <2>. HIDE DEF h
  <2>. QED BY <1>3, <1>4, <1>5, <1>8, <2>1 DEF StepLeaves
<1>9. CASE h.op = "write"
  <2>1. /\ chat'.status = chat.status /\ shownStatus' = shownStatus /\ task' = h.event.type
    BY <1>2, <1>9, ActionOf DEF WriteStatus, views, memory
  <2>. HIDE DEF h
  <2>. QED BY <1>3, <1>4, <1>5, <1>9, <2>1 DEF StepLeaves, Failing
<1>10. CASE h.op = "frame"
  <2>1. SendFrame(p)
    BY <1>10, ActionOf
  <2>2. /\ UNCHANGED run /\ shownStatus' = shownStatus /\ chat' \in {chat, Shown(chat, E(p))}
    BY <2>1 DEF SendFrame, Sent, memory
  <2>3. h.event.type # "status" => chat'.status = chat.status
    BY <1>2, <2>2, StatusSame
  <2>4. task' = task /\ pend' = pend
    BY <2>2 DEF run
  <2>. HIDE DEF h
  <2>. QED BY <1>3, <1>4, <1>5, <1>10, <2>2, <2>3, <2>4 DEF StepLeaves, StatusFrame
<1>. QED BY <1>6, <1>7, <1>8, <1>9, <1>10 DEF Ops

\* An early decision shows nothing.
LEMMA EarlyLeaves ==
  ASSUME WorkFn, WorkSeqs, NEW p \in Threads, Step(p), Early(Head(work[p]))
  PROVE  work'[p] = Tail(work[p])
<1> DEFINE e == E(p)
<1>1. PublishEvent(p) /\ e.type = "approval.resolved" /\ e.note = "early"
  BY ActionOf DEF Early, E
<1>2. ChatVisibility(e.type, "trace") = "trace" /\ e.type \notin ChatFrames /\ e.type \notin TaskEnds
  BY <1>1 DEF ChatVisibility, ToolEvents, ChatFrames, TaskEnds
<1>3. Then(p, << >>) \/ Then(p, << >> \o << >>)
  BY <1>1, <1>2 DEF PublishEvent
<1>4. Then(p, << >>)
  BY <1>3, NoItems, EmptyJoins
<1>5. work[p] # << >>
  BY ActionOf
<1>6. work'[p] = << >> \o Tail(work[p])
  BY <1>4, <1>5, NoItems, ThenWork
<1>7. IsSeq(Tail(work[p]))
  BY <1>5, ItemsTail DEF WorkSeqs
<1>. QED BY <1>6, <1>7, EmptyJoins

\* The facts of a step of good work.
GoodStepFacts(p, h, s) ==
  /\ StepLeaves(p, h, s) /\ work[p] # << >> /\ IsSeq(work[p])
  /\ h = Head(work[p]) /\ h \in Items(work[p]) /\ Good(p, h)
  /\ \A x \in Items(work'[p]) : x \in Items(s) \/ x \in Items(Tail(work[p]))
  /\ Items(Tail(work[p])) \subseteq Items(work[p])
  /\ Items(Tail(work[p])) \subseteq Items(work'[p]) /\ Items(s) \subseteq Items(work'[p])
  /\ h.op = "resume" => p = "rpc" /\ pc = "waiting" /\ Items(work'[p]) = {}
                        /\ (pend # "none" => approval[pend] # "pending")
  /\ Early(h) => work'[p] = Tail(work[p])

\* All that is known of such a step.
LEMMA GoodFacts ==
  ASSUME CSInv, NEW p \in Threads, \A x \in Items(work[p]) : Good(p, x), Step(p)
  PROVE  \E s : GoodStepFacts(p, Head(work[p]), s)
<1> DEFINE h == Head(work[p])
           w == work[p]
<1>1. PICK s : StepLeaves(p, h, s)
  BY GoodLeaves
<1>2. w # << >> /\ h \in Items(w) /\ IsSeq(w) /\ Good(p, h)
  BY StepWork DEF CSInv, WorkSeqs
<1>3. IsSeq(Tail(w)) /\ Items(Tail(w)) \subseteq Items(w)
  BY <1>2, ItemsTail
<1>4. IsSeq(s) /\ work'[p] = s \o Tail(w) /\ \A x \in Items(s) : From(h, x)
  BY <1>1 DEF StepLeaves
<1>5. /\ Items(s) \subseteq Items(s \o Tail(w)) /\ Items(Tail(w)) \subseteq Items(s \o Tail(w))
      /\ Items(s \o Tail(w)) \subseteq Items(s) \cup Items(Tail(w))
  BY <1>3, <1>4, JoinedItems, ItemsJoined
<1>6. h.op = "resume" => p = "rpc" /\ pc = "waiting" /\ Items(work'[p]) = {}
                         /\ (pend # "none" => approval[pend] # "pending")
  <2> SUFFICES ASSUME h.op = "resume"
               PROVE  p = "rpc" /\ pc = "waiting" /\ Items(work'[p]) = {}
                      /\ (pend # "none" => approval[pend] # "pending")
    OBVIOUS
  <2>1. p = "rpc"
    BY <1>2 DEF Good
  <2>2. pc = "waiting" /\ ResumesLast(w) /\ (pend # "none" => approval[pend] # "pending")
    BY <1>2, <2>1 DEF CSInv, Phases
  <2>3. Tail(w) = << >>
    BY <1>2, <2>2, HeadResumes
  <2>4. Items(s) = {}
    BY <1>4 DEF From
  <2>5. Items(work'[p]) = {}
    BY <1>4, <1>5, <2>3, <2>4, NoItems
  <2>. QED BY <2>1, <2>2, <2>5
<1>7. Early(h) => work'[p] = Tail(w)
  BY EarlyLeaves DEF CSInv
<1>. HIDE DEF h
<1>8. GoodStepFacts(p, h, s)
  BY <1>1, <1>2, <1>3, <1>4, <1>5, <1>6, <1>7 DEF GoodStepFacts, h
<1>. QED BY <1>8 DEF h

-----------------------------------------------------------------------------
(* Such a step keeps the threads apart, and the decisions.                 *)

LEMMA GatedAre == Gated \subseteq Tools
BY ChatStreamAssumption

\* Where a thread that works may be.
LEMMA WorksAt ==
  ASSUME PlainInv, NEW p \in Threads, work[p] # << >>
  PROVE  /\ p \in Tools => pc = "tools" /\ Active(p)
         /\ p = "loop" => pc \notin {"tools", "waiting"}
BY DEF PlainInv, Alone, Active

\* It keeps the threads apart.
LEMMA StepAlone ==
  ASSUME CSInv, PlainInv, NEW p \in Threads, NEW h, NEW s, GoodStepFacts(p, h, s)
  PROVE  Alone'
<1>1. work[p] # << >> /\ (\A q \in Threads : q # p => work'[q] = work[q])
  BY DEF GoodStepFacts, StepLeaves
<1>2. tool = [t \in Tools |-> tool[t]]
  BY DEF CSInv, Phases
<1>3. \A t \in Tools : work'[t] # << >> => work[t] # << >>
  BY <1>1, ThreadsAre
<1>4. CASE pc' = pc /\ tool' = tool
  <2>1. \A t \in Tools : Active(t)' => Active(t)
    BY <1>3, <1>4 DEF Active
  <2>2. pc \in {"tools", "waiting"} => work'["loop"] = << >>
    <3>1. CASE p = "loop"
      BY <1>1, <3>1, WorksAt
    <3>2. CASE p # "loop"
      BY <1>1, <3>2, ThreadsAre DEF PlainInv, Alone
    <3>. QED BY <3>1, <3>2
  <2>3. pc \notin {"tools", "waiting"} => \A t \in Tools : ~Active(t)'
    BY <2>1 DEF PlainInv, Alone
  <2>4. pc = "waiting" => \A t \in Tools : work'[t] = << >> /\ tool'[t] \in {"idle", "done", "waiting"}
    BY <1>3, <1>4 DEF PlainInv, Alone
  <2>5. \A t \in Gated : Active(t)' => \A u \in Tools \ {t} : ~Active(u)'
    BY <2>1, GatedAre DEF PlainInv, Alone
  <2>. QED BY <1>4, <2>2, <2>3, <2>4, <2>5 DEF Alone
<1>5. CASE h.op = "resume" /\ pc' = "tools" /\ tool' = [tool EXCEPT ![h.event.of] = "ready"]
  <2> DEFINE t == h.event.of
  <2>1. p = "rpc" /\ pc = "waiting" /\ h \in Items(work["rpc"])
    BY <1>5 DEF GoodStepFacts
  <2>2. t \in Gated /\ t \in Tools /\ tool[t] = "waiting"
    BY <1>5, <2>1, GatedAre DEF PlainInv, Asking
  <2>. HIDE DEF t
  <2>3. tool' = [tool EXCEPT ![t] = "ready"] /\ Active(t)
    BY <1>5, <2>2 DEF t, Active
  <2>4. \A u \in Tools : Active(u)' => Active(u)
    <3> SUFFICES ASSUME NEW u \in Tools, Active(u)' PROVE Active(u)
      OBVIOUS
    <3>1. CASE u = t
      BY <2>3, <3>1
    <3>2. CASE u # t
      <4>1. tool'[u] = tool[u]
        BY <1>2, <2>3, <3>2
      <4>. QED BY <1>3, <4>1 DEF Active
    <3>. QED BY <3>1, <3>2
  <2>5. work'["loop"] = << >>
    BY <1>1, <2>1, ThreadsAre DEF PlainInv, Alone
  <2>6. \A u \in Gated : Active(u)' => \A v \in Tools \ {u} : ~Active(v)'
    BY <2>4, GatedAre DEF PlainInv, Alone
  <2>. QED BY <1>5, <2>5, <2>6 DEF Alone
<1>. QED BY <1>4, <1>5 DEF GoodStepFacts, StepLeaves

\* It leaves to each thread what that thread may do.
LEMMA StepDoes ==
  ASSUME CSInv, PlainInv, NEW p \in Threads, NEW h, NEW s, GoodStepFacts(p, h, s)
  PROVE  Does'
<1>1. /\ work[p] # << >> /\ (\A q \in Threads : q # p => work'[q] = work[q]) /\ Good(p, h)
      /\ h \in Items(work[p]) /\ \A x \in Items(work'[p]) : x \in Items(work[p]) \/ From(h, x)
      /\ pc' = pc \/ h.op = "resume"
  BY DEF GoodStepFacts, StepLeaves
<1>2. Does
  BY DEF PlainInv
<1>3. ASSUME NEW t \in Tools, NEW x \in Items(work'[t]) PROVE ToolDoes(t, x)
  <2>1. CASE t = p
    <3>1. ToolDoes(t, h)
      BY <1>1, <1>2, <2>1 DEF Does
    <3>. QED BY <1>1, <1>2, <1>3, <2>1, <3>1, ToolFrom DEF Does
  <2>2. CASE t # p
    <3>1. work'[t] = work[t]
      BY <1>1, <2>2, ThreadsAre
    <3>. QED BY <1>2, <1>3, <3>1 DEF Does
  <2>. QED BY <2>1, <2>2
<1>4. ASSUME NEW x \in Items(work'["rpc"]) PROVE RequestDoes(x)'
  <2>1. pc' = pc
    BY <1>1, <1>4 DEF GoodStepFacts
  <2>2. CASE p # "rpc"
    <3>1. work'["rpc"] = work["rpc"]
      BY <1>1, <2>2, ThreadsAre
    <3>2. RequestDoes(x)
      BY <1>2, <1>4, <3>1 DEF Does
    <3>. QED BY <2>1, <3>2 DEF RequestDoes
  <2>3. CASE p = "rpc"
    <3>1. RequestDoes(h) /\ \A y \in Items(work["rpc"]) : RequestDoes(y)
      BY <1>1, <1>2, <2>3 DEF Does
    <3>2. Closes(x)
      BY <1>1, <1>4, <2>3, <3>1, ClosesFrom DEF RequestDoes
    <3>3. pc # "waiting" => Early(x)
      <4> SUFFICES ASSUME pc # "waiting" PROVE Early(x)
        OBVIOUS
      <4>1. work'["rpc"] = Tail(work["rpc"]) /\ Items(Tail(work["rpc"])) \subseteq Items(work["rpc"])
        BY <2>3, <3>1 DEF GoodStepFacts, RequestDoes
      <4>. QED BY <1>4, <3>1, <4>1 DEF RequestDoes
    <3>. QED BY <2>1, <3>2, <3>3 DEF RequestDoes
  <2>. QED BY <2>2, <2>3
<1>5. ASSUME NEW x \in Items(work'["loop"]) PROVE LoopDoes(x)'
  <2>1. h.op # "resume"
    <3> SUFFICES ASSUME h.op = "resume" PROVE FALSE
      OBVIOUS
    <3>1. p = "rpc" /\ pc = "waiting"
      BY DEF GoodStepFacts
    <3>2. work["loop"] = << >> /\ work'["loop"] = work["loop"]
      BY <1>1, <3>1, ThreadsAre DEF PlainInv, Alone
    <3>. QED BY <1>5, <3>2, NoItems
  <2>2. pc' = pc
    BY <1>1, <2>1
  <2>3. CASE p # "loop"
    <3>1. work'["loop"] = work["loop"]
      BY <1>1, <2>3, ThreadsAre
    <3>2. LoopDoes(x)
      BY <1>2, <1>5, <3>1 DEF Does
    <3>. QED BY <2>2, <3>2 DEF LoopDoes
  <2>4. CASE p = "loop"
    <3>1. LoopDoes(h)
      BY <1>1, <1>2, <2>4 DEF Does
    <3>2. CASE x \in Items(work["loop"])
      <4>1. LoopDoes(x)
        BY <1>2, <3>2 DEF Does
      <4>. QED BY <2>2, <4>1 DEF LoopDoes
    <3>3. CASE From(h, x) /\ pc = "over"
      <4>1. Closes(x)
        BY <1>1, <3>1, <3>3, ClosesFrom DEF LoopDoes
      <4>. QED BY <2>2, <3>3, <4>1 DEF LoopDoes
    <3>4. CASE From(h, x) /\ pc # "over"
      <4>1. h.op # "close"
        BY <3>1, <3>4 DEF LoopDoes, Failing
      <4>2. ~Failing(x) /\ ~Closing(x) /\ x.op # "publish"
        BY <3>4, <4>1, FromFails
      <4>. QED BY <2>2, <3>4, <4>2 DEF LoopDoes
    <3>. QED BY <1>1, <1>5, <2>4, <3>2, <3>3, <3>4
  <2>. QED BY <2>3, <2>4
<1>. QED BY <1>3, <1>4, <1>5 DEF Does

\* It keeps the pending decisions.
LEMMA StepAsking ==
  ASSUME CSInv, PlainInv, NEW p \in Threads, NEW h, NEW s, GoodStepFacts(p, h, s)
  PROVE  Asking'
<1>1. /\ work[p] # << >> /\ (\A q \in Threads : q # p => work'[q] = work[q])
      /\ h \in Items(work[p]) /\ (\A x \in Items(work'[p]) : x \in Items(work[p]) \/ From(h, x))
      /\ approval' = approval /\ (pend' = pend \/ Failing(h))
      /\ task' = task \/ (h.op = "write" /\ task' = h.event.type)
      /\ \/ pc' = pc /\ tool' = tool
         \/ h.op = "resume" /\ pc' = "tools" /\ tool' = [tool EXCEPT ![h.event.of] = "ready"]
  BY DEF GoodStepFacts, StepLeaves
<1>2. Asking /\ Alone /\ Does
  BY DEF PlainInv
<1>3. tool = [t \in Tools |-> tool[t]]
  BY DEF CSInv, Phases
<1>r. h.op = "resume" => /\ p = "rpc" /\ pc = "waiting" /\ Items(work'["rpc"]) = {}
                         /\ (pend # "none" => approval[pend] # "pending")
                         /\ task \notin Ended
  <2>1. h.op = "resume" => /\ p = "rpc" /\ pc = "waiting" /\ Items(work'["rpc"]) = {}
                           /\ (pend # "none" => approval[pend] # "pending")
    BY DEF GoodStepFacts
  <2>. QED BY <1>1, <1>2, <2>1 DEF Asking
<1>4. ASSUME NEW t \in Gated, approval'[t] = "pending"
      PROVE  tool'[t] = "asked" \/ (tool'[t] = "waiting" /\ pend' = t /\ pc' = "waiting")
  <2>0. t \in Tools /\ t # "none"
    BY GatedAre, ChatStreamAssumption
  <2>1. tool[t] = "asked" \/ (tool[t] = "waiting" /\ pend = t /\ pc = "waiting")
    BY <1>1, <1>2, <1>4 DEF Asking
  <2>2. CASE h.op = "resume"
    <3>1. pc = "waiting" /\ tool[t] \in {"idle", "done", "waiting"}
      BY <1>2, <1>r, <2>0, <2>2 DEF Alone
    <3>2. pend = t
      BY <2>1, <3>1
    <3>. QED BY <1>1, <1>4, <1>r, <2>0, <2>2, <3>2
  <2>3. CASE h.op # "resume" /\ tool[t] = "asked"
    BY <1>1, <2>3
  <2>4. CASE h.op # "resume" /\ tool[t] = "waiting" /\ pend = t /\ pc = "waiting"
    <3>1. p = "rpc"
      BY <1>1, <2>4, WorksAt, ThreadsAre
    <3>2. ~Failing(h)
      BY <1>1, <1>2, <1>4, <3>1 DEF Asking
    <3>. QED BY <1>1, <2>4, <3>2
  <2>. QED BY <2>1, <2>2, <2>3, <2>4
<1>5. ASSUME NEW x \in Items(work'["rpc"]), Failing(x) PROVE \E y \in Items(work["rpc"]) : Failing(y)
  <2>1. CASE p = "rpc"
    <3>1. x \in Items(work["rpc"]) \/ From(h, x)
      BY <1>1, <1>5, <2>1
    <3>2. From(h, x) => Failing(h)
      BY <1>5, FromFails DEF Failing
    <3>. QED BY <1>1, <1>5, <2>1, <3>1, <3>2
  <2>2. CASE p # "rpc"
    BY <1>1, <1>5, <2>2, ThreadsAre
  <2>. QED BY <2>1, <2>2
<1>6. ASSUME NEW x \in Items(work'["rpc"]), x.op = "resume"
      PROVE  /\ task' \notin Ended /\ x.event.of \in Gated /\ tool'[x.event.of] = "waiting"
             /\ \A y \in Items(work'["rpc"]) : ~Failing(y)
  <2>1. x \in Items(work["rpc"])
    <3>1. CASE p = "rpc"
      BY <1>1, <1>6, <3>1, FromFails
    <3>2. CASE p # "rpc"
      BY <1>1, <1>6, <3>2, ThreadsAre
    <3>. QED BY <3>1, <3>2
  <2>2. /\ task \notin Ended /\ x.event.of \in Gated /\ tool[x.event.of] = "waiting"
        /\ \A y \in Items(work["rpc"]) : ~Failing(y)
    BY <1>2, <1>6, <2>1 DEF Asking
  <2>3. pc = "waiting" /\ h.op # "resume"
    BY <1>6, <1>r, <2>1 DEF CSInv, Phases
  <2>4. p = "rpc"
    BY <1>1, <2>3, WorksAt, ThreadsAre
  <2>5. h.op # "write"
    BY <1>1, <2>2, <2>4 DEF Failing
  <2>. QED BY <1>1, <1>5, <2>2, <2>3, <2>5
<1>7. ASSUME task' \in Ended PROVE pc' \in {"waiting", "over"}
  <2>1. CASE task' = task
    BY <1>1, <1>2, <1>7, <1>r, <2>1 DEF Asking
  <2>2. CASE h.op = "write" /\ task' = h.event.type
    <3>1. p \notin Tools
      <4> SUFFICES ASSUME p \in Tools PROVE FALSE
        OBVIOUS
      <4>1. ToolDoes(p, h)
        BY <1>1, <1>2 DEF Does
      <4>2. h.event.type = "waiting_approval"
        BY <2>2, <4>1 DEF ToolDoes
      <4>. QED BY <1>7, <2>2, <4>2 DEF Ended
    <3>2. CASE p = "loop"
      <4>1. LoopDoes(h)
        BY <1>1, <1>2, <3>2 DEF Does
      <4>. QED BY <1>1, <2>2, <4>1 DEF LoopDoes, Failing
    <3>3. CASE p = "rpc"
      <4>1. RequestDoes(h)
        BY <1>1, <1>2, <3>3 DEF Does
      <4>. QED BY <1>1, <2>2, <4>1 DEF RequestDoes, Early
    <3>. QED BY <3>1, <3>2, <3>3, ThreadsAre
  <2>. QED BY <1>1, <2>1, <2>2
<1>8. ASSUME NEW x \in Items(work'["rpc"]), Failing(x), NEW t \in Gated PROVE approval'[t] # "pending"
  BY <1>1, <1>2, <1>5, <1>8 DEF Asking
<1>. QED BY <1>4, <1>6, <1>7, <1>8 DEF Asking

-----------------------------------------------------------------------------
(* It keeps the status that is shown.                                      *)

\* Two threads that show a status at once are two tools that run side by side.
LEMMA TwoStatuses ==
  ASSUME PlainInv, NEW p \in Threads, NEW q \in Threads, p # q,
         NEW x \in Items(work[p]), NEW y \in Items(work[q]), StatusItem(x), StatusItem(y)
  PROVE  x.event.of = y.event.of
<1>1. work[p] # << >> /\ work[q] # << >>
  BY NoItems
<1>2. Does /\ Alone
  BY DEF PlainInv
<1>3. ~Early(x) /\ ~Early(y)
  BY DEF StatusItem, Early
<1>4. /\ p = "rpc" => pc = "waiting"
      /\ q = "rpc" => pc = "waiting"
  BY <1>2, <1>3 DEF Does, RequestDoes
<1>5. p \in Tools /\ q \in Tools
  BY <1>1, <1>4, WorksAt, ThreadsAre
<1>6. Active(p) /\ Active(q)
  BY <1>1 DEF Active
<1>7. p \notin Gated /\ q \notin Gated
  BY <1>2, <1>5, <1>6 DEF Alone
<1>8. ToolDoes(p, x) /\ ToolDoes(q, y)
  BY <1>2, <1>5 DEF Does
<1>. QED BY <1>7, <1>8 DEF ToolDoes

\* The frame of a status is the next thing its thread sends.
LEMMA StepStatus ==
  ASSUME CSInv, PlainInv, NEW p \in Threads, NEW h, NEW s, GoodStepFacts(p, h, s), Step(p)
  PROVE  StatusOK'
<1> DEFINE w == work[p]
<1>1. /\ w # << >> /\ IsSeq(w) /\ (\A q \in Threads : q # p => work'[q] = work[q]) /\ Good(p, h)
      /\ h = Head(w) /\ h \in Items(w) /\ IsSeq(s) /\ (\A x \in Items(s) : From(h, x)) /\ work'[p] = s \o Tail(w)
      /\ (\A x \in Items(work'[p]) : x \in Items(s) \/ x \in Items(Tail(w)))
      /\ Items(Tail(w)) \subseteq Items(w) /\ Items(Tail(w)) \subseteq Items(work'[p]) /\ Items(s) \subseteq Items(work'[p])
      /\ (h.op # "status" => shownStatus' = shownStatus) /\ (~StatusFrame(h) => chat'.status = chat.status)
  BY DEF GoodStepFacts, StepLeaves
<1>2. IsSeq(Tail(w)) /\ E(p) = h.event
  BY <1>1, ItemsTail DEF E
<1>3. /\ \A q \in Threads : \A x \in Items(work[q]) : StatusFrame(x) => x.event.of = shownStatus[1]
      /\ \A x \in Items(Tail(w)) : ~StatusFrame(x)
      /\ \A q \in Threads : work[q] # << >> => \A x \in Items(Tail(work[q])) : ~StatusFrame(x)
      /\ (\A q \in Threads : \A x \in Items(work[q]) : ~StatusFrame(x)) => chat.status = shownStatus[1]
  BY <1>1 DEF PlainInv, StatusOK
<1>. HIDE DEF w
<1>4. CASE h.op = "status"
  <2> DEFINE a == Do("frame", h.event)
             print == <<h.event.of, h.event.note>>
  <2>0. ShowStatus(p)
    <3>1. Head(work[p]).op = "status"
      BY <1>1, <1>4 DEF w
    <3>. QED BY <3>1, ActionOf
  <2>1. shownStatus' = print /\ Then(p, IF shownStatus = print THEN << >> ELSE <<a>>)
    BY <1>2, <2>0 DEF ShowStatus
  <2>2. shownStatus'[1] = h.event.of /\ ~StatusFrame(h) /\ StatusItem(h)
    BY <1>1, <1>4, <2>1 DEF StatusFrame, StatusItem, Good
  <2>3. a.op = "frame" /\ a.event = h.event /\ StatusFrame(a)
    BY <1>1, <1>4 DEF Good, Do, StatusFrame
  <2>t. WorkFn /\ WorkSeqs /\ work[p] # << >> /\ w = work[p]
    BY <1>1 DEF CSInv, w
  <2>4. CASE shownStatus = print
    <3>1. Then(p, << >>) /\ shownStatus' = shownStatus
      BY <2>1, <2>4
    <3>2. work'[p] = << >> \o Tail(w)
      BY <2>t, <3>1, NoItems, ThenWork
    <3>3. work'[p] = Tail(w)
      BY <1>2, <3>2, EmptyJoins
    <3>4. \A q \in Threads : \A x \in Items(work'[q]) : x \in Items(work[q])
      BY <1>1, <2>t, <3>3
    <3>5. ASSUME NEW q \in Threads, work'[q] # << >>, NEW x \in Items(Tail(work'[q])) PROVE ~StatusFrame(x)
      <4>1. CASE q = p
        <5>1. x \in Items(Tail(w))
          BY <1>2, <3>3, <3>5, <4>1, ItemsTail
        <5>. QED BY <1>3, <5>1
      <4>2. CASE q # p
        BY <1>1, <1>3, <3>5, <4>2
      <4>. QED BY <4>1, <4>2
    <3>6. ASSUME \A q \in Threads : \A x \in Items(work'[q]) : ~StatusFrame(x)
          PROVE  chat'.status = shownStatus'[1]
      <4>1. ASSUME NEW q \in Threads, NEW x \in Items(work[q]) PROVE ~StatusFrame(x)
        <5>1. CASE q = p
          <6>1. x = h \/ x \in Items(Tail(w))
            BY <1>1, <2>t, <4>1, <5>1, HeadOrTail
          <6>. QED BY <1>3, <2>2, <6>1
        <5>2. CASE q # p
          BY <1>1, <3>6, <4>1, <5>2
        <5>. QED BY <5>1, <5>2
      <4>. QED BY <1>1, <1>3, <2>2, <3>1, <4>1
    <3>7. \A q \in Threads : \A x \in Items(work'[q]) : StatusFrame(x) => x.event.of = shownStatus'[1]
      BY <1>3, <3>1, <3>4
    <3>. QED BY <3>5, <3>6, <3>7 DEF StatusOK
  <2>5. CASE shownStatus # print
    <3>. HIDE DEF a
    <3>1. Then(p, <<a>>)
      BY <2>1, <2>5
    <3>2. IsSeq(<<a>>)
      BY Items1
    <3>3. work'[p] = <<a>> \o Tail(w)
      <4> DEFINE c == <<a>>
      <4>1. IsSeq(c) /\ Then(p, c)
        BY <3>1, <3>2
      <4>. HIDE DEF c
      <4>2. work'[p] = c \o Tail(w)
        BY <2>t, <4>1, ThenWork
      <4>. QED BY <4>2 DEF c
    <3>4. Tail(work'[p]) = Tail(w) /\ Head(work'[p]) = a /\ work'[p] # << >> /\ IsSeq(work'[p])
      BY <1>2, <3>3, Joins
    <3>5. a \in Items(work'[p])
      BY <3>4, ItemsTail
    <3>6. ASSUME NEW q \in Threads, work'[q] # << >>, NEW x \in Items(Tail(work'[q])) PROVE ~StatusFrame(x)
      BY <1>1, <1>3, <3>4, <3>6
    <3>7. ASSUME NEW q \in Threads, NEW x \in Items(work'[q]), StatusFrame(x) PROVE x.event.of = shownStatus'[1]
      <4>1. CASE q = p
        <5>1. x = a
          BY <1>3, <3>4, <3>7, <4>1, HeadOrTail
        <5>. QED BY <2>2, <2>3, <5>1 DEF a
      <4>2. CASE q # p
        <5>1. x \in Items(work[q]) /\ StatusItem(x) /\ h \in Items(work[p])
          BY <1>1, <2>t, <3>7, <4>2 DEF StatusFrame, StatusItem
        <5>2. x.event.of = h.event.of
          BY <2>2, <4>2, <5>1, TwoStatuses
        <5>. QED BY <2>2, <5>2
      <4>. QED BY <4>1, <4>2
    <3>8. ~(\A q \in Threads : \A x \in Items(work'[q]) : ~StatusFrame(x))
      BY <2>3, <3>5 DEF a
    <3>. QED BY <3>6, <3>7, <3>8 DEF StatusOK
  <2>. QED BY <2>4, <2>5
<1>5. CASE h.op # "status"
  <2>0. shownStatus' = shownStatus /\ w = work[p]
    BY <1>1, <1>5 DEF w
  <2>1. h.op = "publish" => h.event.type # "status"
    <3> SUFFICES ASSUME h.op = "publish" PROVE h.event.type # "status"
      OBVIOUS
    <3>1. CASE p \in Tools
      <4>1. ToolDoes(p, h)
        BY <1>1, <2>0, <3>1 DEF PlainInv, Does
      <4>. QED BY <4>1 DEF ToolDoes, ToolEvents
    <3>2. CASE p = "rpc" \/ (p = "loop" /\ pc = "over")
      <4>1. Closes(h)
        BY <1>1, <2>0, <3>2 DEF PlainInv, Does, RequestDoes, LoopDoes
      <4>. QED BY <4>1 DEF Closes, Closers, TaskEnds
    <3>3. CASE p = "loop" /\ pc # "over"
      BY <1>1, <2>0, <3>3 DEF PlainInv, Does, LoopDoes
    <3>. QED BY <3>1, <3>2, <3>3, ThreadsAre
  <2>2. \A x \in Items(s) : ~StatusFrame(x)
    BY <1>1, <1>5, <2>1, FromStatus
  <2>3. \A x \in Items(work'[p]) : ~StatusFrame(x)
    BY <1>1, <1>3, <2>2
  <2>4. ASSUME NEW q \in Threads, work'[q] # << >>, NEW x \in Items(Tail(work'[q])) PROVE ~StatusFrame(x)
    <3>1. CASE q = p
      <4>1. IsSeq(work'[p])
        BY <1>1, <1>2, ItemsJoined
      <4>2. x \in Items(work'[p])
        BY <2>4, <3>1, <4>1, ItemsTail
      <4>. QED BY <2>3, <4>2
    <3>2. CASE q # p
      BY <1>1, <1>3, <2>4, <3>2
    <3>. QED BY <3>1, <3>2
  <2>5. \A q \in Threads : \A x \in Items(work'[q]) : StatusFrame(x) => x.event.of = shownStatus'[1]
    BY <1>1, <1>3, <2>0, <2>3
  <2>6. ASSUME \A q \in Threads : \A x \in Items(work'[q]) : ~StatusFrame(x)
        PROVE  chat'.status = shownStatus'[1]
    <3>1. CASE StatusFrame(h)
      <4>0. Head(work[p]).op = "frame"
        BY <1>1, <2>0, <3>1 DEF StatusFrame
      <4>1. SendFrame(p)
        BY <4>0, ActionOf
      <4>2. h.event.note # "text" /\ h.event.type = "status" /\ E(p) = h.event
        BY <1>1, <1>2, <3>1 DEF Good, StatusFrame
      <4> DEFINE f == h.event
      <4>. HIDE DEF f
      <4>3. Sent(Compat(f), f)
        BY <4>1, <4>2 DEF SendFrame, f
      <4>4. Live(Compat(f))
        BY <4>2 DEF f, Live, Compat, ShouldEmit, ToServerMessage, Recoverable, ChatFrames
      <4>5. chat' = Shown(chat, f)
        BY <4>3, <4>4 DEF Sent
      <4>6. chat'.status = f.of
        BY <4>2, <4>5 DEF Shown, f, CSInv, ViewsOK, IsView
      <4>7. f.of = shownStatus[1]
        BY <1>1, <1>3, <2>0, <3>1 DEF f
      <4>. QED BY <2>0, <4>6, <4>7
    <3>2. CASE ~StatusFrame(h)
      <4>1. ASSUME NEW q \in Threads, NEW x \in Items(work[q]) PROVE ~StatusFrame(x)
        <5>1. CASE q = p
          <6>1. x = h \/ x \in Items(Tail(w))
            BY <1>1, <2>0, <4>1, <5>1, HeadOrTail
          <6>. QED BY <1>3, <3>2, <6>1
        <5>2. CASE q # p
          BY <1>1, <2>6, <4>1, <5>2
        <5>. QED BY <5>1, <5>2
      <4>. QED BY <1>1, <1>3, <2>0, <3>2, <4>1
    <3>. QED BY <3>1, <3>2
  <2>. QED BY <2>4, <2>5, <2>6 DEF StatusOK
<1>. QED BY <1>4, <1>5

-----------------------------------------------------------------------------
(* It keeps the promise of an ended task.                                  *)

\* The end of the task, published, makes the chat idle.
LEMMA EndShowsIdle ==
  ASSUME WorkFn, WorkSeqs, NEW p \in Threads, Step(p), Good(p, Head(work[p])),
         task \in {"completed", "failed"}, EndsWith(Head(work[p]), task)
  PROVE  \E x \in Items(work'[p]) : x.op = "status" /\ x.event.of = "idle"
<1> DEFINE e == E(p)
           given == Visibility(e.type)
           i == Status("idle", "")
<1>1. /\ PublishEvent(p) /\ e.note = "" /\ e.type = EndOf(task) /\ IsEvent(e) /\ work[p] # << >>
  BY ActionOf DEF EndsWith, E, Good, IsItem
<1>2. /\ e.type \in {"task.completed", "task.failed"} /\ e.type \in TaskEnds /\ e.type \in Closers
      /\ e.type \in AllowedAfter(task) /\ e.type \notin ChatFrames /\ e.type # "approval.resolved"
      /\ e.type # "assistant.token"
  BY <1>1 DEF EndOf, TaskEnds, Closers, AllowedAfter, ChatFrames
<1>. HIDE DEF e
<1>3. \A g : ~Dropped(task, e.type, e.note, g)
  BY <1>2 DEF Dropped
<1> DEFINE s == Frames(e) \o RawEvent(e)
<1>4. Then(p, s)
  <2>1. e.note # "early"
    BY <1>1
  <2>. QED BY <1>1, <1>2, <1>3, <2>1 DEF PublishEvent, e
<1>5. Frames(e) = EndFrames(e)
  BY <1>2 DEF Frames, TaskEnds
<1>6. IsSeq(RawEvent(e)) /\ IsSeq(Frames(e))
  BY <1>1, <1>2, RawIs, FramesAre
<1>7. i \in Items(EndFrames(e))
  <2> DEFINE a == GoalEvent(e)
             c == IF e.type = "message.completed" THEN <<Frame("message_complete", "text", "", {})>> ELSE << >>
             d == <<i>>
  <2>1. c = << >> /\ EndFrames(e) = (a \o c) \o d
    BY <1>2 DEF EndFrames
  <2>2. IsSeq(a)
    <3> DEFINE g == [e EXCEPT !.type = "goal_event"]
    <3>0. IsEvent(e)
      BY <1>1
    <3>1. IsEvent(g) /\ g.type = "goal_event"
      BY <3>0 DEF IsEvent
    <3>2. "goal_event" \notin ChatFrames
      BY DEF ChatFrames
    <3>3. a = IF e.type \in TaskEnds THEN RawEvent(g) ELSE << >>
      BY DEF GoalEvent
    <3>. HIDE DEF g, a
    <3>4. IsSeq(RawEvent(g))
      BY <3>1, <3>2, RawIs
    <3>. QED BY <3>3, <3>4, NoItems
  <2>3. IsSeq(a \o c)
    BY <2>1, <2>2, EmptyJoins
  <2>4. IsSeq(d) /\ i \in Items(d)
    <3>. HIDE DEF i
    <3>1. IsSeq(<<i>>)
      BY Items1
    <3>2. i \in Items(<<i>>)
      BY <3>1, Single, ItemsTail
    <3>. QED BY <3>1, <3>2
  <2>. HIDE DEF a, c, d, i
  <2>5. Items(d) \subseteq Items((a \o c) \o d)
    BY <2>3, <2>4, JoinedItems
  <2>. QED BY <2>1, <2>4, <2>5
<1>8. IsSeq(s) /\ i \in Items(s)
  <2>1. Items(Frames(e)) \subseteq Items(s) /\ IsSeq(s)
    BY <1>6, JoinedItems, ItemsJoined
  <2>. HIDE DEF i, s
  <2>. QED BY <1>5, <1>7, <2>1
<1>9. i \in Items(work'[p])
  <2>. HIDE DEF i, s
  <2>1. work'[p] = s \o Tail(work[p])
    BY <1>1, <1>4, <1>8, ThenWork
  <2>2. IsSeq(Tail(work[p]))
    BY <1>1, ItemsTail DEF WorkSeqs
  <2>3. Items(s) \subseteq Items(work'[p])
    BY <1>8, <2>1, <2>2, JoinedItems
  <2>. QED BY <1>8, <2>3
<1>10. i.op = "status" /\ i.event.of = "idle"
  BY DEF Status, Do, Event
<1>. HIDE DEF i
<1>. QED BY <1>9, <1>10

\* An end that is promised closes the task.
LEMMA EndsAreClosing == ASSUME NEW y, NEW status, EndsWith(y, status) PROVE Closing(y)
BY DEF EndsWith, EndOf, Closing, Closers, TaskEnds

\* An end that was promised is kept until it has shown the chat idle.
LEMMA StepEnds ==
  ASSUME CSInv, PlainInv, NEW p \in Threads, NEW h, NEW s, GoodStepFacts(p, h, s), Step(p)
  PROVE  EndsIdle'
<1> DEFINE w == work[p]
<1>1. /\ w # << >> /\ IsSeq(w) /\ (\A q \in Threads : q # p => work'[q] = work[q]) /\ Good(p, h)
      /\ h = Head(w) /\ h \in Items(w) /\ IsSeq(s) /\ (\A x \in Items(s) : From(h, x)) /\ work'[p] = s \o Tail(w)
      /\ (\A x \in Items(work'[p]) : x \in Items(s) \/ x \in Items(Tail(w)))
      /\ Items(Tail(w)) \subseteq Items(w) /\ Items(Tail(w)) \subseteq Items(work'[p]) /\ Items(s) \subseteq Items(work'[p])
      /\ (h.op # "status" => shownStatus' = shownStatus)
      /\ task' = task \/ (h.op = "write" /\ task' = h.event.type)
  BY DEF GoodStepFacts, StepLeaves
<1>2. /\ \A q \in Threads : WritesFirst(work[q])
      /\ \A q \in Threads : \A x \in Items(work[q]) :
           x.op = "write" /\ x.event.type \in {"completed", "failed"} =>
             \E y \in Items(work[q]) : EndsWith(y, x.event.type)
      /\ task \in {"completed", "failed"} =>
           \/ shownStatus[1] = "idle"
           \/ \E q \in {"loop", "rpc"} : \E x \in Items(work[q]) : Promise(x)
  BY DEF PlainInv, EndsIdle
<1>w. w = work[p]
  OBVIOUS
<1>. HIDE DEF w
<1>3. \A x \in Items(s) : x.op # "write" /\ ~Closing(x)
  BY <1>1, FromFails
<1>4. ASSUME NEW q \in Threads PROVE WritesFirst(work'[q])
  <2>1. CASE q = p
    BY <1>1, <1>2, <1>3, <1>w, <2>1, WritesKept
  <2>2. CASE q # p
    BY <1>1, <1>2, <2>2
  <2>. QED BY <2>1, <2>2
<1>5. ASSUME NEW q \in Threads, NEW x \in Items(work'[q]), x.op = "write", x.event.type \in {"completed", "failed"}
      PROVE  \E y \in Items(work'[q]) : EndsWith(y, x.event.type)
  <2>1. CASE q = p
    <3>1. x \in Items(Tail(w)) /\ x \in Items(w)
      BY <1>1, <1>3, <1>5, <2>1
    <3>2. PICK y \in Items(w) : EndsWith(y, x.event.type)
      BY <1>2, <1>5, <1>w, <3>1
    <3>3. y \in Items(Tail(w))
      BY <1>1, <1>2, <1>5, <1>w, <3>1, <3>2, EndsAreClosing, EndsAfter
    <3>. QED BY <1>1, <2>1, <3>2, <3>3
  <2>2. CASE q # p
    BY <1>1, <1>2, <1>5, <2>2
  <2>. QED BY <2>1, <2>2
<1>6. ASSUME task' \in {"completed", "failed"}
      PROVE  \/ shownStatus'[1] = "idle"
             \/ \E q \in {"loop", "rpc"} : \E x \in Items(work'[q]) : Promise(x)'
  <2>1. CASE h.op = "write" /\ task' = h.event.type
    <3>1. p \in {"loop", "rpc"}
      <4>1. p \in Tools => ToolDoes(p, h)
        BY <1>1, <1>w DEF PlainInv, Does
      <4>2. p \notin Tools
        BY <1>6, <2>1, <4>1 DEF ToolDoes
      <4>. QED BY <4>2, ThreadsAre
    <3>2. PICK y \in Items(w) : EndsWith(y, task')
      BY <1>1, <1>2, <1>6, <1>w, <2>1
    <3>3. y.op = "publish"
      BY <3>2 DEF EndsWith
    <3>4. y \in Items(Tail(w))
      BY <1>1, <2>1, <3>3, HeadOrTail
    <3>5. y \in Items(work'[p]) /\ Promise(y)'
      BY <1>1, <3>2, <3>4 DEF Promise, EndsWith
    <3>. QED BY <3>1, <3>5
  <2>2. CASE task' = task
    <3>1. task \in Ended /\ pc \in {"waiting", "over"}
      BY <1>6, <2>2 DEF PlainInv, Asking, Ended
    <3>2. p \notin Tools
      BY <1>1, <1>w, <3>1, WorksAt
    <3>3. Closes(h)
      <4>1. CASE p = "rpc"
        BY <1>1, <1>w, <4>1 DEF PlainInv, Does, RequestDoes
      <4>2. CASE p = "loop"
        <5>1. pc = "over"
          BY <1>1, <1>w, <3>1, <4>2, WorksAt
        <5>. QED BY <1>1, <1>w, <4>2, <5>1 DEF PlainInv, Does, LoopDoes
      <4>. QED BY <3>2, <4>1, <4>2, ThreadsAre
    <3>4. h.op = "status" => shownStatus'[1] = h.event.of
      <4> SUFFICES ASSUME h.op = "status" PROVE shownStatus'[1] = h.event.of
        OBVIOUS
      <4>1. ShowStatus(p)
        BY <1>1, <1>w, ActionOf
      <4>2. shownStatus' = <<E(p).of, E(p).note>> /\ E(p) = h.event
        BY <1>1, <1>w, <4>1 DEF ShowStatus, E
      <4>. QED BY <4>2
    <3>5. h.op = "status" => h.event.of = "idle"
      BY <1>1, <3>3 DEF Closes, StatusItem, Good
    <3>6. CASE shownStatus[1] = "idle"
      BY <1>1, <3>4, <3>5, <3>6
    <3>7. CASE \E q \in {"loop", "rpc"} : \E x \in Items(work[q]) : Promise(x)
      <4>1. PICK q \in {"loop", "rpc"} : \E x \in Items(work[q]) : Promise(x)
        BY <3>7
      <4>2. PICK x \in Items(work[q]) : Promise(x)
        BY <4>1
      <4>3. Promise(x)'
        BY <2>2, <4>2 DEF Promise, EndsWith
      <4>4. CASE q # p
        <5>1. work'[q] = work[q]
          BY <1>1, <4>4, ThreadsAre
        <5>. QED BY <4>2, <4>3, <5>1
      <4>5. CASE q = p /\ x # h
        <5>1. x \in Items(work'[q])
          BY <1>1, <1>w, <4>2, <4>5, HeadOrTail
        <5>. QED BY <4>3, <5>1
      <4>6. CASE q = p /\ x = h /\ x.op = "status"
        BY <3>4, <3>5, <4>6
      <4>7. CASE q = p /\ x = h /\ x.op # "status"
        <5>1. EndsWith(h, task)
          BY <4>2, <4>7 DEF Promise
        <5>2. WorkFn /\ WorkSeqs /\ h = Head(work[p]) /\ task \in {"completed", "failed"}
          BY <1>1, <1>6, <1>w, <2>2 DEF CSInv
        <5>3. PICK y \in Items(work'[p]) : y.op = "status" /\ y.event.of = "idle"
          BY <1>1, <5>1, <5>2, EndShowsIdle
        <5>4. Promise(y)'
          BY <5>3 DEF Promise
        <5>. QED BY <4>7, <5>3, <5>4
      <4>. QED BY <4>4, <4>5, <4>6, <4>7
    <3>. QED BY <1>2, <1>6, <2>2, <3>6, <3>7
  <2>. QED BY <1>1, <2>1, <2>2
<1>. QED BY <1>4, <1>5, <1>6 DEF EndsIdle

\* A step of a thread in a run without a cancel, a merge request or a restart.
LEMMA StepPlain == ASSUME CSInv, PlainInv, NEW p \in Threads, Step(p) PROVE PlainInv'
<1>1. CASE \A x \in Items(work[p]) : Good(p, x)
  <2> DEFINE h == Head(work[p])
  <2>1. PICK s : GoodStepFacts(p, h, s)
    BY <1>1, GoodFacts
  <2>. HIDE DEF h
  <2>2. Alone' /\ Does' /\ Asking'
    BY <2>1, StepAlone, StepDoes, StepAsking
  <2>3. StatusOK' /\ EndsIdle'
    BY <2>1, StepStatus, StepEnds
  <2>. QED BY <2>2, <2>3 DEF PlainInv
<1>2. CASE p = "loop" /\ pc = "stream" /\ Tokening
  <2>1. TokenLeaves
    BY <1>2, TokenStepLeaves
  <2>. QED BY <1>2, <2>1, TokenItems, TokenPlain DEF CSInv
<1>. QED BY <1>1, <1>2 DEF CSInv, Works

-----------------------------------------------------------------------------
(* What a handler begins.                                                  *)

\* A handler that begins shows no status at once, and what it writes it publishes.
Begins(s) ==
  /\ IsSeq(s) /\ WritesFirst(s)
  /\ \A x \in Items(s) :
       /\ ~StatusFrame(x)
       /\ x.op = "write" /\ x.event.type \in {"completed", "failed"} =>
            \E y \in Items(s) : EndsWith(y, x.event.type)

\* A handler that begins breaks no promise.
LEMMA BegunEnds ==
  ASSUME CSInv, PlainInv, NEW p \in Threads, NEW s, Begins(s), Begin(p, s),
         UNCHANGED <<memory, views>>, task' = task \/ task' \notin {"completed", "failed"}
  PROVE  StatusOK' /\ EndsIdle' /\ work'[p] = s /\ work[p] = << >> /\ \A q \in Threads : q # p => work'[q] = work[q]
<1>1. /\ \A q \in Threads : q # p => work'[q] = work[q]
      /\ work[p] = << >> /\ work'[p] = s
  BY BeginWork DEF CSInv, Begins
<1>2. shownStatus' = shownStatus /\ chat' = chat /\ Items(work[p]) = {}
  BY <1>1, NoItems DEF memory, views
<1>3. StatusOK /\ EndsIdle
  BY DEF PlainInv
<1>4. ASSUME NEW q \in Threads, NEW x \in Items(work'[q]), StatusFrame(x) PROVE q # p /\ x \in Items(work[q])
  BY <1>1, <1>4 DEF Begins
<1>5. ASSUME NEW q \in Threads, NEW x \in Items(work[q]) PROVE q # p /\ x \in Items(work'[q])
  BY <1>1, <1>2, <1>5
<1>6. StatusOK'
  <2>1. \A q \in Threads : \A x \in Items(work'[q]) : StatusFrame(x) => x.event.of = shownStatus'[1]
    BY <1>2, <1>3, <1>4 DEF StatusOK
  <2>2. ASSUME NEW q \in Threads, work'[q] # << >>, NEW x \in Items(Tail(work'[q])) PROVE ~StatusFrame(x)
    <3>1. CASE q = p
      <4>1. x \in Items(s)
        BY <1>1, <2>2, <3>1, ItemsTail DEF Begins
      <4>. QED BY <4>1 DEF Begins
    <3>2. CASE q # p
      BY <1>1, <1>3, <2>2, <3>2 DEF StatusOK
    <3>. QED BY <3>1, <3>2
  <2>3. (\A q \in Threads : \A x \in Items(work'[q]) : ~StatusFrame(x)) => chat'.status = shownStatus'[1]
    <3>1. (\A q \in Threads : \A x \in Items(work'[q]) : ~StatusFrame(x)) =>
            \A q \in Threads : \A x \in Items(work[q]) : ~StatusFrame(x)
      BY <1>5
    <3>2. (\A q \in Threads : \A x \in Items(work[q]) : ~StatusFrame(x)) => chat.status = shownStatus[1]
      BY <1>3 DEF StatusOK
    <3>. QED BY <1>2, <3>1, <3>2
  <2>. QED BY <2>1, <2>2, <2>3 DEF StatusOK
<1>7. EndsIdle'
  <2>1. ASSUME NEW q \in Threads PROVE WritesFirst(work'[q])
    BY <1>1, <1>3 DEF Begins, EndsIdle
  <2>2. ASSUME NEW q \in Threads, NEW x \in Items(work'[q]), x.op = "write", x.event.type \in {"completed", "failed"}
        PROVE  \E y \in Items(work'[q]) : EndsWith(y, x.event.type)
    <3>1. CASE q = p
      BY <1>1, <2>2, <3>1 DEF Begins
    <3>2. CASE q # p
      BY <1>1, <1>3, <2>2, <3>2 DEF EndsIdle
    <3>. QED BY <3>1, <3>2
  <2>3. ASSUME task' \in {"completed", "failed"}
        PROVE  \/ shownStatus'[1] = "idle"
               \/ \E q \in {"loop", "rpc"} : \E x \in Items(work'[q]) : Promise(x)'
    <3>1. task' = task
      BY <2>3
    <3>2. CASE shownStatus[1] = "idle"
      BY <1>2, <3>2
    <3>3. ASSUME NEW q \in {"loop", "rpc"}, NEW x \in Items(work[q]), Promise(x)
          PROVE  \E z \in {"loop", "rpc"} : \E y \in Items(work'[z]) : Promise(y)'
      <4>1. x \in Items(work'[q])
        BY <1>5, ThreadsAre
      <4>2. Promise(x)'
        BY <3>1, <3>3 DEF Promise, EndsWith
      <4>. QED BY <4>1, <4>2
    <3>. QED BY <1>3, <2>3, <3>1, <3>2, <3>3 DEF EndsIdle
  <2>. QED BY <2>1, <2>2, <2>3 DEF EndsIdle
<1>. QED BY <1>1, <1>6, <1>7

\* A step that begins nothing.
LEMMA UnworkedEnds ==
  ASSUME PlainInv, UNCHANGED <<work, memory, views>>, task' = task
  PROVE  StatusOK' /\ EndsIdle'
<1>1. StatusOK /\ EndsIdle /\ work' = work /\ chat' = chat /\ shownStatus' = shownStatus
  BY DEF PlainInv, memory, views
<1>2. StatusOK'
  BY <1>1 DEF StatusOK
<1>3. EndsIdle'
  <2>1. \A x : Promise(x) <=> Promise(x)'
    BY DEF Promise, EndsWith
  <2>2. /\ \A q \in Threads : WritesFirst(work'[q])
        /\ \A q \in Threads : \A x \in Items(work'[q]) :
             x.op = "write" /\ x.event.type \in {"completed", "failed"} =>
               \E y \in Items(work'[q]) : EndsWith(y, x.event.type)
    BY <1>1 DEF EndsIdle
  <2>3. task' \in {"completed", "failed"} =>
           \/ shownStatus'[1] = "idle"
           \/ \E q \in {"loop", "rpc"} : \E x \in Items(work'[q]) : Promise(x)'
    BY <1>1, <2>1 DEF EndsIdle
  <2>. QED BY <2>2, <2>3 DEF EndsIdle
<1>. QED BY <1>2, <1>3

\* What a handler without a write begins.
LEMMA BeginsOne ==
  ASSUME NEW x, x.op # "write", ~StatusFrame(x)
  PROVE  Begins(<<x>>) /\ Items(<<x>>) \subseteq {x}
<1> DEFINE s == <<x>>
<1>1. IsSeq(s) /\ Items(s) \subseteq {x}
  BY Items1
<1>. HIDE DEF s
<1>2. \A i \in 1 .. Len(s) : s[i].op # "write"
  BY <1>1 DEF Items
<1>3. Begins(s)
  BY <1>1, <1>2 DEF Begins, WritesFirst
<1>. QED BY <1>1, <1>3 DEF s

LEMMA BeginsTwo ==
  ASSUME NEW x, NEW y, x.op # "write" \/ x.event.type \notin {"completed", "failed"}, ~Closing(x),
         y.op # "write", ~StatusFrame(x), ~StatusFrame(y)
  PROVE  Begins(<<x, y>>) /\ Items(<<x, y>>) \subseteq {x, y}
<1> DEFINE s == <<x, y>>
<1>1. IsSeq(s) /\ Items(s) \subseteq {x, y}
  BY Items2
<1>2. Len(s) = 2 /\ s[1] = x /\ s[2] = y
  OBVIOUS
<1>. HIDE DEF s
<1>3. WritesFirst(s)
  <2> SUFFICES ASSUME NEW i \in 1 .. 2, NEW j \in 1 .. 2, s[i].op = "write", Closing(s[j]) PROVE i < j
    BY <1>2 DEF WritesFirst
  <2>1. i # 2 /\ j # 1
    BY <1>2
  <2>. QED BY <2>1
<1>4. Begins(s)
  BY <1>1, <1>3 DEF Begins
<1>. QED BY <1>1, <1>4 DEF s

-----------------------------------------------------------------------------
(* The loop, in such a run.                                                *)

\* The parts of an item.
LEMMA WriteIs ==
  ASSUME NEW status
  PROVE  Write(status).op = "write" /\ Write(status).event.type = status
BY DEF Write, Do, Event

LEMMA CloseIs ==
  ASSUME NEW why
  PROVE  ClosePending(why).op = "close" /\ ClosePending(why).event.type = "tool.failed"
BY DEF ClosePending, Do, Event

\* Before pc waits or is over, the task has not ended.
LEMMA NotEnded == PlainInv /\ pc \notin {"waiting", "over"} => task \notin Ended
BY DEF PlainInv, Asking

\* The loop begins.
LEMMA LoopPlain ==
  ASSUME CSInv, PlainInv, NEW s, Begins(s), Begin("loop", s),
         UNCHANGED <<task, tool, approval, pend, memory, views>>,
         pc \in {"top", "stream"}, pc' \in {"stream", "over"}, \A x \in Items(s) : LoopDoes(x)'
  PROVE  PlainInv'
<1>1. /\ StatusOK' /\ EndsIdle' /\ work'["loop"] = s /\ work["loop"] = << >>
      /\ \A q \in Threads : q # "loop" => work'[q] = work[q]
  BY ThreadsAre, BegunEnds
<1>2. work'["rpc"] = work["rpc"] /\ \A t \in Tools : work'[t] = work[t]
  BY <1>1, ThreadsAre
<1>3. Alone /\ Does /\ Asking /\ task \notin Ended
  BY NotEnded DEF PlainInv
<1>4. Alone'
  BY <1>2, <1>3, GatedAre DEF Alone, Active
<1>5. Does'
  <2>1. \A t \in Tools : \A x \in Items(work'[t]) : ToolDoes(t, x)
    BY <1>2, <1>3 DEF Does
  <2>2. \A x \in Items(work'["rpc"]) : RequestDoes(x)'
    BY <1>2, <1>3 DEF Does, RequestDoes
  <2>. QED BY <1>1, <2>1, <2>2 DEF Does
<1>6. Asking'
  <2>1. \A t \in Gated : approval'[t] = "pending" => tool'[t] = "asked"
    BY <1>3 DEF Asking
  <2>. QED BY <1>2, <1>3, <2>1 DEF Asking
<1>. QED BY <1>1, <1>4, <1>5, <1>6 DEF PlainInv

\* The steps of the loop, one by one.
LEMMA TurnPlain == CSInv /\ PlainInv /\ Turn => PlainInv'
<1> SUFFICES ASSUME CSInv, PlainInv, Turn PROVE PlainInv'
  OBVIOUS
<1> DEFINE a == Status("thinking", "model")
           b == Status("streaming", "model")
           s == <<a, b>>
<1>1. a.op = "status" /\ b.op = "status"
  BY DEF Status, Do
<1>2. /\ Begin("loop", s) /\ pc \in {"top", "stream"} /\ pc' \in {"stream", "over"} /\ pc' = "stream"
      /\ UNCHANGED <<task, tool, approval, pend, memory, views>>
  BY DEF Turn
<1>. HIDE DEF a, b
<1>3. Begins(<<a, b>>) /\ Items(<<a, b>>) \subseteq {a, b}
  BY <1>1, BeginsTwo DEF StatusFrame, Closing
<1>4. \A x \in Items(s) : LoopDoes(x)'
  BY <1>1, <1>2, <1>3 DEF LoopDoes, Failing, Closing
<1>. HIDE DEF s
<1>. QED BY <1>2, <1>3, <1>4, LoopPlain DEF s

LEMMA DeltaPlain ==
  ASSUME CSInv, PlainInv, NEW type, NEW of, NEW note, NEW fields,
         type \notin Closers \cup {"status"}, Delta(Publish(type, of, note, fields))
  PROVE  PlainInv'
<1> DEFINE x == Publish(type, of, note, fields)
           s == <<x>>
<1>1. /\ Begin("loop", s) /\ pc \in {"top", "stream"} /\ pc' \in {"stream", "over"} /\ pc' = "stream"
      /\ UNCHANGED <<task, tool, approval, pend, memory, views>>
  BY DEF Delta
<1>2. x.op = "publish" /\ x.event.type = type
  BY PublishIs
<1>. HIDE DEF x
<1>3. Begins(<<x>>) /\ Items(<<x>>) \subseteq {x}
  BY <1>2, BeginsOne DEF StatusFrame
<1>4. \A y \in Items(s) : LoopDoes(y)'
  BY <1>1, <1>2, <1>3 DEF LoopDoes, Failing, Closing
<1>. HIDE DEF s
<1>. QED BY <1>1, <1>3, <1>4, LoopPlain DEF s

LEMMA CompletePlain == CSInv /\ PlainInv /\ CompleteTask => PlainInv'
<1> SUFFICES ASSUME CSInv, PlainInv, CompleteTask PROVE PlainInv'
  OBVIOUS
<1> DEFINE a == Write("completed")
           b == Publish("message.completed", "text", "", {})
           c == Publish("task.completed", "text", "", {})
           s == <<a, b, c>>
<1>1. a.op = "write" /\ a.event.type = "completed"
  BY WriteIs
<1>2. b.op = "publish" /\ b.event.type = "message.completed"
  BY DEF Publish, Do, Event
<1>3. c.op = "publish" /\ c.event.type = "task.completed" /\ c.event.note = ""
  BY DEF Publish, Do, Event
<1>4. /\ Begin("loop", s) /\ pc \in {"top", "stream"} /\ pc' \in {"stream", "over"} /\ pc' = "over"
      /\ UNCHANGED <<task, tool, approval, pend, memory, views>>
  BY DEF CompleteTask
<1>. HIDE DEF a, b, c
<1>5. IsSeq(s) /\ Items(s) \subseteq {a, b, c}
  BY Items3
<1>6. Len(s) = 3 /\ s[1] = a /\ s[2] = b /\ s[3] = c
  OBVIOUS
<1>. HIDE DEF s
<1>7. WritesFirst(s)
  <2> SUFFICES ASSUME NEW i \in 1 .. 3, NEW j \in 1 .. 3, s[i].op = "write", Closing(s[j]) PROVE i < j
    BY <1>6 DEF WritesFirst
  <2>0. i = 1 \/ i = 2 \/ i = 3
    OBVIOUS
  <2>1. s[2].op # "write" /\ s[3].op # "write"
    BY <1>2, <1>3, <1>6
  <2>3. i = 1
    BY <2>0, <2>1
  <2>2. j # 1
    BY <1>1, <1>6 DEF Closing
  <2>. QED BY <2>2, <2>3
<1>8. EndsWith(c, "completed") /\ c \in Items(s)
  <2>1. EndsWith(c, "completed")
    BY <1>3 DEF EndsWith, EndOf
  <2>2. 3 \in 1 .. Len(s) /\ s[3] = c
    BY <1>6
  <2>. QED BY <2>1, <2>2 DEF Items
<1>9. Begins(s)
  BY <1>1, <1>2, <1>3, <1>5, <1>7, <1>8 DEF Begins, StatusFrame
<1>10. \A x \in Items(s) : LoopDoes(x)'
  BY <1>1, <1>2, <1>3, <1>4, <1>5 DEF LoopDoes, Closes, StatusItem, Closers, TaskEnds
<1>. QED BY <1>4, <1>9, <1>10, LoopPlain

\* The end of a task that failed.
LEMMA FailureBegins ==
  /\ Begins(Failure)
  /\ \A x \in Items(Failure) : Closes(x) /\ x.op # "resume"
<1> DEFINE a == ClosePending("failure")
           b == Write("failed")
           c == Publish("message.failed", "text", "", {})
           d == Publish("task.failed", "text", "", {})
           s == <<a, b, c, d>>
<1>1. a.op = "close"
  BY CloseIs
<1>2. b.op = "write" /\ b.event.type = "failed"
  BY WriteIs
<1>3. c.op = "publish" /\ c.event.type = "message.failed"
  BY DEF Publish, Do, Event
<1>4. d.op = "publish" /\ d.event.type = "task.failed" /\ d.event.note = ""
  BY DEF Publish, Do, Event
<1>5. Failure = s
  BY DEF Failure
<1>. HIDE DEF a, b, c, d
<1>6. IsSeq(s) /\ Items(s) \subseteq {a, b, c, d}
  BY Items4
<1>7. Len(s) = 4 /\ s[1] = a /\ s[2] = b /\ s[3] = c /\ s[4] = d
  OBVIOUS
<1>. HIDE DEF s
<1>8. WritesFirst(s)
  <2> SUFFICES ASSUME NEW i \in 1 .. 4, NEW j \in 1 .. 4, s[i].op = "write", Closing(s[j]) PROVE i < j
    BY <1>7 DEF WritesFirst
  <2>0. i = 1 \/ i = 2 \/ i = 3 \/ i = 4
    OBVIOUS
  <2>1. s[1].op # "write" /\ s[3].op # "write" /\ s[4].op # "write"
    BY <1>1, <1>3, <1>4, <1>7
  <2>3. i = 2
    BY <2>0, <2>1
  <2>2. j # 1 /\ j # 2
    BY <1>1, <1>2, <1>7 DEF Closing
  <2>. QED BY <2>2, <2>3
<1>9. EndsWith(d, "failed") /\ d \in Items(s)
  <2>1. EndsWith(d, "failed")
    BY <1>4 DEF EndsWith, EndOf
  <2>2. 4 \in 1 .. Len(s) /\ s[4] = d
    BY <1>7
  <2>. QED BY <2>1, <2>2 DEF Items
<1>10. Begins(s)
  BY <1>1, <1>2, <1>3, <1>4, <1>6, <1>8, <1>9 DEF Begins, StatusFrame
<1>11. \A x \in Items(s) : Closes(x) /\ x.op # "resume"
  BY <1>1, <1>2, <1>3, <1>4, <1>6 DEF Closes, StatusItem, Closers, TaskEnds
<1>. QED BY <1>5, <1>10, <1>11

LEMMA FailPlain == CSInv /\ PlainInv /\ FailTask => PlainInv'
<1> SUFFICES ASSUME CSInv, PlainInv, FailTask PROVE PlainInv'
  OBVIOUS
<1>1. /\ Begin("loop", Failure) /\ pc \in {"top", "stream"} /\ pc' \in {"stream", "over"} /\ pc' = "over"
      /\ UNCHANGED <<task, tool, approval, pend, memory, views>>
  BY DEF FailTask
<1>2. Begins(Failure) /\ \A x \in Items(Failure) : LoopDoes(x)'
  BY <1>1, FailureBegins DEF LoopDoes
<1>. QED BY <1>1, <1>2, LoopPlain

-----------------------------------------------------------------------------
(* The tools, in such a run.                                               *)

\* The calls that run together: one alone, or calls that may run side by side.
LEMMA CalledTogether ==
  ASSUME NEW ts \in SUBSET Tools, ts \subseteq Parallel \/ Cardinality(ts) = 1, NEW t \in Gated, t \in ts
  PROVE  ts = {t}
<1>1. ~(ts \subseteq Parallel)
  BY ChatStreamAssumption
<1>2. IsFiniteSet(ts)
  BY ChatStreamAssumption, FS_Subset
<1>3. \E x : ts = {x}
  BY <1>1, <1>2, FS_Singleton
<1>. QED BY <1>3

\* The loop calls its tools, or goes on.
LEMMA CallPlain == ASSUME CSInv, PlainInv, NEW ts \in SUBSET Tools, CallTools(ts) PROVE PlainInv'
<1>1. /\ UNCHANGED <<work, memory, views>> /\ task' = task /\ approval' = approval /\ pend' = pend /\ work' = work
      /\ work["loop"] = << >> /\ pc = "stream" /\ pc' = "tools" /\ (\A t \in ts : tool[t] = "idle")
      /\ (ts \subseteq Parallel \/ Cardinality(ts) = 1)
      /\ tool' = [t \in Tools |-> IF t \in ts THEN "ready" ELSE tool[t]]
  BY DEF CallTools, Idle
<1>2. StatusOK' /\ EndsIdle'
  BY <1>1, UnworkedEnds
<1>3. Alone /\ Does /\ Asking /\ task \notin Ended
  BY <1>1, NotEnded DEF PlainInv
<1>4. \A t \in Tools : Active(t)' => t \in ts
  BY <1>1, <1>3 DEF Alone, Active
<1>5. ASSUME NEW t \in Gated, Active(t)' PROVE \A u \in Tools \ {t} : ~Active(u)'
  <2>1. ts = {t}
    BY <1>1, <1>4, <1>5, GatedAre, CalledTogether
  <2>. QED BY <1>4, <2>1
<1>6. Alone'
  BY <1>1, <1>5 DEF Alone
<1>7. Does'
  <2>1. \A t \in Tools : \A x \in Items(work'[t]) : ToolDoes(t, x)
    BY <1>1, <1>3 DEF Does
  <2>2. \A x \in Items(work'["rpc"]) : RequestDoes(x)'
    BY <1>1, <1>3 DEF Does, RequestDoes
  <2>3. Items(work'["loop"]) = {}
    BY <1>1, NoItems
  <2>. QED BY <2>1, <2>2, <2>3 DEF Does
<1>8. Asking'
  <2>1. \A x \in Items(work["rpc"]) : x.op # "resume"
    BY <1>1 DEF CSInv, Phases
  <2>2. \A t \in Gated : approval'[t] = "pending" => tool'[t] = "asked"
    BY <1>1, <1>3, GatedAre DEF Asking
  <2>3. \A x \in Items(work'["rpc"]) : Failing(x) => \A t \in Gated : approval'[t] # "pending"
    BY <1>1, <1>3 DEF Asking
  <2>. QED BY <1>1, <1>3, <2>1, <2>2, <2>3 DEF Asking
<1>. QED BY <1>2, <1>6, <1>7, <1>8 DEF PlainInv

LEMMA StopPlain == CSInv /\ PlainInv /\ LoopStops => PlainInv'
<1> SUFFICES ASSUME CSInv, PlainInv, LoopStops PROVE PlainInv'
  OBVIOUS
<1>. QED BY NotEnded DEF LoopStops

LEMMA NextStepPlain == CSInv /\ PlainInv /\ NextStep => PlainInv'
<1> SUFFICES ASSUME CSInv, PlainInv, NextStep PROVE PlainInv'
  OBVIOUS
<1>1. /\ UNCHANGED <<work, memory, views>> /\ task' = task /\ approval' = approval /\ pend' = pend /\ work' = work
      /\ tool' = tool /\ pc = "tools" /\ pc' = "top"
      /\ \A t \in Tools : tool[t] \in {"idle", "done"} /\ work[t] = << >>
  BY DEF NextStep, Idle
<1>2. StatusOK' /\ EndsIdle'
  BY <1>1, UnworkedEnds
<1>3. Alone /\ Does /\ Asking /\ task \notin Ended
  BY <1>1, NotEnded DEF PlainInv
<1>4. Alone'
  BY <1>1, GatedAre DEF Alone, Active
<1>5. Does'
  <2>1. \A t \in Tools : \A x \in Items(work'[t]) : ToolDoes(t, x)
    BY <1>1, <1>3 DEF Does
  <2>2. \A x \in Items(work'["rpc"]) : RequestDoes(x)'
    BY <1>1, <1>3 DEF Does, RequestDoes
  <2>3. Items(work'["loop"]) = {}
    BY <1>1, <1>3, NoItems DEF Alone
  <2>. QED BY <2>1, <2>2, <2>3 DEF Does
<1>6. Asking'
  <2>1. \A x \in Items(work["rpc"]) : x.op # "resume"
    BY <1>1 DEF CSInv, Phases
  <2>2. \A t \in Gated : approval'[t] # "pending"
    <3> SUFFICES ASSUME NEW t \in Gated, approval[t] = "pending" PROVE FALSE
      BY <1>1
    <3>1. tool[t] \in {"asked", "waiting"}
      BY <1>3 DEF Asking
    <3>. QED BY <1>1, <3>1, GatedAre
  <2>. QED BY <1>1, <1>3, <2>1, <2>2 DEF Asking
<1>. QED BY <1>2, <1>4, <1>5, <1>6 DEF PlainInv

\* A call that runs: the loop is at its tools.
LEMMA RunsAtTools ==
  ASSUME PlainInv, NEW t \in Tools, tool[t] \notin {"idle", "done", "waiting"}
  PROVE  /\ pc = "tools" /\ Active(t)
         /\ \A x \in Items(work["rpc"]) : Early(x)
<1>1. Active(t) /\ Alone /\ Does
  BY DEF Active, PlainInv
<1>2. pc = "tools"
  BY <1>1 DEF Alone
<1>. QED BY <1>1, <1>2 DEF Does, RequestDoes

\* A tool begins.
LEMMA ToolPlain ==
  ASSUME CSInv, PlainInv, NEW t \in Tools, NEW s, Begins(s), \A x \in Items(s) : ToolDoes(t, x), Begin(t, s), s # << >>,
         tool[t] \notin {"idle", "done", "waiting"}, NEW r, tool' = [tool EXCEPT ![t] = r],
         UNCHANGED <<task, pc, pend, memory, views>>,
         approval' = approval \/ (t \in Gated /\ approval' = [approval EXCEPT ![t] = "pending"] /\ r = "asked"),
         tool[t] # "asked" \/ approval[t] # "pending" \/ r = "asked"
  PROVE  PlainInv'
<1>1. pc = "tools" /\ Active(t) /\ (\A x \in Items(work["rpc"]) : Early(x)) /\ Alone /\ Does /\ Asking
  BY RunsAtTools DEF PlainInv
<1>2. /\ StatusOK' /\ EndsIdle' /\ work'[t] = s /\ \A q \in Threads : q # t => work'[q] = work[q]
  BY ThreadsAre, BegunEnds
<1>3. /\ work'["rpc"] = work["rpc"] /\ work'["loop"] = work["loop"]
      /\ \A u \in Tools : u # t => work'[u] = work[u] /\ tool'[u] = tool[u]
      /\ tool'[t] = r
  BY <1>2, ThreadsAre DEF CSInv, Phases
<1>4. \A u \in Tools : Active(u)' => Active(u)
  <2> SUFFICES ASSUME NEW u \in Tools, Active(u)' PROVE Active(u)
    OBVIOUS
  <2>1. CASE u = t
    BY <1>1, <2>1
  <2>2. CASE u # t
    BY <1>3, <2>2 DEF Active
  <2>. QED BY <2>1, <2>2
<1>5. Alone'
  <2>1. \A u \in Gated : Active(u)' => \A v \in Tools \ {u} : ~Active(v)'
    BY <1>1, <1>4, GatedAre DEF Alone
  <2>. QED BY <1>1, <1>3, <2>1 DEF Alone
<1>6. Does'
  <2>1. \A u \in Tools : \A x \in Items(work'[u]) : ToolDoes(u, x)
    BY <1>1, <1>2, <1>3 DEF Does
  <2>2. \A x \in Items(work'["rpc"]) : RequestDoes(x)'
    BY <1>1, <1>3 DEF Does, RequestDoes
  <2>3. \A x \in Items(work'["loop"]) : LoopDoes(x)'
    BY <1>1, <1>3 DEF Does, LoopDoes
  <2>. QED BY <2>1, <2>2, <2>3 DEF Does
<1>7. Asking'
  <2>1. \A x \in Items(work'["rpc"]) : ~Failing(x) /\ x.op # "resume"
    BY <1>1, <1>3 DEF Early, Failing
  <2>2. ASSUME NEW u \in Gated, approval'[u] = "pending" PROVE tool'[u] = "asked"
    <3>0. u \in Tools /\ approval = [c \in Cards |-> approval[c]] /\ u \in Cards
      BY GatedAre DEF CSInv, Phases, Cards
    <3>1. CASE u # t
      <4>1. approval[u] = "pending"
        BY <2>2, <3>0, <3>1
      <4>2. tool[u] = "asked"
        BY <1>1, <4>1 DEF Asking
      <4>. QED BY <1>3, <3>0, <3>1, <4>2
    <3>2. CASE u = t /\ r = "asked"
      BY <1>3, <3>2
    <3>3. CASE u = t /\ r # "asked"
      <4>1. approval[t] = "pending"
        BY <2>2, <3>3
      <4>2. tool[t] = "asked"
        BY <1>1, <3>3, <4>1 DEF Asking
      <4>. QED BY <3>3, <4>1, <4>2
    <3>. QED BY <3>1, <3>2, <3>3
  <2>3. task \notin Ended
    BY <1>1, NotEnded
  <2>. QED BY <2>1, <2>2, <2>3 DEF Asking
<1>. QED BY <1>2, <1>5, <1>6, <1>7 DEF PlainInv

\* A call publishes an event of its life.
LEMMA ToolPublishes ==
  ASSUME CSInv, PlainInv, NEW t \in Tools, NEW type \in ToolEvents, NEW of, NEW note, NEW fields,
         Begin(t, <<Publish(type, of, note, fields)>>),
         tool[t] \notin {"idle", "done", "waiting", "asked"}, NEW r, tool' = [tool EXCEPT ![t] = r],
         UNCHANGED <<task, pc, approval, pend, memory, views>>
  PROVE  PlainInv'
<1> DEFINE x == Publish(type, of, note, fields)
           s == <<x>>
<1>1. Begin(t, s)
  OBVIOUS
<1>2. x.op = "publish" /\ x.event.type = type
  BY PublishIs
<1>. HIDE DEF x
<1>3. Begins(<<x>>) /\ Items(<<x>>) \subseteq {x}
  BY <1>2, BeginsOne DEF StatusFrame
<1>4. \A y \in Items(s) : ToolDoes(t, y)
  BY <1>2, <1>3 DEF ToolDoes, StatusItem, ToolEvents
<1>5. s # << >> /\ approval' = approval
  OBVIOUS
<1>. HIDE DEF s
<1>. QED BY <1>1, <1>3, <1>4, <1>5, ToolPlain DEF s

\* The steps of a tool, one by one.
LEMMA StartPlain == ASSUME CSInv, PlainInv, NEW t \in Tools, StartTool(t) PROVE PlainInv'
<1> DEFINE none == ""
<1>1. /\ Begin(t, <<Publish("tool.started", t, none, {"plain", "extra", "body", "internal"})>>)
      /\ tool[t] \notin {"idle", "done", "waiting", "asked"} /\ tool' = [tool EXCEPT ![t] = "running"]
      /\ UNCHANGED <<task, pc, approval, pend, memory, views>>
  BY DEF StartTool
<1>2. "tool.started" \in ToolEvents
  BY DEF ToolEvents
<1>. HIDE DEF none
<1>. QED BY <1>1, <1>2, ToolPublishes

LEMMA OutputPlain == ASSUME CSInv, PlainInv, NEW t \in Tools, ToolOutput(t) PROVE PlainInv'
<1>1. /\ tool[t] \notin {"idle", "done", "waiting", "asked"}
      /\ UNCHANGED <<task, pc, approval, pend, memory, views>>
  BY DEF ToolOutput, Executes
<1>2. PICK x \in {"plain", "internal"} :
         \/ /\ Begin(t, <<Publish("tool.progress", t, "activity", PublicText(x))>>)
            /\ tool' = [tool EXCEPT ![t] = "told"]
         \/ /\ Begin(t, <<Publish("tool.output", t, "result_preview", PublicText(x))>>)
            /\ tool' = [tool EXCEPT ![t] = "streamed"]
         \/ /\ Begin(t, <<Publish("command.output", t, "stdout", PublicText(x))>>)
            /\ tool' = [tool EXCEPT ![t] = "told"]
  BY DEF ToolOutput
<1> DEFINE f == PublicText(x)
<1>3. \/ /\ Begin(t, <<Publish("tool.progress", t, "activity", f)>>)
         /\ tool' = [tool EXCEPT ![t] = "told"]
      \/ /\ Begin(t, <<Publish("tool.output", t, "result_preview", f)>>)
         /\ tool' = [tool EXCEPT ![t] = "streamed"]
      \/ /\ Begin(t, <<Publish("command.output", t, "stdout", f)>>)
         /\ tool' = [tool EXCEPT ![t] = "told"]
  BY <1>2
<1>. HIDE DEF f
<1>4. "tool.progress" \in ToolEvents /\ "tool.output" \in ToolEvents /\ "command.output" \in ToolEvents
  BY DEF ToolEvents
<1>5. CASE Begin(t, <<Publish("tool.progress", t, "activity", f)>>) /\ tool' = [tool EXCEPT ![t] = "told"]
  BY <1>1, <1>4, <1>5, ToolPublishes
<1>6. CASE Begin(t, <<Publish("tool.output", t, "result_preview", f)>>) /\ tool' = [tool EXCEPT ![t] = "streamed"]
  BY <1>1, <1>4, <1>6, ToolPublishes
<1>7. CASE Begin(t, <<Publish("command.output", t, "stdout", f)>>) /\ tool' = [tool EXCEPT ![t] = "told"]
  BY <1>1, <1>4, <1>7, ToolPublishes
<1>. QED BY <1>3, <1>5, <1>6, <1>7

LEMMA EndPlain == ASSUME CSInv, PlainInv, NEW t \in Tools, EndTool(t) PROVE PlainInv'
<1> DEFINE note == IF tool[t] = "streamed" THEN "streamed" ELSE ""
<1>1. /\ tool[t] \notin {"idle", "done", "waiting", "asked"} /\ tool' = [tool EXCEPT ![t] = "done"]
      /\ UNCHANGED <<task, pc, approval, pend, memory, views>>
  BY DEF EndTool, Executes
<1>2. PICK type \in {"tool.completed", "tool.failed", "tool.blocked"} :
        Begin(t, <<Publish(type, t, note, {"plain", "body", "internal"})>>)
  BY DEF EndTool
<1>3. type \in ToolEvents
  BY DEF ToolEvents
<1>. HIDE DEF note
<1>. QED BY <1>1, <1>2, <1>3, ToolPublishes

LEMMA AskPlain == ASSUME CSInv, PlainInv, NEW t \in Tools, AskApproval(t) PROVE PlainInv'
<1> DEFINE a == Write("waiting_approval")
           b == Publish("approval.requested", t, "", {"plain", "body", "diff", "internal"})
           s == <<a, b>>
<1>1. a.op = "write" /\ a.event.type = "waiting_approval"
  BY WriteIs
<1>2. b.op = "publish" /\ b.event.type = "approval.requested"
  BY DEF Publish, Do, Event
<1>3. /\ Begin(t, s) /\ tool[t] = "running" /\ t \in Gated
      /\ approval' = [approval EXCEPT ![t] = "pending"] /\ tool' = [tool EXCEPT ![t] = "asked"]
      /\ UNCHANGED <<task, pc, pend, memory, views>> /\ s # << >>
  BY DEF AskApproval
<1>. HIDE DEF a, b
<1>4. Begins(<<a, b>>) /\ Items(<<a, b>>) \subseteq {a, b}
  BY <1>1, <1>2, BeginsTwo DEF StatusFrame, Closing
<1>5. \A x \in Items(s) : ToolDoes(t, x)
  BY <1>1, <1>2, <1>3, <1>4 DEF ToolDoes, StatusItem
<1>6. tool[t] \notin {"idle", "done", "waiting"} /\ tool[t] # "asked"
  BY <1>3
<1>7. Begins(s)
  BY <1>4
<1>. HIDE DEF s
<1>. QED BY <1>3, <1>5, <1>6, <1>7, ToolPlain

\* The loop waits for a decision.
LEMMA SavePlain == ASSUME CSInv, PlainInv, NEW t \in Tools, SavePending(t) PROVE PlainInv'
<1>1. /\ tool[t] = "asked" /\ pc = "tools" /\ pend' = t /\ pc' = "waiting" /\ work[t] = << >>
      /\ tool' = [tool EXCEPT ![t] = "waiting"] /\ approval' = approval /\ work' = work /\ task' = task
      /\ UNCHANGED <<work, memory, views>>
  BY DEF SavePending, Idle
<1>2. StatusOK' /\ EndsIdle'
  BY <1>1, UnworkedEnds
<1>3. t \in Gated /\ Active(t) /\ Alone /\ Does /\ Asking /\ task \notin Ended
  BY <1>1, NotEnded DEF CSInv, Phases, PlainInv, Active
<1>4. \A u \in Tools \ {t} : tool[u] \in {"idle", "done"} /\ work[u] = << >>
  BY <1>3 DEF Alone, Active
<1>5. tool'[t] = "waiting" /\ \A u \in Tools \ {t} : tool'[u] = tool[u]
  BY <1>1 DEF CSInv, Phases
<1>6. \A x \in Items(work["rpc"]) : Early(x)
  BY <1>1, <1>3 DEF Does, RequestDoes
<1>7. Alone'
  <2>1. \A u \in Tools : work'[u] = << >> /\ tool'[u] \in {"idle", "done", "waiting"}
    BY <1>1, <1>4, <1>5
  <2>2. \A u \in Gated : Active(u)' => u = t
    BY <1>1, <1>4, <1>5, GatedAre DEF Active
  <2>3. \A u \in Tools \ {t} : ~Active(u)'
    BY <1>1, <1>4, <1>5 DEF Active
  <2>. QED BY <1>1, <1>3, <2>1, <2>2, <2>3 DEF Alone
<1>8. Does'
  <2>1. \A u \in Tools : \A x \in Items(work'[u]) : ToolDoes(u, x)
    BY <1>1, <1>3 DEF Does
  <2>2. \A x \in Items(work'["rpc"]) : RequestDoes(x)'
    BY <1>1, <1>3 DEF Does, RequestDoes
  <2>3. Items(work'["loop"]) = {}
    BY <1>1, <1>3, NoItems DEF Alone
  <2>. QED BY <2>1, <2>2, <2>3 DEF Does
<1>9. Asking'
  <2>1. \A x \in Items(work'["rpc"]) : ~Failing(x) /\ x.op # "resume"
    BY <1>1, <1>6 DEF Early, Failing
  <2>2. ASSUME NEW u \in Gated, approval'[u] = "pending" PROVE u = t
    <3>1. tool[u] \in {"asked", "waiting"}
      BY <1>1, <1>3, <2>2 DEF Asking
    <3>. QED BY <1>4, <3>1, GatedAre
  <2>. QED BY <1>1, <1>3, <1>5, <2>1, <2>2 DEF Asking
<1>. QED BY <1>2, <1>7, <1>8, <1>9 DEF PlainInv

-----------------------------------------------------------------------------
(* The decisions, in such a run.                                           *)

\* What comes first is no write, status or end: the rest begins as before.
LEMMA BeginsJoined ==
  ASSUME NEW s, IsSeq(s), \A x \in Items(s) : x.op # "write" /\ ~Closing(x) /\ ~StatusFrame(x),
         NEW t, Begins(t)
  PROVE  Begins(s \o t) /\ Items(s \o t) \subseteq Items(s) \cup Items(t)
<1> DEFINE S == Items(s) \cup Items(t)
           n == Len(s)
           m == Len(t)
           u == s \o t
<1>1. s \in Seq(S) /\ t \in Seq(S) /\ IsSeq(t) /\ WritesFirst(t)
  BY DEF IsSeq, Begins
<1>2. n \in Nat /\ m \in Nat
  BY <1>1
<1>3. Len(u) = n + m /\ \A i \in 1 .. (n + m) : u[i] = IF i <= n THEN s[i] ELSE t[i - n]
  BY <1>1, ConcatProperties
<1>4. IsSeq(u) /\ Items(u) \subseteq Items(s) \cup Items(t) /\ Items(t) \subseteq Items(u)
  BY <1>1, ItemsJoined, JoinedItems
<1>. HIDE DEF u
<1>5. \A i \in 1 .. n : s[i].op # "write" /\ ~Closing(s[i])
  BY DEF Items
<1>6. \A i, j \in 1 .. m : t[i].op = "write" /\ Closing(t[j]) => i < j
  BY <1>1 DEF WritesFirst
<1>. HIDE DEF n, m
<1>7. WritesFirst(u)
  <2> SUFFICES ASSUME NEW i \in 1 .. (n + m), NEW j \in 1 .. (n + m), u[i].op = "write", Closing(u[j]) PROVE i < j
    BY <1>3 DEF WritesFirst
  <2>1. i > n
    <3>1. ASSUME i <= n PROVE FALSE
      <4>1. i \in 1 .. n /\ u[i] = s[i]
        BY <1>2, <1>3, <3>1
      <4>. QED BY <1>5, <4>1
    <3>. QED BY <1>2, <3>1
  <2>2. j > n
    <3>1. ASSUME j <= n PROVE FALSE
      <4>1. j \in 1 .. n /\ u[j] = s[j]
        BY <1>2, <1>3, <3>1
      <4>. QED BY <1>5, <4>1
    <3>. QED BY <1>2, <3>1
  <2>3. i - n \in 1 .. m /\ j - n \in 1 .. m
    BY <1>2, <2>1, <2>2
  <2>4. u[i] = t[i - n] /\ u[j] = t[j - n]
    BY <1>2, <1>3, <2>1, <2>2
  <2>5. i - n < j - n
    BY <1>6, <2>3, <2>4
  <2>. QED BY <1>2, <2>5
<1>8. ASSUME NEW x \in Items(u)
      PROVE  /\ ~StatusFrame(x)
             /\ x.op = "write" /\ x.event.type \in {"completed", "failed"} =>
                  \E y \in Items(u) : EndsWith(y, x.event.type)
  <2>1. CASE x \in Items(s)
    BY <2>1
  <2>2. CASE x \in Items(t)
    BY <1>4, <2>2 DEF Begins
  <2>. QED BY <1>4, <2>1, <2>2
<1>9. Begins(u)
  BY <1>4, <1>7, <1>8 DEF Begins
<1>. QED BY <1>4, <1>9 DEF u

\* A request begins.
LEMMA RequestPlain ==
  ASSUME CSInv, PlainInv, NEW s, Begins(s), Begin("rpc", s),
         UNCHANGED <<pc, tool, pend, memory, views>>,
         task' = task \/ task' = "running",
         \A x \in Items(s) : RequestDoes(x),
         \A t \in Gated : approval'[t] = "pending" => approval[t] = "pending",
         \A x \in Items(s) : Failing(x) => \A t \in Gated : approval'[t] # "pending",
         \A x \in Items(s) : x.op = "resume" =>
           /\ task' \notin Ended /\ x.event.of \in Gated /\ tool[x.event.of] = "waiting"
           /\ \A y \in Items(s) : ~Failing(y)
  PROVE  PlainInv'
<1>0. "rpc" \in Threads /\ task' \in Ended => task \in Ended
  BY DEF Ended
<1>1. /\ StatusOK' /\ EndsIdle' /\ work'["rpc"] = s
      /\ \A q \in Threads : q # "rpc" => work'[q] = work[q]
  <2>1. "rpc" \in Threads
    BY ThreadsAre
  <2>2. task' = task \/ task' \notin {"completed", "failed"}
    OBVIOUS
  <2>. QED BY <2>1, <2>2, BegunEnds
<1>2. work'["loop"] = work["loop"] /\ \A t \in Tools : work'[t] = work[t]
  BY <1>1, ThreadsAre
<1>3. Alone /\ Does /\ Asking
  BY DEF PlainInv
<1>4. Alone'
  BY <1>2, <1>3, GatedAre DEF Alone, Active
<1>5. Does'
  <2>1. \A t \in Tools : \A x \in Items(work'[t]) : ToolDoes(t, x)
    BY <1>2, <1>3 DEF Does
  <2>2. \A x \in Items(work'["rpc"]) : RequestDoes(x)'
    BY <1>1 DEF RequestDoes
  <2>3. \A x \in Items(work'["loop"]) : LoopDoes(x)'
    BY <1>2, <1>3 DEF Does, LoopDoes
  <2>. QED BY <2>1, <2>2, <2>3 DEF Does
<1>6. Asking'
  <2>1. \A t \in Gated : approval'[t] = "pending" =>
          tool'[t] = "asked" \/ (tool'[t] = "waiting" /\ pend' = t /\ pc' = "waiting")
    BY <1>3 DEF Asking
  <2>2. task' \in Ended => pc' \in {"waiting", "over"}
    BY <1>3 DEF Asking, Ended
  <2>. QED BY <1>1, <2>1, <2>2 DEF Asking
<1>. QED BY <1>1, <1>4, <1>5, <1>6 DEF PlainInv

LEMMA ResolvedIs ==
  ASSUME NEW c, NEW note
  PROVE  /\ Resolved(c, note).op = "publish" /\ Resolved(c, note).event.type = "approval.resolved"
         /\ Resolved(c, note).event.note = note
BY PublishIs DEF Resolved

\* A decision that is only recorded.
LEMMA RecordPlain ==
  ASSUME CSInv, PlainInv, NEW t \in Gated, NEW d \in {"approved", "rejected"}, Decide(t, d), NEW note,
         Begin("rpc", <<Resolved(t, note)>>), UNCHANGED <<task, pc, tool, pend>>,
         note = "early" \/ pc = "waiting"
  PROVE  PlainInv'
<1> DEFINE x == Resolved(t, note)
           s == <<x>>
<1>1. x.op = "publish" /\ x.event.type = "approval.resolved" /\ x.event.note = note
  BY ResolvedIs
<1>2. Begin("rpc", s)
  OBVIOUS
<1>3. /\ UNCHANGED <<pc, tool, pend, memory, views>> /\ approval' = [approval EXCEPT ![t] = d]
      /\ task' = task
  BY DEF Decide
<1>4. \A u \in Gated : approval'[u] = "pending" => approval[u] = "pending"
  BY <1>3 DEF CSInv, Phases, Cards
<1>. HIDE DEF x
<1>5. Begins(<<x>>) /\ Items(<<x>>) \subseteq {x}
  BY <1>1, BeginsOne DEF StatusFrame
<1>6. \A y \in Items(s) : RequestDoes(y) /\ ~Failing(y) /\ y.op # "resume"
  BY <1>1, <1>5 DEF RequestDoes, Closes, Early, StatusItem, Failing
<1>7. Begins(s)
  BY <1>5
<1>. HIDE DEF s
<1>. QED BY <1>2, <1>3, <1>4, <1>6, <1>7, RequestPlain

LEMMA DecideEndedPlain ==
  ASSUME CSInv, PlainInv, NEW t \in Gated, NEW d \in {"approved", "rejected"}, DecideEnded(t, d)
  PROVE  PlainInv'
<1>1. /\ task \in Ended /\ Decide(t, d) /\ Begin("rpc", <<Resolved(t, "ignored")>>)
      /\ UNCHANGED <<task, pc, tool, pend>> /\ approval[t] = "pending"
  BY DEF DecideEnded, Decide
<1>2. pc = "waiting"
  <2>1. pc \in {"waiting", "over"} /\ (tool[t] = "asked" \/ pc = "waiting")
    BY <1>1 DEF PlainInv, Asking
  <2>2. tool[t] = "asked" => pc \in {"tools", "waiting"}
    BY GatedAre DEF PlainInv, Alone, Active
  <2>. QED BY <2>1, <2>2
<1>. QED BY <1>1, <1>2, RecordPlain

LEMMA DecideEarlyPlain ==
  ASSUME CSInv, PlainInv, NEW t \in Gated, NEW d \in {"approved", "rejected"}, DecideEarly(t, d)
  PROVE  PlainInv'
<1>1. /\ Decide(t, d) /\ Begin("rpc", <<Resolved(t, "early")>>) /\ UNCHANGED <<task, pc, tool, pend>>
  BY DEF DecideEarly
<1>. QED BY <1>1, RecordPlain

\* The call that waits has a decision: no other call has one pending.
LEMMA DecidedWaits ==
  ASSUME CSInv, PlainInv, NEW t \in Gated, NEW d \in {"approved", "rejected"}, Decide(t, d), pend = t
  PROVE  /\ pc = "waiting" /\ tool[t] = "waiting"
         /\ \A u \in Gated : approval'[u] # "pending"
<1>1. approval[t] = "pending" /\ approval' = [approval EXCEPT ![t] = d] /\ t # "none"
  BY ChatStreamAssumption DEF Decide
<1>2. pc = "waiting"
  BY <1>1 DEF CSInv, Phases
<1>3. \A u \in Gated : approval[u] = "pending" => u = t /\ tool[u] = "waiting"
  BY <1>2, GatedAre DEF PlainInv, Alone, Asking
<1>4. \A u \in Gated : approval'[u] # "pending"
  BY <1>1, <1>3 DEF CSInv, Phases, Cards
<1>. QED BY <1>1, <1>2, <1>3, <1>4

LEMMA ApprovePlain == ASSUME CSInv, PlainInv, NEW t \in Gated, Approve(t) PROVE PlainInv'
<1> DEFINE a == Resolved(t, "")
           b == Do("resume", Event("resume", t, "", {}))
           s == <<a, b>>
<1>1. a.op = "publish" /\ a.event.type = "approval.resolved" /\ a.event.note = ""
  BY DEF Resolved, Publish, Do, Event
<1>2. b.op = "resume" /\ b.event.of = t /\ b.event.type = "resume"
  BY DEF Do, Event
<1>3. /\ Begin("rpc", s) /\ Decide(t, "approved") /\ pend = t /\ task' = "running"
      /\ UNCHANGED <<pc, tool, pend, memory, views>>
  BY DEF Approve, Decide
<1>4. pc = "waiting" /\ tool[t] = "waiting" /\ \A u \in Gated : approval'[u] # "pending"
  BY <1>3, DecidedWaits
<1>. HIDE DEF a, b
<1>5. Begins(<<a, b>>) /\ Items(<<a, b>>) \subseteq {a, b}
  BY <1>1, <1>2, BeginsTwo DEF StatusFrame, Closing, Closers, TaskEnds
<1>6. \A x \in Items(s) : RequestDoes(x) /\ ~Failing(x)
  BY <1>1, <1>2, <1>4, <1>5 DEF RequestDoes, Closes, StatusItem, Failing
<1>7. \A x \in Items(s) : x.op = "resume" => x.event.of = t
  BY <1>1, <1>2, <1>5
<1>8. Begins(s) /\ "running" \notin Ended
  BY <1>5 DEF Ended
<1>. HIDE DEF s
<1>. QED BY <1>3, <1>4, <1>6, <1>7, <1>8, RequestPlain

LEMMA RejectPlain == ASSUME CSInv, PlainInv, NEW t \in Gated, Reject(t) PROVE PlainInv'
<1> DEFINE a == Resolved(t, "")
           b == ClosePending("rejection")
           r == <<a, b>>
           s == r \o Failure
<1>1. a.op = "publish" /\ a.event.type = "approval.resolved" /\ a.event.note = ""
  BY DEF Resolved, Publish, Do, Event
<1>2. b.op = "close"
  BY CloseIs
<1>3. /\ Begin("rpc", s) /\ Decide(t, "rejected") /\ pend = t /\ task' = task
      /\ UNCHANGED <<pc, tool, pend, memory, views>>
  BY DEF Reject, Decide
<1>4. pc = "waiting" /\ \A u \in Gated : approval'[u] # "pending"
  BY <1>3, DecidedWaits
<1>. HIDE DEF a, b
<1>5. IsSeq(r) /\ Items(r) \subseteq {a, b}
  BY Items2
<1>. HIDE DEF r
<1>6. \A x \in Items(r) : x.op # "write" /\ ~Closing(x) /\ ~StatusFrame(x) /\ Closes(x) /\ x.op # "resume"
  BY <1>1, <1>2, <1>5 DEF Closing, StatusFrame, Closes, StatusItem, Closers, TaskEnds
<1>7. Begins(s) /\ Items(s) \subseteq Items(r) \cup Items(Failure)
  BY <1>5, <1>6, FailureBegins, BeginsJoined
<1>8. \A x \in Items(s) : RequestDoes(x) /\ x.op # "resume"
  BY <1>4, <1>6, <1>7, FailureBegins DEF RequestDoes
<1>. HIDE DEF s
<1>. QED BY <1>3, <1>4, <1>7, <1>8, RequestPlain

-----------------------------------------------------------------------------
(* The end of the task settles the chat.                                   *)

\* The chat of a run without a merge request, a cancel or a restart.
IdleOK == crashes \in Nat /\ (Plain => PlainInv)

\* What made a run plain is not taken back.
PlainBefore == /\ crashes' \in Nat /\ (crashes' = 0 => crashes = 0)
               /\ NoCancel' => NoCancel
               /\ approval'["merge"] = "none" => approval["merge"] = "none"

\* Such a run was such a run before the step.
LEMMA StepBefore == ASSUME CSInv, crashes \in Nat, NEW p \in Threads, Step(p) PROVE PlainBefore
<1>1. /\ crashes' = crashes /\ approval' = approval
      /\ history' \in {history, history \cup {"cancel"}}
  BY GoodRun
<1>. QED BY <1>1 DEF PlainBefore, NoCancel

\* A step of the loop, of a call or of a decision.
LEMMA ActPlain ==
  ASSUME crashes \in Nat, crashes' = crashes, history \subseteq history',
         approval' = approval \/ (\E c \in Cards : \E v \in {"pending", "approved", "rejected"} :
                                     approval' = [approval EXCEPT ![c] = v]),
         CSInv
  PROVE  PlainBefore
<1>1. approval = [c \in Cards |-> approval[c]] /\ "merge" \in Cards
  BY DEF CSInv, Phases, Cards
<1>2. CASE approval' = approval
  BY <1>2 DEF PlainBefore, NoCancel
<1>3. ASSUME NEW c \in Cards, NEW v \in {"pending", "approved", "rejected"}, approval' = [approval EXCEPT ![c] = v]
      PROVE  PlainBefore
  <2>1. approval'["merge"] = "none" => approval["merge"] = "none"
    BY <1>1, <1>3
  <2>. QED BY <2>1 DEF PlainBefore, NoCancel
<1>. QED BY <1>2, <1>3

LEMMA DecideBefore ==
  ASSUME CSInv, crashes \in Nat, NEW c \in Cards, NEW d \in {"approved", "rejected"}, Decide(c, d), history \subseteq history'
  PROVE  PlainBefore
<1>1. crashes' = crashes /\ approval' = [approval EXCEPT ![c] = d]
  BY DEF Decide
<1>. QED BY <1>1, ActPlain

\* Every step of such a run.
LEMMA ActsPlain ==
  ASSUME CSInv, IdleOK, Acts
  PROVE  IdleOK'
<1> DEFINE Goal == PlainBefore /\ (PlainInv => PlainInv')
<1>0. crashes \in Nat
  BY DEF IdleOK
<1>1. ASSUME PlainBefore, PlainInv => PlainInv' PROVE IdleOK'
  BY <1>1 DEF IdleOK, PlainBefore, Plain
<1>2. CASE \E p \in Threads : Step(p)
  BY <1>0, <1>1, <1>2, StepBefore, StepPlain
<1>3. CASE Turn \/ Token \/ Thought \/ CompleteTask \/ FailTask \/ LoopStops \/ NextStep
  <2>1. crashes' = crashes /\ history' = history /\ approval' = approval
    BY <1>3 DEF Turn, Token, Thought, Delta, CompleteTask, FailTask, LoopStops, NextStep
  <2>2. PlainBefore
    BY <1>0, <2>1, ActPlain
  <2>3. ASSUME PlainInv PROVE PlainInv'
    <3> DEFINE none == ""
    <3>1. CASE Token
      <4>1. Delta(Publish("assistant.token", "text", none, {"plain"})) /\ "assistant.token" \notin Closers \cup {"status"}
        BY <3>1 DEF Token, Closers, TaskEnds
      <4>. HIDE DEF none
      <4>. QED BY <2>3, <4>1, DeltaPlain
    <3>2. CASE Thought
      <4>1. Delta(Publish("thinking", "text", none, {"plain"})) /\ "thinking" \notin Closers \cup {"status"}
        BY <3>2 DEF Thought, Closers, TaskEnds
      <4>. HIDE DEF none
      <4>. QED BY <2>3, <4>1, DeltaPlain
    <3>3. CASE Turn \/ CompleteTask \/ FailTask \/ LoopStops \/ NextStep
      BY <2>3, <3>3, TurnPlain, CompletePlain, FailPlain, StopPlain, NextStepPlain
    <3>. QED BY <1>3, <3>1, <3>2, <3>3
  <2>. QED BY <1>1, <2>2, <2>3
<1>4. ASSUME NEW ts \in SUBSET Tools, CallTools(ts) PROVE IdleOK'
  <2>1. crashes' = crashes /\ history' = history /\ approval' = approval
    BY <1>4 DEF CallTools
  <2>2. PlainBefore
    BY <1>0, <2>1, ActPlain
  <2>. QED BY <1>1, <1>4, <2>2, CallPlain
<1>5. ASSUME NEW t \in Tools, ToolInput(t) PROVE IdleOK'
  <2>1. Delta(Publish("content_delta", t, "input", {})) /\ "content_delta" \notin Closers \cup {"status"}
        /\ crashes' = crashes /\ history' = history /\ approval' = approval
    BY <1>5 DEF ToolInput, Delta, Closers, TaskEnds
  <2>2. PlainBefore
    BY <1>0, <2>1, ActPlain
  <2>3. PlainInv => PlainInv'
    BY <2>1, DeltaPlain
  <2>. QED BY <1>1, <2>2, <2>3
<1>6. ASSUME NEW t \in Tools, StartTool(t) \/ ToolOutput(t) \/ EndTool(t) \/ SavePending(t) PROVE IdleOK'
  <2>1. crashes' = crashes /\ history' = history /\ approval' = approval
    BY <1>6 DEF StartTool, ToolOutput, EndTool, SavePending
  <2>2. PlainBefore
    BY <1>0, <2>1, ActPlain
  <2>. QED BY <1>1, <1>6, <2>2, StartPlain, OutputPlain, EndPlain, SavePlain
<1>7. ASSUME NEW t \in Tools, AskApproval(t) PROVE IdleOK'
  <2>1. crashes' = crashes /\ history' = history /\ approval' = [approval EXCEPT ![t] = "pending"] /\ t \in Cards
    BY <1>7 DEF AskApproval, Cards
  <2>2. PlainBefore
    BY <1>0, <2>1, ActPlain
  <2>. QED BY <1>1, <1>7, <2>2, AskPlain
<1>8. CASE Cancel
  <2>1. ~NoCancel' /\ crashes' = crashes
    BY <1>8 DEF Cancel, NoCancel
  <2>. QED BY <1>0, <2>1 DEF IdleOK, Plain
<1>9. CASE RequestMerge
  <2>1. approval'["merge"] = "pending" /\ crashes' = crashes
    BY <1>9 DEF RequestMerge, CSInv, Phases, Cards
  <2>. QED BY <1>0, <2>1 DEF IdleOK, Plain
<1>10. ASSUME NEW d \in {"approved", "rejected"}, DecideMerge(d) PROVE IdleOK'
  <2>1. approval'["merge"] = d /\ crashes' = crashes
    BY <1>10 DEF DecideMerge, Decide, CSInv, Phases, Cards
  <2>. QED BY <1>0, <2>1 DEF IdleOK, Plain
<1>11. ASSUME NEW d \in {"approved", "rejected"}, NEW t \in Gated, DecideEnded(t, d) \/ DecideEarly(t, d) PROVE IdleOK'
  <2>1. Decide(t, d) /\ history \subseteq history' /\ t \in Cards
    BY <1>11 DEF DecideEnded, DecideEarly, Cards
  <2>2. PlainBefore
    BY <1>0, <2>1, DecideBefore
  <2>. QED BY <1>1, <1>11, <2>2, DecideEndedPlain, DecideEarlyPlain
<1>12. ASSUME NEW t \in Gated, Approve(t) \/ Reject(t) PROVE IdleOK'
  <2>1. \E d \in {"approved", "rejected"} : Decide(t, d)
    BY <1>12 DEF Approve, Reject
  <2>2. history' = history /\ t \in Cards
    BY <1>12 DEF Approve, Reject, Cards
  <2>3. PlainBefore
    BY <1>0, <2>1, <2>2, DecideBefore
  <2>. QED BY <1>1, <1>12, <2>3, ApprovePlain, RejectPlain
<1>13. CASE Restart
  <2>1. crashes' = crashes + 1
    BY <1>13 DEF Restart
  <2>. QED BY <1>0, <2>1 DEF IdleOK, Plain
<1>14. ASSUME NEW t \in Tools, ToolInput(t) \/ StartTool(t) \/ AskApproval(t) \/ SavePending(t) \/ ToolOutput(t) \/ EndTool(t)
       PROVE  IdleOK'
  BY <1>5, <1>6, <1>7, <1>14
<1>15. CASE Cancel \/ RequestMerge \/ Restart
  BY <1>8, <1>9, <1>13, <1>15
<1>. QED BY <1>2, <1>3, <1>4, <1>10, <1>11, <1>12, <1>14, <1>15 DEF Acts

LEMMA IdleOKKept == CSInv /\ IdleOK /\ [Next]_vars => IdleOK'
<1> SUFFICES ASSUME CSInv, IdleOK, [Next]_vars PROVE IdleOK'
  OBVIOUS
<1>1. CASE Next
  BY <1>1, ActsPlain DEF Next
<1>2. CASE UNCHANGED vars
  <2>1. /\ task' = task /\ pc' = pc /\ tool' = tool /\ approval' = approval /\ pend' = pend /\ work' = work
        /\ shownStatus' = shownStatus /\ chat' = chat /\ log' = log /\ history' = history /\ crashes' = crashes
        /\ UNCHANGED <<work, memory, views>>
    BY <1>2 DEF vars, memory, views
  <2>2. Plain' => Plain
    BY <2>1 DEF Plain, NoCancel
  <2>3. ASSUME PlainInv PROVE PlainInv'
    <3>1. Alone /\ Does /\ Asking
      BY <2>3 DEF PlainInv
    <3>2. Alone'
      BY <2>1, <3>1 DEF Alone, Active
    <3>3. Does'
      BY <2>1, <3>1 DEF Does, RequestDoes, LoopDoes
    <3>4. Asking'
      BY <2>1, <3>1 DEF Asking
    <3>5. StatusOK' /\ EndsIdle'
      BY <2>1, <2>3, UnworkedEnds
    <3>. QED BY <3>2, <3>3, <3>4, <3>5 DEF PlainInv
  <2>. QED BY <2>1, <2>2, <2>3 DEF IdleOK
<1>. QED BY <1>1, <1>2

LEMMA InitIdle == Init => IdleOK
<1> SUFFICES ASSUME Init PROVE IdleOK
  OBVIOUS
<1>1. /\ task = "running" /\ pc = "top" /\ tool = [t \in Tools |-> "idle"] /\ approval = [c \in Cards |-> "none"]
      /\ work = [p \in Threads |-> << >>] /\ shownStatus = <<"none", "">> /\ chat = NewView /\ crashes = 0
  BY DEF Init
<1>2. \A p \in Threads : work[p] = << >> /\ Items(work[p]) = {}
  BY <1>1, NoItems
<1>3. /\ \A t \in Tools : work[t] = << >> /\ Items(work[t]) = {} /\ tool[t] = "idle"
      /\ work["loop"] = << >> /\ Items(work["loop"]) = {} /\ Items(work["rpc"]) = {}
  BY <1>1, <1>2, ThreadsAre
<1>4. Alone
  BY <1>1, <1>3, GatedAre DEF Alone, Active
<1>5. Does
  BY <1>3 DEF Does
<1>6. Asking
  BY <1>1, <1>3 DEF Asking, Cards, Ended
<1>7. StatusOK
  <2>1. chat.status = shownStatus[1]
    BY <1>1 DEF NewView
  <2>. QED BY <1>2, <2>1 DEF StatusOK
<1>8. EndsIdle
  <2>1. \A p \in Threads : WritesFirst(work[p])
    BY <1>2 DEF WritesFirst
  <2>. QED BY <1>1, <1>2, <2>1 DEF EndsIdle
<1>. QED BY <1>1, <1>4, <1>5, <1>6, <1>7, <1>8 DEF IdleOK, PlainInv

\* After the task's end nothing enters the chat once all is quiet, and a task that
\* completed or failed leaves it idle (_publish, _publish_chat_status, update_task).
THEOREM ChatSettlesHolds == Spec => []ChatSettles
<1>1. Init => SealOK /\ IdleOK
  BY InitIdle DEF Init, SealOK
<1>2. CSInv /\ SealOK /\ IdleOK /\ [Next]_vars => SealOK' /\ IdleOK'
  BY SealStep, IdleOKKept
<1>3. SealOK /\ IdleOK => ChatSettles
  <2> SUFFICES ASSUME SealOK, IdleOK PROVE ChatSettles
    OBVIOUS
  <2>1. sealed # << >> => Content(chat) = sealed
    BY DEF SealOK
  <2>2. ASSUME Quiet, task \in {"completed", "failed"}, approval["merge"] = "none", "task.cancel" \notin history, crashes = 0
        PROVE  chat.status = "idle"
    <3>1. StatusOK /\ EndsIdle
      BY <2>2 DEF IdleOK, Plain, NoCancel, PlainInv
    <3>2. \A p \in Threads : Items(work[p]) = {}
      BY <2>2, NoItems DEF Quiet, Idle
    <3>3. shownStatus[1] = "idle"
      BY <2>2, <3>1, <3>2, ThreadsAre DEF EndsIdle
    <3>. QED BY <3>1, <3>2, <3>3 DEF StatusOK
  <2>. QED BY <2>1, <2>2 DEF ChatSettles
<1>. QED BY <1>1, <1>2, <1>3, ChatInductive, PTL DEF Spec

==============================================================================
