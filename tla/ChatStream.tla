----------------------------- MODULE ChatStream -----------------------------
(***************************************************************************)
(* What the chat shows of one root task while it runs and after a reload.  *)
(* The task's loop streams its answer (orchestrator/provider_turn.py), its *)
(* tools publish their lifecycle from threads of their own, and the RPC    *)
(* thread serves task.cancel, approval.submit and worktree merge requests  *)
(* (orchestrator/publishing.py, approval_flow.py).  Each publication is a  *)
(* check of the task's status followed by several chat frames; nothing     *)
(* locks them, so another thread's frames, a status write or a crash may   *)
(* fall between any two.                                                   *)
(*                                                                         *)
(* `work` holds, for each thread, what is left of the handler it runs: the *)
(* publications, status writes and frames still to come.  A frame reaches  *)
(* the client (`chat`) and the trace a reload is served from (`log`) in    *)
(* one step; EventLog models that step.                                    *)
(***************************************************************************)
EXTENDS ChatProjection, FiniteSets

CONSTANTS
  Tools,     \* the tool calls the model may make, each once
  Kind,      \* the name of each call's tool
  Parallel,  \* the calls that may run side by side
  Gated,     \* the calls that ask for an approval
  MaxTurns,  \* bound: provider turns
  MaxDeltas, \* bound: deltas of a turn
  MaxCrashes \* bound: crashes of the runtime

Cards == Gated \cup {"merge"}
Threads == Tools \cup {"loop", "rpc"}

ASSUME ChatStreamAssumption ==
  /\ Kind \in [Tools -> STRING]
  /\ Parallel \subseteq Tools /\ Gated \subseteq Tools \ Parallel
  /\ IsFiniteSet(Tools) /\ {"merge", "loop", "rpc", "none", "text"} \cap Tools = {}
  /\ MaxTurns \in Nat /\ MaxDeltas \in Nat /\ MaxCrashes \in Nat

VARIABLES
  task,           \* tasks: the task's status
  pc, turns, deltas, \* where the loop is, turns made, deltas of this turn
  tool,           \* where each tool call is
  approval,       \* approvals: the decision on each card
  pend,           \* the stored pending ReAct state: the call it waits with, or "none"
  work,           \* what each thread has still to do
  text,           \* _chat_text_stream_state: the text block of the answer
  begun,          \* _chat_tool_start_tool_use_ids
  said, streams,  \* fingerprints of tool output, and the streams it came on
  shownStatus,    \* _chat_status_fingerprints
  chat, log,      \* what the client has shown, and what a replay would show
  history,        \* a cancel was asked for; decisions and ends that found nothing pending
  crashes,
  sealed          \* what the chat held when the task had ended and all was quiet

vars == <<task, pc, turns, deltas, tool, approval, pend, work, text, begun, said,
          streams, shownStatus, chat, log, history, crashes, sealed>>
memory == <<text, begun, said, streams, shownStatus>>
views == <<chat, log>>
run == <<task, pc, turns, deltas, tool, approval, pend, history, crashes>>

----------------------------------------------------------------------------
(* Events, frames and what a handler has to do. *)
Event(type, of, note, fields) ==
  [type |-> type, of |-> of, note |-> note, fields |-> fields, index |-> 0]
Do(op, event) == [op |-> op, event |-> event]
Publish(type, of, note, fields) == Do("publish", Event(type, of, note, fields))
Frame(type, of, note, fields) == Do("frame", Event(type, of, note, fields))
Say(t, stream, x) == Do("say", Event("content_delta", t, stream, PublicText(x)))
Status(state, verb) == Do("status", Event("status", state, verb, {}))
Write(status) == Do("write", Event(status, "task", "", {}))
ClosePending(why) == Do("close", Event("tool.failed", "none", why, {}))

\* The chat's content, as far as the properties tell it apart.
NewView ==
  [status |-> "none", block |-> 0, wrong |-> {}, starts |-> {},
   results |-> [t \in Tools |-> 0], previews |-> [t \in Tools |-> 0],
   cards |-> [c \in Cards |-> "none"], fields |-> {}, end |-> "none"]

Max2(n) == IF n > 2 THEN 2 ELSE n

Shown(view, f) ==
  CASE f.type = "status" -> [view EXCEPT !.status = f.of]
    [] f.type = "content_start" /\ f.of = "text" ->
         [view EXCEPT !.block = f.index,
                      !.wrong = @ \cup (IF f.index <= view.block THEN {"reused"} ELSE {})]
    [] f.type = "content_start" /\ f.of # "text" -> [view EXCEPT !.starts = @ \cup {f.of}]
    [] f.type = "content_delta" /\ f.note = "text" ->
         [view EXCEPT !.wrong = @ \cup (IF f.index # view.block THEN {"loose"} ELSE {})]
    [] f.type = "content_delta" /\ f.note = "result_preview" ->
         [view EXCEPT !.previews = [@ EXCEPT ![f.of] = Max2(@ + 1)], !.fields = @ \cup f.fields]
    [] f.type = "tool_result" ->
         [view EXCEPT !.results = [@ EXCEPT ![f.of] = Max2(@ + 1)], !.fields = @ \cup f.fields]
    [] f.type = "permission_request" ->
         [view EXCEPT !.cards = [@ EXCEPT ![f.of] = f.note], !.fields = @ \cup f.fields]
    [] f.type \in {"message_complete", "message.failed"} -> [view EXCEPT !.end = f.type]
    [] OTHER -> [view EXCEPT !.fields = @ \cup f.fields]

\* publish on the event bus: to the client and to the trace.
Sent(event, f) ==
  /\ chat' = IF Live(event) THEN Shown(chat, f) ELSE chat
  /\ log' = IF Replayed(event) THEN Shown(log, f) ELSE log

----------------------------------------------------------------------------
(* The frames of an event. *)

TokenFrames(e) ==
  <<Do("open", e), Do("bind", e), Do("open", e), Frame("content_delta", "text", "text", {"plain"})>>

StartedFrames(e) ==
  <<Do("begin", e), Frame("tool_use_complete", e.of, "", PublicInput(Kind[e.of], e.fields))>>
  \o (IF Kind[e.of] = "other" THEN <<Say(e.of, "activity", "plain")>> ELSE <<>>)
  \o <<Status("tool_executing", e.of)>>

OutputFrames(e) == <<Do("say", [e EXCEPT !.type = "content_delta"])>>

\* `note` says that the preview of the result was streamed.
ResultFrames(e) ==
  (IF Kind[e.of] = "run_command" \/ e.note = "streamed" THEN <<>>
   ELSE <<Do("preview", Event("content_delta", e.of, "result_preview", PublicText("plain")))>>)
  \o <<Frame("tool_result", e.of, "", PublicResult(e.fields))>>

CardFrames(e, shown, state) ==
  <<Frame("permission_request", e.of, shown, PublicRequest("write_file", e.fields)),
    Status(state, IF shown = "asked" THEN e.of ELSE "")>>

\* The event itself, if it is projected to the chat as well.
RawEvent(e) ==
  IF Live(Raw(e.type)) \/ Replayed(Raw(e.type)) THEN <<Do("raw", e)>> ELSE <<>>

\* The end of a root task is also the end of a goal.
GoalEvent(e) == IF e.type \in TaskEnds THEN RawEvent([e EXCEPT !.type = "goal_event"]) ELSE <<>>

EndFrames(e) ==
  GoalEvent(e)
  \o (IF e.type = "message.completed" THEN <<Frame("message_complete", "text", "", {})>> ELSE <<>>)
  \o <<Status("idle", "")>>

Frames(e) ==
  CASE e.type = "assistant.token"    -> TokenFrames(e)
    [] e.type = "tool.started"       -> StartedFrames(e)
    [] e.type \in {"tool.progress", "tool.output", "command.output"} -> OutputFrames(e)
    [] e.type \in {"tool.completed", "tool.failed", "tool.blocked"} -> ResultFrames(e)
    [] e.type = "approval.requested" -> CardFrames(e, "asked", "permission_pending")
    [] e.type = "approval.resolved"  -> CardFrames(e, "resolved", "idle")
    [] e.type \in TaskEnds \cup {"message.completed", "message.failed"} -> EndFrames(e)
    [] OTHER                         -> <<>>

Closers == TaskEnds \cup {"message.completed", "message.failed"}

----------------------------------------------------------------------------
(* The steps of a handler. *)
Next1(p, op) == work[p] # <<>> /\ Head(work[p]).op = op
E(p) == Head(work[p]).event
Then(p, items) == work' = [work EXCEPT ![p] = items \o Tail(@)]

\* _publish: close the text block, look at the task's status, derive the frames.
PublishEvent(p) ==
  /\ Next1(p, "publish")
  /\ LET e == E(p)
         given == IF e.note = "early" THEN "trace" ELSE Visibility(e.type)
         seen == ChatVisibility(e.type, given)
         quiet == Dropped(task, e.type, e.note, given)
     IN /\ text' = IF e.type \in Closers THEN [text EXCEPT !.open = FALSE] ELSE text
        /\ Then(p, IF quiet THEN <<>>
                   ELSE IF e.type \in ChatFrames THEN <<Do("frame", e)>>
                   ELSE (IF (seen = "chat" \/ e.type \in TaskEnds) /\ ~ Dropped(task, e.type, e.note, seen)
                         THEN Frames(e) ELSE <<>>)
                        \o (IF e.note = "early" THEN <<>> ELSE RawEvent(e)))
  /\ UNCHANGED <<run, begun, said, streams, shownStatus, views>>

\* Variant: the state is taken as new after a restart.
RecoveredNever == 0

\* _recover_chat_text_block_state: the last text block the trace holds.
Recovered == log.block

OpenText(p) ==
  /\ Next1(p, "open")
  /\ LET index == 1 + IF text.known THEN text.index ELSE Recovered
     IN IF text.open
        THEN Then(p, <<>>) /\ UNCHANGED text
        ELSE /\ text' = [known |-> TRUE, open |-> TRUE, index |-> index]
             /\ Then(p, <<Do("frame", [Event("content_start", "text", "", {}) EXCEPT !.index = index])>>)
  /\ UNCHANGED <<run, begun, said, streams, shownStatus, views>>

\* The delta of a token takes the block that is open at this moment, if any.
Bound(item, block) ==
  IF item.op = "frame" /\ item.event.note = "text"
  THEN [item EXCEPT !.event = [@ EXCEPT !.index = block]] ELSE item

BindBlock(p) ==
  /\ Next1(p, "bind")
  /\ LET block == IF text.open THEN text.index ELSE 0
     IN work' = [work EXCEPT ![p] = [i \in 1 .. Len(@) - 1 |-> Bound(@[i + 1], block)]]
  /\ UNCHANGED <<run, memory, views>>

\* _chat_tool_start_seen and _remember_chat_content_start.
BeginTool(p) ==
  /\ Next1(p, "begin")
  /\ begun' = begun \cup {E(p).of}
  /\ IF E(p).of \in begun
     THEN Then(p, <<>>) /\ UNCHANGED text
     ELSE /\ Then(p, <<Frame("content_start", E(p).of, "", {})>>)
          /\ text' = [text EXCEPT !.open = FALSE]
  /\ UNCHANGED <<run, said, streams, shownStatus, views>>

\* Output of a tool: not an internal text, and not one that was shown before.
SayOutput(p) ==
  /\ Next1(p, "say")
  /\ LET e == E(p)
         key == <<e.of, e.note, e.fields>>
         shown == e.fields # {} /\ (e.note = "stdout" \/ key \notin said)
     IN /\ said' = IF shown /\ e.note # "stdout" THEN said \cup {key} ELSE said
        /\ streams' = IF shown /\ e.note # "stdout" THEN streams \cup {<<e.of, e.note>>} ELSE streams
        /\ Then(p, IF shown THEN <<Do("frame", e)>> ELSE <<>>)
  /\ UNCHANGED <<run, text, begun, shownStatus, views>>

\* The preview of a result, unless one was streamed before.
SayPreview(p) ==
  /\ Next1(p, "preview")
  /\ LET e == E(p)
         key == <<e.of, e.note, e.fields>>
         shown == <<e.of, e.note>> \notin streams /\ key \notin said
     IN /\ streams' = streams \cup {<<e.of, e.note>>}
        /\ said' = IF shown THEN said \cup {key} ELSE said
        /\ Then(p, IF shown THEN <<Do("frame", e)>> ELSE <<>>)
  /\ UNCHANGED <<run, text, begun, shownStatus, views>>

\* _publish_chat_status: the fingerprint is taken before the frame goes out.
ShowStatus(p) ==
  /\ Next1(p, "status")
  /\ LET print == <<E(p).of, E(p).note>>
     IN /\ shownStatus' = print
        /\ Then(p, IF shownStatus = print THEN <<>> ELSE <<Do("frame", E(p))>>)
  /\ UNCHANGED <<run, text, begun, said, streams, views>>

SendFrame(p) ==
  /\ Next1(p, "frame")
  /\ Sent(IF E(p).note = "text" THEN TextDelta ELSE Compat(E(p)), E(p))
  /\ Then(p, <<>>)
  /\ UNCHANGED <<run, memory>>

SendRaw(p) ==
  /\ Next1(p, "raw")
  /\ Sent(Raw(E(p).type), E(p))
  /\ Then(p, <<>>)
  /\ UNCHANGED <<run, memory>>

\* A write of the task's status; the end of a task clears its pending state.
WriteStatus(p) ==
  /\ Next1(p, "write")
  /\ task' = E(p).type
  /\ pend' = IF E(p).type \in Ended THEN "none" ELSE pend
  /\ Then(p, <<>>)
  /\ UNCHANGED <<pc, turns, deltas, tool, approval, history, crashes, memory, views>>

\* Variant: the stored state still holds the call after its result.
ClosePendingKept(p) ==
  /\ Next1(p, "close")
  /\ Then(p, IF pend = "none" THEN <<>> ELSE <<Publish("tool.failed", pend, "", {"plain"})>>)
  /\ history' = IF pend = "none" /\ E(p).note = "cancel" THEN history \cup {"cancel"} ELSE history
  /\ UNCHANGED <<task, pc, turns, deltas, tool, approval, pend, crashes, memory, views>>

\* _terminal_pending_react_tool_result: a result for the call the stored state
\* waits with, and then the state without it.
ClosePendingCall(p) ==
  /\ Next1(p, "close")
  /\ Then(p, IF pend = "none" THEN <<>>
             ELSE <<Publish("tool.failed", pend, "", {"plain"}), Do("forget", E(p))>>)
  /\ history' = IF pend = "none" /\ E(p).note = "cancel" THEN history \cup {"cancel"} ELSE history
  /\ UNCHANGED <<task, pc, turns, deltas, tool, approval, pend, crashes, memory, views>>

ForgetPending(p) ==
  /\ Next1(p, "forget")
  /\ pend' = "none"
  /\ Then(p, <<>>)
  /\ UNCHANGED <<task, pc, turns, deltas, tool, approval, history, crashes, memory, views>>

\* _resume_react_after_approval: the call runs again.  The stored state keeps it as pending.
ResumeCall(p) ==
  /\ Next1(p, "resume")
  /\ tool' = [tool EXCEPT ![E(p).of] = "ready"] /\ pc' = "tools"
  /\ Then(p, <<>>)
  /\ UNCHANGED <<task, turns, deltas, approval, pend, history, crashes, memory, views>>

----------------------------------------------------------------------------
(* The loop. *)
Idle(p) == work[p] = <<>>
Begin(p, items) == Idle(p) /\ work' = [work EXCEPT ![p] = items]

\* A provider turn: its statuses are published without a look at the task.
Turn ==
  /\ pc = "top" /\ task = "running" /\ turns < MaxTurns
  /\ Begin("loop", <<Status("thinking", "model"), Status("streaming", "model")>>)
  /\ pc' = "stream" /\ turns' = turns + 1 /\ deltas' = 0
  /\ UNCHANGED <<task, tool, approval, pend, history, crashes, memory, views>>

\* Each event of the stream is read after a look at the task's status.
Delta(item) ==
  /\ pc = "stream" /\ task # "cancelled" /\ deltas < MaxDeltas
  /\ Begin("loop", <<item>>)
  /\ deltas' = deltas + 1
  /\ UNCHANGED <<task, pc, turns, tool, approval, pend, history, crashes, memory, views>>

Token == Delta(Publish("assistant.token", "text", "", {"plain"}))
Thought == Delta(Publish("thinking", "text", "", {"plain"}))
ToolInput(t) == tool[t] = "idle" /\ Delta(Publish("content_delta", t, "input", {}))

\* The model's calls run: side by side if all of them may, else one by one.
CallTools(ts) ==
  /\ pc = "stream" /\ Idle("loop") /\ task # "cancelled"
  /\ ts # {} /\ \A t \in ts : tool[t] = "idle"
  /\ ts \subseteq Parallel \/ Cardinality(ts) = 1
  /\ tool' = [t \in Tools |-> IF t \in ts THEN "ready" ELSE tool[t]]
  /\ pc' = "tools"
  /\ UNCHANGED <<task, turns, deltas, approval, pend, history, crashes, work, memory, views>>

CompleteTask ==
  /\ pc = "stream" /\ task = "running"
  /\ Begin("loop", <<Write("completed"), Publish("message.completed", "text", "", {}),
                     Publish("task.completed", "text", "", {})>>)
  /\ pc' = "over"
  /\ UNCHANGED <<task, turns, deltas, tool, approval, pend, history, crashes, memory, views>>

Failure == <<ClosePending("failure"), Write("failed"), Publish("message.failed", "text", "", {}),
             Publish("task.failed", "text", "", {})>>

FailTask ==
  /\ pc = "stream" /\ task = "running"
  /\ Begin("loop", Failure)
  /\ pc' = "over"
  /\ UNCHANGED <<task, turns, deltas, tool, approval, pend, history, crashes, memory, views>>

LoopStops ==
  /\ pc \in {"top", "stream"} /\ Idle("loop") /\ task \in Ended
  /\ pc' = "over"
  /\ UNCHANGED <<task, turns, deltas, tool, approval, pend, history, crashes, work, memory, views>>

----------------------------------------------------------------------------
(* A tool call. *)
StartTool(t) ==
  /\ tool[t] = "ready"
  /\ Begin(t, <<Publish("tool.started", t, "", {"plain", "extra", "body", "internal"})>>)
  /\ tool' = [tool EXCEPT ![t] = "running"]
  /\ UNCHANGED <<task, pc, turns, deltas, approval, pend, history, crashes, memory, views>>

\* A call that needs an approval writes the task's status and shows a card.
AskApproval(t) ==
  /\ tool[t] = "running" /\ t \in Gated /\ approval[t] = "none"
  /\ Begin(t, <<Write("waiting_approval"),
                Publish("approval.requested", t, "", {"plain", "body", "diff", "internal"})>>)
  /\ approval' = [approval EXCEPT ![t] = "pending"]
  /\ tool' = [tool EXCEPT ![t] = "asked"]
  /\ UNCHANGED <<task, pc, turns, deltas, pend, history, crashes, memory, views>>

\* The loop saves what it waits with and returns.
SavePending(t) ==
  /\ tool[t] = "asked" /\ Idle(t) /\ pc = "tools"
  /\ pend' = t /\ pc' = "waiting"
  /\ tool' = [tool EXCEPT ![t] = "waiting"]
  /\ UNCHANGED <<task, turns, deltas, approval, history, crashes, work, memory, views>>

Executes(t) == tool[t] = "running" /\ (t \in Gated => approval[t] = "approved")

\* Output while it runs: progress, a preview of the result, or a command's output.
ToolOutput(t) ==
  /\ Executes(t)
  /\ \E x \in {"plain", "internal"} :
       \/ /\ Begin(t, <<Publish("tool.progress", t, "activity", PublicText(x))>>)
          /\ tool' = [tool EXCEPT ![t] = "told"]
       \/ /\ Kind[t] # "run_command"
          /\ Begin(t, <<Publish("tool.output", t, "result_preview", PublicText(x))>>)
          /\ tool' = [tool EXCEPT ![t] = "streamed"]
       \/ /\ Kind[t] = "run_command"
          /\ Begin(t, <<Publish("command.output", t, "stdout", PublicText(x))>>)
          /\ tool' = [tool EXCEPT ![t] = "told"]
  /\ UNCHANGED <<task, pc, turns, deltas, approval, pend, history, crashes, memory, views>>

EndTool(t) ==
  /\ Executes(t) \/ tool[t] \in {"told", "streamed"}
  /\ \E type \in {"tool.completed", "tool.failed", "tool.blocked"} :
       Begin(t, <<Publish(type, t, IF tool[t] = "streamed" THEN "streamed" ELSE "",
                          {"plain", "body", "internal"})>>)
  /\ tool' = [tool EXCEPT ![t] = "done"]
  /\ UNCHANGED <<task, pc, turns, deltas, approval, pend, history, crashes, memory, views>>

NextStep ==
  /\ pc = "tools"
  /\ \A t \in Tools : tool[t] \in {"idle", "done"} /\ Idle(t)
  /\ pc' = "top"
  /\ UNCHANGED <<task, turns, deltas, tool, approval, pend, history, crashes, work, memory, views>>

----------------------------------------------------------------------------
(* Requests of the client. *)
Cancel ==
  /\ task \notin Ended
  /\ Begin("rpc", <<ClosePending("cancel"), Write("cancelled"), Publish("task.cancelled", "text", "", {})>>)
  /\ history' = history \cup {"task.cancel"}
  /\ UNCHANGED <<task, pc, turns, deltas, tool, approval, pend, crashes, memory, views>>

RequestMerge ==
  /\ approval["merge"] = "none"
  /\ Begin("rpc", <<Publish("approval.requested", "merge", "", {"plain", "internal"})>>)
  /\ approval' = [approval EXCEPT !["merge"] = "pending"]
  /\ UNCHANGED <<task, pc, turns, deltas, tool, pend, history, crashes, memory, views>>

Resolved(c, note) == Publish("approval.resolved", c, note, {"plain", "body", "internal"})

\* approval.submit, for a card the client shows: the decision is stored first,
\* whatever becomes of it.
Decide(c, decision) ==
  /\ approval[c] = "pending" /\ chat.cards[c] = "asked"
  /\ approval' = [approval EXCEPT ![c] = decision]
  /\ UNCHANGED <<turns, deltas, crashes, memory, views>>

DecideMerge(decision) ==
  /\ Decide("merge", decision)
  /\ Begin("rpc", <<Resolved("merge", "")>>)
  /\ UNCHANGED <<task, pc, tool, pend, history>>

DecideEnded(t, decision) ==
  /\ task \in Ended
  /\ Decide(t, decision)
  /\ Begin("rpc", <<Resolved(t, "ignored")>>)
  /\ UNCHANGED <<task, pc, tool, pend, history>>

\* Nothing waits for the decision yet: it is only recorded.
DecideEarly(t, decision) ==
  /\ task \notin Ended /\ pend # t
  /\ Decide(t, decision)
  /\ Begin("rpc", <<Resolved(t, "early")>>)
  /\ history' = history \cup {t}
  /\ UNCHANGED <<task, pc, tool, pend>>

Approve(t) ==
  /\ task \notin Ended /\ pend = t
  /\ Decide(t, "approved")
  /\ Begin("rpc", <<Resolved(t, ""), Do("resume", Event("resume", t, "", {}))>>)
  /\ task' = "running"
  /\ UNCHANGED <<pc, tool, pend, history>>

Reject(t) ==
  /\ task \notin Ended /\ pend = t
  /\ Decide(t, "rejected")
  /\ Begin("rpc", <<Resolved(t, ""), ClosePending("rejection")>> \o Failure)
  /\ UNCHANGED <<task, pc, tool, pend, history>>

----------------------------------------------------------------------------
(* The runtime stops and starts again: what is in memory is gone, and a    *)
(* running task has failed.  Its task.orphaned event is dropped, because   *)
(* the task has ended by then.                                             *)
Restart ==
  /\ crashes < MaxCrashes
  /\ crashes' = crashes + 1
  /\ task' = IF task = "running" THEN "failed" ELSE task
  /\ pc' = IF pc = "waiting" THEN pc ELSE "over"
  /\ tool' = [t \in Tools |-> IF tool[t] \in {"idle", "waiting"} THEN tool[t] ELSE "done"]
  /\ work' = [p \in Threads |-> <<>>]
  /\ text' = [known |-> FALSE, open |-> FALSE, index |-> 0]
  /\ begun' = {} /\ said' = {} /\ streams' = {} /\ shownStatus' = <<"none", "">>
  /\ UNCHANGED <<turns, deltas, approval, pend, views, history>>

Init ==
  /\ task = "running" /\ pc = "top" /\ turns = 0 /\ deltas = 0
  /\ tool = [t \in Tools |-> "idle"]
  /\ approval = [c \in Cards |-> "none"]
  /\ pend = "none"
  /\ work = [p \in Threads |-> <<>>]
  /\ text = [known |-> FALSE, open |-> FALSE, index |-> 0]
  /\ begun = {} /\ said = {} /\ streams = {} /\ shownStatus = <<"none", "">>
  /\ chat = NewView /\ log = NewView
  /\ history = {} /\ crashes = 0 /\ sealed = <<>>

Quiet == \A p \in Threads : Idle(p)
Content(view) == <<view.block, view.starts, view.results, view.previews, view.end>>

\* History: the chat's content at the first quiet moment after the task's end.
Seal == sealed' = IF task' \notin Ended THEN <<>>
                  ELSE IF sealed = <<>> /\ Quiet' THEN Content(chat') ELSE sealed

Step(p) ==
  \/ PublishEvent(p) \/ OpenText(p) \/ BindBlock(p) \/ BeginTool(p) \/ SayOutput(p)
  \/ SayPreview(p) \/ ShowStatus(p) \/ SendFrame(p) \/ SendRaw(p) \/ WriteStatus(p)
  \/ ClosePendingCall(p) \/ ForgetPending(p) \/ ResumeCall(p)

Acts ==
  \/ \E p \in Threads : Step(p)
  \/ Turn \/ Token \/ Thought \/ CompleteTask \/ FailTask \/ LoopStops \/ NextStep
  \/ \E ts \in SUBSET Tools : CallTools(ts)
  \/ \E t \in Tools : ToolInput(t) \/ StartTool(t) \/ AskApproval(t) \/ SavePending(t)
                      \/ ToolOutput(t) \/ EndTool(t)
  \/ Cancel \/ RequestMerge
  \/ \E d \in {"approved", "rejected"} :
       DecideMerge(d) \/ \E t \in Gated : DecideEnded(t, d) \/ DecideEarly(t, d)
  \/ \E t \in Gated : Approve(t) \/ Reject(t)
  \/ Restart

Next == Acts /\ Seal
Spec == Init /\ [][Next]_vars

----------------------------------------------------------------------------
(* Properties. *)
Statuses == {"running", "waiting_approval"} \cup Ended
Views == [status : {"none", "idle", "thinking", "streaming", "tool_executing", "permission_pending"},
          block : Nat, wrong : SUBSET {"reused", "loose"}, starts : SUBSET Tools,
          results : [Tools -> 0 .. 2], previews : [Tools -> 0 .. 2],
          cards : [Cards -> {"none", "asked", "resolved"}],
          fields : SUBSET (Fields \cup {"chars"}), end : {"none", "message_complete", "message.failed"}]

\* Values of the right kind; a text block that is open has a number.
TypeOK ==
  /\ task \in Statuses /\ pend \in Gated \cup {"none"}
  /\ pc \in {"top", "stream", "tools", "waiting", "over"}
  /\ turns \in 0 .. MaxTurns /\ deltas \in 0 .. MaxDeltas /\ crashes \in 0 .. MaxCrashes
  /\ tool \in [Tools -> {"idle", "ready", "running", "asked", "waiting", "told", "streamed", "done"}]
  /\ approval \in [Cards -> {"none", "pending", "approved", "rejected"}]
  /\ text.open => text.known /\ text.index > 0
  /\ begun \subseteq Tools /\ history \subseteq Gated \cup {"task.cancel", "cancel"}
  /\ chat \in Views /\ log \in Views

\* A reload shows what the client has shown: the frames the trace keeps and replays
\* are the frames that were sent, but for the deltas of the answer's text
\* (the stored message holds them).
ReplayMatchesLive == [log EXCEPT !.wrong = chat.wrong] = chat

\* Every text block that is announced is a new one, also after a restart, when the
\* number of the last one comes from the trace; and text goes to the block announced
\* last, unless a cancel closes it under the token.
TextInItsBlock ==
  /\ "reused" \notin chat.wrong
  /\ "loose" \in chat.wrong => "task.cancel" \in history

\* Every call the chat shows is answered there once the task has ended and all is
\* quiet (if the task was cancelled, every call the cancel found waiting for an
\* approval), and it is answered once; a call that ran with an approval may be answered
\* again when its task fails or is cancelled, because the stored state still holds it as
\* pending, and so may one whose answer went out just before a crash.
AnsweredOnce ==
  crashes = 0 =>
    /\ Quiet /\ task \in Ended =>
         \A t \in chat.starts :
           task # "cancelled" \/ (tool[t] = "waiting" /\ "cancel" \notin history)
             => chat.results[t] > 0
    /\ \A t \in Tools : chat.results[t] = 2 => t \in Gated /\ approval[t] = "approved"

\* The end of a task settles its chat.  Once all is quiet, no text, call or result
\* enters the chat, whatever the tools and the loop still do; and a task that completed
\* or failed leaves the chat idle, unless a merge was asked for (its card is shown after
\* the task's end), a cancel's status crossed another thread's between fingerprint and
\* frame, or the runtime was restarted.
ChatSettles ==
  /\ sealed # <<>> => Content(chat) = sealed
  /\ /\ Quiet /\ task \in {"completed", "failed"}
     /\ approval["merge"] = "none" /\ "task.cancel" \notin history /\ crashes = 0
     => chat.status = "idle"

=============================================================================
