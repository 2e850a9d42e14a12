--------------------- MODULE QueueAndToolCalls_proofs ---------------------
(***************************************************************************)
(* The queue of a session, for any number of tasks and threads, and what a *)
(* tool call may do and reports, for any requests, policies, hooks and     *)
(* files and any number of calls, retries and edits.                       *)
(***************************************************************************)
EXTENDS SessionQueue, ToolCall, SequenceTheorems, WellFoundedInduction, TLAPS

-----------------------------------------------------------------------------
(* The queue.  QueueInOrder is not inductive: a drain has picked its task  *)
(* some steps before it starts it, and a supplement carries the status     *)
(* "queued" over the steps of other threads.  IInv says what holds         *)
(* meanwhile: the picked task is still no younger than any task waiting    *)
(* for its first turn, and a task nobody has begun is written by the RPC   *)
(* thread alone.                                                           *)

Waiting(u) == status[u] = "queued" /\ how[u] = "waiting"

Created ==
  \A t \in Tasks :
    /\ age[t] <= clock
    /\ status[t] = "none" => how[t] = "waiting"
    /\ t \in saved => how[t] # "waiting"

AtWork ==
  \A w \in Workers :
    /\ pc[w] # "idle" => on[w] \in Tasks
    /\ pc[w] \in {"run", "spawn", "resumeSaved"} => how[on[w]] # "waiting"
    /\ pc[w] = "start" => /\ status[on[w]] # "none"
                          /\ \A u \in Tasks : Waiting(u) => age[on[w]] <= age[u]

AtRequest ==
  /\ pc[Rpc] \in {"enqueue", "create", "createNew"} => status[on[Rpc]] = "none"
  /\ pc[Rpc] = "create" => \A u \in Tasks : status[u] # "queued"
  /\ pc[Rpc] = "supplement" =>
       /\ snap # "none"
       /\ snap = "queued" /\ how[on[Rpc]] = "waiting" => status[on[Rpc]] = "queued"

IInv == SQTypeOK /\ Created /\ AtWork /\ AtRequest /\ QueueInOrder

-----------------------------------------------------------------------------
\* The queue is empty at the start, so nothing has to be ordered yet.
LEMMA SQInitInv == SQInit => IInv
BY SessionQueueAssumption
   DEF SQInit, IInv, SQTypeOK, Created, AtWork, AtRequest, QueueInOrder, Waiting,
       Stored, Open, Active, Terminal, Pcs, Workers

\* Every step of a handler, a worker and a restart keeps the queue's order.
LEMMA SQNextInv == IInv /\ [SQNext]_sqVars => IInv'
<1> SUFFICES ASSUME IInv, [SQNext]_sqVars PROVE IInv'
  OBVIOUS
<1> USE SessionQueueAssumption
    DEF IInv, SQTypeOK, Created, AtWork, AtRequest, QueueInOrder, Waiting,
        Stored, Open, Active, Terminal, Pcs, Workers, store, Goto, Take, Write, Begun
<1>1. ASSUME NEW t \in Tasks, Request(t) PROVE IInv'
  <2>1. CASE SendQueued(t)
    BY <2>1 DEF SendQueued
  <2>2. CASE SendNew(t)
    BY <2>2 DEF SendNew
  <2>3. CASE CancelTask(t)
    BY <2>3 DEF CancelTask, BeginRequest
  <2>4. CASE PauseTask(t)
    BY <2>4 DEF PauseTask, BeginRequest
  <2>5. CASE ResumeTask(t)
    BY <2>5 DEF ResumeTask, BeginRequest
  <2>6. CASE SendSupplement(t)
    BY <2>6 DEF SendSupplement, BeginRequest
  <2> QED
    BY <1>1, <2>1, <2>2, <2>3, <2>4, <2>5, <2>6 DEF Request
<1>2. ASSUME Handle PROVE IInv'
  <2>1. CASE Enqueue
    BY <2>1 DEF Enqueue, CreateTask
  <2>2. CASE Create
    BY <2>2 DEF Create, CreateTask
  <2>3. CASE CancelWrite
    BY <2>3 DEF CancelWrite
  <2>4. CASE PauseWrite
    BY <2>4 DEF PauseWrite
  <2>5. CASE ResumeLoad
    BY <2>5 DEF ResumeLoad
  <2>6. CASE ResumeBare
    BY <2>6 DEF ResumeBare
  <2>7. CASE ResumeSaved
    BY <2>7 DEF ResumeSaved
  <2>8. CASE SupplementWrite
    BY <2>8 DEF SupplementWrite
  <2> QED
    BY <1>2, <2>1, <2>2, <2>3, <2>4, <2>5, <2>6, <2>7, <2>8 DEF Handle
<1>3. ASSUME NEW w \in Workers, Work(w) PROVE IInv'
  <2>1. CASE Spawn(w)
    BY <2>1 DEF Spawn
  <2>2. CASE Stop(w)
    BY <2>2 DEF Stop
  <2>3. CASE Hold(w)
    BY <2>3 DEF Hold
  <2>4. CASE Finish(w)
    BY <2>4 DEF Finish
  <2>5. CASE Unresolved(w)
    BY <2>5 DEF Unresolved
  <2>6. CASE DrainCheck(w)
    BY <2>6 DEF DrainCheck
  <2>7. CASE DrainList(w)
    BY <2>7 DEF DrainList, Oldest
  <2>8. CASE DrainStart(w)
    BY <2>8 DEF DrainStart
  <2> QED
    BY <1>3, <2>1, <2>2, <2>3, <2>4, <2>5, <2>6, <2>7, <2>8 DEF Work
<1>4. CASE Restart
  BY <1>4 DEF Restart
<1>5. CASE UNCHANGED sqVars
  BY <1>5 DEF sqVars
<1> QED
  BY <1>1, <1>2, <1>3, <1>4, <1>5 DEF SQNext

\* Every variable keeps its type, whatever the threads and requests do.
THEOREM QueueTypesCorrect == SQSpec => []SQTypeOK
<1>1. IInv => SQTypeOK
  BY DEF IInv
<1> QED
  BY <1>1, SQInitInv, SQNextInv, PTL DEF SQSpec

\* Turns are taken in the order of arrival (QueueInOrder), for any number of messages
\* and threads, with crashes between any two steps.
THEOREM QueueInOrderHolds == SQSpec => []QueueInOrder
<1>1. IInv => QueueInOrder
  BY DEF IInv
<1> QED
  BY <1>1, SQInitInv, SQNextInv, PTL DEF SQSpec

-----------------------------------------------------------------------------
\* The end of a task hands the session over (HandsOver), for any number of messages
\* and threads: the only steps that leave a waiting task stranded are a cancel, a late
\* enqueue, a supplement that writes an old status back and a restart.
THEOREM HandsOverHolds == SQSpec => HandsOver
<1> DEFINE Strands == CancelWrite \/ Enqueue \/ SupplementWrite \/ Restart
<1>1. ASSUME IInv, [SQNext]_sqVars PROVE [~ Stranded /\ Stranded' => Strands]_sqVars
  <2> SUFFICES ASSUME ~ Strands, ~ Stranded, SQNext PROVE ~ Stranded'
    BY <1>1
  <2> USE <1>1, SessionQueueAssumption
      DEF Stranded, IInv, SQTypeOK, Stored, Open, Active, Terminal, Pcs, Workers, store,
          Goto, Take, Write
  <2>1. ASSUME NEW t \in Tasks, Request(t) PROVE ~ Stranded'
    <3>1. pc[Rpc] = "idle" /\ UNCHANGED status /\ \A w \in Workers : w # Rpc => pc'[w] = pc[w]
      BY <2>1 DEF Request, SendQueued, SendNew, CancelTask, PauseTask, ResumeTask,
                  SendSupplement, BeginRequest
    <3>. QED
      BY <3>1
  <2>2. ASSUME Handle PROVE ~ Stranded'
    <3>1. CASE Create
      BY <3>1 DEF Create, CreateTask
    <3>2. CASE PauseWrite
      BY <3>2 DEF PauseWrite
    <3>3. CASE ResumeLoad
      BY <3>3 DEF ResumeLoad
    <3>4. CASE ResumeBare
      BY <3>4 DEF ResumeBare
    <3>5. CASE ResumeSaved
      BY <3>5 DEF ResumeSaved
    <3>. QED
      BY <2>2, <3>1, <3>2, <3>3, <3>4, <3>5 DEF Handle
  <2>3. ASSUME NEW w \in Workers, Work(w) PROVE ~ Stranded'
    <3>1. CASE Spawn(w)
      BY <3>1 DEF Spawn
    <3>2. CASE Stop(w)
      BY <3>2 DEF Stop
    <3>3. CASE Hold(w)
      BY <3>3 DEF Hold
    <3>4. CASE Finish(w) \/ Unresolved(w)
      BY <3>4 DEF Finish, Unresolved
    <3>5. CASE DrainCheck(w)
      BY <3>5 DEF DrainCheck
    <3>6. CASE DrainList(w)
      BY <3>6 DEF DrainList
    <3>7. CASE DrainStart(w)
      <4>1. on[w] \in Tasks
        BY <3>7 DEF DrainStart, AtWork
      <4>. QED
        BY <3>7, <4>1 DEF DrainStart
    <3>. QED
      BY <2>3, <3>1, <3>2, <3>3, <3>4, <3>5, <3>6, <3>7 DEF Work
  <2>. QED
    BY <2>1, <2>2, <2>3 DEF SQNext
<1>. QED
  BY <1>1, SQInitInv, SQNextInv, PTL DEF SQSpec, HandsOver

-----------------------------------------------------------------------------
(* Sequences of records of which only the order matters.                     *)

IsSeq(s) == s \in Seq({s[i] : i \in DOMAIN s})

\* A set of numbers up to n has a greatest element, as CommandApproval takes it.
LEMMA GreatestExists ==
  ASSUME NEW n \in Nat, NEW S \in SUBSET (0 .. n), S # {}
  PROVE  \E a \in S : \A b \in S : b <= a
<1> DEFINE T == {n - a : a \in S}
<1>1. T \subseteq Nat /\ T # {}
  <2>1. \A a \in S : n - a \in Nat
    OBVIOUS
  <2>2. T # {}
    <3>1. PICK a \in S : TRUE
      OBVIOUS
    <3>2. n - a \in T
      BY <3>1
    <3>. QED BY <3>2
  <2>. QED BY <2>1, <2>2
<1>2. PICK x \in T : \A y \in T : <<y, x>> \notin OpToRel(<, Nat)
  <2> HIDE DEF T
  <2>. QED BY <1>1, NatLessThanWellFounded, WFMin, Zenon
<1>3. \A y \in T : ~ (y < x)
  BY <1>1, <1>2 DEF OpToRel
<1>4. PICK a \in S : x = n - a
  OBVIOUS
<1>5. ASSUME NEW b \in S PROVE b <= a
  <2>1. n - b \in T
    OBVIOUS
  <2>2. ~ (n - b < n - a)
    BY <2>1, <1>3, <1>4
  <2>. QED BY <2>2
<1>. QED BY <1>5

\* Appending keeps what is there and adds one record.
LEMMA AppendSeq ==
  ASSUME NEW s, IsSeq(s), NEW x
  PROVE  /\ IsSeq(Append(s, x))
         /\ Len(s) \in Nat /\ DOMAIN s = 1 .. Len(s)
         /\ Len(Append(s, x)) = Len(s) + 1
         /\ DOMAIN Append(s, x) = 1 .. Len(s) + 1
         /\ \A i \in DOMAIN s : Append(s, x)[i] = s[i]
         /\ Append(s, x)[Len(s) + 1] = x
<1> DEFINE R == {s[i] : i \in DOMAIN s}
           A == Append(s, x)
<1>1. s \in Seq(R \cup {x})
  BY SeqMonotonic DEF IsSeq
<1>2. /\ A \in Seq(R \cup {x})
      /\ Len(s) \in Nat /\ DOMAIN s = 1 .. Len(s)
      /\ Len(A) = Len(s) + 1 /\ DOMAIN A = 1 .. Len(A)
      /\ \A i \in 1 .. Len(s) : A[i] = s[i]
      /\ A[Len(s) + 1] = x
  BY <1>1
<1>3. A \in Seq({A[i] : i \in DOMAIN A})
  <2> HIDE DEF A
  <2>1. A \in [1 .. Len(A) -> R \cup {x}]
    BY <1>2
  <2>3. A \in [1 .. Len(A) -> {A[i] : i \in DOMAIN A}]
    BY <2>1, <1>2
  <2>2. Len(A) \in Nat
    BY <1>2
  <2>. QED BY <2>3, <2>2, SeqDef
<1>. QED BY <1>2, <1>3 DEF IsSeq

\* Replacing one record keeps the length.
LEMMA ExceptIsSeq ==
  ASSUME NEW s, IsSeq(s), NEW a, NEW x
  PROVE  LET t == [s EXCEPT ![a] = x]
         IN IsSeq(t) /\ Len(t) = Len(s) /\ DOMAIN t = DOMAIN s
<1> DEFINE t == [s EXCEPT ![a] = x]
<1>1. Len(s) \in Nat /\ DOMAIN s = 1 .. Len(s)
  BY DEF IsSeq
<1>2. t \in [1 .. Len(s) -> {t[i] : i \in DOMAIN t}]
  BY <1>1
<1>3. t \in Seq({t[i] : i \in DOMAIN t})
  <2> HIDE DEF t
  <2>. QED BY <1>1, <1>2, SeqDef
<1>4. DOMAIN t = 1 .. Len(t) /\ DOMAIN t = DOMAIN s /\ Len(t) \in Nat
  BY <1>3
<1>. QED BY <1>1, <1>3, <1>4 DEF IsSeq
-----------------------------------------------------------------------------
(* The inductive invariant.                                                  *)

Early == {"before", "beforePatch", "run", "gate"}
Ends  == {"failedHooks", "return"}
Live  == Early \cup {"act", "result", "ask"} \cup Ends

\* The call is a record of its fields, made from a request.
Shape ==
  /\ DOMAIN call = DOMAIN Quiet
  /\ call.at \in Live \cup {"idle", "raised"}
  /\ call.open \in BOOLEAN /\ call.ran \in BOOLEAN
  /\ call.started \in Nat /\ call.ended \in Nat
  /\ call.at \in Live => call.req \in Requests
  /\ pending.at = "waits" => pending.req \in Requests

\* Approvals and patches are sequences of records.
Ledgers ==
  /\ IsSeq(approvals) /\ IsSeq(patches)
  /\ \A i \in DOMAIN approvals : DOMAIN approvals[i] = {"req", "decision"}
  /\ \A i \in DOMAIN patches : DOMAIN patches[i] = {"req", "status"}

\* The approvals a call refers to exist, and none lets it act before the gate.
Known ==
  /\ call.aid \in 0 .. Len(approvals) /\ call.by \in 0 .. Len(approvals)
  /\ call.at \in Early => call.by = 0

\* What the policy allows now has been noticed, whoever changed the policy or
\* the call since it began.
OpenSeen == call.at \in Live /\ Opens(cfg, call) => call.open

\* What the call has done and said, stage by stage.
Progress ==
  /\ call.at \in Live \ Ends => call.started = call.ended + 1 /\ call.said = "none"
  /\ call.at \in Ends => call.started = call.ended
  /\ call.at = "failedHooks" => call.said = "failed"
  /\ call.at \in Early \cup {"ask"} => ~call.ran
  /\ call.at = "act" /\ call.ran => call.req.tool = "apply_patch" /\ ~call.req.dry
  /\ call.at = "result" /\ call.ran =>
       call.status \in {"written", "applied", "failed", "completed"}
  /\ call.said = "blocked" => ~call.ran
  /\ call.done # {} => call.ran /\ call.req.tool # "agent"
  /\ call.at = "result" /\ call.done # {} /\ call.done # PathSet(call)
       => call.status = "failed"
  /\ call.at = "return" /\ call.done # {} /\ call.done # PathSet(call)
       => call.said = "failed"

IndInv == Shape /\ Ledgers /\ Known /\ OpenSeen /\ EffectAuthorised /\ Progress

-----------------------------------------------------------------------------
(* The call and the ledgers keep their shape.                                *)

\* The fields of a call.
LEMMA Fields ==
  /\ {"at", "req", "new", "base", "aid", "by", "patch", "open", "done", "ran",
      "status", "said", "started", "ended"} = DOMAIN Quiet
  /\ Quiet.at = "idle" /\ Quiet.by = 0 /\ Quiet.aid = 0 /\ Quiet.done = {}
  /\ Quiet.ran \in BOOLEAN /\ ~Quiet.ran /\ Quiet.open \in BOOLEAN /\ Quiet.said = "none"
  /\ Quiet.started = 0 /\ Quiet.ended = 0
BY DEF Quiet

\* What a call that starts looks like.
LEMMA StartedFields ==
  ASSUME NEW c, NEW r, NEW aid
  PROVE  LET k == Started(c, r, aid)
         IN /\ DOMAIN k = DOMAIN Quiet
            /\ k.at = "before" /\ k.req = r /\ k.new = r.new /\ k.base = files
            /\ k.aid = aid /\ k.by = 0 /\ k.done = {} /\ ~k.ran /\ k.ran \in BOOLEAN
            /\ k.said = "none" /\ k.started = 1 /\ k.ended = 0
            /\ k.open = Opens(c, k) /\ k.open \in BOOLEAN
<1> DEFINE j == [Quiet EXCEPT !.at = "before", !.req = r, !.new = r.new,
                              !.base = files, !.aid = aid, !.started = 1]
           k == [j EXCEPT !.open = Opens(c, j)]
<1>1. Started(c, r, aid) = k
  BY DEF Started
<1>2. /\ DOMAIN k = DOMAIN Quiet
      /\ k.at = "before" /\ k.req = r /\ k.new = r.new /\ k.base = files
      /\ k.aid = aid /\ k.by = 0 /\ k.done = {} /\ ~k.ran /\ k.ran \in BOOLEAN
      /\ k.said = "none" /\ k.started = 1 /\ k.ended = 0
      /\ k.open = Opens(c, j)
  BY DEF Quiet
<1>3. j.req = r /\ j.new = r.new
  BY DEF Quiet
<1>4. Opens(c, j) = Opens(c, k)
  <2> HIDE DEF j, k
  <2>. QED BY <1>2, <1>3 DEF Opens, Policy
<1>5. Opens(c, j) \in BOOLEAN
  BY DEF Opens
<1>. QED
  BY <1>1, <1>2, <1>4, <1>5

\* What the policy says and what an approval shows depend on the request, on
\* what is executed and on the files it was made from.
LEMMA SameCall ==
  ASSUME NEW k, NEW j, k.req = j.req, k.new = j.new, NEW c
  PROVE  /\ Opens(c, k) = Opens(c, j) /\ PathSet(k) = PathSet(j)
         /\ Policy(c, k) = Policy(c, j)
         /\ k.base = j.base => Shown(k) = Shown(j)
BY DEF Opens, Policy, PathSet, Shown

\* The stored request names the tool and what is executed.
LEMMA ShownFields ==
  ASSUME NEW k
  PROVE  Shown(k).tool = k.req.tool /\ Shown(k).new = k.new
BY DEF Shown

\* What the gate of a command comes to.
LEMMA CommandOutcomes ==
  ASSUME CommandGate
  PROVE  \/ (\E s : Result(s)) /\ UNCHANGED approvals
         \/ /\ CommandApproval(call) # 0 /\ UNCHANGED approvals
            /\ LET a == CommandApproval(call)
               IN \E s \in {"failed", "approval_required"}, l \in {"act", "result"} :
                    /\ call' = [call EXCEPT !.by = a, !.status = s, !.at = l]
                    /\ l = "act" => Matches(a, call) /\ Decided(a) = "approved"
         \/ Ask(call) /\ AskResult(call)
         \/ Policy(cfg, call) = "allow" /\ To("act") /\ UNCHANGED approvals
<1> DEFINE v == ValidateCommand(Class[call.new])
           d == Policy(cfg, call)
           a == CommandApproval(call)
           bad == v = "raise" \/ (d # "deny" /\ ~CommandInScope(Scope,
                    IF call.new \in ReadOnly THEN "read" ELSE "other",
                    PathSet(call), Workdir))
<1>1. CASE bad
  BY <1>1, Zenon DEF CommandGate
<1>2. CASE ~bad /\ v # "raise" /\ d = "deny"
  BY <1>2, Zenon DEF CommandGate
<1>3. CASE ~bad /\ ~(v # "raise" /\ d = "deny")
  BY <1>3, Zenon DEF CommandGate
<1>. QED
  BY <1>1, <1>2, <1>3

\* The call keeps its fields, and its request while it lasts.
LEMMA ShapeStep == Shape /\ [Next]_vars => Shape'
<1> SUFFICES ASSUME Shape, [Next]_vars PROVE Shape'
  OBVIOUS
<1> USE Fields DEF Shape, Live, Early, Ends, task
<1>1. ASSUME NEW r \in Requests, NEW aid, Begin(r, aid) PROVE Shape'
  <2>1. UNCHANGED pending
    BY <1>1 DEF Begin
  <2>2. CASE call' = [Quiet EXCEPT !.at = "raised"]
    BY <2>1, <2>2 DEF Quiet
  <2>3. CASE call' = Started(cfg, r, aid)
    BY <2>1, <2>3, StartedFields
  <2>. QED
    BY <1>1, <2>2, <2>3 DEF Begin
<1>2. ASSUME NEW hs \in HookLists, BeforeHooks(hs) PROVE Shape'
  BY <1>2 DEF BeforeHooks
<1>3. ASSUME NEW hs \in HookLists, BeforePatchHooks(hs) PROVE Shape'
  BY <1>3 DEF BeforePatchHooks
<1>4. ASSUME NEW hs \in HookLists, Dispatch(hs) PROVE Shape'
  <2>1. UNCHANGED pending /\ call.at = "run"
    BY <1>4 DEF Dispatch
  <2>2. CASE Result("blocked")
    BY <2>1, <2>2 DEF Result
  <2>3. CASE \E s \in {"completed", "failed", "approval_required", "blocked"} :
               call' = [call EXCEPT !.at = "result", !.status = s,
                                    !.ran = s \in {"completed", "failed"}]
    BY <2>1, <2>3
  <2>. QED
    BY <1>4, <2>2, <2>3 DEF Dispatch
<1>5. ASSUME NEW hs \in HookLists, AskHooks(hs) PROVE Shape'
  <2>1. UNCHANGED pending /\ call.at = "ask"
    BY <1>5 DEF AskHooks
  <2>2. CASE call' = [call EXCEPT !.at = "result", !.status = "ok"]
    BY <2>1, <2>2
  <2>3. CASE Publish("blocked", "return")
    BY <2>1, <2>3 DEF Publish
  <2>. QED
    BY <1>5, <2>2, <2>3 DEF AskHooks
<1>6. ASSUME NEW hs \in HookLists, FailedHooks(hs) PROVE Shape'
  <2> DEFINE k == Started(cfg, call.req, call.aid)
  <2>1. UNCHANGED pending /\ call.at = "failedHooks"
    BY <1>6 DEF FailedHooks
  <2>2. CASE call' = [k EXCEPT !.started = call.started + 1,
                               !.base = call.base, !.ended = call.ended]
    <3> HIDE DEF k
    <3>1. DOMAIN k = DOMAIN Quiet /\ k.at = "before" /\ k.req = call.req
          /\ k.open \in BOOLEAN /\ k.ran \in BOOLEAN
      BY StartedFields DEF k
    <3>. QED
      BY <2>1, <2>2, <3>1
  <2>3. CASE To("return")
    BY <2>1, <2>3 DEF To
  <2>. QED
    BY <1>6, <2>2, <2>3 DEF FailedHooks
<1>7. ASSUME NEW hs \in HookLists, Complete(hs) PROVE Shape'
  <2>1. UNCHANGED pending /\ call.at = "result"
    BY <1>7 DEF Complete
  <2>2. PICK e : Publish(e, "return")
    BY <1>7 DEF Complete
  <2>. QED
    BY <2>1, <2>2 DEF Publish
<1>8. CASE TokenStops
  BY <1>8 DEF TokenStops
<1>22. CASE WorktreeFails \/ DryRun
  BY <1>22, ZenonT(40) DEF WorktreeFails, DryRun, Result
<1>19. CASE Return
  <2>1. call' = Quiet /\ call.req \in Requests
    BY <1>19 DEF Return
  <2>2. \/ pending' = pending
        \/ pending'.req = call.req
    BY <1>19 DEF Return
  <2>. QED
    BY <2>1, <2>2
<1>9. CASE WriteAct
  BY <1>9 DEF WriteAct
<1>20. CASE WriteRead \/ PatchRead
  <2>1. UNCHANGED pending /\ call.at = "run"
    BY <1>20 DEF WriteRead, PatchRead
  <2>2. \/ call' = [call EXCEPT !.at = "gate", !.base = files]
        \/ call' = [call EXCEPT !.at = "gate"]
        \/ \E s : call' = [call EXCEPT !.at = "result", !.status = s]
    BY <1>20 DEF WriteRead, PatchRead
  <2>. QED
    BY <2>1, <2>2, ZenonT(40)
<1>10. CASE WriteGate
  BY <1>10, ZenonT(40) DEF WriteGate, Result, AskResult
<1>11. CASE PatchGate
  BY <1>11, ZenonT(40) DEF PatchGate, Result, AskResult
<1>12. CASE PatchFile
  <2>1. UNCHANGED pending /\ call.at = "act"
    BY <1>12 DEF PatchFile
  <2>2. CASE call' = [call EXCEPT !.done = @ \cup {NextPath}, !.ran = TRUE]
    BY <2>1, <2>2
  <2>3. CASE Result("failed")
    BY <2>1, <2>3 DEF Result
  <2>. QED
    BY <1>12, <2>2, <2>3 DEF PatchFile
<1>23. CASE PatchApplied
  BY <1>23 DEF PatchApplied, Result
<1>13. CASE CommandGate
  <2>1. UNCHANGED pending /\ call.at = "run"
    BY <1>13 DEF CommandGate
  <2>2. ASSUME NEW s, Result(s) PROVE Shape'
    BY <2>1, <2>2 DEF Result
  <2>4. CASE AskResult(call) \/ To("act")
    BY <2>1, <2>4, ZenonT(40) DEF AskResult, To
  <2>. QED
    <3>1. CASE \E s \in {"failed", "approval_required"}, l \in {"act", "result"} :
                 call' = [call EXCEPT !.by = CommandApproval(call), !.status = s, !.at = l]
      BY <2>1, <3>1
    <3>. QED
      BY <1>13, <2>2, <2>4, <3>1, CommandOutcomes
<1>14. CASE CommandAct \/ OtherTool
  BY <1>14, ZenonT(40) DEF CommandAct, OtherTool
<1>15. CASE Blocked
  BY <1>15 DEF Blocked, Publish
<1>24. CASE PatchInvalid
  BY <1>24 DEF PatchInvalid, Publish
<1>25. CASE ToolFailed
  BY <1>25 DEF ToolFailed, Publish
<1>21. CASE WaitApproval
  BY <1>21 DEF WaitApproval, To
<1>16. ASSUME NEW a \in DOMAIN approvals, NEW d, NEW w \in BOOLEAN, Decide(a, d, w)
       PROVE  Shape'
  <2>1. CASE pending.at = "waits" /\ stored = "waiting_approval"
    <3>1. pending' = Quiet
      BY <1>16, <2>1 DEF Decide
    <3>2. CASE call' = [Started(cfg', pending.req, a) EXCEPT !.base = pending.base]
      <4> DEFINE k == Started(cfg', pending.req, a)
      <4> HIDE DEF k
      <4>1. DOMAIN k = DOMAIN Quiet /\ k.at = "before" /\ k.req = pending.req
            /\ k.open \in BOOLEAN /\ k.ran \in BOOLEAN /\ k.started = 1 /\ k.ended = 0
        BY StartedFields DEF k
      <4>2. call' = [k EXCEPT !.base = pending.base]
        BY <3>2 DEF k
      <4>. QED
        BY <2>1, <3>1, <4>1, <4>2
    <3>3. CASE UNCHANGED call
      BY <3>1, <3>3
    <3>. QED
      BY <1>16, <2>1, <3>2, <3>3 DEF Decide
  <2>2. CASE ~(pending.at = "waits" /\ stored = "waiting_approval")
    <3>1. \E o \in BOOLEAN : call' = [call EXCEPT !.open = o]
      BY <1>16, <2>2 DEF Decide, Opens
    <3>2. UNCHANGED pending
      BY <1>16, <2>2 DEF Decide
    <3>. QED
      BY <3>1, <3>2
  <2>. QED
    BY <2>1, <2>2
<1>17. ASSUME NEW c \in Configs, SaveConfig(c) PROVE Shape'
  BY <1>17 DEF SaveConfig
<1>18. CASE (\E p \in Paths : EditFile(p)) \/ Pause \/ UNCHANGED vars
  BY <1>18 DEF EditFile, Pause, vars
<1>. QED
  BY <1>1, <1>2, <1>3, <1>4, <1>5, <1>6, <1>7, <1>8, <1>9, <1>10, <1>11, <1>12,
     <1>13, <1>14, <1>15, <1>16, <1>17, <1>18, <1>19, <1>20, <1>21,
     <1>22, <1>23, <1>24, <1>25 DEF Next, ThreadStep

-----------------------------------------------------------------------------
(* Approvals and patches.                                                    *)

\* How a step may change the approvals: a gate asks, or the user decides.
LEMMA ApprovalMoves ==
  ASSUME [Next]_vars
  PROVE  \/ UNCHANGED approvals
         \/ Ask(call) /\ AskResult(call)
         \/ \E a \in DOMAIN approvals, d \in {"approved", "rejected"} :
              /\ Decided(a) = "none"
              /\ approvals' = [approvals EXCEPT ![a] = [@ EXCEPT !.decision = d]]
<1>1. CASE CommandGate
  BY <1>1, CommandOutcomes
<1>2. CASE WriteGate
  BY <1>2, Zenon DEF WriteGate
<1>3. CASE PatchGate
  BY <1>3, Zenon DEF PatchGate
<1>4. ASSUME NEW a \in DOMAIN approvals, NEW d \in {"approved", "rejected"},
             NEW w \in BOOLEAN, Decide(a, d, w)
      PROVE  /\ Decided(a) = "none"
             /\ approvals' = [approvals EXCEPT ![a] = [@ EXCEPT !.decision = d]]
  BY <1>4, Zenon DEF Decide
<1>5. CASE ThreadStep /\ ~(CommandGate \/ WriteGate \/ PatchGate)
  BY <1>5, Zenon DEF ThreadStep, Begin, BeforeHooks, BeforePatchHooks, Dispatch, AskHooks,
     FailedHooks, Complete, TokenStops, WorktreeFails, WriteRead, WriteAct, PatchRead,
     DryRun, PatchFile, PatchApplied, CommandAct, OtherTool, Blocked, WaitApproval,
     PatchInvalid, ToolFailed, Return
<1>6. CASE \/ \E c \in Configs : SaveConfig(c)
           \/ \E p \in Paths : EditFile(p)
           \/ Pause
           \/ UNCHANGED vars
  BY <1>6 DEF SaveConfig, EditFile, Pause, vars
<1>. QED
  BY <1>1, <1>2, <1>3, <1>4, <1>5, <1>6 DEF Next

\* How a step may change the patches: a gate records one or approves the one it
\* found, and the last file of a patch closes it.
LEMMA PatchMoves ==
  ASSUME [Next]_vars
  PROVE  \/ UNCHANGED patches
         \/ \E s \in {"proposed", "approved"} : SavePatch(call, s)
         \/ patches' = [patches EXCEPT ![FoundPatch(call)] = [@ EXCEPT !.status = "approved"]]
         \/ /\ call.done = PathSet(call)
            /\ patches' = [patches EXCEPT ![call.patch] = [@ EXCEPT !.status = "applied"]]
<1>1. CASE PatchApplied
  BY <1>1, Zenon DEF PatchApplied
<1>2. CASE PatchGate
  BY <1>2, Zenon DEF PatchGate
<1>3. CASE ThreadStep /\ ~(PatchApplied \/ PatchGate)
  BY <1>3, Zenon DEF ThreadStep, Begin, BeforeHooks, BeforePatchHooks, Dispatch, AskHooks,
     FailedHooks, Complete, TokenStops, WorktreeFails, WriteRead, WriteGate, WriteAct,
     PatchRead, DryRun, PatchFile, CommandGate, CommandAct, OtherTool, Blocked,
     WaitApproval, PatchInvalid, ToolFailed, Return
<1>4. ASSUME NEW a, NEW d, NEW w, Decide(a, d, w) PROVE UNCHANGED patches
  BY <1>4, Zenon DEF Decide
<1>5. CASE \/ \E c \in Configs : SaveConfig(c)
           \/ \E p \in Paths : EditFile(p)
           \/ Pause
           \/ UNCHANGED vars
  BY <1>5 DEF SaveConfig, EditFile, Pause, vars
<1>. QED
  BY <1>1, <1>2, <1>3, <1>4, <1>5 DEF Next

\* Both stay sequences of records, and the approvals only grow.
LEMMA LedgersStep ==
  ASSUME Ledgers, [Next]_vars
  PROVE  /\ Ledgers'
         /\ Len(approvals) \in Nat /\ DOMAIN approvals = 1 .. Len(approvals)
         /\ Len(approvals') \in Nat /\ DOMAIN approvals' = 1 .. Len(approvals')
         /\ Len(approvals) <= Len(approvals')
<1> DEFINE Recs(s, f) == \A i \in DOMAIN s : DOMAIN s[i] = {"req", f}
<1>1. Len(approvals) \in Nat /\ DOMAIN approvals = 1 .. Len(approvals)
  BY DEF Ledgers, IsSeq
<1>2. /\ IsSeq(approvals') /\ Recs(approvals', "decision")
      /\ Len(approvals') \in {Len(approvals), Len(approvals) + 1}
  <2>1. CASE UNCHANGED approvals
    BY <2>1 DEF Ledgers
  <2>2. CASE Ask(call)
    <3> DEFINE x == [req |-> Shown(call), decision |-> "none"]
    <3>1. approvals' = Append(approvals, x) /\ DOMAIN x = {"req", "decision"}
      BY <2>2 DEF Ask
    <3> HIDE DEF x
    <3>. QED
      BY <3>1, <1>1, AppendSeq DEF Ledgers
  <2>3. CASE \E a \in DOMAIN approvals, d \in {"approved", "rejected"} :
               approvals' = [approvals EXCEPT ![a] = [@ EXCEPT !.decision = d]]
    <3>1. PICK a \in DOMAIN approvals, d \in {"approved", "rejected"} :
                 approvals' = [approvals EXCEPT ![a] = [approvals[a] EXCEPT !.decision = d]]
      BY <2>3
    <3> DEFINE x == [approvals[a] EXCEPT !.decision = d]
    <3>2. DOMAIN x = {"req", "decision"}
      BY DEF Ledgers
    <3>3. approvals' = [approvals EXCEPT ![a] = x]
      BY <3>1
    <3> HIDE DEF x
    <3>4. IsSeq(approvals') /\ Len(approvals') = Len(approvals)
          /\ DOMAIN approvals' = DOMAIN approvals
      BY <3>3, ExceptIsSeq DEF Ledgers
    <3>. QED
      BY <3>2, <3>3, <3>4 DEF Ledgers
  <2>. QED
    BY <2>1, <2>2, <2>3, ApprovalMoves
<1>3. IsSeq(patches') /\ Recs(patches', "status")
  <2>1. CASE UNCHANGED patches
    BY <2>1 DEF Ledgers
  <2>2. ASSUME NEW s, SavePatch(call, s) PROVE IsSeq(patches') /\ Recs(patches', "status")
    <3> DEFINE x == [req |-> Shown(call), status |-> s]
    <3>1. patches' = Append(patches, x) /\ DOMAIN x = {"req", "status"}
      BY <2>2 DEF SavePatch
    <3> HIDE DEF x
    <3>. QED
      BY <3>1, AppendSeq DEF Ledgers
  <2>3. ASSUME NEW f, NEW s,
               patches' = [patches EXCEPT ![f] = [patches[f] EXCEPT !.status = s]]
        PROVE  IsSeq(patches') /\ Recs(patches', "status")
    <3> DEFINE x == [patches[f] EXCEPT !.status = s]
    <3>2. f \in DOMAIN patches => DOMAIN x = {"req", "status"}
      BY DEF Ledgers
    <3>3. patches' = [patches EXCEPT ![f] = x]
      BY <2>3
    <3> HIDE DEF x
    <3>4. IsSeq(patches') /\ DOMAIN patches' = DOMAIN patches
      BY <3>3, ExceptIsSeq DEF Ledgers
    <3>. QED
      BY <3>2, <3>3, <3>4 DEF Ledgers
  <2>. QED
    BY <2>1, <2>2, <2>3, PatchMoves
<1>. QED
  BY <1>1, <1>2, <1>3 DEF Ledgers, IsSeq


-----------------------------------------------------------------------------
(* Who let the call act.                                                     *)

\* The approval a command finds is one of the task's.
LEMMA CommandApprovalKnown ==
  ASSUME Ledgers, Known
  PROVE  CommandApproval(call) \in 0 .. Len(approvals)
<1>1. Len(approvals) \in Nat /\ DOMAIN approvals = 1 .. Len(approvals)
  BY DEF Ledgers, IsSeq
<1> DEFINE same == {a \in DOMAIN approvals : approvals[a].req.tool = "run_command"
                                             /\ approvals[a].req.new = call.new}
<1>2. CASE call.aid # 0 \/ same = {}
  BY <1>1, <1>2 DEF CommandApproval, Known
<1>3. CASE call.aid = 0 /\ same # {}
  <2>1. same \in SUBSET (0 .. Len(approvals)) /\ same # {}
    BY <1>1, <1>3
  <2>4. \E a \in same : \A b \in same : b <= a
    <3> HIDE DEF same
    <3>. QED
      BY <1>1, <2>1, GreatestExists
  <2>2. CommandApproval(call) = CHOOSE a \in same : \A b \in same : b <= a
    BY <1>3 DEF CommandApproval
  <2>3. CommandApproval(call) \in same
    BY <2>2, <2>4
  <2>. QED
    BY <1>1, <2>3
<1>. QED
  BY <1>2, <1>3

\* What the gates of write_file and apply_patch let through.
LEMMA GateOpens ==
  ASSUME Shape, Known, OpenSeen, call.at = "gate", call.req.tool \in Gated
  PROVE  /\ GateWrite(call) = "approved" =>
              /\ call.aid # 0 /\ approvals[call.aid].decision = "approved"
              /\ Matches(call.aid, call)
         /\ GateWrite(call) = "allow" => call.aid = 0 /\ call.open
<1>1. CASE call.aid # 0 /\ ~Matches(call.aid, call)
  BY <1>1 DEF GateWrite
<1>2. CASE call.aid # 0 /\ Matches(call.aid, call)
  <2>1. GateWrite(call) = IF Decided(call.aid) = "approved" THEN "approved" ELSE "undecided"
    BY <1>2 DEF GateWrite
  <2>. QED
    BY <1>2, <2>1 DEF Decided
<1>3. CASE call.aid = 0
  <2>1. GateWrite(call) = Policy(cfg, call)
    BY <1>3 DEF GateWrite
  <2>2. Policy(cfg, call) # "approved"
    BY DEF Policy, Evaluate
  <2>3. Policy(cfg, call) = "allow" => call.open
    BY DEF OpenSeen, Opens, Live, Early
  <2>. QED
    BY <1>3, <2>1, <2>2, <2>3
<1>. QED
  BY <1>1, <1>2, <1>3

Auth == Known /\ OpenSeen /\ EffectAuthorised

\* The call goes on as it was.
LEMMA GoesOn ==
  ASSUME Shape, Ledgers, Auth, call.at \in Live,
         UNCHANGED <<cfg, approvals>>,
         tainted' = tainted \/ call.req.tool = "other",
         call'.at \in Live,
         call'.at \in Early => call.at \in Early,
         call'.at = "act" => call.at = "act" /\ call'.base = call.base,
         call'.req = call.req, call'.new = call.new, call'.aid = call.aid,
         call'.by = call.by, call'.open = call.open
  PROVE  Auth'
<1>1. Known'
  BY DEF Auth, Known
<1>2. OpenSeen'
  <2>1. CASE tainted' = tainted
    <3>1. Opens(cfg, call)' = Opens(cfg, call)
      BY <2>1 DEF Opens, Policy
    <3>. QED
      BY <3>1 DEF Auth, OpenSeen
  <2>2. CASE call.req.tool = "other"
    BY <2>2 DEF OpenSeen, Opens, Gated
  <2>. QED
    BY <2>1, <2>2
<1>3. EffectAuthorised'
  <2>1. CASE call'.at = "act"
    <3>1. Shown(call)' = Shown(call)
      BY <2>1 DEF Shown
    <3>. QED
      BY <2>1, <3>1 DEF Auth, EffectAuthorised
  <2>2. CASE call'.at # "act"
    BY <2>2 DEF EffectAuthorised
  <2>. QED
    BY <2>1, <2>2
<1>. QED
  BY <1>1, <1>2, <1>3 DEF Auth

\* The call starts, from a request or once more, and the policy is asked.
LEMMA StartsAuth ==
  ASSUME Ledgers', call'.aid \in 0 .. Len(approvals'),
         call'.at \in {"before", "beforePatch", "run"}, call'.by = 0,
         Opens(cfg, call)' => call'.open
  PROVE  Auth'
<1>1. Len(approvals') \in Nat
  BY DEF Ledgers, IsSeq
<1>. QED
  BY <1>1 DEF Auth, Known, OpenSeen, EffectAuthorised, Early

\* The call is over, or has not begun.
LEMMA RestsAuth ==
  ASSUME Ledgers', call'.aid \in 0 .. Len(approvals'),
         call'.by \in 0 .. Len(approvals'), call'.at \in {"idle", "raised"}
  PROVE  Auth'
BY DEF Auth, Known, OpenSeen, EffectAuthorised, Early, Live, Ends

\* The gate asks the user.
LEMMA AsksAuth ==
  ASSUME Shape, Ledgers, Ledgers', Auth, Ask(call), AskResult(call),
         UNCHANGED <<cfg, tainted>>, call.at \in Live
  PROVE  Auth'
<1>1. Len(approvals) \in Nat /\ Len(approvals') = Len(approvals) + 1
  BY AppendSeq DEF Ask, Ledgers
<1>2. call'.at = "result" /\ call'.req = call.req /\ call'.new = call.new
      /\ call'.aid = call.aid /\ call'.by = Len(approvals) + 1 /\ call'.open = call.open
  BY Fields DEF Shape, AskResult
<1>3. (Opens(cfg, call))' = Opens(cfg, call)
  BY <1>2 DEF Opens, Policy
<1>. QED
  BY <1>1, <1>2, <1>3 DEF Auth, Known, OpenSeen, EffectAuthorised, Early, Live

\* A decision does not touch the approval that let the call act.
LEMMA EffectStays ==
  ASSUME Ledgers, Auth, call'.at = call.at, call'.req = call.req, call'.new = call.new,
         call'.base = call.base, call'.by = call.by, call.open => call'.open,
         \/ UNCHANGED approvals
         \/ \E a \in DOMAIN approvals, d \in {"approved", "rejected"} :
              /\ Decided(a) = "none"
              /\ approvals' = [approvals EXCEPT ![a] = [@ EXCEPT !.decision = d]]
  PROVE  EffectAuthorised'
<1>1. (Shown(call))' = Shown(call)
  BY DEF Shown
<1>2. call.at = "act" /\ call.by # 0 => approvals'[call.by] = approvals[call.by]
  <2>1. call.by # 0 => call.by \in DOMAIN approvals
    BY DEF Auth, Known, Ledgers, IsSeq
  <2>2. ASSUME NEW a \in DOMAIN approvals, NEW d \in {"approved", "rejected"},
               Decided(a) = "none", call.at = "act", call.by # 0,
               approvals' = [approvals EXCEPT ![a] = [@ EXCEPT !.decision = d]]
        PROVE  approvals'[call.by] = approvals[call.by]
    <3>1. call.by # a
      BY <2>2 DEF Auth, EffectAuthorised, Decided
    <3>. QED
      BY <2>1, <2>2, <3>1
  <2>. QED
    BY <2>2
<1>. QED
  BY <1>1, <1>2 DEF Auth, EffectAuthorised

\* A change of the policy is noticed by the call that is under way.
LEMMA ReopensAuth ==
  ASSUME Shape, Ledgers, Ledgers', Auth, UNCHANGED tainted,
         call' = [call EXCEPT !.open = @ \/ (call.at # "idle" /\ call.at # "raised"
                                              /\ Opens(cfg', call))],
         \/ UNCHANGED approvals
         \/ \E a \in DOMAIN approvals, d \in {"approved", "rejected"} :
              /\ Decided(a) = "none"
              /\ approvals' = [approvals EXCEPT ![a] = [@ EXCEPT !.decision = d]],
         Len(approvals) <= Len(approvals')
  PROVE  Auth'
<1>1. call'.at = call.at /\ call'.req = call.req /\ call'.new = call.new
      /\ call'.base = call.base /\ call'.aid = call.aid /\ call'.by = call.by
  BY Fields DEF Shape
<1>2. call.open => call'.open
  BY Fields DEF Shape
<1>3. call.at \in Live /\ Opens(cfg', call) => call'.open
  BY Fields DEF Shape, Live, Early, Ends
<1>4. (Opens(cfg, call))' = Opens(cfg', call)
  BY <1>1 DEF Opens, Policy
<1>5. Known'
  BY <1>1 DEF Auth, Known, Ledgers, IsSeq
<1>6. OpenSeen'
  BY <1>1, <1>3, <1>4 DEF OpenSeen
<1>7. EffectAuthorised'
  BY <1>1, <1>2, EffectStays
<1>. QED
  BY <1>5, <1>6, <1>7 DEF Auth

\* Every step keeps what an acting call is authorised by.
LEMMA AuthStep ==
  ASSUME Shape, Ledgers, Auth, [Next]_vars
  PROVE  Auth'
<1>a. Ledgers' /\ Len(approvals) \in Nat /\ Len(approvals') \in Nat
      /\ Len(approvals) <= Len(approvals')
      /\ DOMAIN approvals = 1 .. Len(approvals)
  BY LedgersStep
<1>b. call.aid \in 0 .. Len(approvals) /\ call.by \in 0 .. Len(approvals)
  BY DEF Auth, Known
<1>c. DOMAIN call = DOMAIN Quiet
  BY DEF Shape
<1> USE Fields DEF Live, Early, Ends
<1>1. ASSUME NEW r \in Requests, NEW aid \in 0 .. Len(approvals), Begin(r, aid) PROVE Auth'
  <2>1. UNCHANGED <<cfg, tainted, approvals>>
    BY <1>1 DEF Begin, env
  <2>2. CASE call' = [Quiet EXCEPT !.at = "raised"]
    BY <1>a, <2>2, RestsAuth
  <2>3. CASE call' = Started(cfg, r, aid)
    <3>1. call'.at = "before" /\ call'.by = 0 /\ call'.aid = aid
          /\ call'.open = Opens(cfg, call') /\ call'.open \in BOOLEAN
      BY <2>3, StartedFields
    <3>2. Opens(cfg, call)' = Opens(cfg, call')
      BY <2>1 DEF Opens, Policy
    <3>. QED
      BY <1>a, <2>1, <3>1, <3>2, StartsAuth
  <2>. QED
    BY <1>1, <2>2, <2>3 DEF Begin
<1>2. ASSUME NEW hs \in HookLists, BeforeHooks(hs) \/ BeforePatchHooks(hs) PROVE Auth'
  <2>1. UNCHANGED <<cfg, tainted, approvals>> /\ call.by = 0
    BY <1>2 DEF BeforeHooks, BeforePatchHooks, env, Auth, Known
  <2>2. CASE call' = [call EXCEPT !.at = "raised"]
    BY <1>a, <1>b, <1>c, <2>1, <2>2, RestsAuth
  <2>3. ASSUME NEW l \in {"beforePatch", "run"}, NEW n,
               LET k == [call EXCEPT !.at = l, !.new = n]
               IN call' = [k EXCEPT !.open = @ \/ Opens(cfg, k)]
        PROVE  Auth'
    <3> DEFINE k == [call EXCEPT !.at = l, !.new = n]
    <3>1. k.req = call.req /\ k.aid = call.aid /\ k.by = call.by /\ k.at = l /\ k.new = n
          /\ DOMAIN k = DOMAIN Quiet
      BY <1>c
    <3> HIDE DEF k
    <3>2. call' = [k EXCEPT !.open = k.open \/ Opens(cfg, k)]
      BY <2>3 DEF k
    <3>3. call'.req = k.req /\ call'.new = k.new /\ call'.aid = k.aid /\ call'.by = k.by
          /\ call'.at = k.at
      BY <3>1, <3>2
    <3>4. Opens(cfg, k) => call'.open
      BY <3>1, <3>2
    <3>5. Opens(cfg, call)' = Opens(cfg, k)
      BY <2>1, <3>3 DEF Opens, Policy
    <3>. QED
      BY <1>a, <1>b, <2>1, <3>1, <3>3, <3>4, <3>5, StartsAuth
  <2>4. CASE BeforeHooks(hs)
    <3> DEFINE o == FireHooks(cfg, hs)
               l == IF call.req.tool = "apply_patch" THEN "beforePatch" ELSE "run"
               n == IF o.rewrite THEN Rewritten[call.req.tool] ELSE call.new
               k == [call EXCEPT !.at = l, !.new = n]
    <3>1. call' = [call EXCEPT !.at = "raised"] \/ call' = [k EXCEPT !.open = @ \/ Opens(cfg, k)]
      BY <2>4, Zenon DEF BeforeHooks
    <3>2. l \in {"beforePatch", "run"}
      OBVIOUS
    <3> HIDE DEF l, n
    <3>. QED
      BY <2>2, <2>3, <3>1, <3>2
  <2>5. CASE BeforePatchHooks(hs)
    <3> DEFINE o == FireHooks(cfg, hs)
               n == IF o.rewrite THEN Rewritten[call.req.tool] ELSE call.new
               k == [call EXCEPT !.at = "run", !.new = n]
    <3>1. call' = [call EXCEPT !.at = "raised"] \/ call' = [k EXCEPT !.open = @ \/ Opens(cfg, k)]
      BY <2>5, Zenon DEF BeforePatchHooks
    <3> HIDE DEF n
    <3>. QED
      BY <2>2, <2>3, <3>1
  <2>. QED
    BY <1>2, <2>4, <2>5
<1>3. ASSUME NEW hs \in HookLists, Dispatch(hs) PROVE Auth'
  <2>1. UNCHANGED <<cfg, tainted, approvals>> /\ call.at = "run"
    BY <1>3 DEF Dispatch, env
  <2>2. call'.at = "result" /\ call'.req = call.req /\ call'.new = call.new
        /\ call'.aid = call.aid /\ call'.by = call.by /\ call'.open = call.open
    BY <1>3, <1>c, ZenonT(40) DEF Dispatch, Result
  <2>. QED
    BY <2>1, <2>2, GoesOn
<1>4. ASSUME NEW hs \in HookLists, AskHooks(hs) PROVE Auth'
  <2>1. UNCHANGED <<cfg, tainted, approvals>> /\ call.at = "ask"
    BY <1>4 DEF AskHooks, env
  <2>2. call'.at \in {"result", "return"} /\ call'.req = call.req /\ call'.new = call.new
        /\ call'.aid = call.aid /\ call'.by = call.by /\ call'.open = call.open
    BY <1>4, <1>c, ZenonT(40) DEF AskHooks, Publish
  <2>. QED
    BY <2>1, <2>2, GoesOn
<1>5. ASSUME NEW hs \in HookLists, FailedHooks(hs) PROVE Auth'
  <2> DEFINE k == Started(cfg, call.req, call.aid)
  <2>1. UNCHANGED <<cfg, tainted, approvals>> /\ call.at = "failedHooks"
    BY <1>5 DEF FailedHooks, env
  <2>2. CASE call' = [k EXCEPT !.started = call.started + 1,
                               !.base = call.base, !.ended = call.ended]
    <3>1. DOMAIN k = DOMAIN Quiet /\ k.at = "before" /\ k.by = 0 /\ k.aid = call.aid
          /\ k.open = Opens(cfg, k) /\ k.open \in BOOLEAN
      BY StartedFields
    <3> HIDE DEF k
    <3>2. call'.at = "before" /\ call'.by = 0 /\ call'.aid = call.aid
          /\ call'.open = k.open /\ call'.req = k.req /\ call'.new = k.new
      BY <2>2, <3>1
    <3>3. Opens(cfg, call)' = Opens(cfg, k)
      BY <2>1, <3>2 DEF Opens, Policy
    <3>. QED
      BY <1>a, <1>b, <2>1, <3>1, <3>2, <3>3, StartsAuth
  <2>3. CASE To("return")
    <3>1. call'.at = "return" /\ call'.req = call.req /\ call'.new = call.new
          /\ call'.aid = call.aid /\ call'.by = call.by /\ call'.open = call.open
      BY <2>3, <1>c DEF To
    <3>. QED
      BY <2>1, <3>1, GoesOn
  <2>. QED
    BY <1>5, <2>2, <2>3 DEF FailedHooks
<1>6. ASSUME NEW hs \in HookLists, Complete(hs) PROVE Auth'
  <2>1. UNCHANGED <<cfg, tainted, approvals>> /\ call.at = "result"
    BY <1>6 DEF Complete, env
  <2>2. PICK e : Publish(e, "return")
    BY <1>6 DEF Complete
  <2>3. call'.at = "return" /\ call'.req = call.req /\ call'.new = call.new
        /\ call'.aid = call.aid /\ call'.by = call.by /\ call'.open = call.open
    BY <2>2, <1>c DEF Publish
  <2>. QED
    BY <2>1, <2>3, GoesOn
<1>7. CASE TokenStops \/ Return
  <2>1. UNCHANGED approvals
    BY <1>7 DEF TokenStops, Return
  <2>2. call'.at \in {"idle", "raised"} /\ call'.aid = 0 /\ call'.by = 0
    BY <1>7 DEF TokenStops, Return
  <2>. QED
    BY <1>a, <2>1, <2>2, RestsAuth
<1>8. CASE WorktreeFails \/ WriteRead \/ PatchRead
  <2>1. UNCHANGED <<cfg, tainted, approvals>> /\ call.at = "run"
    BY <1>8 DEF WorktreeFails, WriteRead, PatchRead, env
  <2>2. call'.at \in {"gate", "result"} /\ call'.req = call.req /\ call'.new = call.new
        /\ call'.aid = call.aid /\ call'.by = call.by /\ call'.open = call.open
    <3>1. CASE WorktreeFails
      BY <3>1, <1>c DEF WorktreeFails, Result
    <3>2. CASE WriteRead
      BY <3>2, <1>c DEF WriteRead
    <3>3. CASE PatchRead
      BY <3>3, <1>c DEF PatchRead
    <3>. QED
      BY <1>8, <3>1, <3>2, <3>3
  <2>. QED
    BY <2>1, <2>2, GoesOn
<1>9. CASE WriteAct \/ DryRun \/ PatchFile \/ PatchApplied
  <2>1. UNCHANGED <<cfg, tainted, approvals>> /\ call.at = "act"
    BY <1>9 DEF WriteAct, DryRun, PatchFile, PatchApplied, env
  <2>2. call'.at \in {"act", "result"} /\ call'.req = call.req /\ call'.new = call.new
        /\ call'.base = call.base
        /\ call'.aid = call.aid /\ call'.by = call.by /\ call'.open = call.open
    <3>1. CASE WriteAct
      BY <2>1, <3>1, <1>c DEF WriteAct
    <3>2. CASE DryRun \/ PatchApplied
      BY <2>1, <3>2, <1>c, ZenonT(40) DEF DryRun, PatchApplied, Result
    <3>3. CASE PatchFile
      <4>1. CASE call' = [call EXCEPT !.done = @ \cup {NextPath}, !.ran = TRUE]
        BY <2>1, <4>1, <1>c
      <4>2. CASE Result("failed")
        BY <2>1, <4>2, <1>c DEF Result
      <4>. QED
        BY <3>3, <4>1, <4>2 DEF PatchFile
    <3>. QED
      BY <1>9, <3>1, <3>2, <3>3
  <2>. QED
    BY <2>1, <2>2, GoesOn
<1>10. CASE CommandAct \/ OtherTool
  <2>1. UNCHANGED <<cfg, approvals>> /\ call.at \in {"act", "run"}
    BY <1>10 DEF CommandAct, OtherTool, env
  <2>2. tainted' = tainted \/ call.req.tool = "other"
    BY <1>10 DEF CommandAct, OtherTool, env
  <2>3. call'.at = "result" /\ call'.req = call.req /\ call'.new = call.new
        /\ call'.aid = call.aid /\ call'.by = call.by /\ call'.open = call.open
    BY <1>10, <1>c, ZenonT(40) DEF CommandAct, OtherTool
  <2>. QED
    BY <2>1, <2>2, <2>3, GoesOn
<1>11. CASE Blocked \/ PatchInvalid \/ ToolFailed \/ WaitApproval
  <2>1. UNCHANGED <<cfg, tainted, approvals>> /\ call.at = "result"
    BY <1>11 DEF Blocked, PatchInvalid, ToolFailed, WaitApproval, env
  <2>2. call'.at \in {"return", "failedHooks", "ask"} /\ call'.req = call.req
        /\ call'.new = call.new
        /\ call'.aid = call.aid /\ call'.by = call.by /\ call'.open = call.open
    <3>1. CASE Blocked
      BY <3>1, <1>c DEF Blocked, Publish
    <3>2. CASE PatchInvalid
      BY <3>2, <1>c DEF PatchInvalid, Publish
    <3>3. CASE ToolFailed
      BY <3>3, <1>c DEF ToolFailed, Publish
    <3>4. CASE WaitApproval
      BY <3>4, <1>c DEF WaitApproval, To
    <3>. QED
      BY <1>11, <3>1, <3>2, <3>3, <3>4
  <2>. QED
    BY <2>1, <2>2, GoesOn
<1>12. CASE (\E p \in Paths : EditFile(p)) \/ Pause \/ UNCHANGED vars
  <2>1. UNCHANGED <<cfg, tainted, approvals, call>>
    BY <1>12 DEF EditFile, Pause, vars, env
  <2>2. (Opens(cfg, call))' = Opens(cfg, call) /\ (Shown(call))' = Shown(call)
    BY <2>1 DEF Opens, Policy, Shown
  <2>3. Known' /\ OpenSeen'
    BY <2>1, <2>2 DEF Auth, Known, OpenSeen
  <2>4. EffectAuthorised'
    BY <2>1, <2>2 DEF Auth, EffectAuthorised
  <2>. QED
    BY <2>3, <2>4 DEF Auth
<1>13. ASSUME WriteGate \/ PatchGate PROVE Auth'
  <2>1. UNCHANGED <<cfg, tainted>> /\ call.at = "gate" /\ call.req.tool \in Gated
        /\ call.req.tool # "run_command" /\ call.by = 0
    BY <1>13 DEF WriteGate, PatchGate, env, Gated, Auth, Known
  <2>2. ASSUME NEW s, Result(s), UNCHANGED approvals PROVE Auth'
    <3>1. call'.at = "result" /\ call'.req = call.req /\ call'.new = call.new
          /\ call'.aid = call.aid /\ call'.by = call.by /\ call'.open = call.open
      BY <2>2, <1>c DEF Result
    <3>. QED
      BY <2>1, <2>2, <3>1, GoesOn
  <2>3. CASE Ask(call) /\ AskResult(call)
    BY <1>a, <2>1, <2>3, AsksAuth
  <2>4. ASSUME UNCHANGED approvals,
               call'.at = "act", call'.req = call.req, call'.new = call.new,
               call'.base = call.base, call'.aid = call.aid, call'.open = call.open,
               \/ GateWrite(call) = "approved" /\ call'.by = call.aid
               \/ GateWrite(call) = "allow" /\ call'.by \in {0, call.aid}
        PROVE  Auth'
    <3>1. Known'
      BY <1>b, <2>4 DEF Auth, Known
    <3>2. OpenSeen'
      <4>1. (Opens(cfg, call))' = Opens(cfg, call)
        BY <2>1, <2>4 DEF Opens, Policy
      <4>. QED
        BY <2>1, <2>4, <4>1 DEF Auth, OpenSeen
    <3>3. (Shown(call))' = Shown(call)
      BY <2>4 DEF Shown
    <3>4. CASE GateWrite(call) = "approved" /\ call'.by = call.aid
      <4>1. call.aid # 0 /\ approvals[call.aid].decision = "approved"
            /\ Matches(call.aid, call)
        BY <2>1, <3>4, GateOpens DEF Auth
      <4>2. approvals[call.aid].req = Shown(call)
        BY <2>1, <4>1 DEF Matches
      <4>3. EffectAuthorised'
        BY <2>4, <3>3, <3>4, <4>1, <4>2, ShownFields DEF EffectAuthorised
      <4>. QED
        BY <3>1, <3>2, <4>3 DEF Auth
    <3>5. CASE GateWrite(call) = "allow" /\ call'.by \in {0, call.aid}
      <4>1. call.aid = 0 /\ call.open
        BY <2>1, <3>5, GateOpens DEF Auth
      <4>2. EffectAuthorised'
        BY <2>4, <3>5, <4>1 DEF EffectAuthorised
      <4>. QED
        BY <3>1, <3>2, <4>2 DEF Auth
    <3>. QED
      BY <2>4, <3>4, <3>5
  <2>5. CASE WriteGate
    <3>1. \/ \E s \in {"failed", "blocked", "approval_required"} :
                Result(s) /\ UNCHANGED approvals
          \/ Ask(call) /\ AskResult(call)
          \/ /\ GateWrite(call) \in {"approved", "allow"} /\ UNCHANGED approvals
             /\ call' = [call EXCEPT !.at = "act", !.by = call.aid]
      BY <2>5, Zenon DEF WriteGate
    <3>2. CASE /\ GateWrite(call) \in {"approved", "allow"} /\ UNCHANGED approvals
               /\ call' = [call EXCEPT !.at = "act", !.by = call.aid]
      <4>1. call'.at = "act" /\ call'.req = call.req /\ call'.new = call.new
            /\ call'.base = call.base /\ call'.aid = call.aid /\ call'.open = call.open
            /\ call'.by = call.aid
        BY <1>c, <3>2
      <4>. QED
        BY <2>4, <3>2, <4>1
    <3>. QED
      BY <2>2, <2>3, <3>1, <3>2
  <2>6. CASE PatchGate
    <3>1. \/ \E s \in {"failed", "blocked", "approval_required"} :
                Result(s) /\ UNCHANGED approvals
          \/ Ask(call) /\ AskResult(call)
          \/ /\ GateWrite(call) = "allow" /\ UNCHANGED approvals
             /\ call' = [call EXCEPT !.at = "act", !.patch = Len(patches) + 1]
          \/ /\ GateWrite(call) = "approved" /\ UNCHANGED approvals
             /\ call' = [call EXCEPT !.at = "act", !.by = call.aid,
                                     !.patch = FoundPatch(call)]
      BY <2>6, Zenon DEF PatchGate
    <3>2. CASE /\ GateWrite(call) = "allow" /\ UNCHANGED approvals
               /\ call' = [call EXCEPT !.at = "act", !.patch = Len(patches) + 1]
      <4>1. call'.at = "act" /\ call'.req = call.req /\ call'.new = call.new
            /\ call'.base = call.base /\ call'.aid = call.aid /\ call'.open = call.open
            /\ call'.by = 0
        BY <1>c, <2>1, <3>2
      <4>. QED
        BY <2>4, <3>2, <4>1
    <3>3. CASE /\ GateWrite(call) = "approved" /\ UNCHANGED approvals
               /\ call' = [call EXCEPT !.at = "act", !.by = call.aid,
                                       !.patch = FoundPatch(call)]
      <4>1. call'.at = "act" /\ call'.req = call.req /\ call'.new = call.new
            /\ call'.base = call.base /\ call'.aid = call.aid /\ call'.open = call.open
            /\ call'.by = call.aid
        BY <1>c, <3>3
      <4>. QED
        BY <2>4, <3>3, <4>1
    <3>. QED
      BY <2>2, <2>3, <3>1, <3>2, <3>3
  <2>. QED
    BY <1>13, <2>5, <2>6
<1>14. CASE CommandGate
  <2> DEFINE a == CommandApproval(call)
  <2>1. UNCHANGED <<cfg, tainted>> /\ call.at = "run" /\ call.req.tool = "run_command"
        /\ call.by = 0
    BY <1>14 DEF CommandGate, env, Auth, Known
  <2>2. a \in 0 .. Len(approvals)
    BY CommandApprovalKnown DEF Auth
  <2> HIDE DEF a
  <2>3. CASE (\E s : Result(s)) /\ UNCHANGED approvals
    <3>1. call'.at = "result" /\ call'.req = call.req /\ call'.new = call.new
          /\ call'.aid = call.aid /\ call'.by = call.by /\ call'.open = call.open
      BY <2>3, <1>c DEF Result
    <3>. QED
      BY <2>1, <2>3, <3>1, GoesOn
  <2>4. CASE Ask(call) /\ AskResult(call)
    BY <1>a, <2>1, <2>4, AsksAuth
  <2>5. ASSUME NEW s \in {"failed", "approval_required"}, NEW l \in {"act", "result"},
               a # 0, UNCHANGED approvals,
               call' = [call EXCEPT !.by = a, !.status = s, !.at = l],
               l = "act" => Matches(a, call) /\ Decided(a) = "approved"
        PROVE  Auth'
    <3>1. call'.at = l /\ call'.req = call.req /\ call'.new = call.new
          /\ call'.aid = call.aid /\ call'.by = a /\ call'.open = call.open
      BY <1>c, <2>5
    <3>2. Known'
      BY <1>b, <2>2, <2>5, <3>1 DEF Known
    <3>3. OpenSeen'
      <4>1. (Opens(cfg, call))' = Opens(cfg, call)
        BY <2>1, <3>1 DEF Opens, Policy
      <4>. QED
        BY <2>1, <3>1, <4>1 DEF Auth, OpenSeen
    <3>4. l = "act" => approvals[a].decision = "approved"
                       /\ approvals[a].req.tool = call.req.tool
                       /\ approvals[a].req.new = call.new
      BY <2>1, <2>5 DEF Matches, Decided
    <3>5. EffectAuthorised'
      BY <2>1, <2>5, <3>1, <3>4 DEF EffectAuthorised
    <3>. QED
      BY <3>2, <3>3, <3>5 DEF Auth
  <2>6. CASE Policy(cfg, call) = "allow" /\ To("act") /\ UNCHANGED approvals
    <3>1. call'.at = "act" /\ call'.req = call.req /\ call'.new = call.new
          /\ call'.aid = call.aid /\ call'.by = 0 /\ call'.open = call.open
      BY <1>c, <2>1, <2>6 DEF To
    <3>2. call.open
      BY <2>1, <2>6 DEF Auth, OpenSeen, Opens, Gated
    <3>. QED
      BY <1>b, <2>6, <3>1, <3>2 DEF Auth, Known, OpenSeen, EffectAuthorised
  <2>. QED
    BY <1>14, <2>3, <2>4, <2>5, <2>6, CommandOutcomes DEF a
<1>15. ASSUME NEW c \in Configs, SaveConfig(c) PROVE Auth'
  <2>1. UNCHANGED <<tainted, approvals>> /\ cfg' = c
    BY <1>15 DEF SaveConfig
  <2>2. call' = [call EXCEPT !.open = call.open \/ (call.at \notin {"idle", "raised"}
                                                    /\ Opens(c, call))]
    BY <1>15 DEF SaveConfig
  <2>. QED
    BY <1>a, <2>1, <2>2, ReopensAuth
<1>16. ASSUME NEW a \in DOMAIN approvals, NEW d \in {"approved", "rejected"},
              NEW w \in BOOLEAN, Decide(a, d, w)
       PROVE  Auth'
  <2>1. UNCHANGED tainted /\ Decided(a) = "none"
    BY <1>16 DEF Decide
  <2>2. approvals' = [approvals EXCEPT ![a] = [@ EXCEPT !.decision = d]]
    BY <1>16 DEF Decide
  <2>3. CASE pending.at = "waits" /\ stored = "waiting_approval"
    <3>1. CASE d = "approved"
      <4> DEFINE k == Started(cfg', pending.req, a)
      <4>1. call' = [k EXCEPT !.base = pending.base]
        BY <1>16, <2>3, <3>1 DEF Decide
      <4>2. DOMAIN k = DOMAIN Quiet /\ k.at = "before" /\ k.by = 0 /\ k.aid = a
            /\ k.open = Opens(cfg', k) /\ k.open \in BOOLEAN
        BY StartedFields
      <4> HIDE DEF k
      <4>3. call'.at = "before" /\ call'.by = 0 /\ call'.aid = a
            /\ call'.open = k.open /\ call'.req = k.req /\ call'.new = k.new
        BY <4>1, <4>2
      <4>4. (Opens(cfg, call))' = Opens(cfg', k)
        BY <2>1, <4>3 DEF Opens, Policy
      <4>. QED
        BY <1>a, <4>2, <4>3, <4>4, StartsAuth
    <3>2. CASE d # "approved"
      <4>1. UNCHANGED <<cfg, call>>
        BY <1>16, <2>3, <3>2 DEF Decide
      <4>2. (Opens(cfg, call))' = Opens(cfg, call)
        BY <2>1, <4>1 DEF Opens, Policy
      <4>3. Known' /\ OpenSeen'
        BY <1>a, <1>b, <4>1, <4>2 DEF Auth, Known, OpenSeen
      <4>4. EffectAuthorised'
        BY <2>1, <2>2, <4>1, EffectStays
      <4>. QED
        BY <4>3, <4>4 DEF Auth
    <3>. QED
      BY <3>1, <3>2
  <2>4. CASE ~(pending.at = "waits" /\ stored = "waiting_approval")
    <3>1. call' = [call EXCEPT !.open = @ \/ (call.at # "idle" /\ call.at # "raised"
                                              /\ Opens(cfg', call))]
      BY <1>16, <2>4 DEF Decide
    <3>. QED
      BY <1>a, <2>1, <2>2, <3>1, ReopensAuth
  <2>. QED
    BY <2>3, <2>4
<1>. QED
  BY <1>1, <1>2, <1>3, <1>4, <1>5, <1>6, <1>7, <1>8, <1>9, <1>10, <1>11, <1>12, <1>13,
     <1>14, <1>15, <1>16, <1>a DEF Next, ThreadStep

-----------------------------------------------------------------------------
(* What the call reports.                                                    *)

\* Every step keeps the report in line with what was done.
LEMMA ProgressStep ==
  ASSUME Shape, Progress, [Next]_vars
  PROVE  Progress'
<1>a. DOMAIN call = DOMAIN Quiet /\ call.started \in Nat /\ call.ended \in Nat
      /\ call.ran \in BOOLEAN
  BY DEF Shape
<1>b. call'.req = call.req => (PathSet(call))' = PathSet(call)
  BY DEF PathSet
<1> USE Fields DEF Progress, Live, Early, Ends
<1>1. ASSUME NEW r \in Requests, NEW aid, Begin(r, aid) PROVE Progress'
  <2>1. CASE call' = [Quiet EXCEPT !.at = "raised"]
    BY <2>1
  <2>2. CASE call' = Started(cfg, r, aid)
    BY <2>2, StartedFields
  <2>. QED
    BY <1>1, <2>1, <2>2 DEF Begin
<1>2. ASSUME NEW hs \in HookLists, BeforeHooks(hs) \/ BeforePatchHooks(hs) PROVE Progress'
  <2>1. call.at \in {"before", "beforePatch"}
    BY <1>2 DEF BeforeHooks, BeforePatchHooks
  <2>2. call'.at \in {"beforePatch", "run", "raised"} /\ call'.req = call.req
        /\ call'.started = call.started /\ call'.ended = call.ended
        /\ call'.said = call.said /\ call'.ran = call.ran /\ call'.done = call.done
    <3>1. CASE BeforeHooks(hs)
      BY <1>a, <3>1 DEF BeforeHooks
    <3>2. CASE BeforePatchHooks(hs)
      BY <1>a, <3>2 DEF BeforePatchHooks
    <3>. QED
      BY <1>2, <3>1, <3>2
  <2>. QED
    BY <1>b, <2>1, <2>2
<1>3. ASSUME NEW hs \in HookLists, Dispatch(hs) PROVE Progress'
  <2>1. call.at = "run" /\ call.req.tool = "agent"
    BY <1>3 DEF Dispatch
  <2>2. call'.at = "result" /\ call'.req = call.req
        /\ call'.started = call.started /\ call'.ended = call.ended
        /\ call'.said = call.said /\ call'.done = call.done
    BY <1>3, <1>a, ZenonT(40) DEF Dispatch, Result
  <2>3. call'.ran => call.ran \/ call'.status \in {"completed", "failed"}
    <3>1. CASE Result("blocked")
      BY <1>a, <3>1 DEF Result
    <3>2. ASSUME NEW s \in {"completed", "failed", "approval_required", "blocked"},
                 call' = [call EXCEPT !.at = "result", !.status = s,
                                      !.ran = s \in {"completed", "failed"}]
          PROVE  call'.ran => call'.status \in {"completed", "failed"}
      BY <1>a, <3>2
    <3>. QED
      BY <1>3, <3>1, <3>2 DEF Dispatch
  <2>. QED
    BY <1>b, <2>1, <2>2, <2>3
<1>4. ASSUME NEW hs \in HookLists, AskHooks(hs) PROVE Progress'
  <2>1. call.at = "ask"
    BY <1>4 DEF AskHooks
  <2>2. CASE call' = [call EXCEPT !.at = "result", !.status = "ok"]
    BY <1>a, <1>b, <2>1, <2>2
  <2>3. CASE Publish("blocked", "return")
    BY <1>a, <1>b, <2>1, <2>3 DEF Publish
  <2>. QED
    BY <1>4, <2>2, <2>3 DEF AskHooks
<1>5. ASSUME NEW hs \in HookLists, FailedHooks(hs) PROVE Progress'
  <2> DEFINE k == Started(cfg, call.req, call.aid)
  <2>1. call.at = "failedHooks"
    BY <1>5 DEF FailedHooks
  <2>2. CASE call' = [k EXCEPT !.started = call.started + 1,
                               !.base = call.base, !.ended = call.ended]
    <3>1. DOMAIN k = DOMAIN Quiet /\ k.at = "before" /\ k.req = call.req /\ ~k.ran
          /\ k.done = {} /\ k.said = "none"
      BY StartedFields
    <3> HIDE DEF k
    <3>2. call'.at = "before" /\ call'.req = call.req /\ ~call'.ran /\ call'.done = {}
          /\ call'.said = "none" /\ call'.started = call.started + 1
          /\ call'.ended = call.ended
      BY <2>2, <3>1
    <3>. QED
      BY <1>a, <2>1, <3>2
  <2>3. CASE To("return")
    BY <1>a, <1>b, <2>1, <2>3 DEF To
  <2>. QED
    BY <1>5, <2>2, <2>3 DEF FailedHooks
<1>6. ASSUME NEW hs \in HookLists, Complete(hs) PROVE Progress'
  <2>1. call.at = "result"
    BY <1>6 DEF Complete
  <2>2. CASE call.req.tool = "agent" /\ Publish(AgentEvent(call.status), "return")
    <3>1. AgentEvent(call.status) = "blocked" => ~call.ran
      BY <2>1 DEF AgentEvent
    <3>2. call'.at = "return" /\ call'.req = call.req /\ call'.started = call.started
          /\ call'.ended = call.ended + 1 /\ call'.said = AgentEvent(call.status)
          /\ call'.ran = call.ran /\ call'.done = call.done
      BY <1>a, <2>2 DEF Publish
    <3>. QED
      BY <1>b, <2>1, <2>2, <3>1, <3>2
  <2>3. CASE /\ call.status \in {"written", "unchanged", "applied", "dry_run",
                                 "completed", "ok"}
             /\ Publish("completed", "return")
    BY <1>a, <1>b, <2>1, <2>3 DEF Publish
  <2>. QED
    BY <1>6, <2>2, <2>3 DEF Complete
<1>7. CASE TokenStops \/ Return
  BY <1>7 DEF TokenStops, Return
<1>8. CASE WorktreeFails \/ WriteRead \/ PatchRead
  <2>1. call.at = "run"
    BY <1>8 DEF WorktreeFails, WriteRead, PatchRead
  <2>2. call'.at \in {"gate", "result"} /\ call'.req = call.req
        /\ call'.started = call.started /\ call'.ended = call.ended
        /\ call'.said = call.said /\ call'.ran = call.ran /\ call'.done = call.done
    <3>1. CASE WorktreeFails
      BY <3>1, <1>a DEF WorktreeFails, Result
    <3>2. CASE WriteRead
      BY <3>2, <1>a DEF WriteRead
    <3>3. CASE PatchRead
      BY <3>3, <1>a DEF PatchRead
    <3>. QED
      BY <1>8, <3>1, <3>2, <3>3
  <2>. QED
    BY <1>b, <2>1, <2>2
<1>9. CASE WriteGate \/ PatchGate \/ CommandGate
  <2>1. call.at \in {"gate", "run"}
    BY <1>9 DEF WriteGate, PatchGate, CommandGate
  <2>2. call'.at \in {"act", "result"} /\ call'.req = call.req
        /\ call'.started = call.started /\ call'.ended = call.ended
        /\ call'.said = call.said /\ call'.ran = call.ran /\ call'.done = call.done
    <3>1. CASE WriteGate
      BY <3>1, <1>a, ZenonT(40) DEF WriteGate, Result, AskResult
    <3>2. CASE PatchGate
      BY <3>2, <1>a, ZenonT(40) DEF PatchGate, Result, AskResult
    <3>3. CASE CommandGate
      <4>1. CASE \E s \in {"failed", "approval_required"}, l \in {"act", "result"} :
                   call' = [call EXCEPT !.by = CommandApproval(call), !.status = s, !.at = l]
        BY <1>a, <4>1
      <4>2. CASE \E s : Result(s)
        BY <1>a, <4>2 DEF Result
      <4>3. CASE AskResult(call)
        BY <1>a, <4>3 DEF AskResult
      <4>4. CASE To("act")
        BY <1>a, <4>4 DEF To
      <4>. QED
        BY <3>3, <4>1, <4>2, <4>3, <4>4, CommandOutcomes
    <3>. QED
      BY <1>9, <3>1, <3>2, <3>3
  <2>. QED
    BY <1>b, <2>1, <2>2
<1>10. CASE WriteAct
  <2>1. call.at = "act" /\ call.req.tool = "write_file" /\ call.req \in Requests
    BY <1>10 DEF WriteAct, Shape
  <2>2. PathSet(call) = {call.req.paths[1]}
    BY <2>1, OnePath DEF PathSet
  <2>3. call'.at = "result" /\ call'.req = call.req /\ call'.started = call.started
        /\ call'.ended = call.ended /\ call'.said = call.said /\ call'.ran
        /\ call'.done = {call.req.paths[1]} /\ call'.status = "written"
    BY <1>10, <1>a DEF WriteAct
  <2>. QED
    BY <1>b, <2>1, <2>2, <2>3
<1>11. CASE DryRun
  BY <1>11, <1>a, <1>b DEF DryRun, Result
<1>12. CASE PatchFile
  <2>1. call.at = "act" /\ call.req.tool = "apply_patch" /\ ~call.req.dry
    BY <1>12 DEF PatchFile
  <2>2. CASE call' = [call EXCEPT !.done = @ \cup {NextPath}, !.ran = TRUE]
    <3>1. call'.at = "act" /\ call'.req = call.req /\ call'.started = call.started
          /\ call'.ended = call.ended /\ call'.said = call.said /\ call'.ran
      BY <1>a, <2>1, <2>2
    <3>. QED
      BY <1>b, <2>1, <3>1
  <2>3. CASE Result("failed")
    BY <1>a, <1>b, <2>1, <2>3 DEF Result
  <2>. QED
    BY <1>12, <2>2, <2>3 DEF PatchFile
<1>13. CASE PatchApplied
  BY <1>13, <1>a, <1>b DEF PatchApplied, Result
<1>14. CASE CommandAct
  <2>1. call.at = "act" /\ call.req.tool = "run_command"
    BY <1>14 DEF CommandAct
  <2>2. call'.at = "result" /\ call'.req = call.req /\ call'.started = call.started
        /\ call'.ended = call.ended /\ call'.said = call.said /\ call'.done = call.done
        /\ call'.status \in {"completed", "failed"} /\ call'.ran
    BY <1>14, <1>a DEF CommandAct
  <2>. QED
    BY <1>b, <2>1, <2>2
<1>15. CASE OtherTool
  <2>1. call.at = "run"
    BY <1>15 DEF OtherTool
  <2>2. call'.at = "result" /\ call'.req = call.req /\ call'.started = call.started
        /\ call'.ended = call.ended /\ call'.said = call.said /\ call'.done = call.done
        /\ call'.status \in {"completed", "failed"} /\ call'.ran
    BY <1>15, <1>a DEF OtherTool
  <2>. QED
    BY <1>b, <2>1, <2>2
<1>16. CASE Blocked
  BY <1>16, <1>a, <1>b DEF Blocked, Publish
<1>17. CASE PatchInvalid
  BY <1>17, <1>a, <1>b DEF PatchInvalid, Publish
<1>18. CASE ToolFailed
  BY <1>18, <1>a, <1>b DEF ToolFailed, Publish
<1>19. CASE WaitApproval
  BY <1>19, <1>a, <1>b DEF WaitApproval, To
<1>20. ASSUME NEW a, NEW d, NEW w \in BOOLEAN, Decide(a, d, w) PROVE Progress'
  <2>1. CASE pending.at = "waits" /\ stored = "waiting_approval" /\ d = "approved"
    <3> DEFINE k == Started(cfg', pending.req, a)
    <3>1. DOMAIN k = DOMAIN Quiet /\ k.at = "before" /\ k.started = 1 /\ k.ended = 0 /\ ~k.ran
          /\ k.done = {} /\ k.said = "none"
      BY StartedFields
    <3>2. call' = [k EXCEPT !.base = pending.base]
      BY <1>20, <2>1 DEF Decide
    <3> HIDE DEF k
    <3>. QED
      BY <3>1, <3>2
  <2>2. CASE pending.at = "waits" /\ stored = "waiting_approval" /\ d # "approved"
    <3>1. UNCHANGED call
      BY <1>20, <2>2 DEF Decide
    <3>. QED
      BY <1>b, <3>1
  <2>3. CASE ~(pending.at = "waits" /\ stored = "waiting_approval")
    <3>1. \E o \in BOOLEAN : call' = [call EXCEPT !.open = o]
      BY <1>20, <2>3 DEF Decide, Opens
    <3>. QED
      BY <1>a, <1>b, <3>1
  <2>. QED
    BY <2>1, <2>2, <2>3
<1>21. ASSUME NEW c \in Configs, SaveConfig(c) PROVE Progress'
  <2>1. \E o \in BOOLEAN : call' = [call EXCEPT !.open = o]
    BY <1>21 DEF SaveConfig, Opens
  <2>. QED
    BY <1>a, <1>b, <2>1
<1>22. CASE (\E p \in Paths : EditFile(p)) \/ Pause \/ UNCHANGED vars
  <2>1. UNCHANGED call
    BY <1>22 DEF EditFile, Pause, vars
  <2>. QED
    BY <1>b, <2>1
<1>. QED
  BY <1>1, <1>2, <1>3, <1>4, <1>5, <1>6, <1>7, <1>8, <1>9, <1>10, <1>11, <1>12, <1>13,
     <1>14, <1>15, <1>16, <1>17, <1>18, <1>19, <1>20, <1>21, <1>22 DEF Next, ThreadStep

-----------------------------------------------------------------------------
(* The theorems.                                                             *)

\* The invariant holds of every state a task's tool calls reach.
THEOREM Inductive == Spec => []IndInv
<1>1. Init => IndInv
  <2> SUFFICES ASSUME Init PROVE IndInv
    OBVIOUS
  <2>1. call = Quiet /\ pending = Quiet /\ approvals = <<>> /\ patches = <<>>
    BY DEF Init
  <2>2. Shape /\ Known /\ OpenSeen /\ EffectAuthorised
    BY <2>1, Fields DEF Shape, Known, OpenSeen, EffectAuthorised, Live, Early, Ends
  <2>3. Progress
    BY <2>1, Fields DEF Progress, Live, Early, Ends
  <2>4. Ledgers
    BY <2>1 DEF Ledgers, IsSeq
  <2>. QED
    BY <2>2, <2>3, <2>4 DEF IndInv
<1>2. IndInv /\ [Next]_vars => IndInv'
  BY ShapeStep, LedgersStep, AuthStep, ProgressStep DEF IndInv, Auth
<1>. QED
  BY <1>1, <1>2, PTL DEF Spec

\* write_file, apply_patch and run_command act only on what the policy allowed
\* during the call or the user approved, whatever hooks rewrite, however often
\* the call is retried and whoever edits the policy meanwhile.
THEOREM EffectAuthorisedHolds == Spec => []EffectAuthorised
<1>1. IndInv => EffectAuthorised
  BY DEF IndInv
<1>. QED
  BY <1>1, Inductive, PTL

\* A call that returns has reported every start once, and has reported as
\* blocked only what did not act, and as anything but failed only what is whole.
THEOREM ReportIsTrueHolds == Spec => []ReportIsTrue
<1>1. IndInv => ReportIsTrue
  BY DEF IndInv, ReportIsTrue, Progress, Live, Early, Ends
<1>. QED
  BY <1>1, Inductive, PTL

\* A patch record is closed only by the call that wrote its last file.
THEOREM AppliedPatchIsWholeHolds == Spec => AppliedPatchIsWhole
<1> DEFINE P == \A i \in DOMAIN patches :
                  (patches'[i].status = "applied" /\ patches[i].status # "applied")
                    => call.done = PathSet(call)
<1>1. IndInv /\ [Next]_vars => [P]_vars
  <2> SUFFICES ASSUME Ledgers, [Next]_vars PROVE P
    BY DEF IndInv
  <2>1. CASE UNCHANGED patches
    BY <2>1
  <2>2. ASSUME NEW s, SavePatch(call, s) PROVE P
    <3>1. \A i \in DOMAIN patches : patches'[i] = patches[i]
      BY <2>2, AppendSeq DEF SavePatch, Ledgers
    <3>. QED
      BY <3>1
  <2>3. CASE patches' = [patches EXCEPT ![FoundPatch(call)] =
                                           [patches[FoundPatch(call)] EXCEPT !.status = "approved"]]
    <3> DEFINE f == FoundPatch(call)
    <3>1. \A i \in DOMAIN patches :
            patches'[i] = IF i = f THEN [patches[f] EXCEPT !.status = "approved"] ELSE patches[i]
      BY <2>3
    <3>2. f \in DOMAIN patches => patches'[f].status = "approved"
      BY <3>1 DEF Ledgers
    <3>. QED
      BY <3>1, <3>2
  <2>4. CASE call.done = PathSet(call)
    BY <2>4
  <2>. QED
    BY <2>1, <2>2, <2>3, <2>4, PatchMoves
<1>. QED
  BY <1>1, Inductive, PTL DEF Spec, AppliedPatchIsWhole

=============================================================================
