-------------------- MODULE ChildrenAndCompletion_proofs --------------------
(***************************************************************************)
(* The children of a task, for any number of dispatches and attempts and   *)
(* every retry policy, and the completion of the task: its types, what a   *)
(* completed task leaves open, and what its evidence rests on.             *)
(***************************************************************************)
EXTENDS Collaboration, Completion, SequenceTheorems, FiniteSetTheorems, WellFoundedInduction, TLAPS

-----------------------------------------------------------------------------
(* Collaboration: the inductive invariant.                                   *)

Working == {"ready", "request", "retry", "complete", "fail", "block"}

\* What the dispatching thread's place says of the record, the worker and the answer.
RecordFollows ==
  \A c \in Kids :
    /\ pc[c] = "start" => cstatus[c] = "absent" /\ told[c] = "none"
    /\ pc[c] = "created" => cstatus[c] = "queued" /\ told[c] = "none"
    /\ pc[c] = "claimed" => cstatus[c] = "claimed" /\ holds[c] /\ told[c] = "none"
    /\ pc[c] \in Working => cstatus[c] = "running" /\ holds[c] /\ told[c] = "none"
    /\ pc[c] = "idleWorker" => cstatus[c] \in {"blocked"} \cup Settled /\ told[c] = "none"
    /\ pc[c] \in {"send", "done"} => cstatus[c] \in {"absent", "blocked"} \cup Settled

\* Between the lookup and the write of the RPC thread the record stays blocked.
StillBlocked == rpc.at = "write" => cstatus[rpc.kid] = "blocked"

\* Only the process of the current attempt is at work, and only during its request.
OnlyCurrent ==
  \A c \in Kids : \A n \in Attempts(c) :
    proc[c][n] # "off" => pc[c] = "request" /\ n = attempt[c]

Snapshot == [c \in Kids |-> PublicStatus(cstatus[c])]

\* As long as no decision was worked on during a dispatch, a team that was read is
\* what is recorded, and without an event on its way the client shows it.
EventsFresh ==
  ~raced =>
    /\ ~(Dispatching /\ Deciding)
    /\ \A x \in {"task", "rpc"} : event[x].at = "read" => event[x].team = Snapshot
    /\ (\A x \in {"task", "rpc"} : event[x].at = "none") => team = Snapshot

-----------------------------------------------------------------------------
(* Types.                                                                    *)

\* The initial state is typed.
LEMMA InitTypes == Init => TypeOK
<1> SUFFICES ASSUME Init PROVE TypeOK
  OBVIOUS
<1> USE DEF Init, Settled, Ended
<1>1. \A c \in Kids : MaxAttempts[c] \in Nat /\ MaxAttempts[c] >= 1
  BY CollaborationAssumption
<1>2. /\ attempt \in [Kids -> Nat] /\ link \in [Kids -> Nat]
      /\ \A c \in Kids : attempt[c] \in Attempts(c) /\ link[c] \in 0 .. MaxAttempts[c]
  BY <1>1 DEF Attempts
<1>3. event \in [{"task", "rpc"} -> [at : {"none", "due", "read"}, team : [Kids -> TeamStatuses]]]
  BY DEF NoEvent, NoTeam, TeamStatuses
<1>4. team \in [Kids -> TeamStatuses]
  BY DEF NoTeam, TeamStatuses
<1>5. rpc = IdleRpc /\ rpc.at = "idle"
  BY DEF IdleRpc
<1> QED BY <1>2, <1>3, <1>4, <1>5 DEF TypeOK, RuntimeStatuses

\* Announcing, reading and publishing keep the types of events and team.
LEMMA ServiceTypes ==
  ASSUME TypeOK, raced' \in BOOLEAN, NEW x \in {"task", "rpc"}
  PROVE  /\ Announce(x) => event' \in [{"task", "rpc"} ->
                              [at : {"none", "due", "read"}, team : [Kids -> TeamStatuses]]]
         /\ Service(x) => TypeOK'
<1>1. Snapshot \in [Kids -> TeamStatuses]
  BY DEF Snapshot, PublicStatus, TeamStatuses
<1>2. NoEvent \in [at : {"none", "due", "read"}, team : [Kids -> TeamStatuses]]
  BY DEF NoEvent, NoTeam, TeamStatuses
<1>3. Announce(x) => event' \in [{"task", "rpc"} ->
                       [at : {"none", "due", "read"}, team : [Kids -> TeamStatuses]]]
  BY DEF TypeOK, Announce, NoTeam, TeamStatuses
<1>4. TeamSnapshot(x) => TypeOK'
  BY <1>1 DEF TypeOK, TeamSnapshot, Snapshot, store, child
<1>5. PublishTeam(x) => TypeOK'
  BY <1>2 DEF TypeOK, PublishTeam, store, child
<1> QED BY <1>3, <1>4, <1>5 DEF Service

\* Every step of the dispatching thread keeps the types.
LEMMA DispatchTypes ==
  ASSUME TypeOK, raced' \in BOOLEAN, NEW c \in Kids, Dispatch(c)
  PROVE  TypeOK'
<1> USE DEF store, child, shown, Goto, Tell, Answer, Settled, Ended
<1>1. Announce("task") => event' \in [{"task", "rpc"} ->
        [at : {"none", "due", "read"}, team : [Kids -> TeamStatuses]]]
  BY ServiceTypes
<1>2. MaxAttempts[c] \in Nat /\ attempt[c] \in Attempts(c)
  BY CollaborationAssumption DEF TypeOK
<1>3. ASSUME NEW error, AttemptRaised(c, error), UNCHANGED <<store, told, child, rpc, shown>>
      PROVE  TypeOK'
  <2>1. /\ attempt' \in [Kids -> Nat]
        /\ \A d \in Kids : attempt'[d] \in Attempts(d)
    <3>1. attempt \in [Kids -> Nat] /\ \A d \in Kids : attempt[d] \in Attempts(d)
      BY DEF TypeOK
    <3>2. CASE UNCHANGED attempt
      BY <3>1, <3>2
    <3>3. CASE attempt[c] < MaxAttempts[c] /\ attempt' = [attempt EXCEPT ![c] = @ + 1]
      BY <1>2, <3>1, <3>3 DEF Attempts
    <3> QED BY <1>3, <3>2, <3>3 DEF AttemptRaised, ShouldRetry
  <2> QED BY <1>2, <1>3, <2>1 DEF TypeOK, AttemptRaised, CloseProcess
<1>4. CASE RefuseBudget(c) \/ CancelledBeforeStart(c) \/ StartAttempt(c)
  <2>1. CASE RefuseBudget(c)
    BY <2>1 DEF TypeOK, RefuseBudget
  <2>2. CASE CancelledBeforeStart(c)
    BY <2>2 DEF TypeOK, CancelledBeforeStart
  <2>3. CASE StartAttempt(c)
    BY <1>2, <2>3 DEF TypeOK, StartAttempt
  <2> QED BY <1>4, <2>1, <2>2, <2>3
<1>5. CASE CreateInline(c) \/ Claim(c) \/ MarkRunning(c)
  <2>1. UNCHANGED team
    BY <1>5 DEF CreateInline, Claim, MarkRunning, Announce
  <2>2. CASE CreateInline(c)
    BY <1>1, <2>1, <2>2 DEF TypeOK, CreateInline, CreateTask
  <2>3. CASE Claim(c)
    BY <1>1, <2>1, <2>3 DEF TypeOK, Claim, ClaimTask
  <2>4. CASE MarkRunning(c)
    BY <1>1, <2>1, <2>4 DEF TypeOK, MarkRunning, UpdateTask
  <2> QED BY <1>5, <2>2, <2>3, <2>4
<1>6. CASE TakeReply(c)
  <2>1. CASE AttemptRaised(c, "reply")
    BY <1>3, <1>6, <2>1 DEF TakeReply
  <2>2. CASE Goto(c, AfterReply(proc[c][attempt[c]])) /\ CloseProcess(c) /\ UNCHANGED attempt
    <3>1. AfterReply(proc[c][attempt[c]]) \in {"block", "fail", "complete"}
      BY DEF AfterReply
    <3> QED BY <1>2, <1>6, <2>2, <3>1 DEF TypeOK, TakeReply, CloseProcess
  <2> QED BY <1>6, <2>1, <2>2 DEF TakeReply
<1>7. CASE RequestFails(c)
  BY <1>3, <1>7 DEF RequestFails
<1>8. CASE CompleteChild(c) \/ FailChild(c) \/ BlockTask(c) \/ BlockWorker(c) \/ SendMessage(c)
  <2>1. UNCHANGED team
    BY <1>8 DEF CompleteChild, FailChild, BlockTask, BlockWorker, SendMessage, Announce
  <2>2. event' \in [{"task", "rpc"} ->
          [at : {"none", "due", "read"}, team : [Kids -> TeamStatuses]]]
    BY <1>1, <1>8 DEF TypeOK, CompleteChild, FailChild, BlockTask, BlockWorker, SendMessage
  <2>3. CASE CompleteChild(c)
    <3>1. CASE FinalizeTask(c, "completed") /\ Tell(c, "completed") /\ Goto(c, "send")
      BY <2>1, <2>2, <2>3, <3>1 DEF TypeOK, CompleteChild, FinalizeTask
    <3>2. CASE Answer(c, "raised") /\ UNCHANGED store
      BY <2>1, <2>2, <2>3, <3>2 DEF TypeOK, CompleteChild
    <3> QED BY <2>3, <3>1, <3>2 DEF CompleteChild
  <2>6. CASE FailChild(c)
    <3>1. CASE FinalizeTask(c, "failed") /\ Tell(c, "failed") /\ Goto(c, "send")
      BY <2>1, <2>2, <2>6, <3>1 DEF TypeOK, FailChild, FinalizeTask
    <3>2. CASE Answer(c, "raised") /\ UNCHANGED store
      BY <2>1, <2>2, <2>6, <3>2 DEF TypeOK, FailChild
    <3> QED BY <2>6, <3>1, <3>2 DEF FailChild
  <2>4. CASE BlockTask(c)
    BY <1>2, <2>1, <2>2, <2>4 DEF TypeOK, BlockTask, UpdateTask, Attempts
  <2>5. CASE BlockWorker(c)
    BY <2>1, <2>2, <2>5 DEF TypeOK, BlockWorker, UpsertWorker
  <2>7. CASE SendMessage(c)
    BY <2>1, <2>2, <2>7 DEF TypeOK, SendMessage
  <2> QED BY <1>8, <2>3, <2>4, <2>5, <2>6, <2>7
<1> QED BY <1>4, <1>5, <1>6, <1>7, <1>8 DEF Dispatch

\* Every step of a child's process keeps the types.
LEMMA ChildTypes ==
  ASSUME TypeOK, raced' \in BOOLEAN, NEW c \in Kids, NEW n \in Attempts(c), Child(c, n)
  PROVE  TypeOK'
<1> USE DEF TypeOK, store, shown, SetRt, Reply, Ended, Settled, RuntimeStatuses
<1>1. CASE ChildCreates(c, n)
  <2>1. CASE SetRt(c, n, "running") /\ UNCHANGED proc
    BY <1>1, <2>1 DEF ChildCreates
  <2>2. CASE Reply(c, n, "error") /\ UNCHANGED rt
    BY <1>1, <2>2 DEF ChildCreates
  <2> QED BY <1>1, <2>1, <2>2 DEF ChildCreates
<1>2. CASE ChildCompletes(c, n)
  BY <1>2 DEF ChildCompletes
<1>3. CASE ChildFails(c, n)
  BY <1>3 DEF ChildFails
<1>4. CASE ChildAsks(c, n)
  BY <1>4 DEF ChildAsks
<1>5. CASE ChildWaits(c, n)
  BY <1>5 DEF ChildWaits
<1> QED BY <1>1, <1>2, <1>3, <1>4, <1>5, Child(c, n) DEF Child

\* Every step of the RPC thread keeps the types.
LEMMA RpcTypes ==
  ASSUME TypeOK, raced' \in BOOLEAN
  PROVE  /\ Rpc => TypeOK'
         /\ \A c \in Kids : \A n \in Attempts(c) :
              /\ CancelRuntime(c, n) => TypeOK'
              /\ \A d \in {"approved", "rejected"} : SubmitApproval(c, n, d) => TypeOK'
<1> USE DEF store, shown, child, SetRt, Ended, Settled, RuntimeStatuses
<1>0. \A c \in Kids : Attempts(c) \subseteq Nat
  BY CollaborationAssumption DEF Attempts
<1>1. ASSUME NEW c \in Kids, NEW n \in Attempts(c), CancelRuntime(c, n) PROVE TypeOK'
  BY <1>1 DEF TypeOK, CancelRuntime
<1>2. ASSUME NEW c \in Kids, NEW n \in Attempts(c), NEW d \in {"approved", "rejected"},
             SubmitApproval(c, n, d)
      PROVE  TypeOK'
  <2>1. CASE UNCHANGED <<rt, rpc>>
    BY <1>2, <2>1 DEF TypeOK, SubmitApproval
  <2>2. CASE rpc' = [at |-> "remote", kid |-> c, n |-> n] /\ UNCHANGED rt
    BY <1>0, <1>2, <2>2 DEF TypeOK, SubmitApproval
  <2>3. CASE SetRt(c, n, "running") /\ rpc' = [at |-> "main", kid |-> c, n |-> n]
    BY <1>0, <1>2, <2>3 DEF TypeOK, SubmitApproval
  <2>4. CASE SetRt(c, n, "failed") /\ rpc' = [at |-> "look", kid |-> c, n |-> n, as |-> "failed"]
    BY <1>0, <1>2, <2>4 DEF TypeOK, SubmitApproval
  <2> QED BY <1>2, <2>1, <2>2, <2>3, <2>4 DEF SubmitApproval
<1>3. rpc.at \in {"remote", "main", "look", "write"} =>
        /\ rpc.kid \in Kids /\ rpc.n \in Attempts(rpc.kid) /\ rpc.n \in Nat
        /\ rpc.at \in {"look", "write"} =>
             /\ rpc.as \in RuntimeStatuses
             /\ rpc = [at |-> rpc.at, kid |-> rpc.kid, n |-> rpc.n, as |-> rpc.as]
  BY DEF TypeOK, IdleRpc
<1>4. CASE ResumeRemote
  <2>1. PICK s \in RuntimeStatuses :
          /\ rpc' = [at |-> "look", kid |-> rpc.kid, n |-> rpc.n, as |-> s]
          /\ UNCHANGED rt \/ SetRt(rpc.kid, rpc.n, s)
    <3>1. rt[rpc.kid][rpc.n] \in RuntimeStatuses
      BY <1>3, <1>4 DEF TypeOK, ResumeRemote
    <3>2. "cancelled" \in RuntimeStatuses /\ "failed" \in RuntimeStatuses
      OBVIOUS
    <3> QED BY <1>4, <3>1, <3>2 DEF ResumeRemote
  <2>2. CASE UNCHANGED rt
    BY <1>3, <1>4, <2>1, <2>2 DEF TypeOK, ResumeRemote
  <2>3. CASE SetRt(rpc.kid, rpc.n, s)
    BY <1>3, <1>4, <2>1, <2>3 DEF TypeOK, ResumeRemote
  <2> QED BY <2>1, <2>2, <2>3
<1>5. CASE ResumeMain
  BY <1>3, <1>5 DEF TypeOK, ResumeMain
<1>6. Announce("rpc") => event' \in [{"task", "rpc"} ->
        [at : {"none", "due", "read"}, team : [Kids -> TeamStatuses]]]
  BY ServiceTypes
<1>7. IdleRpc.at = "idle"
  BY DEF IdleRpc
<1>8. CASE FinalizeLook
  <2>1. rpc' = IdleRpc \/ rpc' = [at |-> "write", kid |-> rpc.kid, n |-> rpc.n, as |-> rpc.as]
    BY <1>3, <1>8 DEF FinalizeLook
  <2>2. UNCHANGED team /\ event' \in [{"task", "rpc"} ->
          [at : {"none", "due", "read"}, team : [Kids -> TeamStatuses]]]
    BY <1>6, <1>8 DEF FinalizeLook, Announce, TypeOK
  <2> QED BY <1>3, <1>7, <1>8, <2>1, <2>2, ZenonT(40) DEF TypeOK, FinalizeLook, UpsertWorker
<1>9. CASE FinalizeWrite
  <2>1. rpc' \in {IdleRpc, [at |-> "send"]}
    BY <1>9 DEF FinalizeWrite
  <2>2. UNCHANGED team /\ event' \in [{"task", "rpc"} ->
          [at : {"none", "due", "read"}, team : [Kids -> TeamStatuses]]]
    BY <1>6, <1>9 DEF FinalizeWrite, Announce, TypeOK
  <2>3. rpc.n \in 0 .. MaxAttempts[rpc.kid]
    BY <1>3, <1>9, CollaborationAssumption DEF FinalizeWrite, Attempts
  <2>4. CASE UNCHANGED store
    BY <1>7, <1>9, <2>1, <2>2, <2>4 DEF TypeOK, FinalizeWrite
  <2>5. ASSUME NEW s \in Settled, FinalizeTask(rpc.kid, s) PROVE TypeOK'
    BY <1>3, <1>7, <1>9, <2>1, <2>2, <2>5 DEF TypeOK, FinalizeWrite, FinalizeTask
  <2>6. CASE UpdateTask(rpc.kid, "blocked", rpc.n)
    BY <1>3, <1>7, <1>9, <2>1, <2>2, <2>3, <2>6 DEF TypeOK, FinalizeWrite, UpdateTask
  <2> QED BY <1>9, <2>4, <2>5, <2>6 DEF FinalizeWrite
<1>10. CASE FinalizeMessage
  <2>1. UNCHANGED team
    BY <1>10 DEF FinalizeMessage, Announce
  <2> QED BY <1>6, <1>7, <1>10, <2>1 DEF TypeOK, FinalizeMessage
<1>11. Rpc => TypeOK'
  BY <1>4, <1>5, <1>8, <1>9, <1>10, ServiceTypes DEF Rpc
<1> QED BY <1>1, <1>2, <1>11

\* Every step keeps the types.
LEMMA TypeStep == TypeOK /\ [Next]_vars => TypeOK'
<1> SUFFICES ASSUME TypeOK, [Next]_vars PROVE TypeOK'
  OBVIOUS
<1>1. CASE UNCHANGED vars
  BY <1>1 DEF TypeOK, vars
<1>2. CASE Next
  <2>1. raced' \in BOOLEAN
    BY <1>2 DEF Next, TypeOK
  <2> QED BY <1>2, <2>1, ServiceTypes, DispatchTypes, ChildTypes, RpcTypes
          DEF Next, Step, Dispatcher
<1> QED BY <1>1, <1>2

-----------------------------------------------------------------------------
(* The record of a child and the answer to its parent.                       *)

\* What the dispatching thread does keeps the record in step with its place. It leaves
\* a blocked record alone.
LEMMA DispatchRecord ==
  ASSUME TypeOK, RecordFollows, StillBlocked, NEW c \in Kids, Dispatch(c)
  PROVE  RecordFollows' /\ StillBlocked'
<1> USE DEF TypeOK, RecordFollows, StillBlocked, Working, Settled, store, child, shown,
            Goto, Tell, Answer, Turn
<1>0. \/ rpc.at # "write"
      \/ /\ rpc.at = "write" /\ rpc.kid \in Kids /\ cstatus[rpc.kid] = "blocked"
         /\ pc[rpc.kid] \in {"idleWorker", "send", "done"}
  BY SMTT(30) DEF IdleRpc
<1>1. CASE RefuseBudget(c) \/ CreateInline(c)
  BY <1>0, <1>1 DEF RefuseBudget, CreateInline, CreateTask
<1>2. CASE Claim(c) \/ MarkRunning(c)
  BY <1>0, <1>2 DEF Claim, ClaimTask, MarkRunning, UpdateTask
<1>3. CASE CancelledBeforeStart(c) \/ StartAttempt(c)
  BY <1>3 DEF CancelledBeforeStart, StartAttempt
<1>4. CASE TakeReply(c) \/ RequestFails(c)
  <2>1. /\ pc[c] = "request" /\ UNCHANGED <<store, told, child, rpc, shown>>
        /\ \E l \in {"block", "fail", "complete", "retry"} : Goto(c, l)
    BY <1>4 DEF TakeReply, RequestFails, AttemptRaised, AfterReply
  <2> QED BY <2>1
<1>5. CASE CompleteChild(c) \/ FailChild(c)
  <2>1. CanFinalize(c)
    BY <1>5 DEF CompleteChild, FailChild, CanFinalize
  <2>2. CASE CompleteChild(c)
    BY <1>0, <2>1, <2>2 DEF CompleteChild, FinalizeTask
  <2>3. CASE FailChild(c)
    BY <1>0, <2>1, <2>3 DEF FailChild, FinalizeTask
  <2> QED BY <1>5, <2>2, <2>3
<1>6. CASE BlockTask(c)
  BY <1>0, <1>6 DEF BlockTask, UpdateTask
<1>7. CASE BlockWorker(c) \/ SendMessage(c)
  BY <1>7 DEF BlockWorker, UpsertWorker, SendMessage
<1> QED BY <1>1, <1>2, <1>3, <1>4, <1>5, <1>6, <1>7, Dispatch(c) DEF Dispatch

\* So does the RPC thread: it writes a record that is blocked only.
LEMMA RpcRecord ==
  ASSUME TypeOK, RecordFollows, StillBlocked, Rpc
  PROVE  RecordFollows' /\ StillBlocked'
<1> USE DEF store, child, shown
<1>0. rpc.at \in {"look", "write"} => rpc.kid \in Kids /\ rpc \in
        [at : {"look", "write"}, kid : Kids, n : Nat, as : RuntimeStatuses]
  BY DEF TypeOK, IdleRpc
<1>1. CASE Service("rpc")
  BY <1>1 DEF Service, TeamSnapshot, PublishTeam, RecordFollows, StillBlocked
<1>2. CASE ResumeRemote \/ ResumeMain \/ FinalizeMessage
  <2>1. rpc'.at # "write" /\ UNCHANGED <<pc, store, told>>
    BY <1>2 DEF ResumeRemote, ResumeMain, FinalizeMessage, IdleRpc
  <2> QED BY <2>1 DEF RecordFollows, StillBlocked
<1>3. CASE FinalizeLook
  <2>1. CASE rpc' = IdleRpc /\ UNCHANGED store
    BY <1>3, <2>1 DEF FinalizeLook, RecordFollows, StillBlocked, IdleRpc
  <2>2. CASE BlockedChild(rpc.kid, rpc.n) /\ UpsertWorker(rpc.kid, TRUE)
             /\ rpc' = [rpc EXCEPT !.at = "write"]
    <3>1. rpc'.at = "write" /\ rpc'.kid = rpc.kid
      BY <1>0, <1>3, <2>2 DEF FinalizeLook
    <3> QED BY <1>3, <2>2, <3>1
            DEF FinalizeLook, RecordFollows, StillBlocked, BlockedChild, UpsertWorker, TypeOK
  <2> QED BY <1>3, <2>1, <2>2 DEF FinalizeLook
<1>4. CASE FinalizeWrite
  <2>1. rpc'.at # "write" /\ cstatus[rpc.kid] = "blocked" /\ UNCHANGED <<pc, told>>
        /\ pc[rpc.kid] \in {"idleWorker", "send", "done"}
    <3>1. rpc.kid \in Kids /\ cstatus[rpc.kid] = "blocked"
      BY <1>0, <1>4 DEF FinalizeWrite, StillBlocked
    <3>2. pc[rpc.kid] \in {"idleWorker", "send", "done"}
      BY <3>1 DEF RecordFollows, Working, TypeOK, Settled
    <3>3. rpc'.at # "write" /\ UNCHANGED <<pc, told>>
      BY <1>4 DEF FinalizeWrite, IdleRpc
    <3> QED BY <3>1, <3>2, <3>3
  <2>2. CASE UNCHANGED store
    BY <2>1, <2>2 DEF RecordFollows, StillBlocked
  <2>3. ASSUME NEW s \in Settled, FinalizeTask(rpc.kid, s) PROVE RecordFollows' /\ StillBlocked'
    BY <1>0, <1>4, <2>1, <2>3
       DEF FinalizeWrite, FinalizeTask, RecordFollows, StillBlocked, TypeOK, Working
  <2>4. CASE UpdateTask(rpc.kid, "blocked", rpc.n)
    BY <1>0, <1>4, <2>1, <2>4
       DEF FinalizeWrite, UpdateTask, RecordFollows, StillBlocked, TypeOK, Working
  <2> QED BY <1>4, <2>2, <2>3, <2>4 DEF FinalizeWrite, Settled
<1> QED BY <1>1, <1>2, <1>3, <1>4, Rpc DEF Rpc

\* A step keeps the record in line with where its dispatch stands.
LEMMA RecordStep == TypeOK /\ RecordFollows /\ StillBlocked /\ [Next]_vars
                      => RecordFollows' /\ StillBlocked'
<1> SUFFICES ASSUME TypeOK, RecordFollows, StillBlocked, [Next]_vars
             PROVE  RecordFollows' /\ StillBlocked'
  OBVIOUS
<1>1. CASE UNCHANGED vars
  BY <1>1 DEF vars, RecordFollows, StillBlocked
<1>2. CASE Service("task")
  BY <1>2 DEF Service, TeamSnapshot, PublishTeam, store, RecordFollows, StillBlocked
<1>3. ASSUME NEW c \in Kids, NEW n \in Attempts(c), Child(c, n) \/ CancelRuntime(c, n)
      PROVE  RecordFollows' /\ StillBlocked'
  BY <1>3 DEF Child, ChildCreates, ChildCompletes, ChildFails, ChildAsks, ChildWaits,
              CancelRuntime, store, RecordFollows, StillBlocked
<1>4. ASSUME NEW c \in Kids, NEW n \in Attempts(c), NEW d \in {"approved", "rejected"},
             SubmitApproval(c, n, d)
      PROVE  RecordFollows' /\ StillBlocked'
  <2>1. UNCHANGED rpc \/ rpc'.at # "write"
    BY <1>4 DEF SubmitApproval
  <2> QED BY <1>4, <2>1 DEF SubmitApproval, store, RecordFollows, StillBlocked
<1> QED BY <1>1, <1>2, <1>3, <1>4, DispatchRecord, RpcRecord DEF Next, Step, Dispatcher

-----------------------------------------------------------------------------
(* The processes of the attempts.                                            *)

\* A step lets only the current attempt go on executing.
LEMMA ProcessStep == TypeOK /\ OnlyCurrent /\ [Next]_vars => OnlyCurrent'
<1> SUFFICES ASSUME TypeOK, OnlyCurrent, [Next]_vars PROVE OnlyCurrent'
  OBVIOUS
<1>1. CASE UNCHANGED <<pc, attempt, proc>>
  BY <1>1 DEF OnlyCurrent
<1>2. ASSUME NEW c \in Kids, NEW l \in {"block", "fail", "complete", "retry"},
             pc[c] = "request", Goto(c, l), CloseProcess(c),
             \A d \in Kids : d # c => attempt'[d] = attempt[d]
      PROVE  OnlyCurrent'
  BY <1>2 DEF OnlyCurrent, TypeOK, Goto, CloseProcess
<1>3. ASSUME NEW c \in Kids, Dispatch(c) PROVE OnlyCurrent'
  <2>1. CASE StartAttempt(c)
    BY <1>3, <2>1 DEF StartAttempt, Goto, OnlyCurrent, TypeOK
  <2>2. CASE TakeReply(c) \/ RequestFails(c)
    <3>1. /\ pc[c] = "request" /\ CloseProcess(c)
          /\ \E l \in {"block", "fail", "complete", "retry"} : Goto(c, l)
          /\ UNCHANGED attempt \/ attempt' = [attempt EXCEPT ![c] = @ + 1]
      BY <2>2 DEF TakeReply, RequestFails, AttemptRaised, AfterReply
    <3> QED BY <1>2, <3>1 DEF TypeOK
  <2>3. CASE ~(StartAttempt(c) \/ TakeReply(c) \/ RequestFails(c))
    <3>1. UNCHANGED <<attempt, proc>> /\ pc[c] # "request" /\ \E l : Goto(c, l)
      BY <1>3, <2>3 DEF Dispatch, RefuseBudget, CreateInline, Claim, MarkRunning, Turn,
           CancelledBeforeStart, CompleteChild, FailChild, BlockTask, BlockWorker, SendMessage,
           Answer
    <3> QED BY <3>1 DEF Goto, OnlyCurrent, TypeOK
  <2> QED BY <2>1, <2>2, <2>3
<1>4. ASSUME NEW c \in Kids, NEW n \in Attempts(c), Child(c, n) PROVE OnlyCurrent'
  <2>1. /\ UNCHANGED <<pc, attempt>> /\ proc[c][n] # "off"
        /\ UNCHANGED proc \/ \E s : proc' = [proc EXCEPT ![c][n] = s]
    BY <1>4 DEF Child, ChildCreates, ChildCompletes, ChildFails, ChildAsks, ChildWaits,
                Handling, Reply
  <2>2. pc[c] = "request" /\ n = attempt[c]
    BY <2>1 DEF OnlyCurrent
  <2>3. ASSUME NEW s, proc' = [proc EXCEPT ![c][n] = s] PROVE OnlyCurrent'
    <3>1. ASSUME NEW d \in Kids, NEW m \in Attempts(d), d # c \/ m # n
          PROVE  proc'[d][m] = proc[d][m]
      BY <2>3, <3>1 DEF TypeOK
    <3> QED BY <2>1, <2>2, <3>1 DEF OnlyCurrent
  <2> QED BY <1>1, <2>1, <2>3
<1>5. ASSUME Step PROVE OnlyCurrent'
  <2>1. ASSUME NEW x, Service(x) PROVE UNCHANGED <<pc, attempt, proc>>
    BY <2>1 DEF Service, TeamSnapshot, PublishTeam
  <2>2. Rpc => UNCHANGED <<pc, attempt, proc>>
    BY <2>1 DEF Rpc, ResumeRemote, ResumeMain, FinalizeLook, FinalizeWrite, FinalizeMessage
  <2>3. \A c \in Kids : \A n \in Attempts(c) :
          \/ CancelRuntime(c, n)
          \/ \E d \in {"approved", "rejected"} : SubmitApproval(c, n, d)
          => UNCHANGED <<pc, attempt, proc>>
    BY DEF CancelRuntime, SubmitApproval
  <2> QED BY <1>1, <1>3, <1>4, <1>5, <2>1, <2>2, <2>3 DEF Step, Dispatcher
<1> QED BY <1>1, <1>5 DEF Next, vars

-----------------------------------------------------------------------------
(* The team the client shows.                                                *)

\* What a step does to the record, the events and the team: it leaves them alone,
\* writes and announces it, or is a step of an event.
LEMMA StepKinds ==
  ASSUME Step
  PROVE  \/ UNCHANGED <<cstatus, event, team>>
         \/ \E x \in {"task", "rpc"} : Announce(x) \/ Service(x)
<1> USE DEF store, child, shown
<1>1. ASSUME NEW c \in Kids, Dispatch(c)
      PROVE  UNCHANGED <<cstatus, event, team>> \/ Announce("task")
  BY <1>1 DEF Dispatch, RefuseBudget, CreateInline, Claim, MarkRunning, CancelledBeforeStart,
       StartAttempt, TakeReply, RequestFails, CompleteChild, FailChild, BlockTask, BlockWorker,
       UpsertWorker, SendMessage
<1>2. ASSUME NEW c \in Kids, NEW n \in Attempts(c),
             Child(c, n) \/ CancelRuntime(c, n)
             \/ \E d \in {"approved", "rejected"} : SubmitApproval(c, n, d)
      PROVE  UNCHANGED <<cstatus, event, team>>
  BY <1>2 DEF Child, ChildCreates, ChildCompletes, ChildFails, ChildAsks, ChildWaits,
       CancelRuntime, SubmitApproval
<1>3. ASSUME Rpc PROVE UNCHANGED <<cstatus, event, team>> \/ Announce("rpc") \/ Service("rpc")
  BY <1>3 DEF Rpc, ResumeRemote, ResumeMain, FinalizeLook, FinalizeWrite, FinalizeMessage
<1> QED BY <1>1, <1>2, <1>3, Step DEF Step, Dispatcher

\* A step keeps the events on their way up to date with the record.
LEMMA FreshStep == TypeOK /\ EventsFresh /\ [Next]_vars => EventsFresh'
<1> SUFFICES ASSUME TypeOK, EventsFresh, [Next]_vars PROVE EventsFresh'
  OBVIOUS
<1>1. CASE UNCHANGED vars
  BY <1>1 DEF vars, EventsFresh, Snapshot, Dispatching, Deciding
<1>2. CASE Next
  <2> SUFFICES ASSUME ~raced'
      PROVE /\ ~(Dispatching /\ Deciding)'
            /\ \A x \in {"task", "rpc"} : event'[x].at = "read" => event'[x].team = Snapshot'
            /\ (\A x \in {"task", "rpc"} : event'[x].at = "none") => team' = Snapshot'
    BY DEF EventsFresh
  <2>1. ~raced /\ ~(Dispatching /\ Deciding)'
    BY <1>2 DEF Next
  <2>2. /\ \A x \in {"task", "rpc"} : event[x].at = "read" => event[x].team = Snapshot
        /\ (\A x \in {"task", "rpc"} : event[x].at = "none") => team = Snapshot
    BY <2>1 DEF EventsFresh
  <2>3. UNCHANGED cstatus => Snapshot' = Snapshot
    BY DEF Snapshot
  <2>4. CASE UNCHANGED <<cstatus, event, team>>
    BY <2>1, <2>2, <2>3, <2>4
  <2>5. ASSUME NEW x \in {"task", "rpc"}, Announce(x)
        PROVE  \A y \in {"task", "rpc"} : event'[y].at = IF y = x THEN "due" ELSE "none"
    <3>1. event'[x].at = "due" /\ \A y \in {"task", "rpc"} : y # x => event'[y] = event[y]
      BY <2>5 DEF Announce, TypeOK
    <3>2. CASE x = "task"
      BY <2>1, <3>1, <3>2 DEF Dispatching, Deciding
    <3>3. CASE x = "rpc"
      BY <2>1, <3>1, <3>3 DEF Dispatching, Deciding
    <3> QED BY <3>2, <3>3
  <2>6. ASSUME NEW x \in {"task", "rpc"}, TeamSnapshot(x)
        PROVE  /\ event'[x].at = "read" /\ event'[x].team = Snapshot /\ Snapshot' = Snapshot
               /\ \A y \in {"task", "rpc"} : y # x => event'[y] = event[y]
    BY <2>3, <2>6 DEF TeamSnapshot, Snapshot, store, TypeOK
  <2>7. ASSUME NEW x \in {"task", "rpc"}, PublishTeam(x)
        PROVE  /\ event'[x].at = "none" /\ team' = Snapshot /\ Snapshot' = Snapshot
               /\ \A y \in {"task", "rpc"} : y # x => event'[y] = event[y]
    BY <2>2, <2>3, <2>7 DEF PublishTeam, NoEvent, store, TypeOK
  <2>8. ASSUME NEW x \in {"task", "rpc"}, Announce(x)
        PROVE  /\ \A y \in {"task", "rpc"} : event'[y].at = "read" => event'[y].team = Snapshot'
               /\ (\A y \in {"task", "rpc"} : event'[y].at = "none") => team' = Snapshot'
    BY <2>5, <2>8
  <2>9. ASSUME NEW x \in {"task", "rpc"}, Service(x)
        PROVE  /\ \A y \in {"task", "rpc"} : event'[y].at = "read" => event'[y].team = Snapshot'
               /\ (\A y \in {"task", "rpc"} : event'[y].at = "none") => team' = Snapshot'
    <3>1. CASE TeamSnapshot(x)
      BY <2>2, <2>6, <3>1
    <3>2. CASE PublishTeam(x)
      BY <2>2, <2>7, <3>2
    <3> QED BY <2>9, <3>1, <3>2 DEF Service
  <2> QED BY <1>2, <2>1, <2>4, <2>8, <2>9, StepKinds DEF Next
<1> QED BY <1>1, <1>2

-----------------------------------------------------------------------------
(* The theorems.                                                             *)

IndInv == TypeOK /\ RecordFollows /\ StillBlocked /\ OnlyCurrent /\ EventsFresh

\* Types, the record in step with the dispatching thread, one process at work and
\* fresh events hold in every reachable state.
THEOREM Inductive == Spec => []IndInv
<1>1. Init => IndInv
  <2> SUFFICES ASSUME Init PROVE IndInv
    OBVIOUS
  <2>1. TypeOK
    BY InitTypes
  <2>2. RecordFollows
    BY DEF Init, RecordFollows, Working
  <2>3. StillBlocked
    BY DEF Init, StillBlocked, IdleRpc
  <2>4. OnlyCurrent
    BY DEF Init, OnlyCurrent
  <2>5. EventsFresh
    <3>1. \A c \in Kids : PublicStatus(cstatus[c]) = "none"
      BY DEF Init, PublicStatus
    <3>2. team = Snapshot
      BY <3>1 DEF Init, Snapshot, NoTeam
    <3>3. ~Deciding /\ \A x \in {"task", "rpc"} : event[x].at = "none"
      BY DEF Init, Deciding, NoEvent
    <3> QED BY <3>2, <3>3 DEF EventsFresh
  <2> QED BY <2>1, <2>2, <2>3, <2>4, <2>5 DEF IndInv
<1>2. IndInv /\ [Next]_vars => IndInv'
  BY TypeStep, RecordStep, ProcessStep, FreshStep DEF IndInv
<1> QED BY <1>1, <1>2, PTL DEF Spec

\* Every variable keeps its type.
THEOREM TypeCorrect == Spec => []TypeOK
<1>1. IndInv => TypeOK
  BY DEF IndInv
<1> QED BY <1>1, Inductive, PTL

\* The processes of two attempts of one child never work at the same time, for any
\* number of attempts and every retry policy (WorkerRunner._execute_with_policy).
THEOREM OneAttemptExecutesHolds == Spec => []OneAttemptExecutes
<1>1. IndInv => OneAttemptExecutes
  <2> SUFFICES ASSUME IndInv, NEW c \in Kids
               PROVE  Cardinality({n \in Attempts(c) : Handling(c, n) /\ rt[c][n] = "running"}) <= 1
    BY DEF OneAttemptExecutes
  <2>1. {n \in Attempts(c) : Handling(c, n) /\ rt[c][n] = "running"} \subseteq {attempt[c]}
    BY DEF IndInv, OnlyCurrent, Handling
  <2>2. IsFiniteSet({attempt[c]}) /\ Cardinality({attempt[c]}) = 1
    BY FS_Singleton
  <2> QED BY <2>1, <2>2, FS_Subset
<1> QED BY <1>1, Inductive, PTL

\* When all is quiet the client shows what is recorded, for any number of children,
\* unless a decision was worked on during a dispatch (_with_team_snapshot).
THEOREM TeamIsCurrentHolds == Spec => []TeamIsCurrent
<1>1. IndInv => TeamIsCurrent
  <2> SUFFICES ASSUME IndInv, ~Dispatching, ~Deciding, ~raced, NEW c \in Kids
               PROVE  team[c] = PublicStatus(cstatus[c])
    BY DEF TeamIsCurrent
  <2>1. \A x \in {"task", "rpc"} : event[x].at = "none"
    BY DEF Dispatching, Deciding
  <2>2. team = Snapshot
    BY <2>1 DEF IndInv, EventsFresh
  <2> QED BY <2>2 DEF Snapshot
<1> QED BY <1>1, Inductive, PTL

-----------------------------------------------------------------------------
(* The contract of a child.                                                  *)

PhaseOf(s) == CASE s = "claimed" -> "queued"
                [] s = "running" -> "working"
                [] s = "blocked" -> "waiting"
                [] OTHER -> s

\* The phases of the contract, as ImplementsContract maps them.
Phases == [c \in Kids |->
             CASE cstatus[c] = "claimed" -> "queued"
               [] cstatus[c] = "running" -> "working"
               [] cstatus[c] = "blocked" -> "waiting"
               [] OTHER -> cstatus[c]]

\* A write of one record moves one phase.
LEMMA PhaseMoves ==
  ASSUME TypeOK, NEW c \in Kids, NEW s, cstatus' = [cstatus EXCEPT ![c] = s]
  PROVE  /\ Phases' = [Phases EXCEPT ![c] = PhaseOf(s)]
         /\ Phases[c] = PhaseOf(cstatus[c])
<1>1. \A d \in Kids : Phases'[d] = PhaseOf(cstatus'[d]) /\ Phases[d] = PhaseOf(cstatus[d])
  BY DEF Phases, PhaseOf
<1>2. cstatus'[c] = s /\ \A d \in Kids : d # c => cstatus'[d] = cstatus[d]
  BY DEF TypeOK
<1>3. Phases' = [d \in Kids |-> Phases'[d]] /\ Phases = [d \in Kids |-> Phases[d]]
  BY DEF Phases
<1>4. \A d \in Kids : Phases'[d] = [Phases EXCEPT ![c] = PhaseOf(s)][d]
  BY <1>1, <1>2, <1>3
<1> QED BY <1>1, <1>3, <1>4

\* The steps of the contract, under the mapping.
LEMMA ContractSteps ==
  ASSUME NEW c \in Kids
  PROVE  /\ /\ Phases[c] = "absent" /\ told[c] = "none"
            /\ told' = [told EXCEPT ![c] = "refused"] /\ UNCHANGED Phases
            => Contract!Next
         /\ /\ told[c] = "none" /\ UNCHANGED told
            /\ \/ Phases[c] = "absent" /\ Phases' = [Phases EXCEPT ![c] = "queued"]
               \/ Phases[c] = "queued" /\ Phases' = [Phases EXCEPT ![c] = "working"]
               \/ Phases[c] = "working" /\ Phases' = [Phases EXCEPT ![c] = "waiting"]
            => Contract!Next
         /\ \A s \in Settled :
              /\ Phases[c] = "waiting" /\ Phases' = [Phases EXCEPT ![c] = s] /\ UNCHANGED told
              => Contract!Next
         /\ \A s \in Settled :
              /\ Phases[c] = "working" /\ Phases' = [Phases EXCEPT ![c] = s]
              /\ told[c] = "none" /\ told' = [told EXCEPT ![c] = s]
              => Contract!Next
         /\ /\ Phases[c] \in {"waiting"} \cup Settled /\ told[c] = "none"
            /\ told' = [told EXCEPT ![c] = "waiting"] /\ UNCHANGED Phases
            => Contract!Next
<1> USE DEF Contract!Next, Contract!Move, Contract!Settled, Phases, Settled
<1>1. /\ Phases[c] = "absent" /\ told[c] = "none"
      /\ told' = [told EXCEPT ![c] = "refused"] /\ UNCHANGED Phases
      => Contract!Next
  BY DEF Contract!Refuse
<1>2. /\ told[c] = "none" /\ UNCHANGED told
      /\ \/ Phases[c] = "absent" /\ Phases' = [Phases EXCEPT ![c] = "queued"]
         \/ Phases[c] = "queued" /\ Phases' = [Phases EXCEPT ![c] = "working"]
         \/ Phases[c] = "working" /\ Phases' = [Phases EXCEPT ![c] = "waiting"]
      => Contract!Next
  BY Zenon DEF Contract!Advance
<1>3. ASSUME NEW s \in Settled, Phases[c] = "waiting",
             Phases' = [Phases EXCEPT ![c] = s], UNCHANGED told
      PROVE  Contract!Next
  BY <1>3 DEF Contract!SettleLater
<1>4. ASSUME NEW s \in Settled, Phases[c] = "working", Phases' = [Phases EXCEPT ![c] = s],
             told[c] = "none", told' = [told EXCEPT ![c] = s]
      PROVE  Contract!Next
  BY <1>4 DEF Contract!SettleNow
<1>5. /\ Phases[c] \in {"waiting"} \cup Settled /\ told[c] = "none"
      /\ told' = [told EXCEPT ![c] = "waiting"] /\ UNCHANGED Phases
      => Contract!Next
  BY DEF Contract!AnswerWaiting
<1> QED BY <1>1, <1>2, <1>3, <1>4, <1>5

\* A step of the dispatching thread is a step of the contract, or leaves it alone.
LEMMA DispatchContract ==
  ASSUME IndInv, NEW c \in Kids, Dispatch(c)
  PROVE  Contract!Next \/ UNCHANGED <<Phases, told>>
<1> USE DEF store
<1>1. UNCHANGED cstatus => UNCHANGED Phases
  BY DEF Phases
<1>2. Phases[c] = PhaseOf(cstatus[c])
  BY DEF Phases, PhaseOf
<1>3. ASSUME NEW s, cstatus' = [cstatus EXCEPT ![c] = s]
      PROVE  Phases' = [Phases EXCEPT ![c] = PhaseOf(s)]
  BY <1>3, PhaseMoves DEF IndInv
<1>4. PhaseOf("absent") = "absent" /\ PhaseOf("queued") = "queued" /\ PhaseOf("claimed") = "queued"
      /\ PhaseOf("running") = "working" /\ PhaseOf("blocked") = "waiting"
      /\ \A s \in Settled : PhaseOf(s) = s
  BY DEF PhaseOf, Settled
<1>5. CASE RefuseBudget(c)
  <2>1. cstatus[c] = "absent" /\ told[c] = "none"
    BY <1>5 DEF RefuseBudget, Turn, IndInv, RecordFollows
  <2> QED BY <1>1, <1>2, <1>4, <1>5, <2>1, ContractSteps DEF RefuseBudget, Answer, Tell
<1>6. CASE CreateInline(c)
  <2>1. cstatus[c] = "absent" /\ told[c] = "none"
    BY <1>6 DEF CreateInline, Turn, IndInv, RecordFollows
  <2>2. Phases' = [Phases EXCEPT ![c] = "queued"] /\ UNCHANGED told
    BY <1>3, <1>4, <1>6 DEF CreateInline, CreateTask
  <2> QED BY <1>2, <1>4, <2>1, <2>2, ContractSteps
<1>7. CASE Claim(c)
  <2>1. cstatus[c] = "queued"
    BY <1>7 DEF Claim, IndInv, RecordFollows
  <2>2. Phases' = [Phases EXCEPT ![c] = "queued"] /\ UNCHANGED told
    BY <1>3, <1>4, <1>7 DEF Claim, ClaimTask
  <2>3. Phases' = Phases
    BY <1>2, <1>4, <2>1, <2>2 DEF Phases
  <2> QED BY <2>2, <2>3
<1>8. CASE MarkRunning(c)
  <2>1. cstatus[c] = "claimed" /\ told[c] = "none"
    BY <1>8 DEF MarkRunning, IndInv, RecordFollows
  <2>2. Phases' = [Phases EXCEPT ![c] = "working"] /\ UNCHANGED told
    BY <1>3, <1>4, <1>8 DEF MarkRunning, UpdateTask
  <2> QED BY <1>2, <1>4, <2>1, <2>2, ContractSteps
<1>9. CASE CancelledBeforeStart(c) \/ StartAttempt(c) \/ TakeReply(c) \/ RequestFails(c)
           \/ SendMessage(c)
  BY <1>1, <1>9 DEF CancelledBeforeStart, StartAttempt, TakeReply, RequestFails, SendMessage
<1>10. ASSUME NEW s \in Settled, pc[c] \in {"complete", "fail"}, cstatus[c] = "running",
              FinalizeTask(c, s), Tell(c, s)
       PROVE  Contract!Next
  <2>1. told[c] = "none"
    BY <1>10 DEF IndInv, RecordFollows, Working
  <2>2. Phases' = [Phases EXCEPT ![c] = s]
    BY <1>3, <1>4, <1>10, ZenonT(40) DEF FinalizeTask
  <2> QED BY <1>2, <1>4, <1>10, <2>1, <2>2, ContractSteps DEF Tell
<1>11. CASE CompleteChild(c) \/ FailChild(c)
  <2>1. cstatus[c] = "running" /\ CanFinalize(c) /\ pc[c] \in {"complete", "fail"}
    BY <1>11 DEF CompleteChild, FailChild, IndInv, RecordFollows, Working, CanFinalize
  <2> QED BY <1>10, <1>11, <2>1 DEF CompleteChild, FailChild, Settled
<1>12. CASE BlockTask(c)
  <2>1. cstatus[c] = "running" /\ told[c] = "none"
    BY <1>12 DEF BlockTask, IndInv, RecordFollows, Working
  <2>2. Phases' = [Phases EXCEPT ![c] = "waiting"] /\ UNCHANGED told
    BY <1>3, <1>4, <1>12 DEF BlockTask, UpdateTask
  <2> QED BY <1>2, <1>4, <2>1, <2>2, ContractSteps
<1>13. CASE BlockWorker(c)
  <2>1. cstatus[c] \in {"blocked"} \cup Settled /\ told[c] = "none"
    BY <1>13 DEF BlockWorker, IndInv, RecordFollows
  <2>2. Phases[c] \in {"waiting"} \cup Settled
    BY <1>2, <1>4, <2>1
  <2> QED BY <1>1, <1>13, <2>1, <2>2, ContractSteps DEF BlockWorker, UpsertWorker, Tell
<1> QED BY <1>5, <1>6, <1>7, <1>8, <1>9, <1>11, <1>12, <1>13, Dispatch(c) DEF Dispatch

\* So is a step of the RPC thread: it settles a waiting child.
LEMMA RpcContract ==
  ASSUME IndInv, Rpc
  PROVE  Contract!Next \/ UNCHANGED <<Phases, told>>
<1> USE DEF store
<1>1. UNCHANGED cstatus => UNCHANGED Phases
  BY DEF Phases
<1>2. UNCHANGED told
  BY DEF Rpc, Service, TeamSnapshot, PublishTeam, ResumeRemote, ResumeMain, FinalizeLook,
         FinalizeWrite, FinalizeMessage
<1>3. CASE FinalizeWrite
  <2>1. rpc.kid \in Kids /\ cstatus[rpc.kid] = "blocked"
    BY <1>3 DEF FinalizeWrite, IndInv, TypeOK, StillBlocked, IdleRpc
  <2>2. Phases[rpc.kid] = "waiting"
    BY <2>1 DEF Phases
  <2>3. ASSUME NEW s, cstatus' = [cstatus EXCEPT ![rpc.kid] = s]
        PROVE  Phases' = [Phases EXCEPT ![rpc.kid] = PhaseOf(s)]
    BY <2>1, <2>3, PhaseMoves DEF IndInv
  <2>4. CASE UNCHANGED cstatus
    BY <1>1, <1>2, <2>4
  <2>5. ASSUME NEW s \in Settled, FinalizeTask(rpc.kid, s) PROVE Contract!Next
    <3>1. PhaseOf(s) = s
      BY DEF PhaseOf, Settled
    <3>2. Phases' = [Phases EXCEPT ![rpc.kid] = s]
      BY <2>3, <2>5, <3>1 DEF FinalizeTask
    <3> QED BY <1>2, <2>1, <2>2, <3>2, ContractSteps
  <2>6. CASE UpdateTask(rpc.kid, "blocked", rpc.n)
    <3>1. cstatus' = cstatus
      BY <2>1, <2>6 DEF UpdateTask, IndInv, TypeOK
    <3> QED BY <1>1, <1>2, <3>1
  <2> QED BY <1>3, <2>4, <2>5, <2>6 DEF FinalizeWrite, Settled
<1>4. CASE ~FinalizeWrite
  <2>1. UNCHANGED cstatus
    BY <1>4, Rpc DEF Rpc, Service, TeamSnapshot, PublishTeam, ResumeRemote, ResumeMain, FinalizeLook,
           UpsertWorker, FinalizeMessage
  <2> QED BY <1>1, <1>2, <2>1
<1> QED BY <1>3, <1>4

\* The dispatch and the finalization after an approval implement the contract of a
\* child: no step of one undoes the other's settlement and the answer to the parent is
\* the record, for any number of children and attempts.
THEOREM ContractHolds == Spec => ImplementsContract
<1>1. Init => Contract!Init
  <2> SUFFICES ASSUME Init PROVE Contract!Init
    OBVIOUS
  <2>1. \A c \in Kids : Phases[c] = "absent"
    BY DEF Init, Phases
  <2>2. Phases = [c \in Kids |-> "absent"]
    BY <2>1 DEF Phases
  <2> QED BY <2>2 DEF Contract!Init, Phases, Init
<1>2. IndInv /\ [Next]_vars => [Contract!Next]_<<Phases, told>>
  <2> SUFFICES ASSUME IndInv, [Next]_vars PROVE Contract!Next \/ UNCHANGED <<Phases, told>>
    OBVIOUS
  <2>1. UNCHANGED <<cstatus, told>> => UNCHANGED <<Phases, told>>
    BY DEF Phases
  <2>2. CASE UNCHANGED vars
    BY <2>1, <2>2 DEF vars
  <2>3. CASE Service("task")
    BY <2>1, <2>3 DEF Service, TeamSnapshot, PublishTeam, store
  <2>4. ASSUME NEW c \in Kids, NEW n \in Attempts(c),
               Child(c, n) \/ CancelRuntime(c, n)
               \/ \E d \in {"approved", "rejected"} : SubmitApproval(c, n, d)
        PROVE  UNCHANGED <<cstatus, told>>
    BY <2>4 DEF Child, ChildCreates, ChildCompletes, ChildFails, ChildAsks, ChildWaits,
         CancelRuntime, SubmitApproval, store
  <2> QED BY <2>1, <2>2, <2>3, <2>4, DispatchContract, RpcContract DEF Next, Step, Dispatcher
<1> QED BY <1>1, <1>2, Inductive, PTL DEF Spec, ImplementsContract, Contract!Spec, Phases

-----------------------------------------------------------------------------
(* Completion.  The evidence folds records.  The fold lemmas say that what   *)
(* the merges return are some of the records they were given: a fold over a  *)
(* sequence of A stays in A if each of its steps does.                       *)

Approval == [owner : Children \cup {"root"}, decision : {"pending", "approved", "rejected"}]

\* A task asks for its validation once, and for nothing after that: its open
\* approval is the last one it has.
AskedLast ==
  /\ Len(approvals) <= MaxAsks
  /\ \A i \in Pending("root") : \A j \in 1 .. Len(approvals) : j > i => approvals[j].owner # "root"
  /\ stage \in {"work", "validate"} => Pending("root") = {}

\* What has been read of the children is still so: a record that was terminal
\* stays terminal.
ReadsHold ==
  stage = "evidence" => \A k \in Children : collabs[k] \in Terminal => kids[k].collab \in Terminal

Over(k) == kids[k].rt \in {"absent"} \cup Terminal \/ kids[k].collab \in Terminal

\* The children the evidence does not call open are over.
ChildrenSeen ==
  /\ stage \in {"audit", "gate"} => \A k \in Children \ evidence.children : Over(k)
  /\ stage \in {"finalize", "completed"} => \A k \in Children : Over(k)

\* The audit has seen the task's own open approval, if there is one.
AskSeen ==
  /\ stage = "gate" => evidence.open \/ Pending("root") = {}
  /\ stage \in {"finalize", "completed"} => Pending("root") = {}

-----------------------------------------------------------------------------
LEMMA RowIsRow ==
  ASSUME clock \in Nat, NEW c \in Commands \cup {NoCmd}, NEW S, NEW st \in S
  PROVE  Row(c, st) \in Records(S) /\ Item(0, c, st, 0) \in Records(S)
BY DEF Row, Item, Records

LEMMA LeastExists ==
  ASSUME NEW S \in SUBSET Nat, S # {}
  PROVE  \E i \in S : \A j \in S : i <= j
<1>1. PICK x \in S : \A y \in S : <<y, x>> \notin OpToRel(<, Nat)
  BY NatLessThanWellFounded, WFMin, Zenon
<1>2. \A y \in S : ~ (y < x)
  BY <1>1 DEF OpToRel
<1>. QED BY <1>2

LEMMA ValidationCommandIs ==
  ASSUME CPTypeOK
  PROVE  ValidationCommand \in Commands \cup {NoCmd}
<1> DEFINE passed == {i \in 1 .. Len(log) : log[i].cmd \in PyTests /\ log[i].st \in PassedSts}
           first == CHOOSE i \in passed : \A j \in passed : i <= j
<1>1. ASSUME passed # {} PROVE log[first].cmd \in Commands
  <2>1. \E i \in passed : \A j \in passed : i <= j
    <3>1. passed \subseteq Nat
      BY DEF CPTypeOK
    <3>. HIDE DEF passed
    <3>. QED BY <1>1, <3>1, LeastExists
  <2>2. first \in passed
    <3>. HIDE DEF passed
    <3>. QED BY <2>1
  <2>. QED BY <2>2, CompletionAssumption
<1>. QED
  BY <1>1, CompletionAssumption DEF ValidationCommand

LEMMA LevelIs ==
  ASSUME NEW v, NEW t, NEW c, NEW w
  PROVE  Level(v, t, c, w) \in {"failed_verification", "verified", "runtime_evidence", "summary_only"}
BY DEF Level

LEMMA RequiredGrows == ASSUME NEW S \in SUBSET Paths PROVE Required(S) \subseteq Required(Paths)
BY DEF Required

LEMMA Appended ==
  ASSUME NEW S, NEW s \in Seq(S), NEW e \in S
  PROVE  Append(s, e) \in Seq(S)
OBVIOUS

LEMMA Joined ==
  ASSUME NEW S, NEW s \in Seq(S), NEW t \in Seq(S)
  PROVE  s \o t \in Seq(S)
OBVIOUS

LEMMA OneItem == ASSUME NEW S, NEW e \in S PROVE <<e>> \in Seq(S)
OBVIOUS

LEMMA SnapshotIs ==
  ASSUME NEW S, NEW st \in S
  PROVE  GitChecks(st) \in Seq(Records(S))
<1>1. Item(0, NoCmd, st, 0) \in Records(S)
  BY DEF Item, Records
<1>. HIDE DEF Records
<1>2. <<Item(0, NoCmd, st, 0)>> \in Seq(Records(S)) /\ << >> \in Seq(Records(S))
  BY <1>1, OneItem
<1>. QED BY <1>2 DEF GitChecks

Result == [tool : {"run_command", "apply_patch", "read_file", "task"}, ok : BOOLEAN]

LEMMA ResultIs ==
  ASSUME CPTypeOK, NEW t \in {"run_command", "apply_patch", "read_file", "task"}, NEW ok \in BOOLEAN
  PROVE  Append(results, [tool |-> t, ok |-> ok]) \in Seq(Result)
<1>1. [tool |-> t, ok |-> ok] \in Result
  BY DEF Result
<1>2. results \in Seq(Result)
  BY DEF CPTypeOK, Result
<1>. QED BY <1>1, <1>2, Appended

LEMMA AskIs ==
  ASSUME CPTypeOK, NEW o \in Children \cup {"root"}, NEW d \in {"pending", "approved", "rejected"}
  PROVE  Append(approvals, [owner |-> o, decision |-> d]) \in Seq(Approval)
<1>1. [owner |-> o, decision |-> d] \in Approval
  BY DEF Approval
<1>2. approvals \in Seq(Approval)
  BY DEF CPTypeOK, Approval
<1>. QED BY <1>1, <1>2, Appended

LEMMA ChildVerIs == ASSUME CPTypeOK PROVE ChildVer \subseteq Seq(ChildChecks)
<1>1. ASSUME NEW c \in Commands, NEW st \in {"passed", "failed"}
      PROVE  GitChecks("passed") \o <<Row(c, st)>> \in Seq(ChildChecks)
  <2>1. <<Row(c, st)>> \in Seq(ChildChecks)
    BY RowIsRow, OneItem DEF ChildChecks, CPTypeOK
  <2>2. GitChecks("passed") \in Seq(ChildChecks)
    BY SnapshotIs DEF ChildChecks
  <2>. QED BY <2>1, <2>2, Joined
<1>2. << >> \in Seq(ChildChecks)
  OBVIOUS
<1>3. SUFFICES ASSUME NEW v \in ChildVer PROVE v \in Seq(ChildChecks)
  OBVIOUS
<1>4. v = << >> \/ \E c \in Commands, st \in {"passed", "failed"} : v = GitChecks("passed") \o <<Row(c, st)>>
  BY <1>3 DEF ChildVer
<1>. QED BY <1>1, <1>2, <1>4

LEMMA DecisionIs ==
  ASSUME CPTypeOK, NEW i \in 1 .. Len(approvals), NEW d \in {"approved", "rejected"}
  PROVE  /\ [approvals EXCEPT ![i] = [@ EXCEPT !.decision = d]] \in Seq(Approval)
         /\ [approvals EXCEPT ![i] = [@ EXCEPT !.decision = d]][i] = [owner |-> approvals[i].owner, decision |-> d]
<1>0. approvals \in Seq(Approval)
  BY DEF CPTypeOK, Approval
<1>1. approvals \in Seq(Approval) /\ approvals[i] \in Approval
  BY <1>0
<1> DEFINE new == [approvals[i] EXCEPT !.decision = d]
<1>2. new \in Approval /\ new = [owner |-> approvals[i].owner, decision |-> d]
  BY <1>1 DEF Approval
<1>. HIDE DEF new
<1>3. [approvals EXCEPT ![i] = new] \in Seq(Approval) /\ [approvals EXCEPT ![i] = new][i] = new
  BY <1>1, <1>2
<1>. QED BY <1>2, <1>3 DEF new

LEMMA TypeLoop ==
  ASSUME CPTypeOK, Loop
  PROVE  CPTypeOK'
<1>1. ASSUME NEW c \in Commands, NEW st \in {"completed", "failed", "running"}, RunsCommand(c, st)
      PROVE  CPTypeOK'
  <2>1. Row(c, st) \in Rows
    BY RowIsRow DEF Rows, CPTypeOK
  <2>2. log' \in Seq(Rows) /\ commands' \in Seq(Rows)
    BY <1>1, <2>1 DEF RunsCommand, CPTypeOK
  <2>3. results' \in Seq(Result)
    <3>1. (st # "failed") \in BOOLEAN
      OBVIOUS
    <3>2. results' = Append(results, [tool |-> "run_command", ok |-> st # "failed"])
      BY <1>1 DEF RunsCommand
    <3>. QED BY <3>1, <3>2, ResultIs
  <2>. QED BY <1>1, <2>2, <2>3 DEF RunsCommand, CPTypeOK, Result
<1>2. ASSUME NEW p \in Paths, NEW ok \in BOOLEAN, AppliesPatch(p, ok) PROVE CPTypeOK'
  <2>1. results' \in Seq(Result)
    <3>1. results' = Append(results, [tool |-> "apply_patch", ok |-> ok])
      BY <1>2 DEF AppliesPatch
    <3>. QED BY <3>1, ResultIs
  <2>. QED BY <1>2, <2>1 DEF AppliesPatch, CPTypeOK, Result
<1>3. CASE WasApproved
  <2>1. results' \in Seq(Result) /\ approvals' \in Seq(Approval)
    <3>1. results' = Append(results, [tool |-> "read_file", ok |-> TRUE])
      BY <1>3 DEF WasApproved
    <3>2. approvals' \in Seq(Approval)
      BY <1>3, AskIs DEF WasApproved
    <3>. QED BY <3>1, <3>2, ResultIs
  <2>. QED BY <1>3, <2>1 DEF WasApproved, CPTypeOK, Approval, Result
<1>4. ASSUME NEW k \in Children, NEW s \in ChildEnded \cup ChildParked \cup ChildKilled,
             NEW ver \in Seq(ChildChecks), Dispatched(k, s, ver)
      PROVE  CPTypeOK'
  <2>1. results' \in Seq(Result)
    <3>1. (s.rt = "completed") \in BOOLEAN
      OBVIOUS
    <3>2. results' = Append(results, [tool |-> "task", ok |-> s.rt = "completed"])
      BY <1>4 DEF Dispatched
    <3>. QED BY <3>1, <3>2, ResultIs
  <2>2. approvals' \in Seq(Approval)
    BY <1>4, AskIs DEF Dispatched, CPTypeOK, Approval
  <2>3. s.rt \in ChildSts /\ s.collab \in CollabSts
    BY <1>4 DEF ChildEnded, ChildParked, ChildKilled, ChildSts, CollabSts, Terminal
  <2>4. kids' \in [Children -> [rt : ChildSts, collab : CollabSts, ver : Seq(ChildChecks)]]
    BY <1>4, <2>3 DEF Dispatched, CPTypeOK
  <2>5. clock' \in Nat
    BY <1>4 DEF Dispatched, CPTypeOK
  <2>. QED BY <1>4, <2>1, <2>2, <2>4, <2>5 DEF Dispatched, CPTypeOK, Approval, Result
<1>5. << >> \in Seq(ChildChecks)
  OBVIOUS
<1>. QED
  BY <1>1, <1>2, <1>3, <1>4, <1>5, ChildVerIs DEF Loop

LEMMA TypeOthers ==
  ASSUME CPTypeOK, Others
  PROVE  CPTypeOK'
<1>1. ASSUME NEW i \in 1 .. Len(log), NEW st \in {"completed", "failed"}, BackgroundEnds(i, st)
      PROVE  CPTypeOK'
  <2>1. log \in Seq(Rows) /\ log[i] \in Rows
    BY DEF CPTypeOK
  <2> DEFINE new == [log[i] EXCEPT !.st = st]
  <2>2. new \in Rows
    BY <2>1 DEF Rows, Records
  <2>3. log' = [log EXCEPT ![i] = new]
    BY <1>1 DEF BackgroundEnds
  <2>4. log' \in Seq(Rows)
    <3>. HIDE DEF new
    <3>. QED BY <2>1, <2>2, <2>3
  <2>. QED BY <1>1, <2>4 DEF BackgroundEnds, CPTypeOK
<1>2. ASSUME NEW k \in Children, NEW sts \in ChildSts, NEW collab \in CollabSts,
             NEW ver \in Seq(ChildChecks), ChildStep(k, sts, collab, ver)
      PROVE  /\ kids' \in [Children -> [rt : ChildSts, collab : CollabSts, ver : Seq(ChildChecks)]]
             /\ UNCHANGED <<status, mem, stage, checks, collabs, evidence, taskVars>>
  BY <1>2 DEF ChildStep, CPTypeOK
<1>3. ASSUME NEW i \in 1 .. Len(approvals), NEW d \in {"approved", "rejected"}, NEW r \in BOOLEAN,
             Decide(i, d, r)
      PROVE  CPTypeOK'
  <2>1. approvals' \in Seq(Approval)
    BY <1>3, DecisionIs DEF Decide
  <2> DEFINE k == approvals[i].owner
             sts == IF d = "approved" THEN "running" ELSE "failed"
  <2>2. sts \in ChildSts
    BY DEF ChildSts, Terminal
  <2>3. CASE k \in Children /\ ChildStep(k, sts, kids[k].collab, kids[k].ver)
    <3>1. kids[k].collab \in CollabSts /\ kids[k].ver \in Seq(ChildChecks)
      BY <2>3 DEF CPTypeOK
    <3>2. /\ kids' \in [Children -> [rt : ChildSts, collab : CollabSts, ver : Seq(ChildChecks)]]
          /\ UNCHANGED <<status, mem, stage, checks, collabs, evidence, taskVars>>
      <4>. HIDE DEF k, sts
      <4>. QED BY <1>2, <2>2, <2>3, <3>1
    <3>. QED BY <1>3, <2>1, <3>2 DEF Decide, CPTypeOK, Approval, taskVars
  <2>4. CASE UNCHANGED <<status, mem, stage, checks, kids, collabs, evidence, taskVars>>
    BY <1>3, <2>1, <2>4 DEF Decide, CPTypeOK, Approval, taskVars
  <2>. QED BY <1>3, <2>3, <2>4 DEF Decide
<1>4. ASSUME NEW k \in Children, ResumedAsks(k) PROVE CPTypeOK'
  <2>1. approvals' \in Seq(Approval)
    BY <1>4 DEF ResumedAsks, CPTypeOK, Approval
  <2>. QED BY <1>4, <2>1 DEF ResumedAsks, CPTypeOK, Approval, taskVars
<1>5. ASSUME NEW k \in Children, ResumedWaits(k) PROVE CPTypeOK'
  <2>1. "waiting_approval" \in ChildSts /\ kids[k].collab \in CollabSts /\ kids[k].ver \in Seq(ChildChecks)
    BY DEF CPTypeOK, ChildSts
  <2>. QED BY <1>2, <1>5, <2>1 DEF ResumedWaits, CPTypeOK, taskVars
<1>6. ASSUME NEW k \in Children, CollaborationEnds(k) PROVE CPTypeOK'
  <2>1. kids[k].rt \in ChildSts /\ kids[k].rt \in CollabSts /\ kids[k].ver \in Seq(ChildChecks)
    BY <1>6 DEF CPTypeOK, ChildSts, CollabSts, CollaborationEnds
  <2>. QED BY <1>2, <1>6, <2>1 DEF CollaborationEnds, CPTypeOK, taskVars
<1>7. ASSUME NEW k \in Children, NEW st \in {"completed", "failed"}, NEW ver \in ChildVer, ResumedEnds(k, st, ver)
      PROVE  CPTypeOK'
  <2>1. ver \in Seq(ChildChecks)
    BY ChildVerIs
  <2>2. st \in ChildSts /\ kids[k].collab \in CollabSts /\ kids[k].ver \o ver \in Seq(ChildChecks)
    BY <2>1 DEF CPTypeOK, ChildSts, Terminal
  <2>3. clock' \in Nat
    BY <1>7, <2>1 DEF ResumedEnds, CPTypeOK
  <2>. QED BY <1>2, <1>7, <2>2, <2>3 DEF ResumedEnds, CPTypeOK, taskVars
<1>8. CASE Cancel
  BY <1>8 DEF Cancel, CPTypeOK, Terminal, taskVars
<1>. QED
  BY <1>1, <1>3, <1>4, <1>5, <1>6, <1>7, <1>8 DEF Others

LEMMA TypeComplete ==
  ASSUME CPTypeOK, Complete
  PROVE  CPTypeOK'
<1>1. CASE Finish
  BY <1>1 DEF Finish, CPTypeOK, taskVars
<1>2. CASE NoValidation
  BY <1>2 DEF NoValidation, CPTypeOK, taskVars
<1>3. CASE RecordVerification
  <2> DEFINE S == {"passed", "failed", "skipped", "approval_required"}
  <2>1. ASSUME NEW i \in 1 .. Len(checks) PROVE Normalised(checks[i]) \in Records(S)
    <3>1. checks[i] \in Checks
      BY DEF CPTypeOK
    <3>. QED BY <3>1 DEF Normalised, Item, Checks, Records, PassedSts, FailedSts
  <2>2. verification' \in Seq(Records(S))
    <3>. HIDE DEF S
    <3>1. verification' = [i \in 1 .. Len(checks) |-> Normalised(checks[i])] /\ Len(checks) \in Nat
      BY <1>3 DEF RecordVerification, CPTypeOK
    <3>. QED BY <2>1, <3>1, IsASeq
  <2>. QED BY <1>3, <2>2 DEF RecordVerification, CPTypeOK
<1>4. ASSUME NEW st \in {"completed", "failed", "timeout"}, NEW gst \in {"completed", "failed"},
             NEW r \in BOOLEAN, ValidationRuns(st, gst, r)
      PROVE  CPTypeOK'
  <2> DEFINE row == Row(ValidationCommand, st)
             check == IF r THEN Item(0, ValidationCommand, st, 0) ELSE row
  <2>1. row \in Rows /\ row \in Checks /\ check \in Checks
    <3>1. row \in Records({"completed", "failed", "timeout"})
          /\ Item(0, ValidationCommand, st, 0) \in Records({"completed", "failed", "timeout"})
      BY RowIsRow, ValidationCommandIs DEF CPTypeOK
    <3>. QED BY <3>1 DEF Rows, Checks, Records
  <2>2. GitChecks(gst) \in Seq(Checks)
    BY SnapshotIs DEF Checks
  <2>3. /\ checks' = Append(GitChecks(gst), check)
        /\ log' = IF r THEN log ELSE Append(log, row)
        /\ commands' = IF r THEN commands ELSE Append(commands, row)
        /\ clock' = IF r THEN clock ELSE clock + 1
    BY <1>4 DEF ValidationRuns
  <2>4. checks' \in Seq(Checks) /\ log' \in Seq(Rows) /\ commands' \in Seq(Rows)
    <3>. HIDE DEF row, check
    <3>. QED BY <2>1, <2>2, <2>3 DEF CPTypeOK
  <2>. QED BY <1>4, <2>3, <2>4 DEF ValidationRuns, CPTypeOK
<1>5. ASSUME NEW gst \in {"completed", "failed"}, ValidationAsks(gst) PROVE CPTypeOK'
  <2>1. GitChecks(gst) \in Seq(Checks) /\ Item(0, ValidationCommand, "approval_required", 0) \in Checks
    <3>1. gst \in {"completed", "failed", "timeout", "skipped", "approval_required"}
      OBVIOUS
    <3>. QED BY <3>1, SnapshotIs, RowIsRow, ValidationCommandIs DEF Checks, CPTypeOK
  <2>2. checks' \in Seq(Checks)
    BY <1>5, <2>1 DEF ValidationAsks
  <2>3. approvals' \in Seq(Approval)
    BY <1>5 DEF ValidationAsks, CPTypeOK, Approval
  <2>. QED BY <1>5, <2>2, <2>3 DEF ValidationAsks, CPTypeOK, Approval, taskVars
<1>6. ASSUME NEW gst \in {"completed", "failed"}, ValidationSnapshots(gst) PROVE CPTypeOK'
  <2>1. GitChecks(gst) \in Seq(Checks) /\ Item(0, NoCmd, "skipped", 0) \in Checks
    BY SnapshotIs, RowIsRow DEF Checks, CPTypeOK
  <2>2. checks' \in Seq(Checks)
    BY <1>6, <2>1 DEF ValidationSnapshots
  <2>. QED BY <1>6, <2>2 DEF ValidationSnapshots, CPTypeOK, taskVars
<1>7. CASE ReadCollaborations
  BY <1>7 DEF ReadCollaborations, CPTypeOK, taskVars
<1>8. CASE Audit
  BY <1>8 DEF Audit, CPTypeOK, Evidences, taskVars
<1>9. CASE Gate \/ Wait \/ Finalize
  BY <1>9 DEF Gate, Wait, Finalize, CPTypeOK, Terminal, taskVars
<1>10. ASSUME NEW r \in {"none", "passed", "failed"}, BuildEvidence(r) PROVE CPTypeOK'
  <2>1. evidence' \in Evidences
    <3>1. \E v, t, c, w : evidence' = [level |-> Level(v, t, c, w), children |-> {k \in Known : ~ChildSettled(k)},
                                       missing |-> Missing(changed, v, t), rerun |-> r, open |-> FALSE]
      BY <1>10, Zenon DEF BuildEvidence
    <3>2. PICK v, t, c, w : evidence' = [level |-> Level(v, t, c, w), children |-> {k \in Known : ~ChildSettled(k)},
                                         missing |-> Missing(changed, v, t), rerun |-> r, open |-> FALSE]
      BY <3>1
    <3>3. Missing(changed, v, t) \subseteq Required(Paths)
      BY RequiredGrows DEF Missing, CPTypeOK
    <3>4. {k \in Known : ~ChildSettled(k)} \subseteq Children
      BY DEF Known
    <3>. QED BY <3>2, <3>3, <3>4, LevelIs DEF Evidences
  <2>. QED BY <1>10, <2>1 DEF BuildEvidence, CPTypeOK, taskVars
<1>. QED
  BY <1>1, <1>2, <1>3, <1>4, <1>5, <1>6, <1>7, <1>8, <1>9, <1>10 DEF Complete

LEMMA CPTypeStep == CPTypeOK /\ [CPNext]_cpVars => CPTypeOK'
<1>1. CPTypeOK /\ UNCHANGED cpVars => CPTypeOK'
  BY DEF CPTypeOK, cpVars
<1>. QED
  BY <1>1, TypeLoop, TypeOthers, TypeComplete DEF CPNext, Done

LEMMA CPTypeInit == CPInit => CPTypeOK
BY DEF CPInit, CPTypeOK, ChildSts, CollabSts, NoEvidence, Evidences

-----------------------------------------------------------------------------
(* The approvals. *)

\* An approval is added at the end, decided, or left alone; only the validation asks
\* for the task itself.
Asks(o, d) == approvals' = Append(approvals, [owner |-> o, decision |-> d])
Decides(i, d) == approvals' = [approvals EXCEPT ![i] = [@ EXCEPT !.decision = d]]

LEMMA ApprovalsMove ==
  ASSUME CPTypeOK, [CPNext]_cpVars
  PROVE  \/ UNCHANGED approvals
         \/ /\ Len(approvals) < MaxAsks
            /\ \/ \E k \in Children : Asks(k, "pending")
               \/ stage = "work" /\ stage' = "work" /\ Asks("root", "approved")
               \/ stage = "validate" /\ stage' = "record" /\ Asks("root", "pending")
         \/ \E i \in 1 .. Len(approvals), d \in {"approved", "rejected"} :
               approvals[i].decision = "pending" /\ Decides(i, d)
<1>1. CASE UNCHANGED cpVars \/ Done
  BY <1>1 DEF cpVars, Done
<1>2. CASE Loop
  BY <1>2 DEF Loop, RunsCommand, AppliesPatch, WasApproved, Dispatched, InLoop, Asks
<1>3. CASE Others
  <2>1. CASE \E k \in Children : ResumedAsks(k)
    BY <2>1 DEF ResumedAsks, Asks
  <2>2. ASSUME NEW i \in 1 .. Len(approvals), NEW d \in {"approved", "rejected"}, NEW r \in BOOLEAN,
               Decide(i, d, r)
        PROVE  approvals[i].decision = "pending" /\ Decides(i, d)
    BY <2>2 DEF Decide, Decides
  <2>3. CASE \/ \E j \in 1 .. Len(log), st \in {"completed", "failed"} : BackgroundEnds(j, st)
             \/ \E k \in Children : ResumedWaits(k) \/ CollaborationEnds(k)
             \/ \E k \in Children, st \in {"completed", "failed"}, ver \in ChildVer : ResumedEnds(k, st, ver)
             \/ Cancel
    BY <2>3 DEF BackgroundEnds, ResumedWaits, CollaborationEnds, ResumedEnds, Cancel
  <2>. QED BY <1>3, <2>1, <2>2, <2>3 DEF Others
<1>4. CASE Complete
  <2>1. CASE \E gst \in {"completed", "failed"} : ValidationAsks(gst)
    BY <2>1 DEF ValidationAsks, Asks
  <2>2. CASE ~ \E gst \in {"completed", "failed"} : ValidationAsks(gst)
    BY <1>4, <2>2 DEF Complete, Finish, NoValidation, RecordVerification, ValidationRuns,
       ValidationSnapshots, ReadCollaborations, Audit, Gate, Wait, Finalize, BuildEvidence
  <2>. QED BY <2>1, <2>2
<1>. QED BY <1>1, <1>2, <1>3, <1>4 DEF CPNext

LEMMA ApprovalAdded ==
  ASSUME CPTypeOK, NEW o \in Children \cup {"root"}, NEW d \in {"pending", "approved"}, Asks(o, d)
  PROVE  /\ Len(approvals') = Len(approvals) + 1 /\ Len(approvals) \in Nat
         /\ approvals'[Len(approvals) + 1] = [owner |-> o, decision |-> d]
         /\ \A i \in 1 .. Len(approvals) : approvals'[i] = approvals[i]
<1>1. approvals \in Seq(Approval)
  BY DEF CPTypeOK, Approval
<1>. QED BY <1>1 DEF Asks

LEMMA ApprovalDecided ==
  ASSUME CPTypeOK, NEW i \in 1 .. Len(approvals), NEW d \in {"approved", "rejected"}, Decides(i, d)
  PROVE  /\ Len(approvals') = Len(approvals) /\ Len(approvals) \in Nat
         /\ approvals'[i] = [owner |-> approvals[i].owner, decision |-> d]
         /\ \A j \in 1 .. Len(approvals) : j # i => approvals'[j] = approvals[j]
<1>1. approvals \in Seq(Approval)
  BY DEF CPTypeOK, Approval
<1>2. approvals'[i] = [owner |-> approvals[i].owner, decision |-> d]
  BY DecisionIs DEF Decides
<1>. QED BY <1>1, <1>2 DEF Decides

\* Nobody takes a decision back, and who asks later is a child.
LEMMA PendingMoves ==
  ASSUME CPTypeOK, [CPNext]_cpVars
  PROVE  \/ Pending("root")' \subseteq Pending("root")
         \/ stage = "validate" /\ stage' = "record"
<1>1. ASSUME NEW o \in Children \cup {"root"}, NEW d \in {"pending", "approved"}, Asks(o, d),
             o # "root" \/ d # "pending"
      PROVE  Pending("root")' \subseteq Pending("root")
  <2>1. /\ Len(approvals') = Len(approvals) + 1 /\ Len(approvals) \in Nat
        /\ approvals'[Len(approvals) + 1] = [owner |-> o, decision |-> d]
        /\ \A i \in 1 .. Len(approvals) : approvals'[i] = approvals[i]
    BY <1>1, ApprovalAdded, Zenon
  <2>. QED BY <1>1, <2>1 DEF Pending
<1>2. ASSUME NEW i \in 1 .. Len(approvals), NEW d \in {"approved", "rejected"}, Decides(i, d)
      PROVE  Pending("root")' \subseteq Pending("root")
  <2>1. /\ Len(approvals') = Len(approvals) /\ Len(approvals) \in Nat
        /\ approvals'[i] = [owner |-> approvals[i].owner, decision |-> d]
        /\ \A j \in 1 .. Len(approvals) : j # i => approvals'[j] = approvals[j]
    BY <1>2, ApprovalDecided, Zenon
  <2>. QED BY <2>1 DEF Pending
<1>3. CASE UNCHANGED approvals
  BY <1>3 DEF Pending
<1>. QED
  BY <1>1, <1>2, <1>3, ApprovalsMove, CompletionAssumption

LEMMA AskedLastStep ==
  ASSUME CPTypeOK, AskedLast, [CPNext]_cpVars
  PROVE  AskedLast'
<1> DEFINE Lasts == \A i \in Pending("root") : \A j \in 1 .. Len(approvals) : j > i => approvals[j].owner # "root"
<1>0. Len(approvals) \in Nat /\ Len(approvals) <= MaxAsks /\ MaxAsks \in Nat /\ Lasts
  BY CompletionAssumption, SMTT(30) DEF CPTypeOK, AskedLast
<1>1. stage' \in {"work", "validate"} => stage \in {"work", "validate"}
  <2>1. CASE Loop \/ Others \/ Done \/ UNCHANGED cpVars
    BY <2>1 DEF Loop, RunsCommand, AppliesPatch, WasApproved, Dispatched, Others, BackgroundEnds, Decide,
       ResumedAsks, ResumedWaits, CollaborationEnds, ResumedEnds, Cancel, ChildStep, Done, cpVars
  <2>2. CASE Complete
    BY <2>2 DEF Complete, Finish, NoValidation, RecordVerification, ValidationRuns, ValidationAsks,
       ValidationSnapshots, ReadCollaborations, Audit, Gate, Wait, Finalize, BuildEvidence
  <2>. QED BY <2>1, <2>2 DEF CPNext
<1>2. CASE UNCHANGED approvals
  BY <1>1, <1>2 DEF AskedLast, Pending
<1>3. ASSUME Len(approvals) < MaxAsks, NEW k \in Children, Asks(k, "pending") PROVE AskedLast'
  <2>0. /\ Len(approvals') = Len(approvals) + 1 /\ Len(approvals) \in Nat
        /\ approvals'[Len(approvals) + 1] = [owner |-> k, decision |-> "pending"]
        /\ \A i \in 1 .. Len(approvals) : approvals'[i] = approvals[i]
    BY <1>3, ApprovalAdded, Zenon
  <2>1. k # "root"
    BY CompletionAssumption
  <2>2. Pending("root")' \subseteq Pending("root")
    BY <2>0, <2>1 DEF Pending
  <2>3. Len(approvals') <= MaxAsks
    BY <1>0, <1>3, <2>0
  <2>4. Lasts'
    BY <1>0, <2>0, <2>1, <2>2
  <2>. QED BY <1>1, <2>2, <2>3, <2>4 DEF AskedLast
<1>4. CASE Len(approvals) < MaxAsks /\ stage = "work" /\ stage' = "work" /\ Asks("root", "approved")
  <2>0. /\ Len(approvals') = Len(approvals) + 1 /\ Len(approvals) \in Nat
        /\ approvals'[Len(approvals) + 1] = [owner |-> "root", decision |-> "approved"]
        /\ \A i \in 1 .. Len(approvals) : approvals'[i] = approvals[i]
    BY <1>4, ApprovalAdded, Zenon
  <2>1. Pending("root") = {}
    BY <1>4 DEF AskedLast
  <2>2. Pending("root")' = {}
    BY <2>0, <2>1 DEF Pending
  <2>3. Len(approvals') <= MaxAsks
    BY <1>0, <1>4, <2>0
  <2>. QED BY <2>2, <2>3 DEF AskedLast
<1>5. CASE Len(approvals) < MaxAsks /\ stage = "validate" /\ stage' = "record" /\ Asks("root", "pending")
  <2>0. /\ Len(approvals') = Len(approvals) + 1 /\ Len(approvals) \in Nat
        /\ approvals'[Len(approvals) + 1] = [owner |-> "root", decision |-> "pending"]
        /\ \A i \in 1 .. Len(approvals) : approvals'[i] = approvals[i]
    BY <1>5, ApprovalAdded, Zenon
  <2>1. Pending("root") = {}
    BY <1>5 DEF AskedLast
  <2>2. Pending("root")' \subseteq {Len(approvals')}
    BY <2>0, <2>1 DEF Pending
  <2>3. Len(approvals') <= MaxAsks /\ Len(approvals') \in Nat
    BY <1>0, <1>5, <2>0
  <2>. QED BY <1>5, <2>2, <2>3 DEF AskedLast
<1>6. ASSUME NEW i \in 1 .. Len(approvals), NEW d \in {"approved", "rejected"}, Decides(i, d)
      PROVE  AskedLast'
  <2>0. /\ Len(approvals') = Len(approvals) /\ Len(approvals) \in Nat
        /\ approvals'[i] = [owner |-> approvals[i].owner, decision |-> d]
        /\ \A j \in 1 .. Len(approvals) : j # i => approvals'[j] = approvals[j]
    BY <1>6, ApprovalDecided, Zenon
  <2>1. Pending("root")' \subseteq Pending("root")
    BY <2>0 DEF Pending
  <2>2. Len(approvals') = Len(approvals)
        /\ \A j \in 1 .. Len(approvals) : approvals'[j].owner = approvals[j].owner
    BY <2>0
  <2>. QED BY <1>0, <1>1, <2>1, <2>2 DEF AskedLast
<1>. QED
  BY <1>2, <1>3, <1>4, <1>5, <1>6, ApprovalsMove

-----------------------------------------------------------------------------
(* The children. *)

\* Once the loop is left a child that is over stays over, and a terminal record
\* is final.
LEMMA KidsMove ==
  ASSUME CPTypeOK, [CPNext]_cpVars, stage # "work", NEW k \in Children
  PROVE  /\ kids[k].collab \in Terminal => kids'[k].collab \in Terminal
         /\ Over(k) => Over(k)'
<1>1. ASSUME NEW c \in Children, NEW sts \in ChildSts, NEW collab \in CollabSts, NEW ver,
             ChildStep(c, sts, collab, ver)
      PROVE  \A n \in Children : kids'[n] = IF n = c THEN [rt |-> sts, collab |-> collab, ver |-> ver]
                                            ELSE kids[n]
  BY <1>1 DEF ChildStep, CPTypeOK
<1>2. CASE UNCHANGED kids
  BY <1>2 DEF Over
<1>3. CASE Others
  <2>1. ASSUME NEW i \in 1 .. Len(approvals), NEW d \in {"approved", "rejected"}, NEW r \in BOOLEAN,
               Decide(i, d, r)
        PROVE  /\ kids[k].collab \in Terminal => kids'[k].collab \in Terminal
               /\ Over(k) => Over(k)'
    <3>1. CASE UNCHANGED kids
      BY <3>1 DEF Over
    <3>2. CASE ~ UNCHANGED kids
      <4> DEFINE c == approvals[i].owner
                 sts == IF d = "approved" THEN "running" ELSE "failed"
      <4>1. c \in Children /\ kids[c].rt = "waiting_approval" /\ ChildStep(c, sts, kids[c].collab, kids[c].ver)
        BY <2>1, <3>2 DEF Decide
      <4>2. kids'[k] = IF k = c THEN [rt |-> sts, collab |-> kids[c].collab, ver |-> kids[c].ver] ELSE kids[k]
        <5>1. sts \in ChildSts /\ kids[c].collab \in CollabSts
          BY <4>1 DEF CPTypeOK, ChildSts, Terminal
        <5>. HIDE DEF c, sts
        <5>. QED BY <1>1, <4>1, <5>1
      <4>. HIDE DEF c, sts
      <4>. QED BY <4>1, <4>2 DEF Over, Terminal
    <3>. QED BY <3>1, <3>2
  <2>2. ASSUME NEW c \in Children, ResumedWaits(c)
        PROVE  /\ kids[k].collab \in Terminal => kids'[k].collab \in Terminal
               /\ Over(k) => Over(k)'
    <3>1. "waiting_approval" \in ChildSts /\ kids[c].collab \in CollabSts
      BY DEF CPTypeOK, ChildSts
    <3>2. kids'[k] = IF k = c THEN [rt |-> "waiting_approval", collab |-> kids[c].collab, ver |-> kids[c].ver]
                     ELSE kids[k]
      BY <1>1, <2>2, <3>1 DEF ResumedWaits
    <3>. QED BY <2>2, <3>2 DEF ResumedWaits, Resumed, Over, Terminal
  <2>3. ASSUME NEW c \in Children, CollaborationEnds(c)
        PROVE  /\ kids[k].collab \in Terminal => kids'[k].collab \in Terminal
               /\ Over(k) => Over(k)'
    <3>1. kids[c].rt \in ChildSts /\ kids[c].rt \in CollabSts
      BY <2>3 DEF CPTypeOK, ChildSts, CollabSts, CollaborationEnds
    <3>2. kids'[k] = IF k = c THEN [rt |-> kids[c].rt, collab |-> kids[c].rt, ver |-> kids[c].ver] ELSE kids[k]
      BY <1>1, <2>3, <3>1 DEF CollaborationEnds
    <3>. QED BY <2>3, <3>2 DEF CollaborationEnds, Over, Terminal
  <2>4. ASSUME NEW c \in Children, NEW st \in {"completed", "failed"}, NEW ver \in ChildVer,
               ResumedEnds(c, st, ver)
        PROVE  /\ kids[k].collab \in Terminal => kids'[k].collab \in Terminal
               /\ Over(k) => Over(k)'
    <3>1. st \in ChildSts /\ kids[c].collab \in CollabSts
      BY DEF CPTypeOK, ChildSts, Terminal
    <3>2. kids'[k] = IF k = c THEN [rt |-> st, collab |-> kids[c].collab, ver |-> kids[c].ver \o ver] ELSE kids[k]
      BY <1>1, <2>4, <3>1, ZenonT(40) DEF ResumedEnds
    <3>. QED BY <2>4, <3>2 DEF ResumedEnds, Over, Terminal
  <2>5. CASE \/ \E j \in 1 .. Len(log), st \in {"completed", "failed"} : BackgroundEnds(j, st)
             \/ \E c \in Children : ResumedAsks(c)
             \/ Cancel
    BY <1>2, <2>5 DEF BackgroundEnds, ResumedAsks, Cancel
  <2>. QED BY <1>3, <2>1, <2>2, <2>3, <2>4, <2>5 DEF Others
<1>4. CASE Loop
  BY <1>2, <1>4 DEF Loop, RunsCommand, AppliesPatch, WasApproved, Dispatched, InLoop
<1>5. CASE Complete
  BY <1>2, <1>5 DEF Complete, Finish, NoValidation, RecordVerification, ValidationRuns, ValidationAsks,
     ValidationSnapshots, ReadCollaborations, Audit, Gate, Wait, Finalize, BuildEvidence
<1>6. CASE Done \/ UNCHANGED cpVars
  BY <1>2, <1>6 DEF Done, cpVars
<1>. QED BY <1>3, <1>4, <1>5, <1>6 DEF CPNext

\* Where the completing thread stands, its reads and its evidence are its own.
LEMMA OthersLeave ==
  ASSUME Loop \/ Others \/ Done \/ UNCHANGED cpVars
  PROVE  UNCHANGED <<stage, collabs, evidence>>
BY DEF Loop, RunsCommand, AppliesPatch, WasApproved, Dispatched, Others, BackgroundEnds, Decide,
   ResumedAsks, ResumedWaits, CollaborationEnds, ResumedEnds, Cancel, ChildStep, Done, cpVars

LEMMA ReadsHoldStep ==
  ASSUME CPTypeOK, ReadsHold, [CPNext]_cpVars
  PROVE  ReadsHold'
<1>1. CASE Loop \/ Others \/ Done \/ UNCHANGED cpVars
  BY <1>1, KidsMove, OthersLeave DEF ReadsHold
<1>2. CASE ReadCollaborations
  BY <1>2 DEF ReadCollaborations, ReadsHold
<1>3. CASE Complete /\ ~ReadCollaborations
  BY <1>3 DEF Complete, Finish, NoValidation, RecordVerification, ValidationRuns, ValidationAsks,
     ValidationSnapshots, Audit, Gate, Wait, Finalize, BuildEvidence, ReadsHold
<1>. QED BY <1>1, <1>2, <1>3 DEF CPNext

LEMMA ChildrenSeenStep ==
  ASSUME CPTypeOK, ReadsHold, ChildrenSeen, [CPNext]_cpVars
  PROVE  ChildrenSeen'
<1>1. CASE Loop \/ Others \/ Done \/ UNCHANGED cpVars
  BY <1>1, KidsMove, OthersLeave DEF ChildrenSeen
<1>2. ASSUME NEW r \in {"none", "passed", "failed"}, BuildEvidence(r) PROVE ChildrenSeen'
  <2>1. stage = "evidence" /\ stage' = "audit" /\ UNCHANGED kids
        /\ evidence'.children = {k \in Known : ~ChildSettled(k)}
    BY <1>2 DEF BuildEvidence
  <2>2. \A k \in Children : k \notin evidence'.children => Over(k)
    BY <2>1 DEF Known, ChildSettled, Over, ReadsHold
  <2>. QED BY <2>1, <2>2 DEF ChildrenSeen, Over
<1>3. CASE Audit
  <2>1. evidence'.children = evidence.children /\ UNCHANGED kids
    BY <1>3 DEF Audit, CPTypeOK, Evidences
  <2>. QED BY <1>3, <2>1 DEF Audit, ChildrenSeen, Over
<1>4. CASE Gate \/ Finalize
  BY <1>4 DEF Gate, Finalize, ChildrenSeen, Over
<1>5. CASE \/ Finish \/ NoValidation \/ RecordVerification \/ ReadCollaborations \/ Wait
           \/ \E gst \in {"completed", "failed"} : ValidationAsks(gst) \/ ValidationSnapshots(gst)
           \/ \E st \in {"completed", "failed", "timeout"}, gst \in {"completed", "failed"}, r \in BOOLEAN :
                ValidationRuns(st, gst, r)
  BY <1>5 DEF Finish, NoValidation, RecordVerification, ValidationRuns, ValidationAsks,
     ValidationSnapshots, ReadCollaborations, Wait, ChildrenSeen
<1>. QED BY <1>1, <1>2, <1>3, <1>4, <1>5 DEF CPNext, Complete

CPInv == CPTypeOK /\ AskedLast /\ ReadsHold /\ ChildrenSeen

LEMMA CompletionInductive == CPSpec => []CPInv
<1>1. CPInit => CPInv
  <2> SUFFICES ASSUME CPInit PROVE CPInv
    OBVIOUS
  <2>1. Pending("root") = {} /\ Len(approvals) = 0
    BY DEF CPInit, Pending
  <2>. QED BY <2>1, CPTypeInit, CompletionAssumption DEF CPInit, CPInv, AskedLast, ReadsHold, ChildrenSeen
<1>2. CPInv /\ [CPNext]_cpVars => CPInv'
  BY CPTypeStep, AskedLastStep, ReadsHoldStep, ChildrenSeenStep DEF CPInv
<1>. QED BY <1>1, <1>2, PTL DEF CPSpec

\* Every variable of the model of a completion keeps its type.
THEOREM CompletionTypesCorrect == CPSpec => []CPTypeOK
<1>1. CPInv => CPTypeOK
  BY DEF CPInv
<1>. QED BY <1>1, CompletionInductive, PTL

\* A task is written "completed" only when every child it ever dispatched is over, for
\* any number of children, approvals and windows.
THEOREM ChildrenSettledHolds ==
  CPSpec => [](stage = "completed" =>
                 \A k \in Children : kids[k].rt \in {"absent"} \cup Terminal \/ kids[k].collab \in Terminal)
<1>1. CPInv => (stage = "completed" =>
                  \A k \in Children : kids[k].rt \in {"absent"} \cup Terminal \/ kids[k].collab \in Terminal)
  BY DEF CPInv, ChildrenSeen, Over
<1>. QED BY <1>1, CompletionInductive, PTL

-----------------------------------------------------------------------------
(* The audit. *)

\* The task's own open approval is the last of the task, so it is among its latest;
\* and no more approvals follow it than the audit keeps.
LEMMA OpenAskAudited ==
  ASSUME MaxAsks <= Window, CPTypeOK, AskedLast, NEW i \in Pending("root")
  PROVE  i \in Audited
<1> DEFINE n == Len(approvals)
           Own == {j \in 1 .. n : approvals[j].owner = "root"}
           All == UNION {Latest({j \in 1 .. n : approvals[j].owner = o}, TaskWindow) :
                            o \in {"root"} \cup Children}
<1>1. n \in Nat /\ n <= MaxAsks /\ i \in 1 .. n /\ i \in Own /\ MaxAsks \in Nat /\ Window \in Nat
  BY CompletionAssumption DEF CPTypeOK, AskedLast, Pending
<1>2. {j \in Own : j > i} = {}
  BY DEF AskedLast
<1>3. i \in Latest(Own, TaskWindow)
  <2>1. Cardinality({j \in Own : j > i}) = 0
    BY <1>2, FS_EmptySet
  <2>. HIDE DEF Own, n
  <2>. QED BY <1>1, <2>1, CompletionAssumption DEF Latest
<1>4. i \in All /\ All \subseteq 1 .. n
  BY <1>3 DEF Latest
<1>5. Cardinality({j \in All : j > i}) < Window
  <2>1. {j \in All : j > i} \subseteq (i + 1) .. n
    <3>1. \A j \in All : j \in 1 .. n
      BY <1>4
    <3>. HIDE DEF All, n
    <3>2. i \in Nat /\ n \in Nat
      BY <1>1
    <3>. QED BY <3>1, <3>2
  <2>2. IsFiniteSet((i + 1) .. n) /\ Cardinality((i + 1) .. n) = IF i + 1 > n THEN 0 ELSE n - (i + 1) + 1
    <3>. HIDE DEF n
    <3>1. i + 1 \in Int /\ n \in Int
      BY <1>1
    <3>. QED BY <3>1, FS_Interval, Zenon
  <2>3. Cardinality({j \in All : j > i}) <= Cardinality((i + 1) .. n) /\ Cardinality({j \in All : j > i}) \in Nat
    BY <2>1, <2>2, FS_Subset, FS_CardinalityType
  <2>. HIDE DEF All, n
  <2>. QED BY <1>1, <2>2, <2>3, CompletionAssumption
<1>6. Audited = Latest(All, Window)
  BY DEF Audited
<1>. HIDE DEF All
<1>. QED BY <1>4, <1>5, <1>6 DEF Latest

LEMMA AskSeenStep ==
  ASSUME MaxAsks <= Window, CPTypeOK, AskedLast, AskSeen, [CPNext]_cpVars
  PROVE  AskSeen'
<1>1. Pending("root")' \subseteq Pending("root") \/ stage' = "record"
  BY PendingMoves
<1>2. CASE Loop \/ Others \/ Done \/ UNCHANGED cpVars
  BY <1>1, <1>2, OthersLeave DEF AskSeen
<1>3. CASE Audit
  <2>1. evidence'.open = \E i \in Audited : approvals[i].decision = "pending"
    BY <1>3, Zenon DEF Audit, CPTypeOK, Evidences
  <2>2. evidence'.open \/ Pending("root") = {}
    BY <2>1, OpenAskAudited DEF Pending
  <2>. QED BY <1>3, <1>1, <2>2 DEF Audit, AskSeen
<1>4. CASE Gate
  BY <1>1, <1>4 DEF Gate, AskSeen
<1>5. CASE Finalize
  BY <1>1, <1>5 DEF Finalize, AskSeen
<1>6. CASE \/ Finish \/ NoValidation \/ RecordVerification \/ ReadCollaborations \/ Wait
           \/ \E gst \in {"completed", "failed"} : ValidationAsks(gst) \/ ValidationSnapshots(gst)
           \/ \E st \in {"completed", "failed", "timeout"}, gst \in {"completed", "failed"}, r \in BOOLEAN :
                ValidationRuns(st, gst, r)
           \/ \E r \in {"none", "passed", "failed"} : BuildEvidence(r)
  BY <1>6 DEF Finish, NoValidation, RecordVerification, ValidationRuns, ValidationAsks,
     ValidationSnapshots, ReadCollaborations, Wait, BuildEvidence, AskSeen
<1>. QED BY <1>2, <1>3, <1>4, <1>5, <1>6 DEF CPNext, Complete

\* A completed task has settled (CompletedIsSettled), for any number of children, as
\* long as the task and its children have not asked for more approvals than the audit
\* keeps; beyond that an open approval of the task may be older than all the audit sees.
THEOREM CompletedIsSettledHolds ==
  ASSUME MaxAsks <= Window
  PROVE  CPSpec => []CompletedIsSettled
<1>1. CPInit => AskSeen
  BY DEF CPInit, AskSeen
<1>2. CPInv /\ AskSeen /\ [CPNext]_cpVars => AskSeen'
  BY AskSeenStep DEF CPInv
<1>3. CPInv /\ AskSeen => CompletedIsSettled
  BY DEF CPInv, ChildrenSeen, AskSeen, Over, CompletedIsSettled
<1>. QED BY <1>1, <1>2, <1>3, CompletionInductive, PTL DEF CPSpec

-----------------------------------------------------------------------------
(* Folds. *)

LEMMA NatInduct ==
  ASSUME NEW S, 0 \in S, \A n \in Nat : n \in S => n + 1 \in S
  PROVE  Nat \subseteq S
<1> DEFINE T == Nat \ S
<1>1. ASSUME T # {} PROVE FALSE
  <2>1. T \in SUBSET Nat
    OBVIOUS
  <2>2. PICK x \in T : \A y \in T : x <= y
    <3>. HIDE DEF T
    <3>. QED BY <1>1, <2>1, LeastExists
  <2>3. x # 0 /\ x - 1 \in Nat
    OBVIOUS
  <2>4. x - 1 \notin T
    BY <2>2, <2>3
  <2>. QED BY <2>3, <2>4
<1>. QED BY <1>1

LEMMA MaxIs ==
  ASSUME NEW n \in Nat, NEW t \in SUBSET (1 .. n), t # {}
  PROVE  Max(t) \in t /\ \A y \in t : y <= Max(t)
<1> DEFINE T == {n - a : a \in t}
<1>1. T \in SUBSET Nat /\ T # {}
  <2>1. \A a \in t : n - a \in Nat
    OBVIOUS
  <2>2. PICK a \in t : TRUE
    OBVIOUS
  <2>3. n - a \in T
    BY <2>2
  <2>. QED BY <2>1, <2>3
<1>2. PICK x \in T : \A y \in T : x <= y
  <2>. HIDE DEF T
  <2>. QED BY <1>1, LeastExists
<1>3. PICK a \in t : x = n - a
  OBVIOUS
<1>4. \A y \in t : a >= y
  <2> SUFFICES ASSUME NEW y \in t PROVE a >= y
    OBVIOUS
  <2>1. x <= n - y
    BY <1>2
  <2>. QED BY <1>3, <2>1
<1>5. \E m \in t : \A y \in t : m >= y
  BY <1>4
<1>6. Max(t) \in t /\ \A y \in t : Max(t) >= y
  BY <1>5, Zenon DEF Max
<1>. QED BY <1>6

LEMMA MaxOf ==
  ASSUME NEW m \in Nat, NEW t \in SUBSET (1 .. m + 1), m + 1 \in t
  PROVE  Max(t) = m + 1 /\ t \ {Max(t)} \in SUBSET (1 .. m)
<1>1. Max(t) \in t /\ \A y \in t : y <= Max(t)
  <2>1. m + 1 \in Nat /\ t # {}
    OBVIOUS
  <2>. QED BY <2>1, MaxIs
<1>. HIDE DEF Max
<1>2. Max(t) \in 1 .. m + 1 /\ m + 1 <= Max(t)
  BY <1>1
<1>3. Max(t) = m + 1
  BY <1>2
<1>4. t \ {m + 1} \in SUBSET (1 .. m)
  OBVIOUS
<1>. QED BY <1>3, <1>4

\* f holds what folding s gives over each part of its indices.
IsFold(f, n, A, b, s, step) ==
  /\ f \in [SUBSET (1 .. n) -> A]
  /\ f[{}] = b
  /\ \A t \in SUBSET (1 .. n) : t # {} => f[t] = step[<<f[t \ {Max(t)}], s[Max(t)]>>]

LEMMA FoldExists ==
  ASSUME NEW n \in Nat, NEW A, NEW R, NEW b \in A, NEW s \in [1 .. n -> R],
         NEW step \in [A \X R -> A]
  PROVE  \E f : IsFold(f, n, A, b, s, step)
<1> DEFINE Folds(f, m) == /\ f \in [SUBSET (1 .. m) -> A]
                          /\ f[{}] = b
                          /\ \A t \in SUBSET (1 .. m) : t # {} => f[t] = step[<<f[t \ {Max(t)}], s[Max(t)]>>]
           Can(m) == \E f : Folds(f, m)
           S == {m \in Nat : m <= n => Can(m)}
<1>1. 0 \in S
  <2> DEFINE f == [t \in SUBSET (1 .. 0) |-> b]
  <2>1. 1 .. 0 = {}
    OBVIOUS
  <2>2. Folds(f, 0)
    BY <2>1
  <2>3. Can(0)
    <3>. HIDE DEF Folds
    <3>. QED BY <2>2
  <2>. HIDE DEF Can
  <2>. QED BY <2>3
<1>2. ASSUME NEW m \in Nat, m \in S PROVE m + 1 \in S
  <2>1. SUFFICES ASSUME m + 1 <= n PROVE Can(m + 1)
    <3>. HIDE DEF Can
    <3>. QED OBVIOUS
  <2>10. Can(m)
    <3>. HIDE DEF Can
    <3>. QED BY <1>2, <2>1
  <2>2. PICK f : Folds(f, m)
    BY <2>10
  <2> DEFINE g == [t \in SUBSET (1 .. m + 1) |->
                     IF m + 1 \in t THEN step[<<f[t \ {m + 1}], s[m + 1]>>] ELSE f[t]]
  <2>3. \A t \in SUBSET (1 .. m + 1) : m + 1 \notin t => t \in SUBSET (1 .. m)
    OBVIOUS
  <2>4. \A t \in SUBSET (1 .. m + 1) : t \ {m + 1} \in SUBSET (1 .. m)
    OBVIOUS
  <2>5. s[m + 1] \in R
    BY <2>1
  <2>6. g \in [SUBSET (1 .. m + 1) -> A]
    <3>1. ASSUME NEW t \in SUBSET (1 .. m + 1) PROVE g[t] \in A
      <4>1. f[t \ {m + 1}] \in A /\ (m + 1 \notin t => f[t] \in A)
        BY <2>2, <2>3, <2>4
      <4>2. step[<<f[t \ {m + 1}], s[m + 1]>>] \in A
        BY <2>5, <4>1
      <4>. QED BY <4>1, <4>2
    <3>. QED BY <3>1
  <2>7. g[{}] = b
    BY <2>2
  <2>8. ASSUME NEW t \in SUBSET (1 .. m + 1), t # {}
        PROVE  g[t] = step[<<g[t \ {Max(t)}], s[Max(t)]>>]
    <3>1. CASE m + 1 \in t
      <4>1. Max(t) = m + 1
        BY <3>1, MaxOf
      <4>2. g[t \ {m + 1}] = f[t \ {m + 1}]
        BY <2>4
      <4>. QED BY <3>1, <4>1, <4>2
    <3>2. CASE m + 1 \notin t
      <4>1. t \in SUBSET (1 .. m)
        BY <2>3, <3>2
      <4>2. g[t] = f[t] /\ g[t \ {Max(t)}] = f[t \ {Max(t)}]
        BY <3>2
      <4>3. f[t] = step[<<f[t \ {Max(t)}], s[Max(t)]>>]
        BY <2>2, <2>8, <4>1
      <4>. QED BY <4>2, <4>3
    <3>. QED BY <3>1, <3>2
  <2>9. Folds(g, m + 1)
    <3>. HIDE DEF g
    <3>. QED BY <2>6, <2>7, <2>8
  <2>11. Can(m + 1)
    <3>. HIDE DEF Folds, g
    <3>. QED BY <2>9
  <2>. QED BY <2>11
<1>3. Nat \subseteq S
  <2>. HIDE DEF S
  <2>. QED BY <1>1, <1>2, NatInduct
<1>4. \E f : Folds(f, n)
  <2>. HIDE DEF Folds
  <2>. QED BY <1>3
<1>. QED BY <1>4 DEF IsFold

LEMMA FoldStays ==
  ASSUME NEW n \in Nat, NEW A, NEW it, it[{}] \in A,
         \A t \in SUBSET (1 .. n) : t # {} /\ it[t \ {Max(t)}] \in A => it[t] \in A
  PROVE  \A t \in SUBSET (1 .. n) : it[t] \in A
<1> DEFINE S == {m \in Nat : m <= n => \A t \in SUBSET (1 .. m) : it[t] \in A}
<1>1. 0 \in S
  <2>1. \A t \in SUBSET (1 .. 0) : t = {}
    OBVIOUS
  <2>. QED BY <2>1
<1>2. ASSUME NEW m \in Nat, m \in S PROVE m + 1 \in S
  <2> SUFFICES ASSUME m + 1 <= n, NEW t \in SUBSET (1 .. m + 1) PROVE it[t] \in A
    OBVIOUS
  <2>1. \A u \in SUBSET (1 .. m) : it[u] \in A
    BY <1>2
  <2>2. CASE m + 1 \in t
    <3>1. it[t \ {Max(t)}] \in A
      BY <2>1, <2>2, MaxOf
    <3>2. t \in SUBSET (1 .. n) /\ t # {}
      BY <2>2
    <3>. QED BY <3>1, <3>2
  <2>3. CASE m + 1 \notin t
    <3>1. t \in SUBSET (1 .. m)
      BY <2>3
    <3>. QED BY <2>1, <3>1
  <2>. QED BY <2>2, <2>3
<1>3. Nat \subseteq S
  <2>. HIDE DEF S
  <2>. QED BY <1>1, <1>2, NatInduct
<1>. QED BY <1>3

\* The merged records are some of the records.
LEMMA MergeKeeps ==
  ASSUME NEW R, NEW s \in Seq(R), NEW fields
  PROVE  Merge(s, fields) \in Seq(R)
<1> DEFINE n == Len(s)
           Q == Seq(R)
           Taken(a, r) == IF \E k \in 1 .. Len(a) : \A f \in fields : a[k][f] = r[f]
                         THEN a ELSE Append(a, r)
           step == [p \in Q \X R |-> Taken(p[1], p[2])]
           Is(iter) == iter = [t \in SUBSET DOMAIN s |->
                          IF t = {} THEN << >> ELSE Taken(iter[t \ {Max(t)}], s[Max(t)])]
           it == CHOOSE iter : Is(iter)
<1>1. n \in Nat /\ DOMAIN s = 1 .. n /\ s \in [1 .. n -> R] /\ << >> \in Q
  OBVIOUS
<1>2. ASSUME NEW a \in Q, NEW r \in R PROVE Taken(a, r) \in Q
  OBVIOUS
<1>3. step \in [Q \X R -> Q]
  <2>. HIDE DEF Taken, Q
  <2>. QED BY <1>2
<1>4. \A a \in Q, r \in R : step[<<a, r>>] = Taken(a, r)
  <2>. HIDE DEF Taken, Q
  <2>. QED OBVIOUS
<1>5. ASSUME NEW t \in SUBSET (1 .. n), t # {} PROVE Max(t) \in 1 .. n /\ t \ {Max(t)} \in SUBSET (1 .. n)
  <2>1. Max(t) \in t
    BY <1>1, <1>5, MaxIs
  <2>. QED BY <2>1
<1>6. \E f : Is(f)
  <2>1. PICK f \in [SUBSET (1 .. n) -> Q] :
           /\ f[{}] = << >>
           /\ \A t \in SUBSET (1 .. n) : t # {} => f[t] = step[<<f[t \ {Max(t)}], s[Max(t)]>>]
    <3> DEFINE b == << >>
    <3>1. b \in Q
      BY <1>1
    <3>. HIDE DEF step, n, Q, b
    <3>2. \E f : IsFold(f, n, Q, b, s, step)
      BY <1>1, <1>3, <3>1, FoldExists, Zenon
    <3>. QED BY <3>2 DEF b, IsFold
  <2>2. ASSUME NEW t \in SUBSET (1 .. n), t # {} PROVE f[t] = Taken(f[t \ {Max(t)}], s[Max(t)])
    <3>1. f[t \ {Max(t)}] \in Q /\ s[Max(t)] \in R
      <4>. HIDE DEF Q, n
      <4>. QED BY <1>1, <1>5, <2>2
    <3>. HIDE DEF Taken, step, Q, n
    <3>. QED BY <1>4, <2>1, <2>2, <3>1
  <2>3. f = [t \in SUBSET DOMAIN s |-> IF t = {} THEN << >> ELSE Taken(f[t \ {Max(t)}], s[Max(t)])]
    <3>. HIDE DEF Taken, step, Q, n
    <3>. QED BY <1>1, <2>1, <2>2
  <2>. HIDE DEF Taken
  <2>. QED BY <2>3
<1>7. Is(it)
  <2>. HIDE DEF Is
  <2>. QED BY <1>6
<1>8. \A t \in SUBSET (1 .. n) : it[t] \in Q
  <2>1. it[{}] \in Q
    <3>. HIDE DEF Taken, it, Q, n
    <3>. QED BY <1>1, <1>7
  <2>2. ASSUME NEW t \in SUBSET (1 .. n), t # {}, it[t \ {Max(t)}] \in Q PROVE it[t] \in Q
    <3>1. it[t] = Taken(it[t \ {Max(t)}], s[Max(t)])
      <4>. HIDE DEF Taken, it, Q, n
      <4>. QED BY <1>1, <1>7, <2>2
    <3>2. s[Max(t)] \in R
      <4>. HIDE DEF Q, n
      <4>. QED BY <1>1, <1>5, <2>2
    <3>. HIDE DEF Taken, it, Q, n
    <3>. QED BY <1>2, <2>2, <3>1, <3>2
  <2>. HIDE DEF it, Q, n
  <2>. QED BY <1>1, <2>1, <2>2, FoldStays
<1>9. Merge(s, fields) = it[DOMAIN s]
  BY DEF Merge, FoldLeft, MapThenFoldSet
<1>. HIDE DEF it, Q, n
<1>10. it[DOMAIN s] \in Q
  BY <1>1, <1>8
<1>. QED BY <1>9, <1>10 DEF Q

\* The tests are the targeted commands, normalised, and the second runs.
Tests(R, recovered) ==
  {Normalised(i) : i \in {j \in R : IsTargeted(j)}}
    \cup {Item(-i.id, i.cmd, recovered, 0) :
            i \in {j \in R : j.cmd \in NodeChecks /\ j.st \in FailedSts /\ recovered # "none"}}

LEMMA TestsAre ==
  ASSUME NEW R, NEW s \in Seq(R), NEW r
  PROVE  TestsFromCommands(s, r) \in Seq(Tests(R, r))
<1> DEFINE n == Len(s)
           Q == Seq(Tests(R, r))
           Taken(a, i) == IF IsTargeted(i) THEN a \o <<Normalised(i)>> \o Recovered(i, r) ELSE a
           step == [p \in Q \X R |-> Taken(p[1], p[2])]
           Is(iter) == iter = [t \in SUBSET DOMAIN s |->
                          IF t = {} THEN << >> ELSE Taken(iter[t \ {Max(t)}], s[Max(t)])]
           it == CHOOSE iter : Is(iter)
<1>1. n \in Nat /\ DOMAIN s = 1 .. n /\ s \in [1 .. n -> R] /\ << >> \in Q
  OBVIOUS
<1>2. ASSUME NEW a \in Q, NEW i \in R PROVE Taken(a, i) \in Q
  <2>1. CASE IsTargeted(i)
    <3>1. Normalised(i) \in Tests(R, r)
      BY <2>1 DEF Tests
    <3>2. Recovered(i, r) \in Q
      <4>1. CASE i.cmd \in NodeChecks /\ i.st \in FailedSts /\ r # "none"
        <5>1. Item(-i.id, i.cmd, r, 0) \in Tests(R, r)
          BY <4>1 DEF Tests
        <5>. QED BY <4>1, <5>1, OneItem DEF Recovered
      <4>2. CASE ~(i.cmd \in NodeChecks /\ i.st \in FailedSts /\ r # "none")
        BY <1>1, <4>2 DEF Recovered
      <4>. QED BY <4>1, <4>2
    <3>3. a \o <<Normalised(i)>> \in Q
      BY <3>1, OneItem, Joined
    <3>. QED BY <2>1, <3>2, <3>3, Joined
  <2>. QED BY <2>1
<1>3. step \in [Q \X R -> Q]
  <2>. HIDE DEF Taken, Q
  <2>. QED BY <1>2
<1>4. \A a \in Q, i \in R : step[<<a, i>>] = Taken(a, i)
  <2>. HIDE DEF Taken, Q
  <2>. QED OBVIOUS
<1>5. ASSUME NEW t \in SUBSET (1 .. n), t # {} PROVE Max(t) \in 1 .. n /\ t \ {Max(t)} \in SUBSET (1 .. n)
  <2>1. Max(t) \in t
    BY <1>1, <1>5, MaxIs
  <2>. QED BY <2>1
<1>6. \E f : Is(f)
  <2>1. PICK f \in [SUBSET (1 .. n) -> Q] :
           /\ f[{}] = << >>
           /\ \A t \in SUBSET (1 .. n) : t # {} => f[t] = step[<<f[t \ {Max(t)}], s[Max(t)]>>]
    <3> DEFINE b == << >>
    <3>1. b \in Q
      BY <1>1
    <3>. HIDE DEF step, n, Q, b
    <3>2. \E f : IsFold(f, n, Q, b, s, step)
      BY <1>1, <1>3, <3>1, FoldExists, Zenon
    <3>. QED BY <3>2 DEF b, IsFold
  <2>2. ASSUME NEW t \in SUBSET (1 .. n), t # {} PROVE f[t] = Taken(f[t \ {Max(t)}], s[Max(t)])
    <3>1. f[t \ {Max(t)}] \in Q /\ s[Max(t)] \in R
      <4>. HIDE DEF Q, n
      <4>. QED BY <1>1, <1>5, <2>2
    <3>. HIDE DEF Taken, step, Q, n
    <3>. QED BY <1>4, <2>1, <2>2, <3>1
  <2>3. f = [t \in SUBSET DOMAIN s |-> IF t = {} THEN << >> ELSE Taken(f[t \ {Max(t)}], s[Max(t)])]
    <3>. HIDE DEF Taken, step, Q, n
    <3>. QED BY <1>1, <2>1, <2>2
  <2>. HIDE DEF Taken
  <2>. QED BY <2>3
<1>7. Is(it)
  <2>. HIDE DEF Is
  <2>. QED BY <1>6
<1>8. \A t \in SUBSET (1 .. n) : it[t] \in Q
  <2>1. it[{}] \in Q
    <3>. HIDE DEF Taken, it, Q, n
    <3>. QED BY <1>1, <1>7
  <2>2. ASSUME NEW t \in SUBSET (1 .. n), t # {}, it[t \ {Max(t)}] \in Q PROVE it[t] \in Q
    <3>1. it[t] = Taken(it[t \ {Max(t)}], s[Max(t)])
      <4>. HIDE DEF Taken, it, Q, n
      <4>. QED BY <1>1, <1>7, <2>2
    <3>2. s[Max(t)] \in R
      <4>. HIDE DEF Q, n
      <4>. QED BY <1>1, <1>5, <2>2
    <3>. HIDE DEF Taken, it, Q, n
    <3>. QED BY <1>2, <2>2, <3>1, <3>2
  <2>. HIDE DEF it, Q, n
  <2>. QED BY <1>1, <2>1, <2>2, FoldStays
<1>9. TestsFromCommands(s, r) = it[DOMAIN s]
  BY DEF TestsFromCommands, FoldLeft, MapThenFoldSet
<1>. HIDE DEF it, Q, n
<1>10. it[DOMAIN s] \in Q
  BY <1>1, <1>8
<1>. QED BY <1>9, <1>10 DEF Q

LEMMA FlattenKeeps ==
  ASSUME NEW R, NEW n \in Nat, NEW s \in [1 .. n -> Seq(R)]
  PROVE  FlattenSeq(s) \in Seq(R)
<1> DEFINE Q == Seq(R)
           Is(f) == f = [i \in 1 .. Len(s) |-> IF i = 1 THEN s[i] ELSE f[i - 1] \o s[i]]
           it == CHOOSE f : Is(f)
           step == [p \in Q \X Q |-> p[1] \o p[2]]
<1>1. Len(s) = n /\ << >> \in Q
  OBVIOUS
<1>2. step \in [Q \X Q -> Q] /\ \A a, b \in Q : step[<<a, b>>] = a \o b
  <2>1. \A a, b \in Q : a \o b \in Q
    OBVIOUS
  <2>. HIDE DEF Q
  <2>. QED BY <2>1
<1>3. \E f : Is(f)
  <2>1. PICK g \in [SUBSET (1 .. n) -> Q] :
           /\ g[{}] = << >>
           /\ \A t \in SUBSET (1 .. n) : t # {} => g[t] = step[<<g[t \ {Max(t)}], s[Max(t)]>>]
    <3> DEFINE b == << >>
    <3>1. s \in [1 .. n -> Q] /\ b \in Q
      BY <1>1
    <3>. HIDE DEF step, Q, b
    <3>2. \E f : IsFold(f, n, Q, b, s, step)
      BY <1>1, <1>2, <3>1, FoldExists, Zenon
    <3>. QED BY <3>2 DEF b, IsFold
  <2> DEFINE f == [i \in 1 .. n |-> g[1 .. i]]
  <2>2. ASSUME NEW i \in 1 .. n PROVE f[i] = g[1 .. (i - 1)] \o s[i]
    <3>1. i - 1 \in Nat /\ 1 .. i \in SUBSET (1 .. ((i - 1) + 1)) /\ (i - 1) + 1 \in 1 .. i
      OBVIOUS
    <3>2. Max(1 .. i) = i
      <4>1. Max(1 .. i) = (i - 1) + 1
        BY <3>1, MaxOf
      <4>. QED BY <4>1
    <3>3. 1 .. i \in SUBSET (1 .. n) /\ 1 .. i # {} /\ (1 .. i) \ {i} = 1 .. (i - 1) /\ 1 .. (i - 1) \in SUBSET (1 .. n)
      <4>1. i \in 1 .. i /\ 1 .. i \in SUBSET (1 .. n) /\ 1 .. (i - 1) \in SUBSET (1 .. n)
        OBVIOUS
      <4>2. (1 .. i) \ {i} = 1 .. (i - 1)
        OBVIOUS
      <4>. QED BY <4>1, <4>2
    <3>4. g[1 .. i] = step[<<g[1 .. (i - 1)], s[i]>>]
      <4>. HIDE DEF step, Q
      <4>. QED BY <2>1, <3>2, <3>3
    <3>5. g[1 .. (i - 1)] \in Q /\ s[i] \in Q
      BY <2>1, <3>3
    <3>. HIDE DEF step, Q
    <3>. QED BY <1>2, <3>4, <3>5
  <2>3. \A i \in 1 .. n : f[i] = IF i = 1 THEN s[i] ELSE f[i - 1] \o s[i]
    <3> SUFFICES ASSUME NEW i \in 1 .. n PROVE f[i] = IF i = 1 THEN s[i] ELSE f[i - 1] \o s[i]
      OBVIOUS
    <3>1. CASE i = 1
      <4>1. 1 .. (i - 1) = {}
        BY <3>1
      <4>2. g[1 .. (i - 1)] = << >>
        BY <2>1, <4>1
      <4>3. f[i] = << >> \o s[i] /\ s[i] \in Seq(R)
        BY <2>2, <4>2
      <4>. HIDE DEF f
      <4>. QED BY <3>1, <4>3
    <3>2. CASE i # 1
      <4>1. i - 1 \in 1 .. n
        BY <3>2
      <4>2. f[i - 1] = g[1 .. (i - 1)]
        BY <4>1
      <4>. HIDE DEF f
      <4>. QED BY <2>2, <3>2, <4>2
    <3>. QED BY <3>1, <3>2
  <2>4. f = [i \in 1 .. Len(s) |-> IF i = 1 THEN s[i] ELSE f[i - 1] \o s[i]]
    <3>1. f = [i \in 1 .. n |-> f[i]]
      OBVIOUS
    <3>. HIDE DEF f
    <3>. QED BY <1>1, <2>3, <3>1
  <2>. HIDE DEF f
  <2>. QED BY <2>4
<1>4. Is(it)
  <2>. HIDE DEF Is
  <2>. QED BY <1>3
<1>5. \A i \in 1 .. n : it[i] \in Q
  <2> DEFINE S == {m \in Nat : m \in 1 .. n => it[m] \in Q}
  <2>0. \A i \in 1 .. n : it[i] = IF i = 1 THEN s[i] ELSE it[i - 1] \o s[i]
    <3>. HIDE DEF it
    <3>. QED BY <1>1, <1>4
  <2>1. 0 \in S
    OBVIOUS
  <2>2. ASSUME NEW m \in Nat, m \in S PROVE m + 1 \in S
    <3> SUFFICES ASSUME m + 1 \in 1 .. n PROVE it[m + 1] \in Q
      OBVIOUS
    <3>. HIDE DEF it
    <3>1. s[m + 1] \in Seq(R)
      OBVIOUS
    <3>2. CASE m = 0
      BY <2>0, <3>1, <3>2
    <3>3. CASE m # 0
      <4>1. m \in 1 .. n /\ m + 1 # 1 /\ (m + 1) - 1 = m
        BY <3>3
      <4>2. it[m] \in Seq(R)
        BY <2>2, <4>1
      <4>3. it[m + 1] = it[m] \o s[m + 1]
        BY <2>0, <4>1
      <4>. QED BY <3>1, <4>2, <4>3
    <3>. QED BY <3>2, <3>3
  <2>3. Nat \subseteq S
    <3>. HIDE DEF S
    <3>. QED BY <2>1, <2>2, NatInduct
  <2>. HIDE DEF it, Q
  <2>. QED BY <2>3
<1>6. FlattenSeq(s) = IF Len(s) = 0 THEN s ELSE it[Len(s)]
  BY DEF FlattenSeq
<1>7. CASE n = 0
  <2>1. s = << >>
    BY <1>1, <1>7
  <2>. QED BY <1>1, <1>6, <1>7, <2>1
<1>8. CASE n # 0
  <2>1. n \in 1 .. n
    BY <1>8
  <2>. HIDE DEF it
  <2>. QED BY <1>1, <1>5, <1>6, <1>8, <2>1
<1>. QED BY <1>7, <1>8

-----------------------------------------------------------------------------
(* The records of the evidence. *)

\* The records of the children.
Childs == UNION {Range(kids[k].ver) : k \in Children}

\* The records of the task are its checks, normalised, and there are none before.
VerificationIs ==
  /\ stage \in {"work", "validate", "record"} => verification = << >>
  /\ \A v \in Range(verification) : \E c \in Range(checks) : v = Normalised(c)

\* A command that ended before its record was written has its row.
CommandsLogged == \A c \in Range(commands) : c.st # "running" => c \in Range(log)

LEMMA RangeIsSeq ==
  ASSUME NEW S, NEW s \in Seq(S), NEW T, Range(s) \subseteq T
  PROVE  s \in Seq(T)
<1>1. s \in [1 .. Len(s) -> T] /\ Len(s) \in Nat
  BY DEF Range
<1>. QED BY <1>1, SeqDef

LEMMA RangeIn ==
  ASSUME NEW S, NEW s \in Seq(S)
  PROVE  Range(s) \subseteq S
BY DEF Range

LEMMA RangeAppended ==
  ASSUME NEW S, NEW s \in Seq(S), NEW e \in S
  PROVE  Range(Append(s, e)) = Range(s) \cup {e}
<1>1. \A i \in 1 .. Len(s) : Append(s, e)[i] = s[i]
  OBVIOUS
<1>2. Append(s, e)[Len(s) + 1] = e /\ Len(Append(s, e)) = Len(s) + 1 /\ Len(s) \in Nat
  OBVIOUS
<1>3. DOMAIN Append(s, e) = 1 .. (Len(s) + 1) /\ DOMAIN s = 1 .. Len(s)
  OBVIOUS
<1>4. 1 .. (Len(s) + 1) = (1 .. Len(s)) \cup {Len(s) + 1}
  BY <1>2
<1>. QED BY <1>1, <1>2, <1>3, <1>4 DEF Range

LEMMA ReverseIs ==
  ASSUME NEW S, NEW s \in Seq(S)
  PROVE  Reverse(s) \in Seq(S)
<1>1. \A i \in 1 .. Len(s) : Len(s) - i + 1 \in 1 .. Len(s)
  OBVIOUS
<1>2. \A i \in 1 .. Len(s) : s[Len(s) - i + 1] \in S
  BY <1>1
<1>3. [i \in 1 .. Len(s) |-> s[(Len(s) - i) + 1]] \in [1 .. Len(s) -> S] /\ Len(s) \in Nat
  BY <1>2
<1>. QED BY <1>3, SeqDef DEF Reverse

LEMMA ListedIs ==
  ASSUME NEW S, IsFiniteSet(S)
  PROVE  Cardinality(S) \in Nat /\ SetToSeq(S) \in [1 .. Cardinality(S) -> S]
<1>1. Cardinality(S) \in Nat /\ ExistsBijection(1 .. Cardinality(S), S)
  BY FS_CardinalityType
<1>2. \E f \in [1 .. Cardinality(S) -> S] : IsInjective(f)
  BY <1>1 DEF ExistsBijection, Bijection, Injection, IsInjective
<1>. QED BY <1>1, <1>2 DEF SetToSeq

LEMMA ChildRecordsAre == ASSUME CPTypeOK PROVE ChildRecords \in Seq(Childs)
<1>1. Known \subseteq Children /\ IsFiniteSet(Known)
  BY CompletionAssumption, FS_Subset DEF Known
<1> DEFINE n == Cardinality(Known)
           s == [i \in 1 .. n |-> kids[SetToSeq(Known)[i]].ver]
<1>2. n \in Nat /\ SetToSeq(Known) \in [1 .. n -> Known]
  BY <1>1, ListedIs
<1>3. ASSUME NEW k \in Children PROVE kids[k].ver \in Seq(Childs)
  <2>1. kids[k].ver \in Seq(ChildChecks) /\ Range(kids[k].ver) \subseteq Childs
    BY DEF CPTypeOK, Childs
  <2>. QED BY <2>1, RangeIsSeq
<1>4. s \in [1 .. n -> Seq(Childs)]
  <2>1. ASSUME NEW i \in 1 .. n PROVE kids[SetToSeq(Known)[i]].ver \in Seq(Childs)
    <3>1. SetToSeq(Known)[i] \in Children
      BY <1>1, <1>2
    <3>. QED BY <1>3, <3>1
  <2>. HIDE DEF n
  <2>. QED BY <2>1
<1>5. FlattenSeq(s) \in Seq(Childs)
  <2>. HIDE DEF n, s
  <2>. QED BY <1>2, <1>4, FlattenKeeps
<1>. QED BY <1>5 DEF ChildRecords

-----------------------------------------------------------------------------
LEMMA VerificationIsStep ==
  ASSUME CPTypeOK, VerificationIs, [CPNext]_cpVars
  PROVE  VerificationIs'
<1>1. CASE UNCHANGED <<verification, checks>> /\ (stage' \in {"work", "validate", "record"} => stage = stage')
  BY <1>1 DEF VerificationIs
<1>2. CASE stage = "validate" /\ stage' = "record" /\ UNCHANGED verification
  <2>1. verification' = << >>
    BY <1>2 DEF VerificationIs
  <2>. QED BY <2>1 DEF VerificationIs, Range
<1>3. CASE RecordVerification
  <2>1. verification' = [i \in 1 .. Len(checks) |-> Normalised(checks[i])] /\ checks' = checks
        /\ stage' = "collaborations" /\ DOMAIN checks = 1 .. Len(checks)
    BY <1>3 DEF RecordVerification, CPTypeOK
  <2>. QED BY <2>1 DEF VerificationIs, Range
<1>4. CASE Loop \/ Others \/ Done \/ UNCHANGED cpVars
  <2>1. UNCHANGED <<verification, checks, stage>>
    BY <1>4 DEF Loop, RunsCommand, AppliesPatch, WasApproved, Dispatched, Others, BackgroundEnds, Decide,
         ResumedAsks, ResumedWaits, CollaborationEnds, ResumedEnds, Cancel, ChildStep, Done, cpVars, taskVars
  <2>. QED BY <1>1, <2>1, SMTT(30)
<1>5. CASE Finish
  <2>1. UNCHANGED <<verification, checks>> /\ stage = "work"
    BY <1>5 DEF Finish, taskVars
  <2>. QED BY <2>1 DEF VerificationIs
<1>6. CASE NoValidation \/ ReadCollaborations \/ Audit \/ Gate \/ Wait \/ Finalize
           \/ \E r \in {"none", "passed", "failed"} : BuildEvidence(r)
  BY <1>1, <1>6 DEF NoValidation, ReadCollaborations, Audit, Gate, Wait, Finalize, BuildEvidence, taskVars
<1>7. CASE \/ \E st \in {"completed", "failed", "timeout"}, gst \in {"completed", "failed"}, r \in BOOLEAN :
                ValidationRuns(st, gst, r)
           \/ \E gst \in {"completed", "failed"} : ValidationAsks(gst) \/ ValidationSnapshots(gst)
  BY <1>2, <1>7 DEF ValidationRuns, ValidationAsks, ValidationSnapshots, taskVars
<1>. QED BY <1>3, <1>4, <1>5, <1>6, <1>7 DEF CPNext, Complete

LEMMA CommandsLoggedStep ==
  ASSUME CPTypeOK, CommandsLogged, [CPNext]_cpVars
  PROVE  CommandsLogged'
<1>1. CASE UNCHANGED <<commands, log>>
  BY <1>1 DEF CommandsLogged
<1>2. ASSUME NEW row \in Rows, commands' = Append(commands, row), log' = Append(log, row)
      PROVE  CommandsLogged'
  <2>1. Range(commands') = Range(commands) \cup {row} /\ Range(log') = Range(log) \cup {row}
    BY <1>2, RangeAppended DEF CPTypeOK
  <2>. QED BY <2>1 DEF CommandsLogged
<1>3. ASSUME NEW i \in 1 .. Len(log), NEW st \in {"completed", "failed"}, BackgroundEnds(i, st)
      PROVE  CommandsLogged'
  <2>1. log[i].st = "running" /\ commands' = commands /\ DOMAIN log = 1 .. Len(log) /\ DOMAIN log' = DOMAIN log
        /\ \A j \in DOMAIN log : j # i => log'[j] = log[j]
    BY <1>3 DEF BackgroundEnds, CPTypeOK
  <2>2. \A c \in Range(log) : c.st # "running" => c \in Range(log')
    BY <2>1 DEF Range
  <2>. QED BY <2>1, <2>2 DEF CommandsLogged
<1>4. CASE Loop
  <2>1. ASSUME NEW c \in Commands, NEW st \in {"completed", "failed", "running"}, RunsCommand(c, st)
        PROVE  CommandsLogged'
    <3>1. Row(c, st) \in Rows
      BY RowIsRow DEF Rows, CPTypeOK
    <3>2. commands' = Append(commands, Row(c, st)) /\ log' = Append(log, Row(c, st))
      BY <2>1 DEF RunsCommand
    <3>. QED BY <1>2, <3>1, <3>2
  <2>. QED BY <1>1, <1>4, <2>1 DEF Loop, AppliesPatch, WasApproved, Dispatched
<1>5. CASE Others
  BY <1>1, <1>3, <1>5 DEF Others, Decide, ResumedAsks, ResumedWaits, CollaborationEnds, ResumedEnds,
       Cancel, ChildStep, taskVars
<1>6. ASSUME NEW st \in {"completed", "failed", "timeout"}, NEW gst \in {"completed", "failed"},
             NEW r \in BOOLEAN, ValidationRuns(st, gst, r)
      PROVE  CommandsLogged'
  <2> DEFINE row == Row(ValidationCommand, st)
  <2>1. row \in Rows
    BY RowIsRow, ValidationCommandIs DEF Rows, CPTypeOK
  <2>2. IF r THEN UNCHANGED <<commands, log>> ELSE commands' = Append(commands, row) /\ log' = Append(log, row)
    BY <1>6 DEF ValidationRuns
  <2>. HIDE DEF row
  <2>. QED BY <1>1, <1>2, <2>1, <2>2
<1>7. CASE Complete
  BY <1>1, <1>6, <1>7 DEF Complete, Finish, NoValidation, RecordVerification, ValidationAsks,
     ValidationSnapshots, ReadCollaborations, Audit, Gate, Wait, Finalize, BuildEvidence, taskVars
<1>8. CASE Done \/ UNCHANGED cpVars
  BY <1>1, <1>8 DEF Done, cpVars
<1>. QED BY <1>4, <1>5, <1>7, <1>8 DEF CPNext

-----------------------------------------------------------------------------
(* What the evidence shows passed. *)

LEMMA SameFamilies ==
  ASSUME NEW i, NEW j, i.cmd = j.cmd
  PROVE  Families(i) = Families(j)
BY DEF Families, Languages, IsTargeted

LEMMA NormalisedIs ==
  ASSUME NEW i
  PROVE  /\ Normalised(i).cmd = i.cmd
         /\ Normalised(i).st = "passed" => i.st \in {"passed", "completed"}
         /\ Normalised(i).st = "completed" => FALSE
BY DEF Normalised, Item, PassedSts, FailedSts

LEMMA ChildPassed ==
  ASSUME NEW r, NEW i \in Childs
  PROVE  /\ i.st = "passed" => i \in ReallyPassed(r)
         /\ i \in UNION {Range(kids[k].ver) : k \in Children}
<1>1. PICK k \in Children : i \in Range(kids[k].ver)
  BY Zenon DEF Childs
<1>2. i.st = "passed" => i \in {j \in Range(kids[k].ver) : j.st = "passed"}
  BY <1>1
<1>3. i.st = "passed" => i \in UNION {{j \in Range(kids[n].ver) : j.st = "passed"} : n \in Children}
  BY <1>2, Zenon
<1>. QED BY <1>3, Zenon DEF ReallyPassed, Childs

LEMMA CheckPassed ==
  ASSUME CPTypeOK, VerificationIs, NEW r, NEW i \in Range(verification) \cup Childs, i.st = "passed"
  PROVE  \E p \in ReallyPassed(r) : p.cmd = i.cmd
<1>1. CASE i \in Range(verification)
  <2>1. PICK c \in Range(checks) : i = Normalised(c)
    BY <1>1 DEF VerificationIs
  <2>2. c \in Checks
    BY RangeIn DEF CPTypeOK
  <2>3. c.st = "completed"
    BY <2>1, <2>2, NormalisedIs DEF Checks, Records
  <2>4. c \in ReallyPassed(r)
    BY <2>3 DEF ReallyPassed
  <2>. QED BY <2>1, <2>4, NormalisedIs
<1>2. CASE i \in Childs
  <2>1. i \in ReallyPassed(r)
    BY <1>2, ChildPassed
  <2>. QED BY <2>1
<1>. QED BY <1>1, <1>2

LEMMA TestPassed ==
  ASSUME CPTypeOK, CommandsLogged, NEW r \in {"none", "passed", "failed"},
         NEW i \in Tests(Range(commands) \cup Childs \cup Range(log), r), i.st \in PassedSts
  PROVE  i.st = "passed" /\ \E p \in ReallyPassed(r) : p.cmd = i.cmd
<1> DEFINE All == Range(commands) \cup Childs \cup Range(log)
<1>1. ASSUME NEW j \in All, j \notin Childs, j.st # "running"
      PROVE  j \in Range(log) /\ j \in Rows
  <2>1. j \in Range(log)
    BY <1>1 DEF CommandsLogged
  <2>2. Range(log) \subseteq Rows
    BY RangeIn DEF CPTypeOK
  <2>. QED BY <2>1, <2>2
<1>2. Childs \subseteq ChildChecks
  <2>1. \A k \in Children : Range(kids[k].ver) \subseteq ChildChecks
    BY RangeIn DEF CPTypeOK
  <2>. QED BY <2>1 DEF Childs
<1>3. ASSUME NEW j \in All, IsTargeted(j), i = Normalised(j)
      PROVE  i.st = "passed" /\ \E p \in ReallyPassed(r) : p.cmd = i.cmd
  <2>1. i.st = "passed" /\ j.st \in {"passed", "completed"} /\ i.cmd = j.cmd
    BY <1>3, NormalisedIs DEF PassedSts
  <2>2. j \in ReallyPassed(r)
    <3>1. CASE j \in Childs
      <4>1. j.st = "passed"
        BY <1>2, <2>1, <3>1 DEF ChildChecks, Records
      <4>. QED BY <3>1, <4>1, ChildPassed
    <3>2. CASE j \notin Childs
      <4>1. j \in Range(log) /\ j.st = "completed"
        BY <1>1, <2>1, <3>2 DEF Rows, Records
      <4>. QED BY <1>3, <4>1 DEF ReallyPassed, IsTargeted
    <3>. QED BY <3>1, <3>2
  <2>. QED BY <2>1, <2>2
<1>4. ASSUME NEW j \in All, j.cmd \in NodeChecks, j.st \in FailedSts, i = Item(-j.id, j.cmd, r, 0)
      PROVE  i.st = "passed" /\ \E p \in ReallyPassed(r) : p.cmd = i.cmd
  <2>1. r = "passed" /\ i.st = r /\ i.cmd = j.cmd
    BY <1>4 DEF Item, PassedSts
  <2>2. j \in Range(log) \/ j \in Childs
    BY <1>1, <1>4 DEF FailedSts
  <2>3. j \in ReallyPassed(r)
    <3>1. j \in Range(log) \cup UNION {Range(kids[k].ver) : k \in Children}
      BY <2>2, ChildPassed
    <3>2. j \in {n \in Range(log) \cup UNION {Range(kids[k].ver) : k \in Children} :
                   r = "passed" /\ n.cmd \in NodeChecks /\ n.st \in FailedSts}
      BY <1>4, <2>1, <3>1
    <3>. QED BY <3>2, Zenon DEF ReallyPassed
  <2>. QED BY <2>1, <2>3
<1>5. \/ \E j \in All : IsTargeted(j) /\ i = Normalised(j)
      \/ \E j \in All : j.cmd \in NodeChecks /\ j.st \in FailedSts /\ i = Item(-j.id, j.cmd, r, 0)
  BY DEF Tests
<1>. HIDE DEF All
<1>. QED BY <1>3, <1>4, <1>5

LEMMA EvidenceGrounded ==
  ASSUME CPTypeOK, VerificationIs, CommandsLogged, NEW r \in {"none", "passed", "failed"}, BuildEvidence(r)
  PROVE  /\ evidence'.rerun = r
         /\ evidence'.level = "verified" => ReallyPassed(r) # {}
         /\ Required(changed) \ evidence'.missing \subseteq UNION {Families(i) : i \in ReallyPassed(r)}
<1> DEFINE allVer == MergeVerification(verification \o ChildRecords)
           allCommands == MergeCommands(commands \o ChildRecords \o FromStore(log))
           tests == MergeTests(TestsFromCommands(allCommands, r))
           V == Range(verification) \cup Childs
           A == Range(commands) \cup Childs \cup Range(log)
           w == changed # {} \/ allCommands # << >> \/ ToolEvidence
<1>1. /\ evidence'.rerun = r
      /\ evidence'.level = Level(allVer, tests, checks, w)
      /\ evidence'.missing = Missing(changed, allVer, tests)
  <2>1. evidence' = [level |-> Level(allVer, tests, checks, w), children |-> {k \in Known : ~ChildSettled(k)},
                     missing |-> Missing(changed, allVer, tests), rerun |-> r, open |-> FALSE]
    BY DEF BuildEvidence
  <2>. HIDE DEF allVer, tests, w
  <2>. QED BY <2>1
<1>2. allVer \in Seq(V)
  <2>1. ChildRecords \in Seq(Childs) /\ verification \in Seq(V)
    BY ChildRecordsAre, RangeIsSeq DEF CPTypeOK
  <2>2. ChildRecords \in Seq(V)
    <3>. HIDE DEF Childs
    <3>. QED BY <2>1
  <2>. HIDE DEF V
  <2>3. verification \o ChildRecords \in Seq(V)
    BY <2>1, <2>2, Joined
  <2>. QED BY <2>3, MergeKeeps DEF MergeVerification
<1>3. allCommands \in Seq(A)
  <2>1. ChildRecords \in Seq(Childs) /\ commands \in Seq(A) /\ log \in Seq(A)
    BY ChildRecordsAre, RangeIsSeq DEF CPTypeOK
  <2>2. ChildRecords \in Seq(A)
    <3>. HIDE DEF Childs
    <3>. QED BY <2>1
  <2>. HIDE DEF A
  <2>3. FromStore(log) \in Seq(A)
    BY <2>1, ReverseIs DEF FromStore
  <2>4. commands \o ChildRecords \in Seq(A)
    BY <2>1, <2>2, Joined
  <2>5. commands \o ChildRecords \o FromStore(log) \in Seq(A)
    BY <2>3, <2>4, Joined
  <2>. QED BY <2>5, MergeKeeps DEF MergeCommands
<1>4. tests \in Seq(Tests(A, r))
  <2>. HIDE DEF A, allCommands
  <2>1. TestsFromCommands(allCommands, r) \in Seq(Tests(A, r))
    BY <1>3, TestsAre
  <2>. QED BY <2>1, MergeKeeps DEF MergeTests
<1>5. Range(allVer) \subseteq V /\ Range(tests) \subseteq Tests(A, r)
  <2>. HIDE DEF allVer, tests, V, A
  <2>. QED BY <1>2, <1>4, RangeIn
<1>6. ASSUME NEW i \in Range(allVer), i.st = "passed" PROVE \E p \in ReallyPassed(r) : p.cmd = i.cmd
  <2>1. i \in V
    BY <1>5, <1>6
  <2>. HIDE DEF allVer
  <2>. QED BY <1>6, <2>1, CheckPassed
<1>7. ASSUME NEW i \in Range(tests), i.st \in PassedSts PROVE \E p \in ReallyPassed(r) : p.cmd = i.cmd
  <2>1. i \in Tests(A, r)
    BY <1>5, <1>7
  <2>. HIDE DEF tests
  <2>. QED BY <1>7, <2>1, TestPassed
<1>. HIDE DEF allVer, tests, allCommands
<1>8. Level(allVer, tests, checks, w) = "verified" => ReallyPassed(r) # {}
  <2>1. Level(allVer, tests, checks, w) = "verified" => \E i \in Range(allVer) \cup Range(tests) : i.st = "passed"
    BY DEF Level
  <2>. QED BY <1>6, <1>7, <2>1 DEF PassedSts
<1>9. Required(changed) \ Missing(changed, allVer, tests) \subseteq Matched(allVer, tests)
  BY DEF Missing
<1>10. Matched(allVer, tests) \subseteq UNION {Families(i) : i \in ReallyPassed(r)}
  <2> SUFFICES ASSUME NEW f \in Matched(allVer, tests)
               PROVE  \E p \in ReallyPassed(r) : f \in Families(p)
    OBVIOUS
  <2>1. PICK i \in Range(allVer) \cup Range(tests) :
           f \in Families(i) /\ ((i \in Range(allVer) /\ i.st = "passed") \/ (i \in Range(tests) /\ i.st \in PassedSts))
    <3> DEFINE VP == {i \in Range(allVer) : i.st = "passed"}
               TP == {i \in Range(tests) : i.st \in PassedSts}
    <3>1. f \in UNION ({Families(i) : i \in VP} \cup {Families(i) : i \in TP})
      BY Zenon DEF Matched
    <3>2. \E i \in VP \cup TP : f \in Families(i)
      <4>. HIDE DEF VP, TP
      <4>. QED BY <3>1
    <3>3. PICK i \in VP \cup TP : f \in Families(i)
      BY <3>2
    <3>4. (i \in Range(allVer) /\ i.st = "passed") \/ (i \in Range(tests) /\ i.st \in PassedSts)
      BY <3>3
    <3>. HIDE DEF VP, TP
    <3>. QED BY <3>3, <3>4
  <2>2. PICK p \in ReallyPassed(r) : p.cmd = i.cmd
    BY <1>6, <1>7, <2>1
  <2>. QED BY <2>1, <2>2, SameFamilies
<1>. QED BY <1>1, <1>8, <1>9, <1>10

\* The evidence claims no pass that did not happen (VerifiedIsGrounded), whatever the
\* command tables say: every passed record it counts, through the merges, the normalised
\* statuses and the second runs, goes back to a check of this task or a child that passed.
THEOREM VerifiedIsGroundedHolds == CPSpec => VerifiedIsGrounded
<1> DEFINE I == CPTypeOK /\ VerificationIs /\ CommandsLogged
<1>1. CPInit => VerificationIs /\ CommandsLogged
  BY DEF CPInit, VerificationIs, CommandsLogged, Range
<1>2. CPTypeOK /\ VerificationIs /\ CommandsLogged /\ [CPNext]_cpVars => VerificationIs' /\ CommandsLogged'
  BY VerificationIsStep, CommandsLoggedStep
<1>3. CPTypeOK /\ VerificationIs /\ CommandsLogged /\ [CPNext]_cpVars =>
        [stage = "evidence" /\ stage' = "audit" =>
           LET passed == ReallyPassed(evidence'.rerun)
           IN  /\ evidence'.level = "verified" => passed # {}
               /\ Required(changed) \ evidence'.missing \subseteq UNION {Families(i) : i \in passed}]_cpVars
  <2> SUFFICES ASSUME CPTypeOK, VerificationIs, CommandsLogged, CPNext, stage = "evidence", stage' = "audit"
               PROVE  /\ evidence'.level = "verified" => ReallyPassed(evidence'.rerun) # {}
                      /\ Required(changed) \ evidence'.missing
                           \subseteq UNION {Families(i) : i \in ReallyPassed(evidence'.rerun)}
    BY Zenon
  <2>1. \E r \in {"none", "passed", "failed"} : BuildEvidence(r)
    <3>1. CASE Loop \/ Others \/ Done
      BY <3>1, OthersLeave
    <3>2. CASE Complete
      BY <3>2 DEF Complete, Finish, NoValidation, RecordVerification, ValidationRuns, ValidationAsks,
         ValidationSnapshots, ReadCollaborations, Audit, Gate, Wait, Finalize
    <3>. QED BY <3>1, <3>2 DEF CPNext
  <2>2. PICK r \in {"none", "passed", "failed"} : BuildEvidence(r)
    BY <2>1
  <2>3. /\ evidence'.rerun = r
        /\ evidence'.level = "verified" => ReallyPassed(r) # {}
        /\ Required(changed) \ evidence'.missing \subseteq UNION {Families(i) : i \in ReallyPassed(r)}
    BY <2>2, EvidenceGrounded
  <2>. QED BY <2>3
<1>. QED BY <1>1, <1>2, <1>3, CompletionTypesCorrect, PTL DEF CPSpec, VerifiedIsGrounded

=============================================================================
