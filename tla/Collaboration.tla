---------------------------- MODULE Collaboration ----------------------------
(* Child tasks. The thread of a parent task dispatches a child: it records a *)
(* collaboration task and a worker, runs the child in a process of its own   *)
(* (which opens the same database), and answers the parent. A child that     *)
(* needs an approval is recorded as blocked, and the RPC thread resumes and  *)
(* finalizes it when the approval is decided. Every store operation is one   *)
(* step: it commits, and the other threads and processes see it. The service *)
(* then reads the session's records again and publishes them, as the team    *)
(* the client shows, in two further steps.                                   *)
EXTENDS Naturals, FiniteSets

CONSTANTS
  Dispatches,    \* number of dispatches of a child, each with a worker of its own
  MaxAttempts,   \* kid -> policy.retry.max_attempts
  RetryableErrors,   \* policy.retry.retryable_errors
  MaxCancels     \* bound: runtime tasks of children that are cancelled

Kids == 1 .. Dispatches

\* How an attempt may raise: its request times out, its process exits before it
\* replies, or the reply is an error.
AttemptErrors == {"timeout", "exited", "reply"}

ASSUME CollaborationAssumption ==
  /\ Dispatches \in Nat /\ RetryableErrors \subseteq AttemptErrors
  /\ \A c \in Kids : MaxAttempts[c] \in Nat \ {0}
  /\ MaxCancels \in Nat

Attempts(c) == 1 .. MaxAttempts[c]
Settled  == {"completed", "failed"}
Ended    == Settled \cup {"cancelled"}

RuntimeStatuses == {"none", "running", "waiting_approval"} \cup Ended
TeamStatuses    == {"none", "running", "completed", "error"}

VARIABLES
  pc,        \* kid -> where the thread that dispatches it stands
  attempt,   \* kid -> number of the attempt being made
  cstatus,   \* kid -> status of its collaboration task, or absent
  holds,     \* kid -> does its worker's current_task_id name the task
  link,      \* kid -> attempt that result.runtimeTaskId names, or 0
  told,      \* kid -> what the dispatching thread answered the parent
  proc,      \* kid, attempt -> its process: off, busy, or what it has replied
  rt,        \* kid, attempt -> status of the runtime task of that attempt
  saved,     \* kid, attempt -> is its pending ReAct state stored
  decision,  \* kid, attempt -> none, pending, approved or rejected
  raced,     \* history: has a decision been worked on during a dispatch
  rpc,       \* the RPC thread: idle, or deciding an approval of one child
  event,     \* thread -> the event of its last write: none, due, or read, with
             \* the team it read
  team       \* kid -> the status the client shows, or none

vars == <<pc, attempt, cstatus, holds, link, told, proc, rt, saved,
          decision, raced, rpc, event, team>>
runtime == <<pc, attempt, cstatus, holds, link, told, proc, rt, saved,
             decision, rpc, event, team>>
store == <<cstatus, holds, link>>
child == <<rt, saved, decision>>
shown == <<event, team>>

IdleRpc == [at |-> "idle"]
NoTeam  == [c \in Kids |-> "none"]
NoEvent == [at |-> "none", team |-> NoTeam]

Init ==
  /\ pc = [c \in Kids |-> "start"] /\ attempt = [c \in Kids |-> 1]
  /\ cstatus = [c \in Kids |-> "absent"] /\ holds = [c \in Kids |-> FALSE]
  /\ link = [c \in Kids |-> 0] /\ told = [c \in Kids |-> "none"]
  /\ proc = [c \in Kids |-> [n \in Attempts(c) |-> "off"]]
  /\ rt = [c \in Kids |-> [n \in Attempts(c) |-> "none"]]
  /\ saved = [c \in Kids |-> [n \in Attempts(c) |-> FALSE]]
  /\ decision = [c \in Kids |-> [n \in Attempts(c) |-> "none"]]
  /\ raced = FALSE /\ rpc = IdleRpc
  /\ event = [x \in {"task", "rpc"} |-> NoEvent] /\ team = NoTeam

Goto(c, l)   == pc' = [pc EXCEPT ![c] = l]
Tell(c, a)   == told' = [told EXCEPT ![c] = a]
Answer(c, a) == Tell(c, a) /\ Goto(c, "done")

-----------------------------------------------------------------------------
(* The store.                                                                *)

\* create_collaboration_task and upsert_agent_worker of a new worker.
CreateTask(c) ==
  /\ cstatus' = [cstatus EXCEPT ![c] = "queued"]
  /\ UNCHANGED <<holds, link>>

\* claim_collaboration_task
ClaimTask(c) ==
  /\ cstatus[c] \in {"queued", "blocked"}
  /\ cstatus' = [cstatus EXCEPT ![c] = "claimed"]
  /\ holds' = [holds EXCEPT ![c] = TRUE] /\ UNCHANGED link

\* update_collaboration_task: any status over any other; n is the runtime
\* task the result names.
UpdateTask(c, s, n) ==
  /\ cstatus' = [cstatus EXCEPT ![c] = s] /\ link' = [link EXCEPT ![c] = n]
  /\ UNCHANGED holds

\* upsert_agent_worker on an existing worker: current_task_id is overwritten.
UpsertWorker(c, h) ==
  holds' = [holds EXCEPT ![c] = h] /\ UNCHANGED <<cstatus, link>>

\* The checks of _finalize_collaboration_task; one that fails raises.
CanFinalize(c) == holds[c] /\ cstatus[c] \in {"claimed", "running", "blocked"}

\* _finalize_collaboration_task: one transaction.
FinalizeTask(c, s) ==
  /\ cstatus' = [cstatus EXCEPT ![c] = s]
  /\ holds' = [holds EXCEPT ![c] = FALSE] /\ UNCHANGED link

-----------------------------------------------------------------------------
(* The service: what a write is followed by.                                 *)

\* The event of a write is due.
Announce(x) == event' = [event EXCEPT ![x] = [at |-> "due", team |-> NoTeam]] /\ UNCHANGED team

\* _public_team_status
PublicStatus(s) ==
  CASE s = "absent"    -> "none"
    [] s = "completed" -> "completed"
    [] s = "failed"    -> "error"
    [] OTHER           -> "running"

\* Variant: the team of the event before is sent again.
TeamSnapshotKept(x) ==
  /\ event[x].at = "due" /\ event' = [event EXCEPT ![x] = [at |-> "read", team |-> team]]
  /\ UNCHANGED <<pc, attempt, store, told, proc, child, rpc, team>>

\* _with_team_snapshot: the records of the session, read after the write.
TeamSnapshot(x) ==
  /\ event[x].at = "due"
  /\ event' = [event EXCEPT ![x] = [at |-> "read",
                                    team |-> [c \in Kids |-> PublicStatus(cstatus[c])]]]
  /\ UNCHANGED <<pc, attempt, store, told, proc, child, rpc, team>>

\* The event is published, and projected to a team_update.
PublishTeam(x) ==
  /\ event[x].at = "read"
  /\ team' = event[x].team /\ event' = [event EXCEPT ![x] = NoEvent]
  /\ UNCHANGED <<pc, attempt, store, told, proc, child, rpc>>

Service(x) == TeamSnapshot(x) \/ PublishTeam(x)

-----------------------------------------------------------------------------
(* The dispatching thread: WorkerRunner.run_child_task.                      *)

\* A task's thread makes one dispatch after the other: task is no tool of a parallel
\* batch.
Turn(c)     == pc[c] = "start" /\ \A d \in 1 .. c - 1 : pc[d] = "done"
Dispatching == event["task"].at # "none" \/ \E c \in Kids : pc[c] \notin {"start", "done"}

\* _check_budget_exhausted: an exhausted budget is answered and nothing is
\* recorded.
RefuseBudget(c) ==
  /\ Turn(c) /\ Answer(c, "refused")
  /\ UNCHANGED <<attempt, store, proc, child, rpc, shown>>

CreateInline(c) ==
  /\ Turn(c) /\ CreateTask(c) /\ Goto(c, "created")
  /\ Announce("task")
  /\ UNCHANGED <<attempt, told, proc, child, rpc>>

Claim(c) ==
  /\ pc[c] = "created" /\ ClaimTask(c) /\ Goto(c, "claimed")
  /\ Announce("task")
  /\ UNCHANGED <<attempt, told, proc, child, rpc>>

MarkRunning(c) ==
  /\ pc[c] = "claimed" /\ UpdateTask(c, "running", link[c])
  /\ Goto(c, "ready")
  /\ Announce("task")
  /\ UNCHANGED <<attempt, told, proc, child, rpc>>

\* _cancel_requested before the executor starts.
CancelledBeforeStart(c) ==
  /\ pc[c] = "ready" /\ Goto(c, "fail")
  /\ UNCHANGED <<attempt, store, told, proc, child, rpc, shown>>

\* _execute_with_policy: the next attempt starts a process.
StartAttempt(c) ==
  /\ pc[c] \in {"ready", "retry"} /\ Goto(c, "request")
  /\ proc' = [proc EXCEPT ![c][attempt[c]] = "busy"]
  /\ UNCHANGED <<attempt, store, told, child, rpc, shown>>

\* Where an execution's status leads: every status but the two named ones,
\* cancelled and running included, completes the child.
AfterReply(s) == CASE s = "waiting_approval" -> "block"
                   [] s = "failed"           -> "fail"
                   [] OTHER                  -> "complete"

\* Variant: the process of the attempt is left alone.
KeepProcess(c) == UNCHANGED proc

\* The transport is left, whether the attempt replied or raised.
CloseProcess(c) == proc' = [proc EXCEPT ![c][attempt[c]] = "off"]

\* WorkerRetryPolicy.should_retry looks at the class and the code of an error, not at
\* its own retryable flag: by default it retries a timeout, not an exit.
ShouldRetry(c, error) == attempt[c] < MaxAttempts[c] /\ error \in RetryableErrors

\* _execute_with_policy: an attempt that raised is followed by another one if the
\* error is retryable and the total deadline leaves time.
AttemptRaised(c, error) ==
  /\ CloseProcess(c)
  /\ \/ Goto(c, "fail") /\ UNCHANGED attempt
     \/ /\ ShouldRetry(c, error) /\ Goto(c, "retry")
        /\ attempt' = [attempt EXCEPT ![c] = @ + 1]

\* transport.request returns the process's reply; an error reply is raised.
TakeReply(c) ==
  /\ pc[c] = "request"
  /\ LET s == proc[c][attempt[c]] IN
     \/ /\ s \notin {"off", "busy", "error"} /\ Goto(c, AfterReply(s))
        /\ CloseProcess(c) /\ UNCHANGED attempt
     \/ s = "error" /\ AttemptRaised(c, "reply")
  /\ UNCHANGED <<store, told, child, rpc, shown>>

\* Variant: the request has no timeout.
RequestExits(c) ==
  /\ pc[c] = "request" /\ proc[c][attempt[c]] = "off" /\ AttemptRaised(c, "exited")
  /\ UNCHANGED <<store, told, child, rpc, shown>>

\* WorkerProcessTimeoutError with no reply ready, or WorkerProcessExitError
\* even when the reply is still with the drain thread.
RequestFails(c) ==
  /\ pc[c] = "request" /\ \E error \in {"timeout", "exited"} : AttemptRaised(c, error)
  /\ UNCHANGED <<store, told, child, rpc, shown>>

\* complete_collaboration_task, artifacts and result message. A check of
\* _finalize_collaboration_task that fails raises out of run_child_task.
CompleteChild(c) ==
  /\ pc[c] = "complete"
  /\ IF CanFinalize(c)
       THEN FinalizeTask(c, "completed") /\ Tell(c, "completed") /\ Goto(c, "send") /\ Announce("task")
       ELSE Answer(c, "raised") /\ UNCHANGED <<store, shown>>
  /\ UNCHANGED <<attempt, proc, child, rpc>>

\* _fail_child_task
FailChild(c) ==
  /\ pc[c] = "fail"
  /\ IF CanFinalize(c)
       THEN FinalizeTask(c, "failed") /\ Tell(c, "failed") /\ Goto(c, "send") /\ Announce("task")
       ELSE Answer(c, "raised") /\ UNCHANGED <<store, shown>>
  /\ UNCHANGED <<attempt, proc, child, rpc>>

\* _block_child_task: the task first, then the worker.
BlockTask(c) ==
  /\ pc[c] = "block" /\ UpdateTask(c, "blocked", attempt[c])
  /\ Goto(c, "idleWorker")
  /\ Announce("task")
  /\ UNCHANGED <<attempt, told, proc, child, rpc>>

\* (A worker without a current task names no session: there is no event.)
BlockWorker(c) ==
  /\ pc[c] = "idleWorker" /\ UpsertWorker(c, FALSE) /\ Tell(c, "waiting") /\ Goto(c, "send")
  /\ UNCHANGED <<attempt, proc, child, rpc, shown>>

\* The message about the outcome, stored and announced; then the dispatch returns.
SendMessage(c) ==
  /\ pc[c] = "send" /\ Goto(c, "done") /\ Announce("task")
  /\ UNCHANGED <<attempt, store, told, proc, child, rpc>>

Dispatch(c) ==
  \/ RefuseBudget(c) \/ CreateInline(c) \/ Claim(c) \/ MarkRunning(c)
  \/ CancelledBeforeStart(c) \/ StartAttempt(c) \/ TakeReply(c)
  \/ RequestFails(c) \/ CompleteChild(c) \/ FailChild(c)
  \/ BlockTask(c) \/ BlockWorker(c) \/ SendMessage(c)

\* The thread goes on when the event of its write is out.
Dispatcher ==
  \/ Service("task")
  \/ event["task"].at = "none" /\ \E c \in Kids : Dispatch(c)

-----------------------------------------------------------------------------
(* The child's process: Orchestrator.run_child_task.                         *)

SetRt(c, n, s) == rt' = [rt EXCEPT ![c][n] = s]
Reply(c, n, s) == proc' = [proc EXCEPT ![c][n] = s]

\* The process of attempt n handles worker.run_child_task.
Handling(c, n) == proc[c][n] = "busy"

ChildCreates(c, n) ==
  /\ Handling(c, n) /\ rt[c][n] = "none"
  /\ \/ SetRt(c, n, "running") /\ UNCHANGED proc
     \/ Reply(c, n, "error") /\ UNCHANGED rt
  /\ UNCHANGED <<pc, attempt, store, told, saved, decision, rpc, shown>>

\* The loop ended: _complete_task completes the task, or leaves it running
\* when the completion gate refuses; a cancelled task stays cancelled. The
\* status is the reply.
ChildCompletes(c, n) ==
  /\ Handling(c, n)
  /\ \E s \in {"completed", "running", "cancelled"} :
       /\ rt[c][n] = (IF s = "cancelled" THEN "cancelled" ELSE "running")
       /\ SetRt(c, n, s) /\ Reply(c, n, s)
  /\ UNCHANGED <<pc, attempt, store, told, saved, decision, rpc, shown>>

\* The loop returned another status (reply: the failed task) or raised.
ChildFails(c, n) ==
  /\ Handling(c, n) /\ rt[c][n] = "running" /\ SetRt(c, n, "failed")
  /\ \E s \in {"failed", "error"} : Reply(c, n, s)
  /\ UNCHANGED <<pc, attempt, store, told, saved, decision, rpc, shown>>

\* A gated tool: the task waits and the approval exists ...
ChildAsks(c, n) ==
  /\ Handling(c, n) /\ rt[c][n] = "running" /\ decision[c][n] = "none"
  /\ SetRt(c, n, "waiting_approval")
  /\ decision' = [decision EXCEPT ![c][n] = "pending"]
  /\ UNCHANGED <<pc, attempt, store, told, proc, saved, rpc, shown>>

\* ... before the loop has stored its state and the process has replied.
ChildWaits(c, n) ==
  /\ Handling(c, n) /\ decision[c][n] # "none" /\ Reply(c, n, "waiting_approval")
  /\ saved' = [saved EXCEPT ![c][n] = TRUE]
  /\ UNCHANGED <<pc, attempt, store, told, rt, decision, rpc, shown>>

Child(c, n) == ChildCreates(c, n) \/ ChildCompletes(c, n) \/ ChildFails(c, n)
               \/ ChildAsks(c, n) \/ ChildWaits(c, n)

-----------------------------------------------------------------------------
(* The RPC thread: approval.submit and task.cancel for a child.              *)

\* The RPC thread is at a request.
Deciding == rpc # IdleRpc \/ event["rpc"].at # "none"

\* Variant: the status of the collaboration task is not looked at.
AnyChild(c, n) == cstatus[c] # "absent"

\* _blocked_child_collaboration_for_runtime_task
BlockedChild(c, n) == cstatus[c] = "blocked" /\ link[c] = n

\* submit_approval up to the point where somebody works on the decision: the
\* decision is stored first; an ended task, or one without a stored state and
\* without a blocked record, leaves it at that. A blocked child goes to a new
\* process, any other is resumed (or failed) by this thread.
SubmitApproval(c, n, d) ==
  /\ ~Deciding /\ decision[c][n] = "pending"
  /\ decision' = [decision EXCEPT ![c][n] = d]
  /\ \/ /\ rt[c][n] \in Ended \/ (~saved[c][n] /\ ~BlockedChild(c, n))
        /\ UNCHANGED <<rt, rpc>>
     \/ /\ rt[c][n] \notin Ended /\ BlockedChild(c, n)
        /\ rpc' = [at |-> "remote", kid |-> c, n |-> n] /\ UNCHANGED rt
     \/ /\ rt[c][n] \notin Ended /\ ~BlockedChild(c, n) /\ saved[c][n]
        /\ IF d = "approved"
             THEN SetRt(c, n, "running") /\ rpc' = [at |-> "main", kid |-> c, n |-> n]
             ELSE SetRt(c, n, "failed") /\ rpc' = [at |-> "look", kid |-> c, n |-> n,
                                                   as |-> "failed"]
  /\ UNCHANGED <<pc, attempt, store, told, proc, saved, shown>>

\* resume_child_approval: the new process is asked to submit the same approval,
\* finds it decided and ignores the request; the runtime task is read back. A
\* timeout or an exit fails the runtime task instead.
ResumeRemote ==
  /\ rpc.at = "remote"
  /\ LET c == rpc.kid  n == rpc.n IN
     \/ /\ rpc' = [at |-> "look", kid |-> c, n |-> n, as |-> rt[c][n]]
        /\ UNCHANGED rt
     \/ LET s == IF rt[c][n] = "cancelled" THEN "cancelled" ELSE "failed" IN
        /\ SetRt(c, n, s)
        /\ rpc' = [at |-> "look", kid |-> c, n |-> n, as |-> s]
  /\ UNCHANGED <<pc, attempt, store, told, proc, saved, decision, shown>>

\* _resume_react_after_approval in this process: the task completes, fails, or
\* is left running when the loop did not complete.
ResumeMain ==
  /\ rpc.at = "main"
  /\ \E s \in {"completed", "failed", "running"} :
       /\ SetRt(rpc.kid, rpc.n, s)
       /\ rpc' = [at |-> "look", kid |-> rpc.kid, n |-> rpc.n, as |-> s]
  /\ UNCHANGED <<pc, attempt, store, told, proc, saved, decision, shown>>

\* _finalize_child_collaboration_after_approval: the lookup and
\* _prepare_child_collaboration_worker ...
FinalizeLook ==
  /\ rpc.at = "look"
  /\ \/ ~BlockedChild(rpc.kid, rpc.n) /\ rpc' = IdleRpc /\ UNCHANGED <<store, shown>>
     \/ BlockedChild(rpc.kid, rpc.n) /\ UpsertWorker(rpc.kid, TRUE)
        /\ rpc' = [rpc EXCEPT !.at = "write"] /\ Announce("rpc")
  /\ UNCHANGED <<pc, attempt, told, proc, child>>

\* ... then the outcome; a finalization that raises leaves the record blocked.
FinalizeWrite ==
  /\ rpc.at = "write"
  /\ LET c == rpc.kid IN
     \/ /\ rpc.as \in Ended /\ CanFinalize(c)
        /\ FinalizeTask(c, IF rpc.as = "completed" THEN "completed" ELSE "failed")
        /\ Announce("rpc") /\ rpc' = [at |-> "send"]
     \/ rpc.as \in Ended /\ ~CanFinalize(c) /\ rpc' = IdleRpc /\ UNCHANGED <<store, shown>>
     \/ rpc.as \notin Ended /\ UpdateTask(c, "blocked", rpc.n) /\ Announce("rpc") /\ rpc' = IdleRpc
  /\ UNCHANGED <<pc, attempt, told, proc, child>>

FinalizeMessage ==
  /\ rpc.at = "send" /\ Announce("rpc") /\ rpc' = IdleRpc
  /\ UNCHANGED <<pc, attempt, store, told, proc, child>>

Cancelled == UNION {{<<c, n>> : n \in {m \in Attempts(c) : rt[c][m] = "cancelled"}} :
                    c \in Kids}

\* task.cancel of the child's runtime task; no collaboration record is touched.
CancelRuntime(c, n) ==
  /\ ~Deciding /\ Cardinality(Cancelled) < MaxCancels
  /\ rt[c][n] \in {"running", "waiting_approval"}
  /\ SetRt(c, n, "cancelled")
  /\ UNCHANGED <<pc, attempt, store, told, proc, saved, decision, rpc, shown>>

Rpc ==
  \/ Service("rpc")
  \/ /\ event["rpc"].at = "none"
     /\ ResumeRemote \/ ResumeMain \/ FinalizeLook \/ FinalizeWrite \/ FinalizeMessage

Step ==
  \/ Dispatcher
  \/ \E c \in Kids : \E n \in Attempts(c) :
       \/ Child(c, n)
       \/ CancelRuntime(c, n)
       \/ \E d \in {"approved", "rejected"} : SubmitApproval(c, n, d)
  \/ Rpc

Next == Step /\ raced' = (raced \/ (Dispatching /\ Deciding)')

Spec == Init /\ [][Next]_vars

\* A dispatch runs on, its request ends by a reply or by its timeout; a request
\* the RPC thread handles ends. Users and children owe nothing.
Fairness ==
  /\ WF_runtime(Dispatcher)
  /\ WF_runtime(Rpc)

FairSpec == Spec /\ Fairness

-----------------------------------------------------------------------------
(* Properties.                                                               *)

\* Every variable has its type.
TypeOK ==
  /\ pc \in [Kids -> {"start", "created", "claimed", "ready", "request", "retry",
                      "complete", "fail", "block", "idleWorker", "send", "done"}]
  /\ cstatus \in [Kids -> {"absent", "queued", "claimed", "running", "blocked"}
                          \cup Settled]
  /\ holds \in [Kids -> BOOLEAN] /\ raced \in BOOLEAN
  /\ told \in [Kids -> {"none", "refused", "waiting", "raised"} \cup Settled]
  /\ attempt \in [Kids -> Nat] /\ link \in [Kids -> Nat]
  /\ DOMAIN proc = Kids /\ DOMAIN rt = Kids /\ DOMAIN saved = Kids /\ DOMAIN decision = Kids
  /\ \A c \in Kids :
       /\ attempt[c] \in Attempts(c) /\ link[c] \in 0 .. MaxAttempts[c]
       /\ proc[c] \in [Attempts(c) -> {"off", "busy", "error", "waiting_approval", "running"}
                                       \cup Ended]
       /\ rt[c] \in [Attempts(c) -> RuntimeStatuses]
       /\ saved[c] \in [Attempts(c) -> BOOLEAN]
       /\ decision[c] \in [Attempts(c) -> {"none", "pending", "approved", "rejected"}]
  /\ rpc \in {IdleRpc, [at |-> "send"]}
            \cup [at : {"remote", "main"}, kid : Kids, n : Nat]
            \cup [at : {"look", "write"}, kid : Kids, n : Nat, as : RuntimeStatuses]
  /\ rpc.at \notin {"idle", "send"} => rpc.n \in Attempts(rpc.kid)
  /\ event \in [{"task", "rpc"} -> [at : {"none", "due", "read"}, team : [Kids -> TeamStatuses]]]
  /\ team \in [Kids -> TeamStatuses]

\* The processes of two attempts of one child are never at work at the same time, in
\* whatever order replies, timeouts, retries, decisions and cancels come: a retry
\* closes the process of the attempt before (WorkerRunner._execute_with_policy).
\* (The RPC thread may be: it resumes an attempt whose approval is decided before the
\* child is recorded as blocked.)
OneAttemptExecutes ==
  \A c \in Kids :
    Cardinality({n \in Attempts(c) : Handling(c, n) /\ rt[c][n] = "running"}) <= 1

\* The dispatch and the finalization after an approval implement the contract
\* of a child: no step of one undoes the other's settlement, and the parent's
\* answer is the record.
Contract == INSTANCE ChildContract WITH
  phase  <- [c \in Kids |->
               CASE cstatus[c] = "claimed" -> "queued"
                 [] cstatus[c] = "running" -> "working"
                 [] cstatus[c] = "blocked" -> "waiting"
                 [] OTHER -> cstatus[c]],
  answer <- told

ImplementsContract == Contract!Spec

\* Every dispatch comes to its end, even if the child never replies.
DispatchAnswered == \A c \in Kids : <>(pc[c] = "done")

\* When all is quiet the team the client shows is what is recorded, for every child
\* of the session, though each event reads the records a second time, unless a
\* decision was worked on during a dispatch: the last thread to publish may then have
\* read before the other one wrote.
TeamIsCurrent ==
  ~Dispatching /\ ~Deciding /\ ~raced =>
    \A c \in Kids : team[c] = PublicStatus(cstatus[c])

=============================================================================
