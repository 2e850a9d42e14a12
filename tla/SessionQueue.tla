---------------------------- MODULE SessionQueue ----------------------------
(***************************************************************************)
(* The message queue of one session: message.send with mode "queued"       *)
(* (orchestrator/message_routing.py) and _drain_session_queue              *)
(* (orchestrator/service.py), which a thread runs when its task has ended. *)
(*                                                                         *)
(* The ReAct loop is one step here (module TaskRun opens it); what counts  *)
(* is which threads run a task and what they write to tasks.status.  The   *)
(* RPC thread handles one request at a time, and runs a task itself for a  *)
(* foreground message, a resume or an approval.                            *)
(***************************************************************************)
EXTENDS Naturals, FiniteSets

CONSTANTS Tasks,    \* task ids of the session
          Threads,  \* background message threads (their number is the bound)
          Rpc,      \* the RPC thread
          NoTask    \* no task: what an idle thread works on

ASSUME SessionQueueAssumption == Rpc \notin Threads /\ NoTask \notin Tasks

Workers  == Threads \cup {Rpc}
Terminal == {"completed", "failed", "cancelled"}
Active   == {"running", "waiting_approval", "paused"}  \* _active_statuses
Open     == Active \cup {"queued"}                     \* open_statuses
Stored   == Open \cup Terminal \cup {"none"}

VARIABLES
  status,  \* tasks.status ("none": not created)
  age,     \* tasks.created_at
  clock,   \* the clock of created_at
  saved,   \* tasks with a pending ReAct state
  how,     \* history: how the task was begun
  pc,      \* where each thread is
  on,      \* the task it works on
  snap     \* the status the supplement handler has read

store == <<status, age, clock, saved, how>>
sqVars  == <<store, pc, on, snap>>

Pcs == {"idle", "run", "drain", "list", "start", "spawn",
        "enqueue", "create", "createNew", "cancel", "pause", "supplement",
        "resume", "resumeSaved", "resumeBare"}

SQTypeOK ==
  /\ status \in [Tasks -> Stored]
  /\ age \in [Tasks -> Nat]
  /\ clock \in Nat
  /\ saved \subseteq Tasks
  /\ how \in [Tasks -> {"waiting", "turn", "new"}]
  /\ pc \in [Workers -> Pcs]
  /\ on \in [Workers -> Tasks \cup {NoTask}]
  /\ snap \in Stored

SQInit ==
  /\ status = [t \in Tasks |-> "none"]
  /\ age = [t \in Tasks |-> 0]
  /\ clock = 0
  /\ saved = {}
  /\ how = [t \in Tasks |-> "waiting"]
  /\ pc = [w \in Workers |-> "idle"]
  /\ on = [w \in Workers |-> NoTask]
  /\ snap = "none"

\* The thread goes on with its task, or drops it and is idle; it takes a task.
Goto(w, p) ==
  /\ pc' = [pc EXCEPT ![w] = p]
  /\ on' = [on EXCEPT ![w] = IF p = "idle" THEN NoTask ELSE @]
Take(w, t, p) ==
  /\ pc' = [pc EXCEPT ![w] = p]
  /\ on' = [on EXCEPT ![w] = t]

Write(w, s)  == status' = [status EXCEPT ![on[w]] = s]
Begun(t, h)  == how' = [how EXCEPT ![t] = IF @ = "waiting" THEN h ELSE @]

-----------------------------------------------------------------------------
(* message.send.                                                            *)

\* create_task with created_at = now(), in milliseconds: two tasks may share one.
CreateTask(t, s) ==
  /\ status' = [status EXCEPT ![t] = s]
  /\ clock' \in {clock, clock + 1}
  /\ age' = [age EXCEPT ![t] = clock']

\* mode = "queued", or a plain foreground message to a session without an open
\* task: _find_open_session_task is read before anything is created.
SendQueued(t) ==
  /\ pc[Rpc] = "idle" /\ status[t] = "none"
  /\ Take(Rpc, t, IF \E u \in Tasks : status[u] \in Open THEN "enqueue" ELSE "create")
  /\ UNCHANGED <<store, snap>>

\* background = True or newTask = True: the queue is not looked at.
SendNew(t) ==
  /\ pc[Rpc] = "idle" /\ status[t] = "none"
  /\ Take(Rpc, t, "createNew")
  /\ UNCHANGED <<store, snap>>

Enqueue ==
  /\ pc[Rpc] = "enqueue"
  /\ CreateTask(on[Rpc], "queued")
  /\ Goto(Rpc, "idle")
  /\ UNCHANGED <<saved, how, snap>>

\* The task is created running; a foreground task runs on the RPC thread.
Create ==
  /\ pc[Rpc] \in {"create", "createNew"}
  /\ CreateTask(on[Rpc], "running")
  /\ Begun(on[Rpc], IF pc[Rpc] = "create" THEN "turn" ELSE "new")
  /\ \E p \in {"run", "spawn"} : Goto(Rpc, p)
  /\ UNCHANGED <<saved, snap>>

\* _start_background_message: a new thread; the one that ends here is reusable.
Spawn(w) ==
  /\ pc[w] = "spawn"
  /\ \E v \in Threads :
       /\ v = w \/ pc[v] = "idle"
       /\ pc' = [x \in Workers |-> IF x = v THEN "run" ELSE IF x = w THEN "idle" ELSE pc[x]]
       /\ on' = [x \in Workers |-> IF x = v THEN on[w] ELSE IF x = w THEN NoTask ELSE on[x]]
  /\ UNCHANGED <<store, snap>>

-----------------------------------------------------------------------------
(* A thread running a task.                                                 *)

\* The thread found its task cancelled (or ended, in _fail_task): it returns and
\* nothing is drained.
Stop(w) ==
  /\ pc[w] = "run" /\ status[on[w]] \in Terminal
  /\ Goto(w, "idle")
  /\ UNCHANGED <<store, snap>>

\* A checkpoint for a pause, a question or an approval.
Hold(w) ==
  /\ pc[w] = "run"
  /\ saved' = saved \cup {on[w]}
  /\ \E s \in {"paused", "waiting_approval"} : Write(w, s)
  /\ Goto(w, "idle")
  /\ UNCHANGED <<age, clock, how, snap>>

\* _complete_task and _fail_task: the task ends (whatever its status has become
\* since the loop looked at it), then the queue is drained.
Finish(w) ==
  /\ pc[w] = "run"
  /\ saved' = saved \ {on[w]}
  /\ \E s \in {"completed", "failed"} : Write(w, s)
  /\ Goto(w, "drain")
  /\ UNCHANGED <<age, clock, how, snap>>

\* The completion gate: work is left, the task is (made) running, and the queue
\* is drained all the same.
Unresolved(w) ==
  /\ pc[w] = "run"
  /\ \/ UNCHANGED status
     \/ Write(w, "running")
  /\ Goto(w, "drain")
  /\ UNCHANGED <<age, clock, saved, how, snap>>

-----------------------------------------------------------------------------
(* _drain_session_queue.                                                    *)

\* Variant: a queued task counts as active.
DrainCheckOpen(w) ==
  /\ pc[w] = "drain"
  /\ Goto(w, IF \E u \in Tasks : status[u] \in Open THEN "idle" ELSE "list")
  /\ UNCHANGED <<store, snap>>

\* Nothing is started while a task of the session is active ...
DrainCheck(w) ==
  /\ pc[w] = "drain"
  /\ Goto(w, IF \E u \in Tasks : status[u] \in Active THEN "idle" ELSE "list")
  /\ UNCHANGED <<store, snap>>

\* Variant: the newest queued task.
OldestNewest(t) ==
  /\ status[t] = "queued"
  /\ \A u \in Tasks : status[u] = "queued" => age[t] >= age[u]

\* list_tasks_by_session_and_status(... "queued") ordered by created_at, first.
Oldest(t) ==
  /\ status[t] = "queued"
  /\ \A u \in Tasks : status[u] = "queued" => age[t] <= age[u]

\* ... then the oldest queued task is picked ...
DrainList(w) ==
  /\ pc[w] = "list"
  /\ \/ /\ \A u \in Tasks : status[u] # "queued"
        /\ Goto(w, "idle")
     \/ \E t \in Tasks :
          /\ Oldest(t)
          /\ Take(w, t, "start")
  /\ UNCHANGED <<store, snap>>

\* ... and made running; the transition that is validated is the literal
\* queued -> running, not the task's status.
DrainStart(w) ==
  /\ pc[w] = "start"
  /\ Write(w, "running")
  /\ Begun(on[w], "turn")
  /\ Goto(w, "spawn")
  /\ UNCHANGED <<age, clock, saved, snap>>

-----------------------------------------------------------------------------
(* The other requests, between their read and their write.                  *)

BeginRequest(t, p) ==
  /\ pc[Rpc] = "idle"
  /\ Take(Rpc, t, p)
  /\ UNCHANGED store

CancelTask(t) == status[t] \in Open /\ BeginRequest(t, "cancel") /\ UNCHANGED snap

\* Variant: the other spelling of the status.
CancelWriteSpelling ==
  /\ pc[Rpc] = "cancel"
  /\ Write(Rpc, "canceled")
  /\ saved' = saved \ {on[Rpc]}
  /\ Goto(Rpc, "idle")
  /\ UNCHANGED <<age, clock, how, snap>>

\* cancel_task does not drain the queue.
CancelWrite ==
  /\ pc[Rpc] = "cancel"
  /\ Write(Rpc, "cancelled")
  /\ saved' = saved \ {on[Rpc]}
  /\ Goto(Rpc, "idle")
  /\ UNCHANGED <<age, clock, how, snap>>

PauseTask(t) == status[t] \in {"running", "waiting_approval"} /\ BeginRequest(t, "pause") /\ UNCHANGED snap

PauseWrite ==
  /\ pc[Rpc] = "pause"
  /\ Write(Rpc, "paused")
  /\ Goto(Rpc, "idle")
  /\ UNCHANGED <<age, clock, saved, how, snap>>

\* task.resume, and a decision on a pending approval.
ResumeTask(t) ==
  /\ status[t] \in {"queued", "paused", "waiting_approval"}
  /\ BeginRequest(t, "resume") /\ UNCHANGED snap

\* _load_pending_react_state, after the status was validated.
ResumeLoad ==
  /\ pc[Rpc] = "resume"
  /\ Goto(Rpc, IF on[Rpc] \in saved THEN "resumeSaved" ELSE "resumeBare")
  /\ UNCHANGED <<store, snap>>

\* Without a saved state only the status is written: no thread runs the task.
ResumeBare ==
  /\ pc[Rpc] = "resumeBare"
  /\ Write(Rpc, "running")
  /\ Goto(Rpc, "idle")
  /\ UNCHANGED <<age, clock, saved, how, snap>>

\* With one, the RPC thread runs the task; or its question is still unanswered;
\* or its approval was rejected; or it is undecided, which raises.
ResumeSaved ==
  /\ pc[Rpc] = "resumeSaved"
  /\ \/ Write(Rpc, "running") /\ Goto(Rpc, "run") /\ UNCHANGED saved
     \/ Write(Rpc, "paused") /\ Goto(Rpc, "idle") /\ UNCHANGED saved
     \/ Write(Rpc, "failed") /\ Goto(Rpc, "drain") /\ saved' = saved \ {on[Rpc]}
     \/ Goto(Rpc, "idle") /\ UNCHANGED <<status, saved>>
  /\ UNCHANGED <<age, clock, how, snap>>

\* A supplement to any open task writes the status it read back.
SendSupplement(t) == status[t] \in Open /\ BeginRequest(t, "supplement") /\ snap' = status[t]

SupplementWrite ==
  /\ pc[Rpc] = "supplement"
  /\ Write(Rpc, snap)
  /\ snap' = "none"
  /\ Goto(Rpc, "idle")
  /\ UNCHANGED <<age, clock, saved, how>>

-----------------------------------------------------------------------------
\* The process dies and starts again: _cleanup_orphan_tasks fails the running
\* tasks; it does not drain the queue.
Restart ==
  /\ pc' = [w \in Workers |-> "idle"]
  /\ status' = [t \in Tasks |-> IF status[t] = "running" THEN "failed" ELSE status[t]]
  /\ on' = [w \in Workers |-> NoTask]
  /\ snap' = "none"
  /\ UNCHANGED <<age, clock, saved, how>>

Work(w) ==
  \/ Spawn(w) \/ Stop(w) \/ Hold(w) \/ Finish(w) \/ Unresolved(w)
  \/ DrainCheck(w) \/ DrainList(w) \/ DrainStart(w)

Request(t) ==
  \/ SendQueued(t) \/ SendNew(t)
  \/ CancelTask(t) \/ PauseTask(t) \/ ResumeTask(t) \/ SendSupplement(t)

Handle ==
  \/ Enqueue \/ Create \/ CancelWrite \/ PauseWrite
  \/ ResumeLoad \/ ResumeBare \/ ResumeSaved \/ SupplementWrite

SQNext ==
  \/ \E w \in Workers : Work(w)
  \/ \E t \in Tasks : Request(t)
  \/ Handle
  \/ Restart

SQSpec == SQInit /\ [][SQNext]_sqVars

-----------------------------------------------------------------------------
(* Properties.                                                              *)

\* Turns are taken in the order of arrival: a task that was begun from the
\* queue (or found it empty when it was sent) is no younger than any task still
\* waiting for its first turn, however drains, supplements, cancellations and
\* restarts interleave.
QueueInOrder ==
  \A t, u \in Tasks :
    how[t] = "turn" /\ status[u] = "queued" /\ how[u] = "waiting" => age[t] <= age[u]

\* A task waits, no task of the session is active and no thread is draining:
\* nothing but a request of the user will start it.
Stranded ==
  /\ \E t \in Tasks : status[t] = "queued"
  /\ \A t \in Tasks : status[t] \notin Active
  /\ \A w \in Workers : pc[w] \notin {"drain", "list", "start"}

\* Whatever the threads do, the end of a task hands the session over: the queue is
\* stranded only by a task.cancel, which does not drain, by a message that is put in
\* the queue after the last drain has looked, by a supplement that writes an old
\* status back, or by a restart.
HandsOver ==
  [][~ Stranded /\ Stranded' => CancelWrite \/ Enqueue \/ SupplementWrite \/ Restart]_sqVars

=============================================================================
