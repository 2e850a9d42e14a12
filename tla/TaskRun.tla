------------------------------ MODULE TaskRun ------------------------------
(***************************************************************************)
(* The life of one agent task: the ReAct loop (orchestrator/               *)
(* react_runner.py), the ways it is entered and left (message_execution,   *)
(* resume_flow, react_resume, approval_flow, task_lifecycle) and the RPCs  *)
(* that act on a task while its loop runs.                                 *)
(*                                                                         *)
(* Two kinds of thread: the RPC thread handles one request at a time and   *)
(* runs the loop inline for task.resume, approval.submit and a foreground  *)
(* message.send; a background message.send gives its task a daemon thread. *)
(* They share only the SQLite store.  Each step below is one store access  *)
(* (a read with the decision it feeds, or a write), so that everything a   *)
(* thread may know out of date is in its locals.                           *)
(***************************************************************************)
EXTENDS Naturals, FiniteSets

CONSTANTS Tasks,         \* task ids; a task also names its background thread
          Rpc,           \* the RPC thread
          Requests,      \* distinct tool requests that need an approval
          PlanRequests,  \* those of kind "plan" (exit_plan_mode)
          OtherRequests, \* those outside plan/run_command/apply_patch/write_file
          NoReq,         \* no request
          Plain,         \* a tool call that needs nobody
          Question       \* an ask_user_question tool call

ASSUME TaskRunAssumption ==
  /\ Rpc \notin Tasks
  /\ PlanRequests \subseteq Requests
  /\ OtherRequests \subseteq Requests \ PlanRequests
  /\ NoReq \notin Requests /\ Plain \notin Requests /\ Question \notin Requests
  /\ NoReq # Plain /\ NoReq # Question /\ Plain # Question

Workers   == Tasks \cup {Rpc}
Terminal  == {"completed", "failed", "cancelled"}
Statuses  == {"running", "paused", "waiting_approval"} \cup Terminal
Stored    == Statuses \cup {"none"}
Decisions == {"none", "pending", "approved", "rejected"}

\* TaskStateMachine.VALID_TRANSITIONS for the statuses of a started task.
ValidTransitions ==
  [s \in Stored |->
     CASE s = "running"          -> {"completed", "failed", "cancelled", "paused",
                                     "waiting_approval"}
       [] s = "paused"           -> {"running", "cancelled"}
       [] s = "waiting_approval" -> {"running", "cancelled", "failed", "paused"}
       [] OTHER                  -> {}]

VARIABLES
  status,    \* tasks.status ("none": the task does not exist yet)
  pend,      \* kind of the saved pending ReAct state
  pendReq,   \* the request of its pending_tool_call
  rest,      \* tasks whose saved remaining_tool_calls is not empty
  asked,     \* tasks whose saved context carries _pending_user_question
  inbox,     \* tasks with unconsumed supplements
  approval,  \* approvals.decision of each task's request
  latest,    \* the approval created last, per task
  ran,       \* history: approval-gated requests that were executed
  pc,        \* where each thread is
  on,        \* the task it works on
  origin,    \* who entered the loop and will handle its result
  snap,      \* the status in the task record the thread works with
  copy,      \* the status in the record of the loop's caller
  cur,       \* the tool call or approval in hand
  drain,     \* draining the calls of a resumed turn
  mark       \* threads whose loop context carries _pending_user_question

saved  == <<pend, pendReq, rest, asked>>
grants == <<approval, latest, ran>>
local  == <<on, origin, snap, copy, cur, drain, mark>>
vars   == <<status, saved, inbox, grants, pc, local>>

\* Inside _run_react_loop, or executing tool calls for it.
LoopPcs == {"top", "provider", "tools", "exec", "gate", "fin", "advance", "turnEnd",
            "drain", "drainHeld", "execPend", "pendFin"}
\* On the way out of the loop: checkpoints and the ends of a task.
ExitPcs == {"savePause", "saveGate", "ask", "askTool", "askPause", "askMark",
            "planSave", "planWait", "complete", "validate", "finalize", "fail", "failWrite"}
\* RPC handlers between their read and their write.
OpPcs   == {"cancel", "pause", "resumeRead", "resume", "submitRead", "submit", "reenter",
            "supplement", "converge"}

Pcs     == {"idle"} \cup LoopPcs \cup ExitPcs \cup OpPcs
Kinds   == {"none", "coop", "question", "gate", "plan"}
Origins == {"message", "coop", "approval", "recover"}
Drains  == {"no", "none", "more", "empty"}
Calls   == Requests \cup {NoReq, Plain, Question}

TypeOK ==
  /\ status \in [Tasks -> Stored]
  /\ pend \in [Tasks -> Kinds]
  /\ pendReq \in [Tasks -> Calls]
  /\ rest \subseteq Tasks
  /\ asked \subseteq Tasks
  /\ inbox \subseteq Tasks
  /\ approval \in [Tasks \X Requests -> Decisions]
  /\ latest \in [Tasks -> Requests \cup {NoReq}]
  /\ ran \subseteq Tasks \X Requests
  /\ pc \in [Workers -> Pcs]
  /\ on \in [Workers -> Tasks]
  /\ \A t \in Tasks : on[t] = t
  /\ origin \in [Workers -> Origins]
  /\ snap \in [Workers -> Stored]
  /\ copy \in [Workers -> Stored]
  /\ cur \in [Workers -> Calls]
  /\ drain \in [Workers -> Drains]
  /\ mark \subseteq Workers

Init ==
  /\ status = [t \in Tasks |-> "none"]
  /\ pend = [t \in Tasks |-> "none"]
  /\ pendReq = [t \in Tasks |-> NoReq]
  /\ rest = {}
  /\ asked = {}
  /\ inbox = {}
  /\ approval = [a \in Tasks \X Requests |-> "none"]
  /\ latest = [t \in Tasks |-> NoReq]
  /\ ran = {}
  /\ pc = [w \in Workers |-> "idle"]
  /\ \E t0 \in Tasks : on = [w \in Workers |-> IF w = Rpc THEN t0 ELSE w]
  /\ origin = [w \in Workers |-> "message"]
  /\ snap = [w \in Workers |-> "none"]
  /\ copy = [w \in Workers |-> "none"]
  /\ cur = [w \in Workers |-> Plain]
  /\ drain = [w \in Workers |-> "no"]
  /\ mark = {}

-----------------------------------------------------------------------------
Goto(w, p)  == pc' = [pc EXCEPT ![w] = p]
Read(w)     == snap' = [snap EXCEPT ![w] = status[on[w]]]
Write(w, s) == status' = [status EXCEPT ![on[w]] = s]

Flag(S, e, b) == IF b THEN S \cup {e} ELSE S \ {e}

\* _save_pending_react_state for the task of worker w.
SavePending(w, kind, r, more, asking) ==
  /\ pend' = [pend EXCEPT ![on[w]] = kind]
  /\ pendReq' = [pendReq EXCEPT ![on[w]] = r]
  /\ rest' = Flag(rest, on[w], more)
  /\ asked' = Flag(asked, on[w], asking)

ClearPending(w) ==
  /\ pend' = [pend EXCEPT ![on[w]] = "none"]
  /\ UNCHANGED <<pendReq, rest, asked>>

\* What the caller of _run_react_loop does with the loop's result.  A
\* cooperative resume completes the task on every result but paused and
\* waiting_approval; a resume after an approval acts on completed only.
AfterResult(o, res) ==
  IF res = "completed" \/ (o = "coop" /\ res \in {"failed", "cancelled"}) THEN "complete"
  ELSE IF o = "message" /\ res = "failed" THEN "fail"
  ELSE "idle"

Result(w, res) == Goto(w, AfterResult(origin[w], res))

\* The caller's `except': _fail_task.
Raise(w) == Goto(w, "fail")

-----------------------------------------------------------------------------
(* Entering the loop.                                                       *)

Enter(w, t) ==
  /\ status[t] = "none"
  /\ status' = [status EXCEPT ![t] = "running"]
  /\ Goto(w, "top")
  /\ on' = [on EXCEPT ![w] = t]
  /\ origin' = [origin EXCEPT ![w] = "message"]
  /\ copy' = [copy EXCEPT ![w] = "running"]
  /\ drain' = [drain EXCEPT ![w] = "no"]
  /\ mark' = mark \ {w}
  /\ UNCHANGED <<saved, inbox, grants, snap, cur>>

\* message.send: a foreground task runs on the RPC thread itself.
SendMessage(t) == pc[Rpc] = "idle" /\ Enter(Rpc, t)
SendBackgroundMessage(t) == pc[Rpc] = "idle" /\ Enter(t, t)

-----------------------------------------------------------------------------
(* The loop.                                                                *)

\* Refresh the task; stop, checkpoint, run out of steps (a question or a
\* failed result), or consume the inbox and call the provider.
Top(w) ==
  /\ pc[w] = "top"
  /\ \/ status[on[w]] = "cancelled" /\ Result(w, "cancelled") /\ UNCHANGED inbox
     \/ status[on[w]] = "paused" /\ Goto(w, "savePause") /\ UNCHANGED inbox
     \/ /\ status[on[w]] \notin {"cancelled", "paused"}
        /\ \/ Goto(w, "ask") /\ UNCHANGED inbox
           \/ Result(w, "failed") /\ UNCHANGED inbox
           \/ /\ Goto(w, "provider")
              /\ inbox' = inbox \ {on[w]}
  /\ UNCHANGED <<status, saved, grants, local>>

\* The cooperative checkpoint of a paused task.
SavePause(w) ==
  /\ pc[w] = "savePause"
  /\ SavePending(w, "coop", NoReq, FALSE, w \in mark)
  /\ Result(w, "paused")
  /\ UNCHANGED <<status, inbox, grants, local>>

\* The provider call fails after its retries.
ProviderError(w) ==
  /\ pc[w] = "provider"
  /\ IF status[on[w]] = "cancelled" THEN Result(w, "cancelled") ELSE Raise(w)
  /\ UNCHANGED <<status, saved, inbox, grants, local>>

\* The provider answers: a final, a question (asked, or answered by default),
\* a batch of tool calls, or something unusable.
ProviderTurn(w) ==
  /\ pc[w] = "provider"
  /\ IF status[on[w]] = "cancelled"
       THEN Result(w, "cancelled")
       ELSE \/ Result(w, "completed")
            \/ \E p \in {"ask", "top", "tools"} : Goto(w, p)
            \/ Raise(w)
  /\ UNCHANGED <<status, saved, inbox, grants, local>>

\* _recover_loop_failure_with_completion_evidence: a message task whose
\* provider answered nothing may complete on the evidence recorded so far.
Recover(w) ==
  /\ pc[w] = "provider" /\ origin[w] = "message" /\ status[on[w]] # "cancelled"
  /\ Goto(w, "complete")
  /\ origin' = [origin EXCEPT ![w] = "recover"]
  /\ copy' = [copy EXCEPT ![w] = status[on[w]]]
  /\ UNCHANGED <<status, saved, inbox, grants, on, snap, cur, drain, mark>>

\* Refresh the task before the next call of the batch.
NextTool(w) ==
  /\ pc[w] = "tools"
  /\ \/ status[on[w]] = "cancelled" /\ Result(w, "cancelled") /\ UNCHANGED snap
     \/ status[on[w]] # "cancelled" /\ Goto(w, "exec") /\ Read(w)
  /\ UNCHANGED <<status, saved, inbox, grants, on, origin, copy, cur, drain, mark>>

\* A tool that needs no approval, a blocked, cached or defaulted one, or
\* ask_user_question.
ExecTool(w, tool) ==
  /\ pc[w] = "exec"
  /\ tool \in {Plain, Question}
  /\ Goto(w, "fin")
  /\ cur' = [cur EXCEPT ![w] = tool]
  /\ UNCHANGED <<status, saved, inbox, grants, on, origin, snap, copy, drain, mark>>

\* A tool whose request needs approval: an approval of the same request is
\* looked up; only an approved one lets the tool run.
ExecApproved(w, r) ==
  LET t == on[w] IN
  /\ pc[w] = "exec" /\ approval[<<t, r>>] = "approved"
  /\ Goto(w, "fin")
  /\ ran' = ran \cup {<<t, r>>}
  /\ cur' = [cur EXCEPT ![w] = Plain]
  /\ UNCHANGED <<status, saved, inbox, approval, latest, on, origin, snap, copy, drain, mark>>

\* Otherwise the tool answers approval_required; an approval is created when
\* there is none.
ExecGated(w, r) ==
  LET t == on[w] IN
  /\ pc[w] = "exec" /\ approval[<<t, r>>] # "approved"
  /\ Goto(w, "gate")
  /\ cur' = [cur EXCEPT ![w] = r]
  /\ IF approval[<<t, r>>] = "none"
       THEN /\ approval' = [approval EXCEPT ![<<t, r>>] = "pending"]
            /\ latest' = [latest EXCEPT ![t] = r]
       ELSE UNCHANGED <<approval, latest>>
  /\ UNCHANGED <<status, saved, inbox, ran, on, origin, snap, copy, drain, mark>>

\* The approval_required branch of _execute_tool: the transition is validated
\* against the thread's copy of the status, and written unconditionally.
Gate(w) ==
  /\ pc[w] = "gate"
  /\ \/ /\ "waiting_approval" \in ValidTransitions[snap[w]]
        /\ Write(w, "waiting_approval")
        /\ snap' = [snap EXCEPT ![w] = "waiting_approval"]
        /\ Goto(w, "fin")
     \/ /\ "waiting_approval" \notin ValidTransitions[snap[w]]
        /\ Raise(w)
        /\ UNCHANGED <<status, snap>>
  /\ UNCHANGED <<saved, inbox, grants, on, origin, copy, cur, drain, mark>>

\* What a finished call leads to, when it holds the loop up at all.
Holds(w) == cur[w] = Question \/ cur[w] \in PlanRequests
              \/ status[on[w]] = "waiting_approval"
HoldAt(w) == IF cur[w] = Question THEN "askTool"
             ELSE IF cur[w] \in PlanRequests THEN "planSave" ELSE "saveGate"

\* _finalize_executed_tool: the loop is held up, a call that succeeded advances
\* the plan, one that failed (or entered plan mode) does not.
Fin(w) ==
  /\ pc[w] = "fin" /\ drain[w] = "no"
  /\ \/ status[on[w]] = "cancelled" /\ Result(w, "cancelled")
     \/ status[on[w]] # "cancelled" /\ Holds(w) /\ Goto(w, HoldAt(w))
     \/ /\ status[on[w]] # "cancelled" /\ ~Holds(w)
        /\ \/ \E p \in {"advance", "tools", "turnEnd"} : Goto(w, p)
           \/ Result(w, "failed")
           \/ Raise(w)
  /\ Read(w)
  /\ UNCHANGED <<status, saved, inbox, grants, on, origin, copy, cur, drain, mark>>

\* _advance_after_tool stores the plan and, with it, the status that was read
\* when the call was finalized.
Advance(w) ==
  /\ pc[w] = "advance"
  /\ Write(w, snap[w])
  /\ \/ drain[w] = "no" /\ \E p \in {"tools", "turnEnd"} : Goto(w, p)
     \/ drain[w] # "no" /\ Goto(w, "drain")
  /\ UNCHANGED <<saved, inbox, grants, local>>

\* After the batch: the cooperative pause check.
TurnEnd(w) ==
  /\ pc[w] = "turnEnd"
  /\ Goto(w, IF status[on[w]] = "paused" THEN "savePause" ELSE "top")
  /\ UNCHANGED <<status, saved, inbox, grants, local>>

-----------------------------------------------------------------------------
(* Holding the loop up.                                                     *)

\* The loop returns; a drain first reads the task again.
Held(w, res) == IF drain[w] = "no" THEN Result(w, res) ELSE Goto(w, "drainHeld")

SaveGate(w) ==
  /\ pc[w] = "saveGate"
  /\ \E more \in BOOLEAN : SavePending(w, "gate", cur[w], more, w \in mark)
  /\ Result(w, "waiting_approval")
  /\ UNCHANGED <<status, inbox, grants, local>>

PlanSave(w) ==
  /\ pc[w] = "planSave"
  /\ \E more \in BOOLEAN : SavePending(w, "plan", cur[w], more, w \in mark)
  /\ Goto(w, "planWait")
  /\ UNCHANGED <<status, inbox, grants, local>>

PlanWait(w) ==
  /\ pc[w] = "planWait"
  /\ \/ /\ snap[w] = "waiting_approval"
        /\ Held(w, "waiting_approval")
        /\ UNCHANGED status
     \/ /\ snap[w] # "waiting_approval"
        /\ "waiting_approval" \in ValidTransitions[snap[w]]
        /\ Write(w, "waiting_approval")
        /\ Held(w, "waiting_approval")
     \/ /\ snap[w] # "waiting_approval"
        /\ "waiting_approval" \notin ValidTransitions[snap[w]]
        /\ Raise(w)
        /\ UNCHANGED status
  /\ UNCHANGED <<saved, inbox, grants, local>>

\* _pause_react_for_user_question: a checkpoint without a tool call, then the
\* status, then the checkpoint again with the question's marker.
Ask(w) ==
  /\ pc[w] = "ask"
  /\ SavePending(w, "coop", NoReq, FALSE, w \in mark)
  /\ Goto(w, "askPause")
  /\ cur' = [cur EXCEPT ![w] = Plain]
  /\ UNCHANGED <<status, inbox, grants, on, origin, snap, copy, drain, mark>>

\* _pause_react_for_user_question_tool: the checkpoint holds the tool call.
AskTool(w) ==
  /\ pc[w] = "askTool"
  /\ \E more \in BOOLEAN : SavePending(w, "question", Question, more, TRUE)
  /\ Goto(w, "askPause")
  /\ UNCHANGED <<status, inbox, grants, local>>

AskPause(w) ==
  /\ pc[w] = "askPause"
  /\ Write(w, "paused")
  /\ Goto(w, "askMark")
  /\ UNCHANGED <<saved, inbox, grants, local>>

AskMark(w) ==
  /\ pc[w] = "askMark"
  /\ IF cur[w] = Question
       THEN SavePending(w, "question", Question, on[w] \in rest, TRUE)
       ELSE SavePending(w, "coop", NoReq, FALSE, TRUE)
  /\ Held(w, "paused")
  /\ UNCHANGED <<status, inbox, grants, local>>

-----------------------------------------------------------------------------
(* Resuming: the pending call, then the remaining calls of its turn.        *)

\* Variant: the pending call runs on whatever approval was decided.
ExecPendUnmatched(w) ==
  LET t == on[w] IN
  /\ pc[w] = "execPend"
  /\ ran' = ran \cup {<<t, r>> : r \in Requests \cap {pendReq[t]}}
  /\ Goto(w, "pendFin")
  /\ UNCHANGED <<status, saved, inbox, approval, latest, local>>

\* Variant: whatever the checkpoint holds is executed.
ExecPendAny(w) ==
  LET t == on[w] IN
  /\ pc[w] = "execPend"
  /\ ran' = ran \cup {<<t, pendReq[t]>>}
  /\ Goto(w, "pendFin")
  /\ UNCHANGED <<status, saved, inbox, approval, latest, local>>

\* _resume_react_after_approval: the pending call runs with the id of the
\* approval in hand, and the tool refuses an approval of another request.  A
\* checkpoint without a call makes it raise.
ExecPend(w) ==
  LET t == on[w] r == cur[w] IN
  /\ pc[w] = "execPend"
  /\ \/ pend[t] = "none" /\ Goto(w, "idle") /\ UNCHANGED ran
     \/ pend[t] = "coop" /\ Goto(w, "fail") /\ UNCHANGED ran
     \/ /\ pend[t] \notin {"none", "coop"}
        /\ Goto(w, "pendFin")
        /\ ran' = IF r \in Requests \cap {pendReq[t]} /\ approval[<<t, r>>] = "approved"
                  THEN ran \cup {<<t, r>>} ELSE ran
  /\ UNCHANGED <<status, saved, inbox, approval, latest, local>>

\* When it needs another approval the state is saved once more.
PendFin(w) ==
  LET t == on[w]
      kind == IF pend[t] = "none" THEN "gate" ELSE pend[t] IN
  /\ pc[w] = "pendFin"
  /\ Read(w)
  /\ copy' = [copy EXCEPT ![w] = status[t]]
  /\ IF status[t] = "waiting_approval"
       THEN /\ SavePending(w, kind, pendReq[t], drain[w] = "more", w \in mark)
            /\ Goto(w, "idle")
       ELSE /\ Goto(w, "advance")
            /\ UNCHANGED saved
  /\ UNCHANGED <<status, inbox, grants, on, origin, cur, drain, mark>>

\* _drain_remaining_react_tool_calls: the next remaining call.
DrainNext(w) ==
  /\ pc[w] = "drain" /\ drain[w] = "more"
  /\ Goto(w, "exec")
  /\ UNCHANGED <<status, saved, inbox, grants, local>>

\* Unlike _finalize_executed_tool, it does not look for a cancelled task.
DrainFin(w) ==
  /\ pc[w] = "fin" /\ drain[w] # "no"
  /\ IF Holds(w)
       THEN Goto(w, HoldAt(w)) /\ UNCHANGED drain
       ELSE /\ Goto(w, "advance")
            /\ \E d \in {"more", "empty"} : drain' = [drain EXCEPT ![w] = d]
  /\ Read(w)
  /\ UNCHANGED <<status, saved, inbox, grants, on, origin, copy, cur, mark>>

\* The caller looks at the drained task before it enters the loop.
EnterDrained(w, s) ==
  /\ Goto(w, IF \/ s \in {"paused", "waiting_approval"}
                \/ origin[w] = "coop" /\ s = "cancelled"
             THEN "idle" ELSE "top")
  /\ copy' = [copy EXCEPT ![w] = s]
  /\ drain' = [drain EXCEPT ![w] = "no"]

\* No call is left: the state is saved if calls were drained.
DrainDone(w) ==
  /\ pc[w] = "drain" /\ drain[w] \in {"none", "empty"}
  /\ IF drain[w] = "empty"
       THEN IF origin[w] = "coop"
              THEN SavePending(w, "coop", NoReq, FALSE, w \in mark)
              ELSE SavePending(w, "gate", pendReq[on[w]], FALSE, w \in mark)
       ELSE UNCHANGED saved
  /\ EnterDrained(w, snap[w])
  /\ UNCHANGED <<status, inbox, grants, on, origin, snap, cur, mark>>

\* A drained call asked a question or proposed a plan.
DrainHeld(w) ==
  /\ pc[w] = "drainHeld"
  /\ EnterDrained(w, status[on[w]])
  /\ Read(w)
  /\ UNCHANGED <<status, saved, inbox, grants, on, origin, cur, mark>>

-----------------------------------------------------------------------------
(* The ends of a task.                                                      *)

\* What a completion that did not complete leads to.
NotCompleted(w) ==
  /\ Goto(w, IF origin[w] = "recover" THEN "fail" ELSE "idle")
  /\ copy' = [copy EXCEPT ![w] = "running"]

\* _complete_task: the cancellation check.
Complete(w) ==
  /\ pc[w] = "complete"
  /\ IF status[on[w]] = "cancelled"
       THEN NotCompleted(w)
       ELSE Goto(w, "validate") /\ UNCHANGED copy
  /\ UNCHANGED <<status, saved, inbox, grants, on, origin, snap, cur, drain, mark>>

\* Validation: when it recorded something the caller's record is refreshed; a
\* record that says the task has ended is left alone.
Validate(w) ==
  /\ pc[w] = "validate"
  /\ \E s \in {copy[w], status[on[w]]} :
       IF s \in Terminal
         THEN NotCompleted(w)
         ELSE Goto(w, "finalize") /\ copy' = [copy EXCEPT ![w] = s]
  /\ UNCHANGED <<status, saved, inbox, grants, on, origin, snap, cur, drain, mark>>

\* The completion gate: with an approval still pending the task is (made)
\* running; otherwise completed is written whatever the status has become.
Finalize(w) ==
  /\ pc[w] = "finalize"
  /\ IF \E r \in Requests : approval[<<on[w], r>>] = "pending"
       THEN /\ IF copy[w] = "running" THEN UNCHANGED status ELSE Write(w, "running")
            /\ NotCompleted(w)
            /\ UNCHANGED saved
       ELSE /\ Write(w, "completed")
            /\ ClearPending(w)
            /\ Goto(w, "idle")
            /\ UNCHANGED copy
  /\ UNCHANGED <<inbox, grants, on, origin, snap, cur, drain, mark>>

\* _fail_task: the cancellation check, and a record that has ended is left
\* alone; then the write.
Fail(w) ==
  /\ pc[w] = "fail"
  /\ Goto(w, IF status[on[w]] = "cancelled" \/ copy[w] \in Terminal
             THEN "idle" ELSE "failWrite")
  /\ UNCHANGED <<status, saved, inbox, grants, local>>

FailWrite(w) ==
  /\ pc[w] = "failWrite"
  /\ Write(w, "failed")
  /\ ClearPending(w)
  /\ Goto(w, "idle")
  /\ UNCHANGED <<inbox, grants, local>>

-----------------------------------------------------------------------------
(* The RPC thread.  Every handler first reads the task.                     *)

Begin(t, p, c) ==
  /\ pc[Rpc] = "idle"
  /\ pc' = [pc EXCEPT ![Rpc] = p]
  /\ on' = [on EXCEPT ![Rpc] = t]
  /\ origin' = [origin EXCEPT ![Rpc] = "message"]
  /\ snap' = [snap EXCEPT ![Rpc] = status[t]]
  /\ copy' = [copy EXCEPT ![Rpc] = status[t]]
  /\ cur' = [cur EXCEPT ![Rpc] = c]
  /\ drain' = [drain EXCEPT ![Rpc] = "no"]
  /\ mark' = mark \ {Rpc}
  /\ UNCHANGED <<status, saved, inbox>>

\* Variant: an ended task can still be cancelled.
CancelTaskEnded(t) ==
  /\ status[t] \in Statuses
  /\ Begin(t, "cancel", Plain)
  /\ UNCHANGED grants

CancelTask(t) ==
  /\ status[t] \in Statuses \ Terminal
  /\ Begin(t, "cancel", Plain)
  /\ UNCHANGED grants

CancelWrite ==
  /\ pc[Rpc] = "cancel"
  /\ Write(Rpc, "cancelled")
  /\ ClearPending(Rpc)
  /\ Goto(Rpc, "idle")
  /\ UNCHANGED <<inbox, grants, local>>

PauseTask(t) ==
  /\ status[t] \in Statuses
  /\ "paused" \in ValidTransitions[status[t]]
  /\ Begin(t, "pause", Plain)
  /\ UNCHANGED grants

PauseWrite ==
  /\ pc[Rpc] = "pause"
  /\ Write(Rpc, "paused")
  /\ Goto(Rpc, "idle")
  /\ UNCHANGED <<saved, inbox, grants, local>>

ResumeTask(t) ==
  /\ status[t] \in Statuses
  /\ "running" \in ValidTransitions[status[t]]
  /\ Begin(t, "resume", Plain)
  /\ UNCHANGED grants

\* A handler has loaded the saved state: the thread will run the pending call
\* (o = "approval") or enter the loop (o = "coop"), after the remaining calls.
Load(t, o, asking) ==
  /\ Goto(Rpc, "reenter")
  /\ origin' = [origin EXCEPT ![Rpc] = o]
  /\ drain' = [drain EXCEPT ![Rpc] = IF t \in rest THEN "more" ELSE "none"]
  /\ mark' = Flag(mark, Rpc, asking)

\* resume_task after its validation, by what was saved.
ResumeCooperative ==
  LET t == on[Rpc] IN
  /\ pc[Rpc] = "resume" /\ pend[t] = "coop"
  /\ Load(t, "coop", t \in asked)
  /\ UNCHANGED <<status, saved, inbox, grants, on, snap, copy, cur>>

\* A checkpoint with a tool call and the question marker takes an answer from
\* the inbox; without one the task is put back to paused.
ResumeQuestion ==
  LET t == on[Rpc] IN
  /\ pc[Rpc] = "resume" /\ pend[t] \notin {"none", "coop"} /\ t \in asked
  /\ IF t \in inbox
       THEN /\ Load(t, "coop", FALSE)
            /\ cur' = [cur EXCEPT ![Rpc] = Question]
            /\ UNCHANGED status
       ELSE /\ Write(Rpc, "paused")
            /\ Goto(Rpc, "idle")
            /\ UNCHANGED <<origin, cur, drain, mark>>
  /\ UNCHANGED <<saved, inbox, grants, on, snap, copy>>

\* A pending gated call follows the task's latest approval: approved runs it,
\* rejected fails the task, undecided raises out of the handler.
ResumeGated ==
  LET t == on[Rpc]
      r == latest[t] IN
  /\ pc[Rpc] = "resume" /\ pend[t] \notin {"none", "coop"} /\ t \notin asked
  /\ \/ /\ r # NoReq /\ approval[<<t, r>>] = "approved"
        /\ Load(t, "approval", FALSE)
        /\ cur' = [cur EXCEPT ![Rpc] = r]
     \/ /\ r # NoReq /\ approval[<<t, r>>] = "rejected"
        /\ Goto(Rpc, "fail")
        /\ UNCHANGED <<origin, cur, drain, mark>>
     \/ /\ r = NoReq \/ approval[<<t, r>>] \notin {"approved", "rejected"}
        /\ Goto(Rpc, "idle")
        /\ UNCHANGED <<origin, cur, drain, mark>>
  /\ UNCHANGED <<status, saved, inbox, grants, on, snap, copy>>

\* The task is made running (an approval leaves one that already is alone), an
\* answer or a plan's decision becomes the result of the pending call, and the
\* thread goes on from the state it loaded.
Reenter ==
  LET t == on[Rpc] IN
  /\ pc[Rpc] = "reenter"
  /\ IF snap[Rpc] = "running" THEN UNCHANGED status ELSE Write(Rpc, "running")
  /\ IF origin[Rpc] = "coop" /\ cur[Rpc] # Plain
       THEN SavePending(Rpc, "coop", NoReq, drain[Rpc] = "more", Rpc \in mark)
       ELSE UNCHANGED saved
  /\ inbox' = IF cur[Rpc] = Question THEN inbox \ {t} ELSE inbox
  /\ Goto(Rpc, IF origin[Rpc] = "coop" THEN "drain" ELSE "execPend")
  /\ snap' = [snap EXCEPT ![Rpc] = "running"]
  /\ copy' = [copy EXCEPT ![Rpc] = "running"]
  /\ UNCHANGED <<grants, on, origin, cur, drain, mark>>

\* Variant: without a checkpoint the loop is started from its head.
ResumeFallbackRestarts ==
  /\ pc[Rpc] = "resume" /\ pend[on[Rpc]] = "none"
  /\ Write(Rpc, "running")
  /\ Goto(Rpc, "top")
  /\ UNCHANGED <<saved, inbox, grants, local>>

\* Nothing was saved: only the status is written.
ResumeFallback ==
  /\ pc[Rpc] = "resume" /\ pend[on[Rpc]] = "none"
  /\ Write(Rpc, "running")
  /\ Goto(Rpc, "idle")
  /\ UNCHANGED <<saved, inbox, grants, local>>

\* approval.submit: an approval that has a decision is left alone; the
\* decision is stored before anything is known about the task.
SubmitApproval(t, r, d) ==
  /\ approval[<<t, r>>] = "pending"
  /\ approval' = [approval EXCEPT ![<<t, r>>] = d]
  /\ Begin(t, "submitRead", r)
  /\ UNCHANGED <<latest, ran>>

SubmitRead ==
  /\ pc[Rpc] = "submitRead"
  /\ Goto(Rpc, "submit")
  /\ Read(Rpc)
  /\ copy' = [copy EXCEPT ![Rpc] = status[on[Rpc]]]
  /\ UNCHANGED <<status, saved, inbox, grants, on, origin, cur, drain, mark>>

\* Ended tasks ignore it, paused tasks defer it, and a known kind of approval
\* whose worker has not saved its state yet is ignored as legacy.
SubmitIgnored ==
  LET t == on[Rpc] r == cur[Rpc] IN
  /\ pc[Rpc] = "submit"
  /\ \/ snap[Rpc] \in Terminal \cup {"paused"}
     \/ pend[t] = "none" /\ r \notin OtherRequests
  /\ Goto(Rpc, "idle")
  /\ UNCHANGED <<status, saved, inbox, grants, local>>

\* An approval makes the pending call run; a plan's decision, either way,
\* becomes the call's result.
SubmitResumes ==
  LET t == on[Rpc] r == cur[Rpc] IN
  /\ pc[Rpc] = "submit" /\ snap[Rpc] \notin Terminal \cup {"paused"}
  /\ pend[t] # "none"
  /\ IF r \in PlanRequests /\ pend[t] = "plan"
       THEN Load(t, "coop", t \in asked)
       ELSE approval[<<t, r>>] = "approved" /\ Load(t, "approval", t \in asked)
  /\ UNCHANGED <<status, saved, inbox, grants, on, snap, copy, cur>>

\* A rejection of anything else fails the task.
SubmitRejects ==
  LET t == on[Rpc] r == cur[Rpc] IN
  /\ pc[Rpc] = "submit" /\ snap[Rpc] \notin Terminal \cup {"paused"}
  /\ pend[t] # "none"
  /\ ~(r \in PlanRequests /\ pend[t] = "plan")
  /\ approval[<<t, r>>] = "rejected"
  /\ Goto(Rpc, "fail")
  /\ UNCHANGED <<status, saved, inbox, grants, local>>

\* Another kind of approval without saved state: approved makes the task
\* running, and nothing resumes it.
SubmitOther ==
  LET t == on[Rpc] r == cur[Rpc] IN
  /\ pc[Rpc] = "submit" /\ snap[Rpc] \notin Terminal \cup {"paused"}
  /\ pend[t] = "none" /\ r \in OtherRequests
  /\ IF approval[<<t, r>>] = "approved" /\ snap[Rpc] # "running"
       THEN Write(Rpc, "running") ELSE UNCHANGED status
  /\ Goto(Rpc, "idle")
  /\ UNCHANGED <<saved, inbox, grants, local>>

\* _attach_supplemental_message: the inbox entry, and the status the handler
\* read is written back.  A task paused on a question is resumed at once.
SendSupplement(t) ==
  /\ status[t] \in Statuses \ Terminal
  /\ Begin(t, "supplement", Plain)
  /\ UNCHANGED grants

SupplementWrite ==
  LET t == on[Rpc] IN
  /\ pc[Rpc] = "supplement"
  /\ inbox' = inbox \cup {t}
  /\ Write(Rpc, snap[Rpc])
  /\ \/ Goto(Rpc, IF snap[Rpc] = "paused" /\ pend[t] # "none" /\ t \in asked
                  THEN "resumeRead" ELSE "idle")
     \/ Goto(Rpc, "converge")
  /\ UNCHANGED <<saved, grants, local>>

\* A request to wrap up or to change course writes the status once more.
SupplementConverge ==
  /\ pc[Rpc] = "converge"
  /\ Write(Rpc, snap[Rpc])
  /\ Goto(Rpc, "idle")
  /\ UNCHANGED <<saved, inbox, grants, local>>

AutoResume ==
  /\ pc[Rpc] = "resumeRead"
  /\ Goto(Rpc, IF "running" \in ValidTransitions[status[on[Rpc]]]
               THEN "resume" ELSE "idle")
  /\ Read(Rpc)
  /\ copy' = [copy EXCEPT ![Rpc] = status[on[Rpc]]]
  /\ UNCHANGED <<status, saved, inbox, grants, on, origin, cur, drain, mark>>

-----------------------------------------------------------------------------
\* The process dies and is started again: no thread survives, and
\* _cleanup_orphan_tasks fails the running tasks; all else is in the store.
Restart ==
  /\ pc' = [w \in Workers |-> "idle"]
  /\ status' = [t \in Tasks |-> IF status[t] = "running" THEN "failed" ELSE status[t]]
  /\ origin' = [w \in Workers |-> "message"]
  /\ snap' = [w \in Workers |-> "none"]
  /\ copy' = [w \in Workers |-> "none"]
  /\ cur' = [w \in Workers |-> Plain]
  /\ drain' = [w \in Workers |-> "no"]
  /\ mark' = {}
  /\ UNCHANGED <<saved, inbox, grants, on>>

-----------------------------------------------------------------------------
Loop(w) ==
  \/ Top(w) \/ SavePause(w) \/ ProviderError(w) \/ ProviderTurn(w) \/ Recover(w)
  \/ NextTool(w)
  \/ ExecTool(w, Plain) \/ ExecTool(w, Question)
  \/ \E r \in Requests : ExecApproved(w, r) \/ ExecGated(w, r)
  \/ Gate(w) \/ Fin(w) \/ Advance(w) \/ TurnEnd(w)
  \/ SaveGate(w) \/ PlanSave(w) \/ PlanWait(w)
  \/ Ask(w) \/ AskTool(w) \/ AskPause(w) \/ AskMark(w)
  \/ ExecPend(w) \/ PendFin(w) \/ DrainNext(w) \/ DrainFin(w) \/ DrainDone(w)
  \/ DrainHeld(w) \/ Complete(w) \/ Validate(w) \/ Finalize(w) \/ Fail(w) \/ FailWrite(w)

Request(t) ==
  \/ SendMessage(t) \/ SendBackgroundMessage(t)
  \/ CancelTask(t) \/ PauseTask(t) \/ ResumeTask(t) \/ SendSupplement(t)
  \/ \E r \in Requests, d \in {"approved", "rejected"} : SubmitApproval(t, r, d)

Handle ==
  \/ CancelWrite \/ PauseWrite
  \/ ResumeCooperative \/ ResumeQuestion \/ ResumeGated \/ ResumeFallback
  \/ Reenter \/ SubmitRead \/ SubmitIgnored \/ SubmitResumes \/ SubmitRejects \/ SubmitOther
  \/ SupplementWrite \/ SupplementConverge \/ AutoResume

Next ==
  \/ \E w \in Workers : Loop(w)
  \/ \E t \in Tasks : Request(t)
  \/ Handle
  \/ Restart

Spec == Init /\ [][Next]_vars

-----------------------------------------------------------------------------
(* Properties.                                                              *)

InLoop(w, t) == on[w] = t /\ pc[w] \in LoopPcs

\* One thread at a time runs a task's ReAct loop: a resume or an approval that
\* arrives while the background worker is in the loop never starts a second
\* copy of it on the RPC thread.
OneExecutor ==
  \A t \in Tasks : \A v, w \in Workers : InLoop(v, t) /\ InLoop(w, t) => v = w

\* Why a second executor cannot start: while a task's own thread is in the loop
\* nothing is saved for the task, which is what every resume and every decision
\* looks for, and the RPC thread neither runs nor ends the task.
LoopAlone ==
  \A t \in Tasks : pc[t] \in LoopPcs =>
    /\ pend[t] = "none"
    /\ on[Rpc] = t => pc[Rpc] \notin LoopPcs \cup ExitPcs \cup {"reenter"}

\* A tool that needs approval has run only if that very request was approved,
\* even when the decision belongs to an older request of the same task than
\* the call that is pending.
GatedToolApproved ==
  \A a \in ran : approval[a] = "approved"

\* The task has ended and no thread still works on what it read before: the
\* RPC thread may at most be busy ignoring a late decision.
Settled(t) ==
  /\ status[t] \in Terminal
  /\ \A w \in Workers : on[w] = t /\ pc[w] # "idle" =>
        w = Rpc /\ (pc[w] = "submitRead" \/ (pc[w] = "submit" /\ snap[w] \in Terminal))

\* Once a task has ended and its threads are done with it, no late approval,
\* resume, pause, supplement, cancel or restart changes its status again or
\* puts a thread to work on it.
SettledStays ==
  [][\A t \in Tasks : Settled(t) => Settled(t)' /\ status'[t] = status[t]]_vars

=============================================================================
