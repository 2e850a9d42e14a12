--------------------------- MODULE TaskRun_proofs ---------------------------
(* Proofs about TaskRun for every set of tasks and of requests.             *)
EXTENDS TaskRun, TLAPS

\* The literals the actions write; with this lemma the sets stay folded.
LEMMA Literals ==
  /\ {"idle", "top", "provider", "tools", "exec", "gate", "fin", "advance",
      "turnEnd", "drain", "drainHeld", "execPend", "pendFin", "savePause",
      "saveGate", "ask", "askTool", "askPause", "askMark", "planSave", "planWait",
      "complete", "validate", "finalize", "fail", "failWrite", "cancel", "pause",
      "resumeRead", "resume", "submitRead", "submit", "reenter", "supplement",
      "converge"} \subseteq Pcs
  /\ {"running", "paused", "waiting_approval", "completed", "failed",
      "cancelled", "none"} \subseteq Stored
  /\ {"none", "coop", "question", "gate", "plan"} \subseteq Kinds
  /\ {"message", "coop", "approval", "recover"} \subseteq Origins
  /\ {"no", "none", "more", "empty"} \subseteq Drains
  /\ {"none", "pending", "approved", "rejected"} \subseteq Decisions
  /\ Requests \subseteq Calls /\ NoReq \in Calls /\ Plain \in Calls /\ Question \in Calls
  /\ Tasks \subseteq Workers /\ Rpc \in Workers
  BY DEF Pcs, LoopPcs, ExitPcs, OpPcs, Stored, Statuses, Terminal, Kinds, Origins, Drains,
         Decisions, Calls, Workers

\* Where a result or a held-up call leads is a place of the thread.
LEMMA ResultPcs ==
  /\ \A o, res : AfterResult(o, res) \in Pcs
  /\ \A w \in Workers : HoldAt(w) \in Pcs
  BY Literals DEF AfterResult, HoldAt

\* What the building blocks of the actions do to the types.
LEMMA Helpers ==
  ASSUME TypeOK, NEW w \in Workers
  PROVE  /\ \A p \in Pcs : Goto(w, p) => pc' \in [Workers -> Pcs]
         /\ \A res : Result(w, res) => pc' \in [Workers -> Pcs]
         /\ \A res : Held(w, res) => pc' \in [Workers -> Pcs]
         /\ Raise(w) => pc' \in [Workers -> Pcs]
         /\ Read(w) => snap' \in [Workers -> Stored]
         /\ \A s \in Stored : Write(w, s) => status' \in [Tasks -> Stored]
         /\ ClearPending(w) => /\ pend' \in [Tasks -> Kinds]
                               /\ pendReq' = pendReq /\ rest' = rest /\ asked' = asked
         /\ \A k \in Kinds, c \in Calls : \A m, a :
              SavePending(w, k, c, m, a) =>
                /\ pend' \in [Tasks -> Kinds] /\ pendReq' \in [Tasks -> Calls]
                /\ rest' \subseteq Tasks /\ asked' \subseteq Tasks
<1>1. \A p \in Pcs : Goto(w, p) => pc' \in [Workers -> Pcs]
  BY DEF Goto, TypeOK
<1>2. \A res : Result(w, res) => pc' \in [Workers -> Pcs]
  BY <1>1, ResultPcs DEF Result
<1>3. Raise(w) => pc' \in [Workers -> Pcs]
  BY <1>1, Literals DEF Raise
<1>4. Read(w) => snap' \in [Workers -> Stored]
  BY DEF Read, TypeOK
<1>5. \A s \in Stored : Write(w, s) => status' \in [Tasks -> Stored]
  BY DEF Write, TypeOK
<1>6. ClearPending(w) => /\ pend' \in [Tasks -> Kinds]
                         /\ pendReq' = pendReq /\ rest' = rest /\ asked' = asked
  BY Literals DEF ClearPending, TypeOK
<1>7. ASSUME NEW k \in Kinds, NEW c \in Calls, NEW m, NEW a,
             SavePending(w, k, c, m, a)
      PROVE  /\ pend' \in [Tasks -> Kinds] /\ pendReq' \in [Tasks -> Calls]
             /\ rest' \subseteq Tasks /\ asked' \subseteq Tasks
  BY <1>7 DEF SavePending, Flag, TypeOK
<1>8. \A res : Held(w, res) => pc' \in [Workers -> Pcs]
  BY <1>1, <1>2, Literals DEF Held
<1> QED
  BY <1>1, <1>2, <1>3, <1>4, <1>5, <1>6, <1>7, <1>8

\* Every step of a thread in the loop, or on its way out, keeps the types.
LEMMA TypeLoop ==
  ASSUME TypeOK, NEW w \in Workers, Loop(w) PROVE TypeOK'
<1> USE TaskRunAssumption, Literals, ResultPcs, Helpers
<1>a. on[w] \in Tasks /\ pendReq[on[w]] \in Calls
  BY DEF TypeOK
<1>b. /\ NotCompleted(w) => pc' \in [Workers -> Pcs] /\ copy' \in [Workers -> Stored]
      /\ \A s \in Stored : EnterDrained(w, s) =>
            /\ pc' \in [Workers -> Pcs] /\ copy' \in [Workers -> Stored]
            /\ drain' \in [Workers -> Drains]
  <2>1. ASSUME NotCompleted(w)
        PROVE  pc' \in [Workers -> Pcs] /\ copy' \in [Workers -> Stored]
    BY <2>1 DEF NotCompleted, TypeOK
  <2>2. ASSUME NEW s \in Stored, EnterDrained(w, s)
        PROVE  /\ pc' \in [Workers -> Pcs] /\ copy' \in [Workers -> Stored]
               /\ drain' \in [Workers -> Drains]
    <3>1. pc' \in [Workers -> Pcs]
      BY <2>2 DEF EnterDrained
    <3>2. copy' \in [Workers -> Stored] /\ drain' \in [Workers -> Drains]
      BY <2>2 DEF EnterDrained, TypeOK
    <3> QED
      BY <3>1, <3>2
  <2> QED
    BY <2>1, <2>2
<1>1. CASE Top(w)
  BY <1>a, <1>1 DEF Top, TypeOK, saved, grants, local
<1>2. CASE SavePause(w)
  BY <1>a, <1>2 DEF SavePause, TypeOK, saved, grants, local
<1>3. CASE ProviderError(w)
  BY <1>a, <1>3 DEF ProviderError, TypeOK, saved, grants, local
<1>4. CASE ProviderTurn(w)
  BY <1>a, <1>4 DEF ProviderTurn, TypeOK, saved, grants, local
<1>5. CASE NextTool(w)
  BY <1>a, <1>5 DEF NextTool, TypeOK, saved, grants, local
<1>6. CASE Gate(w)
  <2>1. CASE Raise(w) /\ UNCHANGED <<status, snap>>
    BY <1>6, <2>1 DEF Gate, TypeOK, saved, grants, local
  <2>2. CASE /\ Write(w, "waiting_approval") /\ Goto(w, "fin")
             /\ snap' = [snap EXCEPT ![w] = "waiting_approval"]
    <3>1. status' \in [Tasks -> Stored] /\ pc' \in [Workers -> Pcs]
      BY <2>2
    <3>2. snap' \in [Workers -> Stored]
      BY <2>2 DEF TypeOK
    <3> QED
      BY <1>6, <2>2, <3>1, <3>2 DEF Gate, TypeOK, saved, grants, local
  <2> QED
    BY <1>6, <2>1, <2>2 DEF Gate
<1>7. CASE Fin(w)
  BY <1>a, <1>7 DEF Fin, TypeOK, saved, grants, local
<1>8. CASE TurnEnd(w)
  BY <1>a, <1>8 DEF TurnEnd, TypeOK, saved, grants, local
<1>9. CASE SaveGate(w)
  BY <1>a, <1>9 DEF SaveGate, TypeOK, saved, grants, local
<1>10. CASE PlanSave(w)
  BY <1>a, <1>10 DEF PlanSave, TypeOK, saved, grants, local
<1>11. CASE PlanWait(w)
  BY <1>a, <1>11 DEF PlanWait, TypeOK, saved, grants, local
<1>12. CASE Ask(w)
  BY <1>a, <1>12 DEF Ask, TypeOK, saved, grants, local
<1>13. CASE AskTool(w)
  BY <1>a, <1>13 DEF AskTool, TypeOK, saved, grants, local
<1>14. CASE AskPause(w)
  BY <1>a, <1>14 DEF AskPause, TypeOK, saved, grants, local
<1>15. CASE AskMark(w)
  BY <1>a, <1>15 DEF AskMark, TypeOK, saved, grants, local
<1>16. CASE ExecPend(w)
  <2>1. pc' \in [Workers -> Pcs]
    BY <1>16 DEF ExecPend
  <2>2. ran' \subseteq Tasks \X Requests
    BY <1>16, <1>a DEF ExecPend, TypeOK
  <2> QED
    BY <1>16, <2>1, <2>2 DEF ExecPend, TypeOK, saved, grants, local
<1>17. CASE PendFin(w)
  BY <1>a, <1>17 DEF PendFin, TypeOK, saved, grants, local
<1>18. CASE DrainNext(w)
  BY <1>a, <1>18 DEF DrainNext, TypeOK, saved, grants, local
<1>19. CASE DrainFin(w)
  <2>1. pc' \in [Workers -> Pcs]
    BY <1>19 DEF DrainFin
  <2>2. drain' \in [Workers -> Drains]
    <3>1. ASSUME NEW d \in Drains, drain' = [drain EXCEPT ![w] = d]
          PROVE  drain' \in [Workers -> Drains]
      BY <3>1 DEF TypeOK
    <3>2. drain' = drain \/ \E d \in Drains : drain' = [drain EXCEPT ![w] = d]
      BY <1>19, Zenon DEF DrainFin, Drains
    <3> QED
      BY <3>1, <3>2 DEF TypeOK
  <2> QED
    BY <1>19, <2>1, <2>2 DEF DrainFin, TypeOK, saved, grants, local
<1>20. CASE DrainDone(w)
  BY <1>a, <1>b, <1>20 DEF DrainDone, TypeOK, saved, grants, local
<1>21. CASE Complete(w)
  BY <1>a, <1>b, <1>21 DEF Complete, TypeOK, saved, grants, local
<1>22. CASE Finalize(w)
  BY <1>a, <1>b, <1>22 DEF Finalize, TypeOK, saved, grants, local
<1>23. CASE Fail(w)
  BY <1>a, <1>23 DEF Fail, TypeOK, saved, grants, local
<1>24. CASE FailWrite(w)
  BY <1>a, <1>24 DEF FailWrite, TypeOK, saved, grants, local
<1>25. ASSUME NEW x \in {Plain, Question}, ExecTool(w, x) PROVE TypeOK'
  BY <1>25 DEF ExecTool, TypeOK, saved, grants, local
<1>26. ASSUME NEW r \in Requests, ExecApproved(w, r) PROVE TypeOK'
  <2>1. pc' \in [Workers -> Pcs] /\ cur' \in [Workers -> Calls]
    BY <1>26 DEF ExecApproved, TypeOK
  <2>2. ran' \subseteq Tasks \X Requests
    BY <1>26, <1>a DEF ExecApproved, TypeOK
  <2> QED
    BY <1>26, <2>1, <2>2 DEF ExecApproved, TypeOK, saved, grants, local
<1>27. ASSUME NEW r \in Requests, ExecGated(w, r) PROVE TypeOK'
  <2>1. pc' \in [Workers -> Pcs] /\ cur' \in [Workers -> Calls]
    BY <1>27 DEF ExecGated, TypeOK
  <2>2. latest' \in [Tasks -> Requests \cup {NoReq}]
    BY <1>27, <1>a, ZenonT(40) DEF ExecGated, TypeOK
  <2>3. approval' \in [Tasks \X Requests -> Decisions]
    BY <1>27, <1>a, ZenonT(40) DEF ExecGated, TypeOK
  <2> QED
    BY <1>27, <2>1, <2>2, <2>3 DEF ExecGated, TypeOK, saved, grants, local
<1>28. CASE Recover(w)
  BY <1>a, <1>28 DEF Recover, TypeOK, saved, grants, local
<1>29. CASE Advance(w)
  <2>1. snap[w] \in Stored
    BY DEF TypeOK
  <2> QED
    BY <1>29, <2>1 DEF Advance, TypeOK, saved, grants, local
<1>30. CASE DrainHeld(w)
  BY <1>a, <1>b, <1>30 DEF DrainHeld, TypeOK, saved, grants, local
<1>31. CASE Validate(w)
  <2>1. copy[w] \in Stored /\ status[on[w]] \in Stored
    BY <1>a DEF TypeOK
  <2>2. PICK s \in {copy[w], status[on[w]]} :
          \/ NotCompleted(w)
          \/ Goto(w, "finalize") /\ copy' = [copy EXCEPT ![w] = s]
    BY <1>31, Zenon DEF Validate
  <2>3. pc' \in [Workers -> Pcs]
    BY <1>b, <2>2
  <2>4. copy' \in [Workers -> Stored]
    BY <1>b, <2>1, <2>2 DEF TypeOK
  <2> QED
    BY <1>31, <2>3, <2>4 DEF Validate, TypeOK, saved, grants, local
<1> QED
  BY <1>1, <1>2, <1>3, <1>4, <1>5, <1>6, <1>7, <1>8, <1>9, <1>10, <1>11, <1>12, <1>13, <1>14,
     <1>15, <1>16, <1>17, <1>18, <1>19, <1>20, <1>21, <1>22, <1>23, <1>24, <1>25, <1>26, <1>27,
     <1>28, <1>29, <1>30, <1>31 DEF Loop

\* So does every request, every handler's second half and a restart.
LEMMA TypeStep == TypeOK /\ [Next]_vars => TypeOK'
<1> SUFFICES ASSUME TypeOK, [Next]_vars PROVE TypeOK'
  OBVIOUS
<1> USE TaskRunAssumption, Literals
<1>1. ASSUME NEW w \in Workers, Loop(w) PROVE TypeOK'
  BY <1>1, TypeLoop
<1>2. ASSUME NEW t \in Tasks, Request(t) PROVE TypeOK'
  <2>1. CASE SendMessage(t)
    BY <2>1 DEF SendMessage, Enter, Goto, TypeOK, saved, grants
  <2>2. CASE SendBackgroundMessage(t)
    BY <2>2 DEF SendBackgroundMessage, Enter, Goto, TypeOK, saved, grants
  <2>3. ASSUME NEW p \in Pcs, NEW c \in Calls, Begin(t, p, c), UNCHANGED <<latest, ran>>,
               approval' \in [Tasks \X Requests -> Decisions]
        PROVE  TypeOK'
    BY <2>3 DEF Begin, TypeOK, saved
  <2>4. CASE CancelTask(t) \/ PauseTask(t) \/ ResumeTask(t) \/ SendSupplement(t)
    BY <2>3, <2>4 DEF CancelTask, PauseTask, ResumeTask, SendSupplement, grants, TypeOK
  <2>5. ASSUME NEW r \in Requests, NEW d \in {"approved", "rejected"}, SubmitApproval(t, r, d)
        PROVE  TypeOK'
    <3>1. approval' \in [Tasks \X Requests -> Decisions]
      BY <2>5 DEF SubmitApproval, TypeOK
    <3> QED
      BY <2>3, <2>5, <3>1 DEF SubmitApproval
  <2> QED
    BY <1>2, <2>1, <2>2, <2>4, <2>5 DEF Request
<1>3. CASE Handle
  <2> USE Helpers
  <2>a. on[Rpc] \in Tasks
    BY DEF TypeOK
  <2>b. \A t, o, a : o \in Origins /\ Load(t, o, a) =>
            /\ pc' \in [Workers -> Pcs] /\ origin' \in [Workers -> Origins]
            /\ drain' \in [Workers -> Drains] /\ mark' \subseteq Workers
    BY DEF Load, TypeOK, Flag
  <2>1. CASE CancelWrite
    BY <2>a, <2>b, <2>1 DEF CancelWrite, TypeOK, Flag, saved, grants, local
  <2>2. CASE PauseWrite
    BY <2>a, <2>b, <2>2 DEF PauseWrite, TypeOK, Flag, saved, grants, local
  <2>3. CASE ResumeCooperative
    BY <2>a, <2>b, <2>3 DEF ResumeCooperative, TypeOK, Flag, saved, grants, local
  <2>4. CASE ResumeQuestion
    <3>1. CASE Load(on[Rpc], "coop", FALSE) /\ cur' = [cur EXCEPT ![Rpc] = Question]
                 /\ UNCHANGED status
      <4>1. cur' \in [Workers -> Calls]
        BY <3>1 DEF TypeOK
      <4> QED
        BY <2>b, <2>4, <3>1, <4>1 DEF ResumeQuestion, TypeOK, saved, grants
    <3>2. CASE Write(Rpc, "paused") /\ Goto(Rpc, "idle") /\ UNCHANGED <<origin, cur, drain, mark>>
      BY <2>4, <3>2 DEF ResumeQuestion, TypeOK, saved, grants
    <3> QED
      BY <2>4, <3>1, <3>2 DEF ResumeQuestion
  <2>5. CASE ResumeGated
    <3>1. latest[on[Rpc]] \in Calls
      BY <2>a DEF TypeOK
    <3> QED
      BY <2>b, <2>5, <3>1 DEF ResumeGated, TypeOK, saved, grants, local
  <2>6. CASE ResumeFallback
    BY <2>a, <2>b, <2>6 DEF ResumeFallback, TypeOK, Flag, saved, grants, local
  <2>7. CASE SubmitIgnored
    BY <2>a, <2>b, <2>7 DEF SubmitIgnored, TypeOK, Flag, saved, grants, local
  <2>8. CASE SubmitResumes
    BY <2>b, <2>8 DEF SubmitResumes, TypeOK, saved, grants, local
  <2>9. CASE SubmitRejects
    BY <2>a, <2>b, <2>9 DEF SubmitRejects, TypeOK, Flag, saved, grants, local
  <2>10. CASE SubmitOther
    BY <2>a, <2>b, <2>10 DEF SubmitOther, TypeOK, Flag, saved, grants, local
  <2>11. CASE SupplementWrite
    BY <2>a, <2>b, <2>11 DEF SupplementWrite, TypeOK, Flag, saved, grants, local
  <2>12. CASE AutoResume
    BY <2>a, <2>b, <2>12 DEF AutoResume, TypeOK, Flag, saved, grants, local
  <2>13. CASE Reenter
    <3>1. /\ status' \in [Tasks -> Stored] /\ pc' \in [Workers -> Pcs]
          /\ snap' \in [Workers -> Stored] /\ copy' \in [Workers -> Stored]
      BY <2>13 DEF Reenter, TypeOK
    <3>2. /\ pend' \in [Tasks -> Kinds] /\ pendReq' \in [Tasks -> Calls]
          /\ rest' \subseteq Tasks /\ asked' \subseteq Tasks
      BY <2>13 DEF Reenter, TypeOK, saved
    <3> QED
      BY <2>13, <3>1, <3>2 DEF Reenter, TypeOK, grants
  <2>14. CASE SubmitRead
    BY <2>a, <2>14 DEF SubmitRead, TypeOK, saved, grants, local
  <2>15. CASE SupplementConverge
    <3>1. snap[Rpc] \in Stored
      BY DEF TypeOK
    <3> QED
      BY <2>15, <3>1 DEF SupplementConverge, TypeOK, saved, grants, local
  <2> QED
    BY <1>3, <2>1, <2>2, <2>3, <2>4, <2>5, <2>6, <2>7, <2>8, <2>9, <2>10, <2>11, <2>12, <2>13,
       <2>14, <2>15 DEF Handle
<1>4. CASE Restart
  BY <1>4 DEF Restart, TypeOK, saved, grants
<1>5. CASE UNCHANGED vars
  BY <1>5, SMTT(30) DEF vars, saved, grants, local, TypeOK
<1> QED
  BY <1>1, <1>2, <1>3, <1>4, <1>5 DEF Next

-----------------------------------------------------------------------------
(* What a step can touch.  The invariants below need only these summaries.  *)

\* A step of thread w in the loop or on its way out: it works on its own task
\* only, leads back into the loop only from a drain, and changes the saved state
\* only outside the loop or while it resumes; background threads do not
\* enter a drain.
LoopFrame(w) ==
  /\ pc[w] \in LoopPcs \cup ExitPcs
  /\ pc'[w] \in {"idle"} \cup LoopPcs \cup ExitPcs
  /\ pc[w] \in ExitPcs /\ drain[w] = "no" => pc'[w] \notin LoopPcs
  /\ on' = on
  /\ \A v \in Workers \ {w} : pc'[v] = pc[v] /\ snap'[v] = snap[v] /\ drain'[v] = drain[v]
  /\ \A t \in Tasks \ {on[w]} : status'[t] = status[t] /\ pend'[t] = pend[t]
  /\ \A t \in Tasks \ {on[w]}, r \in Requests : approval'[<<t, r>>] = approval[<<t, r>>]
  /\ \/ status'[on[w]] \in Statuses \cup {status[on[w]]}
     \/ pc[w] = "advance" /\ status'[on[w]] = snap[w]
  /\ pc'[w] = "advance" => snap'[w] = status[on[w]]
  /\ pend' # pend => pc[w] \in ExitPcs \cup {"drain", "pendFin"}
  /\ drain[w] = "no" /\ pc[w] \notin {"drain", "drainHeld", "execPend", "pendFin"}
       => drain'[w] = "no" /\ pc'[w] \notin {"drain", "drainHeld", "execPend", "pendFin"}

\* Every step of the loop stays inside its frame.
LEMMA LoopFramed ==
  ASSUME TypeOK, NEW w \in Workers, Loop(w) PROVE LoopFrame(w)
<1>a. on[w] \in Tasks
  BY DEF TypeOK
<1> USE <1>a DEF TypeOK, LoopFrame, LoopPcs, ExitPcs, Statuses, Terminal, Goto, Read, Write,
      saved, grants, local
<1>1. CASE Top(w)
  BY <1>1 DEF Top, Result, AfterResult
<1>2. CASE SavePause(w)
  BY <1>2 DEF SavePause, Result, AfterResult, SavePending
<1>3. CASE ProviderError(w)
  BY <1>3 DEF ProviderError, Result, AfterResult, Raise
<1>4. CASE ProviderTurn(w)
  BY <1>4 DEF ProviderTurn, Result, AfterResult, Raise
<1>5. CASE NextTool(w)
  BY <1>5 DEF NextTool, Result, AfterResult
<1>6. CASE Gate(w)
  BY <1>6 DEF Gate, Raise
<1>7. CASE Fin(w)
  BY <1>7 DEF Fin, Result, AfterResult, Raise, HoldAt
<1>8. CASE TurnEnd(w)
  BY <1>8 DEF TurnEnd
<1>9. CASE SaveGate(w)
  BY <1>9 DEF SaveGate, Result, AfterResult, SavePending
<1>10. CASE PlanSave(w)
  BY <1>10 DEF PlanSave, SavePending
<1>11. CASE PlanWait(w)
  BY <1>11 DEF PlanWait, Held, Result, AfterResult, Raise
<1>12. CASE Ask(w)
  BY <1>12 DEF Ask, SavePending
<1>13. CASE AskTool(w)
  BY <1>13 DEF AskTool, SavePending
<1>14. CASE AskPause(w)
  BY <1>14 DEF AskPause
<1>15. CASE AskMark(w)
  BY <1>15, ZenonT(40) DEF AskMark, Held, Result, AfterResult, SavePending
<1>16. CASE ExecPend(w)
  BY <1>16 DEF ExecPend
<1>17. CASE PendFin(w)
  BY <1>17 DEF PendFin, SavePending
<1>18. CASE DrainNext(w)
  BY <1>18 DEF DrainNext
<1>19. CASE DrainFin(w)
  BY <1>19 DEF DrainFin, HoldAt
<1>20. CASE DrainDone(w)
  BY <1>20 DEF DrainDone, EnterDrained, SavePending
<1>21. CASE Complete(w)
  BY <1>21 DEF Complete, NotCompleted
<1>22. CASE Finalize(w)
  BY <1>22 DEF Finalize, NotCompleted, ClearPending
<1>23. CASE Fail(w)
  BY <1>23 DEF Fail
<1>24. CASE FailWrite(w)
  BY <1>24 DEF FailWrite, ClearPending
<1>25. ASSUME NEW x \in {Plain, Question}, ExecTool(w, x) PROVE LoopFrame(w)
  BY <1>25 DEF ExecTool
<1>26. ASSUME NEW r \in Requests, ExecApproved(w, r) \/ ExecGated(w, r) PROVE LoopFrame(w)
  BY <1>26 DEF ExecApproved, ExecGated
<1>27. CASE Recover(w)
  BY <1>27 DEF Recover
<1>28. CASE Advance(w)
  BY <1>28 DEF Advance
<1>29. CASE DrainHeld(w)
  BY <1>29 DEF DrainHeld, EnterDrained
<1>30. CASE Validate(w)
  BY <1>30 DEF Validate, NotCompleted
<1> QED
  BY <1>1, <1>2, <1>3, <1>4, <1>5, <1>6, <1>7, <1>8, <1>9, <1>10, <1>11, <1>12, <1>13, <1>14,
     <1>15, <1>16, <1>17, <1>18, <1>19, <1>20, <1>21, <1>22, <1>23, <1>24, <1>25, <1>26, <1>27,
     <1>28, <1>29, <1>30 DEF Loop

\* A later step of a request handler: the thread starts to work on the task only
\* when there is saved state, and only what was loaded is saved again.
HandleFrame ==
  /\ pc[Rpc] \in OpPcs
  /\ pc'[Rpc] # "supplement"
  /\ pc'[Rpc] = "converge" => pc[Rpc] = "supplement" /\ snap'[Rpc] = snap[Rpc]
  /\ pc'[Rpc] # "advance"
  /\ pc'[Rpc] \in LoopPcs \cup ExitPcs \cup {"reenter"}
       => pend[on[Rpc]] # "none" \/ pc[Rpc] = "reenter"
  /\ on' = on /\ approval' = approval
  /\ \A v \in Workers \ {Rpc} : pc'[v] = pc[v] /\ snap'[v] = snap[v] /\ drain'[v] = drain[v]
  /\ \A t \in Tasks \ {on[Rpc]} : status'[t] = status[t] /\ pend'[t] = pend[t]
  /\ \/ status'[on[Rpc]] \in Statuses \cup {status[on[Rpc]]}
     \/ pc[Rpc] \in {"supplement", "converge"} /\ status'[on[Rpc]] = snap[Rpc]
  /\ pend'[on[Rpc]] # "none" => pend[on[Rpc]] # "none" \/ pc[Rpc] = "reenter"
  /\ pc[Rpc] = "submitRead"
       => pc'[Rpc] = "submit" /\ snap'[Rpc] = status[on[Rpc]] /\ status' = status
  /\ pc[Rpc] = "submit" /\ snap[Rpc] \in Terminal => pc'[Rpc] = "idle" /\ status' = status

\* Every handler stays inside its frame.
LEMMA HandleFramed == ASSUME TypeOK, Handle PROVE HandleFrame
<1>a. Rpc \in Workers /\ on[Rpc] \in Tasks
  BY DEF TypeOK, Workers
<1> USE <1>a DEF TypeOK, HandleFrame, LoopPcs, ExitPcs, OpPcs, Statuses, Terminal, Goto,
      Write, saved, grants, local
<1>1. CASE CancelWrite
  BY <1>1 DEF CancelWrite, ClearPending
<1>2. CASE PauseWrite
  BY <1>2 DEF PauseWrite
<1>3. CASE ResumeCooperative
  BY <1>3 DEF ResumeCooperative, Load
<1>4. CASE ResumeQuestion
  BY <1>4, ZenonT(40) DEF ResumeQuestion, Load
<1>5. CASE ResumeGated
  BY <1>5 DEF ResumeGated, Load
<1>6. CASE ResumeFallback
  BY <1>6 DEF ResumeFallback
<1>7. CASE SubmitIgnored
  BY <1>7 DEF SubmitIgnored
<1>8. CASE SubmitResumes
  BY <1>8 DEF SubmitResumes, Load
<1>9. CASE SubmitRejects
  BY <1>9 DEF SubmitRejects
<1>10. CASE SubmitOther
  BY <1>10 DEF SubmitOther
<1>11. CASE SupplementWrite
  BY <1>11 DEF SupplementWrite
<1>12. CASE AutoResume
  BY <1>12 DEF AutoResume, Read
<1>13. CASE Reenter
  BY <1>13 DEF Reenter, SavePending
<1>14. CASE SubmitRead
  BY <1>14 DEF SubmitRead, Read
<1>15. CASE SupplementConverge
  BY <1>15 DEF SupplementConverge
<1> QED
  BY <1>1, <1>2, <1>3, <1>4, <1>5, <1>6, <1>7, <1>8, <1>9, <1>10, <1>11, <1>12, <1>13, <1>14,
     <1>15 DEF Handle

-----------------------------------------------------------------------------
(* One executor: the inductive invariant and its parts.                     *)

\* A task nobody has sent has no thread, no saved state and no approval, and its
\* status is in no record that a thread writes back.
Started ==
  /\ \A w \in Workers : pc[w] # "idle" => status[on[w]] # "none"
  /\ \A t \in Tasks : status[t] = "none" =>
       pend[t] = "none" /\ \A r \in Requests : approval[<<t, r>>] = "none"
  /\ \A w \in Workers : pc[w] \in {"advance", "supplement", "converge"} => snap[w] # "none"

\* Only the RPC thread resumes: a task's own thread neither handles requests
\* nor drains the calls of an earlier turn.
OwnThread ==
  \A t \in Tasks :
    drain[t] = "no" /\ pc[t] \notin {"drain", "drainHeld", "execPend", "pendFin"} \cup OpPcs

IInv == TypeOK /\ Started /\ OwnThread /\ LoopAlone

\* A thread's own step keeps the invariant.
LEMMA InvLoop ==
  ASSUME IInv, NEW w \in Workers, Loop(w) PROVE (Started /\ OwnThread /\ LoopAlone)'
<1>1. LoopFrame(w) /\ TypeOK
  BY LoopFramed DEF IInv
<1>2. on[w] \in Tasks /\ "none" \notin Statuses /\ Rpc \in Workers /\ Tasks \subseteq Workers
  BY <1>1 DEF TypeOK, Statuses, Terminal, Workers
<1>3. Started'
  <2>1. status[on[w]] # "none" /\ status'[on[w]] # "none"
    BY <1>1, <1>2 DEF IInv, Started, LoopFrame, LoopPcs, ExitPcs
  <2>2. \A t \in Tasks : status'[t] = "none" =>
          pend'[t] = "none" /\ \A r \in Requests : approval'[<<t, r>>] = "none"
    BY <1>1, <2>1 DEF IInv, Started, LoopFrame
  <2>3. \A v \in Workers : pc'[v] # "idle" => status'[on'[v]] # "none"
    BY <1>1, <2>1 DEF IInv, Started, LoopFrame, TypeOK
  <2>4. \A v \in Workers :
          pc'[v] \in {"advance", "supplement", "converge"} => snap'[v] # "none"
    BY <1>1, <1>2, <2>1 DEF IInv, Started, LoopFrame, LoopPcs, ExitPcs
  <2> QED
    BY <2>2, <2>3, <2>4 DEF Started
<1>4. OwnThread'
  BY <1>1, <1>2 DEF IInv, OwnThread, LoopFrame, LoopPcs, ExitPcs, OpPcs
<1>5. LoopAlone'
  <2> SUFFICES ASSUME NEW t \in Tasks, pc'[t] \in LoopPcs
               PROVE  /\ pend'[t] = "none"
                      /\ on[Rpc] = t => pc'[Rpc] \notin LoopPcs \cup ExitPcs \cup {"reenter"}
    BY <1>1 DEF LoopAlone, LoopFrame
  <2>1. pc[t] \in LoopPcs
    BY <1>1, <1>2 DEF LoopFrame, IInv, OwnThread, LoopPcs
  <2>2. /\ pend[t] = "none"
        /\ on[Rpc] = t => pc[Rpc] \notin LoopPcs \cup ExitPcs \cup {"reenter"}
    BY <2>1 DEF IInv, LoopAlone
  <2>3. CASE w = t
    BY <1>1, <1>2, <2>1, <2>2, <2>3, TaskRunAssumption DEF IInv, OwnThread, LoopFrame,
       ExitPcs, LoopPcs
  <2>4. CASE w # t
    <3>1. on[w] # t
      BY <1>1, <2>2, <2>4 DEF LoopFrame, Workers, TypeOK
    <3> QED
      BY <1>1, <1>2, <2>2, <2>4, <3>1 DEF LoopFrame
  <2> QED
    BY <2>3, <2>4
<1> QED
  BY <1>3, <1>4, <1>5

\* So does a handler.
LEMMA InvHandle ==
  ASSUME IInv, Handle PROVE (Started /\ OwnThread /\ LoopAlone)'
<1>1. HandleFrame /\ TypeOK
  BY HandleFramed DEF IInv
<1>2. /\ on[Rpc] \in Tasks /\ "none" \notin Statuses /\ Rpc \in Workers
      /\ Tasks \subseteq Workers \ {Rpc}
  BY <1>1, TaskRunAssumption DEF TypeOK, Statuses, Terminal, Workers
<1>3. Started'
  <2>1. status[on[Rpc]] # "none" /\ status'[on[Rpc]] # "none"
    BY <1>1, <1>2 DEF IInv, Started, HandleFrame, OpPcs
  <2>2. \A t \in Tasks : status'[t] = "none" =>
          pend'[t] = "none" /\ \A r \in Requests : approval'[<<t, r>>] = "none"
    BY <1>1, <2>1 DEF IInv, Started, HandleFrame
  <2>3. \A v \in Workers : pc'[v] # "idle" => status'[on'[v]] # "none"
    BY <1>1, <2>1 DEF IInv, Started, HandleFrame, TypeOK
  <2>4. \A v \in Workers :
          pc'[v] \in {"advance", "supplement", "converge"} => snap'[v] # "none"
    BY <1>1, <1>2 DEF IInv, Started, HandleFrame
  <2> QED
    BY <2>2, <2>3, <2>4 DEF Started
<1>4. OwnThread'
  BY <1>1, <1>2 DEF IInv, OwnThread, HandleFrame
<1>5. LoopAlone'
  <2> SUFFICES ASSUME NEW t \in Tasks, pc'[t] \in LoopPcs
               PROVE  /\ pend'[t] = "none"
                      /\ on[Rpc] = t => pc'[Rpc] \notin LoopPcs \cup ExitPcs \cup {"reenter"}
    BY <1>1 DEF LoopAlone, HandleFrame
  <2>1. /\ pc[t] \in LoopPcs /\ pend[t] = "none"
        /\ on[Rpc] = t => pc[Rpc] # "reenter"
    BY <1>1, <1>2 DEF HandleFrame, IInv, LoopAlone
  <2> QED
    BY <1>1, <2>1 DEF HandleFrame
<1> QED
  BY <1>3, <1>4, <1>5

\* And so does a new request, which can only start a thread on a fresh task.
LEMMA InvRequest ==
  ASSUME IInv, NEW t \in Tasks, Request(t) PROVE (Started /\ OwnThread /\ LoopAlone)'
<1>1. /\ TypeOK /\ Rpc \in Workers /\ Tasks \subseteq Workers /\ Rpc \notin Tasks
      /\ "none" \notin Statuses
  BY TaskRunAssumption DEF IInv, Workers, Statuses, Terminal
<1>2. ASSUME NEW w \in {t, Rpc}, pc[Rpc] = "idle", Enter(w, t)
      PROVE  (Started /\ OwnThread /\ LoopAlone)'
  <2>1. pend[t] = "none" /\ pc[t] = "idle"
    BY <1>1, <1>2 DEF Enter, IInv, Started, TypeOK
  <2>2. Started'
    BY <1>1, <1>2, <2>1 DEF Enter, IInv, Started, TypeOK, Goto, saved, grants
  <2>3. OwnThread'
    BY <1>1, <1>2, <2>1 DEF Enter, IInv, OwnThread, TypeOK, Goto, OpPcs
  <2>4. LoopAlone'
    BY <1>1, <1>2, <2>1 DEF Enter, IInv, LoopAlone, TypeOK, Goto, saved, LoopPcs, ExitPcs
  <2> QED
    BY <2>2, <2>3, <2>4
<1>3. ASSUME NEW p \in OpPcs \ {"reenter"}, NEW c, Begin(t, p, c), status[t] # "none",
             \A u \in Tasks, r \in Requests : u # t => approval'[<<u, r>>] = approval[<<u, r>>]
      PROVE  (Started /\ OwnThread /\ LoopAlone)'
  <2>1. Started'
    BY <1>1, <1>3 DEF Begin, IInv, Started, TypeOK, saved
  <2>2. OwnThread'
    BY <1>1, <1>3 DEF Begin, IInv, OwnThread, TypeOK
  <2>3. LoopAlone'
    BY <1>1, <1>3 DEF Begin, IInv, LoopAlone, TypeOK, saved, LoopPcs, ExitPcs, OpPcs
  <2> QED
    BY <2>1, <2>2, <2>3
<1>4. CASE SendMessage(t) \/ SendBackgroundMessage(t)
  BY <1>2, <1>4 DEF SendMessage, SendBackgroundMessage
<1>5. CASE CancelTask(t) \/ PauseTask(t) \/ ResumeTask(t) \/ SendSupplement(t)
  BY <1>1, <1>3, <1>5 DEF CancelTask, PauseTask, ResumeTask, SendSupplement, grants, OpPcs
<1>6. ASSUME NEW r \in Requests, NEW d \in {"approved", "rejected"}, SubmitApproval(t, r, d)
      PROVE  (Started /\ OwnThread /\ LoopAlone)'
  <2>1. status[t] # "none"
    BY <1>6 DEF SubmitApproval, IInv, Started
  <2>2. \A u \in Tasks, q \in Requests : u # t => approval'[<<u, q>>] = approval[<<u, q>>]
    BY <1>1, <1>6 DEF SubmitApproval, TypeOK
  <2>3. Begin(t, "submitRead", r) /\ "submitRead" \in OpPcs
    BY <1>6 DEF SubmitApproval, OpPcs
  <2> QED
    BY <1>3, <2>1, <2>2, <2>3
<1> QED
  BY <1>4, <1>5, <1>6 DEF Request

\* Every step keeps the invariant.
LEMMA InvStep == IInv /\ [Next]_vars => IInv'
<1> SUFFICES ASSUME IInv, [Next]_vars PROVE (Started /\ OwnThread /\ LoopAlone)'
  BY TypeStep DEF IInv
<1>1. CASE Restart
  BY <1>1, Literals DEF Restart, IInv, TypeOK, Started, OwnThread, LoopAlone, LoopPcs, OpPcs,
     saved, grants
<1>2. CASE UNCHANGED vars
  BY <1>2 DEF vars, saved, grants, local, IInv, Started, OwnThread, LoopAlone
<1> QED
  BY <1>1, <1>2, InvLoop, InvHandle, InvRequest DEF Next

\* The initial state satisfies the invariant.
LEMMA InvInit == Init => IInv
<1> SUFFICES ASSUME Init PROVE IInv
  OBVIOUS
<1> USE TaskRunAssumption, Literals
<1>1. TypeOK
  BY DEF Init, TypeOK, Workers
<1>2. Started /\ OwnThread /\ LoopAlone
  BY DEF Init, Started, OwnThread, LoopAlone, LoopPcs, OpPcs
<1> QED
  BY <1>1, <1>2 DEF IInv

\* The type invariant holds for any number of tasks and requests.
THEOREM TypeCorrect == Spec => []TypeOK
<1>1. IInv => TypeOK
  BY DEF IInv
<1> QED
  BY InvInit, InvStep, <1>1, PTL DEF Spec

\* While a task's background thread is in the ReAct loop nothing is saved for
\* the task, so no resume_task and no submit_approval starts on it.
THEOREM LoopAloneHolds == Spec => []LoopAlone
<1>1. IInv => LoopAlone
  BY DEF IInv
<1> QED
  BY InvInit, InvStep, <1>1, PTL DEF Spec

\* At most one thread is in _run_react_loop for a task, however requests,
\* decisions, restarts and the task's own thread interleave.
THEOREM OneExecutorHolds == Spec => []OneExecutor
<1>1. IInv => OneExecutor
  BY DEF IInv, TypeOK, LoopAlone, OneExecutor, InLoop, Workers
<1> QED
  BY InvInit, InvStep, <1>1, PTL DEF Spec

-----------------------------------------------------------------------------
(* Approval-gated tools.                                                    *)

\* Only these steps create, decide or use an approval.
LEMMA GrantSteps ==
  ASSUME [Next]_vars
  PROVE  \/ UNCHANGED grants
         \/ \E w \in Workers : \/ ExecPend(w)
                              \/ \E r \in Requests : ExecApproved(w, r) \/ ExecGated(w, r)
         \/ \E t \in Tasks, r \in Requests, d \in {"approved", "rejected"} :
              SubmitApproval(t, r, d)
<1>1. ASSUME NEW w \in Workers, Loop(w), ~ExecPend(w),
             \A r \in Requests : ~ExecApproved(w, r) /\ ~ExecGated(w, r)
      PROVE  UNCHANGED grants
  BY <1>1 DEF Loop, Top, SavePause, ProviderError, ProviderTurn, Recover, NextTool, ExecTool,
     Gate, Fin, Advance, TurnEnd, SaveGate, PlanSave, PlanWait, Ask, AskTool, AskPause,
     AskMark, PendFin, DrainNext, DrainFin, DrainDone, DrainHeld, Complete, Validate, Finalize,
     Fail, FailWrite
<1>2. ASSUME NEW t \in Tasks, Request(t),
             \A r \in Requests, d \in {"approved", "rejected"} : ~SubmitApproval(t, r, d)
      PROVE  UNCHANGED grants
  BY <1>2 DEF Request, SendMessage, SendBackgroundMessage, Enter, CancelTask, PauseTask,
     ResumeTask, SendSupplement
<1>3. Handle => UNCHANGED grants
  BY DEF Handle, CancelWrite, PauseWrite, ResumeCooperative, ResumeQuestion, ResumeGated,
     ResumeFallback, Reenter, SubmitRead, SubmitIgnored, SubmitResumes, SubmitRejects,
     SubmitOther, SupplementWrite, SupplementConverge, AutoResume
<1>4. Restart \/ UNCHANGED vars => UNCHANGED grants
  BY DEF Restart, vars
<1> QED
  BY <1>1, <1>2, <1>3, <1>4 DEF Next

\* A step keeps gated tools approved.
LEMMA GatedStep == TypeOK /\ GatedToolApproved /\ [Next]_vars => GatedToolApproved'
<1> SUFFICES ASSUME TypeOK, GatedToolApproved, [Next]_vars PROVE GatedToolApproved'
  OBVIOUS
<1> USE DEF TypeOK, GatedToolApproved
<1>1. CASE UNCHANGED grants
  BY <1>1 DEF grants
<1>2. ASSUME NEW w \in Workers, ExecPend(w) PROVE GatedToolApproved'
  BY <1>2 DEF ExecPend
<1>3. ASSUME NEW w \in Workers, NEW r \in Requests, ExecApproved(w, r) PROVE GatedToolApproved'
  BY <1>3 DEF ExecApproved
<1>4. ASSUME NEW w \in Workers, NEW r \in Requests, ExecGated(w, r) PROVE GatedToolApproved'
  BY <1>4 DEF ExecGated
<1>5. ASSUME NEW t \in Tasks, NEW r \in Requests, NEW d \in {"approved", "rejected"},
             SubmitApproval(t, r, d)
      PROVE  GatedToolApproved'
  BY <1>5 DEF SubmitApproval
<1> QED
  BY <1>1, <1>2, <1>3, <1>4, <1>5, GrantSteps

\* A gated tool that has run was approved under that very request, across
\* resumes, reissued requests, late decisions and restarts.
THEOREM GatedToolApprovedHolds == Spec => []GatedToolApproved
<1>1. Init => GatedToolApproved
  BY DEF Init, GatedToolApproved
<1> QED
  BY <1>1, GatedStep, TypeCorrect, PTL DEF Spec

-----------------------------------------------------------------------------
(* Ended tasks.                                                             *)

\* A step keeps a settled task settled.
LEMMA SettledStep ==
  ASSUME TypeOK, [Next]_vars, NEW t \in Tasks, Settled(t)
  PROVE  Settled(t)' /\ status'[t] = status[t]
<1>1. /\ Rpc \in Workers /\ status[t] \in Terminal
      /\ {"idle", "submitRead", "submit"} \cap (LoopPcs \cup ExitPcs) = {}
      /\ status[t] \notin {"none", "running"}
  BY DEF Workers, Settled, LoopPcs, ExitPcs, Terminal
<1>2. ASSUME NEW w \in Workers, Loop(w) PROVE Settled(t)' /\ status'[t] = status[t]
  <2>1. LoopFrame(w)
    BY <1>2, LoopFramed
  <2>2. on[w] # t
    BY <1>1, <2>1 DEF LoopFrame, Settled
  <2> QED
    BY <1>1, <2>1, <2>2 DEF LoopFrame, Settled
<1>3. CASE Handle
  <2>1. HandleFrame
    BY <1>3, HandleFramed
  <2>2. CASE on[Rpc] # t
    BY <1>1, <2>1, <2>2 DEF HandleFrame, Settled
  <2>3. CASE on[Rpc] = t
    BY <1>1, <2>1, <2>3 DEF HandleFrame, Settled, OpPcs
  <2> QED
    BY <2>2, <2>3
<1>4. ASSUME NEW u \in Tasks, Request(u) PROVE Settled(t)' /\ status'[t] = status[t]
  <2>1. CASE SendMessage(u) \/ SendBackgroundMessage(u)
    BY <1>1, <2>1 DEF SendMessage, SendBackgroundMessage, Enter, Goto, TypeOK, Settled, Workers
  <2>2. ASSUME NEW p, NEW c, Begin(u, p, c), u = t => p = "submitRead"
        PROVE  Settled(t)' /\ status'[t] = status[t]
    BY <1>1, <2>2 DEF Begin, TypeOK, Settled
  <2>3. CASE CancelTask(u) \/ PauseTask(u) \/ ResumeTask(u) \/ SendSupplement(u)
    <3>1. u # t
      BY <1>1, <2>3 DEF CancelTask, PauseTask, ResumeTask, SendSupplement, ValidTransitions,
         Terminal, Statuses, Stored
    <3> QED
      BY <2>2, <2>3, <3>1 DEF CancelTask, PauseTask, ResumeTask, SendSupplement
  <2>4. ASSUME NEW r \in Requests, NEW d \in {"approved", "rejected"}, SubmitApproval(u, r, d)
        PROVE  Settled(t)' /\ status'[t] = status[t]
    BY <2>2, <2>4 DEF SubmitApproval
  <2> QED
    BY <1>4, <2>1, <2>3, <2>4 DEF Request
<1>5. CASE Restart
  BY <1>1, <1>5 DEF Restart, Settled, TypeOK
<1>6. CASE UNCHANGED vars
  BY <1>6 DEF vars, local, Settled
<1> QED
  BY <1>2, <1>3, <1>4, <1>5, <1>6 DEF Next

\* Once a task has ended and no thread works on it, nothing changes its status
\* or puts a thread to work on it again.
THEOREM SettledStaysHolds == Spec => SettledStays
<1>1. TypeOK /\ [Next]_vars
        => [\A t \in Tasks : Settled(t) => Settled(t)' /\ status'[t] = status[t]]_vars
  BY SettledStep
<1> QED
  BY <1>1, TypeCorrect, PTL DEF Spec, SettledStays
=============================================================================
