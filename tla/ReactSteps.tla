----------------------------- MODULE ReactSteps -----------------------------
(***************************************************************************)
(* The turns of one task's ReAct loop and what happens to the calls of a   *)
(* turn: orchestrator/react_runner.py (_run_react_loop_inner) and the two  *)
(* ways back in, orchestrator/react_resume.py and resume_flow.py.          *)
(*                                                                         *)
(* A turn resolves the offered tools (module TurnPolicy), asks the model,  *)
(* and handles the calls of the answer in order: blocked by plan mode,     *)
(* blocked because not offered, a question answered by default, a file     *)
(* read served from the cache, a run of concurrency-safe reads executed    *)
(* together, or one call executed.  A call that needs the user parks the   *)
(* loop with the calls that are left; the way back drains them without     *)
(* these checks and starts a new loop.  Cancellation and pausing from      *)
(* outside are in module TaskRun.                                          *)
(***************************************************************************)
EXTENDS TurnPolicy, Sequences, FiniteSetsExt

CONSTANTS
  Policies,      \* the policies a task may run under
  MaxTaskSteps,  \* the step budget the task starts with
  MaxRepairs,    \* maxPatchRepairAttempts
  MaxBatch,      \* bound: calls of one turn
  MaxResumes     \* bound: times the loop is resumed

ASSUME ReactStepsAssumption ==
  /\ Policies \subseteq PolicyType
  /\ MaxTaskSteps \in Nat \ {0} /\ MaxRepairs \in Nat
  /\ MaxBatch \in Nat \ {0} /\ MaxResumes \in Nat

VARIABLES
  policy,    \* the task's policy
  pc,        \* "top", "call", "drain", "parked" or "ended"
  via,       \* how this loop was entered: "message", "answer" or "approval"
  steps,     \* turns taken
  limit,     \* max_steps of the loop, or of the context it is parked with
  plan,      \* context._plan_mode
  asked,     \* context._pending_user_question
  offered,   \* the tools offered in this turn
  left,      \* calls of this turn not handled yet
  results,   \* the summary of tool_results
  cache,     \* read_file_cache: no copy of the file, a fresh one or a stale one
  repairs,   \* patch_repair_attempts
  parked,    \* what the parked loop waits for
  pending,   \* pending_tool_spec: the call to run again after the approval
  outcome,   \* what became of the task when the loop ended
  resumes,   \* how often the loop was resumed
  last,      \* the last call executed in this turn: what it was, by whom, in plan mode or not
  budget,    \* routing.mainWorkflow: the stored pressure and why
  children   \* children of this loop's own turns that came back with a result

vars == <<policy, pc, via, steps, limit, plan, asked, offered, left, results, cache,
          repairs, parked, pending, outcome, resumes, last, budget, children>>
turnVars == <<policy, via, steps, limit, offered, resumes>>

NoCopy == "none"
Nothing == [did |-> "nothing", by |-> "loop", plan |-> FALSE]
Did(t, by) ==
  [did |-> CASE t \in Writes -> "write"
             [] t \in Subagents \cup Continuations \cup MCP -> "effect"
             [] OTHER -> "nothing",
   by |-> by, plan |-> plan]
ParallelReads == {"read_file", "git_status", "web_fetch"}
PlanModeTools == Reads \cup {"exit_plan_mode"}

Init ==
  /\ policy \in Policies
  /\ pc = "top" /\ via = "message" /\ steps = 0 /\ limit = MaxTaskSteps
  /\ plan = FALSE /\ asked = FALSE /\ offered = {} /\ left = 0
  /\ results = NoResults /\ cache = NoCopy /\ repairs = 0
  /\ parked = "no" /\ pending = "none" /\ outcome = "none"
  /\ resumes = 0 /\ last = Nothing /\ children = 0
  /\ budget = [pressure |-> "normal", reason |-> "within_budget"]

\* The loop returned: a failed loop fails the task when a message started it,
\* completes it when an answer resumed it, and is ignored after an approval.
Leave(result) ==
  /\ pc' = "ended"
  /\ outcome' = CASE result \in {"completed", "raised"} -> result
                  [] OTHER -> CASE via = "message" -> "failed"
                                [] via = "answer" -> "completed anyway"
                                [] OTHER -> "running"

Park(reason, tool) ==
  /\ pc' = "parked" /\ parked' = reason /\ pending' = tool

----------------------------------------------------------------------------
(* The top of a turn. *)

\* The steps that are added to a budget of n, and the budget the loop is parked
\* with when it is used up.
Grant(n) == Max({3, Min({10, n})})
Extended == Max({limit, steps}) + Grant(limit)

\* The pressure on a budget of max steps after n of them.
Pressure(n, max) ==
  IF n >= max THEN "exhausted"
  ELSE IF 100 * n >= 85 * max \/ max - n <= 1 THEN "critical"
  ELSE IF 100 * n >= 65 * max \/ max - n <= 2 THEN "watch"
  ELSE "normal"

\* What a turn stores; the reason of an exhausted budget is never taken back.
Progress(done) ==
  LET used == Pressure(steps + 1, limit)
      p == IF done /\ used = "exhausted" THEN "critical" ELSE used
  IN  [pressure |-> p,
       reason |-> CASE budget.reason = "max_steps_exhausted" -> budget.reason
                    [] OTHER -> CASE p = "critical" -> "step_budget_critical"
                                  [] p = "watch" -> "budget_watch"
                                  [] OTHER -> "within_budget"]

\* Out of steps: failed if every call failed, otherwise the user is asked, with
\* the larger budget already in the context the loop is parked with.
Converge ==
  /\ pc = "top" /\ steps >= limit
  /\ IF results.any /\ ~results.good
       THEN Leave("failed") /\ UNCHANGED <<limit, asked, parked, pending>>
       ELSE /\ Park("question", "none")
            /\ limit' = Extended /\ asked' = TRUE
            /\ UNCHANGED outcome
  /\ budget' = [pressure |-> "exhausted", reason |-> "max_steps_exhausted"]
  /\ UNCHANGED <<policy, via, steps, plan, offered, left, results, cache, repairs,
                 resumes, last, children>>

\* A turn: the tools are resolved, the step is counted, and what is done with
\* the model's answer sets the rest.
Turn(done) ==
  /\ pc = "top" /\ steps < limit
  /\ budget' = Progress(done)
  /\ offered' = Offered(policy, plan, asked, results)
  /\ steps' = steps + 1
  /\ last' = Nothing
  /\ UNCHANGED <<policy, via, limit, plan, results, cache, repairs, resumes, children>>

Answers ==
  /\ Turn(TRUE)
  /\ Leave("completed")
  /\ UNCHANGED <<asked, left, parked, pending>>

\* Variant: an answer with an empty list of calls is a turn that is not counted.
CallsNone(n) ==
  /\ pc = "top" /\ steps < limit
  /\ pc' = "call" /\ left' = 0
  /\ UNCHANGED <<policy, via, steps, limit, plan, asked, offered, results, cache,
                 repairs, parked, pending, outcome, resumes, last, budget, children>>

Calls(n) ==
  /\ Turn(FALSE)
  /\ pc' = "call" /\ left' = n
  /\ UNCHANGED <<asked, parked, pending, outcome>>

\* The answer asks the user: parked without a pending call.
AsksUser(q) ==
  /\ Turn(FALSE) /\ Required(q)
  /\ Park("question", "none") /\ asked' = TRUE
  /\ UNCHANGED <<left, outcome>>

\* A question the user need not see is answered by default.
AsksDefault(q) ==
  /\ Turn(FALSE) /\ ~Required(q)
  /\ UNCHANGED <<pc, asked, left, parked, pending, outcome>>

----------------------------------------------------------------------------
(* The results of executed calls, as _execute_tool returns them. *)

Statuses(t) ==
  CASE t \in Reads \cup MCP \cup Scratchpad -> {"completed", "failed"}
    [] t = "apply_patch" -> {"applied", "failed", "validation_failed", "worktree_binding_failed"}
    [] t = "run_command" -> {"verified", "completed", "failed"}
    [] t \in Subagents -> {"completed", "failed", "waiting_approval"}
    [] t \in Continuations -> {"completed"}
    [] OTHER -> {}

\* The calls that may need an approval before they run.
Gated == Writes \cup {"web_fetch"} \cup MCP

\* The tools after which the cached file reads are dropped.
Clears(t) == t \in Writes \cup {"task"}

\* The task's own work on the files: a patch that was applied, a command whatever
\* became of it, a child task that came back.
Changes(t, st) ==
  \/ t = "run_command" /\ st # "blocked"
  \/ t \in {"apply_patch", "task"} /\ st \in {"applied", "completed"}

Aged(t, st, copy) == IF copy # NoCopy /\ Changes(t, st) THEN "stale" ELSE copy

\* Variant: a failed command keeps the cached reads.
CachedUnlessFailed(t, st, served) ==
  Aged(t, st, IF t = "read_file" /\ st = "completed" THEN IF served THEN cache ELSE "fresh"
              ELSE IF Clears(t) /\ st # "failed" THEN NoCopy ELSE cache)

\* The cache after a call: a read that succeeded is stored (a served copy is
\* stored again), a clearing tool empties it.
Cached(t, st, served) ==
  Aged(t, st, IF t = "read_file" /\ st = "completed" THEN IF served THEN cache ELSE "fresh"
              ELSE IF Clears(t) THEN NoCopy ELSE cache)

\* After a call of the loop: the repair budget of patches, and the worktree
\* that could not be bound, end the loop.
Finish(t, st) ==
  /\ results' = WithResult(results, t, st)
  /\ repairs' = repairs + (IF st = "validation_failed" THEN 1 ELSE 0)
  /\ IF repairs' > MaxRepairs THEN Leave("raised")
     ELSE IF st = "worktree_binding_failed" THEN Leave("failed")
     ELSE pc' = "call" /\ outcome' = outcome
  /\ UNCHANGED <<turnVars, asked, parked, pending>>

----------------------------------------------------------------------------
(* One call of the turn, in the order of the checks. *)

PlanAllows(t) == plan => t \in PlanModeTools
Available(t) == PlanAllows(t) /\ (t = "exit_plan_mode" => plan) /\ t \in offered

Blocked(t) ==
  /\ pc = "call" /\ left > 0 /\ ~Available(t)
  /\ left' = left - 1
  /\ cache' = Cached(t, "blocked", FALSE)
  /\ Finish(t, "blocked")
  /\ UNCHANGED <<plan, last, budget, children>>

\* A question that needs no user is answered by default.
DefaultsQuestion(q) ==
  /\ pc = "call" /\ left > 0 /\ Available("ask_user_question") /\ ~Required(q)
  /\ left' = left - 1
  /\ Finish("ask_user_question", "defaulted")
  /\ UNCHANGED <<plan, cache, last, budget, children>>

ServesCached ==
  /\ pc = "call" /\ left > 0 /\ Available("read_file") /\ cache # NoCopy
  /\ left' = left - 1
  /\ cache' = Cached("read_file", "completed", TRUE)
  /\ Finish("read_file", "completed")
  /\ UNCHANGED <<plan, last, budget, children>>

\* A read the loop may run together with the reads that follow it; a resumed
\* loop has no worker budget.
Safe(t) == t \in ParallelReads /\ ("budget" \in policy.flags => via # "message")

\* Two or more safe reads in a row: only the first one went through the checks.
Groups(g) ==
  /\ Available(g[1])
  /\ \A i \in DOMAIN g : Safe(g[i]) /\ (g[i] = "read_file" => cache = NoCopy)

Batches == UNION {[1 .. n -> Tools] : n \in 2 .. MaxBatch}

\* The reads run, then each is finalized in order.  ok: those that succeeded.
ReadsTogether(g, ok) ==
  /\ pc = "call" /\ Len(g) <= left /\ Groups(g)
  /\ left' = left - Len(g)
  /\ last' = Did(g[Len(g)], "loop")
  /\ cache' = IF \E i \in ok : g[i] = "read_file" THEN "fresh" ELSE cache
  /\ results' = LET st(i) == IF i \in ok THEN "completed" ELSE "failed"
                    r == WithResult(results, g[Len(g)], st(Len(g)))
                IN  [r EXCEPT !.good = results.good \/ ok # {}]
  /\ UNCHANGED <<turnVars, pc, plan, asked, repairs, parked, pending, outcome,
                 budget, children>>

\* One of them needs an approval: the first one finalized sees the waiting task
\* and is saved as the pending call, and all that follow it are left to the drain.
ReadsGated(g) ==
  /\ pc = "call" /\ Len(g) <= left /\ Groups(g)
  /\ \E i \in DOMAIN g : g[i] \in Gated
  /\ left' = left - 1
  /\ Park("gate", g[1])
  /\ UNCHANGED <<turnVars, plan, asked, results, cache, repairs, outcome,
                 last, budget, children>>

\* One call is executed and comes back with a result.
Executes(t, st) ==
  /\ pc = "call" /\ left > 0 /\ Available(t)
  /\ t = "read_file" => cache = NoCopy
  /\ left' = left - 1
  /\ last' = Did(t, "loop")
  /\ children' = children + (IF Ready(t, st) THEN 1 ELSE 0)
  /\ cache' = Cached(t, st, FALSE)
  /\ Finish(t, st)
  /\ UNCHANGED <<plan, budget>>

\* It asks for an approval first: the task waits with the call pending.
Gates(t) ==
  /\ pc = "call" /\ left > 0 /\ Available(t) /\ t \in Gated
  /\ left' = left - 1
  /\ Park("gate", t)
  /\ UNCHANGED <<turnVars, plan, asked, results, cache, repairs, outcome,
                 last, budget, children>>

\* A question that needs the user, and a plan that needs an approval.
AskTool(q) ==
  /\ pc = "call" /\ left > 0 /\ Available("ask_user_question") /\ Required(q)
  /\ left' = left - 1
  /\ Park("answer", "ask_user_question") /\ asked' = TRUE
  /\ UNCHANGED <<turnVars, plan, results, cache, repairs, outcome, last, budget, children>>

EntersPlan ==
  /\ pc = "call" /\ left > 0 /\ Available("enter_plan_mode")
  /\ left' = left - 1 /\ plan' = TRUE
  /\ results' = WithResult(results, "enter_plan_mode", "plan_mode_entered")
  /\ UNCHANGED <<turnVars, pc, asked, cache, repairs, parked, pending, outcome,
                 last, budget, children>>

ExitsPlan ==
  /\ pc = "call" /\ left > 0 /\ Available("exit_plan_mode")
  /\ left' = left - 1
  /\ Park("plan", "exit_plan_mode") /\ plan' = TRUE
  /\ UNCHANGED <<turnVars, asked, results, cache, repairs, outcome, last, budget, children>>

TurnDone ==
  /\ pc = "call" /\ left = 0
  /\ pc' = "top"
  /\ UNCHANGED <<turnVars, plan, asked, left, results, cache, repairs, parked,
                 pending, outcome, last, budget, children>>

----------------------------------------------------------------------------
(* The ways back in. *)

Resumed(reason, how) ==
  /\ pc = "parked" /\ parked = reason /\ resumes < MaxResumes
  /\ resumes' = resumes + 1
  /\ pc' = "drain" /\ via' = how /\ parked' = "no" /\ pending' = "none"
  /\ cache' = NoCopy
  /\ UNCHANGED <<policy, steps, limit, offered, left, repairs, outcome>>

\* task.resume of a question without a pending call goes on at once, answered
\* or not, and the question stays in the context.
ResumeQuestion ==
  /\ Resumed("question", "answer")
  /\ UNCHANGED <<plan, asked, results, last, budget, children>>

\* The answer to a question of the tool becomes its result.
AnswerTool ==
  /\ Resumed("answer", "answer")
  /\ asked' = FALSE
  /\ results' = WithResult(results, "ask_user_question", "answered")
  /\ UNCHANGED <<plan, last, budget, children>>

\* Approved or rejected, the decision on the plan ends plan mode.
DecidePlan(st) ==
  /\ Resumed("plan", "answer")
  /\ plan' = FALSE
  /\ results' = WithResult(results, "exit_plan_mode", st)
  /\ UNCHANGED <<asked, last, budget, children>>

\* An approved call is executed again, now with its approval.
ApproveCall(st) ==
  /\ Resumed("gate", "approval")
  /\ last' = Did(pending, "approval")
  /\ st \in Statuses(pending)
  /\ results' = WithResult(results, pending, st)
  /\ UNCHANGED <<plan, asked, budget, children>>

RejectCall ==
  /\ pc = "parked" /\ parked = "gate"
  /\ pc' = "ended" /\ outcome' = "failed" /\ parked' = "no" /\ pending' = "none"
  /\ UNCHANGED <<turnVars, plan, asked, left, results, cache, repairs, last, budget, children>>

----------------------------------------------------------------------------
(* The calls that were left when the loop was parked: executed in order,    *)
(* with no look at plan mode, the offered tools or the cache.               *)

Drain(t, st) ==
  /\ pc = "drain" /\ left > 0
  /\ left' = left - 1
  /\ last' = Did(t, "drain")
  /\ results' = WithResult(results, t, st)
  /\ UNCHANGED <<turnVars, pc, plan, asked, cache, repairs, parked, pending, outcome,
                 budget, children>>

DrainQuestion(q) ==
  /\ pc = "drain" /\ left > 0 /\ ~Required(q)
  /\ left' = left - 1
  /\ results' = WithResult(results, "ask_user_question", "defaulted")
  /\ UNCHANGED <<turnVars, pc, plan, asked, cache, repairs, parked, pending,
                 outcome, last, budget, children>>

DrainEntersPlan ==
  /\ pc = "drain" /\ left > 0
  /\ left' = left - 1 /\ plan' = TRUE
  /\ results' = WithResult(results, "enter_plan_mode", "plan_mode_entered")
  /\ UNCHANGED <<turnVars, pc, asked, cache, repairs, parked, pending, outcome,
                 last, budget, children>>

\* A drained call that needs the user parks the rest again.
DrainParks(t) ==
  /\ pc = "drain" /\ left > 0
  /\ left' = left - 1
  /\ Park(CASE t = "ask_user_question" -> "answer"
            [] t = "exit_plan_mode" -> "plan"
            [] OTHER -> "gate", t)
  /\ plan' = (plan \/ t = "exit_plan_mode")
  /\ asked' = (asked \/ t = "ask_user_question")
  /\ UNCHANGED <<turnVars, results, cache, repairs, outcome, last, budget, children>>

\* A new loop starts with the saved state (and, as every loop, an empty cache).
DrainDone ==
  /\ pc = "drain" /\ left = 0
  /\ pc' = "top"
  /\ UNCHANGED <<turnVars, plan, asked, left, results, cache, repairs, parked, pending,
                 outcome, last, budget, children>>

\* The task ended, or nobody answers.
Rest ==
  /\ pc = "ended" \/ (pc = "parked" /\ resumes = MaxResumes)
  /\ UNCHANGED vars

----------------------------------------------------------------------------
Loop ==
  \/ Converge \/ Answers
  \/ \E n \in 1 .. MaxBatch : Calls(n)
  \/ \E t \in Tools : Blocked(t) \/ Gates(t)
  \/ ServesCached
  \/ \E q \in SUBSET Markers :
       \/ AsksUser(q) \/ AsksDefault(q) \/ DefaultsQuestion(q) \/ AskTool(q) \/ DrainQuestion(q)
  \/ /\ pc = "call" /\ left > 1
     /\ \E g \in Batches : ReadsGated(g) \/ \E ok \in SUBSET DOMAIN g : ReadsTogether(g, ok)
  \/ \E t \in Tools : \E st \in Statuses(t) : Executes(t, st)
  \/ EntersPlan \/ ExitsPlan \/ TurnDone
  \/ \E t \in Tools : \E st \in Statuses(t) : Drain(t, st)
  \/ \E t \in Gated \cup {"ask_user_question", "exit_plan_mode"} : DrainParks(t)
  \/ DrainEntersPlan \/ DrainDone

User ==
  \/ ResumeQuestion \/ AnswerTool \/ RejectCall
  \/ \E st \in {"plan_approved", "plan_rejected"} : DecidePlan(st)
  \/ \E st \in {"applied", "failed", "validation_failed", "worktree_binding_failed",
                "verified", "completed"} : ApproveCall(st)

Next == Loop \/ User \/ Rest

Spec == Init /\ [][Next]_vars
FairSpec == Spec /\ WF_vars(Loop)

----------------------------------------------------------------------------
ResultsType ==
  [last : Lasts, ready : Nat, defaulted : BOOLEAN, any : BOOLEAN, good : BOOLEAN]
LastType ==
  [did : {"nothing", "write", "effect"}, by : {"loop", "drain", "approval"}, plan : BOOLEAN]
BudgetType ==
  [pressure : {"normal", "watch", "critical", "exhausted"},
   reason : {"within_budget", "budget_watch", "step_budget_critical", "max_steps_exhausted"}]

TypeOK ==
  /\ policy \in Policies
  /\ pc \in {"top", "call", "drain", "parked", "ended"}
  /\ via \in {"message", "answer", "approval"}
  /\ steps \in Nat /\ limit \in Nat /\ left \in 0 .. MaxBatch
  /\ plan \in BOOLEAN /\ asked \in BOOLEAN /\ offered \subseteq Tools
  /\ results \in ResultsType
  /\ cache \in {NoCopy, "fresh", "stale"}
  /\ repairs \in 0 .. MaxRepairs + 1
  /\ parked \in {"no", "question", "answer", "plan", "gate"}
  /\ pc = "parked" <=> parked # "no"
  /\ pending \in Tools \cup {"none"}
  /\ outcome \in {"none", "completed", "completed anyway", "failed", "raised", "running"}
  /\ resumes \in 0 .. MaxResumes
  /\ last \in LastType /\ children \in Nat /\ budget \in BudgetType

(* Safety. *)

\* The policies under which the task's own turns must not change files.
Reader ==
  \/ policy.role \in {"planner", "reviewer", "summarizer"}
  \/ NoTools(policy)
  \/ ReadOnly(policy) /\ ~CleanupProfile(policy)

\* No turn of the loop runs a write under a read-only policy, in whatever phase
\* the results put it and whatever stands before the call in its batch, and
\* none has an effect in plan mode, entered by an earlier call of the batch or
\* not.  (The drain of a parked turn does not check.)
LoopKeepsPolicy ==
  last.by = "loop" =>
    /\ Reader => last.did # "write"
    /\ last.plan => last.did = "nothing"

\* A budget granted n times: what _context_with_additional_step_budget adds.
Granted[n \in Nat] ==
  IF n = 0 THEN MaxTaskSteps
  ELSE Granted[n - 1] + Grant(Granted[n - 1])

\* A file read the loop holds in its cache is never older than the last write,
\* command or task call that came back, succeeded or failed.
CacheFollowsWork == cache # "stale"

\* The loop keeps its budgets.  It takes no more turns than it was given at the
\* start and once more for each resume; a task completed by its answer is not
\* stored with an exhausted budget, though the answer came in the last step; and
\* a limit on child tasks (one, if routing names none and allows no more) is
\* overshot by no more than the other calls of one batch.
BudgetsKept ==
  LET bound == IF policy.maxTasks = NoLimit THEN 1 ELSE policy.maxTasks
  IN  /\ steps <= Granted[resumes]
      /\ outcome = "completed" => budget.pressure # "exhausted"
      /\ ToolsAfterTask(policy) /\ (policy.maxTasks # NoLimit \/ ~MoreSubtasks(policy))
           => children <= bound - 1 + MaxBatch

(* Liveness, under weak fairness of the thread that runs the loop. *)

\* A loop that runs parks or ends.
LoopEnds == pc \in {"top", "call", "drain"} ~> pc \in {"parked", "ended"}

=============================================================================
