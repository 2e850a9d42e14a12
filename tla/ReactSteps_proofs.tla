------------------------- MODULE ReactSteps_proofs -------------------------
(* What a loop may execute, how long it may run and how many children it may *)
(* start, for any policies, budgets, batches and number of resumes.          *)
EXTENDS ReactSteps, WellFoundedInduction, TLAPS

-----------------------------------------------------------------------------
(* Budgets that grow by Grant.                                               *)

\* What a used-up budget of n steps grows by: three to ten steps.
LEMMA GrantIs ==
  ASSUME NEW n \in Nat
  PROVE  Grant(n) = IF n < 3 THEN 3 ELSE IF n > 10 THEN 10 ELSE n
<1> DEFINE m == Min({10, n})
<1>1. \E x \in {10, n} : \A y \in {10, n} : x =< y
  OBVIOUS
<1>2. m \in {10, n} /\ \A y \in {10, n} : m =< y
  BY <1>1, Zenon DEF Min
<1>3. m = IF n > 10 THEN 10 ELSE n
  <2> HIDE DEF m
  <2>. QED BY <1>2
<1> DEFINE M == Max({3, m})
<1>4. \E x \in {3, m} : \A y \in {3, m} : x >= y
  <2> HIDE DEF m
  <2>. QED BY <1>3
<1>5. M \in {3, m} /\ \A y \in {3, m} : M >= y
  <2> HIDE DEF m
  <2>. QED BY <1>4, Zenon DEF Max
<1>6. Grant(n) = M
  BY DEF Grant
<1>. QED
  <2> HIDE DEF m, M
  <2>. QED BY <1>3, <1>5, <1>6

\* The budget after a loop that used up its limit.
LEMMA ExtendedIs ==
  ASSUME limit \in Nat, steps = limit
  PROVE  Extended = limit + Grant(limit)
<1>1. \E x \in {limit, steps} : \A y \in {limit, steps} : x >= y
  OBVIOUS
<1>2. Max({limit, steps}) \in {limit, steps}
  BY <1>1, Zenon DEF Max
<1>. QED BY <1>2 DEF Extended

\* A set of naturals that has 0 and, with n, n + 1, has every natural.
LEMMA NatInduct ==
  ASSUME NEW S, 0 \in S, \A n \in Nat : n \in S => n + 1 \in S
  PROVE  Nat \subseteq S
<1> DEFINE T == Nat \ S
<1>1. ASSUME T # {}
      PROVE  FALSE
  <2>1. PICK x \in T : \A y \in T : <<y, x>> \notin OpToRel(<, Nat)
    BY <1>1, NatLessThanWellFounded, WFMin, T \subseteq Nat, Zenon
  <2>2. \A y \in T : ~ (y < x)
    BY <2>1 DEF OpToRel
  <2>3. x # 0 /\ x - 1 \in Nat
    OBVIOUS
  <2>4. x - 1 \notin T
    BY <2>2, <2>3
  <2>. QED BY <2>3, <2>4
<1>. QED BY <1>1

\* f gives the budgets of the first n grants.
Budgets(f, n) ==
  /\ f \in [0 .. n -> Nat]
  /\ f[0] = MaxTaskSteps
  /\ \A i \in 1 .. n : f[i] = f[i - 1] + Grant(f[i - 1])

\* There are such budgets for every n ...
LEMMA BudgetsExist == \A n \in Nat : \E f : Budgets(f, n)
<1> DEFINE S == {n \in Nat : \E f : Budgets(f, n)}
<1>1. 0 \in S
  <2> DEFINE f == [i \in 0 .. 0 |-> MaxTaskSteps]
  <2>1. Budgets(f, 0)
    BY ReactStepsAssumption DEF Budgets
  <2>. QED BY <2>1
<1>2. ASSUME NEW n \in Nat, n \in S
      PROVE  n + 1 \in S
  <2>1. PICK f : Budgets(f, n)
    BY <1>2
  <2> DEFINE g == [i \in 0 .. n + 1 |-> IF i = n + 1 THEN f[n] + Grant(f[n]) ELSE f[i]]
  <2>2. f[n] \in Nat /\ Grant(f[n]) \in Nat
    BY <2>1, GrantIs DEF Budgets
  <2>3. g \in [0 .. n + 1 -> Nat]
    BY <2>1, <2>2 DEF Budgets
  <2>4. g[0] = MaxTaskSteps
    BY <2>1 DEF Budgets
  <2>5. ASSUME NEW i \in 1 .. n + 1
        PROVE  g[i] = g[i - 1] + Grant(g[i - 1])
    <3>1. g[i - 1] = f[i - 1]
      OBVIOUS
    <3>2. CASE i = n + 1
      BY <3>1, <3>2
    <3>3. CASE i # n + 1
      <4>1. i \in 1 .. n /\ g[i] = f[i]
        BY <3>3
      <4>. QED BY <2>1, <3>1, <4>1 DEF Budgets
    <3>. QED BY <3>2, <3>3
  <2>6. Budgets(g, n + 1)
    <3> HIDE DEF g
    <3>. QED BY <2>3, <2>4, <2>5 DEF Budgets
  <2>. QED BY <2>6
<1>3. Nat \subseteq S
  <2> HIDE DEF S
  <2>. QED BY <1>1, <1>2, NatInduct
<1>. QED BY <1>3

\* ... and two of them agree as far as both go.
LEMMA BudgetsAgree ==
  ASSUME NEW m \in Nat, NEW n \in Nat, m <= n, NEW f, NEW g, Budgets(f, m), Budgets(g, n)
  PROVE  \A i \in 0 .. m : f[i] = g[i]
<1> DEFINE S == {i \in Nat : i <= m => f[i] = g[i]}
<1>1. 0 \in S
  BY DEF Budgets
<1>2. ASSUME NEW i \in Nat, i \in S
      PROVE  i + 1 \in S
  <2>1. CASE i + 1 <= m
    <3>1. f[i] = g[i] /\ i + 1 \in 1 .. m /\ i + 1 \in 1 .. n /\ (i + 1) - 1 = i
      BY <1>2, <2>1
    <3>2. f[i + 1] = f[i] + Grant(f[i]) /\ g[i + 1] = g[i] + Grant(g[i])
      BY <3>1 DEF Budgets
    <3>. QED BY <3>1, <3>2
  <2>2. CASE ~ (i + 1 <= m)
    BY <2>2
  <2>. QED BY <2>1, <2>2
<1>3. Nat \subseteq S
  <2> HIDE DEF S
  <2>. QED BY <1>1, <1>2, NatInduct
<1>. QED BY <1>3

\* So the recursive definition of Granted has a solution.
LEMMA GrantedUnfolds ==
  Granted = [n \in Nat |-> IF n = 0 THEN MaxTaskSteps
                           ELSE Granted[n - 1] + Grant(Granted[n - 1])]
<1> DEFINE b(n) == CHOOSE f : Budgets(f, n)
           G == [n \in Nat |-> b(n)[n]]
<1>1. \A n \in Nat : Budgets(b(n), n)
  BY BudgetsExist, Zenon
<1>2. ASSUME NEW n \in Nat
      PROVE  G[n] = IF n = 0 THEN MaxTaskSteps ELSE G[n - 1] + Grant(G[n - 1])
  <2> HIDE DEF b
  <2>1. CASE n = 0
    BY <1>1, <2>1 DEF Budgets
  <2>2. CASE n # 0
    <3>1. n - 1 \in Nat /\ n - 1 <= n /\ n \in 1 .. n /\ n - 1 \in 0 .. n - 1
      BY <2>2
    <3>2. b(n)[n] = b(n)[n - 1] + Grant(b(n)[n - 1])
      BY <1>1, <3>1 DEF Budgets
    <3>3. b(n - 1)[n - 1] = b(n)[n - 1]
      BY <1>1, <3>1, BudgetsAgree
    <3>4. G[n] = b(n)[n] /\ G[n - 1] = b(n - 1)[n - 1]
      BY <3>1
    <3>. QED BY <2>2, <3>2, <3>3, <3>4
  <2>. QED BY <2>1, <2>2
<1>3. G = [n \in Nat |-> IF n = 0 THEN MaxTaskSteps ELSE G[n - 1] + Grant(G[n - 1])]
  <2> DEFINE H == [n \in Nat |-> IF n = 0 THEN MaxTaskSteps ELSE G[n - 1] + Grant(G[n - 1])]
  <2>1. DOMAIN G = Nat /\ DOMAIN H = Nat
    OBVIOUS
  <2>2. \A n \in Nat : G[n] = H[n]
    BY <1>2
  <2>3. G = [n \in Nat |-> G[n]] /\ H = [n \in Nat |-> H[n]]
    OBVIOUS
  <2>. QED
    <3> HIDE DEF G, H, b
    <3>1. G = H
      BY <2>2, <2>3
    <3>. QED BY <3>1 DEF H
<1>4. \E g : g = [n \in Nat |-> IF n = 0 THEN MaxTaskSteps ELSE g[n - 1] + Grant(g[n - 1])]
  <2> HIDE DEF G
  <2>. QED BY <1>3, Zenon
<1>. QED BY <1>4, Zenon DEF Granted

\* A budget that was granted once more is the last one and what it grows by.
LEMMA GrantedStep ==
  /\ Granted[0] = MaxTaskSteps
  /\ \A n \in Nat : /\ Granted[n] \in Nat
                    /\ Granted[n + 1] = Granted[n] + Grant(Granted[n])
<1>1. Granted[0] = MaxTaskSteps
  BY GrantedUnfolds
<1>2. \A n \in Nat : Granted[n + 1] = Granted[n] + Grant(Granted[n])
  <2> TAKE n \in Nat
  <2>1. n + 1 \in Nat /\ n + 1 # 0 /\ (n + 1) - 1 = n
    OBVIOUS
  <2>. QED BY <2>1, GrantedUnfolds
<1> DEFINE S == {n \in Nat : Granted[n] \in Nat}
<1>3. 0 \in S
  BY <1>1, ReactStepsAssumption
<1>4. ASSUME NEW n \in Nat, n \in S
      PROVE  n + 1 \in S
  BY <1>2, <1>4, GrantIs
<1>5. Nat \subseteq S
  <2> HIDE DEF S
  <2>. QED BY <1>3, <1>4, NatInduct
<1>. QED BY <1>1, <1>2, <1>5

-----------------------------------------------------------------------------
(* The inductive invariant.                                                  *)

\* A loop that has not ended has no outcome and patches left to repair.
Running == pc # "ended" => outcome = "none" /\ repairs <= MaxRepairs

\* The offered tools of a turn are checked for each call of it.
NoWriteOffered == pc = "call" /\ Reader => offered \cap Writes = {}

\* The limit is the one granted with the last resume; a loop that waits for the
\* user's word on its steps may hold the next one already.
LimitGranted ==
  /\ steps <= limit /\ steps <= Granted[resumes]
  /\ limit <= Granted[IF parked = "question" THEN resumes + 1 ELSE resumes]

\* The policies that limit the children of a task, and how many they allow.
Limited(c) == ToolsAfterTask(c) /\ (c.maxTasks # NoLimit \/ ~MoreSubtasks(c))
Bound(c) == IF c.maxTasks = NoLimit THEN 1 ELSE c.maxTasks

\* Every child is in the results; a turn that offers children began below the
\* limit, and each call of it that is left may add one.
ChildrenCounted ==
  /\ children <= results.ready
  /\ Limited(policy) =>
       /\ children <= Bound(policy) - 1 + MaxBatch
       /\ pc = "call" /\ offered \cap Subagents # {}
            => children + left <= Bound(policy) - 1 + MaxBatch

NotExhausted == outcome = "completed" => budget.pressure # "exhausted"

IndInv ==
  /\ TypeOK /\ Running /\ NoWriteOffered /\ LoopKeepsPolicy /\ CacheFollowsWork
  /\ LimitGranted /\ ChildrenCounted /\ NotExhausted

-----------------------------------------------------------------------------
(* The operators of a step.                                                  *)

\* A result keeps the summary of results well typed and counts a ready child.
LEMMA ResultType ==
  ASSUME NEW r \in ResultsType, NEW t, NEW st
  PROVE  /\ WithResult(r, t, st) \in ResultsType
         /\ WithResult(r, t, st).ready = r.ready + (IF Ready(t, st) THEN 1 ELSE 0)
         /\ WithResult(r, t, st).ready >= r.ready
<1> DEFINE w == WithResult(r, t, st)
           l == IF Ready(t, st) THEN IF st = "failed" THEN "child failed" ELSE "child"
                ELSE IF st = "failed" THEN "failed"
                ELSE IF st = "verified" THEN "check" ELSE "other"
           d == IF t \in Question THEN st = "defaulted" ELSE r.defaulted
           g == r.good \/ st \notin Failures \cup Waits
           k == r.ready + (IF Ready(t, st) THEN 1 ELSE 0)
<1>1. l \in Lasts
  BY DEF Lasts
<1>2. r.ready \in Nat /\ r.defaulted \in BOOLEAN
  BY DEF ResultsType
<1>3. d \in BOOLEAN
  BY <1>2, Zenon
<1>4. g \in BOOLEAN
  BY Zenon
<1>5. k \in Nat /\ k >= r.ready
  BY <1>2
<1>6. w = [last |-> l, ready |-> k, defaulted |-> d, any |-> TRUE, good |-> g]
  BY DEF WithResult
<1>. QED
  <2> HIDE DEF w, l, d, g, k
  <2>1. w \in ResultsType /\ w.ready = k
    BY <1>1, <1>3, <1>4, <1>5, <1>6 DEF ResultsType
  <2>. QED BY <2>1, <1>5 DEF w, k

\* What a call did is one of three things.
LEMMA DidType ==
  ASSUME NEW t, NEW by \in {"loop", "drain", "approval"}, plan \in BOOLEAN
  PROVE  /\ Did(t, by) \in LastType
         /\ Did(t, by).by = by /\ Did(t, by).plan = plan
         /\ Did(t, by).did = "write" => t \in Writes
         /\ t \in Reads \cup {"exit_plan_mode"} => Did(t, by).did = "nothing"
<1> DEFINE d == CASE t \in Writes -> "write"
                  [] t \in Subagents \cup Continuations \cup MCP -> "effect"
                  [] OTHER -> "nothing"
<1>1. /\ d \in {"nothing", "write", "effect"}
      /\ d = "write" => t \in Writes
      /\ t \in Reads \cup {"exit_plan_mode"} => d = "nothing"
  BY DEF Writes, Subagents, Continuations, MCP, Reads
<1>2. Did(t, by) = [did |-> d, by |-> by, plan |-> plan]
  BY DEF Did
<1>. QED
  <2> HIDE DEF d
  <2>. QED BY <1>1, <1>2 DEF LastType

\* A loop that returns ends with one of the outcomes.
LEMMA LeaveType ==
  ASSUME NEW result, via \in {"message", "answer", "approval"}, Leave(result)
  PROVE  /\ pc' = "ended"
         /\ outcome' \in {"completed", "completed anyway", "failed", "raised", "running"}
         /\ outcome' = "completed" => result = "completed"
BY DEF Leave

\* The progress of a turn is a budget; that of the last turn is not exhausted.
LEMMA ProgressType ==
  ASSUME NEW done \in BOOLEAN, budget \in BudgetType
  PROVE  /\ Progress(done) \in BudgetType
         /\ done => Progress(done).pressure # "exhausted"
<1> DEFINE used == Pressure(steps + 1, limit)
           p == IF done /\ used = "exhausted" THEN "critical" ELSE used
           e == CASE budget.reason = "max_steps_exhausted" -> budget.reason
                  [] OTHER -> CASE p = "critical" -> "step_budget_critical"
                                [] p = "watch" -> "budget_watch"
                                [] OTHER -> "within_budget"
<1>1. used \in {"normal", "watch", "critical", "exhausted"}
  <2>. QED BY DEF Pressure
<1>2. p \in {"normal", "watch", "critical", "exhausted"} /\ (done => p # "exhausted")
  <2> HIDE DEF used
  <2>. QED BY <1>1
<1>3. e \in {"within_budget", "budget_watch", "step_budget_critical", "max_steps_exhausted"}
  <2> HIDE DEF p
  <2>. QED OBVIOUS
<1>4. Progress(done) = [pressure |-> p, reason |-> e]
  BY DEF Progress
<1>. QED
  <2> HIDE DEF p, e
  <2>. QED BY <1>2, <1>3, <1>4 DEF BudgetType

\* Every offered tool is a tool.
LEMMA OfferedTools ==
  ASSUME NEW c \in PolicyType, NEW pl, NEW a, NEW r
  PROVE  Offered(c, pl, a, r) \subseteq Tools
<1>1. SkillAllows(c) \subseteq Tools
  <2>1. c.whitelist \subseteq Tools
    BY DEF PolicyType
  <2>2. ControlFlow \cup Scratchpad \cup MCP \subseteq Tools
    BY DEF Tools
  <2>. QED BY <2>1, <2>2 DEF SkillAllows
<1>. QED BY <1>1 DEF Offered

\* A policy that must not write is offered no write, in whatever phase.
LEMMA ReaderOffered ==
  ASSUME policy \in PolicyType, Reader, NEW pl, NEW a, NEW r
  PROVE  Offered(policy, pl, a, r) \cap Writes = {}
<1>1. ASSUME NEW phase
      PROVE  AllowedNames(policy, phase, pl, a) \cap Writes = {}
  <2>1. Writes \cap (Reads \cup Question \cup Subagents \cup Continuations \cup MCP
                       \cup {"enter_plan_mode", "exit_plan_mode"}) = {}
    BY DEF Writes, Reads, Question, Subagents, Continuations, MCP
  <2>2. Asks(policy, pl, a) \subseteq Question
    BY DEF Asks
  <2>3. ReadOnlyNames(policy, pl, a) \cap Writes = {}
    BY <2>1 DEF ReadOnlyNames
  <2>4. CASE phase = "synthesis" \/ NoTools(policy)
    BY <2>4 DEF AllowedNames
  <2>5. CASE ~(phase = "synthesis" \/ NoTools(policy)) /\ phase = "plan_mode"
    <3>1. AllowedNames(policy, phase, pl, a) = Reads \cup {"exit_plan_mode"} \cup Asks(policy, pl, a)
      BY <2>5 DEF AllowedNames
    <3>. QED BY <2>1, <2>2, <3>1
  <2>6. CASE ~(phase = "synthesis" \/ NoTools(policy)) /\ phase # "plan_mode" /\ ReadOnly(policy)
    <3>1. ~CleanupProfile(policy)
      BY <2>6 DEF Reader, CleanupProfile
    <3>2. AllowedNames(policy, phase, pl, a) = ReadOnlyNames(policy, pl, a)
      BY <2>6, <3>1 DEF AllowedNames
    <3>. QED BY <2>3, <3>2
  <2>7. CASE ~(phase = "synthesis" \/ NoTools(policy)) /\ phase # "plan_mode" /\ ~ReadOnly(policy)
    <3>1. policy.role \in {"planner", "reviewer", "summarizer"}
      BY <2>7 DEF Reader
    <3>2. ~CleanupProfile(policy)
      BY <3>1 DEF CleanupProfile
    <3>3. RoleNames(policy, phase) \cap Writes = {}
      <4>1. RoleNames(policy, phase) \subseteq Reads \cup Subagents \cup Continuations
        BY <3>1 DEF RoleNames
      <4>. QED BY <2>1, <4>1
    <3>4. AllowedNames(policy, phase, pl, a) \subseteq RoleNames(policy, phase) \cup MCP
      BY <2>7, <3>1, <3>2 DEF AllowedNames
    <3>. QED BY <2>1, <3>3, <3>4
  <2>. QED BY <2>4, <2>5, <2>6, <2>7
<1>. QED BY <1>1 DEF Offered

\* A turn that offers children found fewer of them than the policy allows.
LEMMA ChildrenOffered ==
  ASSUME NEW c \in PolicyType, NEW pl, NEW a, NEW r \in ResultsType,
         Limited(c), Offered(c, pl, a, r) \cap Subagents # {}
  PROVE  r.ready <= Bound(c) - 1
<1>1. Withheld(c, r) # Subagents
  BY DEF Offered
<1>2. r.ready \in Nat /\ c.maxTasks \in Nat
  BY DEF ResultsType, PolicyType
<1>3. CASE r.ready = 0
  BY <1>2, <1>3 DEF Bound, NoLimit
<1>4. CASE r.ready > 0
  <2>1. c.maxTasks # NoLimit /\ ~(r.ready >= c.maxTasks)
    BY <1>1, <1>4 DEF Withheld, Limited
  <2>. QED BY <1>2, <2>1 DEF Bound
<1>. QED BY <1>2, <1>3, <1>4

-----------------------------------------------------------------------------
(* Every step keeps the invariant.                                           *)

\* A policy of the task is a policy.
LEMMA PolicyIs == ASSUME TypeOK PROVE policy \in PolicyType /\ results \in ResultsType
BY ReactStepsAssumption DEF TypeOK

\* The numbers of a state.
LEMMA Numbers ==
  ASSUME TypeOK
  PROVE  /\ steps \in Nat /\ limit \in Nat /\ left \in Nat /\ children \in Nat
         /\ repairs \in Nat /\ resumes \in Nat /\ results.ready \in Nat /\ left <= MaxBatch
         /\ resumes <= MaxResumes /\ MaxBatch \in Nat /\ MaxResumes \in Nat /\ MaxRepairs \in Nat
<1>1. MaxBatch \in Nat /\ MaxRepairs \in Nat /\ MaxResumes \in Nat
  BY ReactStepsAssumption
<1>2. results \in ResultsType
  BY DEF TypeOK
<1>3. results.ready \in Nat
  BY <1>2 DEF ResultsType
<1>4. left \in 0 .. MaxBatch /\ repairs \in 0 .. MaxRepairs + 1 /\ resumes \in 0 .. MaxResumes
  BY DEF TypeOK
<1>5. steps \in Nat /\ limit \in Nat /\ children \in Nat
  BY DEF TypeOK
<1>. QED BY <1>1, <1>3, <1>4, <1>5

\* What a finished call leaves of the types, and that it ends the loop or not.
LEMMA FinishType ==
  ASSUME TypeOK, Running, pc = "call", NEW t, NEW st, Finish(t, st)
  PROVE  /\ results' \in ResultsType /\ results' = WithResult(results, t, st)
         /\ repairs' \in 0 .. MaxRepairs + 1
         /\ pc' \in {"call", "ended"} /\ Running'
         /\ outcome' \in {"none", "completed anyway", "failed", "raised", "running"}
         /\ UNCHANGED <<policy, via, steps, limit, offered, resumes, asked, parked, pending>>
<1>1. results' = WithResult(results, t, st) /\ results' \in ResultsType
  BY PolicyIs, ResultType DEF Finish
<1>2. repairs \in 0 .. MaxRepairs /\ outcome = "none"
  BY DEF Running, TypeOK
<1>3. repairs' \in 0 .. MaxRepairs + 1
  BY <1>2, ReactStepsAssumption DEF Finish
<1>4. UNCHANGED <<policy, via, steps, limit, offered, resumes, asked, parked, pending>>
  BY DEF Finish, turnVars
<1>5. CASE repairs' > MaxRepairs
  <2>1. Leave("raised")
    BY <1>5 DEF Finish
  <2>2. pc' = "ended" /\ outcome' = "raised"
    BY <2>1 DEF Leave
  <2>. QED BY <1>1, <1>3, <1>4, <2>2 DEF Running
<1>6. CASE ~(repairs' > MaxRepairs) /\ st = "worktree_binding_failed"
  <2>1. Leave("failed")
    BY <1>6 DEF Finish
  <2>2. pc' = "ended" /\ outcome' \in {"completed anyway", "failed", "running"}
    BY <2>1 DEF Leave
  <2>. QED BY <1>1, <1>3, <1>4, <2>2 DEF Running
<1>7. CASE ~(repairs' > MaxRepairs) /\ st # "worktree_binding_failed"
  <2>1. pc' = "call" /\ outcome' = outcome
    BY <1>7 DEF Finish
  <2>2. repairs' <= MaxRepairs
    BY <1>3, <1>7, ReactStepsAssumption
  <2>. QED BY <1>1, <1>2, <1>3, <1>4, <2>1, <2>2 DEF Running
<1>. QED BY <1>5, <1>6, <1>7

\* The plan mode and the way in.
LEMMA PlanIs == ASSUME TypeOK PROVE plan \in BOOLEAN /\ via \in {"message", "answer", "approval"}
BY DEF TypeOK

\* A copy of the file is dropped by the calls that change the files.
LEMMA CachedType ==
  ASSUME cache \in {NoCopy, "fresh"}, NEW t, NEW st, NEW served
  PROVE  Cached(t, st, served) \in {NoCopy, "fresh"}
<1>1. CASE t \in {"run_command", "apply_patch", "task"}
  <2>1. Clears(t) /\ t # "read_file"
    BY <1>1 DEF Clears, Writes
  <2>2. Cached(t, st, served) = NoCopy
    BY <2>1 DEF Cached, Aged
  <2>. QED BY <2>2
<1>2. CASE t \notin {"run_command", "apply_patch", "task"}
  <2>1. ~Changes(t, st)
    BY <1>2 DEF Changes
  <2>. QED BY <2>1 DEF Cached, Aged
<1>. QED BY <1>1, <1>2

\* A batch of reads has at least two calls.
LEMMA BatchIs ==
  ASSUME NEW g \in Batches
  PROVE  /\ Len(g) \in 2 .. MaxBatch /\ DOMAIN g = 1 .. Len(g)
         /\ \A i \in 1 .. Len(g) : g[i] \in Tools
<1>1. PICK n \in 2 .. MaxBatch : g \in [1 .. n -> Tools]
  BY DEF Batches
<1>2. Len(g) = n
  BY <1>1
<1>. QED BY <1>1, <1>2

\* A step keeps the types, ends a loop with its outcome, and never keeps a copy
\* of a file that the task has changed since.
LEMMA TypeStep ==
  ASSUME TypeOK, Running, CacheFollowsWork, LimitGranted, [Next]_vars
  PROVE  TypeOK' /\ Running' /\ CacheFollowsWork'
<1>1. CASE Converge
  <2>1. /\ UNCHANGED <<policy, via, steps, plan, offered, left, results, cache, repairs,
                       resumes, last, children>>
        /\ budget' \in BudgetType
    BY <1>1 DEF Converge, BudgetType
  <2>2. CASE results.any /\ ~results.good
    <3>1. Leave("failed") /\ UNCHANGED <<limit, asked, parked, pending>> /\ pc = "top"
      BY <1>1, <2>2 DEF Converge
    <3>2. pc' = "ended" /\ outcome' \in {"completed", "completed anyway", "failed", "raised", "running"}
      BY <3>1, PlanIs DEF Leave
    <3>. QED
      BY <2>1, <3>1, <3>2 DEF TypeOK, Running, CacheFollowsWork
  <2>3. CASE ~(results.any /\ ~results.good)
    <3>1. /\ pc = "top" /\ pc' = "parked" /\ parked' = "question" /\ pending' = "none"
          /\ limit' = Extended /\ asked' = TRUE /\ UNCHANGED outcome /\ steps >= limit
      BY <1>1, <2>3 DEF Converge, Park
    <3>2. limit' \in Nat
      BY <3>1, Numbers, ExtendedIs, GrantIs DEF LimitGranted
    <3>. QED
      BY <2>1, <3>1, <3>2 DEF TypeOK, Running, CacheFollowsWork
  <2>. QED BY <2>2, <2>3
<1>2. CASE Answers
  <2>1. /\ budget' \in BudgetType /\ offered' \subseteq Tools /\ last' \in LastType
    BY <1>2, PolicyIs, ProgressType, OfferedTools DEF Answers, Turn, TypeOK, Nothing, LastType
  <2>2. steps' \in Nat /\ UNCHANGED <<policy, via, limit, plan, results, cache, repairs, resumes, children>>
    BY <1>2, Numbers DEF Answers, Turn
  <2>3. /\ pc = "top" /\ pc' = "ended" /\ outcome' = "completed"
        /\ UNCHANGED <<asked, left, parked, pending>>
    BY <1>2, Numbers DEF Answers, Turn, Park, Leave
  <2>. QED
    BY <2>1, <2>2, <2>3 DEF TypeOK, Running, CacheFollowsWork
<1>3. ASSUME NEW n \in 1 .. MaxBatch, Calls(n)
      PROVE  TypeOK' /\ Running' /\ CacheFollowsWork'
  <2>1. /\ budget' \in BudgetType /\ offered' \subseteq Tools /\ last' \in LastType
    BY <1>3, PolicyIs, ProgressType, OfferedTools DEF Calls, Turn, TypeOK, Nothing, LastType
  <2>2. steps' \in Nat /\ UNCHANGED <<policy, via, limit, plan, results, cache, repairs, resumes, children>>
    BY <1>3, Numbers DEF Calls, Turn
  <2>3. /\ pc = "top" /\ pc' = "call" /\ left' \in 0 .. MaxBatch
        /\ UNCHANGED <<asked, parked, pending, outcome>>
    BY <1>3, Numbers DEF Calls, Turn, Park, Leave
  <2>. QED
    BY <2>1, <2>2, <2>3 DEF TypeOK, Running, CacheFollowsWork
<1>4. ASSUME NEW t \in Tools, Blocked(t)
      PROVE  TypeOK' /\ Running' /\ CacheFollowsWork'
  <2>1. pc = "call"
    BY <1>4 DEF Blocked
  <2>2. /\ results' \in ResultsType /\ repairs' \in 0 .. MaxRepairs + 1
        /\ pc' \in {"call", "ended"} /\ Running'
        /\ outcome' \in {"none", "completed anyway", "failed", "raised", "running"}
        /\ UNCHANGED <<policy, via, steps, limit, offered, resumes, asked, parked, pending>>
    BY <1>4, <2>1, FinishType DEF Blocked
  <2>3. cache' \in {NoCopy, "fresh"}
    BY <1>4, CachedType DEF Blocked, TypeOK, CacheFollowsWork
  <2>4. left' \in 0 .. MaxBatch /\ children' \in Nat
    BY <1>4, Numbers DEF Blocked
  <2>5. last' \in LastType /\ plan' \in BOOLEAN /\ budget' = budget
    BY <1>4, DidType DEF Blocked, TypeOK
  <2>. QED
    BY <2>1, <2>2, <2>3, <2>4, <2>5
       DEF TypeOK, CacheFollowsWork, NoCopy
<1>5. ASSUME NEW t \in Tools, Gates(t)
      PROVE  TypeOK' /\ Running' /\ CacheFollowsWork'
  <2>1. left' \in 0 .. MaxBatch
    BY <1>5, Numbers DEF Gates
  <2>. QED
    BY <1>5, <2>1 DEF Gates, Park, turnVars, TypeOK, Running, CacheFollowsWork, NoCopy
<1>6. CASE ServesCached
  <2>1. pc = "call"
    BY <1>6 DEF ServesCached
  <2>2. /\ results' \in ResultsType /\ repairs' \in 0 .. MaxRepairs + 1
        /\ pc' \in {"call", "ended"} /\ Running'
        /\ outcome' \in {"none", "completed anyway", "failed", "raised", "running"}
        /\ UNCHANGED <<policy, via, steps, limit, offered, resumes, asked, parked, pending>>
    BY <1>6, <2>1, FinishType DEF ServesCached
  <2>3. cache' \in {NoCopy, "fresh"}
    BY <1>6, CachedType DEF ServesCached, TypeOK, CacheFollowsWork
  <2>4. left' \in 0 .. MaxBatch /\ children' \in Nat
    BY <1>6, Numbers DEF ServesCached
  <2>5. last' \in LastType /\ plan' \in BOOLEAN /\ budget' = budget
    BY <1>6, DidType DEF ServesCached, TypeOK
  <2>. QED
    BY <2>1, <2>2, <2>3, <2>4, <2>5
       DEF TypeOK, CacheFollowsWork, NoCopy
<1>7. ASSUME NEW q \in SUBSET Markers, AsksUser(q)
      PROVE  TypeOK' /\ Running' /\ CacheFollowsWork'
  <2>1. /\ budget' \in BudgetType /\ offered' \subseteq Tools /\ last' \in LastType
    BY <1>7, PolicyIs, ProgressType, OfferedTools DEF AsksUser, Turn, TypeOK, Nothing, LastType
  <2>2. steps' \in Nat /\ UNCHANGED <<policy, via, limit, plan, results, cache, repairs, resumes, children>>
    BY <1>7, Numbers DEF AsksUser, Turn
  <2>3. /\ pc = "top" /\ pc' = "parked" /\ parked' = "question" /\ pending' = "none"
        /\ asked' = TRUE /\ UNCHANGED <<left, outcome>>
    BY <1>7, Numbers DEF AsksUser, Turn, Park, Leave
  <2>. QED
    BY <2>1, <2>2, <2>3 DEF TypeOK, Running, CacheFollowsWork
<1>8. ASSUME NEW q \in SUBSET Markers, AsksDefault(q)
      PROVE  TypeOK' /\ Running' /\ CacheFollowsWork'
  <2>1. /\ budget' \in BudgetType /\ offered' \subseteq Tools /\ last' \in LastType
    BY <1>8, PolicyIs, ProgressType, OfferedTools DEF AsksDefault, Turn, TypeOK, Nothing, LastType
  <2>2. steps' \in Nat /\ UNCHANGED <<policy, via, limit, plan, results, cache, repairs, resumes, children>>
    BY <1>8, Numbers DEF AsksDefault, Turn
  <2>3. UNCHANGED <<pc, asked, left, parked, pending, outcome>>
    BY <1>8, Numbers DEF AsksDefault, Turn, Park, Leave
  <2>. QED
    BY <2>1, <2>2, <2>3, ZenonT(40) DEF TypeOK, Running, CacheFollowsWork
<1>9. ASSUME NEW q \in SUBSET Markers, DefaultsQuestion(q)
      PROVE  TypeOK' /\ Running' /\ CacheFollowsWork'
  <2>1. pc = "call"
    BY <1>9 DEF DefaultsQuestion
  <2>2. /\ results' \in ResultsType /\ repairs' \in 0 .. MaxRepairs + 1
        /\ pc' \in {"call", "ended"} /\ Running'
        /\ outcome' \in {"none", "completed anyway", "failed", "raised", "running"}
        /\ UNCHANGED <<policy, via, steps, limit, offered, resumes, asked, parked, pending>>
    BY <1>9, <2>1, FinishType DEF DefaultsQuestion
  <2>3. cache' \in {NoCopy, "fresh"}
    BY <1>9, CachedType DEF DefaultsQuestion, TypeOK, CacheFollowsWork
  <2>4. left' \in 0 .. MaxBatch /\ children' \in Nat
    BY <1>9, Numbers DEF DefaultsQuestion
  <2>5. last' \in LastType /\ plan' \in BOOLEAN /\ budget' = budget
    BY <1>9, DidType DEF DefaultsQuestion, TypeOK
  <2>. QED
    BY <2>1, <2>2, <2>3, <2>4, <2>5
       DEF TypeOK, CacheFollowsWork, NoCopy
<1>10. ASSUME NEW q \in SUBSET Markers, AskTool(q)
      PROVE  TypeOK' /\ Running' /\ CacheFollowsWork'
  <2>1. left' \in 0 .. MaxBatch
    BY <1>10, Numbers DEF AskTool
  <2>2. asked' \in BOOLEAN
    BY <1>10, Zenon DEF AskTool
  <2>3. /\ pc = "call" /\ pc' = "parked" /\ parked' = "answer" /\ pending' = "ask_user_question"
        /\ UNCHANGED <<policy, via, steps, limit, offered, resumes, plan, results, cache, repairs,
                       outcome, last, budget, children>>
    BY <1>10 DEF AskTool, Park, turnVars
  <2>4. pending' \in Tools
    BY <2>3 DEF Tools, ControlFlow, Question
  <2>. QED
    BY <2>1, <2>2, <2>3, <2>4 DEF TypeOK, Running, CacheFollowsWork
<1>11. ASSUME NEW q \in SUBSET Markers, DrainQuestion(q)
      PROVE  TypeOK' /\ Running' /\ CacheFollowsWork'
  <2>1. results' \in ResultsType
    BY <1>11, PolicyIs, ResultType DEF DrainQuestion
  <2>2. left' \in 0 .. MaxBatch
    BY <1>11, Numbers DEF DrainQuestion
  <2>. QED
    BY <1>11, <2>1, <2>2 DEF DrainQuestion, turnVars, TypeOK, Running, CacheFollowsWork, NoCopy
<1>12. ASSUME NEW g \in Batches, ReadsGated(g)
      PROVE  TypeOK' /\ Running' /\ CacheFollowsWork'
  <2>1. g[1] \in Tools
    BY <1>12, ReactStepsAssumption DEF Batches
  <2>2. left' \in 0 .. MaxBatch
    BY <1>12, BatchIs, Numbers, SMTT(30) DEF ReadsGated
  <2>. QED
    BY <1>12, <2>1, <2>2 DEF ReadsGated, Park, turnVars, TypeOK, Running, CacheFollowsWork, NoCopy
<1>13. ASSUME NEW g \in Batches, NEW ok \in SUBSET DOMAIN g, ReadsTogether(g, ok)
      PROVE  TypeOK' /\ Running' /\ CacheFollowsWork'
  <2>1. Len(g) \in Nat /\ Len(g) >= 2
    BY <1>13, BatchIs
  <2>2. left' \in 0 .. MaxBatch /\ last' \in LastType /\ cache' \in {cache, "fresh"}
    BY <1>13, <2>1, Numbers, PlanIs, DidType DEF ReadsTogether
  <2>3. results' \in ResultsType
    <3> DEFINE st(i) == IF i \in ok THEN "completed" ELSE "failed"
               r == WithResult(results, g[Len(g)], st(Len(g)))
               x == results.good \/ ok # {}
    <3>1. r \in ResultsType
      BY PolicyIs, ResultType
    <3>2. x \in BOOLEAN
      BY Zenon
    <3>3. results' = [r EXCEPT !.good = x]
      BY <1>13 DEF ReadsTogether
    <3>. QED
      <4> HIDE DEF r, x
      <4>. QED BY <3>1, <3>2, <3>3 DEF ResultsType
  <2>. QED
    BY <1>13, <2>2, <2>3
       DEF ReadsTogether, turnVars, TypeOK, Running, CacheFollowsWork, NoCopy
<1>14. ASSUME NEW t \in Tools, NEW st \in Statuses(t), Executes(t, st)
      PROVE  TypeOK' /\ Running' /\ CacheFollowsWork'
  <2>1. pc = "call"
    BY <1>14 DEF Executes
  <2>2. /\ results' \in ResultsType /\ repairs' \in 0 .. MaxRepairs + 1
        /\ pc' \in {"call", "ended"} /\ Running'
        /\ outcome' \in {"none", "completed anyway", "failed", "raised", "running"}
        /\ UNCHANGED <<policy, via, steps, limit, offered, resumes, asked, parked, pending>>
    BY <1>14, <2>1, FinishType DEF Executes
  <2>3. cache' \in {NoCopy, "fresh"}
    BY <1>14, CachedType DEF Executes, TypeOK, CacheFollowsWork
  <2>4. left' \in 0 .. MaxBatch /\ children' \in Nat
    BY <1>14, Numbers DEF Executes
  <2>5. last' \in LastType /\ plan' \in BOOLEAN /\ budget' = budget
    BY <1>14, DidType DEF Executes, TypeOK
  <2>. QED
    BY <2>1, <2>2, <2>3, <2>4, <2>5
       DEF TypeOK, CacheFollowsWork, NoCopy
<1>15. CASE EntersPlan
  <2>1. results' \in ResultsType
    BY <1>15, PolicyIs, ResultType DEF EntersPlan
  <2>2. left' \in 0 .. MaxBatch
    BY <1>15, Numbers DEF EntersPlan
  <2>. QED
    BY <1>15, <2>1, <2>2 DEF EntersPlan, turnVars, TypeOK, Running, CacheFollowsWork, NoCopy
<1>16. CASE ExitsPlan
  <2>1. left' \in 0 .. MaxBatch
    BY <1>16, Numbers DEF ExitsPlan
  <2>2. plan' \in BOOLEAN
    BY <1>16, Zenon DEF ExitsPlan
  <2>3. /\ pc = "call" /\ pc' = "parked" /\ parked' = "plan" /\ pending' = "exit_plan_mode"
        /\ UNCHANGED <<policy, via, steps, limit, offered, resumes, asked, results, cache, repairs,
                       outcome, last, budget, children>>
    BY <1>16 DEF ExitsPlan, Park, turnVars
  <2>4. pending' \in Tools
    BY <2>3 DEF Tools, ControlFlow, Question
  <2>. QED
    BY <2>1, <2>2, <2>3, <2>4 DEF TypeOK, Running, CacheFollowsWork
<1>17. CASE TurnDone
  BY <1>17 DEF TurnDone, turnVars, TypeOK, Running, CacheFollowsWork, NoCopy
<1>18. ASSUME NEW t \in Tools, NEW st \in Statuses(t), Drain(t, st)
      PROVE  TypeOK' /\ Running' /\ CacheFollowsWork'
  <2>1. results' \in ResultsType
    BY <1>18, PolicyIs, ResultType DEF Drain
  <2>2. left' \in 0 .. MaxBatch /\ last' \in LastType
    BY <1>18, Numbers, PlanIs, DidType DEF Drain
  <2>. QED
    BY <1>18, <2>1, <2>2 DEF Drain, turnVars, TypeOK, Running, CacheFollowsWork, NoCopy
<1>19. ASSUME NEW t \in Gated \cup {"ask_user_question", "exit_plan_mode"}, DrainParks(t)
      PROVE  TypeOK' /\ Running' /\ CacheFollowsWork'
  <2> DEFINE why == CASE t = "ask_user_question" -> "answer"
                      [] t = "exit_plan_mode" -> "plan"
                      [] OTHER -> "gate"
  <2>1. why \in {"answer", "plan", "gate"}
    OBVIOUS
  <2>2. t \in Tools
    BY DEF Gated, Tools, Writes, Reads, MCP, ControlFlow, Question
  <2>3. plan' \in BOOLEAN /\ asked' \in BOOLEAN
    BY <1>19, Zenon DEF DrainParks
  <2>4. /\ pc = "drain" /\ left' \in 0 .. MaxBatch /\ pc' = "parked" /\ parked' = why /\ pending' = t
        /\ UNCHANGED <<policy, via, steps, limit, offered, resumes, results, cache, repairs, outcome,
                       last, budget, children>>
    BY <1>19, Numbers DEF DrainParks, Park, turnVars
  <2>. QED
    <3> HIDE DEF why
    <3>. QED BY <2>1, <2>2, <2>3, <2>4 DEF TypeOK, Running, CacheFollowsWork
<1>20. CASE DrainEntersPlan
  <2>1. results' \in ResultsType
    BY <1>20, PolicyIs, ResultType DEF DrainEntersPlan
  <2>2. left' \in 0 .. MaxBatch
    BY <1>20, Numbers DEF DrainEntersPlan
  <2>. QED
    BY <1>20, <2>1, <2>2 DEF DrainEntersPlan, turnVars, TypeOK, Running, CacheFollowsWork, NoCopy
<1>21. CASE DrainDone
  BY <1>21 DEF DrainDone, turnVars, TypeOK, Running, CacheFollowsWork, NoCopy
<1>22. CASE ResumeQuestion
  BY <1>22, ReactStepsAssumption DEF ResumeQuestion, Resumed, TypeOK, Running, CacheFollowsWork, NoCopy
<1>23. CASE AnswerTool
  <2>1. results' \in ResultsType
    BY <1>23, PolicyIs, ResultType DEF AnswerTool, Resumed
  <2>2. resumes' \in 0 .. MaxResumes
    BY <1>23, Numbers DEF AnswerTool, Resumed
  <2>. QED
    BY <1>23, <2>1, <2>2 DEF AnswerTool, Resumed, turnVars, TypeOK, Running, CacheFollowsWork, NoCopy
<1>24. CASE RejectCall
  BY <1>24 DEF RejectCall, turnVars, TypeOK, Running, CacheFollowsWork, NoCopy
<1>25. ASSUME NEW st \in {"plan_approved", "plan_rejected"}, DecidePlan(st)
      PROVE  TypeOK' /\ Running' /\ CacheFollowsWork'
  <2>1. results' \in ResultsType
    BY <1>25, PolicyIs, ResultType DEF DecidePlan, Resumed
  <2>2. resumes' \in 0 .. MaxResumes
    BY <1>25, Numbers DEF DecidePlan, Resumed
  <2>. QED
    BY <1>25, <2>1, <2>2 DEF DecidePlan, Resumed, turnVars, TypeOK, Running, CacheFollowsWork, NoCopy
<1>26. ASSUME NEW st \in {"applied", "failed", "validation_failed", "worktree_binding_failed",
                       "verified", "completed"}, ApproveCall(st)
      PROVE  TypeOK' /\ Running' /\ CacheFollowsWork'
  <2>1. results' \in ResultsType
    BY <1>26, PolicyIs, ResultType DEF ApproveCall, Resumed
  <2>2. resumes' \in 0 .. MaxResumes /\ last' \in LastType
    BY <1>26, Numbers, PlanIs, DidType DEF ApproveCall, Resumed
  <2>. QED
    BY <1>26, <2>1, <2>2 DEF ApproveCall, Resumed, turnVars, TypeOK, Running, CacheFollowsWork, NoCopy
<1>27. CASE Rest
  BY <1>27 DEF Rest, vars, TypeOK, Running, CacheFollowsWork, NoCopy
<1>28. CASE UNCHANGED vars
  BY <1>28, ZenonT(40) DEF vars, TypeOK, Running, CacheFollowsWork, NoCopy
<1>. QED
  BY <1>1, <1>2, <1>3, <1>4, <1>5, <1>6, <1>7, <1>8, <1>9, <1>10, <1>11, <1>12,
     <1>13, <1>14, <1>15, <1>16, <1>17, <1>18, <1>19, <1>20, <1>21, <1>22,
     <1>23, <1>24, <1>25, <1>26, <1>27, <1>28
     DEF Next, Loop, User

\* A step that leaves the turn and the last call alone keeps the policy.
LEMMA PolicyFrame ==
  ASSUME NoWriteOffered, LoopKeepsPolicy, UNCHANGED <<policy, offered, last>>,
         pc' = "call" => pc = "call"
  PROVE  NoWriteOffered' /\ LoopKeepsPolicy'
BY DEF NoWriteOffered, LoopKeepsPolicy, Reader

\* A turn offers no write to a policy that must not write.
LEMMA PolicyTurn ==
  ASSUME TypeOK, NEW done, Turn(done)
  PROVE  NoWriteOffered' /\ LoopKeepsPolicy'
<1>1. policy' = policy /\ last' = Nothing /\ offered' = Offered(policy, plan, asked, results)
  BY DEF Turn
<1>2. LoopKeepsPolicy'
  BY <1>1 DEF LoopKeepsPolicy, Nothing
<1>3. Reader' => Reader
  BY <1>1 DEF Reader
<1>4. NoWriteOffered'
  BY <1>1, <1>3, PolicyIs, ReaderOffered DEF NoWriteOffered
<1>. QED BY <1>2, <1>4

\* A step keeps the policy of the task.
LEMMA PolicyStep ==
  ASSUME TypeOK, Running, NoWriteOffered, LoopKeepsPolicy, [Next]_vars
  PROVE  NoWriteOffered' /\ LoopKeepsPolicy'
<1>1. CASE Converge
  BY <1>1, PolicyFrame DEF Converge, Park, Leave
<1>2. CASE Answers
  BY <1>2, PolicyFrame, PolicyTurn DEF Answers, Turn, Leave
<1>3. ASSUME NEW n \in 1 .. MaxBatch, Calls(n)
      PROVE  NoWriteOffered' /\ LoopKeepsPolicy'
  BY <1>3, PolicyFrame, PolicyTurn DEF Calls, Turn
<1>4. ASSUME NEW t \in Tools, Blocked(t)
      PROVE  NoWriteOffered' /\ LoopKeepsPolicy'
  <2>1. pc = "call" /\ last' = last /\ UNCHANGED <<policy, offered>>
    BY <1>4, FinishType DEF Blocked
  <2>. QED BY <2>1, PolicyFrame
<1>5. ASSUME NEW t \in Tools, Gates(t)
      PROVE  NoWriteOffered' /\ LoopKeepsPolicy'
  BY <1>5, PolicyFrame DEF Gates, Park, turnVars
<1>6. CASE ServesCached
  <2>1. pc = "call" /\ last' = last /\ UNCHANGED <<policy, offered>>
    BY <1>6, FinishType DEF ServesCached
  <2>. QED BY <2>1, PolicyFrame
<1>7. ASSUME NEW q \in SUBSET Markers, AsksUser(q)
      PROVE  NoWriteOffered' /\ LoopKeepsPolicy'
  BY <1>7, PolicyFrame, PolicyTurn DEF AsksUser, Turn, Park
<1>8. ASSUME NEW q \in SUBSET Markers, AsksDefault(q)
      PROVE  NoWriteOffered' /\ LoopKeepsPolicy'
  BY <1>8, PolicyFrame, PolicyTurn DEF AsksDefault, Turn
<1>9. ASSUME NEW q \in SUBSET Markers, DefaultsQuestion(q)
      PROVE  NoWriteOffered' /\ LoopKeepsPolicy'
  <2>1. pc = "call" /\ last' = last /\ UNCHANGED <<policy, offered>>
    BY <1>9, FinishType DEF DefaultsQuestion
  <2>. QED BY <2>1, PolicyFrame
<1>10. ASSUME NEW q \in SUBSET Markers, AskTool(q)
      PROVE  NoWriteOffered' /\ LoopKeepsPolicy'
  BY <1>10, PolicyFrame DEF AskTool, Park, turnVars
<1>11. ASSUME NEW q \in SUBSET Markers, DrainQuestion(q)
      PROVE  NoWriteOffered' /\ LoopKeepsPolicy'
  BY <1>11, PolicyFrame DEF DrainQuestion, turnVars
<1>12. ASSUME NEW g \in Batches, ReadsGated(g)
      PROVE  NoWriteOffered' /\ LoopKeepsPolicy'
  BY <1>12, PolicyFrame DEF ReadsGated, Park, turnVars
<1>13. ASSUME NEW g \in Batches, NEW ok \in SUBSET DOMAIN g, ReadsTogether(g, ok)
      PROVE  NoWriteOffered' /\ LoopKeepsPolicy'
  <2>1. pc = "call" /\ last' = Did(g[Len(g)], "loop") /\ UNCHANGED <<policy, offered>> /\ Groups(g)
    BY <1>13 DEF ReadsTogether, turnVars
  <2>2. NoWriteOffered'
    BY <2>1 DEF NoWriteOffered, Reader
  <2>3. g[Len(g)] \in Reads
    BY <2>1, BatchIs DEF Groups, Safe, ParallelReads, Reads
  <2>4. last'.did = "nothing"
    BY <2>1, <2>3, DidType, PlanIs
  <2>. QED BY <2>2, <2>4 DEF LoopKeepsPolicy
<1>14. ASSUME NEW t \in Tools, NEW st \in Statuses(t), Executes(t, st)
      PROVE  NoWriteOffered' /\ LoopKeepsPolicy'
  <2>1. pc = "call" /\ Available(t) /\ last' = Did(t, "loop") /\ UNCHANGED <<policy, offered>>
    BY <1>14, FinishType DEF Executes
  <2>2. NoWriteOffered'
    BY <2>1 DEF NoWriteOffered, Reader
  <2>3. Reader' => Reader
    BY <2>1 DEF Reader
  <2>4. Reader => t \notin Writes
    BY <2>1 DEF NoWriteOffered, Available
  <2>5. plan => t \in Reads \cup {"exit_plan_mode"}
    BY <2>1 DEF Available, PlanAllows, PlanModeTools
  <2>6. LoopKeepsPolicy'
    BY <2>1, <2>3, <2>4, <2>5, DidType, PlanIs DEF LoopKeepsPolicy
  <2>. QED BY <2>2, <2>6
<1>15. CASE EntersPlan
  BY <1>15, PolicyFrame DEF EntersPlan, turnVars
<1>16. CASE ExitsPlan
  BY <1>16, PolicyFrame DEF ExitsPlan, Park, turnVars
<1>17. CASE TurnDone
  BY <1>17, PolicyFrame DEF TurnDone, turnVars
<1>18. ASSUME NEW t \in Tools, NEW st \in Statuses(t), Drain(t, st)
      PROVE  NoWriteOffered' /\ LoopKeepsPolicy'
  <2>1. pc' # "call" /\ last'.by = "drain"
    BY <1>18, DidType, PlanIs DEF Drain, turnVars
  <2>. QED BY <2>1 DEF NoWriteOffered, LoopKeepsPolicy
<1>19. ASSUME NEW t \in Gated \cup {"ask_user_question", "exit_plan_mode"}, DrainParks(t)
      PROVE  NoWriteOffered' /\ LoopKeepsPolicy'
  BY <1>19, PolicyFrame DEF DrainParks, Park, turnVars
<1>20. CASE DrainEntersPlan
  BY <1>20, PolicyFrame DEF DrainEntersPlan, turnVars
<1>21. CASE DrainDone
  BY <1>21, PolicyFrame DEF DrainDone, turnVars
<1>22. CASE ResumeQuestion
  BY <1>22, PolicyFrame DEF ResumeQuestion, Resumed
<1>23. CASE AnswerTool
  BY <1>23, PolicyFrame DEF AnswerTool, Resumed
<1>24. CASE RejectCall
  BY <1>24, PolicyFrame DEF RejectCall, turnVars
<1>25. ASSUME NEW st \in {"plan_approved", "plan_rejected"}, DecidePlan(st)
      PROVE  NoWriteOffered' /\ LoopKeepsPolicy'
  BY <1>25, PolicyFrame DEF DecidePlan, Resumed
<1>26. ASSUME NEW st \in {"applied", "failed", "validation_failed", "worktree_binding_failed",
                       "verified", "completed"}, ApproveCall(st)
      PROVE  NoWriteOffered' /\ LoopKeepsPolicy'
  <2>1. pc' # "call" /\ last'.by = "approval"
    BY <1>26, DidType, PlanIs DEF ApproveCall, Resumed
  <2>. QED BY <2>1 DEF NoWriteOffered, LoopKeepsPolicy
<1>27. CASE Rest
  BY <1>27, PolicyFrame, PolicyFrame DEF Rest, vars
<1>28. CASE UNCHANGED vars
  BY <1>28, PolicyFrame DEF vars
<1>. QED
  BY <1>1, <1>2, <1>3, <1>4, <1>5, <1>6, <1>7, <1>8, <1>9, <1>10, <1>11, <1>12,
     <1>13, <1>14, <1>15, <1>16, <1>17, <1>18, <1>19, <1>20, <1>21, <1>22,
     <1>23, <1>24, <1>25, <1>26, <1>27, <1>28
     DEF Next, Loop, User

\* A larger budget grows to a larger one.
LEMMA GrantGrows ==
  ASSUME NEW m \in Nat, NEW n \in Nat, m <= n
  PROVE  m + Grant(m) <= n + Grant(n) /\ n <= n + Grant(n)
BY GrantIs

\* A step that leaves the budget alone, parked no longer or for another reason.
LEMMA LimitFrame ==
  ASSUME TypeOK, LimitGranted, UNCHANGED <<steps, limit>>,
         IF parked = "question" THEN resumes' = resumes + 1 \/ UNCHANGED <<parked, resumes>>
         ELSE resumes' \in {resumes, resumes + 1} /\ parked' # "question"
  PROVE  LimitGranted'
<1>1. resumes \in Nat /\ limit \in Nat /\ steps \in Nat
  BY Numbers
<1>2. /\ Granted[resumes] \in Nat /\ Granted[resumes + 1] \in Nat
      /\ Granted[(resumes + 1) + 1] \in Nat
      /\ Granted[resumes] <= Granted[resumes + 1]
      /\ Granted[resumes + 1] <= Granted[(resumes + 1) + 1]
  BY <1>1, GrantedStep, GrantGrows
<1>3. CASE parked = "question"
  BY <1>1, <1>2, <1>3 DEF LimitGranted
<1>4. CASE parked # "question"
  BY <1>1, <1>2, <1>4 DEF LimitGranted
<1>. QED BY <1>3, <1>4

\* A step of a loop that has no outcome and gets none.
LEMMA NoOutcome == ASSUME outcome' # "completed" PROVE NotExhausted'
BY DEF NotExhausted

\* A step of a turn keeps to the limit.
LEMMA LimitTurn ==
  ASSUME TypeOK, LimitGranted, NEW done, Turn(done)
  PROVE  LimitGranted'
<1>1. /\ steps' = steps + 1 /\ steps < limit /\ UNCHANGED <<limit, resumes>> /\ pc = "top"
  BY DEF Turn
<1>2. parked = "no"
  BY <1>1 DEF TypeOK
<1>3. /\ resumes \in Nat /\ limit \in Nat /\ steps \in Nat
      /\ Granted[resumes] \in Nat /\ Granted[resumes] <= Granted[resumes + 1]
      /\ Granted[resumes + 1] \in Nat
  BY Numbers, GrantedStep, GrantGrows
<1>. QED BY <1>1, <1>2, <1>3 DEF LimitGranted

\* A step keeps to the budget of steps and to what is stored of it.
LEMMA BudgetStep ==
  ASSUME TypeOK, Running, LimitGranted, NotExhausted, [Next]_vars
  PROVE  LimitGranted' /\ NotExhausted'
<1>1. CASE Converge
  <2>1. /\ pc = "top" /\ steps >= limit /\ UNCHANGED <<steps, resumes>>
    BY <1>1 DEF Converge
  <2>2. parked = "no" /\ outcome = "none"
    BY <2>1 DEF TypeOK, Running
  <2>3. CASE results.any /\ ~results.good
    <3>1. Leave("failed") /\ UNCHANGED <<limit, parked>>
      BY <1>1, <2>3 DEF Converge
    <3>2. outcome' # "completed"
      BY <3>1 DEF Leave
    <3>. QED BY <2>1, <2>2, <3>1, <3>2, LimitFrame, NoOutcome
  <2>4. CASE ~(results.any /\ ~results.good)
    <3>1. limit' = Extended /\ parked' = "question" /\ outcome' = outcome
      BY <1>1, <2>4 DEF Converge, Park
    <3>2. /\ steps \in Nat /\ limit \in Nat /\ resumes \in Nat
          /\ steps <= limit /\ limit <= Granted[resumes]
      BY <2>2, Numbers DEF LimitGranted
    <3>3. steps = limit /\ limit' = limit + Grant(limit)
      BY <2>1, <3>1, <3>2, ExtendedIs
    <3>4. Granted[resumes] \in Nat /\ Granted[resumes + 1] = Granted[resumes] + Grant(Granted[resumes])
      BY <3>2, GrantedStep
    <3>5. limit' <= Granted[resumes + 1] /\ steps <= limit'
      BY <3>2, <3>3, <3>4, GrantGrows
    <3>. QED BY <2>1, <2>2, <3>1, <3>5, NoOutcome DEF LimitGranted
  <2>. QED BY <2>3, <2>4
<1>2. CASE Answers
  <2>1. Turn(TRUE) /\ budget' = Progress(TRUE)
    BY <1>2 DEF Answers, Turn
  <2>2. budget'.pressure # "exhausted"
    BY <2>1, ProgressType DEF TypeOK
  <2>. QED BY <2>1, <2>2, LimitTurn DEF NotExhausted
<1>3. ASSUME NEW n \in 1 .. MaxBatch, Calls(n)
      PROVE  LimitGranted' /\ NotExhausted'
  <2>1. pc = "top" /\ outcome' = outcome
    BY <1>3 DEF Calls, Turn
  <2>. QED BY <1>3, <2>1, LimitTurn, NoOutcome DEF Calls, Running
<1>4. ASSUME NEW t \in Tools, Blocked(t)
      PROVE  LimitGranted' /\ NotExhausted'
  <2>1. pc = "call"
    BY <1>4 DEF Blocked
  <2>2. UNCHANGED <<steps, limit, resumes, parked>> /\ outcome' # "completed"
    BY <1>4, <2>1, FinishType DEF Blocked
  <2>3. parked = "no"
    BY <2>1 DEF TypeOK
  <2>. QED BY <2>2, <2>3, LimitFrame, NoOutcome
<1>5. ASSUME NEW t \in Tools, Gates(t)
      PROVE  LimitGranted' /\ NotExhausted'
  <2>1. /\ pc = "call" /\ UNCHANGED <<steps, limit, resumes, outcome>>
        /\ parked' # "question" \/ parked' = parked
    BY <1>5 DEF Gates, Park, turnVars
  <2>2. parked = "no" /\ outcome = "none"
    BY <2>1 DEF TypeOK, Running
  <2>. QED BY <2>1, <2>2, LimitFrame, NoOutcome
<1>6. CASE ServesCached
  <2>1. pc = "call"
    BY <1>6 DEF ServesCached
  <2>2. UNCHANGED <<steps, limit, resumes, parked>> /\ outcome' # "completed"
    BY <1>6, <2>1, FinishType DEF ServesCached
  <2>3. parked = "no"
    BY <2>1 DEF TypeOK
  <2>. QED BY <2>2, <2>3, LimitFrame, NoOutcome
<1>7. ASSUME NEW q \in SUBSET Markers, AsksUser(q)
      PROVE  LimitGranted' /\ NotExhausted'
  <2>1. pc = "top" /\ outcome' = outcome
    BY <1>7 DEF AsksUser, Turn
  <2>. QED BY <1>7, <2>1, LimitTurn, NoOutcome DEF AsksUser, Running
<1>8. ASSUME NEW q \in SUBSET Markers, AsksDefault(q)
      PROVE  LimitGranted' /\ NotExhausted'
  <2>1. pc = "top" /\ outcome' = outcome
    BY <1>8 DEF AsksDefault, Turn
  <2>. QED BY <1>8, <2>1, LimitTurn, NoOutcome DEF AsksDefault, Running
<1>9. ASSUME NEW q \in SUBSET Markers, DefaultsQuestion(q)
      PROVE  LimitGranted' /\ NotExhausted'
  <2>1. pc = "call"
    BY <1>9 DEF DefaultsQuestion
  <2>2. UNCHANGED <<steps, limit, resumes, parked>> /\ outcome' # "completed"
    BY <1>9, <2>1, FinishType DEF DefaultsQuestion
  <2>3. parked = "no"
    BY <2>1 DEF TypeOK
  <2>. QED BY <2>2, <2>3, LimitFrame, NoOutcome
<1>10. ASSUME NEW q \in SUBSET Markers, AskTool(q)
      PROVE  LimitGranted' /\ NotExhausted'
  <2>1. /\ pc = "call" /\ UNCHANGED <<steps, limit, resumes, outcome>>
        /\ parked' # "question" \/ parked' = parked
    BY <1>10 DEF AskTool, Park, turnVars
  <2>2. parked = "no" /\ outcome = "none"
    BY <2>1 DEF TypeOK, Running
  <2>. QED BY <2>1, <2>2, LimitFrame, NoOutcome
<1>11. ASSUME NEW q \in SUBSET Markers, DrainQuestion(q)
      PROVE  LimitGranted' /\ NotExhausted'
  <2>1. /\ pc = "drain" /\ UNCHANGED <<steps, limit, resumes, outcome>>
        /\ parked' # "question" \/ parked' = parked
    BY <1>11 DEF DrainQuestion, turnVars
  <2>2. parked = "no" /\ outcome = "none"
    BY <2>1 DEF TypeOK, Running
  <2>. QED BY <2>1, <2>2, LimitFrame, NoOutcome
<1>12. ASSUME NEW g \in Batches, ReadsGated(g)
      PROVE  LimitGranted' /\ NotExhausted'
  <2>1. /\ pc = "call" /\ UNCHANGED <<steps, limit, resumes, outcome>>
        /\ parked' # "question" \/ parked' = parked
    BY <1>12 DEF ReadsGated, Park, turnVars
  <2>2. parked = "no" /\ outcome = "none"
    BY <2>1 DEF TypeOK, Running
  <2>. QED BY <2>1, <2>2, LimitFrame, NoOutcome
<1>13. ASSUME NEW g \in Batches, NEW ok \in SUBSET DOMAIN g, ReadsTogether(g, ok)
      PROVE  LimitGranted' /\ NotExhausted'
  <2>1. /\ pc = "call" /\ UNCHANGED <<steps, limit, resumes, outcome>>
        /\ parked' # "question" \/ parked' = parked
    BY <1>13 DEF ReadsTogether, turnVars
  <2>2. parked = "no" /\ outcome = "none"
    BY <2>1 DEF TypeOK, Running
  <2>. QED BY <2>1, <2>2, LimitFrame, NoOutcome
<1>14. ASSUME NEW t \in Tools, NEW st \in Statuses(t), Executes(t, st)
      PROVE  LimitGranted' /\ NotExhausted'
  <2>1. pc = "call"
    BY <1>14 DEF Executes
  <2>2. UNCHANGED <<steps, limit, resumes, parked>> /\ outcome' # "completed"
    BY <1>14, <2>1, FinishType DEF Executes
  <2>3. parked = "no"
    BY <2>1 DEF TypeOK
  <2>. QED BY <2>2, <2>3, LimitFrame, NoOutcome
<1>15. CASE EntersPlan
  <2>1. /\ pc = "call" /\ UNCHANGED <<steps, limit, resumes, outcome>>
        /\ parked' # "question" \/ parked' = parked
    BY <1>15 DEF EntersPlan, turnVars
  <2>2. parked = "no" /\ outcome = "none"
    BY <2>1 DEF TypeOK, Running
  <2>. QED BY <2>1, <2>2, LimitFrame, NoOutcome
<1>16. CASE ExitsPlan
  <2>1. /\ pc = "call" /\ UNCHANGED <<steps, limit, resumes, outcome>>
        /\ parked' # "question" \/ parked' = parked
    BY <1>16 DEF ExitsPlan, Park, turnVars
  <2>2. parked = "no" /\ outcome = "none"
    BY <2>1 DEF TypeOK, Running
  <2>. QED BY <2>1, <2>2, LimitFrame, NoOutcome
<1>17. CASE TurnDone
  <2>1. /\ pc = "call" /\ UNCHANGED <<steps, limit, resumes, outcome>>
        /\ parked' # "question" \/ parked' = parked
    BY <1>17 DEF TurnDone, turnVars
  <2>2. parked = "no" /\ outcome = "none"
    BY <2>1 DEF TypeOK, Running
  <2>. QED BY <2>1, <2>2, LimitFrame, NoOutcome
<1>18. ASSUME NEW t \in Tools, NEW st \in Statuses(t), Drain(t, st)
      PROVE  LimitGranted' /\ NotExhausted'
  <2>1. /\ pc = "drain" /\ UNCHANGED <<steps, limit, resumes, outcome>>
        /\ parked' # "question" \/ parked' = parked
    BY <1>18 DEF Drain, turnVars
  <2>2. parked = "no" /\ outcome = "none"
    BY <2>1 DEF TypeOK, Running
  <2>. QED BY <2>1, <2>2, LimitFrame, NoOutcome
<1>19. ASSUME NEW t \in Gated \cup {"ask_user_question", "exit_plan_mode"}, DrainParks(t)
      PROVE  LimitGranted' /\ NotExhausted'
  <2>1. /\ pc = "drain" /\ UNCHANGED <<steps, limit, resumes, outcome>>
        /\ parked' # "question" \/ parked' = parked
    BY <1>19 DEF DrainParks, Park, turnVars
  <2>2. parked = "no" /\ outcome = "none"
    BY <2>1 DEF TypeOK, Running
  <2>. QED BY <2>1, <2>2, LimitFrame, NoOutcome
<1>20. CASE DrainEntersPlan
  <2>1. /\ pc = "drain" /\ UNCHANGED <<steps, limit, resumes, outcome>>
        /\ parked' # "question" \/ parked' = parked
    BY <1>20 DEF DrainEntersPlan, turnVars
  <2>2. parked = "no" /\ outcome = "none"
    BY <2>1 DEF TypeOK, Running
  <2>. QED BY <2>1, <2>2, LimitFrame, NoOutcome
<1>21. CASE DrainDone
  <2>1. /\ pc = "drain" /\ UNCHANGED <<steps, limit, resumes, outcome>>
        /\ parked' # "question" \/ parked' = parked
    BY <1>21 DEF DrainDone, turnVars
  <2>2. parked = "no" /\ outcome = "none"
    BY <2>1 DEF TypeOK, Running
  <2>. QED BY <2>1, <2>2, LimitFrame, NoOutcome
<1>22. CASE ResumeQuestion
  <2>1. /\ pc = "parked" /\ resumes' = resumes + 1 /\ parked' = "no"
        /\ UNCHANGED <<steps, limit, outcome>>
    BY <1>22 DEF ResumeQuestion, Resumed
  <2>. QED BY <2>1, LimitFrame, NoOutcome DEF Running
<1>23. CASE AnswerTool
  <2>1. /\ pc = "parked" /\ resumes' = resumes + 1 /\ parked' = "no"
        /\ UNCHANGED <<steps, limit, outcome>>
    BY <1>23 DEF AnswerTool, Resumed
  <2>. QED BY <2>1, LimitFrame, NoOutcome DEF Running
<1>24. CASE RejectCall
  <2>1. /\ parked = "gate" /\ parked' = "no" /\ UNCHANGED <<steps, limit, resumes>>
        /\ outcome' = "failed"
    BY <1>24 DEF RejectCall, turnVars
  <2>. QED BY <2>1, LimitFrame, NoOutcome
<1>25. ASSUME NEW st \in {"plan_approved", "plan_rejected"}, DecidePlan(st)
      PROVE  LimitGranted' /\ NotExhausted'
  <2>1. /\ pc = "parked" /\ resumes' = resumes + 1 /\ parked' = "no"
        /\ UNCHANGED <<steps, limit, outcome>>
    BY <1>25 DEF DecidePlan, Resumed
  <2>. QED BY <2>1, LimitFrame, NoOutcome DEF Running
<1>26. ASSUME NEW st \in {"applied", "failed", "validation_failed", "worktree_binding_failed",
                       "verified", "completed"}, ApproveCall(st)
      PROVE  LimitGranted' /\ NotExhausted'
  <2>1. /\ pc = "parked" /\ resumes' = resumes + 1 /\ parked' = "no"
        /\ UNCHANGED <<steps, limit, outcome>>
    BY <1>26 DEF ApproveCall, Resumed
  <2>. QED BY <2>1, LimitFrame, NoOutcome DEF Running
<1>27. CASE Rest
  <2>1. UNCHANGED <<steps, limit, resumes, parked, outcome, budget>>
    BY <1>27 DEF Rest, vars
  <2>. QED BY <2>1 DEF LimitGranted, NotExhausted
<1>28. CASE UNCHANGED vars
  <2>1. UNCHANGED <<steps, limit, resumes, parked, outcome, budget>>
    BY <1>28 DEF vars
  <2>. QED BY <2>1 DEF LimitGranted, NotExhausted
<1>. QED
  BY <1>1, <1>2, <1>3, <1>4, <1>5, <1>6, <1>7, <1>8, <1>9, <1>10, <1>11, <1>12,
     <1>13, <1>14, <1>15, <1>16, <1>17, <1>18, <1>19, <1>20, <1>21, <1>22,
     <1>23, <1>24, <1>25, <1>26, <1>27, <1>28
     DEF Next, Loop, User

\* A step that starts no child and adds no call to a turn.
LEMMA ChildFrame ==
  ASSUME TypeOK, ChildrenCounted, UNCHANGED <<policy, children>>,
         results'.ready \in Nat, results'.ready >= results.ready,
         pc' = "call" => pc = "call" /\ offered' = offered /\ left' \in Nat /\ left' <= left
  PROVE  ChildrenCounted'
<1>1. children \in Nat /\ left \in Nat /\ results.ready \in Nat /\ MaxBatch \in Nat
  BY Numbers
<1>2. Bound(policy) \in Nat /\ Bound(policy') = Bound(policy) /\ Limited(policy') = Limited(policy)
  <2>1. policy.maxTasks \in Nat
    BY PolicyIs DEF PolicyType
  <2>. QED BY <2>1 DEF Bound
<1>3. children' <= results'.ready
  BY <1>1 DEF ChildrenCounted
<1>4. ASSUME Limited(policy)
      PROVE  /\ children' <= Bound(policy) - 1 + MaxBatch
             /\ pc' = "call" /\ offered' \cap Subagents # {}
                  => children' + left' <= Bound(policy) - 1 + MaxBatch
  <2>1. children <= Bound(policy) - 1 + MaxBatch
    BY <1>4 DEF ChildrenCounted
  <2>2. ASSUME pc' = "call", offered' \cap Subagents # {}
        PROVE  children + left' <= Bound(policy) - 1 + MaxBatch
    <3>1. children + left <= Bound(policy) - 1 + MaxBatch
      BY <1>4, <2>2 DEF ChildrenCounted
    <3>. QED BY <1>1, <1>2, <2>2, <3>1
  <2>. QED BY <2>1, <2>2
<1>. QED BY <1>2, <1>3, <1>4 DEF ChildrenCounted

\* A turn that offers children leaves room for one in each of its calls.
LEMMA ChildTurn ==
  ASSUME TypeOK, ChildrenCounted, NEW done, Turn(done),
         pc' = "call" => left' \in Nat /\ left' <= MaxBatch
  PROVE  ChildrenCounted'
<1>1. /\ UNCHANGED <<policy, results, children>>
      /\ offered' = Offered(policy, plan, asked, results)
  BY DEF Turn
<1>2. children \in Nat /\ results.ready \in Nat /\ MaxBatch \in Nat /\ Bound(policy) \in Nat
  <2>1. policy.maxTasks \in Nat
    BY PolicyIs DEF PolicyType
  <2>. QED BY <2>1, Numbers DEF Bound
<1>3. ASSUME Limited(policy), pc' = "call", offered' \cap Subagents # {}
      PROVE  children + left' <= Bound(policy) - 1 + MaxBatch
  <2>1. results.ready <= Bound(policy) - 1
    BY <1>1, <1>3, PolicyIs, ChildrenOffered
  <2>2. children <= results.ready
    BY DEF ChildrenCounted
  <2>. QED BY <1>2, <1>3, <2>1, <2>2
<1>. QED BY <1>1, <1>3 DEF ChildrenCounted

\* A step keeps the count of the children.
LEMMA ChildStep ==
  ASSUME TypeOK, Running, ChildrenCounted, [Next]_vars
  PROVE  ChildrenCounted'
<1>1. CASE Converge
  <2>1. UNCHANGED <<policy, children, results>> /\ pc' # "call"
    BY <1>1 DEF Converge, Park, Leave
  <2>. QED BY <2>1, Numbers, ChildFrame
<1>2. CASE Answers
  BY <1>2, ChildTurn DEF Answers, Turn, Leave
<1>3. ASSUME NEW n \in 1 .. MaxBatch, Calls(n)
      PROVE  ChildrenCounted'
  <2>1. Turn(FALSE) /\ left' = n
    BY <1>3, Zenon DEF Calls
  <2>2. left' \in Nat /\ left' <= MaxBatch
    BY <2>1, ReactStepsAssumption
  <2>. QED BY <2>1, <2>2, ChildTurn
<1>4. ASSUME NEW t \in Tools, Blocked(t)
      PROVE  ChildrenCounted'
  <2>1. pc = "call" /\ left' = left - 1 /\ left > 0 /\ children' = children
    BY <1>4 DEF Blocked
  <2>2. UNCHANGED <<policy, offered>> /\ results'.ready \in Nat /\ results'.ready >= results.ready
    BY <1>4, <2>1, FinishType, PolicyIs, ResultType, ZenonT(40) DEF Blocked, ResultsType
  <2>3. left' \in Nat /\ left' <= left
    BY <2>1, Numbers
  <2>. QED BY <2>1, <2>2, <2>3, ChildFrame
<1>5. ASSUME NEW t \in Tools, Gates(t)
      PROVE  ChildrenCounted'
  <2>1. UNCHANGED <<policy, children, results>> /\ pc' # "call"
    BY <1>5 DEF Gates, Park, turnVars
  <2>. QED BY <2>1, Numbers, ChildFrame
<1>6. CASE ServesCached
  <2>1. pc = "call" /\ left' = left - 1 /\ left > 0 /\ children' = children
    BY <1>6 DEF ServesCached
  <2>2. UNCHANGED <<policy, offered>> /\ results'.ready \in Nat /\ results'.ready >= results.ready
    BY <1>6, <2>1, FinishType, PolicyIs, ResultType, ZenonT(40) DEF ServesCached, ResultsType
  <2>3. left' \in Nat /\ left' <= left
    BY <2>1, Numbers
  <2>. QED BY <2>1, <2>2, <2>3, ChildFrame
<1>7. ASSUME NEW q \in SUBSET Markers, AsksUser(q)
      PROVE  ChildrenCounted'
  BY <1>7, ChildTurn DEF AsksUser, Turn, Park
<1>8. ASSUME NEW q \in SUBSET Markers, AsksDefault(q)
      PROVE  ChildrenCounted'
  <2>1. Turn(FALSE) /\ pc' # "call"
    BY <1>8 DEF AsksDefault, Turn
  <2>. QED BY <2>1, ChildTurn
<1>9. ASSUME NEW q \in SUBSET Markers, DefaultsQuestion(q)
      PROVE  ChildrenCounted'
  <2>1. pc = "call" /\ left' = left - 1 /\ left > 0 /\ children' = children
    BY <1>9 DEF DefaultsQuestion
  <2>2. UNCHANGED <<policy, offered>> /\ results'.ready \in Nat /\ results'.ready >= results.ready
    BY <1>9, <2>1, FinishType, PolicyIs, ResultType, ZenonT(40) DEF DefaultsQuestion, ResultsType
  <2>3. left' \in Nat /\ left' <= left
    BY <2>1, Numbers
  <2>. QED BY <2>1, <2>2, <2>3, ChildFrame
<1>10. ASSUME NEW q \in SUBSET Markers, AskTool(q)
      PROVE  ChildrenCounted'
  <2>1. UNCHANGED <<policy, children, results>> /\ pc' # "call"
    BY <1>10 DEF AskTool, Park, turnVars
  <2>. QED BY <2>1, Numbers, ChildFrame
<1>11. ASSUME NEW q \in SUBSET Markers, DrainQuestion(q)
      PROVE  ChildrenCounted'
  <2>1. UNCHANGED <<policy, children>> /\ pc' # "call"
    BY <1>11 DEF DrainQuestion, turnVars
  <2>2. results'.ready \in Nat /\ results'.ready >= results.ready
    BY <1>11, PolicyIs, ResultType DEF DrainQuestion, ResultsType
  <2>. QED BY <2>1, <2>2, ChildFrame
<1>12. ASSUME NEW g \in Batches, ReadsGated(g)
      PROVE  ChildrenCounted'
  <2>1. UNCHANGED <<policy, children, results>> /\ pc' # "call"
    BY <1>12 DEF ReadsGated, Park, turnVars
  <2>. QED BY <2>1, Numbers, ChildFrame
<1>13. ASSUME NEW g \in Batches, NEW ok \in SUBSET DOMAIN g, ReadsTogether(g, ok)
      PROVE  ChildrenCounted'
  <2>1. /\ UNCHANGED <<policy, children, offered, pc>> /\ pc = "call" /\ Len(g) <= left
        /\ left' = left - Len(g)
    BY <1>13 DEF ReadsTogether, turnVars
  <2>2. results'.ready \in Nat /\ results'.ready >= results.ready
    <3> DEFINE st(i) == IF i \in ok THEN "completed" ELSE "failed"
               r == WithResult(results, g[Len(g)], st(Len(g)))
               x == results.good \/ ok # {}
    <3>1. r \in ResultsType /\ r.ready >= results.ready
      BY PolicyIs, ResultType
    <3>2. results' = [r EXCEPT !.good = x]
      BY <1>13 DEF ReadsTogether
    <3>. QED
      <4> HIDE DEF r, x
      <4>. QED BY <3>1, <3>2 DEF ResultsType
  <2>3. left' \in Nat /\ left' <= left
    BY <2>1, BatchIs, Numbers
  <2>. QED BY <2>1, <2>2, <2>3, ChildFrame
<1>14. ASSUME NEW t \in Tools, NEW st \in Statuses(t), Executes(t, st)
      PROVE  ChildrenCounted'
  <2>1. /\ pc = "call" /\ left' = left - 1 /\ left > 0 /\ t \in offered
        /\ children' = children + (IF Ready(t, st) THEN 1 ELSE 0)
    BY <1>14 DEF Executes, Available
  <2>2. UNCHANGED <<policy, offered>> /\ results' = WithResult(results, t, st)
    BY <1>14, <2>1, FinishType DEF Executes
  <2>3. results'.ready = results.ready + (IF Ready(t, st) THEN 1 ELSE 0)
    BY <2>2, PolicyIs, ResultType
  <2>4. children \in Nat /\ left \in Nat /\ MaxBatch \in Nat /\ results.ready \in Nat
    BY Numbers
  <2>5. CASE ~Ready(t, st)
    <3>1. children' = children /\ results'.ready = results.ready /\ left' \in Nat /\ left' <= left
      BY <2>1, <2>3, <2>4, <2>5
    <3>. QED BY <2>1, <2>2, <2>4, <3>1, ChildFrame
  <2>6. CASE Ready(t, st)
    <3>1. children' = children + 1 /\ results'.ready = results.ready + 1
      BY <2>1, <2>3, <2>6
    <3>2. children' <= results'.ready
      BY <2>4, <3>1 DEF ChildrenCounted
    <3>3. offered \cap Subagents # {}
      BY <2>1, <2>6 DEF Ready
    <3>4. Bound(policy) \in Nat
      BY PolicyIs DEF PolicyType, Bound
    <3>5. ASSUME Limited(policy)
          PROVE  children + left <= Bound(policy) - 1 + MaxBatch
      BY <2>1, <3>3, <3>5 DEF ChildrenCounted
    <3>6. ASSUME Limited(policy)
          PROVE  /\ children' <= Bound(policy) - 1 + MaxBatch
                 /\ children' + left' <= Bound(policy) - 1 + MaxBatch
      BY <2>1, <2>4, <3>1, <3>4, <3>5, <3>6
    <3>. QED BY <2>2, <3>2, <3>6 DEF ChildrenCounted
  <2>. QED BY <2>5, <2>6
<1>15. CASE EntersPlan
  <2>1. UNCHANGED <<policy, children, offered, pc>> /\ pc = "call" /\ left > 0 /\ left' = left - 1
    BY <1>15 DEF EntersPlan, turnVars
  <2>2. results'.ready \in Nat /\ results'.ready >= results.ready
    BY <1>15, PolicyIs, ResultType DEF EntersPlan, ResultsType
  <2>3. left' \in Nat /\ left' <= left
    BY <2>1, Numbers
  <2>. QED BY <2>1, <2>2, <2>3, ChildFrame
<1>16. CASE ExitsPlan
  <2>1. UNCHANGED <<policy, children, results>> /\ pc' # "call"
    BY <1>16 DEF ExitsPlan, Park, turnVars
  <2>. QED BY <2>1, Numbers, ChildFrame
<1>17. CASE TurnDone
  <2>1. UNCHANGED <<policy, children, results>> /\ pc' # "call"
    BY <1>17 DEF TurnDone, turnVars
  <2>. QED BY <2>1, Numbers, ChildFrame
<1>18. ASSUME NEW t \in Tools, NEW st \in Statuses(t), Drain(t, st)
      PROVE  ChildrenCounted'
  <2>1. UNCHANGED <<policy, children>> /\ pc' # "call"
    BY <1>18 DEF Drain, turnVars
  <2>2. results'.ready \in Nat /\ results'.ready >= results.ready
    BY <1>18, PolicyIs, ResultType DEF Drain, ResultsType
  <2>. QED BY <2>1, <2>2, ChildFrame
<1>19. ASSUME NEW t \in Gated \cup {"ask_user_question", "exit_plan_mode"}, DrainParks(t)
      PROVE  ChildrenCounted'
  <2>1. UNCHANGED <<policy, children, results>> /\ pc' # "call"
    BY <1>19 DEF DrainParks, Park, turnVars
  <2>. QED BY <2>1, Numbers, ChildFrame
<1>20. CASE DrainEntersPlan
  <2>1. UNCHANGED <<policy, children>> /\ pc' # "call"
    BY <1>20 DEF DrainEntersPlan, turnVars
  <2>2. results'.ready \in Nat /\ results'.ready >= results.ready
    BY <1>20, PolicyIs, ResultType DEF DrainEntersPlan, ResultsType
  <2>. QED BY <2>1, <2>2, ChildFrame
<1>21. CASE DrainDone
  <2>1. UNCHANGED <<policy, children, results>> /\ pc' # "call"
    BY <1>21 DEF DrainDone, turnVars
  <2>. QED BY <2>1, Numbers, ChildFrame
<1>22. CASE ResumeQuestion
  <2>1. UNCHANGED <<policy, children, results>> /\ pc' # "call"
    BY <1>22 DEF ResumeQuestion, Resumed
  <2>. QED BY <2>1, Numbers, ChildFrame
<1>23. CASE AnswerTool
  <2>1. UNCHANGED <<policy, children>> /\ pc' # "call"
    BY <1>23 DEF AnswerTool, Resumed
  <2>2. results'.ready \in Nat /\ results'.ready >= results.ready
    BY <1>23, PolicyIs, ResultType DEF AnswerTool, ResultsType
  <2>. QED BY <2>1, <2>2, ChildFrame
<1>24. CASE RejectCall
  <2>1. UNCHANGED <<policy, children, results>> /\ pc' # "call"
    BY <1>24 DEF RejectCall, turnVars
  <2>. QED BY <2>1, Numbers, ChildFrame
<1>25. ASSUME NEW st \in {"plan_approved", "plan_rejected"}, DecidePlan(st)
      PROVE  ChildrenCounted'
  <2>1. UNCHANGED <<policy, children>> /\ pc' # "call"
    BY <1>25 DEF DecidePlan, Resumed
  <2>2. results'.ready \in Nat /\ results'.ready >= results.ready
    BY <1>25, PolicyIs, ResultType DEF DecidePlan, ResultsType
  <2>. QED BY <2>1, <2>2, ChildFrame
<1>26. ASSUME NEW st \in {"applied", "failed", "validation_failed", "worktree_binding_failed",
                       "verified", "completed"}, ApproveCall(st)
      PROVE  ChildrenCounted'
  <2>1. UNCHANGED <<policy, children>> /\ pc' # "call"
    BY <1>26 DEF ApproveCall, Resumed
  <2>2. results'.ready \in Nat /\ results'.ready >= results.ready
    BY <1>26, PolicyIs, ResultType DEF ApproveCall, ResultsType
  <2>. QED BY <2>1, <2>2, ChildFrame
<1>27. CASE Rest
  <2>1. UNCHANGED <<policy, children, results, offered, pc, left>>
    BY <1>27 DEF Rest, vars
  <2>. QED BY <2>1, Numbers, ChildFrame
<1>28. CASE UNCHANGED vars
  <2>1. UNCHANGED <<policy, children, results, offered, pc, left>>
    BY <1>28 DEF vars
  <2>. QED BY <2>1, Numbers, ChildFrame
<1>. QED
  BY <1>1, <1>2, <1>3, <1>4, <1>5, <1>6, <1>7, <1>8, <1>9, <1>10, <1>11, <1>12,
     <1>13, <1>14, <1>15, <1>16, <1>17, <1>18, <1>19, <1>20, <1>21, <1>22,
     <1>23, <1>24, <1>25, <1>26, <1>27, <1>28
     DEF Next, Loop, User

-----------------------------------------------------------------------------
(* The theorems.                                                             *)

\* Every state of the loop satisfies the invariant.
THEOREM Inductive == Spec => []IndInv
<1>1. ASSUME Init
      PROVE  IndInv
  <2>1. policy \in PolicyType /\ policy.maxTasks \in Nat
    BY <1>1, ReactStepsAssumption DEF Init, PolicyType
  <2>2. TypeOK
    <3>1. results \in ResultsType /\ last \in LastType /\ budget \in BudgetType
      BY <1>1 DEF Init, NoResults, Nothing, ResultsType, LastType, BudgetType, Lasts
    <3>2. plan \in BOOLEAN /\ asked \in BOOLEAN /\ offered \subseteq Tools
      BY <1>1, Zenon DEF Init
    <3>3. /\ left \in 0 .. MaxBatch /\ repairs \in 0 .. MaxRepairs + 1 /\ resumes \in 0 .. MaxResumes
          /\ steps \in Nat /\ limit \in Nat /\ children \in Nat
      BY <1>1, ReactStepsAssumption DEF Init
    <3>4. /\ policy \in Policies /\ pc = "top" /\ via = "message" /\ cache = NoCopy
          /\ parked = "no" /\ pending = "none" /\ outcome = "none"
      BY <1>1 DEF Init
    <3>. QED BY <3>1, <3>2, <3>3, <3>4 DEF TypeOK
  <2>3. Running /\ CacheFollowsWork /\ NoWriteOffered /\ NotExhausted
    BY <1>1, ReactStepsAssumption
       DEF Init, Running, CacheFollowsWork, NoWriteOffered, NotExhausted, NoCopy
  <2>4. LoopKeepsPolicy
    BY <1>1 DEF Init, LoopKeepsPolicy, Nothing
  <2>5. LimitGranted
    BY <1>1, GrantedStep, ReactStepsAssumption DEF Init, LimitGranted
  <2>6. children = 0 /\ results.ready = 0 /\ pc # "call"
    BY <1>1 DEF Init, NoResults
  <2>7. ChildrenCounted
    BY <2>1, <2>6, ReactStepsAssumption DEF ChildrenCounted, Bound, NoLimit
  <2>. QED BY <2>2, <2>3, <2>4, <2>5, <2>7 DEF IndInv
<1>2. ASSUME IndInv, [Next]_vars
      PROVE  IndInv'
  BY <1>2, TypeStep, PolicyStep, BudgetStep, ChildStep DEF IndInv
<1>. QED BY <1>1, <1>2, PTL DEF Spec

\* Every variable keeps its type.
THEOREM TypeCorrect == Spec => []TypeOK
<1>1. IndInv => TypeOK
  BY DEF IndInv
<1>. QED BY <1>1, Inductive, PTL

\* No turn writes under a read-only policy or has an effect in plan mode: the
\* calls of a batch are checked against the tools and the mode of their turn.
THEOREM LoopKeepsPolicyHolds == Spec => []LoopKeepsPolicy
<1>1. IndInv => LoopKeepsPolicy
  BY DEF IndInv
<1>. QED BY <1>1, Inductive, PTL

\* The cached reads are never older than the task's own work on the files.
THEOREM CacheFollowsWorkHolds == Spec => []CacheFollowsWork
<1>1. IndInv => CacheFollowsWork
  BY DEF IndInv
<1>. QED BY <1>1, Inductive, PTL

\* The budgets of steps and of children are kept, however large they are, in
\* whatever batches the calls come and however often the loop is resumed.
THEOREM BudgetsKeptHolds == Spec => []BudgetsKept
<1>1. ASSUME IndInv
      PROVE  BudgetsKept
  <2>1. TypeOK /\ LimitGranted /\ ChildrenCounted /\ NotExhausted
    BY <1>1 DEF IndInv
  <2>2. steps <= Granted[resumes]
    BY <2>1 DEF LimitGranted
  <2>. QED BY <2>1, <2>2 DEF BudgetsKept, ChildrenCounted, NotExhausted, Limited, Bound
<1>. QED BY <1>1, Inductive, PTL

=============================================================================
