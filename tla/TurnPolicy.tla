----------------------------- MODULE TurnPolicy -----------------------------
(***************************************************************************)
(* Which tools the model is offered in one turn of the ReAct loop:         *)
(* policy/tool_policy_resolver.py, ToolPolicyResolver.resolve.             *)
(*                                                                         *)
(* A task's policy is the record c of what routing, profile, skill and     *)
(* permissions say; the turn adds the plan mode, a question left pending   *)
(* in the context, and the summary r of the tool results so far.  One or   *)
(* two tools stand for each class of tools the resolver tells apart.       *)
(***************************************************************************)
EXTENDS Integers, FiniteSets

Reads == {"read_file", "git_status", "web_fetch", "browser"}
LocalReads == {"read_file", "git_status"}
Writes == {"apply_patch", "run_command"}
Subagents == {"agent", "task"}
Continuations == {"send_message"}
Question == {"ask_user_question"}
ControlFlow == Question \cup {"enter_plan_mode", "exit_plan_mode"}
MCP == {"mcp__tool"}
Scratchpad == {"scratchpad.write"}
Tools == Reads \cup Writes \cup Subagents \cup Continuations \cup ControlFlow
           \cup MCP \cup Scratchpad
Cleanup == {"git_status", "run_command"} \cup Question

Roles == {"root", "worker", "planner", "reviewer", "summarizer"}
Flags == {"readOnly", "noTools", "cleanup", "planTools", "askUser", "lastTask",
          "moreSubtasks", "childWorker", "budget", "mcpOff"}
NoList == {"-"}
NoLimit == 0

PolicyType ==
  [role : Roles, flags : SUBSET Flags, allow : {NoList} \cup SUBSET (Tools \cup {"mcp__*"}),
   maxTasks : Nat, skill : {"none", "strict_whitelist", "inherit_mcp", "inherit_all"},
   whitelist : SUBSET Tools, denied : SUBSET Tools]

----------------------------------------------------------------------------
(* What is read off the user's words, the routing and the profile. *)

ReadOnly(c) == "readOnly" \in c.flags
NoTools(c) == "noTools" \in c.flags
CleanupProfile(c) == "cleanup" \in c.flags /\ c.role \in {"root", "worker"}
ToolsAfterTask(c) == "lastTask" \notin c.flags
MoreSubtasks(c) == "moreSubtasks" \in c.flags

\* A question is abstracted to the markers found in it and in the goal.
Markers == {"cleanup", "continuation", "blocking", "required reason", "no followups"}
CleanupQuestion(q) == "cleanup" \in q
NoFollowups(q) == "no followups" \in q
Blocking(q) == "blocking" \in q
ContinuationQuestion(q) == "continuation" \in q

\* Whether the user has to answer; any other question is answered by default.
Required(q) ==
  /\ ~CleanupQuestion(q)
  /\ ~(NoFollowups(q) /\ ~Blocking(q))
  /\ "required reason" \in q \/ (~ContinuationQuestion(q) /\ Blocking(q))

----------------------------------------------------------------------------
(* What the results of the run say: the last one (a child's, a command that *)
(* passed a check, any other, failed or not), how many child results are     *)
(* ready, whether the latest question was answered by default, and whether   *)
(* any call was made and any succeeded.                                      *)

NoResults == [last |-> "none", ready |-> 0, defaulted |-> FALSE, any |-> FALSE, good |-> FALSE]
Lasts == {"none", "child", "child failed", "check", "other", "failed"}

\* A blocked or failed child call counts as ready; only a waiting one does not.
Ready(t, st) == t \in Subagents /\ st # "waiting_approval"

Failures == {"failed", "error", "timeout"}
Waits == {"waiting_approval", "waiting_user", "pending"}

WithResult(r, t, st) ==
  [last |-> IF Ready(t, st) THEN IF st = "failed" THEN "child failed" ELSE "child"
            ELSE IF st = "failed" THEN "failed"
            ELSE IF st = "verified" THEN "check" ELSE "other",
   ready |-> r.ready + (IF Ready(t, st) THEN 1 ELSE 0),
   defaulted |-> IF t \in Question THEN st = "defaulted" ELSE r.defaulted,
   any |-> TRUE,
   good |-> r.good \/ st \notin Failures \cup Waits]

----------------------------------------------------------------------------
\* A child allowlist with a write tool in it also allows the local reads.
Allowlist(c) ==
  IF c.allow = NoList \/ c.allow \cap Writes = {} THEN c.allow ELSE c.allow \cup LocalReads

ChildExecution(c) ==
  "childWorker" \in c.flags /\ c.allow # NoList /\ Allowlist(c) \cap Writes # {}

\* (The loop leaves before a turn when the task waits for an approval.)
Phase(c, plan, r) ==
  LET failed == r.last \in {"child failed", "failed"}
  IN  IF plan THEN "plan_mode"
      ELSE IF r.last \in {"child", "child failed"} THEN
        IF ~ToolsAfterTask(c) THEN "synthesis"
        ELSE IF failed THEN "recovery" ELSE "post_task_continuation"
      ELSE IF c.role = "summarizer" THEN "synthesis"
      ELSE IF c.role = "reviewer" THEN "review"
      ELSE IF c.role = "planner" THEN "planning"
      ELSE IF c.role = "worker" /\ ChildExecution(c) THEN
        IF r.last = "check" THEN "synthesis" ELSE "execution"
      ELSE IF failed THEN "recovery" ELSE "investigation"

PlanTools(c, plan) == plan \/ "planTools" \in c.flags
AskEnabled(c, plan, asked) == "askUser" \in c.flags \/ asked \/ PlanTools(c, plan)

Asks(c, plan, asked) == IF AskEnabled(c, plan, asked) THEN Question ELSE {}

ReadOnlyNames(c, plan, asked) ==
  Reads \cup Question
    \cup (IF PlanTools(c, plan) THEN {"enter_plan_mode", "exit_plan_mode"} ELSE {})
    \cup (IF c.role \in {"root", "planner"} THEN Subagents \cup Continuations ELSE {})

\* Everything but the plan-mode tools, which have to be asked for.
AllNames(c, plan) ==
  (Tools \ ControlFlow) \cup Question \cup (IF PlanTools(c, plan) THEN ControlFlow ELSE {})

RoleNames(c, phase) ==
  (Reads \cup (IF c.role \in {"root", "planner"} THEN Subagents \cup Continuations ELSE {})
         \cup (IF phase \in {"execution", "recovery"} /\ c.role \in {"root", "worker"}
                 THEN Writes ELSE {}))
    \cap (IF c.role \in {"reviewer", "summarizer"} THEN Reads ELSE Tools)

ChildNames(c) ==
  LET names == (IF c.allow \in {NoList, {}} THEN Reads ELSE Allowlist(c))
                 \ (Subagents \cup Continuations)
  IN  names \cup (IF "mcp__*" \in names THEN MCP ELSE {})

\* Variant: a recovering turn gets its write tools before the constraint is read.
AllowedFirst(c, phase, plan, asked) ==
  IF phase = "synthesis" \/ NoTools(c) THEN {}
  ELSE IF phase = "recovery" THEN RoleNames(c, phase) \cup Writes
  ELSE IF ReadOnly(c) THEN ReadOnlyNames(c, plan, asked)
  ELSE AllNames(c, plan)

AllowedNames(c, phase, plan, asked) ==
  IF phase = "synthesis" \/ NoTools(c) THEN {}
  ELSE IF phase = "plan_mode" THEN Reads \cup {"exit_plan_mode"} \cup Asks(c, plan, asked)
  ELSE IF CleanupProfile(c) THEN Cleanup
  ELSE IF ReadOnly(c) THEN ReadOnlyNames(c, plan, asked)
  ELSE IF c.allow # NoList \/ "childWorker" \in c.flags
    THEN (RoleNames(c, phase) \cap ChildNames(c)) \cup (ChildNames(c) \cap MCP)
  ELSE IF c.role \in {"root", "worker"} THEN AllNames(c, plan)
  ELSE RoleNames(c, phase)

\* A question is not offered again once one was answered by default.
Suppressed(c, plan, asked, r) ==
  IF ~AskEnabled(c, plan, asked) /\ r.defaulted THEN Question ELSE {}

\* Variant: the limit on child tasks is compared with <=.
WithheldLate(c, r) ==
  IF ToolsAfterTask(c) /\ r.ready > 0
       /\ IF c.maxTasks # NoLimit THEN r.ready > c.maxTasks ELSE ~MoreSubtasks(c)
    THEN Subagents ELSE {}

\* After a child result no further child, unless routing allows more.
Withheld(c, r) ==
  IF ToolsAfterTask(c) /\ r.ready > 0
       /\ IF c.maxTasks # NoLimit THEN r.ready >= c.maxTasks ELSE ~MoreSubtasks(c)
    THEN Subagents ELSE {}

SkillAllows(c) ==
  CASE c.skill \in {"none", "inherit_all"} -> Tools
    [] OTHER -> c.whitelist \cup ControlFlow \cup Scratchpad
                  \cup (IF c.skill = "inherit_mcp" THEN MCP ELSE {})

\* What the permissions and the policy of the MCP servers deny.
PermissionDenies(c) == c.denied
McpDenies(c) == IF "mcpOff" \in c.flags THEN MCP ELSE {}

Offered(c, plan, asked, r) ==
  LET phase == Phase(c, plan, r)
  IN  ((AllowedNames(c, phase, plan, asked)
          \ (IF phase = "post_task_continuation" THEN {} ELSE Continuations))
         \cap SkillAllows(c))
        \ (Suppressed(c, plan, asked, r) \cup Withheld(c, r) \cup PermissionDenies(c)
             \cup McpDenies(c))

=============================================================================
