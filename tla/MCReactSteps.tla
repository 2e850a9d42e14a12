---------------------------- MODULE MCReactSteps ----------------------------
(***************************************************************************)
(* One task under the policies that take different ways through the        *)
(* resolver.                                                               *)
(***************************************************************************)
EXTENDS ReactSteps

Base == [role |-> "root", flags |-> {}, allow |-> NoList, maxTasks |-> NoLimit,
         skill |-> "none", whitelist |-> {}, denied |-> {}]

MCPolicies ==
  {Base, [Base EXCEPT !.flags = {"readOnly", "planTools"}],
   [Base EXCEPT !.flags = {"cleanup", "readOnly"}],
   [Base EXCEPT !.flags = {"noTools"}],
   [Base EXCEPT !.flags = {"lastTask", "mcpOff"}, !.denied = {"run_command"}],
   [Base EXCEPT !.flags = {"planTools"}, !.maxTasks = 1],
   [Base EXCEPT !.role = "worker", !.flags = {"childWorker", "budget"},
                !.allow = {"apply_patch", "run_command", "mcp__*"}],
   [Base EXCEPT !.role = "worker", !.flags = {"childWorker", "askUser"}],
   [Base EXCEPT !.role = "reviewer", !.allow = {"apply_patch"}],
   [Base EXCEPT !.role = "planner", !.flags = {"moreSubtasks"}],
   [Base EXCEPT !.role = "summarizer"],
   [Base EXCEPT !.skill = "inherit_mcp", !.whitelist = {"apply_patch"}]}

=============================================================================
