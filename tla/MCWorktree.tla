----------------------------- MODULE MCWorktree -----------------------------
(***************************************************************************)
(* One task with two patches that overlap, a command that changes another  *)
(* file, commits, an editor outside, one merge approval, two targets and   *)
(* one crash.                                                              *)
(***************************************************************************)
EXTENDS Worktree, TLC

CONSTANTS p1, p2, e1, e2, x1

MCFilesOf == (p1 :> {"a"}) @@ (p2 :> {"a", "b"}) @@ (e1 :> {"b"}) @@ (e2 :> {"c"}) @@ (x1 :> {"a"})
MCCommands ==
  {[readOnly |-> FALSE, targets |-> {}, cwd |-> {"a", "b"}, does |-> "commit"],
   [readOnly |-> FALSE, targets |-> {"b"}, cwd |-> {"a", "b"}, does |-> e1],
   [readOnly |-> FALSE, targets |-> {"b", "c"}, cwd |-> {"a", "b"}, does |-> e2]}

MCBindings == {{"preferred"}, {"required", "preferred"}}

=============================================================================
