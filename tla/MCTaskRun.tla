------------------------------ MODULE MCTaskRun ------------------------------
(* One task, whose background thread and the RPC thread interleave, with a    *)
(* plan to approve and a gated tool that is not a command or a change of a    *)
(* file, so that a decision may belong to the other request and may find      *)
(* nothing that waits for it.                                                 *)
EXTENDS TaskRun

CONSTANTS t1, plan, desk

MCTasks == {t1}
MCRequests == {plan, desk}
MCPlan == {plan}
MCOther == {desk}
=============================================================================
