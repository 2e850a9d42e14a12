--------------------------- MODULE MCCollaboration ---------------------------
(* Instances of Collaboration for TLC: two dispatches, the first with a retry, *)
(* whose processes, dispatching thread and decisions interleave.               *)
EXTENDS Collaboration

MCAttempts == <<2, 1>>
=============================================================================
