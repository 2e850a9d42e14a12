--------------------------- MODULE MCSessionQueue ---------------------------
(* Three messages of one session, two background threads and the RPC thread. *)
EXTENDS SessionQueue, TLC

CONSTANTS m1, m2, m3, w1, w2

MCTasks    == {m1, m2, m3}
MCThreads  == {w1, w2}
MCSymmetry == Permutations(MCTasks) \cup Permutations(MCThreads)
=============================================================================
