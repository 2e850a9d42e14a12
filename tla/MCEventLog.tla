----------------------------- MODULE MCEventLog -----------------------------
(* Three events of the client's session, two of the bus and one of another    *)
(* connection, one of another session and connection and one of the bus that  *)
(* is not recorded; pages of one row and a queue of one, so that both limits  *)
(* are met.                                                                   *)
EXTENDS EventLog, TLC

CONSTANTS e1, e2, e3, o1, u1

MCEvents   == {e1, e2, e3, o1, u1}
MCHome     == {e1, e2, e3}
MCDirect   == {e1, o1}
MCMirrored == {e2, e3}
MCSymmetry == Permutations({e2, e3})
=============================================================================
