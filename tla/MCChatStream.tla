---------------------------- MODULE MCChatStream ----------------------------
(***************************************************************************)
(* A call that runs beside the loop's thread and a command that needs an   *)
(* approval, in two turns of up to two deltas, with a merge request and    *)
(* one crash.                                                              *)
(***************************************************************************)
EXTENDS ChatStream, TLC

MCKind == ("fetch" :> "other") @@ ("shell" :> "run_command")

=============================================================================
