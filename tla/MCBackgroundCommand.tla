------------------------- MODULE MCBackgroundCommand -------------------------
(* One command of one task with up to three chunks of output, a cancel of the *)
(* command and a cancel of the task.                                          *)
EXTENDS BackgroundCommand

CONSTANTS c1, t1

MCCommands == {c1}
MCTasks    == {t1}
MCTaskOf   == [c \in MCCommands |-> t1]
=============================================================================
