---------------------------- MODULE ChildContract ----------------------------
(* What dispatching a child promises its parent: the child is queued, works, *)
(* may wait for an approval, and settles once; the parent is answered once,  *)
(* and a settled answer is the settled record.                               *)
CONSTANT Kids

VARIABLES
  phase,   \* kid -> absent, queued, working, waiting, completed or failed
  answer   \* kid -> what its parent was answered

Settled == {"completed", "failed"}

TypeOK ==
  /\ phase \in [Kids -> {"absent", "queued", "working", "waiting"} \cup Settled]
  /\ answer \in [Kids -> {"none", "refused", "waiting"} \cup Settled]

Init == phase = [c \in Kids |-> "absent"] /\ answer = [c \in Kids |-> "none"]

Move(c, from, to) == phase[c] \in from /\ phase' = [phase EXCEPT ![c] = to]

Refuse(c) ==
  /\ phase[c] = "absent" /\ answer[c] = "none"
  /\ answer' = [answer EXCEPT ![c] = "refused"] /\ UNCHANGED phase

Advance(c) ==
  /\ answer[c] = "none" /\ UNCHANGED answer
  /\ \/ Move(c, {"absent"}, "queued")
     \/ Move(c, {"queued"}, "working")
     \/ Move(c, {"working"}, "waiting")

\* A waiting child settles at any time; a working one in the step that answers.
SettleLater(c) ==
  /\ \E s \in Settled : Move(c, {"waiting"}, s)
  /\ UNCHANGED answer

SettleNow(c) ==
  /\ answer[c] = "none"
  /\ \E s \in Settled : /\ Move(c, {"working"}, s)
                        /\ answer' = [answer EXCEPT ![c] = s]

AnswerWaiting(c) ==
  /\ phase[c] \in {"waiting"} \cup Settled /\ answer[c] = "none"
  /\ answer' = [answer EXCEPT ![c] = "waiting"] /\ UNCHANGED phase

Next == \E c \in Kids : \/ Refuse(c) \/ Advance(c) \/ SettleLater(c)
                        \/ SettleNow(c) \/ AnswerWaiting(c)

Spec == Init /\ [][Next]_<<phase, answer>>
=============================================================================
