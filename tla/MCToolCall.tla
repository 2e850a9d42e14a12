---------------------------- MODULE MCToolCall ----------------------------
(* A workspace of three files of which the task may write two, and the       *)
(* requests, policies and hooks between which the cases of a call differ.    *)
EXTENDS ToolCall

File(t, ps, c) == [tool |-> t, paths |-> ps, new |-> c, dry |-> FALSE]

MCClass == [look |-> "low", build |-> "plain", wipe |-> "denied", odd |-> "unlisted"]
MCRequests ==
  {File("write_file", <<1>>, "b"), File("write_file", <<3>>, "b"),
   File("apply_patch", <<1, 2>>, "b"), File("apply_patch", <<1, 3>>, "b"),
   [File("apply_patch", <<1>>, "b") EXCEPT !.dry = TRUE],
   File("run_command", <<1>>, "build"), File("run_command", <<>>, "odd"),
   File("run_command", <<3>>, "look"), File("run_command", <<1>>, "wipe"),
   File("agent", <<>>, "none"), File("other", <<>>, "none"),
   File("extra", <<>>, "none")}
MCRewritten == [t \in {"write_file", "apply_patch", "run_command", "agent", "other"} |->
  CASE t \in {"write_file", "apply_patch"} -> "a" [] t = "run_command" -> "odd"
    [] OTHER -> "none"]

Cfg(o, w, r) == [off |-> o, mode |-> [c \in Caps |->
  CASE c = "writeFile" -> w [] c = "runCommand" -> r [] OTHER -> "allow"]]
MCConfigs == {Cfg(FALSE, "ask", "ask"), Cfg(FALSE, "allow", "allow"),
              Cfg(FALSE, "blocked", "none"), Cfg(TRUE, "none", "blocked")}

Hook(a, ans) == [enabled |-> TRUE, matches |-> TRUE, action |-> a,
                 answer |-> ans, needsApproval |-> FALSE, onFailure |-> "warn"]
N == NoOverrides
Allow == Hook("policy_decision", [N EXCEPT !.decision = "allow"])
Deny  == Hook("policy_decision", [N EXCEPT !.decision = "deny"])
Edit  == Hook("input_rewrite", [N EXCEPT !.rewrite = TRUE])
Again == Hook("script", [N EXCEPT !.retry = TRUE])
Stop  == Hook("audit_note", [N EXCEPT !.prevent = TRUE])
Fails == [Hook("raises", N) EXCEPT !.onFailure = "block"]
MCHookLists ==
  {<<>>, <<Allow>>, <<Allow, Deny>>, <<Edit>>, <<Again>>, <<Stop>>,
   <<Fails, Deny>>, <<[Deny EXCEPT !.enabled = FALSE], [Edit EXCEPT !.matches = FALSE]>>,
   <<[Again EXCEPT !.needsApproval = TRUE], [Fails EXCEPT !.onFailure = "warn"]>>}
=============================================================================
