----------------------------- MODULE ToolPolicy -----------------------------
(* What decides whether a tool may act: the permission engine, the guards on *)
(* commands and write scopes, and the hooks a user attaches to the events of *)
(* a tool call, with the rule that merges what several hooks answer.         *)
EXTENDS SequencesExt

Modes == {"allow", "ask", "blocked", "none"}   \* none: no rule for it
HighRisk == {"writeFile", "runCommand", "subagents"}

\* PermissionEngine.evaluate: c is the configuration it reads from the store,
\* low whether the command is a known read-only or verification command,
\* tainted whether the turn holds untrusted content.
Evaluate(c, cap, low, tainted) ==
  LET mode  == c.mode[cap]
      quiet == c.off \/ (mode # "none" /\ cap = "runCommand" /\ low)
  IN CASE mode = "blocked"               -> "deny"
       [] mode # "blocked" /\ quiet      -> "allow"
       [] mode = "allow" /\ ~quiet       ->
            IF tainted /\ cap \in HighRisk THEN "approval_required" ELSE "allow"
       [] OTHER                          -> "approval_required"

\* PolicyGuard.validate_command: a denied, blocked or dangerous command
\* raises; one that misses a configured allowlist is reviewed by the user.
ValidateCommand(class) ==
  CASE class = "denied"   -> "raise"
    [] class = "unlisted" -> "review"
    [] OTHER              -> "ok"

\* check_patch_in_scope: no declared scope is no restriction.
PatchInScope(scope, paths) == scope = {} \/ paths \subseteq scope

\* check_command_allowed: the read-only families pass, then the targets the
\* command names are checked, and the working directory when it names none.
CommandInScope(scope, family, targets, cwd) ==
  \/ scope = {} \/ family = "read"
  \/ IF targets # {} THEN targets \subseteq scope ELSE cwd \in scope

-----------------------------------------------------------------------------
(* Hooks. A hook is [enabled, matches, action, answer, needsApproval,        *)
(* onFailure]; the answer is what its action's configuration or its script's *)
(* output asks for.                                                          *)

NoOverrides == [decision |-> "none", rewrite |-> FALSE, replace |-> FALSE,
                prevent |-> FALSE, retry |-> FALSE]

\* HookOverrides.merge
Merge(o, p) ==
  [decision |-> CASE o.decision = "none" -> p.decision
                  [] p.decision = "deny" -> "deny"
                  [] OTHER               -> o.decision,
   rewrite |-> o.rewrite \/ p.rewrite, replace |-> o.replace \/ p.replace,
   prevent |-> o.prevent \/ p.prevent, retry |-> o.retry \/ p.retry]

\* _hook_action_permission_decision: hooksExecute, and then runCommand.
HookPermission(c) ==
  LET d == Evaluate(c, "hooksExecute", FALSE, FALSE)
  IN IF d # "allow" THEN d ELSE Evaluate(c, "runCommand", FALSE, FALSE)

\* _execute_script: a script that may not run is recorded and asks nothing; so
\* does one that times out. The exit status does not matter.
ScriptRuns(c, h) == HookPermission(c) = "allow" /\ ~h.needsApproval

\* _extract_overrides_from_result: only a script replaces an output or asks
\* for a retry; any action's configuration may prevent the continuation.
HookOverrides(c, h) ==
  CASE h.action = "policy_decision" ->
         [NoOverrides EXCEPT !.decision = h.answer.decision,
                             !.prevent  = h.answer.prevent]
    [] h.action = "input_rewrite" ->
         [NoOverrides EXCEPT !.rewrite = h.answer.rewrite,
                             !.prevent = h.answer.prevent]
    [] h.action = "script" -> IF ScriptRuns(c, h) THEN h.answer ELSE NoOverrides
    [] OTHER -> [NoOverrides EXCEPT !.prevent = h.answer.prevent]

\* One turn of the loop of _invoke_hooks_impl: once a hook denied, the rest are
\* skipped; an action that raises is recorded or, under onFailure block,
\* raised out of the loop.
HookStep(c, st, h) ==
  CASE st.raised \/ ~h.matches \/ st.o.decision = "deny" -> st
    [] h.action = "raises" /\ h.onFailure = "block" -> [st EXCEPT !.raised = TRUE]
    [] h.action = "raises" -> st
    [] OTHER -> [st EXCEPT !.o = Merge(st.o, HookOverrides(c, h))]

\* _invoke_hooks_impl under _fire_hooks, which swallows the exception and
\* answers with no overrides.
FireHooks(c, hs) ==
  LET on  == SelectSeq(hs, LAMBDA h : h.enabled)
      end == FoldLeft(LAMBDA st, h : HookStep(c, st, h),
                      [o |-> NoOverrides, raised |-> FALSE], on)
  IN IF end.raised THEN NoOverrides ELSE end.o
=============================================================================
