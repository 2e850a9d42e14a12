------------------------------ MODULE ToolCall ------------------------------
(* One task's tool calls: _execute_tool, the handlers of the tools that act  *)
(* (write_file, apply_patch, run_command, the sub-agent tools, any other),   *)
(* the hooks around them and the approvals they ask for. The user decides    *)
(* approvals, edits the policy, edits files and pauses the task meanwhile.   *)
EXTENDS ToolPolicy, Naturals, FiniteSets

CONSTANTS
  Paths,        \* files of the workspace
  Contents,     \* what a file may hold
  Class,        \* command -> low, plain, denied or unlisted
  ReadOnly,     \* commands of the families that only read
  Workdir,      \* the directory commands run in
  Requests,     \* [tool, paths, new, dry] the model may ask for
  Rewritten,    \* tool -> what a rewriting hook puts in the place of new
  Scope,        \* the write scope of the task, {} when none is declared
  Allowlist,    \* tools a child may use; Root names no child
  Configs,      \* permission configurations the user may save
  HookLists,    \* lists of hooks an event may have, in priority order
  Budget,       \* tool calls the task's budget allows
  MaxCalls,     \* bound: calls the loop makes
  MaxRetries,   \* bound: retries hooks ask for; the code has none
  MaxMoves      \* bound: policy edits, file edits and pauses by the user

\* write_file takes one path.
ASSUME OnePath == \A r \in Requests : r.tool = "write_file" => DOMAIN r.paths = {1}

Root     == {}
Commands == DOMAIN Class
Caps     == {"writeFile", "runCommand", "hooksExecute"}
CapOf(t) == IF t = "run_command" THEN "runCommand" ELSE "writeFile"
Gated    == {"write_file", "apply_patch", "run_command"}

VARIABLES
  cfg,        \* the stored permission configuration
  tainted,    \* has untrusted content reached the turn
  files,      \* path -> content
  approvals,  \* sequence of [req, decision]
  patches,    \* sequence of [req, status]
  call,       \* the call being executed
  pending,    \* the call the loop waits with, as the model asked for it
  stored,     \* the task's status in the store
  mem,        \* task["status"] in the loop's copy
  token,      \* is the task's root token cancelled
  spent,      \* tool calls consumed from the budget
  calls,      \* calls begun
  retries,    \* retries made
  moves       \* edits and pauses made

vars == <<cfg, tainted, files, approvals, patches, call, pending, stored, mem,
          token, spent, calls, retries, moves>>

\* req: what the model asked; new: what is executed once hooks rewrote it;
\* base: the files as the handler read them; aid: the approval passed along;
\* by: the approval that let it act; open: has the policy allowed it at some
\* moment of the call; done: paths written; ran: did it act; status: the
\* result; said: the terminal event; started, ended: events of the call.
Quiet == [at |-> "idle", req |-> {}, new |-> "none", base |-> {}, aid |-> 0,
          by |-> 0, patch |-> 0, open |-> FALSE, done |-> {}, ran |-> FALSE,
          status |-> "none", said |-> "none", started |-> 0, ended |-> 0]

Init ==
  /\ cfg \in Configs /\ tainted = FALSE
  /\ \E c \in Contents : files = [p \in Paths |-> c]
  /\ approvals = <<>> /\ patches = <<>>
  /\ call = Quiet /\ pending = Quiet
  /\ stored = "running" /\ mem = "running" /\ token = FALSE
  /\ spent = 0 /\ calls = 0 /\ retries = 0 /\ moves = 0

\* The request as an approval stores it: what is executed, and the files the
\* diff was made from.
Shown(k) == [tool |-> k.req.tool, paths |-> k.req.paths, new |-> k.new,
             base |-> [i \in DOMAIN k.req.paths |-> k.base[k.req.paths[i]]]]
Policy(c, k) == Evaluate(c, CapOf(k.req.tool),
                         k.new \in Commands /\ Class[k.new] = "low", tainted)
Opens(c, k)  == k.req.tool \in Gated /\ Policy(c, k) = "allow"
PathSet(k)   == {k.req.paths[i] : i \in DOMAIN k.req.paths}
env == <<cfg, tainted>>
task == <<stored, mem, token, pending>>
counters == <<spent, calls, retries, moves>>

To(l)         == call' = [call EXCEPT !.at = l]
Result(s)     == call' = [call EXCEPT !.at = "result", !.status = s]

-----------------------------------------------------------------------------
(* Up to the handler.                                                        *)

\* _ensure_tool_allowed_for_child_worker, _ensure_command_safe_for_child_worker
Refused(r) == Allowlist # Root /\ r.tool \notin Allowlist

\* _consume_budget_for_tool_call; only the loop passes the budget.
ConsumeBudget == spent' = spent + 1

Started(c, r, aid) ==
  LET k == [Quiet EXCEPT !.at = "before", !.req = r, !.new = r.new,
                         !.base = files, !.aid = aid, !.started = 1]
  IN [k EXCEPT !.open = Opens(c, k)]

\* The arguments are the model's: they may name an approval it has seen.
Begin(r, aid) ==
  /\ call.at = "idle" /\ mem = "running" /\ calls < MaxCalls
  /\ calls' = calls + 1
  /\ IF Refused(r) \/ spent >= Budget
       THEN call' = [Quiet EXCEPT !.at = "raised"] /\ UNCHANGED spent
       ELSE call' = Started(cfg, r, aid) /\ ConsumeBudget
  /\ UNCHANGED <<env, files, approvals, patches, task, retries, moves>>

\* The next provider turn raises on a cancelled token; the calls of the turn
\* that is being worked off do not look at it.
TokenStops ==
  /\ call.at = "idle" /\ mem = "running" /\ token
  /\ call' = [Quiet EXCEPT !.at = "raised"]
  /\ UNCHANGED <<env, files, approvals, patches, task, counters>>

\* _honor_prevent_continuation
Prevent(o) == token' = (token \/ o.prevent)

\* before_tool_call. A denial builds its event with functions the method only
\* defines further down, so it raises instead of reporting a blocked call.
BeforeHooks(hs) ==
  LET o == FireHooks(cfg, hs)
      k == [call EXCEPT !.at  = IF call.req.tool = "apply_patch"
                                  THEN "beforePatch" ELSE "run",
                        !.new = IF o.rewrite THEN Rewritten[call.req.tool] ELSE @]
  IN /\ call.at = "before" /\ Prevent(o)
     /\ call' = IF o.decision = "deny" THEN [call EXCEPT !.at = "raised"]
                ELSE [k EXCEPT !.open = @ \/ Opens(cfg, k)]
     /\ UNCHANGED <<env, files, approvals, patches, stored, mem, pending, counters>>

\* before_patch_apply: the same once more for apply_patch.
BeforePatchHooks(hs) ==
  LET o == FireHooks(cfg, hs)
      k == [call EXCEPT !.at  = "run",
                        !.new = IF o.rewrite THEN Rewritten[call.req.tool] ELSE @]
  IN /\ call.at = "beforePatch" /\ Prevent(o)
     /\ call' = IF o.decision = "deny" THEN [call EXCEPT !.at = "raised"]
                ELSE [k EXCEPT !.open = @ \/ Opens(cfg, k)]
     /\ UNCHANGED <<env, files, approvals, patches, stored, mem, pending, counters>>

\* _ensure_worktree_for_write_tool: a required worktree that cannot be bound
\* is the call's result.
WorktreeFails ==
  /\ call.at = "run" /\ call.req.tool \in Gated /\ Result("failed")
  /\ UNCHANGED <<env, files, approvals, patches, task, counters>>

-----------------------------------------------------------------------------
(* Approvals, as the handlers use them.                                      *)

Decided(a) == approvals[a].decision

\* Variant: any approval of the right kind will do.
SameTool(a, k) == approvals[a].req.tool = k.req.tool

\* The stored request against the one about to run; a difference raises. A
\* command compares the fields that decide what is executed.
Matches(a, k) ==
  LET r == approvals[a].req
  IN IF k.req.tool = "run_command" THEN r.tool = k.req.tool /\ r.new = k.new
     ELSE r = Shown(k)

\* create_approval
Ask(k) == approvals' = Append(approvals, [req |-> Shown(k), decision |-> "none"])

AskResult(k) ==
  call' = [k EXCEPT !.at = "result", !.status = "approval_required",
                    !.by = Len(approvals) + 1]

\* approval_by_id_or_none and what write_file and apply_patch do with it.
GateWrite(k) ==
  CASE k.aid # 0 /\ ~Matches(k.aid, k)       -> "mismatch"
    [] k.aid # 0 /\ Matches(k.aid, k)        ->
         IF Decided(k.aid) = "approved" THEN "approved" ELSE "undecided"
    [] k.aid = 0                             -> Policy(cfg, k)

\* approval_for_request: the approval passed along, else the last one of the
\* task for the same command.
CommandApproval(k) ==
  LET same == {a \in DOMAIN approvals : approvals[a].req.tool = "run_command"
                                        /\ approvals[a].req.new = k.new}
  IN IF k.aid # 0 THEN k.aid
     ELSE IF same = {} THEN 0 ELSE CHOOSE a \in same : \A b \in same : b <= a

-----------------------------------------------------------------------------
(* write_file: reads the file, then asks, then writes.                       *)

WriteRead ==
  /\ call.at = "run" /\ call.req.tool = "write_file"
  /\ LET p == call.req.paths[1]
     IN call' = CASE ~PatchInScope(Scope, {p}) ->
                       [call EXCEPT !.at = "result", !.status = "failed"]
                  [] PatchInScope(Scope, {p}) /\ files[p] = call.new ->
                       [call EXCEPT !.at = "result", !.status = "unchanged"]
                  [] OTHER -> [call EXCEPT !.at = "gate", !.base = files]
  /\ UNCHANGED <<env, files, approvals, patches, task, counters>>

WriteGate ==
  /\ call.at = "gate" /\ call.req.tool = "write_file"
  /\ LET g == GateWrite(call)
     IN \/ g = "mismatch" /\ Result("failed") /\ UNCHANGED approvals
        \/ g = "deny" /\ Result("blocked") /\ UNCHANGED approvals
        \/ /\ g = "undecided" /\ UNCHANGED approvals
           /\ Result("approval_required")
        \/ g = "approval_required" /\ Ask(call) /\ AskResult(call)
        \/ /\ g \in {"approved", "allow"} /\ UNCHANGED approvals
           /\ call' = [call EXCEPT !.at = "act", !.by = call.aid]
  /\ UNCHANGED <<env, files, patches, task, counters>>

WriteAct ==
  /\ call.at = "act" /\ call.req.tool = "write_file"
  /\ files' = [files EXCEPT ![call.req.paths[1]] = call.new]
  /\ call' = [call EXCEPT !.at = "result", !.status = "written", !.ran = TRUE,
                          !.done = {call.req.paths[1]}]
  /\ UNCHANGED <<env, approvals, patches, task, counters>>

-----------------------------------------------------------------------------
(* apply_patch: a patch names the content it expects of every file it        *)
(* touches; it is checked against the files, asked for, and applied file by  *)
(* file.                                                                     *)

\* parse_unified_diff and validate_patch_request, then the write scope.
PatchRead ==
  /\ call.at = "run" /\ call.req.tool = "apply_patch"
  /\ call' = CASE \E p \in PathSet(call) : files[p] # call.base[p] ->
                    [call EXCEPT !.at = "result", !.status = "validation_failed"]
               [] ~PatchInScope(Scope, PathSet(call)) ->
                    [call EXCEPT !.at = "result", !.status = "failed"]
               [] OTHER -> [call EXCEPT !.at = "gate"]
  /\ UNCHANGED <<env, files, approvals, patches, task, counters>>

SavePatch(k, s) == patches' = Append(patches, [req |-> Shown(k), status |-> s])

\* find_patch: the last record of the same diff.
FoundPatch(k) ==
  LET same == {i \in DOMAIN patches : patches[i].req = Shown(k)}
  IN IF same = {} THEN 0 ELSE CHOOSE i \in same : \A j \in same : j <= i

PatchGate ==
  /\ call.at = "gate" /\ call.req.tool = "apply_patch"
  /\ LET g == GateWrite(call)
         f == FoundPatch(call)
     IN \/ /\ g \in {"mismatch", "deny"} /\ UNCHANGED <<approvals, patches>>
           /\ Result(IF g = "deny" THEN "blocked" ELSE "failed")
        \/ /\ g = "undecided" /\ UNCHANGED <<approvals, patches>>
           /\ Result("approval_required")
        \/ /\ g = "approval_required" /\ Ask(call) /\ AskResult(call)
           /\ SavePatch(call, "proposed")
        \/ /\ g = "allow" /\ SavePatch(call, "approved") /\ UNCHANGED approvals
           /\ call' = [call EXCEPT !.at = "act", !.patch = Len(patches) + 1]
        \/ /\ g = "approved" /\ UNCHANGED approvals
           /\ call' = [call EXCEPT !.at = "act", !.by = call.aid, !.patch = f]
           /\ patches' = IF patches[f].status = "proposed"
                           THEN [patches EXCEPT ![f] = [@ EXCEPT !.status = "approved"]]
                         ELSE patches
  /\ UNCHANGED <<env, files, task, counters>>

DryRun ==
  /\ call.at = "act" /\ call.req.tool = "apply_patch" /\ call.req.dry
  /\ Result("dry_run")
  /\ UNCHANGED <<env, files, approvals, patches, task, counters>>

\* The next file of the patch that is not written yet.
NextPath == call.req.paths[Cardinality(call.done) + 1]

\* apply_unified_diff_to_file on one file; its context must still be there.
PatchFile ==
  /\ call.at = "act" /\ call.req.tool = "apply_patch" /\ ~call.req.dry
  /\ call.done # PathSet(call)
  /\ IF files[NextPath] = call.base[NextPath]
       THEN /\ files' = [files EXCEPT ![NextPath] = call.new]
            /\ call' = [call EXCEPT !.done = @ \cup {NextPath}, !.ran = TRUE]
       ELSE Result("failed") /\ UNCHANGED files
  /\ UNCHANGED <<env, approvals, patches, task, counters>>

\* Variant: the record is closed after the first file.
PatchAppliedEarly ==
  /\ call.at = "act" /\ call.req.tool = "apply_patch" /\ ~call.req.dry
  /\ call.done # {} /\ Result("applied")
  /\ patches' = [patches EXCEPT ![call.patch] = [@ EXCEPT !.status = "applied"]]
  /\ UNCHANGED <<env, files, approvals, task, counters>>

PatchApplied ==
  /\ call.at = "act" /\ call.req.tool = "apply_patch" /\ ~call.req.dry
  /\ call.done = PathSet(call) /\ Result("applied")
  /\ patches' = [patches EXCEPT ![call.patch] = [@ EXCEPT !.status = "applied"]]
  /\ UNCHANGED <<env, files, approvals, task, counters>>

-----------------------------------------------------------------------------
(* run_command, the sub-agent tools and the rest.                            *)

CommandGate ==
  /\ call.at = "run" /\ call.req.tool = "run_command"
  /\ LET v == ValidateCommand(Class[call.new])
         d == Policy(cfg, call)
         a == CommandApproval(call)
     IN CASE v = "raise" \/ (d # "deny" /\ ~CommandInScope(Scope,
               IF call.new \in ReadOnly THEN "read" ELSE "other",
               PathSet(call), Workdir)) ->
               Result("failed") /\ UNCHANGED approvals
          [] v # "raise" /\ d = "deny" -> Result("blocked") /\ UNCHANGED approvals
          [] OTHER ->
               \/ /\ a # 0 /\ UNCHANGED approvals
                  /\ call' = [call EXCEPT
                       !.by = a, !.status = IF ~Matches(a, call) THEN "failed"
                                            ELSE "approval_required",
                       !.at = IF Matches(a, call) /\ Decided(a) = "approved"
                                THEN "act" ELSE "result"]
               \/ /\ a = 0 /\ (v = "review" \/ d = "approval_required")
                  /\ Ask(call) /\ AskResult(call)
               \/ /\ a = 0 /\ v = "ok" /\ d = "allow" /\ UNCHANGED approvals
                  /\ To("act")
  /\ UNCHANGED <<env, files, patches, task, counters>>

CommandAct ==
  /\ call.at = "act" /\ call.req.tool = "run_command"
  /\ \E s \in {"completed", "failed"} :
       call' = [call EXCEPT !.at = "result", !.ran = TRUE, !.status = s]
  /\ UNCHANGED <<env, files, approvals, patches, task, counters>>

\* before_subagent_start, and SubagentService.dispatch, which answers what the
\* child came to; what it raises is a failed result.
Dispatch(hs) ==
  /\ call.at = "run" /\ call.req.tool = "agent"
  /\ IF FireHooks(cfg, hs).decision = "deny" THEN Result("blocked")
     ELSE \E s \in {"completed", "failed", "approval_required", "blocked"} :
            call' = [call EXCEPT !.at = "result", !.status = s,
                                 !.ran = s \in {"completed", "failed"}]
  /\ UNCHANGED <<env, files, approvals, patches, task, counters>>

\* Any other tool of the registry or of an MCP server: it may fail, time out,
\* and bring untrusted content into the turn.
OtherTool ==
  /\ call.at = "run" /\ call.req.tool = "other"
  /\ \E s \in {"completed", "failed"} :
       call' = [call EXCEPT !.at = "result", !.status = s, !.ran = TRUE]
  /\ tainted' \in {tainted, TRUE}
  /\ UNCHANGED <<cfg, files, approvals, patches, task, counters>>

-----------------------------------------------------------------------------
(* From the result to the terminal event.                                    *)

\* _tool_failed
Failed == call.status = "failed"

\* The terminal event of the call; k is what is left to do after it.
Publish(e, l) == call' = [call EXCEPT !.at = l, !.said = e, !.ended = @ + 1]

Blocked ==
  /\ call.at = "result" /\ call.req.tool # "agent" /\ call.status = "blocked"
  /\ Publish("blocked", "return")
  /\ UNCHANGED <<env, files, approvals, patches, task, counters>>

\* A gated call: the status is checked against the loop's copy and written.
WaitApproval ==
  /\ call.at = "result" /\ call.req.tool # "agent"
  /\ call.status = "approval_required" /\ To("ask")
  /\ stored' = "waiting_approval" /\ mem' = "waiting_approval"
  /\ UNCHANGED <<env, files, approvals, patches, token, pending, counters>>

\* on_approval_required: a denial blocks the call, an allow turns the result
\* into an ok one and falls through to the completion.
AskHooks(hs) ==
  LET d == FireHooks(cfg, hs).decision
  IN /\ call.at = "ask"
     /\ IF d = "allow" THEN call' = [call EXCEPT !.at = "result", !.status = "ok"]
        ELSE Publish("blocked", "return")
     /\ UNCHANGED <<env, files, approvals, patches, task, counters>>

PatchInvalid ==
  /\ call.at = "result" /\ call.status = "validation_failed"
  /\ Publish("failed", "return")
  /\ UNCHANGED <<env, files, approvals, patches, task, counters>>

\* Variant: the failure is left to the retry to report.
ToolFailedSilently ==
  /\ call.at = "result" /\ call.req.tool # "agent" /\ Failed
  /\ To("failedHooks")
  /\ UNCHANGED <<env, files, approvals, patches, task, counters>>

ToolFailed ==
  /\ call.at = "result" /\ call.req.tool # "agent" /\ Failed
  /\ Publish("failed", "failedHooks")
  /\ UNCHANGED <<env, files, approvals, patches, task, counters>>

\* after_tool_call of a failed call: a retry executes the call once more,
\* without the budget.
FailedHooks(hs) ==
  LET o == FireHooks(cfg, hs)
      k == Started(cfg, call.req, call.aid)
  IN /\ call.at = "failedHooks" /\ Prevent(o)
     /\ IF o.retry /\ retries < MaxRetries
          THEN /\ retries' = retries + 1
               /\ call' = [k EXCEPT !.started = call.started + 1,
                                    !.base = call.base, !.ended = call.ended]
          ELSE To("return") /\ UNCHANGED retries
     /\ UNCHANGED <<env, files, approvals, patches, stored, mem, pending, spent,
                    calls, moves>>

\* What a sub-agent's status is reported as.
AgentEvent(s) == CASE s \in {"approval_required", "blocked"} -> "blocked"
                   [] s = "failed" -> "failed"
                   [] OTHER -> "completed"

\* after_tool_call, then the event; a replaced output is what is reported.
Complete(hs) ==
  LET o == FireHooks(cfg, hs)
  IN /\ call.at = "result" /\ Prevent(o)
     /\ \/ /\ call.req.tool = "agent"
           /\ Publish(AgentEvent(call.status), "return")
        \/ /\ call.status \in {"written", "unchanged", "applied", "dry_run",
                              "completed", "ok"}
           /\ call.req.tool # "agent" /\ Publish("completed", "return")
     /\ UNCHANGED <<env, files, approvals, patches, stored, mem, pending, counters>>

\* _finalize_executed_tool: a task that waits keeps the call, and the loop
\* ends; otherwise the loop goes on. Its next step starts from the store.
Return ==
  /\ call.at = "return" /\ call' = Quiet
  /\ IF mem = "waiting_approval"
       THEN pending' = [Quiet EXCEPT !.at = "waits", !.req = call.req,
                                     !.base = call.base]
            /\ UNCHANGED mem
       ELSE mem' = stored /\ UNCHANGED pending
  /\ UNCHANGED <<env, files, approvals, patches, stored, token, counters>>

-----------------------------------------------------------------------------
(* The user.                                                                 *)

\* The rule "allow always" saves.
Always(c, cap) == [c EXCEPT !.mode = [@ EXCEPT ![cap] = "allow"]]

\* submit_approval, and allow_approval_always, which first saves a rule for
\* the capability. A rejection fails the task; a decision that finds no saved
\* call is only recorded.
Decide(a, d, always) ==
  /\ Decided(a) = "none" /\ (always => d = "approved")
  /\ approvals' = [approvals EXCEPT ![a] = [@ EXCEPT !.decision = d]]
  /\ cfg' = IF always THEN Always(cfg, CapOf(approvals[a].req.tool)) ELSE cfg
  /\ IF pending.at = "waits" /\ stored = "waiting_approval"
       THEN /\ pending' = Quiet
            /\ IF d = "approved"
                 THEN /\ stored' = "running" /\ mem' = "running"
                      /\ call' = [Started(cfg', pending.req, a) EXCEPT !.base = pending.base]
                 ELSE stored' = "failed" /\ mem' = "failed" /\ UNCHANGED call
       ELSE /\ call' = [call EXCEPT !.open = @ \/ (call.at # "idle" /\
                                       call.at # "raised" /\ Opens(cfg', call))]
            /\ UNCHANGED <<stored, mem, pending>>
  /\ UNCHANGED <<tainted, files, patches, token, counters>>

Move == moves < MaxMoves /\ moves' = moves + 1

SaveConfig(c) ==
  /\ Move /\ cfg' = c /\ c # cfg
  /\ call' = [call EXCEPT !.open = @ \/ (call.at \notin {"idle", "raised"}
                                         /\ Opens(c, call))]
  /\ UNCHANGED <<tainted, files, approvals, patches, task, spent, calls, retries>>

EditFile(p) ==
  /\ Move /\ \E c \in Contents \ {files[p]} : files' = [files EXCEPT ![p] = c]
  /\ UNCHANGED <<env, approvals, patches, call, task, spent, calls, retries>>

Pause ==
  /\ Move /\ stored = "running" /\ stored' = "paused"
  /\ UNCHANGED <<env, files, approvals, patches, call, mem, token, pending,
                 spent, calls, retries>>

ThreadStep ==
  \/ \E r \in Requests, a \in 0 .. Len(approvals) : Begin(r, IF r.tool \in Gated THEN a ELSE 0)
  \/ \E hs \in HookLists : \/ BeforeHooks(hs) \/ BeforePatchHooks(hs)
                           \/ Dispatch(hs) \/ AskHooks(hs)
                           \/ FailedHooks(hs) \/ Complete(hs)
  \/ TokenStops \/ WorktreeFails \/ WriteRead \/ WriteGate \/ WriteAct
  \/ PatchRead \/ PatchGate \/ DryRun \/ PatchFile \/ PatchApplied
  \/ CommandGate \/ CommandAct \/ OtherTool
  \/ Blocked \/ WaitApproval \/ PatchInvalid \/ ToolFailed \/ Return

Next ==
  \/ ThreadStep
  \/ \E a \in DOMAIN approvals, d \in {"approved", "rejected"}, w \in BOOLEAN :
       Decide(a, d, w)
  \/ \E c \in Configs : SaveConfig(c)
  \/ \E p \in Paths : EditFile(p)
  \/ Pause

Spec == Init /\ [][Next]_vars
-----------------------------------------------------------------------------
(* Properties.                                                               *)

\* Type invariant.
TypeOK ==
  /\ cfg.off \in BOOLEAN /\ cfg.mode \in [Caps -> Modes] /\ tainted \in BOOLEAN
  /\ files \in [Paths -> Contents]
  /\ \A i \in DOMAIN approvals :
       approvals[i].decision \in {"none", "approved", "rejected"}
  /\ \A i \in DOMAIN patches :
       patches[i].status \in {"proposed", "approved", "applied"}
  /\ call.at \in {"idle", "before", "beforePatch", "run", "gate", "act", "result",
                 "ask", "failedHooks", "return", "raised"}
  /\ call.aid \in 0 .. Len(approvals) /\ call.by \in 0 .. Len(approvals)
  /\ stored \in {"running", "paused", "waiting_approval", "failed"}
  /\ mem \in {"running", "paused", "waiting_approval", "failed"}
  /\ token \in BOOLEAN /\ spent \in 0 .. Budget /\ calls \in 0 .. MaxCalls
  /\ retries \in 0 .. MaxRetries /\ moves \in 0 .. MaxMoves

\* write_file, apply_patch and run_command act only where the policy allowed it
\* at some moment of the call or the user approved exactly what is about to be
\* executed: the same tool, paths and new content, made from the same base.
\* Hooks that rewrite, retries, policy edits, replayed approvals and resumed
\* calls come in between.
EffectAuthorised ==
  call.at = "act" =>
    \/ call.by = 0 /\ call.open
    \/ /\ call.by # 0 /\ approvals[call.by].decision = "approved"
       /\ approvals[call.by].req.tool = call.req.tool
       /\ approvals[call.by].req.new = call.new
       /\ call.req.tool # "run_command" => approvals[call.by].req = Shown(call)

\* What a call reports is what it did, whatever path it takes, hooks and retries
\* included: every tool.started of it is matched by one terminal event when
\* _execute_tool returns; a call reported as blocked, or about to ask for an
\* approval, has acted on nothing; and only a failed patch may leave a part of
\* its files written.
ReportIsTrue ==
  /\ call.at = "return" => call.ended = call.started
  /\ call.said = "blocked" \/ call.at = "ask" => ~call.ran
  /\ call.at = "return" /\ call.done # {} /\ call.done # PathSet(call)
       => call.said = "failed"

\* A patch record says applied only when every file of the patch was written
\* by the call that marks it.
AppliedPatchIsWhole ==
  [][\A i \in DOMAIN patches :
        (patches'[i].status = "applied" /\ patches[i].status # "applied")
          => call.done = PathSet(call)]_vars

=============================================================================
