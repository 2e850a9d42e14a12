------------------------------ MODULE Worktree ------------------------------
(***************************************************************************)
(* The git worktree of one task: bound before the task's first write       *)
(* (message_routing.py, tool_pipeline.py), written to by the task's tools, *)
(* merged into a target branch after an approval and cleaned up            *)
(* (services/worktree_service.py), and the task's patches taken back       *)
(* (services/task_revert_service.py).                                      *)
(*                                                                         *)
(* Two threads work on it: the task's own, which writes, and the RPC       *)
(* thread, which serves the client's worktree.*, approval.submit and       *)
(* task.revertChanges requests one at a time.  Neither takes a lock: every *)
(* step is one store statement or one git command, and the other thread,   *)
(* an editor outside or a crash may come in between.  A refused request    *)
(* changes nothing and is left out.  So are the enter_worktree and         *)
(* exit_worktree tools, which are never offered to a model.                *)
(***************************************************************************)
EXTENDS Naturals, Sequences, FiniteSets, SequencesExt

CONSTANTS
  Patches,       \* the patches the task may apply
  TaskEdits,     \* changes its commands may make
  OutsideEdits,  \* changes made by somebody else
  Files,         \* the files there are
  FilesOf,       \* the files of each change
  Commands,      \* the commands the task may run
  Scope,         \* its write scope: the files in it, or {} if it declares none
  Targets,       \* branches a worktree may be merged into
  Bindings,      \* routing: worktreeBindingRequired, preferredWorktree, both or neither
  MergePolicies, \* worktree.mergePolicy of the configuration
  MaxApprovals,  \* bound: merge approvals
  MaxMerges,     \* bound: merges
  MaxCrashes     \* bound: crashes of the runtime

Changes == Patches \cup TaskEdits \cup OutsideEdits
CommandType == [readOnly : BOOLEAN, targets : SUBSET Files, cwd : SUBSET Files,
                does : TaskEdits \cup {"commit"}]

ASSUME WorktreeAssumption ==
  /\ Patches \cap (TaskEdits \cup OutsideEdits) = {} /\ TaskEdits \cap OutsideEdits = {}
  /\ FilesOf \in [Changes -> (SUBSET Files) \ {{}}]
  /\ Commands \subseteq CommandType /\ Scope \subseteq Files
  /\ Bindings \subseteq SUBSET {"required", "preferred"}
  /\ MergePolicies \subseteq {"approval_required", "auto_merge", "manual_only"}
  /\ MaxApprovals \in Nat /\ MaxMerges \in Nat /\ MaxCrashes \in Nat

VARIABLES
  pc, arg,    \* where each thread is, and what it works on
  bind,       \* the task's routing
  routed,     \* routing.activeWorktree names the worktree
  bound,      \* the context's workspace root is the worktree
  rec,        \* task_worktrees: the status of the task's record
  policy,     \* and its merge policy
  dir, head,  \* the worktree's directory, and the changes its branch holds
  files,      \* the changes in the files of the workspace and of the worktree
  repo,       \* the main repository: "clean", or "merging" after a conflict
  patch,      \* patches: their status and where they were applied
  approvals,  \* approvals of kind worktree_merge
  merges,     \* the merges made so far
  edits,      \* changes not made yet
  forced, disturbed, crashes  \* a forced cleanup; a revert met something else; crashes

vars == <<pc, arg, bind, routed, bound, rec, policy, dir, head, files, repo,
          patch, approvals, merges, edits, forced, disturbed, crashes>>
binding == <<bind, routed, bound, policy>>
git == <<dir, head, files, repo>>
rest == <<edits, forced, disturbed, crashes>>

Threads == {"task", "rpc"}
Active == {"creating", "active", "paused", "ready_for_review"}
NoPatch == "no patch"
Idle == [patch |-> NoPatch, root |-> "workspace", target |-> "none", approval |-> 0,
         review |-> "approved", force |-> FALSE,
         list |-> <<>>, undone |-> <<>>, before |-> <<>>]

\* A review: none or a pending one counts as "approved", changes_requested as "rejected".
Reviews == {"approved", "rejected"}

Clean == Range(files["worktree"]) = head
HasRoot(r) == r = "worktree" => dir

\* A thread goes on at label l, or is done.
Goes(t, l) == pc' = [pc EXCEPT ![t] = l] /\ UNCHANGED arg
With(t, l, a) == pc' = [pc EXCEPT ![t] = l] /\ arg' = [arg EXCEPT ![t] = a]
Done(t) == With(t, "idle", Idle)

Init ==
  /\ pc = [t \in Threads |-> IF t = "task" THEN "start" ELSE "idle"]
  /\ arg = [t \in Threads |-> Idle]
  /\ bind \in Bindings /\ policy \in MergePolicies
  /\ routed = FALSE /\ bound = FALSE /\ rec = "none"
  /\ dir = FALSE /\ head = {} /\ files = [r \in {"workspace", "worktree"} |-> <<>>]
  /\ repo = "clean"
  /\ patch = [p \in Patches |-> [status |-> "none", at |-> "workspace"]]
  /\ approvals = <<>> /\ merges = {}
  /\ edits = TaskEdits \cup OutsideEdits
  /\ forced = FALSE /\ disturbed = FALSE /\ crashes = 0

----------------------------------------------------------------------------
(* Binding: git worktree add, then the record, then the routing. *)

GitAdds ==
  /\ ~dir /\ dir' = TRUE
  /\ UNCHANGED <<head, files, repo>>

\* A message whose routing requires a worktree binds it before the task runs.
StartTask ==
  /\ pc["task"] = "start"
  /\ IF "required" \in bind THEN GitAdds /\ bound' = TRUE /\ Goes("task", "insert")
                             ELSE Goes("task", "idle") /\ UNCHANGED <<bound, git>>
  /\ UNCHANGED <<bind, routed, rec, policy, patch, approvals, merges, rest>>

\* If it cannot be bound the task fails, unless a worktree is only preferred.
StartFails ==
  /\ pc["task"] = "start" /\ "required" \in bind
  /\ Goes("task", IF "preferred" \in bind THEN "idle" ELSE "ended")
  /\ UNCHANGED <<binding, rec, git, patch, approvals, merges, rest>>

\* A worktree that could not be bound stops a write if it is required.
WriteUnbound(p) ==
  /\ pc["task"] = "idle" /\ patch[p].status = "none" /\ bind # {} /\ rec = "none"
  /\ IF "required" \in bind THEN Done("task") ELSE With("task", "root", [Idle EXCEPT !.patch = p])
  /\ UNCHANGED <<binding, rec, git, patch, approvals, merges, rest>>

\* A write tool binds the worktree if the routing wants one and none is recorded.
Write(p) ==
  /\ pc["task"] = "idle" /\ patch[p].status = "none"
  /\ IF bind # {} /\ rec = "none"
       THEN GitAdds /\ With("task", "insert", [Idle EXCEPT !.patch = p])
       ELSE With("task", "root", [Idle EXCEPT !.patch = p]) /\ UNCHANGED git
  /\ UNCHANGED <<binding, rec, patch, approvals, merges, rest>>

CreateWorktree ==
  /\ pc["task"] = "insert"
  /\ rec' = "creating" /\ Goes("task", "activate")
  /\ UNCHANGED <<binding, git, patch, approvals, merges, rest>>

ActivateWorktree ==
  /\ pc["task"] = "activate"
  /\ rec' = "active"
  /\ Goes("task", "route")
  /\ UNCHANGED <<binding, git, patch, approvals, merges, rest>>

RouteTask ==
  /\ pc["task"] = "route"
  /\ routed' = TRUE /\ bind' = bind \cup {"required"}
  /\ Goes("task", IF arg["task"].patch = NoPatch THEN "idle" ELSE "root")
  /\ UNCHANGED <<bound, policy, rec, git, patch, approvals, merges, rest>>

----------------------------------------------------------------------------
(* Writing: the root is looked up, the patch applied, then recorded. *)

\* Variant: a tool works where the context of its loop says.
RootOfContext == IF bound THEN "worktree" ELSE "workspace"

\* Where a tool of the task works: in the worktree while its record is active,
\* afterwards where the context says.
Root == IF rec \in Active \/ bound THEN "worktree" ELSE "workspace"

ResolveRoot ==
  /\ pc["task"] = "root"
  /\ With("task", "apply", [arg["task"] EXCEPT !.root = Root])
  /\ UNCHANGED <<binding, rec, git, patch, approvals, merges, rest>>

InScope(fs) == Scope = {} \/ fs \subseteq Scope

\* The patch is checked against the write scope and written.
ApplyPatch ==
  LET p == arg["task"].patch
      r == arg["task"].root
  IN  /\ pc["task"] = "apply"
      /\ IF HasRoot(r) /\ InScope(FilesOf[p])
           THEN /\ patch' = [patch EXCEPT ![p] = [status |-> "approved", at |-> r]]
                /\ files' = [files EXCEPT ![r] = Append(@, p)]
                /\ Goes("task", "record")
           ELSE Done("task") /\ UNCHANGED <<patch, files>>
      /\ UNCHANGED <<binding, rec, dir, head, repo, approvals, merges, rest>>

RecordPatch ==
  /\ pc["task"] = "record"
  /\ patch' = [patch EXCEPT ![arg["task"].patch].status = "applied"]
  /\ Done("task")
  /\ UNCHANGED <<binding, rec, git, approvals, merges, rest>>

\* A command of a task with a scope only reads, or names what it works on, or
\* else runs in a directory of the scope.
CommandAllowed(c) ==
  \/ Scope = {} \/ c.readOnly
  \/ c.targets # {} /\ InScope(c.targets)
  \/ c.targets = {} /\ InScope(c.cwd)

\* A command of the task: a change of files, or a commit in the worktree.
RunCommand(c) ==
  /\ pc["task"] = "idle" /\ CommandAllowed(c) /\ HasRoot(Root)
  /\ IF c.does = "commit"
       THEN /\ Root = "worktree" /\ head' = Range(files["worktree"])
            /\ UNCHANGED <<files, edits>>
       ELSE /\ c.does \in edits /\ edits' = edits \ {c.does}
            /\ files' = [files EXCEPT ![Root] = Append(@, c.does)]
            /\ UNCHANGED head
  /\ UNCHANGED <<pc, arg, binding, rec, dir, repo, patch, approvals, merges,
                 forced, disturbed, crashes>>

----------------------------------------------------------------------------
(* worktree.requestMergeApproval. *)

\* Refused when dirty, when the policy is manual_only, and by a negative review.
RequestMerge(b, review) ==
  /\ pc["rpc"] = "idle" /\ rec # "none" /\ dir
  /\ policy # "manual_only" /\ Clean /\ review # "rejected"
  /\ With("rpc", "verify", [Idle EXCEPT !.target = b, !.review = review])
  /\ UNCHANGED <<binding, rec, git, patch, approvals, merges, rest>>

\* The verification commands stop at the first that fails, and then nothing is asked.
VerificationFails ==
  /\ pc["rpc"] = "verify"
  /\ Done("rpc")
  /\ UNCHANGED <<binding, rec, git, patch, approvals, merges, rest>>

Newest(is) == CHOOSE i \in is : \A j \in is : j <= i
AskedOf(b) == {i \in DOMAIN approvals : approvals[i].target = b}
Asked(a) == [target |-> a.target, review |-> a.review, decision |-> "none"]

\* They pass: if the last approval of this target is still undecided its request
\* is replaced, otherwise a new one is made.
AskMerge ==
  LET a == arg["rpc"]
      open == {i \in AskedOf(a.target) : i = Newest(AskedOf(a.target))
                                          /\ approvals[i].decision = "none"}
  IN  /\ pc["rpc"] = "verify" /\ dir
      /\ approvals' = IF open = {} THEN Append(approvals, Asked(a))
                      ELSE [i \in DOMAIN approvals |-> IF i \in open THEN Asked(a) ELSE approvals[i]]
      /\ Len(approvals') <= MaxApprovals
      /\ Done("rpc")
      /\ UNCHANGED <<binding, rec, git, patch, merges, rest>>

----------------------------------------------------------------------------
(* The decision, and the merge. *)

\* approval.submit: an approval merges at once, unless the task is paused.
SubmitApproval(i, decision, paused) ==
  /\ pc["rpc"] = "idle" /\ i \in DOMAIN approvals /\ approvals[i].decision = "none"
  /\ approvals' = [approvals EXCEPT ![i].decision = decision]
  /\ IF decision = "approved" /\ ~paused
       THEN With("rpc", "check", [Idle EXCEPT !.approval = i, !.target = approvals[i].target])
       ELSE Done("rpc")
  /\ UNCHANGED <<binding, rec, git, patch, merges, rest>>

\* worktree.merge.
MergeRequested(i, b) ==
  /\ pc["rpc"] = "idle" /\ i \in 0 .. Len(approvals)
  /\ With("rpc", "check", [Idle EXCEPT !.approval = i, !.target = b])
  /\ UNCHANGED <<binding, rec, git, patch, approvals, merges, rest>>

\* Variant: the approved target is not compared.
ApprovedAnyTarget(i, b) ==
  i # 0 /\ approvals[i].decision = "approved" /\ approvals[i].review # "rejected"

Approved(i, b) ==
  /\ i # 0 /\ approvals[i].decision = "approved" /\ approvals[i].target = b
  /\ approvals[i].review # "rejected"

MergeAllowed ==
  /\ rec # "none" /\ policy # "manual_only"
  /\ policy = "approval_required" => Approved(arg["rpc"].approval, arg["rpc"].target)
  /\ dir /\ Clean

MergeCheck ==
  /\ pc["rpc"] = "check"
  /\ IF MergeAllowed THEN Goes("rpc", "merge") ELSE Done("rpc")
  /\ UNCHANGED <<binding, rec, git, patch, approvals, merges, rest>>

\* git checkout and git merge in the main repository.  A conflict may leave it
\* in the middle of the merge, and then the next checkout fails.
MergeOk ==
  LET b == arg["rpc"].target
  IN  /\ pc["rpc"] = "merge" /\ repo = "clean" /\ Cardinality(merges) < MaxMerges
      /\ files' = [files EXCEPT !["workspace"] = @ \o SetToSeq(head \ Range(@))]
      /\ merges' = merges \cup {[target |-> b, approval |-> arg["rpc"].approval]}
      /\ Goes("rpc", "merged")
      /\ UNCHANGED <<binding, rec, dir, head, repo, patch, approvals, rest>>

Overlap(x, y) == FilesOf[x] \cap FilesOf[y] # {}

MergeConflicts ==
  /\ pc["rpc"] = "merge" /\ repo = "clean"
  /\ \E x \in Range(files["workspace"]) \ head : \E y \in head : Overlap(x, y)
  /\ repo' \in {"clean", "merging"}
  /\ Goes("rpc", "conflict")
  /\ UNCHANGED <<binding, rec, dir, head, files, patch, approvals, merges, rest>>

CheckoutFails ==
  /\ pc["rpc"] = "merge" /\ repo = "merging"
  /\ Done("rpc")
  /\ UNCHANGED <<binding, rec, git, patch, approvals, merges, rest>>

RecordMerge ==
  /\ pc["rpc"] \in {"merged", "conflict"}
  /\ rec' = IF pc["rpc"] = "merged" THEN "merged" ELSE "failed"
  /\ Done("rpc")
  /\ UNCHANGED <<binding, git, patch, approvals, merges, rest>>

----------------------------------------------------------------------------
(* worktree.cleanup: checked, removed, recorded. *)

Cleanup(force) ==
  /\ pc["rpc"] = "idle" /\ rec # "none" /\ dir
  /\ force \/ Clean
  /\ With("rpc", "remove", [Idle EXCEPT !.force = force])
  /\ UNCHANGED <<binding, rec, git, patch, approvals, merges, rest>>

\* Variant: a cleanup that was found clean is forced.
GitRemovesForced ==
  /\ pc["rpc"] = "remove" /\ dir
  /\ dir' = FALSE /\ files' = [files EXCEPT !["worktree"] = <<>>]
  /\ forced' = (forced \/ arg["rpc"].force)
  /\ Goes("rpc", "removed")
  /\ UNCHANGED <<binding, rec, head, repo, patch, approvals, merges, edits,
                 disturbed, crashes>>

\* git worktree remove refuses a dirty directory itself, unless it is forced.
GitRemoves ==
  /\ pc["rpc"] = "remove"
  /\ IF dir /\ (arg["rpc"].force \/ Clean)
       THEN /\ dir' = FALSE /\ files' = [files EXCEPT !["worktree"] = <<>>]
            /\ forced' = (forced \/ arg["rpc"].force)
            /\ Goes("rpc", "removed")
       ELSE Done("rpc") /\ UNCHANGED <<dir, files, forced>>
  /\ UNCHANGED <<binding, rec, head, repo, patch, approvals, merges, edits,
                 disturbed, crashes>>

RecordCleaned ==
  /\ pc["rpc"] = "removed"
  /\ rec' = "cleaned" /\ Done("rpc")
  /\ UNCHANGED <<binding, git, patch, approvals, merges, rest>>

----------------------------------------------------------------------------
(* task.revertChanges: tried on a copy, then newest first on the files, taken *)
(* back if one fails, and recorded patch by patch.                            *)

Position(x, s) == CHOOSE i \in DOMAIN s : s[i] = x
Revertable == {p \in Patches : patch[p].status = "applied"}

\* Patches are listed oldest first; one that is not in the files comes after them.
OldestFirst(list, s) ==
  \A i, j \in DOMAIN list :
    i < j /\ list[j] \in Range(s) =>
      list[i] \in Range(s) /\ Position(list[i], s) < Position(list[j], s)

StartRevert ==
  LET r == IF routed THEN "worktree" ELSE "workspace"
  IN  /\ pc["rpc"] = "idle" /\ Revertable # {} /\ HasRoot(r)
      /\ \E list \in SetToSeqs(Revertable) :
           /\ OldestFirst(list, files[r])
           /\ With("rpc", "simulate", [Idle EXCEPT !.root = r, !.list = list])
      /\ UNCHANGED <<binding, rec, git, patch, approvals, merges, rest>>

\* Whether git apply -R of p succeeds on files s: nothing later overlaps it.
Reversible(p, s) ==
  /\ p \in Range(s)
  /\ \A i \in DOMAIN s : i > Position(p, s) => ~Overlap(s[i], p)

\* Whether the whole list can be reversed, newest first.
AllReversible(list, s) ==
  \A p \in Range(list) :
    p \in Range(s) /\ \A i \in DOMAIN s :
      i > Position(p, s) /\ Overlap(s[i], p) => s[i] \in Range(list)

SimulateRevert ==
  LET a == arg["rpc"]
  IN  /\ pc["rpc"] = "simulate"
      /\ IF HasRoot(a.root) /\ AllReversible(a.list, files[a.root])
           THEN With("rpc", "reverse", [a EXCEPT !.before = files[a.root]])
           ELSE Done("rpc")
      /\ UNCHANGED <<binding, rec, git, patch, approvals, merges, rest>>

\* The newest patch left is reversed.
ReversePatch ==
  LET a == arg["rpc"]
      p == a.list[Len(a.list) - Len(a.undone)]
  IN  /\ pc["rpc"] = "reverse" /\ Len(a.undone) < Len(a.list)
      /\ HasRoot(a.root) /\ Reversible(p, files[a.root])
      /\ files' = [files EXCEPT ![a.root] = RemoveAt(@, Position(p, @))]
      /\ With("rpc", "reverse", [a EXCEPT !.undone = Append(@, p)])
      /\ UNCHANGED <<binding, rec, dir, head, repo, patch, approvals, merges, rest>>

\* Variant: the patches reversed so far are left reversed.
ReverseFailsOut ==
  /\ pc["rpc"] = "reverse" /\ Len(arg["rpc"].undone) < Len(arg["rpc"].list)
  /\ With("rpc", "rollback", [arg["rpc"] EXCEPT !.undone = <<>>])
  /\ UNCHANGED <<binding, rec, git, patch, approvals, merges, rest>>

\* git apply fails, because the files have changed or for a reason of its own.
ReverseFails ==
  /\ pc["rpc"] = "reverse" /\ Len(arg["rpc"].undone) < Len(arg["rpc"].list)
  /\ Goes("rpc", "rollback")
  /\ UNCHANGED <<binding, rec, git, patch, approvals, merges, rest>>

\* git apply takes longer than its 30 seconds: the exception skips the rollback.
ReverseTimesOut ==
  /\ pc["rpc"] = "reverse" /\ Len(arg["rpc"].undone) < Len(arg["rpc"].list)
  /\ Done("rpc") /\ disturbed' = TRUE
  /\ UNCHANGED <<binding, rec, git, patch, approvals, merges, edits, forced, crashes>>

\* The last one reversed is applied again, if nothing has overlapped it since.
RollBack ==
  LET a == arg["rpc"]
      p == Last(a.undone)
      old == {x \in Range(a.before) : Position(x, a.before) < Position(p, a.before)}
  IN  /\ pc["rpc"] = "rollback" /\ a.undone # <<>>
      /\ IF HasRoot(a.root) /\ \A x \in Range(files[a.root]) : Overlap(x, p) => x \in old
           THEN files' = [files EXCEPT ![a.root] = Append(@, p)] /\ UNCHANGED disturbed
           ELSE disturbed' = TRUE /\ UNCHANGED files
      /\ With("rpc", "rollback", [a EXCEPT !.undone = Front(@)])
      /\ UNCHANGED <<binding, rec, dir, head, repo, patch, approvals, merges,
                     edits, forced, crashes>>

RevertFailed ==
  /\ pc["rpc"] = "rollback" /\ arg["rpc"].undone = <<>>
  /\ Done("rpc")
  /\ UNCHANGED <<binding, rec, git, patch, approvals, merges, rest>>

\* Everything is reversed: the patches are marked one by one.
MarkReverted ==
  LET a == arg["rpc"]
  IN  /\ pc["rpc"] = "reverse" /\ Len(a.undone) = Len(a.list)
      /\ IF a.list = <<>> THEN Done("rpc") /\ UNCHANGED patch
         ELSE /\ patch' = [patch EXCEPT ![Head(a.list)].status = "reverted"]
              /\ With("rpc", "reverse", [a EXCEPT !.list = Tail(@), !.undone = Tail(@)])
      /\ UNCHANGED <<binding, rec, git, approvals, merges, rest>>

----------------------------------------------------------------------------
\* Somebody edits a file of the workspace or of the worktree.
OutsideEdit(x, r) ==
  /\ x \in edits /\ HasRoot(r)
  /\ edits' = edits \ {x}
  /\ files' = [files EXCEPT ![r] = Append(@, x)]
  /\ UNCHANGED <<pc, arg, binding, rec, dir, head, repo, patch, approvals,
                 merges, forced, disturbed, crashes>>

\* The runtime crashes: both threads are gone, and the task will be failed.
Crash ==
  /\ crashes < MaxCrashes /\ crashes' = crashes + 1
  /\ pc' = [pc EXCEPT !["task"] = "ended", !["rpc"] = "idle"]
  /\ arg' = [t \in Threads |-> Idle]
  /\ UNCHANGED <<binding, rec, git, patch, approvals, merges, edits, forced, disturbed>>

EndTask ==
  /\ pc["task"] = "idle"
  /\ Goes("task", "ended")
  /\ UNCHANGED <<binding, rec, git, patch, approvals, merges, rest>>

Binding ==
  \/ StartTask \/ StartFails \/ CreateWorktree \/ ActivateWorktree \/ RouteTask

Writing ==
  \/ \E p \in Patches : Write(p) \/ WriteUnbound(p)
  \/ ResolveRoot \/ ApplyPatch \/ RecordPatch
  \/ \E c \in Commands : RunCommand(c)

Merging ==
  \/ \E b \in Targets : \E v \in Reviews : RequestMerge(b, v)
  \/ VerificationFails \/ AskMerge
  \/ \E i \in 1 .. MaxApprovals : \E d \in {"approved", "rejected"} : \E paused \in BOOLEAN :
       SubmitApproval(i, d, paused)
  \/ \E b \in Targets : \E i \in 0 .. MaxApprovals : MergeRequested(i, b)
  \/ MergeCheck \/ MergeOk \/ MergeConflicts \/ CheckoutFails \/ RecordMerge

Cleaning ==
  \/ \E force \in BOOLEAN : Cleanup(force)
  \/ GitRemoves \/ RecordCleaned

Reverting ==
  \/ StartRevert \/ SimulateRevert \/ ReversePatch \/ ReverseFails \/ ReverseTimesOut
  \/ RollBack \/ RevertFailed \/ MarkReverted

Next ==
  \/ Binding \/ Writing \/ EndTask
  \/ Merging \/ Cleaning \/ Reverting
  \/ \E x \in OutsideEdits : \E r \in DOMAIN files : OutsideEdit(x, r)
  \/ Crash

Spec == Init /\ [][Next]_vars

----------------------------------------------------------------------------
TaskLabels == {"start", "idle", "ended", "insert", "activate", "route", "root", "apply", "record"}
RpcLabels ==
  {"idle", "verify", "check", "merge", "merged", "conflict", "remove", "removed",
   "simulate", "reverse", "rollback"}
Roots == {"workspace", "worktree"}

ArgType ==
  [patch : Patches \cup {NoPatch}, root : Roots, target : Targets \cup {"none"}, approval : Nat,
   review : Reviews, force : BOOLEAN, list : Seq(Patches), undone : Seq(Patches),
   before : Seq(Changes)]
PatchType == [status : {"none", "approved", "applied", "reverted"}, at : Roots]
ApprovalType == [target : Targets, review : Reviews, decision : {"none", "approved", "rejected"}]

TypeOK ==
  /\ pc \in [Threads -> TaskLabels \cup RpcLabels]
  /\ pc["task"] \in TaskLabels /\ pc["rpc"] \in RpcLabels
  /\ arg \in [Threads -> ArgType]
  /\ bind \subseteq {"required", "preferred"} /\ routed \in BOOLEAN /\ bound \in BOOLEAN
  /\ rec \in {"none", "creating", "active", "merged", "failed", "cleaned"}
  /\ policy \in {"approval_required", "auto_merge", "manual_only"}
  /\ dir \in BOOLEAN /\ head \subseteq Changes
  /\ files \in [Roots -> Seq(Changes)]
  /\ repo \in {"clean", "merging"}
  /\ patch \in [Patches -> PatchType]
  /\ approvals \in Seq(ApprovalType) /\ Len(approvals) <= MaxApprovals
  /\ merges \subseteq [target : Targets, approval : 0 .. MaxApprovals]
  /\ edits \subseteq TaskEdits \cup OutsideEdits
  /\ forced \in BOOLEAN /\ disturbed \in BOOLEAN /\ crashes \in 0 .. MaxCrashes

\* A merge that needs an approval took one that the user had given for this
\* very target and that no negative review stood in.
MergeAuthorised ==
  \A m \in merges : policy = "approval_required" =>
    /\ m.approval \in DOMAIN approvals
    /\ LET a == approvals[m.approval]
       IN  a.decision = "approved" /\ a.target = m.target /\ a.review # "rejected"

\* What the task writes stays where it belongs: no patch is written to the
\* workspace itself while the task's worktree is active, nor, if the routing
\* requires one, before there is a worktree; and whatever the task's patches and
\* commands change, in either place, is in its write scope.
WritesIsolated ==
  [][/\ \A p \in Patches :
          patch'[p] = [status |-> "approved", at |-> "workspace"] /\ patch'[p] # patch[p]
            => rec \notin Active /\ ("required" \in bind => rec # "none")
     /\ Scope # {} =>
          \A r \in DOMAIN files : \A x \in Range(files'[r]) \cap (Patches \cup TaskEdits) :
            FilesOf[x] \subseteq Scope]_vars

\* A patch recorded as applied in the worktree is in its files or committed to
\* its branch, unless somebody forced a cleanup, a revert is under way or was cut
\* short, or the runtime crashed.
WorkKept ==
  \A p \in Patches :
    /\ patch[p].status = "applied" /\ patch[p].at = "worktree"
    /\ ~forced /\ ~disturbed /\ crashes = 0 /\ p \notin Range(arg["rpc"].list)
    => p \in Range(files["worktree"]) \cup head

\* A revert is all or nothing: one that failed has put back every patch it had
\* reversed, unless a change made by somebody else overlapped one of them, and a
\* patch recorded as reverted is no longer in the files it was applied to.
RevertAllOrNothing ==
  /\ pc["rpc"] = "rollback" /\ arg["rpc"].undone = <<>> /\ ~disturbed /\ HasRoot(arg["rpc"].root)
       => Range(arg["rpc"].list) \subseteq Range(files[arg["rpc"].root])
  /\ \A p \in Patches : patch[p].status = "reverted" => p \notin Range(files[patch[p].at])

=============================================================================
