----------------------------- MODULE Completion -----------------------------
(***************************************************************************)
(* The end of a task: orchestrator/task_lifecycle.py, _complete_task.      *)
(*                                                                         *)
(* The loop leaves tool results, command log rows, changed files and child *)
(* tasks behind.  When the model gives its final answer the thread         *)
(* validates the patches, replaces the task's verification records, reads  *)
(* the collaboration records, then the runtime children, builds the        *)
(* evidence, reads the approvals, and either writes "completed" or leaves  *)
(* the task running because a child or an approval is open.  Meanwhile a   *)
(* child resumes, asks, settles, the user decides and cancels, and         *)
(* background commands end.                                                *)
(***************************************************************************)
EXTENDS CompletionEvidence

CONSTANTS
  Children,     \* the child tasks this task may dispatch
  Configured,   \* the configured validation command, or NoCmd
  PyTests,      \* the commands whose text mentions pytest
  TestFiles,    \* the python test files among Paths
  TestCommand,  \* the pytest command built from changed test files
  TaskWindow,   \* how many of a task's latest approvals the audit looks at
  Window,       \* how many of all these approvals it keeps
  MaxWork,      \* bound: tool calls of the loop
  MaxAsks       \* bound: approvals created

ASSUME CompletionAssumption ==
  /\ IsFiniteSet(Children) /\ "root" \notin Children
  /\ Configured \in Commands \cup {NoCmd}
  /\ PyTests \subseteq Commands /\ TestCommand \in PyTests
  /\ TestFiles \subseteq Paths
  /\ TaskWindow \in Nat \ {0} /\ Window \in Nat \ {0}
  /\ MaxWork \in Nat /\ MaxAsks \in Nat

VARIABLES
  status,       \* the task's stored status
  mem,          \* the status in the completing thread's copy of the task
  stage,        \* where the completing thread is
  results,      \* the tool results handed to _complete_task
  commands,     \* task.commands
  log,          \* the task's command log rows
  clock,        \* ids and start times of the rows of this and of child tasks
  changed,      \* task.changedFiles
  verification, \* task.verification
  git,          \* whether the validation policy asks for git snapshots
  checks,       \* the checks of this completion's validation
  kids,         \* each child's runtime task, collaboration record and checks
  approvals,    \* the approvals in the order they were created
  collabs,      \* the collaboration statuses read by this completion
  evidence      \* the evidence of this completion

cpVars == <<status, mem, stage, results, commands, log, clock, changed, verification,
            git, checks, kids, approvals, collabs, evidence>>
taskVars == <<results, commands, log, changed, verification, git>>

Terminal == {"completed", "failed", "cancelled"}
ChildSts == {"absent", "running", "waiting_approval"} \cup Terminal
CollabSts == {"absent", "running", "blocked"} \cup Terminal
NoEvidence == [level |-> "none", children |-> {}, missing |-> {}, rerun |-> "none",
               open |-> FALSE]

Pending(owner) ==
  {i \in 1 .. Len(approvals) : approvals[i].owner = owner /\ approvals[i].decision = "pending"}

Row(c, st) == Item(clock + 1, c, st, clock + 1)

CPInit ==
  /\ status = "running" /\ mem = "running" /\ stage = "work"
  /\ results = << >> /\ commands = << >> /\ log = << >> /\ clock = 0
  /\ changed = {} /\ verification = << >>
  /\ git \in BOOLEAN
  /\ checks = << >>
  /\ kids = [k \in Children |-> [rt |-> "absent", collab |-> "absent", ver |-> << >>]]
  /\ approvals = << >>
  /\ collabs = [k \in Children |-> "absent"]
  /\ evidence = NoEvidence

----------------------------------------------------------------------------
(* The loop: the tool calls that leave evidence behind. *)

InLoop == stage = "work" /\ Len(results) < MaxWork

\* run_command writes a log row and the record of the task; a background
\* command leaves both running, and only its row is updated when it ends.
RunsCommand(c, st) ==
  /\ InLoop
  /\ clock' = clock + 1
  /\ log' = Append(log, Row(c, st))
  /\ commands' = Append(commands, Row(c, st))
  /\ results' = Append(results, [tool |-> "run_command", ok |-> st # "failed"])
  /\ UNCHANGED <<status, mem, stage, changed, verification, git, checks, kids,
                 approvals, collabs, evidence>>

BackgroundEnds(i, st) ==
  /\ log[i].st = "running"
  /\ log' = [log EXCEPT ![i] = [@ EXCEPT !.st = st]]
  /\ UNCHANGED <<status, mem, stage, results, commands, clock, changed, verification,
                 git, checks, kids, approvals, collabs, evidence>>

\* apply_patch adds the paths of an applied patch.
AppliesPatch(p, ok) ==
  /\ InLoop
  /\ changed' = IF ok THEN changed \cup {p} ELSE changed
  /\ results' = Append(results, [tool |-> "apply_patch", ok |-> ok])
  /\ UNCHANGED <<status, mem, stage, commands, log, clock, verification, git, checks,
                 kids, approvals, collabs, evidence>>

\* A gated tool was asked for and approved while the loop was parked.
WasApproved ==
  /\ InLoop
  /\ Len(approvals) < MaxAsks
  /\ approvals' = Append(approvals, [owner |-> "root", decision |-> "approved"])
  /\ results' = Append(results, [tool |-> "read_file", ok |-> TRUE])
  /\ UNCHANGED <<status, mem, stage, commands, log, clock, changed, verification, git,
                 checks, kids, collabs, evidence>>

\* The dispatch of a child returns: the child ended, it waits for an approval,
\* or its process was killed and left the runtime task where it was.
ChildEnded == {[rt |-> s, collab |-> s] : s \in {"completed", "failed"}}
ChildParked == {[rt |-> "waiting_approval", collab |-> "blocked"]}
ChildKilled == {[rt |-> s, collab |-> "failed"] : s \in {"running", "waiting_approval"}}

Dispatched(k, s, ver) ==
  /\ InLoop
  /\ kids[k].rt = "absent"
  /\ s \in ChildEnded \cup ChildParked \cup ChildKilled
  /\ kids' = [kids EXCEPT ![k] = [rt |-> s.rt, collab |-> s.collab, ver |-> ver]]
  /\ clock' = clock + Len(ver)
  /\ IF s.rt = "waiting_approval"
     THEN /\ Len(approvals) < MaxAsks
          /\ approvals' = Append(approvals, [owner |-> k, decision |-> "pending"])
     ELSE UNCHANGED approvals
  /\ results' = Append(results, [tool |-> "task", ok |-> s.rt = "completed"])
  /\ UNCHANGED <<status, mem, stage, commands, log, changed, verification, git,
                 checks, collabs, evidence>>

----------------------------------------------------------------------------
(* The other threads. *)

ChildStep(k, rt, collab, ver) ==
  /\ kids' = [kids EXCEPT ![k] = [rt |-> rt, collab |-> collab, ver |-> ver]]
  /\ UNCHANGED <<status, mem, stage, checks, collabs, evidence, taskVars>>

\* The user decides.  A decision on a child that waits resumes or fails it; the
\* process of a blocked child finds the approval decided and ignores it; a
\* decision on this task finds no parked loop and is only recorded.
Decide(i, d, remote) ==
  /\ approvals[i].decision = "pending"
  /\ approvals' = [approvals EXCEPT ![i] = [@ EXCEPT !.decision = d]]
  /\ LET k == approvals[i].owner
     IN  IF k \in Children /\ kids[k].rt = "waiting_approval"
            /\ ~(remote /\ kids[k].collab = "blocked")
         THEN ChildStep(k, IF d = "approved" THEN "running" ELSE "failed",
                        kids[k].collab, kids[k].ver)
         ELSE UNCHANGED <<status, mem, stage, checks, kids, collabs, evidence, taskVars>>
  /\ UNCHANGED clock

\* A resumed child: it runs in this process, whatever its collaboration record says.
Resumed(k) ==
  /\ kids[k].rt = "running"
  /\ \E i \in 1 .. Len(approvals) : approvals[i] = [owner |-> k, decision |-> "approved"]

\* Its next gated call creates the approval, and then parks it.
ResumedAsks(k) ==
  /\ Resumed(k) /\ Pending(k) = {}
  /\ Len(approvals) < MaxAsks
  /\ approvals' = Append(approvals, [owner |-> k, decision |-> "pending"])
  /\ UNCHANGED <<status, mem, stage, checks, kids, collabs, evidence, taskVars, clock>>

ResumedWaits(k) ==
  /\ Resumed(k) /\ Pending(k) # {}
  /\ ChildStep(k, "waiting_approval", kids[k].collab, kids[k].ver)
  /\ UNCHANGED <<approvals, clock>>

\* It ends, and then its collaboration record is finalized, if it still can be.
ResumedEnds(k, st, ver) ==
  /\ Resumed(k) /\ Pending(k) = {}
  /\ ChildStep(k, st, kids[k].collab, kids[k].ver \o ver)
  /\ clock' = clock + Len(ver)
  /\ UNCHANGED approvals

CollaborationEnds(k) ==
  /\ kids[k].rt \in Terminal /\ kids[k].collab = "blocked"
  /\ ChildStep(k, kids[k].rt, kids[k].rt, kids[k].ver)
  /\ UNCHANGED <<approvals, clock>>

\* task.cancel writes the stored status only.
Cancel ==
  /\ status \notin Terminal
  /\ status' = "cancelled"
  /\ UNCHANGED <<mem, stage, checks, kids, approvals, collabs, evidence, clock, taskVars>>

----------------------------------------------------------------------------
(* The completing thread. *)

\* The final answer: a cancelled task is left alone.
Finish ==
  /\ stage = "work"
  /\ stage' = IF status = "cancelled" THEN "returned" ELSE "validate"
  /\ UNCHANGED <<status, mem, checks, kids, approvals, collabs, evidence, clock, taskVars>>

Patched == \E i \in 1 .. Len(results) : results[i].tool = "apply_patch" /\ results[i].ok

\* The command of the validation: the configured one, else the first pytest
\* command that passed (the rows come newest first and are reversed), else
\* pytest over the changed test files.
ValidationCommand ==
  LET passed == {i \in 1 .. Len(log) : log[i].cmd \in PyTests /\ log[i].st \in PassedSts}
  IN  IF Configured # NoCmd THEN Configured
      ELSE IF passed # {} THEN log[CHOOSE i \in passed : \A j \in passed : i <= j].cmd
      ELSE IF changed \cap TestFiles # {} THEN TestCommand ELSE NoCmd

\* The git snapshots have no log row, hence no id and no start time.
GitChecks(st) == IF git THEN <<Item(0, NoCmd, st, 0)>> ELSE << >>

NoValidation ==
  /\ stage = "validate"
  /\ ~Patched \/ (ValidationCommand = NoCmd /\ ~git)
  /\ stage' = "collaborations"
  /\ UNCHANGED <<status, mem, checks, kids, approvals, collabs, evidence, clock, taskVars>>

\* The validation runs its command: it ends with a row, or raises without one.
ValidationRuns(st, gst, raised) ==
  /\ stage = "validate" /\ Patched
  /\ ValidationCommand # NoCmd
  /\ raised => st = "failed"
  /\ LET row == Row(ValidationCommand, st)
         check == IF raised THEN Item(0, ValidationCommand, st, 0) ELSE row
     IN  /\ checks' = Append(GitChecks(gst), check)
         /\ log' = IF raised THEN log ELSE Append(log, row)
         /\ commands' = IF raised THEN commands ELSE Append(commands, row)
         /\ clock' = IF raised THEN clock ELSE clock + 1
  /\ stage' = "record"
  /\ UNCHANGED <<status, mem, results, changed, verification, git, kids, approvals,
                 collabs, evidence>>

\* A command outside the allowlist asks: the task is parked without a loop to
\* come back to.
ValidationAsks(gst) ==
  /\ stage = "validate" /\ Patched
  /\ ValidationCommand # NoCmd
  /\ Len(approvals) < MaxAsks
  /\ approvals' = Append(approvals, [owner |-> "root", decision |-> "pending"])
  /\ checks' = Append(GitChecks(gst), Item(0, ValidationCommand, "approval_required", 0))
  /\ status' = "waiting_approval" /\ mem' = "waiting_approval"
  /\ stage' = "record"
  /\ UNCHANGED <<kids, collabs, evidence, clock, taskVars>>

ValidationSnapshots(gst) ==
  /\ stage = "validate" /\ Patched /\ git
  /\ ValidationCommand = NoCmd
  /\ checks' = Append(GitChecks(gst), Item(0, NoCmd, "skipped", 0))
  /\ stage' = "record"
  /\ UNCHANGED <<status, mem, kids, approvals, collabs, evidence, clock, taskVars>>

\* The records replace task.verification, and the thread's copy of the task is
\* refreshed from the store.
RecordVerification ==
  /\ stage = "record"
  /\ verification' = [i \in 1 .. Len(checks) |-> Normalised(checks[i])]
  /\ mem' = status
  /\ stage' = "collaborations"
  /\ UNCHANGED <<status, results, commands, log, changed, git, checks, kids,
                 approvals, collabs, evidence, clock>>

ReadCollaborations ==
  /\ stage = "collaborations"
  /\ collabs' = [k \in Children |-> kids[k].collab]
  /\ stage' = "evidence"
  /\ UNCHANGED <<status, mem, checks, kids, approvals, evidence, clock, taskVars>>

\* Variant: a child that waits for an approval counts as done.
ChildSettledWhenParked(k) ==
  collabs[k] \in Terminal \/ kids[k].rt \in {"waiting_approval"} \cup Terminal

\* A child's status: the collaboration record read before, when it is terminal,
\* else the runtime task read now.
ChildSettled(k) == collabs[k] \in Terminal \/ kids[k].rt \in Terminal

\* The children of this task in the session's task list, and their records.
Known == {k \in Children : kids[k].rt # "absent"}

ChildRecords == FlattenSeq([i \in 1 .. Cardinality(Known) |-> kids[SetToSeq(Known)[i]].ver])

\* The tool results count as evidence, and each child adds one.
ToolEvidence == results # << >> \/ Known # {}

\* The records of this task and of its children, merged.
BuildEvidence(recovered) ==
  /\ stage = "evidence"
  /\ LET allVer == MergeVerification(verification \o ChildRecords)
         allCommands == MergeCommands(commands \o ChildRecords \o FromStore(log))
         tests == MergeTests(TestsFromCommands(allCommands, recovered))
     IN  evidence' =
           [level |-> Level(allVer, tests, checks,
                            changed # {} \/ allCommands # << >> \/ ToolEvidence),
            children |-> {k \in Known : ~ChildSettled(k)},
            missing |-> Missing(changed, allVer, tests),
            rerun |-> recovered,
            open |-> FALSE]
  /\ stage' = "audit"
  /\ UNCHANGED <<status, mem, checks, kids, approvals, collabs, clock, taskVars>>

\* The latest approvals of this task and of each child, the latest of them all.
Latest(S, n) == {i \in S : Cardinality({j \in S : j > i}) < n}

Audited ==
  Latest(UNION {Latest({i \in 1 .. Len(approvals) : approvals[i].owner = o}, TaskWindow) :
                   o \in {"root"} \cup Children},
         Window)

Audit ==
  /\ stage = "audit"
  /\ evidence' = [evidence EXCEPT !.open =
                     \E i \in Audited : approvals[i].decision = "pending"]
  /\ stage' = "gate"
  /\ UNCHANGED <<status, mem, checks, kids, approvals, collabs, clock, taskVars>>

\* The gate: the thread's copy is terminal, something is open, or nothing is.
Gate ==
  /\ stage = "gate"
  /\ stage' = IF mem \in Terminal THEN "returned"
           ELSE IF evidence.open \/ evidence.children # {} THEN "wait" ELSE "finalize"
  /\ UNCHANGED <<status, mem, checks, kids, approvals, collabs, evidence, clock, taskVars>>

\* The task stays running; nothing comes back to it.
Wait ==
  /\ stage = "wait"
  /\ status' = IF mem # "running" THEN "running" ELSE status
  /\ stage' = "waiting"
  /\ UNCHANGED <<mem, checks, kids, approvals, collabs, evidence, clock, taskVars>>

Finalize ==
  /\ stage = "finalize"
  /\ status' = "completed"
  /\ stage' = "completed"
  /\ UNCHANGED <<mem, checks, kids, approvals, collabs, evidence, clock, taskVars>>

\* A returned thread, with nothing else left to happen.
Done ==
  /\ stage \in {"returned", "waiting", "completed"}
  /\ UNCHANGED cpVars

----------------------------------------------------------------------------
ChildVer == {<< >>} \cup {GitChecks("passed") \o <<Row(c, st)>> :
                           c \in Commands, st \in {"passed", "failed"}}

Loop ==
  \/ \E c \in Commands, st \in {"completed", "failed", "running"} : RunsCommand(c, st)
  \/ \E p \in Paths, ok \in BOOLEAN : AppliesPatch(p, ok)
  \/ WasApproved
  \/ \E k \in Children, s \in ChildEnded, ver \in ChildVer : Dispatched(k, s, ver)
  \/ \E k \in Children, s \in ChildParked \cup ChildKilled : Dispatched(k, s, << >>)

Others ==
  \/ \E i \in 1 .. Len(log), st \in {"completed", "failed"} : BackgroundEnds(i, st)
  \/ \E i \in 1 .. Len(approvals), d \in {"approved", "rejected"}, r \in BOOLEAN : Decide(i, d, r)
  \/ \E k \in Children : ResumedAsks(k) \/ ResumedWaits(k) \/ CollaborationEnds(k)
  \/ \E k \in Children, st \in {"completed", "failed"}, ver \in ChildVer : ResumedEnds(k, st, ver)
  \/ Cancel

Complete ==
  \/ Finish \/ NoValidation \/ RecordVerification
  \/ \E st \in {"completed", "failed", "timeout"}, gst \in {"completed", "failed"}, r \in BOOLEAN :
        ValidationRuns(st, gst, r)
  \/ \E gst \in {"completed", "failed"} : ValidationAsks(gst) \/ ValidationSnapshots(gst)
  \/ ReadCollaborations \/ Audit \/ Gate \/ Wait \/ Finalize
  \/ \E r \in {"none", "passed", "failed"} : BuildEvidence(r)

CPNext == Loop \/ Others \/ Complete \/ Done

CPSpec == CPInit /\ [][CPNext]_cpVars

----------------------------------------------------------------------------
Records(sts) == [id : Int, cmd : Commands \cup {NoCmd}, st : sts, ts : Nat]
Rows == Records({"completed", "failed", "timeout", "running"})
Checks == Records({"completed", "failed", "timeout", "skipped", "approval_required"})
ChildChecks == Records({"passed", "failed"})
Evidences ==
  [level : {"none", "failed_verification", "verified", "runtime_evidence", "summary_only"},
   children : SUBSET Children, missing : SUBSET Required(Paths),
   rerun : {"none", "passed", "failed"}, open : BOOLEAN]

\* Every variable keeps its type; in particular the verification records hold
\* the normalised statuses of _verification_status, never a tool's own.
CPTypeOK ==
  /\ status \in {"running", "waiting_approval"} \cup Terminal
  /\ mem \in {"running", "waiting_approval"} \cup Terminal
  /\ stage \in {"work", "validate", "record", "collaborations", "evidence", "audit", "gate",
                "wait", "finalize", "returned", "waiting", "completed"}
  /\ results \in Seq([tool : {"run_command", "apply_patch", "read_file", "task"}, ok : BOOLEAN])
  /\ log \in Seq(Rows) /\ commands \in Seq(Rows)
  /\ clock \in Nat /\ changed \subseteq Paths /\ git \in BOOLEAN
  /\ verification \in Seq(Records({"passed", "failed", "skipped", "approval_required"}))
  /\ checks \in Seq(Checks)
  /\ kids \in [Children -> [rt : ChildSts, collab : CollabSts, ver : Seq(ChildChecks)]]
  /\ approvals \in Seq([owner : Children \cup {"root"},
                        decision : {"pending", "approved", "rejected"}])
  /\ collabs \in [Children -> CollabSts]
  /\ evidence \in Evidences

\* A task is written "completed" only when its work has settled: each child's
\* runtime task or collaboration record is terminal, and no approval of its own
\* is open, however the children and the user moved between the reads of
\* _build_completion_evidence, the audit and the write of _finalize_completed_task.
CompletedIsSettled ==
  stage = "completed" =>
    /\ \A k \in Children : kids[k].rt \in {"absent"} \cup Terminal \/ kids[k].collab \in Terminal
    /\ Pending("root") = {}

\* The checks that really passed, as the command logs and the runtime's own runs
\* know them when the evidence is built.
ReallyPassed(rerun) ==
  {i \in Range(log) : i.st = "completed" /\ i.cmd \in Targeted}
    \cup {i \in Range(checks) : i.st = "completed"}
    \cup (UNION {{i \in Range(kids[k].ver) : i.st = "passed"} : k \in Children})
    \cup {i \in Range(log) \cup UNION {Range(kids[k].ver) : k \in Children} :
             rerun = "passed" /\ i.cmd \in NodeChecks /\ i.st \in FailedSts}

\* The evidence claims no pass that did not happen: a verified completion rests on
\* a check that passed, and a family is no longer missing only if one of its own
\* checks passed.
VerifiedIsGrounded ==
  [][stage = "evidence" /\ stage' = "audit" =>
       LET passed == ReallyPassed(evidence'.rerun)
       IN  /\ evidence'.level = "verified" => passed # {}
           /\ Required(changed) \ evidence'.missing \subseteq UNION {Families(i) : i \in passed}
    ]_cpVars

\* Where the start times are known the last check of a language decides, both
\* ways: the completion shows failed verification exactly when one of its own
\* checks failed or the latest check of some language did, in this task or in a
\* child; an older pass does not hide it and an older failure does not outlive a
\* later pass.
LastCheckDecides ==
  [][stage = "evidence" /\ stage' = "audit" /\ ~git =>
       LET all == Range(verification) \cup UNION {Range(kids[k].ver) : k \in Children}
           last(i) == \A j \in all : Languages(j) \cap Languages(i) # {} => j.ts <= i.ts
           decided == \E i \in all : i.st = "failed" /\ last(i)
           failed == \E i \in Range(checks) : i.st \in FailedSts
       IN  (\A i \in all : i.st \in {"passed", "failed"} => i.ts > 0)
             => (evidence'.level = "failed_verification" <=> failed \/ decided)
    ]_cpVars

=============================================================================
