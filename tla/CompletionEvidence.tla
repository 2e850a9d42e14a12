------------------------- MODULE CompletionEvidence -------------------------
(***************************************************************************)
(* What orchestrator/task_lifecycle.py reads out of the records a task     *)
(* leaves behind when its loop ends: which failed checks a later pass      *)
(* resolves, which tests the command records stand for, and the evidence   *)
(* level of the completion.  The operators are pure; Completion.tla runs   *)
(* them at the end of a task.                                              *)
(*                                                                         *)
(* A check or a command is a record [id, cmd, st, ts]: its command log row *)
(* (0 when there is none), its command (NoCmd for a git snapshot, whose    *)
(* record names none), its status and its start time (0 when the record    *)
(* has none).  The token tables over command texts become two constants.   *)
(***************************************************************************)
EXTENDS Integers, Sequences, FiniteSets, SequencesExt

CONSTANTS
  Commands,     \* the commands a task may run
  NoCmd,        \* the command of a record that names none
  Keys,         \* the resolution keys <<language, kind>> of each command
  Targeted,     \* the commands whose text mentions a targeted verification
  Paths,        \* the workspace files
  Language,     \* the language of each file, by its suffix
  Kind,         \* "manifest", "docs", "test" or "source", by its name and place
  NodeChecks    \* the commands that are a "node --check"

ASSUME EvidenceAssumption ==
  /\ NoCmd \notin Commands
  /\ Keys \in [Commands \cup {NoCmd} -> SUBSET (STRING \X STRING)]
  /\ Keys[NoCmd] = {}
  /\ Targeted \subseteq Commands
  /\ NodeChecks \subseteq Targeted
  /\ Language \in [Paths -> STRING]
  /\ Kind \in [Paths -> {"manifest", "docs", "test", "source"}]

FailedSts == {"failed", "timeout"}
PassedSts == {"passed", "completed"}

Item(id, cmd, st, ts) == [id |-> id, cmd |-> cmd, st |-> st, ts |-> ts]

(***************************************************************************)
(* The families of a record: its keys, the broad family of their languages *)
(* and "generic" for a targeted command no table knows.                    *)
(***************************************************************************)
Languages(i) == {k[1] : k \in Keys[i.cmd]}

\* Whether the text mentions a targeted verification; git status and diff do not.
IsTargeted(i) == i.cmd \in Targeted

\* What is left of the command's text when directories and interpreters are cut.
Identity(i) == i.cmd

Broad(language) == <<language, "any">>

Families(i) ==
  IF Keys[i.cmd] = {} /\ IsTargeted(i)
  THEN {Broad("generic")}
  ELSE Keys[i.cmd] \cup {Broad(l) : l \in Languages(i)}

(***************************************************************************)
(* Whether a pass resolves a failure.  Keys decide when both sides have    *)
(* them (two keys of one language overlap), then families, then the        *)
(* commands; when one side has keys and the other names no command at all, *)
(* the pass counts.                                                        *)
(***************************************************************************)
Resolves(f, p) ==
  /\ p.st \in PassedSts
  /\ IF Keys[f.cmd] # {} /\ Keys[p.cmd] # {}
     THEN Languages(f) \cap Languages(p) # {}
     ELSE IF Families(f) # {} /\ Families(p) # {}
          THEN Families(f) \cap Families(p) # {}
          ELSE IF Identity(f) # NoCmd /\ Identity(p) # NoCmd
               THEN Identity(f) = Identity(p)
               ELSE Families(f) # {} \/ Families(p) # {}

\* Variant: the records keep the order they were listed in.
AsListed(s) == s

(***************************************************************************)
(* Records in the order of their start times, the ones without a time last *)
(* and in the order they were listed.                                      *)
(***************************************************************************)
Chronological(s) ==
  LET Before(i, j) ==
        IF (s[i].ts = 0) # (s[j].ts = 0) THEN s[j].ts = 0
        ELSE s[i].ts < s[j].ts \/ (s[i].ts = s[j].ts /\ i < j)
      order == SetToSortSeq(1 .. Len(s), Before)
  IN  [k \in 1 .. Len(s) |-> s[order[k]]]

(***************************************************************************)
(* The failures no later pass resolves; any pass resolves a failure whose  *)
(* time is unknown.                                                        *)
(***************************************************************************)
Unresolved(s) ==
  LET c == Chronological(s)
  IN  {c[i] : i \in {i \in 1 .. Len(c) :
         /\ c[i].st \in FailedSts
         /\ \A j \in (i + 1) .. Len(c) : ~Resolves(c[i], c[j])
         /\ c[i].ts = 0 => \A j \in 1 .. Len(c) : ~Resolves(c[i], c[j])}}

(***************************************************************************)
(* The merges keep the first of the records that agree in the given fields.*)
(***************************************************************************)
Merge(s, fields) ==
  FoldLeft(LAMBDA acc, i : IF \E k \in 1 .. Len(acc) : \A f \in fields : acc[k][f] = i[f]
                           THEN acc ELSE Append(acc, i),
           << >>, s)

MergeCommands(s) == Merge(s, {"cmd", "st"})
MergeVerification(s) == Merge(s, {"id", "cmd", "st"})
MergeTests(s) == Merge(s, {"id", "cmd"})

\* Variant: the status of the record is not looked at.
PassedIfRun(i) == Item(i.id, i.cmd, "passed", i.ts)

(***************************************************************************)
(* The status a command record gives the test it stands for.               *)
(***************************************************************************)
Normalised(i) ==
  Item(i.id, i.cmd,
       CASE i.st \in PassedSts -> "passed"
         [] i.st \in FailedSts -> "failed"
         [] OTHER -> i.st,
       i.ts)

(***************************************************************************)
(* The command rows of a task, newest first, as the store lists them.      *)
(***************************************************************************)
FromStore(rows) == Reverse(rows)

(***************************************************************************)
(* A failed "node --check" whose failure looks environmental is run again  *)
(* by the runtime; recovered holds the rows whose second run was made and  *)
(* what it returned.  The new record has an id of its own and no time.     *)
(***************************************************************************)
Recovered(i, recovered) ==
  IF i.cmd \in NodeChecks /\ i.st \in FailedSts /\ recovered # "none"
  THEN <<Item(-i.id, i.cmd, recovered, 0)>>
  ELSE << >>

TestsFromCommands(cmds, recovered) ==
  FoldLeft(LAMBDA acc, i : IF IsTargeted(i)
                           THEN acc \o <<Normalised(i)>> \o Recovered(i, recovered)
                           ELSE acc,
           << >>, cmds)

(***************************************************************************)
(* The families a changed file requires: documents none, a test file the   *)
(* tests of its language, a source or a manifest any check of it; and the  *)
(* ones a passed record matches.                                           *)
(***************************************************************************)
RequiresTargeted(p) == Kind[p] # "docs"

TestFamily(p) == IF Kind[p] = "test" THEN {<<Language[p], "test">>} ELSE {}

PathFamilies(p) ==
  IF Kind[p] = "manifest" THEN {Broad(Language[p])}
  ELSE IF ~RequiresTargeted(p) THEN {}
  ELSE IF TestFamily(p) # {} THEN TestFamily(p) ELSE {Broad(Language[p])}

Required(changed) == UNION {PathFamilies(p) : p \in changed}

Matched(verification, tests) ==
  UNION ({Families(i) : i \in {i \in Range(verification) : i.st = "passed"}}
         \cup {Families(i) : i \in {i \in Range(tests) : i.st \in PassedSts}})

Missing(changed, verification, tests) ==
  Required(changed) \ Matched(verification, tests)

(***************************************************************************)
(* The evidence level.  Failed tests do not count as failed evidence, only *)
(* verification records and the checks of this completion do.              *)
(***************************************************************************)
Level(verification, tests, checks, workspace) ==
  IF Unresolved(verification) # {} \/ \E c \in Range(checks) : c.st \in FailedSts
  THEN "failed_verification"
  ELSE IF \E i \in Range(verification) \cup Range(tests) : i.st = "passed"
       THEN "verified"
       ELSE IF workspace THEN "runtime_evidence" ELSE "summary_only"

=============================================================================
