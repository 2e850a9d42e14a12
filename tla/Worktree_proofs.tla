--------------------------- MODULE Worktree_proofs ---------------------------
(***************************************************************************)
(* MergeAuthorised, WorkKept, RevertAllOrNothing and WritesIsolated for    *)
(* every set of patches, commands, targets and files.                      *)
(*                                                                         *)
(* None of them is inductive.  IInv adds what holds between the steps of   *)
(* the two threads: what the task's thread has looked up still stands when *)
(* it writes (AtTask, RootStands), where a patch can be (Placed, Once,     *)
(* Kept), how far a revert has come (Listed, Undoing, Gone), and that the  *)
(* approval of a merge is still given when the merge is made (Allowed).    *)
(***************************************************************************)
EXTENDS Worktree, SequenceTheorems, FiniteSetTheorems, TLAPS

-----------------------------------------------------------------------------
(* Sequences of changes. *)

\* An appended change is the only new one, and a new one leaves no change twice.
LEMMA AppendOne ==
  ASSUME NEW S, NEW s \in Seq(S), NEW x \in S
  PROVE  /\ Append(s, x) \in Seq(S)
         /\ Range(Append(s, x)) = Range(s) \cup {x}
         /\ IsInjective(s) /\ x \notin Range(s) => IsInjective(Append(s, x))
<1>1. /\ Append(s, x) \in Seq(S) /\ Len(Append(s, x)) = Len(s) + 1 /\ Len(s) \in Nat
      /\ \A i \in 1 .. Len(s) : Append(s, x)[i] = s[i]
      /\ Append(s, x)[Len(s) + 1] = x
  BY AppendProperties, LenProperties
<1>2. DOMAIN s = 1 .. Len(s) /\ DOMAIN Append(s, x) = 1 .. Len(s) + 1
  BY <1>1, LenProperties
<1>3. Range(Append(s, x)) = Range(s) \cup {x}
  <2>1. \A i \in 1 .. Len(s) + 1 : i \in 1 .. Len(s) \/ i = Len(s) + 1
    BY <1>1
  <2>2. 1 .. Len(s) \subseteq 1 .. Len(s) + 1 /\ Len(s) + 1 \in 1 .. Len(s) + 1
    BY <1>1
  <2>3. Range(Append(s, x)) = {Append(s, x)[i] : i \in 1 .. Len(s) + 1}
    BY <1>2 DEF Range
  <2>4. Range(s) = {s[i] : i \in 1 .. Len(s)}
    BY <1>2 DEF Range
  <2>. QED
    BY <1>1, <2>1, <2>2, <2>3, <2>4
<1>4. ASSUME IsInjective(s), x \notin Range(s) PROVE IsInjective(Append(s, x))
  <2>1. \A i \in 1 .. Len(s) : s[i] # x
    BY <1>2, <1>4 DEF Range
  <2>. QED
    BY <1>1, <1>2, <1>4, <2>1 DEF IsInjective
<1>. QED
  BY <1>1, <1>3, <1>4

\* A change that is removed leaves the others as they are.
LEMMA RemoveOne ==
  ASSUME NEW S, NEW s \in Seq(S), IsInjective(s), NEW x \in Range(s)
  PROVE  /\ RemoveAt(s, Position(x, s)) \in Seq(S)
         /\ Range(RemoveAt(s, Position(x, s))) = Range(s) \ {x}
         /\ IsInjective(RemoveAt(s, Position(x, s)))
<1> DEFINE n == Len(s)
           k == Position(x, s)
           a == SubSeq(s, 1, k - 1)
           b == SubSeq(s, k + 1, n)
           t == RemoveAt(s, k)
<1>1. n \in Nat /\ DOMAIN s = 1 .. n /\ \A i \in 1 .. n : s[i] \in S
  BY LenProperties, ElementOfSeq
<1>2. k \in 1 .. n /\ s[k] = x
  BY <1>1 DEF Position, Range
<1> HIDE DEF n, k
<1>3. a \in Seq(S) /\ Len(a) = k - 1 /\ \A i \in 1 .. k - 1 : a[i] = s[i]
  <2>1. 1 \in Int /\ k - 1 \in Int /\ (\A i \in 1 .. k - 1 : s[i] \in S)
    BY <1>1, <1>2
  <2>2. a \in Seq(S) /\ Len(a) = (IF 1 <= k - 1 THEN k - 1 - 1 + 1 ELSE 0)
        /\ \A i \in 1 .. k - 1 - 1 + 1 : a[i] = s[1 + i - 1]
    BY <2>1, SubSeqProperties
  <2>3. Len(a) = k - 1
    BY <1>1, <1>2, <2>2
  <2>4. \A i \in 1 .. k - 1 : i \in 1 .. k - 1 - 1 + 1 /\ 1 + i - 1 = i
    BY <1>1, <1>2
  <2>. QED
    BY <2>2, <2>3, <2>4
<1>4. b \in Seq(S) /\ Len(b) = n - k /\ \A i \in 1 .. n - k : b[i] = s[k + i]
  <2>1. k + 1 \in Int /\ n \in Int /\ (\A i \in k + 1 .. n : s[i] \in S)
    BY <1>1, <1>2
  <2>2. b \in Seq(S) /\ Len(b) = (IF k + 1 <= n THEN n - (k + 1) + 1 ELSE 0)
        /\ \A i \in 1 .. n - (k + 1) + 1 : b[i] = s[k + 1 + i - 1]
    BY <2>1, SubSeqProperties
  <2>3. Len(b) = n - k
    BY <1>1, <1>2, <2>2
  <2>4. \A i \in 1 .. n - k : i \in 1 .. n - (k + 1) + 1 /\ k + 1 + i - 1 = k + i
    BY <1>1, <1>2
  <2>. QED
    BY <2>2, <2>3, <2>4
<1>5. t = a \o b
  BY DEF RemoveAt, n
<1> HIDE DEF a, b, t
<1>6. /\ t \in Seq(S) /\ Len(t) = n - 1
      /\ \A i \in 1 .. n - 1 : t[i] = IF i < k THEN s[i] ELSE s[i + 1]
  <2>1. /\ t \in Seq(S) /\ Len(t) = (k - 1) + (n - k)
        /\ \A i \in 1 .. (k - 1) + (n - k) : t[i] = IF i <= k - 1 THEN a[i] ELSE b[i - (k - 1)]
    BY <1>3, <1>4, <1>5, ConcatProperties
  <2>2. (k - 1) + (n - k) = n - 1
    BY <1>1, <1>2
  <2>3. ASSUME NEW i \in 1 .. n - 1 PROVE t[i] = IF i < k THEN s[i] ELSE s[i + 1]
    <3>1. CASE i < k
      <4>1. i \in 1 .. k - 1 /\ i <= k - 1
        BY <1>1, <1>2, <3>1
      <4>. QED
        BY <1>3, <2>1, <2>2, <3>1, <4>1
    <3>2. CASE ~ i < k
      <4>1. i - (k - 1) \in 1 .. n - k /\ ~ i <= k - 1 /\ k + (i - (k - 1)) = i + 1
        BY <1>1, <1>2, <3>2
      <4>. QED
        BY <1>4, <2>1, <2>2, <3>2, <4>1
    <3>. QED
      BY <3>1, <3>2
  <2>. QED
    BY <2>1, <2>2, <2>3
<1>7. DOMAIN t = 1 .. n - 1
  BY <1>6, LenProperties
<1>8. \A i \in 1 .. n : i # k => s[i] # x
  BY <1>1, <1>2 DEF IsInjective
<1>9. Range(t) \subseteq Range(s) \ {x}
  <2> SUFFICES ASSUME NEW i \in 1 .. n - 1 PROVE t[i] \in Range(s) /\ t[i] # x
    BY <1>7 DEF Range
  <2>1. i \in 1 .. n /\ i + 1 \in 1 .. n
    BY <1>1
  <2>2. s[i] \in Range(s) /\ s[i + 1] \in Range(s)
    BY <1>1, <2>1 DEF Range
  <2>3. CASE i < k
    BY <1>2, <1>6, <1>8, <2>1, <2>2, <2>3
  <2>4. CASE ~ i < k
    <3>1. i + 1 # k
      BY <1>1, <1>2, <2>4
    <3>. QED
      BY <1>6, <1>8, <2>1, <2>2, <2>4, <3>1
  <2>. QED
    BY <2>3, <2>4
<1>10. Range(s) \ {x} \subseteq Range(t)
  <2> SUFFICES ASSUME NEW i \in 1 .. n, s[i] # x PROVE s[i] \in Range(t)
    BY <1>1 DEF Range
  <2>1. i < k \/ i > k
    BY <1>1, <1>2
  <2>2. CASE i < k
    <3>1. i \in 1 .. n - 1 /\ t[i] = s[i]
      BY <1>1, <1>2, <1>6, <2>2
    <3>. QED
      BY <1>7, <3>1 DEF Range
  <2>3. CASE i > k
    <3>1. i - 1 \in 1 .. n - 1 /\ ~ i - 1 < k /\ (i - 1) + 1 = i
      BY <1>1, <1>2, <2>3
    <3>2. t[i - 1] = s[i]
      BY <1>6, <3>1
    <3>. QED
      BY <1>7, <3>1, <3>2 DEF Range
  <2>. QED
    BY <2>1, <2>2, <2>3
<1>11. IsInjective(t)
  <2> SUFFICES ASSUME NEW i \in 1 .. n - 1, NEW j \in 1 .. n - 1, t[i] = t[j] PROVE i = j
    BY <1>7 DEF IsInjective
  <2> DEFINE u(m) == IF m < k THEN m ELSE m + 1
  <2>1. u(i) \in 1 .. n /\ u(j) \in 1 .. n /\ t[i] = s[u(i)] /\ t[j] = s[u(j)]
    BY <1>1, <1>2, <1>6
  <2>2. u(i) = u(j)
    BY <1>1, <2>1 DEF IsInjective
  <2>. QED
    BY <1>1, <1>2, <2>2
<1>. QED
  BY <1>6, <1>9, <1>10, <1>11 DEF t, k

\* The changes of a finite set can be put in a row.
LEMMA Enumerated ==
  ASSUME NEW S, IsFiniteSet(S)
  PROVE  SetToSeq(S) \in Seq(S) /\ Range(SetToSeq(S)) = S /\ IsInjective(SetToSeq(S))
<1> DEFINE f == SetToSeq(S)
<1>1. Cardinality(S) \in Nat /\ ExistsBijection(1 .. Cardinality(S), S)
  BY FS_CardinalityType
<1>2. \E g \in [1 .. Cardinality(S) -> S] : IsInjective(g)
  BY <1>1 DEF ExistsBijection, Bijection, Injection, Surjection
<1>3. f \in [1 .. Cardinality(S) -> S] /\ IsInjective(f)
  BY <1>2 DEF SetToSeq
<1> HIDE DEF f
<1>4. f \in Injection(1 .. Cardinality(S), S)
  BY <1>3 DEF Injection
<1>5. IsFiniteSet(1 .. Cardinality(S)) /\ Cardinality(1 .. Cardinality(S)) = Cardinality(S)
  BY <1>1, FS_Interval
<1>6. f \in Surjection(1 .. Cardinality(S), S)
  BY <1>1, <1>4, <1>5, FS_Injection
<1>7. Range(f) = S
  BY <1>3, <1>6 DEF Surjection, Range
<1>. QED
  BY <1>1, <1>3, <1>7, SeqDef DEF f

\* What is joined to changes it has none of adds all of it, and nothing twice.
LEMMA JoinOther ==
  ASSUME NEW S, NEW s \in Seq(S), NEW t \in Seq(S)
  PROVE  /\ s \o t \in Seq(S)
         /\ Range(s \o t) = Range(s) \cup Range(t)
         /\ IsInjective(s) /\ IsInjective(t) /\ Range(s) \cap Range(t) = {}
              => IsInjective(s \o t)
<1>1. /\ s \o t \in Seq(S) /\ Len(s \o t) = Len(s) + Len(t)
      /\ \A i \in 1 .. Len(s) + Len(t) :
           (s \o t)[i] = IF i <= Len(s) THEN s[i] ELSE t[i - Len(s)]
  BY ConcatProperties
<1>2. Len(s) \in Nat /\ Len(t) \in Nat /\ DOMAIN s = 1 .. Len(s) /\ DOMAIN t = 1 .. Len(t)
  BY LenProperties
<1>3. DOMAIN (s \o t) = 1 .. Len(s) + Len(t)
  BY <1>1, LenProperties
<1>4. ASSUME IsInjective(s), IsInjective(t), Range(s) \cap Range(t) = {}
      PROVE  IsInjective(s \o t)
  <2> SUFFICES ASSUME NEW i \in 1 .. Len(s) + Len(t), NEW j \in 1 .. Len(s) + Len(t),
                      (s \o t)[i] = (s \o t)[j]
               PROVE  i = j
    BY <1>3 DEF IsInjective
  <2>0. /\ \A m \in 1 .. Len(s) + Len(t) : ~ m <= Len(s) => m - Len(s) \in 1 .. Len(t)
        /\ \A m \in 1 .. Len(s) + Len(t) : m <= Len(s) => m \in 1 .. Len(s)
    BY <1>2
  <2>1. CASE i <= Len(s) /\ j <= Len(s)
    BY <1>1, <1>2, <1>4, <2>0, <2>1 DEF IsInjective
  <2>2. CASE ~ i <= Len(s) /\ ~ j <= Len(s)
    <3>1. i - Len(s) = j - Len(s)
      BY <1>1, <1>2, <1>4, <2>0, <2>2 DEF IsInjective
    <3>. QED
      BY <1>2, <3>1
  <2>3. \A m \in 1 .. Len(s) : s[m] \in Range(s)
    BY <1>2 DEF Range
  <2>4. \A m \in 1 .. Len(t) : t[m] \in Range(t)
    BY <1>2 DEF Range
  <2>5. CASE i <= Len(s) /\ ~ j <= Len(s)
    BY <1>1, <1>4, <2>0, <2>3, <2>4, <2>5
  <2>6. CASE ~ i <= Len(s) /\ j <= Len(s)
    BY <1>1, <1>4, <2>0, <2>3, <2>4, <2>6
  <2>. QED
    BY <2>1, <2>2, <2>5, <2>6
<1>. QED
  BY <1>1, <1>4, RangeConcatenation

\* The changes of a sequence are finitely many.
LEMMA FiniteRange ==
  ASSUME NEW S, NEW s \in Seq(S)
  PROVE  IsFiniteSet(Range(s))
<1>1. Len(s) \in Nat /\ DOMAIN s = 1 .. Len(s)
  BY LenProperties
<1>2. s \in Surjection(1 .. Len(s), Range(s))
  <2>1. s \in [1 .. Len(s) -> Range(s)]
    BY <1>1, LenProperties DEF Range
  <2>. QED
    BY <1>1, <2>1 DEF Surjection, Range
<1>3. IsFiniteSet(1 .. Len(s))
  BY <1>1, FS_Interval
<1>. QED
  BY <1>2, <1>3, FS_Surjection

\* The last step undone is taken back.
LEMMA FrontOne ==
  ASSUME NEW S, NEW s \in Seq(S), s # <<>>
  PROVE  /\ Front(s) \in Seq(S) /\ Len(Front(s)) = Len(s) - 1 /\ Len(s) \in Nat \ {0}
         /\ \A i \in 1 .. Len(s) - 1 : Front(s)[i] = s[i]
         /\ Last(s) \in S /\ Last(s) = s[Len(s)]
<1>1. Len(s) \in Nat \ {0} /\ \A i \in 1 .. Len(s) : s[i] \in S
  BY EmptySeq, ElementOfSeq
<1> DEFINE n == Len(s)
<1>2. 1 \in Int /\ n - 1 \in Int /\ \A i \in 1 .. n - 1 : s[i] \in S
  BY <1>1
<1>3. /\ SubSeq(s, 1, n - 1) \in Seq(S)
      /\ Len(SubSeq(s, 1, n - 1)) = IF 1 <= n - 1 THEN n - 1 - 1 + 1 ELSE 0
      /\ \A i \in 1 .. n - 1 - 1 + 1 : SubSeq(s, 1, n - 1)[i] = s[1 + i - 1]
  BY <1>2, SubSeqProperties
<1>4. \A i \in 1 .. n - 1 : i \in 1 .. n - 1 - 1 + 1 /\ 1 + i - 1 = i
  BY <1>1
<1>5. Len(Front(s)) = Len(s) - 1
  <2>1. \A m \in Nat \ {0} : (IF 1 <= m - 1 THEN m - 1 - 1 + 1 ELSE 0) = m - 1
    OBVIOUS
  <2>. QED
    BY <1>1, <1>3, <2>1 DEF Front
<1>6. Len(s) \in 1 .. Len(s)
  BY <1>1
<1>. QED
  BY <1>1, <1>3, <1>4, <1>5, <1>6 DEF Front, Last


\* The patches of a revert, in a row.
LEMMA ListOfSet ==
  ASSUME NEW S, NEW T, S \subseteq T, IsFiniteSet(S), NEW list \in SetToSeqs(S)
  PROVE  list \in Seq(T) /\ IsInjective(list) /\ Range(list) = S
<1>1. Cardinality(S) \in Nat
  BY FS_CardinalityType
<1>2. list \in [1 .. Cardinality(S) -> S] /\ IsInjective(list)
  BY DEF SetToSeqs, IsInjective
<1>3. list \in Injection(1 .. Cardinality(S), S)
  BY <1>2 DEF Injection
<1>4. IsFiniteSet(1 .. Cardinality(S)) /\ Cardinality(1 .. Cardinality(S)) = Cardinality(S)
  BY <1>1, FS_Interval
<1>5. list \in Surjection(1 .. Cardinality(S), S)
  BY <1>1, <1>3, <1>4, FS_Injection
<1>6. Range(list) = S
  BY <1>2, <1>5 DEF Surjection, Range
<1>7. list \in Seq(S)
  BY <1>1, <1>2, SeqDef
<1>. QED
  BY <1>1, <1>2, <1>6, SeqDef

\* A sequence of some elements of a set.
LEMMA SeqSub ==
  ASSUME NEW S, NEW T, S \subseteq T, NEW s \in Seq(S)
  PROVE  s \in Seq(T)
<1>1. Len(s) \in Nat /\ s \in [1 .. Len(s) -> S]
  BY LenProperties
<1>2. s \in [1 .. Len(s) -> T]
  BY <1>1
<1>. QED
  BY <1>1, <1>2, SeqDef

LEMMA HeadListed ==
  ASSUME NEW S, NEW s \in Seq(S), s # <<>>
  PROVE  Head(s) \in Range(s) /\ Head(s) = s[1]
<1>1. Head(s) = s[1] /\ Len(s) \in Nat \ {0}
  BY EmptySeq, HeadTailProperties
<1>2. 1 \in DOMAIN s
  BY <1>1, LenProperties
<1>. QED
  BY <1>1, <1>2 DEF Range

\* What was there stays where it was.
LEMMA AppendStands ==
  ASSUME NEW S, NEW s \in Seq(S), NEW x
  PROVE  Len(Append(s, x)) = Len(s) + 1 /\ \A i \in 1 .. Len(s) : Append(s, x)[i] = s[i]
<1>1. s \in Seq(S \cup {x}) /\ x \in S \cup {x}
  BY SeqSub
<1>. QED
  BY <1>1, AppendProperties

-----------------------------------------------------------------------------
(* The inductive invariant. *)

\* Where the task's thread is, the record and the routing keep in step.
AtTask ==
  LET p == arg["task"].patch
  IN  /\ pc["task"] = "start" => rec = "none"
      /\ pc["task"] \in {"activate", "route"} => rec # "none"
      /\ rec # "none" => routed \/ pc["task"] \in {"activate", "route", "ended"}
      /\ bound => rec # "none" \/ pc["task"] \in {"insert", "ended"}
      /\ pc["task"] \in {"root", "apply"} /\ "required" \in bind => rec # "none"
      /\ pc["task"] \in {"root", "apply", "record"} => p \in Patches
      /\ pc["task"] \in {"start", "insert", "activate", "route", "root", "apply"} /\ p \in Patches
           => patch[p].status = "none"
      /\ pc["task"] = "record" => patch[p].status = "approved"

\* What was looked up for the patch that is about to be applied is still so.
RootStands ==
  pc["task"] = "apply" =>
    IF arg["task"].root = "workspace" THEN rec \notin Active ELSE rec # "none" /\ routed

\* A patch is in the files only once it was applied; one applied in the worktree
\* found it recorded and the task routed to it, and only such a patch is committed.
Placed ==
  /\ \A p \in Patches : patch[p].status # "none" /\ patch[p].at = "worktree" => rec # "none" /\ routed
  /\ \A p \in Patches : \A r \in Roots : p \in Range(files[r]) => patch[p].status # "none"
  /\ \A p \in Patches : p \in Range(files["worktree"]) \cup head =>
                          patch[p].status # "none" /\ patch[p].at = "worktree"

\* No change is made twice.
Once ==
  /\ \A r \in Roots : IsInjective(files[r])
  /\ \A x \in edits : x \notin head /\ \A r \in Roots : x \notin Range(files[r])

\* The list of a revert: applied patches, each once, of the root they are reversed in.
Listed ==
  LET a == arg["rpc"]
  IN  /\ pc["rpc"] \notin {"simulate", "reverse", "rollback"} => a.list = <<>>
      /\ pc["rpc"] = "simulate" => a.undone = <<>>
      /\ IsInjective(a.list) /\ Len(a.undone) <= Len(a.list)
      /\ \A p \in Range(a.list) : patch[p].status = "applied"
      /\ \A p \in Range(a.list) : pc["rpc"] # "simulate" \/ a.root = "workspace"
                                    => patch[p].at = a.root
      /\ pc["rpc"] \in {"reverse", "rollback"} => HasRoot(a.root)

\* The patches of the list that have not been reversed are in the files, those that
\* have been are not; `undone' holds these, the last one reversed at its end.
Undoing ==
  LET a == arg["rpc"]
      left == Len(a.list) - Len(a.undone)
      busy == pc["rpc"] = "rollback" \/ (pc["rpc"] = "reverse" /\ left > 0)
  IN  /\ busy => \A k \in 1 .. Len(a.undone) : a.undone[k] = a.list[Len(a.list) + 1 - k]
      /\ busy /\ (pc["rpc"] = "rollback" => ~disturbed) =>
           \A i \in 1 .. left : a.list[i] \in Range(files[a.root])
      /\ pc["rpc"] \in {"reverse", "rollback"} =>
           \A i \in 1 .. Len(a.list) : i > left => a.list[i] \notin Range(files[a.root])

\* A patch recorded as reverted is not in the files it was applied to.
Gone == \A p \in Patches : patch[p].status = "reverted" => p \notin Range(files[patch[p].at])

\* A patch written to the worktree is in its files as long as there are any, and in
\* its branch afterwards.
Kept ==
  \A p \in Patches :
    /\ patch[p].status \in {"approved", "applied"} /\ patch[p].at = "worktree"
    /\ ~forced /\ ~disturbed /\ crashes = 0
    /\ p \notin Range(arg["rpc"].list) \/ pc["rpc"] = "simulate"
    => IF dir THEN p \in Range(files["worktree"]) ELSE p \in head

\* A merge about to be made has its approval, and keeps it.
Allowed ==
  pc["rpc"] = "merge" /\ policy = "approval_required" =>
    Approved(arg["rpc"].approval, arg["rpc"].target)

\* A request carries a target and an approval there is; a merge or a cleanup on
\* its way has found a record.
Aimed ==
  /\ pc["rpc"] \in {"verify", "merge", "merged", "conflict", "remove", "removed"} => rec # "none"
  /\ pc["rpc"] \in {"verify", "check", "merge"} => arg["rpc"].target \in Targets
  /\ arg["rpc"].approval <= Len(approvals)

\* Only finitely many patches have been applied, so that they can be listed.
Finite == IsFiniteSet(head) /\ IsFiniteSet({p \in Patches : patch[p].status # "none"})

IInv ==
  /\ TypeOK /\ Finite /\ AtTask /\ RootStands /\ Placed /\ Once /\ Listed /\ Undoing /\ Gone /\ Kept
  /\ Allowed /\ Aimed /\ MergeAuthorised

\* What the task has written is in its scope: its patches, and the changes its
\* commands made.
PatchesInside == Scope # {} => \A p \in Patches : patch[p].status # "none" => FilesOf[p] \subseteq Scope
EditsInside ==
  Scope # {} => \A x \in TaskEdits \cap (head \cup UNION {Range(files[r]) : r \in Roots}) :
                  FilesOf[x] \subseteq Scope

\* The types of what the threads hold, apart from the types of the data.
ThreadTypes ==
  /\ pc \in [Threads -> TaskLabels \cup RpcLabels]
  /\ pc["task"] \in TaskLabels /\ pc["rpc"] \in RpcLabels
  /\ arg \in [Threads -> ArgType]

\* The types of the data.
DataTypes ==
  /\ bind \subseteq {"required", "preferred"} /\ routed \in BOOLEAN /\ bound \in BOOLEAN
  /\ rec \in {"none", "creating", "active", "merged", "failed", "cleaned"}
  /\ policy \in {"approval_required", "auto_merge", "manual_only"}
  /\ dir \in BOOLEAN /\ head \subseteq Changes
  /\ files \in [Roots -> Seq(Changes)]
  /\ repo \in {"clean", "merging"}
  /\ patch \in [Patches -> PatchType]
  /\ approvals \in Seq(ApprovalType) /\ Len(approvals) <= MaxApprovals
  /\ merges \subseteq [target : Targets, approval : 0 .. MaxApprovals]
  /\ edits \subseteq TaskEdits \cup OutsideEdits
  /\ forced \in BOOLEAN /\ disturbed \in BOOLEAN /\ crashes \in 0 .. MaxCrashes


LEMMA IdleType == Idle \in ArgType
BY EmptySeq DEF Idle, ArgType, Roots, Reviews

LEMMA RevertableFinite ==
  ASSUME Finite
  PROVE  Revertable \subseteq Patches /\ IsFiniteSet(Revertable)
<1>1. Revertable \subseteq {p \in Patches : patch[p].status # "none"}
  BY DEF Revertable
<1>. QED
  BY <1>1, FS_Subset DEF Finite

\* The next patch to be reversed is one of the list.
LEMMA NewestListed ==
  ASSUME NEW S, NEW s \in Seq(S), NEW u \in Seq(S), Len(u) < Len(s)
  PROVE  Len(s) - Len(u) \in 1 .. Len(s) /\ s[Len(s) - Len(u)] \in S
<1>1. Len(s) \in Nat /\ Len(u) \in Nat
  BY LenProperties
<1>2. Len(s) - Len(u) \in 1 .. Len(s)
  BY <1>1
<1>. QED
  BY <1>2, ElementOfSeq

LEMMA ThreadStep ==
  ASSUME IInv, [Next]_vars
  PROVE  ThreadTypes'
<1> USE DEF ThreadTypes
<1>0. /\ TypeOK /\ Finite /\ AtTask /\ Aimed /\ ThreadTypes
      /\ arg["task"] \in ArgType /\ arg["rpc"] \in ArgType /\ MaxApprovals \in Nat
  BY WorktreeAssumption DEF IInv, TypeOK, Threads
<1>1. CASE Binding
  <2>1. CASE StartTask
    BY <2>1, <1>0, IdleType DEF StartTask, Goes, With, Done, TaskLabels, RpcLabels, Threads
  <2>2. CASE StartFails
    BY <2>2, <1>0, IdleType DEF StartFails, Goes, With, Done, TaskLabels, RpcLabels, Threads
  <2>3. CASE CreateWorktree
    BY <2>3, <1>0, IdleType DEF CreateWorktree, Goes, With, Done, TaskLabels, RpcLabels, Threads
  <2>4. CASE ActivateWorktree
    BY <2>4, <1>0, IdleType DEF ActivateWorktree, Goes, With, Done, TaskLabels, RpcLabels, Threads
  <2>5. CASE RouteTask
    BY <2>5, <1>0, IdleType DEF RouteTask, Goes, With, Done, TaskLabels, RpcLabels, Threads
  <2>. QED
    BY <1>1, <2>1, <2>2, <2>3, <2>4, <2>5 DEF Binding
<1>2. CASE Writing
  <2>1. ASSUME NEW p \in Patches, Write(p) PROVE ThreadTypes'
    <3> DEFINE new == [Idle EXCEPT !.patch = p]
    <3>1. new \in ArgType
      BY IdleType DEF ArgType, Idle
    <3>2. With("task", "insert", new) \/ With("task", "root", new)
      BY <2>1 DEF Write
    <3> HIDE DEF new
    <3>. QED
      BY <3>1, <3>2, <1>0 DEF With, TaskLabels, RpcLabels, Threads
  <2>2. ASSUME NEW p \in Patches, WriteUnbound(p) PROVE ThreadTypes'
    <3> DEFINE new == [Idle EXCEPT !.patch = p]
    <3>1. new \in ArgType
      BY <2>2, <1>0, IdleType DEF WriteUnbound, ArgType, Idle
    <3>2. With("task", "root", new) \/ Goes("task", "insert") \/ Done("task")
      BY <2>2 DEF WriteUnbound
    <3> HIDE DEF new
    <3>. QED
      BY <3>1, <3>2, <1>0, IdleType DEF With, Goes, Done, TaskLabels, RpcLabels, Threads
  <2>3. CASE ResolveRoot
    <3> DEFINE new == [arg["task"] EXCEPT !.root = Root]
    <3>1. new \in ArgType
      BY <2>3, <1>0, IdleType DEF ResolveRoot, ArgType, Idle, Root, Roots
    <3>2. With("task", "apply", new) \/ Goes("task", "insert") \/ Done("task")
      BY <2>3 DEF ResolveRoot
    <3> HIDE DEF new
    <3>. QED
      BY <3>1, <3>2, <1>0, IdleType DEF With, Goes, Done, TaskLabels, RpcLabels, Threads
  <2>4. CASE ApplyPatch
    BY <2>4, <1>0, IdleType DEF ApplyPatch, Goes, With, Done, TaskLabels, RpcLabels, Threads
  <2>5. CASE RecordPatch
    BY <2>5, <1>0, IdleType DEF RecordPatch, Goes, With, Done, TaskLabels, RpcLabels, Threads
  <2>6. ASSUME NEW c \in Commands, RunCommand(c) PROVE ThreadTypes'
    BY <2>6, <1>0 DEF RunCommand
  <2>. QED
    BY <1>2, <2>1, <2>2, <2>3, <2>4, <2>5, <2>6 DEF Writing
<1>3. CASE Merging
  <2>1. ASSUME NEW b \in Targets, NEW v \in Reviews, RequestMerge(b, v) PROVE ThreadTypes'
    <3> DEFINE new == [Idle EXCEPT !.target = b, !.review = v]
    <3>1. new \in ArgType
      BY <2>1, <1>0, IdleType DEF RequestMerge, ArgType, Idle
    <3>2. With("rpc", "verify", new) \/ Done("rpc")
      BY <2>1 DEF RequestMerge
    <3> HIDE DEF new
    <3>. QED
      BY <3>1, <3>2, <1>0, IdleType DEF With, Goes, Done, TaskLabels, RpcLabels, Threads
  <2>2. CASE VerificationFails
    BY <2>2, <1>0, IdleType
      DEF VerificationFails, Goes, With, Done, TaskLabels, RpcLabels, Threads
  <2>3. CASE AskMerge
    BY <2>3, <1>0, IdleType DEF AskMerge, Goes, With, Done, TaskLabels, RpcLabels, Threads
  <2>4. ASSUME NEW i \in 1 .. MaxApprovals, NEW d \in {"approved", "rejected"}, NEW paused \in BOOLEAN,
               SubmitApproval(i, d, paused)
        PROVE  ThreadTypes'
    <3> DEFINE new == [Idle EXCEPT !.approval = i, !.target = approvals[i].target]
    <3>1. new \in ArgType
      <4>1. approvals[i] \in ApprovalType
        BY <2>4, <1>0, ElementOfSeq, LenProperties DEF SubmitApproval, TypeOK
      <4>2. i \in Nat
        BY <1>0
      <4>. QED
        BY <4>1, <4>2, IdleType DEF ArgType, Idle, ApprovalType
    <3>2. With("rpc", "check", new) \/ Done("rpc")
      BY <2>4 DEF SubmitApproval
    <3> HIDE DEF new
    <3>. QED
      BY <3>1, <3>2, <1>0, IdleType DEF With, Goes, Done, TaskLabels, RpcLabels, Threads
  <2>5. ASSUME NEW i \in 0 .. MaxApprovals, NEW b \in Targets,
               MergeRequested(i, b)
        PROVE  ThreadTypes'
    <3> DEFINE new == [Idle EXCEPT !.approval = i, !.target = b]
    <3>0. i \in Nat
      BY <1>0
    <3>1. new \in ArgType
      BY <3>0, IdleType DEF ArgType, Idle
    <3>2. With("rpc", "check", new) \/ Done("rpc")
      BY <2>5 DEF MergeRequested
    <3> HIDE DEF new
    <3>. QED
      BY <3>1, <3>2, <1>0, IdleType DEF With, Goes, Done, TaskLabels, RpcLabels, Threads
  <2>6. CASE MergeCheck
    BY <2>6, <1>0, IdleType DEF MergeCheck, Goes, With, Done, TaskLabels, RpcLabels, Threads
  <2>7. CASE MergeOk
    BY <2>7, <1>0, IdleType DEF MergeOk, Goes, With, Done, TaskLabels, RpcLabels, Threads
  <2>8. CASE MergeConflicts
    BY <2>8, <1>0, IdleType DEF MergeConflicts, Goes, With, Done, TaskLabels, RpcLabels, Threads
  <2>9. CASE CheckoutFails
    BY <2>9, <1>0, IdleType DEF CheckoutFails, Goes, With, Done, TaskLabels, RpcLabels, Threads
  <2>10. CASE RecordMerge
    BY <2>10, <1>0, IdleType DEF RecordMerge, Goes, With, Done, TaskLabels, RpcLabels, Threads
  <2>. QED
    BY <1>3, <2>1, <2>2, <2>3, <2>4, <2>5, <2>6, <2>7, <2>8, <2>9, <2>10 DEF Merging
<1>4. CASE Cleaning
  <2>1. ASSUME NEW force \in BOOLEAN, Cleanup(force) PROVE ThreadTypes'
    <3> DEFINE new == [Idle EXCEPT !.force = force]
    <3>1. new \in ArgType
      BY <2>1, <1>0, IdleType DEF Cleanup, ArgType, Idle
    <3>2. With("rpc", "remove", new) \/ Done("rpc")
      BY <2>1 DEF Cleanup
    <3> HIDE DEF new
    <3>. QED
      BY <3>1, <3>2, <1>0, IdleType DEF With, Goes, Done, TaskLabels, RpcLabels, Threads
  <2>2. CASE GitRemoves
    BY <2>2, <1>0, IdleType DEF GitRemoves, Goes, With, Done, TaskLabels, RpcLabels, Threads
  <2>3. CASE RecordCleaned
    BY <2>3, <1>0, IdleType DEF RecordCleaned, Goes, With, Done, TaskLabels, RpcLabels, Threads
  <2>. QED
    BY <1>4, <2>1, <2>2, <2>3 DEF Cleaning
<1>5. CASE Reverting
  <2>1. CASE StartRevert
    <3>1. PICK list \in SetToSeqs(Revertable) :
             With("rpc", "simulate",
             [Idle EXCEPT !.root = IF routed THEN "worktree" ELSE "workspace",
                                                  !.list = list])
      BY <2>1 DEF StartRevert
    <3> DEFINE new == [Idle EXCEPT !.root = IF routed THEN "worktree" ELSE "workspace", !.list = list]
    <3>2. list \in Seq(Patches)
      BY <1>0, RevertableFinite, ListOfSet
    <3>3. new \in ArgType
      BY <3>2, IdleType DEF ArgType, Idle, Roots
    <3> HIDE DEF new
    <3>. QED
      BY <3>1, <3>3, <1>0 DEF new, With, TaskLabels, RpcLabels, Threads
  <2>2. CASE SimulateRevert
    <3> DEFINE new == [arg["rpc"] EXCEPT !.before = files[arg["rpc"].root]]
    <3>1. new \in ArgType
      BY <2>2, <1>0, IdleType DEF SimulateRevert, ArgType, Idle, TypeOK
    <3>2. With("rpc", "reverse", new) \/ Done("rpc")
      BY <2>2 DEF SimulateRevert
    <3> HIDE DEF new
    <3>. QED
      BY <3>1, <3>2, <1>0, IdleType DEF With, Goes, Done, TaskLabels, RpcLabels, Threads
  <2>3. CASE ReversePatch
    <3> DEFINE a == arg["rpc"]
                p == a.list[Len(a.list) - Len(a.undone)]
                new == [a EXCEPT !.undone = Append(@, p)]
    <3>1. a \in ArgType /\ a.list \in Seq(Patches) /\ a.undone \in Seq(Patches)
      BY <1>0 DEF ArgType
    <3>2. Len(a.undone) < Len(a.list)
      BY <2>3 DEF ReversePatch
    <3>3. p \in Patches
      BY <3>1, <3>2, NewestListed
    <3>4. Append(a.undone, p) \in Seq(Patches)
      BY <3>1, <3>3, AppendOne
    <3>5. new \in ArgType
      BY <3>1, <3>4 DEF ArgType
    <3>6. With("rpc", "reverse", new)
      BY <2>3 DEF ReversePatch
    <3> HIDE DEF new
    <3>. QED
      BY <3>5, <3>6, <1>0 DEF With, TaskLabels, RpcLabels, Threads
  <2>4. CASE ReverseFails
    BY <2>4, <1>0, IdleType DEF ReverseFails, Goes, With, Done, TaskLabels, RpcLabels, Threads
  <2>5. CASE ReverseTimesOut
    BY <2>5, <1>0, IdleType DEF ReverseTimesOut, Goes, With, Done, TaskLabels, RpcLabels, Threads
  <2>6. CASE RollBack
    <3> DEFINE a == arg["rpc"]
                new == [a EXCEPT !.undone = Front(@)]
    <3>1. a \in ArgType /\ a.undone \in Seq(Patches) /\ a.undone # <<>>
      BY <2>6, <1>0 DEF RollBack, ArgType
    <3>2. new \in ArgType
      BY <3>1, FrontOne DEF ArgType
    <3>3. With("rpc", "rollback", new)
      BY <2>6 DEF RollBack
    <3> HIDE DEF new
    <3>. QED
      BY <3>2, <3>3, <1>0 DEF With, TaskLabels, RpcLabels, Threads
  <2>7. CASE RevertFailed
    BY <2>7, <1>0, IdleType DEF RevertFailed, Goes, With, Done, TaskLabels, RpcLabels, Threads
  <2>8. CASE MarkReverted
    <3> DEFINE a == arg["rpc"]
                new == [a EXCEPT !.list = Tail(@), !.undone = Tail(@)]
    <3>1. a \in ArgType /\ a.list \in Seq(Patches) /\ a.undone \in Seq(Patches) /\ Len(a.undone) = Len(a.list)
      BY <2>8, <1>0 DEF MarkReverted, ArgType
    <3>2. CASE a.list = <<>>
      BY <2>8, <3>2, <1>0, IdleType DEF MarkReverted, Done, With, TaskLabels, RpcLabels, Threads
    <3>3. CASE a.list # <<>>
      <4>1. a.undone # <<>>
        BY <3>1, <3>3, EmptySeq
      <4>2. Tail(a.list) \in Seq(Patches) /\ Tail(a.undone) \in Seq(Patches)
        BY <3>1, <3>3, <4>1, HeadTailProperties
      <4>3. new \in ArgType
        BY <3>1, <4>2 DEF ArgType
      <4>4. With("rpc", "reverse", new)
        BY <2>8, <3>3 DEF MarkReverted
      <4> HIDE DEF new
      <4>. QED
        BY <4>3, <4>4, <1>0 DEF With, TaskLabels, RpcLabels, Threads
    <3>. QED
      BY <3>2, <3>3
  <2>. QED
    BY <1>5, <2>1, <2>2, <2>3, <2>4, <2>5, <2>6, <2>7, <2>8 DEF Reverting
<1>6. CASE EndTask
  BY <1>6, <1>0, IdleType DEF EndTask, Goes, With, Done, TaskLabels, RpcLabels, Threads
<1>7. ASSUME NEW x \in OutsideEdits, NEW r \in DOMAIN files, OutsideEdit(x, r) PROVE ThreadTypes'
  BY <1>7, <1>0 DEF OutsideEdit
<1>8. CASE Crash
  BY <1>8, <1>0, IdleType DEF Crash, Threads, TaskLabels, RpcLabels
<1>9. CASE UNCHANGED vars
  BY <1>9, <1>0 DEF vars
<1>. QED
  BY <1>1, <1>2, <1>3, <1>4, <1>5, <1>6, <1>7, <1>8, <1>9 DEF Next

LEMMA DataStep ==
  ASSUME IInv, [Next]_vars
  PROVE  DataTypes'
<1> USE DEF DataTypes
<1>0. /\ DataTypes /\ Finite /\ AtTask /\ Aimed /\ Once /\ MaxApprovals \in Nat /\ MaxCrashes \in Nat
      /\ arg["task"] \in ArgType /\ arg["rpc"] \in ArgType
  BY WorktreeAssumption DEF IInv, TypeOK, Threads
<1>1. CASE Binding
  <2>1. CASE StartTask
    BY <2>1, <1>0 DEF StartTask, GitAdds, git, rest
  <2>2. CASE StartFails
    BY <2>2, <1>0 DEF StartFails, binding, git, rest
  <2>3. CASE CreateWorktree
    BY <2>3, <1>0 DEF CreateWorktree, binding, git, rest
  <2>4. CASE ActivateWorktree
    BY <2>4, <1>0 DEF ActivateWorktree, binding, git, rest
  <2>5. CASE RouteTask
    BY <2>5, <1>0 DEF RouteTask, git, rest
  <2>. QED
    BY <1>1, <2>1, <2>2, <2>3, <2>4, <2>5 DEF Binding
<1>2. CASE Writing
  <2>1. ASSUME NEW p \in Patches, Write(p) PROVE DataTypes'
    BY <2>1, <1>0 DEF Write, GitAdds, binding, git, rest
  <2>2. ASSUME NEW p \in Patches, WriteUnbound(p) PROVE DataTypes'
    BY <2>2, <1>0 DEF WriteUnbound, binding, git, rest
  <2>3. CASE ResolveRoot
    BY <2>3, <1>0 DEF ResolveRoot, binding, git, rest
  <2>4. CASE ApplyPatch
    <3> DEFINE p == arg["task"].patch
                r == arg["task"].root
    <3>1. p \in Patches /\ r \in Roots /\ p \in Changes
      BY <2>4, <1>0 DEF ApplyPatch, AtTask, ArgType, Changes
    <3>2. Append(files[r], p) \in Seq(Changes)
      BY <1>0, <3>1, AppendOne
    <3>3. [status |-> "approved", at |-> r] \in PatchType
      BY <3>1 DEF PatchType
    <3>. QED
      BY <2>4, <1>0, <3>1, <3>2, <3>3 DEF ApplyPatch, binding, rest
  <2>5. CASE RecordPatch
    <3>1. arg["task"].patch \in Patches
      BY <2>5, <1>0 DEF RecordPatch, AtTask
    <3>2. [patch[arg["task"].patch] EXCEPT !.status = "applied"] \in PatchType
      BY <1>0, <3>1 DEF PatchType
    <3>. QED
      BY <2>5, <1>0, <3>1, <3>2 DEF RecordPatch, binding, git, rest
  <2>6. ASSUME NEW c \in Commands, RunCommand(c) PROVE DataTypes'
    <3>1. Root \in Roots /\ Range(files["worktree"]) \subseteq Changes
      BY <1>0, RangeOfSeq DEF Root, Roots
    <3>2. c.does \in edits => c.does \in Changes /\ Append(files[Root], c.does) \in Seq(Changes)
      BY <1>0, <3>1, AppendOne DEF Changes
    <3>. QED
      BY <2>6, <1>0, <3>1, <3>2, ZenonT(40) DEF RunCommand, binding
  <2>. QED
    BY <1>2, <2>1, <2>2, <2>3, <2>4, <2>5, <2>6 DEF Writing
<1>3. CASE Merging
  <2>1. ASSUME NEW b \in Targets, NEW v \in Reviews, RequestMerge(b, v) PROVE DataTypes'
    BY <2>1, <1>0 DEF RequestMerge, binding, git, rest
  <2>2. CASE VerificationFails
    BY <2>2, <1>0 DEF VerificationFails, binding, git, rest
  <2>3. CASE AskMerge
    <3> DEFINE a == arg["rpc"]
    <3>1. Asked(a) \in ApprovalType
      BY <2>3, <1>0 DEF AskMerge, Aimed, Asked, ArgType, ApprovalType
    <3>2. Append(approvals, Asked(a)) \in Seq(ApprovalType)
      BY <1>0, <3>1, AppendOne
    <3>3. ASSUME NEW open PROVE [i \in DOMAIN approvals |-> IF i \in open THEN Asked(a) ELSE approvals[i]] \in Seq(ApprovalType)
      <4>1. DOMAIN approvals = 1 .. Len(approvals) /\ Len(approvals) \in Nat
             /\ \A i \in 1 .. Len(approvals) : approvals[i] \in ApprovalType
        BY <1>0, LenProperties, ElementOfSeq
      <4>. QED
        BY <3>1, <4>1, SeqDef
    <3>4. approvals' \in Seq(ApprovalType) /\ Len(approvals') <= MaxApprovals
      BY <2>3, <3>2, <3>3 DEF AskMerge
    <3>. QED
      BY <2>3, <1>0, <3>4 DEF AskMerge, binding, git, rest
  <2>4. ASSUME NEW i \in 1 .. MaxApprovals, NEW d \in {"approved", "rejected"}, NEW paused \in BOOLEAN,
               SubmitApproval(i, d, paused)
        PROVE  DataTypes'
    <3>1. [approvals[i] EXCEPT !.decision = d] \in ApprovalType
      <4>1. DOMAIN approvals = 1 .. Len(approvals) /\ i \in DOMAIN approvals
        BY <2>4, <1>0, LenProperties DEF SubmitApproval
      <4>2. approvals[i] \in ApprovalType
        BY <1>0, <4>1, ElementOfSeq
      <4>. QED
        BY <4>2 DEF ApprovalType
    <3>2. approvals' \in Seq(ApprovalType) /\ Len(approvals') = Len(approvals)
      BY <2>4, <1>0, <3>1, ExceptSeq, LenProperties DEF SubmitApproval
    <3>. QED
      BY <2>4, <1>0, <3>2 DEF SubmitApproval, binding, git, rest
  <2>5. ASSUME NEW i \in 0 .. MaxApprovals, NEW b \in Targets, MergeRequested(i, b) PROVE DataTypes'
    BY <2>5, <1>0 DEF MergeRequested, binding, git, rest
  <2>6. CASE MergeCheck
    BY <2>6, <1>0 DEF MergeCheck, binding, git, rest
  <2>7. CASE MergeOk
    <3>1. /\ SetToSeq(head \ Range(files["workspace"])) \in Seq(head \ Range(files["workspace"]))
           /\ head \ Range(files["workspace"]) \subseteq Changes
      BY <1>0, Enumerated, FS_Subset, FS_Difference DEF Finite
    <3>2. files["workspace"] \o SetToSeq(head \ Range(files["workspace"])) \in Seq(Changes)
      BY <1>0, <3>1, JoinOther, SeqSub DEF Roots
    <3>3. files' \in [Roots -> Seq(Changes)]
      BY <2>7, <1>0, <3>2 DEF MergeOk
    <3>4. arg["rpc"].approval \in 0 .. MaxApprovals /\ arg["rpc"].target \in Targets
      BY <2>7, <1>0, LenProperties DEF MergeOk, Aimed, ArgType
    <3>. QED
      BY <2>7, <1>0, <3>3, <3>4 DEF MergeOk, binding, rest
  <2>8. CASE MergeConflicts
    BY <2>8, <1>0 DEF MergeConflicts, binding, git, rest
  <2>9. CASE CheckoutFails
    BY <2>9, <1>0 DEF CheckoutFails, binding, git, rest
  <2>10. CASE RecordMerge
    BY <2>10, <1>0 DEF RecordMerge, binding, git, rest
  <2>. QED
    BY <1>3, <2>1, <2>2, <2>3, <2>4, <2>5, <2>6, <2>7, <2>8, <2>9, <2>10 DEF Merging
<1>4. CASE Cleaning
  <2>1. ASSUME NEW force \in BOOLEAN, Cleanup(force) PROVE DataTypes'
    BY <2>1, <1>0 DEF Cleanup, binding, git, rest
  <2>2. CASE GitRemoves
    <3>1. <<>> \in Seq(Changes)
      BY EmptySeq
    <3>. QED
      BY <2>2, <1>0, <3>1 DEF GitRemoves, binding
  <2>3. CASE RecordCleaned
    BY <2>3, <1>0 DEF RecordCleaned, binding, git, rest
  <2>. QED
    BY <1>4, <2>1, <2>2, <2>3 DEF Cleaning
<1>5. CASE Reverting
  <2>1. CASE StartRevert
    BY <2>1, <1>0 DEF StartRevert, binding, git, rest
  <2>2. CASE SimulateRevert
    BY <2>2, <1>0 DEF SimulateRevert, binding, git, rest
  <2>3. CASE ReversePatch
    <3> DEFINE r == arg["rpc"].root
                p == arg["rpc"].list[Len(arg["rpc"].list) - Len(arg["rpc"].undone)]
    <3>1. r \in Roots /\ p \in Range(files[r]) /\ IsInjective(files[r])
      BY <2>3, <1>0 DEF ReversePatch, Reversible, ArgType, Once
    <3>2. RemoveAt(files[r], Position(p, files[r])) \in Seq(Changes)
      BY <1>0, <3>1, RemoveOne
    <3>. QED
      BY <2>3, <1>0, <3>1, <3>2 DEF ReversePatch, binding, rest
  <2>4. CASE ReverseFails
    BY <2>4, <1>0 DEF ReverseFails, binding, git, rest
  <2>5. CASE ReverseTimesOut
    BY <2>5, <1>0 DEF ReverseTimesOut, binding, git, rest
  <2>6. CASE RollBack
    <3> DEFINE r == arg["rpc"].root
                p == Last(arg["rpc"].undone)
    <3>1. r \in Roots /\ p \in Patches
      BY <2>6, <1>0, FrontOne DEF RollBack, ArgType
    <3>2. Append(files[r], p) \in Seq(Changes)
      BY <1>0, <3>1, AppendOne DEF Changes
    <3> HIDE DEF p
    <3>. QED
      BY <2>6, <1>0, <3>1, <3>2 DEF p, RollBack, binding
  <2>7. CASE RevertFailed
    BY <2>7, <1>0 DEF RevertFailed, binding, git, rest
  <2>8. CASE MarkReverted
    <3>1. CASE arg["rpc"].list = <<>>
      BY <2>8, <3>1, <1>0 DEF MarkReverted, binding, git, rest
    <3>2. CASE arg["rpc"].list # <<>>
      <4>1. Head(arg["rpc"].list) \in Patches
        BY <1>0, <3>2, HeadTailProperties DEF ArgType
      <4>2. [patch[Head(arg["rpc"].list)] EXCEPT !.status = "reverted"] \in PatchType
        BY <1>0, <4>1 DEF PatchType
      <4>. QED
        BY <2>8, <3>2, <1>0, <4>1, <4>2 DEF MarkReverted, binding, git, rest
    <3>. QED
      BY <3>1, <3>2
  <2>. QED
    BY <1>5, <2>1, <2>2, <2>3, <2>4, <2>5, <2>6, <2>7, <2>8 DEF Reverting
<1>6. CASE EndTask
  BY <1>6, <1>0 DEF EndTask, binding, git, rest
<1>7. ASSUME NEW x \in OutsideEdits, NEW r \in DOMAIN files, OutsideEdit(x, r) PROVE DataTypes'
  <2>1. r \in Roots /\ Append(files[r], x) \in Seq(Changes)
    BY <1>0, AppendOne DEF Changes
  <2>. QED
    BY <1>7, <1>0, <2>1 DEF OutsideEdit, binding
<1>8. CASE Crash
  BY <1>8, <1>0 DEF Crash, binding, git, rest
<1>9. CASE UNCHANGED vars
  BY <1>9, <1>0 DEF vars
<1>. QED
  BY <1>1, <1>2, <1>3, <1>4, <1>5, <1>6, <1>7, <1>8, <1>9 DEF Next

LEMMA FiniteStep ==
  ASSUME IInv, [Next]_vars
  PROVE  Finite'
<1>0. TypeOK /\ Finite /\ AtTask /\ Listed /\ arg["task"] \in ArgType /\ arg["rpc"] \in ArgType
  BY DEF IInv, TypeOK, Threads
<1>1. CASE UNCHANGED <<head, patch>>
  BY <1>1, <1>0 DEF Finite
<1>2. CASE Binding
  BY <1>1, <1>2
    DEF Binding, StartTask, StartFails, CreateWorktree, ActivateWorktree, RouteTask, binding,
        git, rest, GitAdds
<1>3. CASE Writing
  <2>1. CASE ApplyPatch
    <3> DEFINE known == {p \in Patches : patch[p].status # "none"}
                more == known \cup {arg["task"].patch}
    <3>1. IsFiniteSet(more)
      BY <1>0, FS_AddElement DEF Finite
    <3>2. {p \in Patches : patch'[p].status # "none"} \subseteq more
      BY <2>1, <1>0 DEF ApplyPatch, TypeOK
    <3>3. head' = head
      BY <2>1 DEF ApplyPatch
    <3>. QED
      BY <3>1, <3>2, <3>3, <1>0, FS_Subset DEF Finite
  <2>2. CASE RecordPatch
    <3>1. arg["task"].patch \in Patches /\ patch[arg["task"].patch].status # "none"
      BY <2>2, <1>0 DEF RecordPatch, AtTask
    <3>2. {p \in Patches : patch'[p].status # "none"} = {p \in Patches : patch[p].status # "none"}
      BY <2>2, <1>0, <3>1 DEF RecordPatch, TypeOK, PatchType
    <3>3. head' = head
      BY <2>2 DEF RecordPatch, git
    <3>. QED
      BY <3>2, <3>3, <1>0 DEF Finite
  <2>3. ASSUME NEW c \in Commands, RunCommand(c) PROVE Finite'
    <3>1. IsFiniteSet(Range(files["worktree"]))
      BY <1>0, FiniteRange DEF TypeOK, Roots
    <3>2. patch' = patch /\ (head' = head \/ head' = Range(files["worktree"]))
      BY <2>3, SMTT(30) DEF RunCommand
    <3>. QED
      BY <3>1, <3>2, <1>0 DEF Finite
  <2>. QED
    BY <1>1, <1>3, <2>1, <2>2, <2>3
      DEF Writing, Write, WriteUnbound, ResolveRoot, binding, git, rest, GitAdds
<1>4. CASE Merging
  BY <1>1, <1>4
    DEF Merging, RequestMerge, VerificationFails, AskMerge, SubmitApproval, MergeRequested,
        MergeCheck, MergeOk, MergeConflicts, CheckoutFails, RecordMerge, binding, git, rest
<1>5. CASE Cleaning
  BY <1>1, <1>5 DEF Cleaning, Cleanup, GitRemoves, RecordCleaned, binding, git, rest
<1>6. CASE Reverting
  <2>1. CASE MarkReverted
    <3>1. CASE arg["rpc"].list = <<>>
      BY <2>1, <3>1, <1>1 DEF MarkReverted, git
    <3>2. CASE arg["rpc"].list # <<>>
      <4>1. Head(arg["rpc"].list) \in Range(arg["rpc"].list)
        BY <1>0, <3>2, HeadListed DEF ArgType
      <4>2. Head(arg["rpc"].list) \in Patches /\ patch[Head(arg["rpc"].list)].status = "applied"
        BY <1>0, <4>1, <3>2, HeadTailProperties DEF Listed, ArgType
      <4>3. {p \in Patches : patch'[p].status # "none"} = {p \in Patches : patch[p].status # "none"}
        BY <2>1, <1>0, <3>2, <4>2 DEF MarkReverted, TypeOK, PatchType
      <4>4. head' = head
        BY <2>1 DEF MarkReverted, git
      <4>. QED
        BY <4>3, <4>4, <1>0 DEF Finite
    <3>. QED
      BY <3>1, <3>2
  <2>. QED
    BY <1>1, <1>6, <2>1
      DEF Reverting, StartRevert, SimulateRevert, ReversePatch, ReverseFails, ReverseTimesOut,
          RollBack, RevertFailed, binding, git, rest
<1>7. CASE EndTask
  BY <1>1, <1>7 DEF EndTask, binding, git, rest
<1>8. ASSUME NEW x \in OutsideEdits, NEW r \in DOMAIN files, OutsideEdit(x, r) PROVE Finite'
  BY <1>1, <1>8 DEF OutsideEdit, binding, git, rest
<1>9. CASE Crash
  BY <1>1, <1>9 DEF Crash, binding, git, rest
<1>10. CASE UNCHANGED vars
  BY <1>1, <1>10 DEF vars
<1>. QED
  BY <1>1, <1>2, <1>3, <1>4, <1>5, <1>6, <1>7, <1>8, <1>9, <1>10 DEF Next

LEMMA AtTaskStep ==
  ASSUME IInv, [Next]_vars
  PROVE  AtTask'
<1>0. /\ TypeOK /\ AtTask /\ Listed /\ Aimed /\ ThreadTypes
      /\ arg["task"] \in ArgType /\ arg["rpc"] \in ArgType
  BY DEF IInv, TypeOK, Threads, ThreadTypes
<1>1. CASE UNCHANGED <<pc["task"], arg["task"], bind, routed, bound, rec, patch>>
  BY <1>1, <1>0 DEF AtTask
<1>2. CASE Binding
  <2>1. CASE StartTask
    BY <2>1, <1>0
      DEF StartTask, GitAdds, Goes, With, Done, Idle, AtTask, binding, git, rest, ThreadTypes,
          Threads
  <2>2. CASE StartFails
    BY <2>2, <1>0
      DEF StartFails, Goes, With, Done, Idle, AtTask, binding, git, rest, ThreadTypes, Threads
  <2>3. CASE CreateWorktree
    BY <2>3, <1>0
      DEF CreateWorktree, Goes, With, Done, Idle, AtTask, binding, git, rest, ThreadTypes, Threads
  <2>4. CASE ActivateWorktree
    BY <2>4, <1>0
      DEF ActivateWorktree, Goes, With, Done, Idle, AtTask, binding, git, rest, ThreadTypes,
          Threads
  <2>5. CASE RouteTask
    BY <2>5, <1>0
      DEF RouteTask, ArgType, Goes, With, Done, Idle, AtTask, binding, git, rest, ThreadTypes,
          Threads
  <2>. QED
    BY <1>2, <2>1, <2>2, <2>3, <2>4, <2>5 DEF Binding
<1>3. CASE Writing
  <2>1. ASSUME NEW p \in Patches, Write(p) PROVE AtTask'
    BY <2>1, <1>0
      DEF Write, GitAdds, Goes, With, Done, Idle, AtTask, binding, git, rest, ThreadTypes, Threads
  <2>2. ASSUME NEW p \in Patches, WriteUnbound(p) PROVE AtTask'
    BY <2>2, <1>0
      DEF WriteUnbound, Goes, With, Done, Idle, AtTask, binding, git, rest, ThreadTypes, Threads
  <2>3. CASE ResolveRoot
    BY <2>3, <1>0
      DEF ResolveRoot, Goes, With, Done, Idle, AtTask, binding, git, rest, ThreadTypes, Threads
  <2>4. CASE ApplyPatch
    BY <2>4, <1>0
      DEF ApplyPatch, Goes, With, Done, Idle, AtTask, binding, git, rest, ThreadTypes, Threads,
          TypeOK, PatchType
  <2>5. CASE RecordPatch
    BY <2>5, <1>0
      DEF RecordPatch, Goes, With, Done, Idle, AtTask, binding, git, rest, ThreadTypes, Threads,
          TypeOK, PatchType
  <2>. QED
    BY <1>1, <1>3, <2>1, <2>2, <2>3, <2>4, <2>5, <1>0
      DEF Writing, RunCommand, binding, git, rest, Goes, With, Done, Threads, ThreadTypes, GitAdds
<1>4. CASE Merging
  <2>1. CASE RecordMerge
    BY <2>1, <1>0
      DEF RecordMerge, Aimed, Goes, With, Done, Idle, AtTask, binding, git, rest, ThreadTypes,
          Threads
  <2>. QED
    BY <1>1, <1>4, <2>1, <1>0
      DEF Merging, RequestMerge, VerificationFails, AskMerge, SubmitApproval, MergeRequested,
          MergeCheck, MergeOk, MergeConflicts, CheckoutFails, binding, git, rest, Goes, With,
          Done, Threads, ThreadTypes
<1>5. CASE Cleaning
  <2>1. CASE RecordCleaned
    BY <2>1, <1>0
      DEF RecordCleaned, Aimed, Goes, With, Done, Idle, AtTask, binding, git, rest, ThreadTypes,
          Threads
  <2>. QED
    BY <1>1, <1>5, <2>1, <1>0
      DEF Cleaning, Cleanup, GitRemoves, binding, git, rest, Goes, With, Done, Threads,
          ThreadTypes
<1>6. CASE Reverting
  <2>1. CASE MarkReverted
    <3>1. CASE arg["rpc"].list = <<>>
      BY <2>1, <3>1, <1>0, <1>1
        DEF MarkReverted, With, Done, ThreadTypes, Threads, binding, git, rest
    <3>2. CASE arg["rpc"].list # <<>>
      <4>1. Head(arg["rpc"].list) \in Patches /\ patch[Head(arg["rpc"].list)].status = "applied"
        BY <1>0, <3>2, HeadListed, HeadTailProperties DEF Listed, ArgType
      <4>2. /\ UNCHANGED <<pc["task"], arg["task"], bind, routed, bound, rec>>
             /\ \A p \in Patches : patch[p].status # "applied" => patch'[p] = patch[p]
        BY <2>1, <3>2, <4>1, <1>0
          DEF MarkReverted, With, TypeOK, ThreadTypes, Threads, binding, git, rest
      <4>. QED
        BY <4>2, <1>0 DEF AtTask
    <3>. QED
      BY <3>1, <3>2
  <2>. QED
    BY <1>1, <1>6, <2>1, <1>0
      DEF Reverting, StartRevert, SimulateRevert, ReversePatch, ReverseFails, ReverseTimesOut,
          RollBack, RevertFailed, binding, git, rest, Goes, With, Done, Threads, ThreadTypes
<1>7. CASE EndTask
  BY <1>7, <1>0
    DEF EndTask, Goes, With, Done, Idle, AtTask, binding, git, rest, ThreadTypes, Threads
<1>8. ASSUME NEW x \in OutsideEdits, NEW r \in DOMAIN files, OutsideEdit(x, r) PROVE AtTask'
  BY <1>1, <1>8, <1>0 DEF OutsideEdit, binding, git, rest, Goes, With, Done, Threads, ThreadTypes
<1>9. CASE Crash
  BY <1>9, <1>0
    DEF Crash, Goes, With, Done, Idle, AtTask, binding, git, rest, ThreadTypes, Threads
<1>10. CASE UNCHANGED vars
  BY <1>1, <1>10 DEF vars
<1>. QED
  BY <1>1, <1>2, <1>3, <1>4, <1>5, <1>6, <1>7, <1>8, <1>9, <1>10 DEF Next

-----------------------------------------------------------------------------
(* What the steps that write do to the files. *)

\* A change is made for the first time, in one place.
Makes(x, r) ==
  /\ r \in Roots /\ \A q \in Roots : x \notin Range(files[q])
  /\ \A q \in Roots : Range(files'[q]) = IF q = r THEN Range(files[q]) \cup {x} ELSE Range(files[q])
  /\ \A q \in Roots : IsInjective(files'[q])

LEMMA Appended ==
  ASSUME IInv, NEW x \in Changes, NEW r \in Roots,
         files' = [files EXCEPT ![r] = Append(@, x)]
  PROVE  /\ \A q \in Roots : Range(files'[q]) = IF q = r THEN Range(files[q]) \cup {x}
                                                ELSE Range(files[q])
         /\ x \notin Range(files[r]) => \A q \in Roots : IsInjective(files'[q])
<1>1. files \in [Roots -> Seq(Changes)] /\ \A q \in Roots : IsInjective(files[q])
  BY DEF IInv, TypeOK, Once
<1>2. \A q \in Roots : files'[q] = IF q = r THEN Append(files[q], x) ELSE files[q]
  BY <1>1
<1>3. files[r] \in Seq(Changes) /\ IsInjective(files[r])
  BY <1>1
<1>4. /\ Range(Append(files[r], x)) = Range(files[r]) \cup {x}
      /\ x \notin Range(files[r]) => IsInjective(Append(files[r], x))
  BY <1>3, AppendOne
<1>5. \A q \in Roots : Range(files'[q]) = IF q = r THEN Range(files[q]) \cup {x} ELSE Range(files[q])
  <2> SUFFICES ASSUME NEW q \in Roots
               PROVE  Range(files'[q]) = IF q = r THEN Range(files[q]) \cup {x} ELSE Range(files[q])
    OBVIOUS
  <2>1. CASE q = r
    BY <1>2, <1>4, <2>1, Zenon
  <2>2. CASE q # r
    <3>1. files'[q] = files[q]
      BY <1>2, <2>2
    <3>. QED
      BY <2>2, <3>1
  <2>. QED
    BY <2>1, <2>2
<1>6. x \notin Range(files[r]) => \A q \in Roots : IsInjective(files'[q])
  BY <1>1, <1>2, <1>4
<1>. QED
  BY <1>5, <1>6

LEMMA ApplyPatchMakes ==
  ASSUME IInv, ApplyPatch
  PROVE  LET p == arg["task"].patch
             r == arg["task"].root
         IN  \/ UNCHANGED <<patch, files>>
             \/ /\ p \in Patches /\ patch[p].status = "none" /\ Makes(p, r)
                /\ HasRoot(r) /\ InScope(FilesOf[p])
                /\ \A q \in Patches : patch'[q] = IF q = p THEN [status |-> "approved", at |-> r]
                                                  ELSE patch[q]
<1> DEFINE p == arg["task"].patch
           r == arg["task"].root
<1>1. p \in Patches /\ p \in Changes /\ patch[p].status = "none" /\ r \in Roots
  BY DEF ApplyPatch, IInv, AtTask, TypeOK, ArgType, Threads, Changes
<1>2. \A q \in Roots : p \notin Range(files[q])
  BY <1>1 DEF IInv, Placed
<1>3. patch \in [Patches -> PatchType]
  BY DEF IInv, TypeOK
<1>4. CASE HasRoot(r) /\ InScope(FilesOf[p])
  <2>1. /\ patch' = [patch EXCEPT ![p] = [status |-> "approved", at |-> r]]
        /\ files' = [files EXCEPT ![r] = Append(@, p)]
    BY <1>4 DEF ApplyPatch
  <2>2. Makes(p, r)
    BY <1>1, <1>2, <2>1, Appended DEF Makes
  <2>3. \A q \in Patches : patch'[q] = IF q = p THEN [status |-> "approved", at |-> r] ELSE patch[q]
    BY <1>1, <1>3, <2>1
  <2>. QED
    BY <1>1, <1>4, <2>2, <2>3
<1>5. CASE ~(HasRoot(r) /\ InScope(FilesOf[p]))
  BY <1>5 DEF ApplyPatch
<1>. QED
  BY <1>4, <1>5

LEMMA RunCommandMakes ==
  ASSUME IInv, NEW c \in Commands, RunCommand(c)
  PROVE  \/ /\ UNCHANGED <<files, edits>> /\ Root = "worktree"
            /\ head' = Range(files["worktree"])
         \/ /\ c.does \in edits /\ edits' = edits \ {c.does} /\ head' = head
            /\ c.does \in Changes \ Patches /\ Makes(c.does, Root)
<1>1. CASE c.does = "commit"
  BY <1>1 DEF RunCommand
<1>2. CASE c.does # "commit"
  <2>1. /\ c.does \in edits /\ edits' = edits \ {c.does} /\ head' = head
        /\ files' = [files EXCEPT ![Root] = Append(@, c.does)]
    BY <1>2 DEF RunCommand
  <2>2. c.does \in Changes \ Patches /\ Root \in Roots
    BY <2>1, WorktreeAssumption DEF IInv, TypeOK, Changes, Root, Roots
  <2>3. \A q \in Roots : c.does \notin Range(files[q])
    BY <2>1 DEF IInv, Once
  <2>. QED
    BY <2>1, <2>2, <2>3, Appended DEF Makes
<1>. QED
  BY <1>1, <1>2

LEMMA OutsideEditMakes ==
  ASSUME IInv, NEW x \in OutsideEdits, NEW r \in DOMAIN files, OutsideEdit(x, r)
  PROVE  x \in edits /\ edits' = edits \ {x} /\ x \in Changes \ Patches /\ Makes(x, r)
<1>1. x \in edits /\ edits' = edits \ {x} /\ files' = [files EXCEPT ![r] = Append(@, x)]
  BY DEF OutsideEdit
<1>2. x \in Changes \ Patches /\ r \in Roots
  BY WorktreeAssumption DEF IInv, TypeOK, Changes
<1>3. \A q \in Roots : x \notin Range(files[q])
  BY <1>1 DEF IInv, Once
<1>. QED
  BY <1>1, <1>2, <1>3, Appended DEF Makes

\* A merge brings what the branch holds into the workspace.
LEMMA MergeBrings ==
  ASSUME IInv, MergeOk
  PROVE  /\ Range(files'["workspace"]) = Range(files["workspace"]) \cup head
         /\ files'["worktree"] = files["worktree"]
         /\ IsInjective(files'["workspace"])
<1> DEFINE s == files["workspace"]
           more == head \ Range(s)
           t == SetToSeq(more)
<1>1. files \in [Roots -> Seq(Changes)] /\ "workspace" \in Roots /\ "worktree" \in Roots
      /\ IsInjective(s) /\ head \subseteq Changes
  BY DEF IInv, TypeOK, Once, Roots
<1>2. IsFiniteSet(more)
  BY FS_Subset DEF IInv, Finite
<1>3. t \in Seq(more) /\ Range(t) = more /\ IsInjective(t)
  BY <1>2, Enumerated
<1>4. t \in Seq(Changes)
  BY <1>1, <1>3, SeqSub
<1>5. Range(s \o t) = Range(s) \cup Range(t) /\ IsInjective(s \o t)
  <2>1. s \in Seq(Changes) /\ IsInjective(s) /\ Range(s) \cap Range(t) = {}
    BY <1>1, <1>3
  <2> HIDE DEF s, t
  <2>. QED
    BY <1>3, <1>4, <2>1, JoinOther
<1>6. files' = [files EXCEPT !["workspace"] = s \o t]
  BY DEF MergeOk
<1>. QED
  BY <1>1, <1>3, <1>5, <1>6

\* A cleanup takes the files of the worktree away, a commit was made of all of them
\* or it was forced.
LEMMA CleanupTakes ==
  ASSUME IInv, GitRemoves
  PROVE  \/ UNCHANGED <<dir, files, forced>>
         \/ /\ dir /\ ~dir' /\ files'["workspace"] = files["workspace"]
            /\ Range(files'["worktree"]) = {} /\ IsInjective(files'["worktree"])
            /\ forced' \/ (forced' = forced /\ Clean)
<1>1. files \in [Roots -> Seq(Changes)] /\ "workspace" \in Roots /\ "worktree" \in Roots
      /\ forced \in BOOLEAN /\ arg["rpc"].force \in BOOLEAN
  BY DEF IInv, TypeOK, Roots, Threads, ArgType
<1>2. Range(<< >>) = {} /\ IsInjective(<< >>)
  BY EmptySeq DEF Range, IsInjective
<1>3. CASE dir /\ (arg["rpc"].force \/ Clean)
  <2>1. dir' = FALSE /\ files' = [files EXCEPT !["worktree"] = << >>]
        /\ forced' = (forced \/ arg["rpc"].force)
    BY <1>3 DEF GitRemoves
  <2>. QED
    BY <1>1, <1>2, <1>3, <2>1
<1>4. CASE ~(dir /\ (arg["rpc"].force \/ Clean))
  BY <1>4 DEF GitRemoves
<1>. QED
  BY <1>3, <1>4

\* Where a revert stands: the next patch to be reversed, or to be put back.
LEMMA NextOfList ==
  ASSUME IInv, pc["rpc"] \in {"reverse", "rollback"}
  PROVE  LET a == arg["rpc"]
             n == Len(a.list)
             m == Len(a.undone)
         IN  /\ a.list \in Seq(Patches) /\ a.undone \in Seq(Patches) /\ a.root \in Roots
             /\ n \in Nat /\ m \in Nat /\ m <= n /\ DOMAIN a.list = 1 .. n /\ DOMAIN a.undone = 1 .. m
             /\ \A i \in 1 .. n : /\ a.list[i] \in Patches /\ a.list[i] \in Range(a.list)
                                  /\ patch[a.list[i]].status = "applied" /\ patch[a.list[i]].at = a.root
<1> DEFINE a == arg["rpc"]
<1>1. a.list \in Seq(Patches) /\ a.undone \in Seq(Patches) /\ a.root \in Roots
  BY DEF IInv, TypeOK, Threads, ArgType
<1>2. /\ Len(a.list) \in Nat /\ DOMAIN a.list = 1 .. Len(a.list)
      /\ Len(a.undone) \in Nat /\ DOMAIN a.undone = 1 .. Len(a.undone)
  BY <1>1, LenProperties
<1>3. /\ Len(a.undone) <= Len(a.list)
      /\ \A p \in Range(a.list) : patch[p].status = "applied" /\ patch[p].at = a.root
  BY DEF IInv, Listed, TypeOK
<1>4. \A i \in 1 .. Len(a.list) : a.list[i] \in Patches
  BY <1>1, ElementOfSeq
<1>5. \A i \in 1 .. Len(a.list) : a.list[i] \in Range(a.list)
  BY <1>2 DEF Range
<1>. QED
  BY <1>1, <1>2, <1>3, <1>4, <1>5

LEMMA ReverseTakes ==
  ASSUME IInv, ReversePatch
  PROVE  LET a == arg["rpc"]
             k == Len(a.list) - Len(a.undone)
             p == a.list[k]
         IN  /\ k \in 1 .. Len(a.list) /\ p \in Range(files[a.root])
             /\ \A q \in Roots : Range(files'[q]) = IF q = a.root THEN Range(files[q]) \ {p}
                                                     ELSE Range(files[q])
             /\ \A q \in Roots : IsInjective(files'[q])
<1> DEFINE a == arg["rpc"]
           p == a.list[Len(a.list) - Len(a.undone)]
<1>1. Len(a.undone) < Len(a.list) /\ p \in Range(files[a.root])
      /\ files' = [files EXCEPT ![a.root] = RemoveAt(@, Position(p, @))]
  BY DEF ReversePatch, Reversible
<1>2. /\ files \in [Roots -> Seq(Changes)] /\ \A q \in Roots : IsInjective(files[q])
      /\ a.root \in Roots
  BY DEF IInv, TypeOK, Once, Threads, ArgType
<1>3. Len(a.list) - Len(a.undone) \in 1 .. Len(a.list)
  <2>1. a.list \in Seq(Patches) /\ a.undone \in Seq(Patches)
    BY DEF IInv, TypeOK, Threads, ArgType
  <2>. QED
    BY <1>1, <2>1, NewestListed
<1> HIDE DEF p
<1>4. \A q \in Roots : files'[q] = IF q = a.root THEN RemoveAt(files[q], Position(p, files[q]))
                                   ELSE files[q]
  BY <1>1, <1>2
<1>5. /\ Range(RemoveAt(files[a.root], Position(p, files[a.root]))) = Range(files[a.root]) \ {p}
      /\ IsInjective(RemoveAt(files[a.root], Position(p, files[a.root])))
  BY <1>1, <1>2, RemoveOne
<1>. QED
  BY <1>1, <1>2, <1>3, <1>4, <1>5 DEF p

LEMMA RollBackPutsBack ==
  ASSUME IInv, RollBack
  PROVE  LET a == arg["rpc"]
             k == Len(a.list) + 1 - Len(a.undone)
             p == a.list[k]
         IN  /\ k \in 1 .. Len(a.list) /\ p = Last(a.undone) /\ p \notin Range(files[a.root])
             /\ a.undone # << >>
             /\ \/ UNCHANGED files /\ disturbed'
                \/ /\ UNCHANGED disturbed /\ HasRoot(a.root)
                   /\ \A q \in Roots : Range(files'[q]) = IF q = a.root THEN Range(files[q]) \cup {p}
                                                           ELSE Range(files[q])
                   /\ \A q \in Roots : IsInjective(files'[q])
<1> DEFINE a == arg["rpc"]
           n == Len(a.list)
           m == Len(a.undone)
           p == a.list[n + 1 - m]
<1>1. /\ a.list \in Seq(Patches) /\ a.undone \in Seq(Patches) /\ a.root \in Roots
      /\ n \in Nat /\ m \in Nat /\ m <= n /\ DOMAIN a.undone = 1 .. m
  BY NextOfList DEF RollBack
<1>2. a.undone # << >> /\ m # 0
  BY <1>1, EmptySeq DEF RollBack
<1>3. /\ n + 1 - m \in 1 .. n /\ m \in 1 .. m /\ n + 1 - m > n - m
  <2>1. \A x, y \in Nat : y <= x /\ y # 0 =>
          /\ x + 1 - y \in 1 .. x /\ y \in 1 .. y /\ x + 1 - y > x - y
    OBVIOUS
  <2>. QED
    BY <1>1, <1>2, <2>1
<1>4. a.undone[m] = p
  BY <1>3 DEF IInv, Undoing, RollBack
<1>5. Last(a.undone) = p
  BY <1>4 DEF Last
<1>6. p \notin Range(files[a.root])
  BY <1>3 DEF IInv, Undoing, RollBack
<1>7. p \in Changes
  BY <1>3, NextOfList DEF RollBack, Changes
<1> HIDE DEF p, n, m
<1>8. \/ UNCHANGED files /\ disturbed'
      \/ /\ UNCHANGED disturbed /\ HasRoot(a.root)
         /\ files' = [files EXCEPT ![a.root] = Append(@, p)]
  BY <1>5 DEF RollBack
<1>9. \/ UNCHANGED files /\ disturbed'
      \/ /\ UNCHANGED disturbed /\ HasRoot(a.root)
         /\ \A q \in Roots : Range(files'[q]) = IF q = a.root THEN Range(files[q]) \cup {p}
                                                 ELSE Range(files[q])
         /\ \A q \in Roots : IsInjective(files'[q])
  BY <1>1, <1>6, <1>7, <1>8, Appended
<1>. QED
  BY <1>2, <1>3, <1>5, <1>6, <1>9 DEF p, n, m

LEMMA MarkRevertedMarks ==
  ASSUME IInv, MarkReverted
  PROVE  LET a == arg["rpc"]
         IN  \/ a.list = << >> /\ Done("rpc") /\ UNCHANGED patch
             \/ /\ a.list # << >> /\ 1 \in 1 .. Len(a.list) /\ Len(a.undone) = Len(a.list)
                /\ With("rpc", "reverse", [a EXCEPT !.list = Tail(@), !.undone = Tail(@)])
                /\ a.list[1] \in Patches /\ patch[a.list[1]].status = "applied"
                /\ \A q \in Patches : patch'[q] = IF q = a.list[1] THEN [patch[q] EXCEPT !.status = "reverted"]
                                                   ELSE patch[q]
<1> DEFINE a == arg["rpc"]
           h == a.list[1]
<1>1. CASE a.list = << >>
  BY <1>1 DEF MarkReverted
<1>2. CASE a.list # << >>
  <2>1. Head(a.list) = h /\ 1 \in 1 .. Len(a.list)
    BY <1>2, NextOfList, EmptySeq, HeadTailProperties DEF MarkReverted
  <2>2. h \in Patches /\ patch[h].status = "applied"
    BY <2>1, NextOfList DEF MarkReverted
  <2>3. patch \in [Patches -> PatchType]
    BY DEF IInv, TypeOK
  <2>4. /\ Len(a.undone) = Len(a.list)
        /\ With("rpc", "reverse", [a EXCEPT !.list = Tail(@), !.undone = Tail(@)])
        /\ patch' = [patch EXCEPT ![h] = [@ EXCEPT !.status = "reverted"]]
    BY <1>2, <2>1 DEF MarkReverted
  <2>5. \A q \in Patches : patch'[q] = IF q = h THEN [patch[q] EXCEPT !.status = "reverted"] ELSE patch[q]
    BY <2>2, <2>3, <2>4
  <2>. QED
    BY <1>2, <2>1, <2>2, <2>4, <2>5
<1>. QED
  BY <1>1, <1>2

LEMMA RootStandsStep ==
  ASSUME IInv, [Next]_vars
  PROVE  RootStands'
<1>0. /\ AtTask /\ RootStands /\ ThreadTypes
      /\ arg["task"] \in ArgType
  BY DEF IInv, TypeOK, Threads, ThreadTypes
<1>1. CASE UNCHANGED <<pc["task"], arg["task"], rec, routed>>
  BY <1>1, <1>0 DEF RootStands, Active
<1>2. CASE Binding
  <2>1. CASE StartTask
    BY <2>1, <1>0 DEF StartTask, Goes, With, Done, Idle, Active, RootStands, ThreadTypes, Threads
  <2>2. CASE StartFails
    BY <2>2, <1>0 DEF StartFails, Goes, With, Done, Idle, Active, RootStands, ThreadTypes, Threads
  <2>3. CASE CreateWorktree
    BY <2>3, <1>0
      DEF CreateWorktree, binding, Goes, With, Done, Idle, Active, RootStands, ThreadTypes,
          Threads
  <2>4. CASE ActivateWorktree
    BY <2>4, <1>0
      DEF ActivateWorktree, binding, Goes, With, Done, Idle, Active, RootStands, ThreadTypes,
          Threads
  <2>5. CASE RouteTask
    BY <2>5, <1>0 DEF RouteTask, Goes, With, Done, Idle, Active, RootStands, ThreadTypes, Threads
  <2>. QED
    BY <1>2, <2>1, <2>2, <2>3, <2>4, <2>5 DEF Binding
<1>3. CASE Writing
  <2>1. ASSUME NEW p \in Patches, Write(p) PROVE RootStands'
    BY <2>1, <1>0 DEF Write, Goes, With, Done, Idle, Active, RootStands, ThreadTypes, Threads
  <2>2. ASSUME NEW p \in Patches, WriteUnbound(p) PROVE RootStands'
    BY <2>2, <1>0
      DEF WriteUnbound, Goes, With, Done, Idle, Active, RootStands, ThreadTypes, Threads
  <2>3. CASE ResolveRoot
    BY <2>3, <1>0
      DEF ResolveRoot, Root, AtTask, binding, git, rest, Goes, With, Done, Idle, Active,
          RootStands, ThreadTypes, Threads
  <2>4. CASE ApplyPatch
    BY <2>4, <1>0 DEF ApplyPatch, Goes, With, Done, Idle, Active, RootStands, ThreadTypes, Threads
  <2>5. CASE RecordPatch
    BY <2>5, <1>0
      DEF RecordPatch, Goes, With, Done, Idle, Active, RootStands, ThreadTypes, Threads
  <2>. QED
    BY <1>1, <1>3, <2>1, <2>2, <2>3, <2>4, <2>5, <1>0
      DEF Writing, RunCommand, binding, git, rest, Goes, With, Done, Threads, ThreadTypes, GitAdds
<1>4. CASE Merging
  <2>1. CASE RecordMerge
    BY <2>1, <1>0
      DEF RecordMerge, binding, Goes, With, Done, Idle, Active, RootStands, ThreadTypes, Threads
  <2>. QED
    BY <1>1, <1>4, <2>1, <1>0
      DEF Merging, RequestMerge, VerificationFails, AskMerge, SubmitApproval, MergeRequested,
          MergeCheck, MergeOk, MergeConflicts, CheckoutFails, binding, git, rest, Goes, With,
          Done, Threads, ThreadTypes
<1>5. CASE Cleaning
  <2>1. CASE RecordCleaned
    BY <2>1, <1>0
      DEF RecordCleaned, binding, Goes, With, Done, Idle, Active, RootStands, ThreadTypes, Threads
  <2>. QED
    BY <1>1, <1>5, <2>1, <1>0
      DEF Cleaning, Cleanup, GitRemoves, binding, git, rest, Goes, With, Done, Threads,
          ThreadTypes
<1>6. CASE Reverting
  BY <1>1, <1>6, <1>0
    DEF Reverting, StartRevert, SimulateRevert, ReversePatch, ReverseFails, ReverseTimesOut,
        RollBack, RevertFailed, MarkReverted, binding, git, rest, Goes, With, Done, Threads,
        ThreadTypes
<1>7. CASE EndTask
  BY <1>7, <1>0 DEF EndTask, Goes, With, Done, Idle, Active, RootStands, ThreadTypes, Threads
<1>8. ASSUME NEW x \in OutsideEdits, NEW r \in DOMAIN files, OutsideEdit(x, r) PROVE RootStands'
  BY <1>1, <1>8, <1>0 DEF OutsideEdit, binding, git, rest, Goes, With, Done, Threads, ThreadTypes
<1>9. CASE Crash
  BY <1>9, <1>0 DEF Crash, Goes, With, Done, Idle, Active, RootStands, ThreadTypes, Threads
<1>10. CASE UNCHANGED vars
  BY <1>1, <1>10 DEF vars
<1>. QED
  BY <1>1, <1>2, <1>3, <1>4, <1>5, <1>6, <1>7, <1>8, <1>9, <1>10 DEF Next

LEMMA PlacedStep ==
  ASSUME IInv, [Next]_vars
  PROVE  Placed'
<1>0. TypeOK /\ AtTask /\ RootStands /\ Placed /\ routed \in BOOLEAN
  BY DEF IInv, TypeOK, Threads, ThreadTypes
<1>1. CASE (rec # "none" => rec' # "none") /\ (routed => routed') /\ UNCHANGED <<patch, files, head>>
  BY <1>1, <1>0 DEF Placed
<1>2. CASE Binding
  BY <1>1, <1>2, <1>0
    DEF Binding, StartTask, StartFails, CreateWorktree, ActivateWorktree, RouteTask, binding,
        git, rest, GitAdds
<1>3. CASE Writing
  <2>1. CASE ApplyPatch
    <3>1. UNCHANGED <<rec, routed, head>>
      BY <2>1 DEF ApplyPatch, binding
    <3>2. arg["task"].root = "worktree" => rec # "none" /\ routed
      BY <2>1, <1>0 DEF ApplyPatch, RootStands
    <3>. QED
      BY <2>1, <3>1, <3>2, <1>0, ApplyPatchMakes DEF Makes, Placed, Roots
  <2>2. CASE RecordPatch
    <3>1. arg["task"].patch \in Patches /\ patch[arg["task"].patch].status = "approved"
           /\ patch \in [Patches -> PatchType]
      BY <2>2, <1>0 DEF RecordPatch, AtTask, TypeOK
    <3>2. \A p \in Patches : (patch'[p].status # "none") = (patch[p].status # "none") /\ patch'[p].at = patch[p].at
      BY <2>2, <3>1 DEF RecordPatch, PatchType
    <3>3. UNCHANGED <<rec, routed, head, files>>
      BY <2>2 DEF RecordPatch, binding, git
    <3>. QED
      BY <3>2, <3>3, <1>0 DEF Placed
  <2>3. ASSUME NEW c \in Commands, RunCommand(c) PROVE Placed'
    <3>1. UNCHANGED <<rec, routed, patch>>
      BY <2>3 DEF RunCommand, binding
    <3>. QED
      BY <2>3, <3>1, <1>0, RunCommandMakes DEF Makes, Placed, Roots
  <2>. QED
    BY <1>1, <1>3, <2>1, <2>2, <2>3, <1>0
      DEF Writing, Write, WriteUnbound, ResolveRoot, binding, git, rest, GitAdds
<1>4. CASE Merging
  <2>1. CASE MergeOk
    <3>1. UNCHANGED <<rec, routed, patch, head>>
      BY <2>1 DEF MergeOk, binding
    <3>. QED
      BY <2>1, <3>1, <1>0, MergeBrings DEF Placed, Roots
  <2>. QED
    BY <1>1, <1>4, <2>1, <1>0
      DEF Merging, RequestMerge, VerificationFails, AskMerge, SubmitApproval, MergeRequested,
          MergeCheck, MergeConflicts, CheckoutFails, RecordMerge, binding, git, rest
<1>5. CASE Cleaning
  <2>1. CASE GitRemoves
    <3>1. UNCHANGED <<rec, routed, patch, head>>
      BY <2>1 DEF GitRemoves, binding
    <3>. QED
      BY <2>1, <3>1, <1>0, CleanupTakes DEF Placed, Roots
  <2>. QED
    BY <1>1, <1>5, <2>1, <1>0 DEF Cleaning, Cleanup, RecordCleaned, binding, git, rest
<1>6. CASE Reverting
  <2>1. CASE ReversePatch
    <3>1. UNCHANGED <<rec, routed, patch, head>>
      BY <2>1 DEF ReversePatch, binding
    <3>. QED
      BY <2>1, <3>1, <1>0, ReverseTakes DEF Placed, Roots
  <2>2. CASE RollBack
    <3> DEFINE p == arg["rpc"].list[Len(arg["rpc"].list) + 1 - Len(arg["rpc"].undone)]
    <3>1. UNCHANGED <<rec, routed, patch, head>>
      BY <2>2 DEF RollBack, binding
    <3>2. p \in Patches /\ patch[p].status = "applied" /\ patch[p].at = arg["rpc"].root
      BY <2>2, RollBackPutsBack, NextOfList DEF RollBack
    <3>3. \A q \in Roots : Range(files'[q]) \subseteq
             Range(files[q]) \cup (IF q = arg["rpc"].root THEN {p} ELSE {})
      BY <2>2, RollBackPutsBack
    <3> HIDE DEF p
    <3>. QED
      BY <3>1, <3>2, <3>3, <1>0 DEF Placed, Roots
  <2>3. CASE MarkReverted
    <3>1. UNCHANGED <<rec, routed, files, head>>
      BY <2>3 DEF MarkReverted, binding, git
    <3>2. \A p \in Patches : /\ (patch'[p].status # "none") = (patch[p].status # "none")
                              /\ patch'[p].at = patch[p].at
      BY <2>3, <1>0, MarkRevertedMarks, ZenonT(40) DEF TypeOK, PatchType
    <3>. QED
      BY <3>1, <3>2, <1>0 DEF Placed
  <2>. QED
    BY <1>1, <1>6, <2>1, <2>2, <2>3, <1>0
      DEF Reverting, StartRevert, SimulateRevert, ReverseFails, ReverseTimesOut, RevertFailed,
          binding, git, rest
<1>7. CASE EndTask
  BY <1>1, <1>7, <1>0 DEF EndTask, binding, git, rest
<1>8. ASSUME NEW x \in OutsideEdits, NEW r \in DOMAIN files, OutsideEdit(x, r) PROVE Placed'
  <2>1. UNCHANGED <<rec, routed, patch, head>>
    BY <1>8 DEF OutsideEdit, binding
  <2>. QED
    BY <1>8, <2>1, <1>0, OutsideEditMakes DEF Makes, Placed, Roots
<1>9. CASE Crash
  BY <1>1, <1>9, <1>0 DEF Crash, binding, git, rest
<1>10. CASE UNCHANGED vars
  BY <1>1, <1>10 DEF vars
<1>. QED
  BY <1>1, <1>2, <1>3, <1>4, <1>5, <1>6, <1>7, <1>8, <1>9, <1>10 DEF Next

LEMMA OnceStep ==
  ASSUME IInv, [Next]_vars
  PROVE  Once'
<1>0. /\ TypeOK /\ AtTask /\ Once
      /\ \A x \in edits : x \notin Patches
  BY WorktreeAssumption DEF IInv, TypeOK, Threads, ThreadTypes
<1>1. CASE UNCHANGED <<files, edits, head>>
  BY <1>1, <1>0 DEF Once
<1>2. CASE Binding
  BY <1>1, <1>2
    DEF Binding, StartTask, StartFails, CreateWorktree, ActivateWorktree, RouteTask, binding,
        git, rest, GitAdds
<1>3. CASE Writing
  <2>1. CASE ApplyPatch
    <3>1. UNCHANGED <<edits, head>> /\ arg["task"].patch \notin edits
      BY <2>1, <1>0 DEF ApplyPatch, rest, AtTask, TypeOK
    <3>. QED
      BY <2>1, <3>1, <1>0, ApplyPatchMakes DEF Makes, Once, Roots
  <2>2. ASSUME NEW c \in Commands, RunCommand(c) PROVE Once'
    BY <2>2, <1>0, RunCommandMakes DEF Makes, Once, Roots
  <2>. QED
    BY <1>1, <1>3, <2>1, <2>2
      DEF Writing, Write, WriteUnbound, ResolveRoot, RecordPatch, binding, git, rest, GitAdds
<1>4. CASE Merging
  <2>1. CASE MergeOk
    <3>1. UNCHANGED <<edits, head>>
      BY <2>1 DEF MergeOk, rest
    <3>. QED
      BY <2>1, <3>1, <1>0, MergeBrings DEF Once, Roots
  <2>. QED
    BY <1>1, <1>4, <2>1
      DEF Merging, RequestMerge, VerificationFails, AskMerge, SubmitApproval, MergeRequested,
          MergeCheck, MergeConflicts, CheckoutFails, RecordMerge, binding, git, rest
<1>5. CASE Cleaning
  <2>1. CASE GitRemoves
    <3>1. UNCHANGED <<edits, head>>
      BY <2>1 DEF GitRemoves, rest
    <3>. QED
      BY <2>1, <3>1, <1>0, CleanupTakes DEF Once, Roots
  <2>. QED
    BY <1>1, <1>5, <2>1 DEF Cleaning, Cleanup, RecordCleaned, binding, git, rest
<1>6. CASE Reverting
  <2>1. CASE ReversePatch
    <3>1. UNCHANGED <<edits, head>>
      BY <2>1 DEF ReversePatch, rest
    <3>. QED
      BY <2>1, <3>1, <1>0, ReverseTakes DEF Once, Roots
  <2>2. CASE RollBack
    <3> DEFINE p == arg["rpc"].list[Len(arg["rpc"].list) + 1 - Len(arg["rpc"].undone)]
    <3>1. UNCHANGED <<edits, head>>
      BY <2>2 DEF RollBack
    <3>2. p \in Patches /\ p \notin edits
      BY <2>2, <1>0, RollBackPutsBack, NextOfList DEF RollBack
    <3>3. /\ \A q \in Roots : Range(files'[q]) \subseteq Range(files[q]) \cup {p}
           /\ \A r \in Roots : IsInjective(files'[r])
      BY <2>2, <1>0, RollBackPutsBack DEF Once
    <3> HIDE DEF p
    <3>. QED
      BY <3>1, <3>2, <3>3, <1>0 DEF Once
  <2>. QED
    BY <1>1, <1>6, <2>1, <2>2
      DEF Reverting, StartRevert, SimulateRevert, ReverseFails, ReverseTimesOut, RevertFailed,
          MarkReverted, binding, git, rest
<1>7. CASE EndTask
  BY <1>1, <1>7 DEF EndTask, binding, git, rest
<1>8. ASSUME NEW x \in OutsideEdits, NEW r \in DOMAIN files, OutsideEdit(x, r) PROVE Once'
  <2>1. UNCHANGED head
    BY <1>8 DEF OutsideEdit
  <2>. QED
    BY <1>8, <2>1, <1>0, OutsideEditMakes DEF Makes, Once, Roots
<1>9. CASE Crash
  BY <1>1, <1>9 DEF Crash, binding, git, rest
<1>10. CASE UNCHANGED vars
  BY <1>1, <1>10 DEF vars
<1>. QED
  BY <1>1, <1>2, <1>3, <1>4, <1>5, <1>6, <1>7, <1>8, <1>9, <1>10 DEF Next

-----------------------------------------------------------------------------
(* What the steps of one thread leave to the other. *)

OfTask ==
  \/ Binding \/ Writing \/ EndTask
  \/ \E x \in OutsideEdits : \E r \in DOMAIN files : OutsideEdit(x, r)

\* The task and an editor outside touch no request and no applied patch.
LEMMA TaskLeaves ==
  ASSUME IInv, OfTask
  PROVE  /\ UNCHANGED <<pc["rpc"], arg["rpc"], approvals, merges, policy, repo, forced, disturbed, crashes>>
         /\ (dir => dir') /\ (rec # "none" => rec' # "none")
         /\ \A p \in Patches : patch[p].status \in {"applied", "reverted"} => patch'[p] = patch[p]
         /\ \A p \in Patches : patch[p].status \in {"applied", "reverted"} =>
              \A q \in Roots : (p \in Range(files'[q])) <=> (p \in Range(files[q]))
<1> DEFINE Leaves == UNCHANGED <<pc["rpc"], arg["rpc"], approvals, merges, policy, repo,
                                 forced, disturbed, crashes>>
                     /\ (dir => dir') /\ (rec # "none" => rec' # "none")
           Keeps == /\ \A p \in Patches : patch[p].status \in {"applied", "reverted"} => patch'[p] = patch[p]
                    /\ \A p \in Patches : patch[p].status \in {"applied", "reverted"} =>
                         \A q \in Roots : (p \in Range(files'[q])) <=> (p \in Range(files[q]))
<1>0. ThreadTypes /\ AtTask /\ patch \in [Patches -> PatchType]
  BY DEF IInv, TypeOK, ThreadTypes
<1>1. UNCHANGED <<patch, files>> => Keeps
  OBVIOUS
<1>2. CASE Binding
  <2>1. Leaves
    BY <1>2, <1>0 DEF Binding, StartTask, StartFails, CreateWorktree, ActivateWorktree, RouteTask,
                      Goes, GitAdds, binding, git, rest, Threads, ThreadTypes
  <2>2. UNCHANGED <<patch, files>>
    BY <1>2 DEF Binding, StartTask, StartFails, CreateWorktree, ActivateWorktree, RouteTask,
       GitAdds, git
  <2>. QED
    BY <2>1, <2>2, <1>1
<1>3. CASE Writing
  <2>1. CASE ~ApplyPatch /\ ~RecordPatch /\ ~\E c \in Commands : RunCommand(c)
    <3>1. Leaves
      BY <1>3, <2>1, <1>0 DEF Writing, Write, WriteUnbound, ResolveRoot,
                        With, Done, GitAdds, binding, git, rest, Threads, ThreadTypes
    <3>2. UNCHANGED <<patch, files>>
      BY <1>3, <2>1 DEF Writing, Write, WriteUnbound, ResolveRoot, GitAdds, git
    <3>. QED
      BY <3>1, <3>2, <1>1
  <2>2. CASE ApplyPatch
    <3>1. Leaves
      BY <2>2, <1>0 DEF ApplyPatch, Goes, Done, With, binding, rest, Threads, ThreadTypes
    <3>2. Keeps
      BY <2>2, ApplyPatchMakes DEF Makes
    <3>. QED
      BY <3>1, <3>2
  <2>3. CASE RecordPatch
    <3>1. Leaves
      BY <2>3, <1>0 DEF RecordPatch, Done, With, binding, git, rest, Threads, ThreadTypes
    <3>2. /\ arg["task"].patch \in Patches /\ patch[arg["task"].patch].status = "approved"
          /\ UNCHANGED files
      BY <2>3, <1>0 DEF RecordPatch, AtTask, git
    <3>3. \A p \in Patches : p # arg["task"].patch => patch'[p] = patch[p]
      BY <2>3, <1>0 DEF RecordPatch
    <3>. QED
      BY <3>1, <3>2, <3>3
  <2>4. ASSUME NEW c \in Commands, RunCommand(c) PROVE Leaves /\ Keeps
    <3>1. Leaves /\ UNCHANGED patch
      BY <2>4 DEF RunCommand, binding
    <3>2. Keeps
      BY <2>4, <3>1, RunCommandMakes DEF Makes
    <3>. QED
      BY <3>1, <3>2
  <2>. QED
    BY <2>1, <2>2, <2>3, <2>4
<1>4. CASE EndTask
  <2>1. Leaves /\ UNCHANGED <<patch, files>>
    BY <1>4, <1>0 DEF EndTask, Goes, binding, git, rest, Threads, ThreadTypes
  <2>. QED
    BY <2>1, <1>1
<1>5. ASSUME NEW x \in OutsideEdits, NEW r \in DOMAIN files, OutsideEdit(x, r) PROVE Leaves /\ Keeps
  <2>1. Leaves /\ UNCHANGED patch
    BY <1>5 DEF OutsideEdit, binding
  <2>2. Keeps
    BY <1>5, <2>1, OutsideEditMakes, ZenonT(40) DEF Makes
  <2>. QED
    BY <2>1, <2>2
<1>. QED
  BY <1>2, <1>3, <1>4, <1>5 DEF OfTask

InRevert == {"simulate", "reverse", "rollback"}

\* Outside a revert the list is empty.
LEMMA NoList ==
  ASSUME IInv, pc["rpc"] \notin InRevert
  PROVE  arg["rpc"].list = << >> /\ arg["rpc"].undone = << >>
<1>1. arg["rpc"].list = << >> /\ Len(arg["rpc"].undone) <= Len(arg["rpc"].list)
  BY DEF IInv, Listed, InRevert
<1>2. arg["rpc"].undone \in Seq(Patches)
  BY DEF IInv, TypeOK, Threads, ArgType
<1>. QED
  BY <1>1, <1>2, EmptySeq, LenProperties

\* A merge, a cleanup and a crash leave no list.
LEMMA RpcRests ==
  ASSUME IInv, Merging \/ Cleaning \/ Crash \/ ReverseTimesOut \/ RevertFailed
  PROVE  pc'["rpc"] \notin InRevert /\ arg'["rpc"].list = << >> /\ arg'["rpc"].undone = << >>
<1>0. ThreadTypes /\ (pc["rpc"] \notin InRevert => arg["rpc"].list = << >> /\ arg["rpc"].undone = << >>)
      /\ (arg["rpc"] \in ArgType)
  BY NoList DEF IInv, TypeOK, ThreadTypes, Threads
<1>1. CASE Merging
  <2>1. /\ pc["rpc"] \notin InRevert
        /\ \/ \E l \in {"merge", "merged", "conflict"} : Goes("rpc", l)
           \/ Done("rpc")
           \/ \E b, v : With("rpc", "verify", [Idle EXCEPT !.target = b, !.review = v])
           \/ \E i, b : With("rpc", "check", [Idle EXCEPT !.approval = i, !.target = b])
    BY <1>1 DEF Merging, RequestMerge, VerificationFails, AskMerge, SubmitApproval, MergeRequested,
       MergeCheck, MergeOk, MergeConflicts, CheckoutFails, RecordMerge, InRevert
  <2>2. ASSUME NEW l \in {"merge", "merged", "conflict"}, Goes("rpc", l)
        PROVE  pc'["rpc"] \notin InRevert /\ arg'["rpc"] = arg["rpc"]
    BY <2>2, <1>0 DEF Goes, InRevert, Threads, ThreadTypes
  <2>3. ASSUME NEW l \in {"idle", "verify", "check"}, NEW new, With("rpc", l, new)
        PROVE  pc'["rpc"] \notin InRevert /\ arg'["rpc"] = new
    BY <2>3, <1>0 DEF With, InRevert, Threads, ThreadTypes
  <2>4. Idle.list = << >> /\ Idle.undone = << >>
    BY DEF Idle
  <2>5. CASE \E l \in {"merge", "merged", "conflict"} : Goes("rpc", l)
    BY <2>1, <2>2, <2>5, <1>0
  <2>6. CASE Done("rpc")
    BY <2>3, <2>4, <2>6 DEF Done
  <2>7. CASE \E b, v : With("rpc", "verify", [Idle EXCEPT !.target = b, !.review = v])
    <3>1. PICK b, v : With("rpc", "verify", [Idle EXCEPT !.target = b, !.review = v])
      BY <2>7
    <3> DEFINE new == [Idle EXCEPT !.target = b, !.review = v]
    <3>2. new.list = << >> /\ new.undone = << >>
      BY DEF Idle
    <3>3. With("rpc", "verify", new)
      BY <3>1
    <3> HIDE DEF new
    <3>. QED
      BY <2>3, <3>2, <3>3
  <2>8. CASE \E i, b : With("rpc", "check", [Idle EXCEPT !.approval = i, !.target = b])
    <3>1. PICK i, b : With("rpc", "check", [Idle EXCEPT !.approval = i, !.target = b])
      BY <2>8
    <3> DEFINE new == [Idle EXCEPT !.approval = i, !.target = b]
    <3>2. new.list = << >> /\ new.undone = << >>
      BY DEF Idle
    <3>3. With("rpc", "check", new)
      BY <3>1
    <3> HIDE DEF new
    <3>. QED
      BY <2>3, <3>2, <3>3
  <2>. QED
    BY <2>1, <2>5, <2>6, <2>7, <2>8, ZenonT(40)
<1>2. CASE Cleaning
  BY <1>2, <1>0 DEF Cleaning, Cleanup, GitRemoves, RecordCleaned, Goes, With, Done, Idle, InRevert,
     Threads, ThreadTypes
<1>3. CASE Crash \/ ReverseTimesOut \/ RevertFailed
  BY <1>3, <1>0, SMTT(30) DEF Crash, ReverseTimesOut, RevertFailed, Done, With, Idle, InRevert, Threads,
     ThreadTypes
<1>. QED
  BY <1>1, <1>2, <1>3

\* A merge, a cleanup and a crash leave the patches as they are.
LEMMA RpcLeaves ==
  ASSUME Merging \/ Cleaning \/ Crash
  PROVE  UNCHANGED <<patch, policy>>
BY DEF Merging, RequestMerge, VerificationFails, AskMerge, SubmitApproval, MergeRequested,
   MergeCheck, MergeOk, MergeConflicts, CheckoutFails, RecordMerge, Cleaning, Cleanup, GitRemoves,
   RecordCleaned, Crash, binding

\* The list of a revert becomes shorter by its first patch.
LEMMA TailOne ==
  ASSUME NEW S, NEW s \in Seq(S), s # << >>
  PROVE  /\ Tail(s) \in Seq(S) /\ Len(Tail(s)) = Len(s) - 1 /\ Len(s) \in Nat \ {0}
         /\ \A i \in 1 .. Len(s) - 1 : Tail(s)[i] = s[i + 1]
         /\ IsInjective(s) => IsInjective(Tail(s)) /\ Range(Tail(s)) = Range(s) \ {s[1]}
<1>1. /\ Tail(s) \in Seq(S) /\ Len(Tail(s)) = Len(s) - 1 /\ Len(s) \in Nat \ {0}
      /\ \A i \in 1 .. Len(s) - 1 : Tail(s)[i] = s[i + 1]
  BY EmptySeq, HeadTailProperties
<1>2. DOMAIN s = 1 .. Len(s) /\ DOMAIN Tail(s) = 1 .. Len(s) - 1
  BY <1>1, LenProperties
<1> DEFINE n == Len(s)
<1>3. /\ \A i \in 1 .. n - 1 : i + 1 \in 1 .. n /\ i + 1 # 1
      /\ \A i, j \in 1 .. n - 1 : i + 1 = j + 1 => i = j
      /\ \A i \in 1 .. n : i # 1 => i - 1 \in 1 .. n - 1 /\ (i - 1) + 1 = i
      /\ 1 \in 1 .. n
  BY <1>1
<1> HIDE DEF n
<1>4. ASSUME IsInjective(s) PROVE IsInjective(Tail(s))
  BY <1>1, <1>2, <1>3, <1>4 DEF IsInjective, n
<1>5. ASSUME IsInjective(s) PROVE Range(Tail(s)) \subseteq Range(s) \ {s[1]}
  <2> SUFFICES ASSUME NEW i \in 1 .. n - 1 PROVE s[i + 1] \in Range(s) /\ s[i + 1] # s[1]
    BY <1>1, <1>2 DEF Range, n
  <2>. QED
    BY <1>2, <1>3, <1>5 DEF Range, IsInjective, n
<1>6. ASSUME IsInjective(s) PROVE Range(s) \ {s[1]} \subseteq Range(Tail(s))
  <2> SUFFICES ASSUME NEW i \in 1 .. n, s[i] # s[1] PROVE s[i] \in Range(Tail(s))
    BY <1>2 DEF Range, n
  <2>1. i # 1 /\ i - 1 \in 1 .. n - 1 /\ (i - 1) + 1 = i
    BY <1>3
  <2>2. Tail(s)[i - 1] = s[i]
    BY <1>1, <2>1 DEF n
  <2>. QED
    BY <1>2, <2>1, <2>2 DEF Range, n
<1>. QED
  BY <1>1, <1>4, <1>5, <1>6

LEMMA ListedStep ==
  ASSUME IInv, [Next]_vars
  PROVE  Listed'
<1> DEFINE a == arg["rpc"]
           b == arg'["rpc"]
<1>0. /\ TypeOK /\ Placed /\ Listed /\ ThreadTypes /\ Finite /\ a \in ArgType
      /\ (pc["rpc"] \notin InRevert => a.list = << >> /\ a.undone = << >>)
  BY NoList DEF IInv, TypeOK, ThreadTypes, Threads
<1>a. Range(<< >>) = {} /\ IsInjective(<< >>) /\ Len(<< >>) = 0
  BY EmptySeq DEF Range, IsInjective
<1>1. CASE OfTask
  <2>1. UNCHANGED <<pc["rpc"], a>> /\ (dir => dir')
    BY <1>1, TaskLeaves
  <2>2. \A p \in Range(a.list) : patch'[p] = patch[p]
    BY <1>0, <1>1, TaskLeaves, RangeOfSeq DEF Listed, ArgType
  <2>. QED
    BY <2>1, <2>2, <1>0 DEF Listed, HasRoot
<1>2. CASE pc'["rpc"] \notin InRevert /\ b.list = << >> /\ b.undone = << >>
  BY <1>2, <1>a DEF Listed, InRevert
<1>3. CASE Merging \/ Cleaning \/ Crash
  BY <1>3, <1>2, RpcRests
<1>4. CASE Reverting
  <2>1. CASE StartRevert
    <3>1. PICK list \in SetToSeqs(Revertable) :
             With("rpc", "simulate", [Idle EXCEPT !.root = IF routed THEN "worktree" ELSE "workspace",
                                                  !.list = list])
      BY <2>1 DEF StartRevert
    <3>2. Range(list) = Revertable /\ IsInjective(list) /\ Len(list) \in Nat
      BY <1>0, RevertableFinite, ListOfSet, LenProperties
    <3>3. /\ pc'["rpc"] = "simulate" /\ b.list = list /\ b.undone = << >>
          /\ b.root = IF routed THEN "worktree" ELSE "workspace"
      BY <3>1, <1>0 DEF With, Idle, Threads, ThreadTypes
    <3>4. UNCHANGED patch
      BY <2>1 DEF StartRevert
    <3>5. ~routed => \A p \in Revertable : patch[p].at = "workspace"
      BY <1>0 DEF Revertable, Placed, TypeOK, PatchType, Roots
    <3>. QED
      BY <3>2, <3>3, <3>4, <3>5, <1>a DEF Listed, Revertable
  <2>2. CASE SimulateRevert
    <3>1. CASE HasRoot(a.root) /\ AllReversible(a.list, files[a.root])
      <4>1. /\ pc'["rpc"] = "reverse" /\ b.list = a.list /\ b.undone = a.undone /\ b.root = a.root
            /\ UNCHANGED <<patch, dir>>
        BY <2>2, <3>1, <1>0 DEF SimulateRevert, With, git, ArgType, Threads, ThreadTypes
      <4>2. \A p \in Range(a.list) : p \in Patches /\ p \in Range(files[a.root])
        BY <3>1, <1>0, RangeOfSeq DEF AllReversible, ArgType
      <4>3. \A p \in Range(a.list) : patch[p].at = a.root
        BY <4>2, <2>2, <1>0 DEF Placed, Listed, ArgType, Roots, SimulateRevert
      <4>. QED
        BY <4>1, <4>3, <3>1, <1>0 DEF Listed, HasRoot
    <3>2. CASE ~(HasRoot(a.root) /\ AllReversible(a.list, files[a.root]))
      <4>1. Done("rpc")
        BY <2>2, <3>2 DEF SimulateRevert
      <4>. QED
        BY <4>1, <1>2, <1>0 DEF Done, With, Idle, Threads, ThreadTypes, InRevert
    <3>. QED
      BY <3>1, <3>2
  <2>3. CASE ReversePatch
    <3>1. /\ pc["rpc"] = "reverse" /\ pc'["rpc"] = "reverse" /\ b.list = a.list /\ b.root = a.root
          /\ Len(a.undone) < Len(a.list) /\ UNCHANGED <<patch, dir>>
          /\ \E p : b.undone = Append(a.undone, p)
      BY <2>3, <1>0 DEF ReversePatch, With, ArgType, Threads, ThreadTypes
    <3>2. Len(b.undone) = Len(a.undone) + 1 /\ Len(a.undone) \in Nat /\ Len(a.list) \in Nat
      BY <3>1, NextOfList
    <3>. QED
      BY <3>1, <3>2, <1>0 DEF Listed, HasRoot
  <2>4. CASE ReverseFails
    BY <2>4, <1>0 DEF ReverseFails, Goes, Listed, HasRoot, git, Threads, ThreadTypes
  <2>5. CASE ReverseTimesOut \/ RevertFailed
    BY <2>5, <1>2, RpcRests
  <2>6. CASE RollBack
    <3>1. /\ pc["rpc"] = "rollback" /\ pc'["rpc"] = "rollback" /\ b.list = a.list /\ b.root = a.root
          /\ UNCHANGED <<patch, dir>> /\ b.undone = Front(a.undone) /\ a.undone # << >>
      BY <2>6, <1>0 DEF RollBack, With, ArgType, Threads, ThreadTypes
    <3>2. Len(b.undone) = Len(a.undone) - 1 /\ Len(a.undone) \in Nat /\ Len(a.list) \in Nat
      BY <3>1, NextOfList, FrontOne
    <3>. QED
      BY <3>1, <3>2, <1>0 DEF Listed, HasRoot
  <2>7. CASE MarkReverted
    <3>1. CASE Done("rpc")
      BY <3>1, <1>2, <1>0 DEF Done, With, Idle, Threads, ThreadTypes, InRevert
    <3>2. CASE a.list # << >> /\ With("rpc", "reverse", [a EXCEPT !.list = Tail(@), !.undone = Tail(@)])
      <4>1. /\ pc["rpc"] = "reverse" /\ pc'["rpc"] = "reverse" /\ b.list = Tail(a.list)
            /\ b.undone = Tail(a.undone) /\ b.root = a.root /\ UNCHANGED dir
        BY <2>7, <3>2, <1>0 DEF MarkReverted, With, git, ArgType, Threads, ThreadTypes
      <4>2. /\ a.list \in Seq(Patches) /\ a.undone \in Seq(Patches) /\ Len(a.undone) = Len(a.list)
            /\ a.undone # << >>
        BY <4>1, <3>2, <2>7, NextOfList, EmptySeq DEF MarkReverted
      <4>3. /\ Len(b.undone) <= Len(b.list) /\ IsInjective(b.list)
            /\ Range(b.list) = Range(a.list) \ {a.list[1]}
        BY <4>1, <4>2, <3>2, <1>0, TailOne DEF Listed
      <4>4. \A p \in Range(b.list) : p \in Range(a.list) /\ patch'[p] = patch[p]
        BY <4>2, <4>3, <3>2, <2>7, MarkRevertedMarks, RangeOfSeq, <1>a, ZenonT(40)
      <4>. QED
        BY <4>1, <4>3, <4>4, <1>0 DEF Listed, HasRoot
    <3>. QED
      BY <2>7, <3>1, <3>2, MarkRevertedMarks
  <2>. QED
    BY <1>4, <2>1, <2>2, <2>3, <2>4, <2>5, <2>6, <2>7 DEF Reverting
<1>5. CASE UNCHANGED vars
  BY <1>5, <1>0 DEF vars, Listed, HasRoot
<1>. QED
  BY <1>1, <1>3, <1>4, <1>5 DEF Next, OfTask

\* A revert with n patches, m of them reversed, and one step more or less.
LEMMA OneMore ==
  ASSUME NEW n \in Nat, NEW m \in Nat, m < n
  PROVE  /\ n - m > 0 /\ n + 1 - (m + 1) = n - m
         /\ \A k \in 1 .. m + 1 : k \in 1 .. m \/ k = m + 1
         /\ \A i \in 1 .. n - (m + 1) : i \in 1 .. n /\ i \in 1 .. n - m /\ i # n - m
         /\ \A i \in 1 .. n : i > n - (m + 1) => i > n - m \/ i = n - m
OBVIOUS

LEMMA OneLess ==
  ASSUME NEW n \in Nat, NEW m \in Nat \ {0}, m <= n
  PROVE  /\ \A k \in 1 .. m - 1 : k \in 1 .. m
         /\ \A i \in 1 .. n - (m - 1) : i \in 1 .. n - m \/ i = n + 1 - m
         /\ \A i \in 1 .. n : i > n - (m - 1) => i > n - m /\ i # n + 1 - m
OBVIOUS

LEMMA UndoingStep ==
  ASSUME IInv, [Next]_vars
  PROVE  Undoing'
<1> DEFINE a == arg["rpc"]
           b == arg'["rpc"]
           n == Len(a.list)
           m == Len(a.undone)
<1>0. /\ ThreadTypes /\ Undoing /\ a \in ArgType /\ a.list \in Seq(Patches) /\ IsInjective(a.list)
      /\ files \in [Roots -> Seq(Changes)] /\ disturbed \in BOOLEAN
  BY DEF IInv, TypeOK, ThreadTypes, Threads, ArgType, Listed
<1>1. CASE pc'["rpc"] \notin {"reverse", "rollback"}
  BY <1>1 DEF Undoing
<1>2. CASE OfTask /\ pc'["rpc"] \in {"reverse", "rollback"}
  <2>1. UNCHANGED <<pc["rpc"], a, disturbed>>
    BY <1>2, TaskLeaves
  <2>2. /\ n \in Nat /\ m \in Nat /\ m <= n
        /\ \A i \in 1 .. n : (a.list[i] \in Range(files'[a.root])) <=> (a.list[i] \in Range(files[a.root]))
    BY <1>2, <2>1, TaskLeaves, NextOfList
  <2>3. \A i \in 1 .. n - m : i \in 1 .. n
    BY <2>2
  <2>. QED
    BY <2>1, <2>2, <2>3, <1>0 DEF Undoing
<1>3. CASE Merging \/ Cleaning \/ Crash \/ ReverseTimesOut \/ RevertFailed
  BY <1>3, <1>1, RpcRests DEF InRevert
<1>4. CASE StartRevert
  <2>1. pc'["rpc"] = "simulate"
    BY <1>4, <1>0 DEF StartRevert, With, Threads, ThreadTypes
  <2>. QED
    BY <2>1, <1>1
<1>5. CASE SimulateRevert
  <2>1. CASE HasRoot(a.root) /\ AllReversible(a.list, files[a.root])
    <3>1. /\ pc'["rpc"] = "reverse" /\ b.list = a.list /\ b.undone = << >> /\ b.root = a.root
          /\ UNCHANGED files
      BY <1>5, <2>1, <1>0 DEF SimulateRevert, With, git, ArgType, Threads, ThreadTypes, IInv, Listed
    <3>2. n \in Nat /\ DOMAIN a.list = 1 .. n /\ Len(b.undone) = 0
      BY <1>0, <3>1, LenProperties, EmptySeq
    <3>3. \A i \in 1 .. n : a.list[i] \in Range(files[a.root])
      BY <2>1, <3>2 DEF AllReversible, Range
    <3>4. /\ \A i \in 1 .. n : ~(i > n - 0)
          /\ n - 0 = n /\ 1 .. 0 = {}
      BY <3>2
    <3>. QED
      BY <3>1, <3>2, <3>3, <3>4 DEF Undoing
  <2>2. CASE ~(HasRoot(a.root) /\ AllReversible(a.list, files[a.root]))
    <3>1. pc'["rpc"] = "idle"
      BY <1>5, <2>2, <1>0 DEF SimulateRevert, Done, With, Threads, ThreadTypes
    <3>. QED
      BY <3>1, <1>1
  <2>. QED
    BY <2>1, <2>2
<1>6. CASE ReversePatch
  <2> DEFINE p == a.list[n - m]
  <2>1. /\ pc["rpc"] = "reverse" /\ pc'["rpc"] = "reverse" /\ b.list = a.list /\ b.root = a.root
        /\ b.undone = Append(a.undone, p) /\ m < n
    BY <1>6, <1>0 DEF ReversePatch, With, ArgType, Threads, ThreadTypes
  <2>2. /\ n \in Nat /\ m \in Nat /\ n - m \in 1 .. n /\ a.undone \in Seq(Patches) /\ a.root \in Roots
        /\ DOMAIN a.list = 1 .. n
    BY <2>1, <1>6, NextOfList, ReverseTakes
  <2>3. /\ Len(b.undone) = m + 1 /\ b.undone[m + 1] = p /\ \A k \in 1 .. m : b.undone[k] = a.undone[k]
    BY <2>1, <2>2, AppendProperties
  <2>4. /\ \A k \in 1 .. m : a.undone[k] = a.list[n + 1 - k]
        /\ \A i \in 1 .. n - m : a.list[i] \in Range(files[a.root])
        /\ \A i \in 1 .. n : i > n - m => a.list[i] \notin Range(files[a.root])
    <3>1. n - m > 0
      BY <2>1, <2>2, OneMore
    <3>. QED
      BY <3>1, <2>1, <1>0 DEF Undoing
  <2>5. \A i \in 1 .. n : i # n - m => a.list[i] # p
    BY <2>2, <1>0 DEF IsInjective
  <2>6. Range(files'[a.root]) = Range(files[a.root]) \ {p}
    BY <1>6, <2>2, ReverseTakes
  <2> HIDE DEF p
  <2>7. n \in Nat /\ m \in Nat /\ m < n
    BY <2>1, <2>2
  <2>8. \A k \in 1 .. m + 1 : b.undone[k] = a.list[n + 1 - k]
    <3>. HIDE DEF n, m
    <3>1. n + 1 - (m + 1) = n - m /\ \A k \in 1 .. m + 1 : k \in 1 .. m \/ k = m + 1
      BY <2>7, OneMore
    <3>. QED
      BY <2>3, <2>4, <3>1 DEF p
  <2>9. \A i \in 1 .. n - (m + 1) : a.list[i] \in Range(files'[a.root])
    <3>1. \A i \in 1 .. n - (m + 1) : i \in 1 .. n /\ i \in 1 .. n - m /\ i # n - m
      BY <2>7, OneMore, ZenonT(40)
    <3>. QED
      BY <2>4, <2>5, <2>6, <3>1
  <2>10. \A i \in 1 .. n : i > n - (m + 1) => a.list[i] \notin Range(files'[a.root])
    <3>1. \A i \in 1 .. n : i > n - (m + 1) => i > n - m \/ i = n - m
      BY <2>7, OneMore
    <3>. QED
      BY <2>4, <2>6, <3>1 DEF p
  <2>. QED
    BY <2>1, <2>3, <2>8, <2>9, <2>10 DEF Undoing
<1>7. CASE ReverseFails
  <2>1. /\ pc["rpc"] = "reverse" /\ pc'["rpc"] = "rollback" /\ b = a /\ m < n /\ UNCHANGED <<files, disturbed>>
    BY <1>7, <1>0 DEF ReverseFails, Goes, git, rest, Threads, ThreadTypes
  <2>2. n \in Nat /\ m \in Nat
    BY <2>1, NextOfList
  <2>3. n - m > 0
    BY <2>1, <2>2, OneMore
  <2>. QED
    BY <2>1, <2>3, <1>0 DEF Undoing
<1>8. CASE RollBack
  <2> DEFINE p == a.list[n + 1 - m]
  <2>1. /\ pc["rpc"] = "rollback" /\ pc'["rpc"] = "rollback" /\ b.list = a.list /\ b.root = a.root
        /\ b.undone = Front(a.undone) /\ a.undone # << >>
    BY <1>8, <1>0 DEF RollBack, With, ArgType, Threads, ThreadTypes
  <2>2. /\ n \in Nat /\ m \in Nat \ {0} /\ m <= n /\ n + 1 - m \in 1 .. n /\ a.root \in Roots
        /\ a.undone \in Seq(Patches) /\ DOMAIN a.list = 1 .. n
    BY <2>1, <1>8, NextOfList, RollBackPutsBack, FrontOne
  <2>3. Len(b.undone) = m - 1 /\ \A k \in 1 .. m - 1 : b.undone[k] = a.undone[k]
    BY <2>1, <2>2, FrontOne, ZenonT(40)
  <2>4. /\ \A k \in 1 .. m : a.undone[k] = a.list[n + 1 - k]
        /\ ~disturbed => \A i \in 1 .. n - m : a.list[i] \in Range(files[a.root])
        /\ \A i \in 1 .. n : i > n - m => a.list[i] \notin Range(files[a.root])
    BY <2>1, <1>0 DEF Undoing
  <2>5. \A i \in 1 .. n : i # n + 1 - m => a.list[i] # p
    BY <2>2, <1>0 DEF IsInjective
  <2>6. \/ UNCHANGED files /\ disturbed'
        \/ UNCHANGED disturbed /\ Range(files'[a.root]) = Range(files[a.root]) \cup {p}
    BY <1>8, <2>2, RollBackPutsBack
  <2> HIDE DEF p
  <2>7. \A k \in 1 .. m - 1 : b.undone[k] = a.list[n + 1 - k]
    <3>1. \A k \in 1 .. m - 1 : k \in 1 .. m
      BY <2>2, OneLess
    <3>. QED
      BY <2>3, <2>4, <3>1
  <2>8. ~disturbed' => \A i \in 1 .. n - (m - 1) : a.list[i] \in Range(files'[a.root])
    <3>1. \A i \in 1 .. n - (m - 1) : i \in 1 .. n - m \/ i = n + 1 - m
      BY <2>2, OneLess
    <3>. QED
      BY <2>4, <2>6, <3>1 DEF p
  <2>9. \A i \in 1 .. n : i > n - (m - 1) => a.list[i] \notin Range(files'[a.root])
    <3>1. \A i \in 1 .. n : i > n - (m - 1) => i > n - m /\ i # n + 1 - m
      BY <2>2, OneLess
    <3>. QED
      BY <2>4, <2>5, <2>6, <3>1
  <2>. QED
    BY <2>1, <2>3, <2>7, <2>8, <2>9 DEF Undoing
<1>9. CASE MarkReverted
  <2>1. CASE Done("rpc")
    <3>1. pc'["rpc"] = "idle"
      BY <2>1, <1>0 DEF Done, With, Threads, ThreadTypes
    <3>. QED
      BY <3>1, <1>1
  <2>2. CASE a.list # << >> /\ With("rpc", "reverse", [a EXCEPT !.list = Tail(@), !.undone = Tail(@)])
    <3>1. /\ pc["rpc"] = "reverse" /\ pc'["rpc"] = "reverse" /\ b.list = Tail(a.list)
          /\ b.undone = Tail(a.undone) /\ b.root = a.root /\ UNCHANGED files /\ m = n
      BY <1>9, <2>2, <1>0 DEF MarkReverted, With, git, ArgType, Threads, ThreadTypes
    <3>2. /\ a.undone \in Seq(Patches) /\ a.undone # << >>
      BY <2>2, <3>1, <1>0, NextOfList, EmptySeq
    <3>3. /\ Len(b.list) = n - 1 /\ Len(b.undone) = n - 1 /\ n \in Nat
          /\ \A i \in 1 .. n - 1 : b.list[i] = a.list[i + 1]
      BY <2>2, <3>1, <3>2, <1>0, TailOne
    <3>4. /\ (n - 1) - (n - 1) = 0 /\ 1 .. 0 = {} /\ n - n = 0
          /\ \A i \in 1 .. n - 1 : i + 1 \in 1 .. n /\ i + 1 > 0
      BY <3>3
    <3>5. \A i \in 1 .. n : i > 0 => a.list[i] \notin Range(files[a.root])
      BY <3>1, <3>4, <1>0 DEF Undoing
    <3>6. \A i \in 1 .. n - 1 : b.list[i] \notin Range(files[a.root])
      BY <3>3, <3>4, <3>5
    <3>7. Len(b.list) - Len(b.undone) = 0 /\ ~(0 > 0)
      BY <3>3, <3>4
    <3>8. \A i \in 1 .. Len(b.list) : b.list[i] \notin Range(files'[b.root])
      BY <3>1, <3>3, <3>6
    <3>. QED
      BY <3>1, <3>7, <3>8 DEF Undoing
  <2>. QED
    BY <1>9, <2>1, <2>2, MarkRevertedMarks
<1>10. CASE UNCHANGED vars
  BY <1>10, <1>0 DEF vars, Undoing
<1>. QED
  BY <1>1, <1>2, <1>3, <1>4, <1>5, <1>6, <1>7, <1>8, <1>9, <1>10 DEF Next, OfTask, Reverting

LEMMA GoneStep ==
  ASSUME IInv, [Next]_vars
  PROVE  Gone'
<1>0. TypeOK /\ Gone /\ Placed /\ patch \in [Patches -> PatchType]
  BY DEF IInv, TypeOK
<1>1. CASE UNCHANGED <<patch, files>>
  BY <1>1, <1>0 DEF Gone
<1>2. CASE OfTask
  <2>1. \A p \in Patches : patch'[p].status = "reverted" => patch[p].status \in {"applied", "reverted"}
    <3>1. CASE ApplyPatch
      BY <3>1, ApplyPatchMakes
    <3>2. CASE RecordPatch
      <4>1. arg["task"].patch \in Patches
        BY <3>2 DEF RecordPatch, IInv, AtTask
      <4>. QED
        BY <3>2, <4>1, <1>0 DEF RecordPatch
    <3>3. CASE ~ApplyPatch /\ ~RecordPatch
      <4>1. UNCHANGED patch
        BY <1>2, <3>3 DEF OfTask, Binding, StartTask, StartFails, CreateWorktree, ActivateWorktree,
           RouteTask, Writing, Write, WriteUnbound, ResolveRoot, RunCommand, EndTask, OutsideEdit
      <4>. QED
        BY <4>1
    <3>. QED
      BY <3>1, <3>2, <3>3
  <2>2. \A p \in Patches : patch[p].status \in {"applied", "reverted"} => patch[p].at \in Roots
    BY <1>0 DEF PatchType
  <2>. QED
    BY <1>2, <2>1, <2>2, <1>0, TaskLeaves DEF Gone
<1>3. CASE MergeOk
  <2>1. UNCHANGED patch /\ \A p \in Patches : patch[p].at \in Roots
    BY <1>3, <1>0 DEF MergeOk, PatchType
  <2>. QED
    BY <1>3, <2>1, <1>0, MergeBrings DEF Gone, Placed, Roots
<1>4. CASE GitRemoves
  <2>1. UNCHANGED patch /\ \A p \in Patches : patch[p].at \in Roots
    BY <1>4, <1>0 DEF GitRemoves, PatchType
  <2>. QED
    BY <1>4, <2>1, <1>0, CleanupTakes DEF Gone, Roots
<1>5. CASE ReversePatch
  <2>1. UNCHANGED patch /\ \A p \in Patches : patch[p].at \in Roots
    BY <1>5, <1>0 DEF ReversePatch, PatchType
  <2>. QED
    BY <1>5, <2>1, <1>0, ReverseTakes DEF Gone
<1>6. CASE RollBack
  <2> DEFINE p == arg["rpc"].list[Len(arg["rpc"].list) + 1 - Len(arg["rpc"].undone)]
  <2>1. UNCHANGED patch /\ \A q \in Patches : patch[q].at \in Roots
    BY <1>6, <1>0 DEF RollBack, PatchType
  <2>2. patch[p].status = "applied" /\ \A q \in Roots : Range(files'[q]) \subseteq Range(files[q]) \cup {p}
    BY <1>6, RollBackPutsBack, NextOfList DEF RollBack
  <2> HIDE DEF p
  <2>. QED
    BY <2>1, <2>2, <1>0 DEF Gone
<1>7. CASE MarkReverted
  <2> DEFINE a == arg["rpc"]
             h == a.list[1]
  <2>1. UNCHANGED files /\ pc["rpc"] = "reverse"
    BY <1>7 DEF MarkReverted, git
  <2>2. CASE UNCHANGED patch
    BY <2>1, <2>2, <1>1
  <2>3. CASE /\ 1 \in 1 .. Len(a.list) /\ Len(a.undone) = Len(a.list)
             /\ \A q \in Patches : patch'[q] = IF q = h THEN [patch[q] EXCEPT !.status = "reverted"] ELSE patch[q]
    <3>1. Len(a.list) \in Nat /\ patch[h].at = a.root
      BY <2>1, <2>3, NextOfList
    <3>2. 1 > Len(a.list) - Len(a.list)
      BY <3>1
    <3>3. h \notin Range(files[a.root])
      BY <2>1, <2>3, <3>2 DEF IInv, Undoing
    <3>4. \A q \in Patches : patch'[q].at = patch[q].at /\ (q # h => patch'[q] = patch[q])
      BY <2>3, <1>0 DEF PatchType
    <3> HIDE DEF h
    <3>. QED
      BY <2>1, <3>1, <3>3, <3>4, <1>0 DEF Gone
  <2>. QED
    BY <1>7, <2>2, <2>3, MarkRevertedMarks
<1>8. CASE Merging /\ ~MergeOk
  BY <1>8, <1>1 DEF Merging, RequestMerge, VerificationFails, AskMerge, SubmitApproval,
     MergeRequested,
     MergeCheck, MergeConflicts, CheckoutFails, RecordMerge, git
<1>9. CASE Cleaning /\ ~GitRemoves
  BY <1>9, <1>1 DEF Cleaning, Cleanup, RecordCleaned, git
<1>10. CASE StartRevert \/ SimulateRevert \/ ReverseFails \/ ReverseTimesOut \/ RevertFailed \/ Crash
  BY <1>10, <1>1 DEF StartRevert, SimulateRevert, ReverseFails, ReverseTimesOut, RevertFailed,
     Crash, git
<1>11. CASE UNCHANGED vars
  BY <1>11, <1>1 DEF vars
<1>. QED
  BY <1>2, <1>3, <1>4, <1>5, <1>6, <1>7, <1>8, <1>9, <1>10, <1>11 DEF Next, OfTask, Reverting

\* What a patch needs to be among those that are kept.
Binds(p) ==
  /\ patch[p].status \in {"approved", "applied"} /\ patch[p].at = "worktree"
  /\ ~forced /\ ~disturbed /\ crashes = 0
  /\ p \notin Range(arg["rpc"].list) \/ pc["rpc"] = "simulate"

Holds(p) == IF dir THEN p \in Range(files["worktree"]) ELSE p \in head

\* No worktree is added while there are patches in one.
LEMMA AddsNone ==
  ASSUME IInv, StartTask \/ (\E p \in Patches : Write(p)), dir' # dir
  PROVE  \A p \in Patches : patch[p].status # "none" => patch[p].at # "worktree"
<1>1. rec = "none"
  BY DEF StartTask, Write, IInv, AtTask, git
<1>. QED
  BY <1>1 DEF IInv, Placed

LEMMA KeptStep ==
  ASSUME IInv, [Next]_vars
  PROVE  Kept'
<1> DEFINE a == arg["rpc"]
           b == arg'["rpc"]
<1>0. /\ TypeOK /\ Placed /\ Listed /\ ThreadTypes /\ a \in ArgType
      /\ patch \in [Patches -> PatchType] /\ files \in [Roots -> Seq(Changes)]
      /\ forced \in BOOLEAN /\ disturbed \in BOOLEAN /\ crashes \in Nat /\ dir \in BOOLEAN
      /\ \A p \in Patches : Binds(p) => Holds(p)
      /\ (pc["rpc"] \notin InRevert => a.list = << >>)
  BY NoList, WorktreeAssumption DEF IInv, TypeOK, Kept, Binds, Holds, ThreadTypes, Threads
<1>1. SUFFICES ASSUME NEW p \in Patches, Binds(p)' PROVE Holds(p)'
  BY DEF Kept, Binds, Holds
<1>2. CASE UNCHANGED <<patch, files, head, dir>> /\ Binds(p)
  BY <1>2, <1>0 DEF Holds
<1>3. CASE UNCHANGED <<patch, forced, disturbed, crashes, pc["rpc"], a, dir>> /\ UNCHANGED <<files, head>>
  <2>1. Binds(p)
    BY <1>1, <1>3 DEF Binds
  <2>. QED
    BY <2>1, <1>2, <1>3
<1>4. CASE Binding
  <2>1. UNCHANGED <<patch, forced, disturbed, crashes, pc["rpc"], a, files, head>>
    BY <1>4, <1>0 DEF Binding, StartTask, StartFails, CreateWorktree, ActivateWorktree, RouteTask,
       GitAdds, Goes, git, rest, Threads, ThreadTypes
  <2>2. CASE UNCHANGED dir
    BY <2>1, <2>2, <1>3
  <2>3. CASE dir' # dir
    <3>1. StartTask
      BY <1>4, <2>3 DEF Binding, StartFails, CreateWorktree, ActivateWorktree, RouteTask, git
    <3>2. patch[p].status # "none" /\ patch[p].at = "worktree"
      BY <1>1, <2>1 DEF Binds
    <3>. QED
      BY <2>3, <3>1, <3>2, AddsNone
  <2>. QED
    BY <2>2, <2>3
<1>5. ASSUME NEW q \in Patches, Write(q) PROVE Holds(p)'
  <2>1. UNCHANGED <<patch, forced, disturbed, crashes, pc["rpc"], a, files, head>>
    BY <1>5, <1>0 DEF Write, GitAdds, With, git, rest, Threads, ThreadTypes
  <2>2. CASE UNCHANGED dir
    BY <2>1, <2>2, <1>3
  <2>3. CASE dir' # dir
    <3>1. patch[p].status # "none" /\ patch[p].at = "worktree"
      BY <1>1, <2>1 DEF Binds
    <3>. QED
      BY <1>5, <2>3, <3>1, AddsNone
  <2>. QED
    BY <2>2, <2>3
<1>6. CASE ResolveRoot \/ EndTask \/ (\E q \in Patches : WriteUnbound(q))
  <2>1. UNCHANGED <<patch, forced, disturbed, crashes, pc["rpc"], a, dir, files, head>>
    BY <1>6, <1>0 DEF ResolveRoot, EndTask, WriteUnbound, Goes, With, Done, git, rest, Threads,
       ThreadTypes
  <2>. QED
    BY <2>1, <1>3
<1>7. CASE ApplyPatch
  <2>1. UNCHANGED <<forced, disturbed, crashes, pc["rpc"], a, dir, head>>
    BY <1>7, <1>0 DEF ApplyPatch, Goes, Done, With, rest, Threads, ThreadTypes
  <2>2. CASE UNCHANGED <<patch, files>>
    BY <2>1, <2>2, <1>3
  <2>3. CASE p = arg["task"].patch /\ ~UNCHANGED <<patch, files>>
    <3> DEFINE r == arg["task"].root
    <3>1. Makes(p, r) /\ HasRoot(r) /\ patch'[p] = [status |-> "approved", at |-> r]
      BY <1>7, <2>3, ApplyPatchMakes
    <3>2. r = "worktree" /\ dir /\ dir'
      BY <1>1, <2>1, <3>1 DEF Binds, HasRoot
    <3>. QED
      BY <3>1, <3>2 DEF Makes, Holds, Roots
  <2>4. CASE p # arg["task"].patch /\ ~UNCHANGED <<patch, files>>
    <3>1. patch'[p] = patch[p]
          /\ \A q \in Roots : Range(files[q]) \subseteq Range(files'[q])
      BY <1>7, <2>4, ApplyPatchMakes DEF Makes
    <3>2. Binds(p)
      BY <1>1, <2>1, <3>1 DEF Binds
    <3>. QED
      BY <1>0, <2>1, <3>1, <3>2 DEF Holds, Roots
  <2>. QED
    BY <2>2, <2>3, <2>4
<1>8. CASE RecordPatch
  <2>1. UNCHANGED <<forced, disturbed, crashes, pc["rpc"], a, dir, head, files>>
    BY <1>8, <1>0 DEF RecordPatch, Done, With, git, rest, Threads, ThreadTypes
  <2>2. patch'[p].at = patch[p].at /\ (patch'[p].status # patch[p].status => patch[p].status = "approved")
    <3>1. arg["task"].patch \in Patches /\ patch[arg["task"].patch].status = "approved"
      BY <1>8 DEF RecordPatch, IInv, AtTask
    <3>. QED
      BY <1>8, <3>1, <1>0 DEF RecordPatch, PatchType
  <2>3. Binds(p)
    BY <1>1, <2>1, <2>2 DEF Binds
  <2>. QED
    BY <2>1, <2>3, <1>0 DEF Holds
<1>9. ASSUME NEW c \in Commands, RunCommand(c) PROVE Holds(p)'
  <2>1. UNCHANGED <<patch, forced, disturbed, crashes, pc["rpc"], a, dir>>
    BY <1>9 DEF RunCommand
  <2>2. Binds(p)
    BY <1>1, <2>1 DEF Binds
  <2>3. Root = "worktree" => dir
    BY <1>9 DEF RunCommand, HasRoot
  <2>4. Range(files["worktree"]) \subseteq Range(files'["worktree"])
        /\ (head' = head \/ Root = "worktree")
    BY <1>9, RunCommandMakes DEF Makes, Roots
  <2>. QED
    BY <1>0, <2>1, <2>2, <2>3, <2>4 DEF Holds
<1>10. ASSUME NEW x \in OutsideEdits, NEW r \in DOMAIN files, OutsideEdit(x, r) PROVE Holds(p)'
  <2>1. UNCHANGED <<patch, forced, disturbed, crashes, pc["rpc"], a, dir, head>>
    BY <1>10 DEF OutsideEdit
  <2>2. Binds(p)
    BY <1>1, <2>1 DEF Binds
  <2>3. Range(files["worktree"]) \subseteq Range(files'["worktree"])
    BY <1>10, OutsideEditMakes DEF Makes, Roots
  <2>. QED
    BY <1>0, <2>1, <2>2, <2>3 DEF Holds
<1>11. CASE Merging
  <2>1. UNCHANGED <<patch, forced, disturbed, crashes, dir, head>> /\ a.list = << >>
    BY <1>11, <1>0 DEF Merging, RequestMerge, VerificationFails, AskMerge, SubmitApproval,
       MergeRequested,
       MergeCheck, MergeOk, MergeConflicts, CheckoutFails, RecordMerge, git, rest, InRevert
  <2>2. UNCHANGED files \/ files'["worktree"] = files["worktree"]
    BY <1>11, MergeBrings DEF Merging, RequestMerge, VerificationFails, AskMerge, SubmitApproval,
       MergeRequested, MergeCheck, MergeConflicts, CheckoutFails, RecordMerge, git
  <2>3. Binds(p)
    BY <1>1, <2>1, EmptySeq DEF Binds, Range
  <2>. QED
    BY <2>1, <2>2, <2>3, <1>0 DEF Holds
<1>12. CASE Cleaning
  <2>1. /\ UNCHANGED <<patch, disturbed, crashes, head>> /\ a.list = << >>
        /\ \/ UNCHANGED <<files, dir, forced>>
           \/ dir /\ ~dir' /\ (forced' \/ (forced' = forced /\ Clean))
    BY <1>12, <1>0, CleanupTakes DEF Cleaning, Cleanup, GitRemoves, RecordCleaned, git, rest,
       InRevert
  <2>2. Binds(p)
    BY <1>1, <2>1, EmptySeq DEF Binds, Range
  <2>. QED
    BY <1>1, <2>1, <2>2, <1>0 DEF Holds, Clean, Binds
<1>13. CASE Reverting
  <2>1. UNCHANGED <<forced, crashes, head, dir>>
    BY <1>13 DEF Reverting, StartRevert, SimulateRevert, ReversePatch, ReverseFails,
       ReverseTimesOut,
       RollBack, RevertFailed, MarkReverted, git, rest
  <2>2. CASE StartRevert \/ SimulateRevert
    <3>1. UNCHANGED <<patch, files, disturbed>>
      BY <2>2 DEF StartRevert, SimulateRevert, git, rest
    <3>2. a.list = << >> \/ pc["rpc"] = "simulate"
      BY <2>2, <1>0 DEF StartRevert, SimulateRevert, InRevert
    <3>3. Binds(p)
      BY <1>1, <2>1, <3>1, <3>2, EmptySeq DEF Binds, Range
    <3>. QED
      BY <2>1, <3>1, <3>3, <1>2
  <2>3. CASE ReversePatch
    <3>1. /\ UNCHANGED <<patch, disturbed>> /\ b.list = a.list /\ pc["rpc"] = "reverse"
          /\ pc'["rpc"] = "reverse"
      BY <2>3, <1>0 DEF ReversePatch, With, rest, ArgType, Threads, ThreadTypes
    <3>2. Binds(p) /\ p \notin Range(a.list)
      BY <1>1, <2>1, <3>1 DEF Binds
    <3>3. \A q \in Roots : Range(files[q]) \subseteq Range(files'[q]) \cup Range(a.list)
      BY <2>3, <3>1, ReverseTakes, NextOfList
    <3>. QED
      BY <2>1, <3>2, <3>3, <1>0 DEF Holds, Roots
  <2>4. CASE ReverseFails
    <3>1. UNCHANGED <<patch, files, disturbed, a>> /\ pc'["rpc"] = "rollback"
      BY <2>4, <1>0 DEF ReverseFails, Goes, git, rest, Threads, ThreadTypes
    <3>2. Binds(p)
      BY <1>1, <2>1, <3>1 DEF Binds
    <3>. QED
      BY <2>1, <3>1, <3>2, <1>2
  <2>5. CASE ReverseTimesOut
    BY <1>1, <2>5 DEF ReverseTimesOut, Binds
  <2>6. CASE RollBack
    <3>1. /\ UNCHANGED patch /\ b.list = a.list /\ pc["rpc"] = "rollback" /\ pc'["rpc"] = "rollback"
      BY <2>6, <1>0 DEF RollBack, With, ArgType, Threads, ThreadTypes
    <3>2. Binds(p)
      <4>1. disturbed' \/ UNCHANGED disturbed
        BY <2>6, RollBackPutsBack
      <4>. QED
        BY <1>1, <2>1, <3>1, <4>1 DEF Binds
    <3>3. \A q \in Roots : Range(files[q]) \subseteq Range(files'[q])
      BY <2>6, RollBackPutsBack
    <3>. QED
      BY <2>1, <3>2, <3>3, <1>0 DEF Holds, Roots
  <2>7. CASE RevertFailed
    <3>1. /\ UNCHANGED <<patch, files, disturbed>> /\ pc["rpc"] = "rollback" /\ a.undone = << >>
      BY <2>7, <1>0 DEF RevertFailed, git, rest
    <3>2. CASE p \notin Range(a.list)
      <4>1. Binds(p)
        BY <1>1, <2>1, <3>1, <3>2 DEF Binds
      <4>. QED
        BY <2>1, <3>1, <4>1, <1>2
    <3>3. CASE p \in Range(a.list)
      <4>1. /\ Len(a.list) \in Nat /\ Len(a.undone) = 0 /\ DOMAIN a.list = 1 .. Len(a.list)
        BY <3>1, NextOfList, EmptySeq
      <4>2. Len(a.list) - Len(a.undone) = Len(a.list)
        BY <4>1
      <4>3. ~disturbed
        BY <1>1, <3>1 DEF Binds
      <4>4. \A i \in 1 .. Len(a.list) : a.list[i] \in Range(files[a.root])
        BY <3>1, <4>2, <4>3 DEF IInv, Undoing
      <4>5. p \in Range(files[a.root])
        BY <3>3, <4>1, <4>4 DEF Range
      <4>6. a.root = "worktree"
        BY <1>1, <3>1, <3>3, <1>0 DEF Listed, Binds
      <4>7. dir
        BY <3>1, <4>6, <1>0 DEF Listed, HasRoot
      <4>. QED
        BY <2>1, <3>1, <4>5, <4>6, <4>7 DEF Holds
    <3>. QED
      BY <3>2, <3>3
  <2>8. CASE MarkReverted
    <3>1. UNCHANGED <<files, disturbed>> /\ pc["rpc"] = "reverse"
      BY <2>8 DEF MarkReverted, git, rest
    <3>2. CASE a.list = << >> /\ UNCHANGED patch
      <4>1. Binds(p)
        BY <1>1, <2>1, <3>1, <3>2, EmptySeq DEF Binds, Range
      <4>. QED
        BY <2>1, <3>1, <3>2, <4>1, <1>2
    <3>3. CASE /\ a.list # << >>
               /\ With("rpc", "reverse", [a EXCEPT !.list = Tail(@), !.undone = Tail(@)])
               /\ \A q \in Patches : patch'[q] = IF q = a.list[1] THEN [patch[q] EXCEPT !.status = "reverted"]
                                                 ELSE patch[q]
      <4>1. b.list = Tail(a.list) /\ pc'["rpc"] = "reverse"
        BY <3>3, <1>0 DEF With, ArgType, Threads, ThreadTypes
      <4>2. Range(b.list) = Range(a.list) \ {a.list[1]}
        BY <3>1, <3>3, <4>1, <1>0, TailOne, NextOfList DEF Listed
      <4>3. p # a.list[1]
        BY <1>1, <3>3, <1>0 DEF Binds, PatchType
      <4>4. patch'[p] = patch[p] /\ p \notin Range(a.list)
        BY <1>1, <3>3, <4>1, <4>2, <4>3 DEF Binds
      <4>5. Binds(p)
        BY <1>1, <2>1, <3>1, <4>4 DEF Binds
      <4>. QED
        BY <2>1, <3>1, <4>5, <1>0 DEF Holds
    <3>. QED
      BY <2>8, <3>2, <3>3, MarkRevertedMarks
  <2>. QED
    BY <1>13, <2>2, <2>3, <2>4, <2>5, <2>6, <2>7, <2>8 DEF Reverting
<1>14. CASE Crash
  <2>1. crashes' # 0
    BY <1>14, <1>0 DEF Crash
  <2>. QED
    BY <1>1, <2>1 DEF Binds
<1>15. CASE UNCHANGED vars
  BY <1>15, <1>3 DEF vars
<1>. QED
  BY <1>4, <1>5, <1>6, <1>7, <1>8, <1>9, <1>10, <1>11, <1>12, <1>13, <1>14, <1>15 DEF Next, Writing

\* An approval that was given stands: its request is not replaced and nobody decides
\* it again.
LEMMA ApprovalStands ==
  ASSUME IInv, [Next]_vars
  PROVE  /\ Len(approvals) \in Nat /\ Len(approvals) <= Len(approvals')
         /\ \A i \in 1 .. Len(approvals) : approvals[i].decision = "approved" => approvals'[i] = approvals[i]
         /\ policy' = policy
<1>0. /\ approvals \in Seq(ApprovalType) /\ Len(approvals) \in Nat /\ DOMAIN approvals = 1 .. Len(approvals)
  BY LenProperties DEF IInv, TypeOK
<1>1. CASE UNCHANGED <<approvals, policy>>
  BY <1>0, <1>1
<1>2. CASE OfTask
  BY <1>1, <1>2, TaskLeaves
<1>3. CASE AskMerge
  <2>1. UNCHANGED policy
    BY <1>3 DEF AskMerge, binding
  <2>2. \/ \E x : approvals' = Append(approvals, x)
        \/ \E open : /\ \A i \in open : approvals[i].decision = "none"
                     /\ \E x : approvals' = [i \in DOMAIN approvals |-> IF i \in open THEN x ELSE approvals[i]]
    BY <1>3 DEF AskMerge
  <2>3. CASE \E x : approvals' = Append(approvals, x)
    <3>1. approvals' \in Seq(ApprovalType)
      BY <1>3, DataStep DEF DataTypes
    <3>2. PICK x : approvals' = Append(approvals, x)
      BY <2>3
    <3>3. Len(approvals') = Len(approvals) + 1
          /\ \A i \in 1 .. Len(approvals) : approvals'[i] = approvals[i]
      BY <1>0, <3>2, AppendStands
    <3>. QED
      BY <1>0, <2>1, <3>3
  <2>4. ASSUME NEW open, \A i \in open : approvals[i].decision = "none", NEW x,
               approvals' = [i \in DOMAIN approvals |-> IF i \in open THEN x ELSE approvals[i]]
        PROVE  /\ Len(approvals') = Len(approvals)
               /\ \A i \in 1 .. Len(approvals) :
                    approvals[i].decision = "approved" => approvals'[i] = approvals[i]
    <3>1. approvals' \in Seq(ApprovalType) /\ DOMAIN approvals' = 1 .. Len(approvals)
      BY <1>0, <1>3, <2>4, DataStep DEF DataTypes
    <3>2. Len(approvals') = Len(approvals)
      BY <1>0, <3>1, LenProperties
    <3>. QED
      BY <1>0, <2>4, <3>2
  <2>. QED
    BY <1>0, <2>1, <2>2, <2>3, <2>4
<1>4. ASSUME NEW i \in 1 .. MaxApprovals, NEW d \in {"approved", "rejected"}, NEW paused \in BOOLEAN,
             SubmitApproval(i, d, paused)
      PROVE  UNCHANGED policy /\ Len(approvals') = Len(approvals)
             /\ \A j \in 1 .. Len(approvals) : approvals[j].decision = "approved" => approvals'[j] = approvals[j]
  <2>1. /\ approvals' = [approvals EXCEPT ![i] = [@ EXCEPT !.decision = d]] /\ UNCHANGED policy
        /\ approvals[i].decision = "none"
    BY <1>4 DEF SubmitApproval, binding
  <2>2. Len(approvals') = Len(approvals)
    <3>1. approvals' \in Seq(ApprovalType) /\ DOMAIN approvals' = 1 .. Len(approvals)
      BY <1>0, <1>4, <2>1, DataStep DEF DataTypes, Next, Merging
    <3>. QED
      BY <1>0, <3>1, LenProperties
  <2>. QED
    BY <1>0, <2>1, <2>2
<1>5. CASE Merging
  <2>1. CASE \E i \in 1 .. MaxApprovals : \E d \in {"approved", "rejected"} : \E paused \in BOOLEAN :
               SubmitApproval(i, d, paused)
    BY <1>0, <1>4, <2>1
  <2>2. CASE ~AskMerge /\ ~\E i \in 1 .. MaxApprovals : \E d \in {"approved", "rejected"} :
               \E paused \in BOOLEAN : SubmitApproval(i, d, paused)
    <3>1. UNCHANGED <<approvals, policy>>
      BY <1>5, <2>2, ZenonT(40) DEF Merging, RequestMerge, VerificationFails, MergeRequested, MergeCheck,
         MergeOk,
         MergeConflicts, CheckoutFails, RecordMerge, binding
    <3>. QED
      BY <3>1, <1>1
  <2>. QED
    BY <1>3, <2>1, <2>2
<1>6. CASE Cleaning \/ Reverting \/ Crash
  BY <1>6, <1>1 DEF Cleaning, Cleanup, GitRemoves, RecordCleaned, Reverting, StartRevert,
     SimulateRevert,
     ReversePatch, ReverseFails, ReverseTimesOut, RollBack, RevertFailed, MarkReverted, Crash, binding
<1>7. CASE UNCHANGED vars
  BY <1>7, <1>1 DEF vars
<1>. QED
  BY <1>2, <1>5, <1>6, <1>7 DEF Next, OfTask

LEMMA AimedStep ==
  ASSUME IInv, [Next]_vars
  PROVE  Aimed'
<1> DEFINE a == arg["rpc"]
           b == arg'["rpc"]
           Wants == {"verify", "merge", "merged", "conflict", "remove", "removed"}
<1>0. /\ ThreadTypes /\ Aimed /\ a \in ArgType /\ Len(approvals) \in Nat
      /\ Len(approvals') \in Nat /\ Len(approvals) <= Len(approvals')
      /\ DOMAIN approvals = 1 .. Len(approvals)
  <2>1. approvals \in Seq(ApprovalType) /\ approvals' \in Seq(ApprovalType)
    BY DataStep DEF IInv, TypeOK, DataTypes
  <2>. QED
    BY <2>1, ApprovalStands, LenProperties DEF IInv, TypeOK, ThreadTypes, Threads
<1>1. ASSUME pc'["rpc"] \in Wants => rec' # "none", b.approval \in Nat, b.approval <= Len(approvals),
             pc'["rpc"] \in {"verify", "check", "merge"} => b.target \in Targets
      PROVE  Aimed'
  BY <1>0, <1>1 DEF Aimed
<1>2. CASE UNCHANGED <<pc["rpc"], a>> /\ (rec # "none" => rec' # "none")
  BY <1>0, <1>2 DEF Aimed, ArgType
<1>3. CASE OfTask
  BY <1>2, <1>3, TaskLeaves
<1>4. CASE Done("rpc")
  <2>1. pc'["rpc"] = "idle" /\ b.approval = 0
    BY <1>0, <1>4 DEF Done, With, Idle, Threads, ThreadTypes
  <2>. QED
    BY <1>0, <2>1 DEF Aimed
<1>5. ASSUME NEW l \in {"check", "verify", "remove", "simulate"}, NEW new, With("rpc", l, new),
             new.approval \in Nat, new.approval <= Len(approvals),
             l \in {"check", "verify"} => new.target \in Targets, l \in {"verify", "remove"} => rec' # "none"
      PROVE  Aimed'
  <2>1. pc'["rpc"] = l /\ b = new
    BY <1>0, <1>5 DEF With, Threads, ThreadTypes
  <2>. QED
    BY <1>0, <1>5, <2>1 DEF Aimed
<1>6. CASE Merging
  <2>1. ASSUME NEW t \in Targets, NEW v \in Reviews, RequestMerge(t, v) PROVE Aimed'
    <3> DEFINE new == [Idle EXCEPT !.target = t, !.review = v]
    <3>1. new.approval = 0 /\ new.target = t
      BY DEF Idle
    <3>2. With("rpc", "verify", new) /\ rec' # "none"
      BY <2>1 DEF RequestMerge
    <3> HIDE DEF new
    <3>. QED
      BY <1>0, <1>5, <3>1, <3>2
  <2>2. ASSUME NEW i \in 1 .. MaxApprovals, NEW d \in {"approved", "rejected"}, NEW paused \in BOOLEAN,
               SubmitApproval(i, d, paused)
        PROVE  Aimed'
    <3> DEFINE new == [Idle EXCEPT !.approval = i, !.target = approvals[i].target]
    <3>1. i \in 1 .. Len(approvals) /\ approvals[i].target \in Targets
      <4>1. i \in 1 .. Len(approvals) /\ approvals \in Seq(ApprovalType)
        BY <1>0, <2>2 DEF SubmitApproval, IInv, TypeOK
      <4>2. approvals[i] \in ApprovalType
        BY <4>1, ElementOfSeq
      <4>. QED
        BY <4>1, <4>2 DEF ApprovalType
    <3>2. new.approval = i /\ new.target \in Targets
      BY <3>1 DEF Idle
    <3>3. With("rpc", "check", new) \/ Done("rpc")
      BY <2>2 DEF SubmitApproval
    <3> HIDE DEF new
    <3>4. new.approval \in Nat /\ new.approval <= Len(approvals)
      BY <1>0, <3>1, <3>2
    <3>. QED
      BY <1>4, <1>5, <3>2, <3>3, <3>4
  <2>3. ASSUME NEW t \in Targets, NEW i \in 0 .. MaxApprovals, MergeRequested(i, t) PROVE Aimed'
    <3> DEFINE new == [Idle EXCEPT !.approval = i, !.target = t]
    <3>1. new.approval = i /\ new.target = t /\ i \in 0 .. Len(approvals)
      BY <2>3 DEF Idle, MergeRequested
    <3>2. With("rpc", "check", new)
      BY <2>3 DEF MergeRequested
    <3> HIDE DEF new
    <3>3. new.approval \in Nat /\ new.approval <= Len(approvals)
      BY <1>0, <3>1
    <3>. QED
      BY <1>5, <3>1, <3>2, <3>3
  <2>4. CASE MergeCheck
    <3>1. CASE MergeAllowed
      <4>1. pc["rpc"] = "check" /\ pc'["rpc"] = "merge" /\ b = a /\ rec # "none" /\ rec' = rec
        BY <1>0, <2>4, <3>1 DEF MergeCheck, MergeAllowed, Goes, Threads, ThreadTypes
      <4>. QED
        BY <1>0, <4>1 DEF Aimed, ArgType
    <3>2. CASE ~MergeAllowed
      BY <1>4, <2>4, <3>2 DEF MergeCheck
    <3>. QED
      BY <3>1, <3>2
  <2>5. CASE MergeOk \/ MergeConflicts
    <3>1. /\ pc["rpc"] = "merge" /\ pc'["rpc"] \in {"merged", "conflict"} /\ b = a /\ rec' = rec
      BY <1>0, <2>5 DEF MergeOk, MergeConflicts, Goes, Threads, ThreadTypes
    <3>. QED
      BY <1>0, <3>1 DEF Aimed, ArgType
  <2>6. CASE VerificationFails \/ AskMerge \/ CheckoutFails \/ RecordMerge
    BY <1>4, <2>6 DEF VerificationFails, AskMerge, CheckoutFails, RecordMerge
  <2>. QED
    BY <1>6, <2>1, <2>2, <2>3, <2>4, <2>5, <2>6 DEF Merging
<1>7. CASE Cleaning
  <2>1. ASSUME NEW force \in BOOLEAN, Cleanup(force) PROVE Aimed'
    <3> DEFINE new == [Idle EXCEPT !.force = force]
    <3>1. new.approval = 0
      BY DEF Idle
    <3>2. With("rpc", "remove", new) /\ rec' # "none"
      BY <2>1 DEF Cleanup
    <3> HIDE DEF new
    <3>. QED
      BY <1>0, <1>5, <3>1, <3>2
  <2>2. CASE GitRemoves
    <3>1. CASE Done("rpc")
      BY <1>4, <3>1
    <3>2. CASE Goes("rpc", "removed")
      <4>1. pc["rpc"] = "remove" /\ pc'["rpc"] = "removed" /\ b = a /\ rec' = rec
        BY <1>0, <2>2, <3>2 DEF GitRemoves, Goes, Threads, ThreadTypes
      <4>. QED
        BY <1>0, <4>1 DEF Aimed, ArgType
    <3>. QED
      BY <2>2, <3>1, <3>2 DEF GitRemoves
  <2>3. CASE RecordCleaned
    BY <1>4, <2>3 DEF RecordCleaned
  <2>. QED
    BY <1>7, <2>1, <2>2, <2>3 DEF Cleaning
<1>8. CASE Reverting
  <2>1. CASE StartRevert
    <3>1. PICK list : With("rpc", "simulate",
                           [Idle EXCEPT !.root = IF routed THEN "worktree" ELSE "workspace", !.list = list])
      BY <2>1 DEF StartRevert
    <3> DEFINE new == [Idle EXCEPT !.root = IF routed THEN "worktree" ELSE "workspace", !.list = list]
    <3>2. new.approval = 0
      BY DEF Idle
    <3>3. With("rpc", "simulate", new)
      BY <3>1
    <3> HIDE DEF new
    <3>. QED
      BY <1>0, <1>5, <3>2, <3>3
  <2>2. CASE SimulateRevert \/ ReversePatch \/ ReverseFails \/ RollBack \/ MarkReverted
    <3>1. \/ Done("rpc")
          \/ pc'["rpc"] \in {"reverse", "rollback"} /\ b.approval = a.approval
      <4>1. CASE SimulateRevert
        BY <1>0, <4>1 DEF SimulateRevert, With, Threads, ThreadTypes, ArgType
      <4>2. CASE ReversePatch
        BY <1>0, <4>2 DEF ReversePatch, With, Threads, ThreadTypes, ArgType
      <4>3. CASE ReverseFails
        BY <1>0, <4>3 DEF ReverseFails, Goes, Threads, ThreadTypes
      <4>4. CASE RollBack
        BY <1>0, <4>4 DEF RollBack, With, Threads, ThreadTypes, ArgType
      <4>5. CASE MarkReverted
        <5>1. Done("rpc") \/ With("rpc", "reverse", [a EXCEPT !.list = Tail(@), !.undone = Tail(@)])
          BY <4>5, MarkRevertedMarks
        <5>2. CASE With("rpc", "reverse", [a EXCEPT !.list = Tail(@), !.undone = Tail(@)])
          BY <1>0, <5>2 DEF With, Threads, ThreadTypes, ArgType
        <5>. QED
          BY <5>1, <5>2
      <4>. QED
        BY <2>2, <4>1, <4>2, <4>3, <4>4, <4>5
    <3>2. a.approval \in Nat /\ a.approval <= Len(approvals)
      BY <1>0 DEF Aimed, ArgType
    <3>. QED
      BY <1>1, <1>4, <3>1, <3>2
  <2>3. CASE ReverseTimesOut \/ RevertFailed
    BY <1>4, <2>3 DEF ReverseTimesOut, RevertFailed
  <2>. QED
    BY <1>8, <2>1, <2>2, <2>3 DEF Reverting
<1>9. CASE Crash
  <2>1. pc'["rpc"] = "idle" /\ b.approval = 0
    BY <1>0, <1>9 DEF Crash, Idle, Threads, ThreadTypes
  <2>. QED
    BY <1>0, <2>1 DEF Aimed
<1>10. CASE UNCHANGED vars
  BY <1>2, <1>10 DEF vars
<1>. QED
  BY <1>3, <1>6, <1>7, <1>8, <1>9, <1>10 DEF Next, OfTask

LEMMA AllowedStep ==
  ASSUME IInv, [Next]_vars
  PROVE  Allowed'
<1>0. ThreadTypes /\ Allowed /\ Aimed /\ Aimed' /\ arg["rpc"] \in ArgType
  BY AimedStep DEF IInv, TypeOK, ThreadTypes, Threads
<1>1. CASE pc'["rpc"] # "merge"
  BY <1>1 DEF Allowed
<1>2. CASE OfTask \/ UNCHANGED vars
  <2>1. UNCHANGED <<pc["rpc"], arg["rpc"], approvals, policy>>
    BY <1>2, TaskLeaves DEF vars
  <2>. QED
    BY <1>0, <2>1 DEF Allowed, Approved
<1>3. CASE MergeCheck
  <2>1. CASE MergeAllowed
    <3>1. UNCHANGED <<arg, approvals, policy>>
      BY <1>3, <2>1 DEF MergeCheck, Goes, binding
    <3>. QED
      BY <2>1, <3>1 DEF MergeAllowed, Allowed, Approved
  <2>2. CASE ~MergeAllowed
    <3>1. pc'["rpc"] = "idle"
      BY <1>3, <2>2, <1>0 DEF MergeCheck, Done, With, Threads, ThreadTypes
    <3>. QED
      BY <3>1, <1>1
  <2>. QED
    BY <2>1, <2>2
<1>4. CASE (Merging /\ ~MergeCheck) \/ Cleaning \/ Reverting \/ Crash
  <2>1. CASE Merging /\ ~MergeCheck
    BY <2>1, <1>0, <1>1 DEF Merging, RequestMerge, VerificationFails, AskMerge, SubmitApproval,
       MergeRequested,
       MergeOk, MergeConflicts, CheckoutFails, RecordMerge, Goes, With, Done, Threads, ThreadTypes
  <2>2. CASE Cleaning \/ Crash
    BY <2>2, <1>0, <1>1 DEF Cleaning, Cleanup, GitRemoves, RecordCleaned, Crash,
       Goes, With, Done, Threads, ThreadTypes
  <2>3. CASE Reverting
    BY <2>3, <1>0, <1>1 DEF Reverting, StartRevert, SimulateRevert, ReversePatch, ReverseFails,
       ReverseTimesOut, RollBack, RevertFailed, MarkReverted, Goes, With, Done, Threads, ThreadTypes
  <2>. QED
    BY <1>4, <2>1, <2>2, <2>3
<1>. QED
  BY <1>2, <1>3, <1>4 DEF Next, OfTask

LEMMA AuthorisedStep ==
  ASSUME IInv, [Next]_vars
  PROVE  MergeAuthorised'
<1>0. /\ MergeAuthorised /\ Allowed /\ Aimed /\ arg["rpc"] \in ArgType
      /\ \A m \in merges : m.approval \in Nat
      /\ approvals \in Seq(ApprovalType) /\ approvals' \in Seq(ApprovalType)
  BY DataStep DEF IInv, TypeOK, DataTypes, Threads
<1>1. /\ DOMAIN approvals = 1 .. Len(approvals) /\ DOMAIN approvals' = 1 .. Len(approvals')
      /\ \A i \in 1 .. Len(approvals) : i \in 1 .. Len(approvals')
  BY <1>0, ApprovalStands, LenProperties
<1>2. \A m \in merges' : m \in merges \/ (MergeOk /\ m = [target |-> arg["rpc"].target, approval |-> arg["rpc"].approval])
  <2>1. CASE MergeOk
    BY <2>1 DEF MergeOk
  <2>2. CASE ~MergeOk
    <3>1. CASE OfTask
      BY <3>1, TaskLeaves
    <3>2. CASE Merging
      BY <2>2, <3>2, ZenonT(40) DEF Merging, RequestMerge, VerificationFails, AskMerge, SubmitApproval,
         MergeRequested,
         MergeCheck, MergeConflicts, CheckoutFails, RecordMerge
    <3>3. CASE Cleaning \/ Reverting \/ Crash
      BY <3>3 DEF Cleaning, Cleanup, GitRemoves, RecordCleaned, Reverting, StartRevert,
         SimulateRevert,
         ReversePatch, ReverseFails, ReverseTimesOut, RollBack, RevertFailed, MarkReverted, Crash
    <3>4. CASE UNCHANGED vars
      BY <3>4 DEF vars
    <3>. QED
      BY <3>1, <3>2, <3>3, <3>4 DEF Next, OfTask
  <2>. QED
    BY <2>1, <2>2
<1>3. SUFFICES ASSUME NEW m \in merges', policy = "approval_required"
               PROVE  /\ m.approval \in 1 .. Len(approvals) /\ approvals[m.approval].decision = "approved"
                      /\ approvals[m.approval].target = m.target /\ approvals[m.approval].review # "rejected"
  BY <1>1, ApprovalStands DEF MergeAuthorised
<1>4. CASE m \in merges
  BY <1>0, <1>1, <1>3, <1>4 DEF MergeAuthorised
<1>5. CASE MergeOk /\ m = [target |-> arg["rpc"].target, approval |-> arg["rpc"].approval]
  <2>1. Approved(arg["rpc"].approval, arg["rpc"].target)
    BY <1>0, <1>3, <1>5 DEF Allowed, MergeOk
  <2>2. arg["rpc"].approval \in 1 .. Len(approvals)
    BY <1>0, <2>1, ApprovalStands DEF Approved, Aimed, ArgType
  <2>. QED
    BY <1>5, <2>1, <2>2 DEF Approved
<1>. QED
  BY <1>2, <1>4, <1>5

-----------------------------------------------------------------------------
(* The invariant holds, and what follows from it. *)

LEMMA InitIInv == Init => IInv
<1> SUFFICES ASSUME Init PROVE IInv
  OBVIOUS
<1>1. /\ Range(<< >>) = {} /\ IsInjective(<< >>) /\ Len(<< >>) = 0
      /\ << >> \in Seq(Patches) /\ << >> \in Seq(Changes) /\ << >> \in Seq(ApprovalType)
  BY EmptySeq DEF Range, IsInjective
<1>2. /\ pc["task"] = "start" /\ pc["rpc"] = "idle" /\ arg["task"] = Idle /\ arg["rpc"] = Idle
      /\ \A r \in Roots : files[r] = << >>
      /\ \A p \in Patches : patch[p] = [status |-> "none", at |-> "workspace"]
  BY DEF Init, Threads, Roots
<1>3. ThreadTypes
  BY IdleType DEF Init, ThreadTypes, Threads, TaskLabels, RpcLabels
<1>4. DataTypes
  <2>1. patch \in [Patches -> PatchType] /\ files \in [Roots -> Seq(Changes)]
    BY <1>1 DEF Init, PatchType, Roots
  <2>2. bind \subseteq {"required", "preferred"} /\ policy \in {"approval_required", "auto_merge", "manual_only"}
        /\ crashes \in 0 .. MaxCrashes
    BY WorktreeAssumption DEF Init
  <2>3. approvals \in Seq(ApprovalType) /\ Len(approvals) <= MaxApprovals
    BY <1>1, WorktreeAssumption DEF Init
  <2>. QED
    BY <2>1, <2>2, <2>3 DEF Init, DataTypes
<1>5. TypeOK
  BY <1>3, <1>4 DEF TypeOK, ThreadTypes, DataTypes
<1>6. Finite
  <2>1. {p \in Patches : patch[p].status # "none"} = {}
    BY <1>2
  <2>. QED
    BY <2>1, FS_EmptySet DEF Finite, Init
<1>7. AtTask /\ RootStands
  BY <1>2 DEF AtTask, RootStands, Init, Idle
<1>8. Placed /\ Once /\ Gone
  BY <1>1, <1>2 DEF Placed, Once, Gone, Init, Roots
<1>9. Listed /\ Undoing /\ Kept
  BY <1>1, <1>2 DEF Listed, Undoing, Kept, Idle
<1>10. Allowed /\ Aimed /\ MergeAuthorised
  BY <1>1, <1>2, <1>4, EmptySeq DEF Allowed, Aimed, MergeAuthorised, Init, Idle
<1>. QED
  BY <1>5, <1>6, <1>7, <1>8, <1>9, <1>10 DEF IInv

LEMMA IInvStep == IInv /\ [Next]_vars => IInv'
<1> SUFFICES ASSUME IInv, [Next]_vars PROVE IInv'
  OBVIOUS
<1>1. TypeOK'
  BY ThreadStep, DataStep DEF TypeOK, ThreadTypes, DataTypes
<1>2. Finite' /\ AtTask' /\ RootStands' /\ Placed' /\ Once'
  BY FiniteStep, AtTaskStep, RootStandsStep, PlacedStep, OnceStep
<1>3. Listed' /\ Undoing' /\ Gone' /\ Kept'
  BY ListedStep, UndoingStep, GoneStep, KeptStep
<1>4. Allowed' /\ Aimed' /\ MergeAuthorised'
  BY AllowedStep, AimedStep, AuthorisedStep
<1>. QED
  BY <1>1, <1>2, <1>3, <1>4 DEF IInv

\* IInv is an inductive invariant of the worktree.
THEOREM WorktreeInductive == Spec => []IInv
BY InitIInv, IInvStep, PTL DEF Spec

\* Every variable keeps its type.
THEOREM WorktreeTypesCorrect == Spec => []TypeOK
<1>1. IInv => TypeOK
  BY DEF IInv
<1>. QED
  BY <1>1, WorktreeInductive, PTL

\* A merge that needs an approval was made with one, for its own target.
THEOREM MergeAuthorisedHolds == Spec => []MergeAuthorised
<1>1. IInv => MergeAuthorised
  BY DEF IInv
<1>. QED
  BY <1>1, WorktreeInductive, PTL

\* What was applied in the worktree is in its files or on its branch.
THEOREM WorkKeptHolds == Spec => []WorkKept
<1>1. IInv => WorkKept
  <2> SUFFICES ASSUME IInv, NEW p \in Patches, patch[p].status = "applied", patch[p].at = "worktree",
                      ~forced, ~disturbed, crashes = 0, p \notin Range(arg["rpc"].list)
               PROVE  p \in Range(files["worktree"]) \cup head
    BY DEF WorkKept
  <2>. QED
    BY DEF IInv, Kept
<1>. QED
  BY <1>1, WorktreeInductive, PTL

\* A revert that failed has put everything back, and one that succeeded has left
\* nothing of it in the files.
THEOREM RevertAllOrNothingHolds == Spec => []RevertAllOrNothing
<1>1. IInv => RevertAllOrNothing
  <2> SUFFICES ASSUME IInv PROVE RevertAllOrNothing
    OBVIOUS
  <2>1. ASSUME pc["rpc"] = "rollback", arg["rpc"].undone = << >>, ~disturbed
        PROVE  Range(arg["rpc"].list) \subseteq Range(files[arg["rpc"].root])
    <3> DEFINE a == arg["rpc"]
    <3>1. Len(a.list) \in Nat /\ Len(a.undone) = 0 /\ DOMAIN a.list = 1 .. Len(a.list)
      BY <2>1, NextOfList, EmptySeq
    <3>2. Len(a.list) - Len(a.undone) = Len(a.list)
      BY <3>1
    <3>3. \A i \in 1 .. Len(a.list) : a.list[i] \in Range(files[a.root])
      BY <2>1, <3>2 DEF IInv, Undoing
    <3>. QED
      BY <3>1, <3>3 DEF Range
  <2>2. Gone
    BY DEF IInv
  <2>. QED
    BY <2>1, <2>2 DEF RevertAllOrNothing, Gone
<1>. QED
  BY <1>1, WorktreeInductive, PTL

LEMMA PatchesInsideStep ==
  ASSUME IInv, [Next]_vars, PatchesInside
  PROVE  PatchesInside'
<1>0. patch \in [Patches -> PatchType]
  BY DEF IInv, TypeOK
<1>1. SUFFICES ASSUME Scope # {}, NEW p \in Patches, patch'[p].status # "none"
               PROVE  FilesOf[p] \subseteq Scope
  BY DEF PatchesInside
<1>2. CASE patch[p].status # "none"
  BY <1>1, <1>2 DEF PatchesInside
<1>3. CASE patch[p].status = "none"
  <2>1. CASE ApplyPatch
    BY <1>1, <1>3, <2>1, ApplyPatchMakes DEF InScope
  <2>2. CASE RecordPatch
    <3>1. arg["task"].patch \in Patches /\ patch[arg["task"].patch].status = "approved"
      BY <2>2 DEF RecordPatch, IInv, AtTask
    <3>. QED
      BY <1>0, <1>1, <1>3, <2>2, <3>1 DEF RecordPatch
  <2>3. CASE MarkReverted
    BY <1>1, <1>3, <2>3, MarkRevertedMarks
  <2>4. CASE ~ApplyPatch /\ ~RecordPatch /\ ~MarkReverted
    <3>1. CASE Binding \/ Writing \/ EndTask \/ \E x \in OutsideEdits : \E r \in DOMAIN files : OutsideEdit(x, r)
      BY <2>4, <1>1, <1>3, <3>1 DEF Binding, StartTask, StartFails, CreateWorktree,
         ActivateWorktree,
         RouteTask, Writing, Write, WriteUnbound, ResolveRoot, RunCommand, EndTask, OutsideEdit
    <3>2. CASE Merging \/ Cleaning \/ Crash
      BY <1>1, <1>3, <3>2, RpcLeaves
    <3>3. CASE Reverting
      BY <2>4, <1>1, <1>3, <3>3 DEF Reverting, StartRevert, SimulateRevert, ReversePatch,
         ReverseFails,
         ReverseTimesOut, RollBack, RevertFailed
    <3>4. CASE UNCHANGED vars
      BY <1>1, <1>3, <3>4 DEF vars
    <3>. QED
      BY <3>1, <3>2, <3>3, <3>4 DEF Next
  <2>. QED
    BY <2>1, <2>2, <2>3, <2>4
<1>. QED
  BY <1>2, <1>3

\* No patch of a task with a scope touches a file outside it, wherever it was applied
\* and whatever the commands of the task do.
THEOREM PatchesStayInside ==
  Spec => [](Scope # {} => \A r \in Roots : \A p \in Patches \cap Range(files[r]) : FilesOf[p] \subseteq Scope)
<1> DEFINE Inside == Scope # {} => \A r \in Roots : \A p \in Patches \cap Range(files[r]) :
                                      FilesOf[p] \subseteq Scope
<1>1. Init => PatchesInside
  BY DEF Init, PatchesInside
<1>2. IInv /\ PatchesInside /\ [Next]_vars => PatchesInside'
  BY PatchesInsideStep
<1>3. IInv /\ PatchesInside => Inside
  BY DEF IInv, Placed, PatchesInside
<1>. QED
  BY <1>1, <1>2, <1>3, WorktreeInductive, PTL DEF Spec

\* A command changes what the policy was told: it is not declared to be read-only,
\* and it works on the files it names or, if it names none, in its directory.
TruthfulCommands ==
  \A c \in Commands : c.does \in TaskEdits =>
    ~c.readOnly /\ FilesOf[c.does] \subseteq IF c.targets # {} THEN c.targets ELSE c.cwd

LEMMA EditsInsideStep ==
  ASSUME TruthfulCommands, IInv, [Next]_vars, EditsInside
  PROVE  EditsInside'
<1> DEFINE Old == head \cup UNION {Range(files[r]) : r \in Roots}
<1>1. SUFFICES ASSUME Scope # {}, NEW x \in TaskEdits, x \notin Old,
                      x \in head' \cup UNION {Range(files'[r]) : r \in Roots}
               PROVE  FilesOf[x] \subseteq Scope
  BY DEF EditsInside
<1>2. x \notin Patches /\ x \notin OutsideEdits
  BY WorktreeAssumption
<1>3. CASE UNCHANGED <<head, files>>
  BY <1>1, <1>3
<1>4. ASSUME NEW c \in Commands, RunCommand(c) PROVE FilesOf[x] \subseteq Scope
  <2>1. c.does = x
    <3>1. \A q \in Roots : Range(files'[q]) \subseteq Range(files[q]) \cup {c.does}
      BY <1>4, RunCommandMakes DEF Makes
    <3>2. head' = head \/ head' = Range(files["worktree"])
      BY <1>4, RunCommandMakes
    <3>. QED
      BY <1>1, <3>1, <3>2 DEF Roots
  <2>2. CommandAllowed(c)
    BY <1>4 DEF RunCommand
  <2>3. ~c.readOnly /\ FilesOf[x] \subseteq IF c.targets # {} THEN c.targets ELSE c.cwd
    BY <2>1 DEF TruthfulCommands
  <2>. QED
    BY <1>1, <2>2, <2>3 DEF CommandAllowed, InScope
<1>5. CASE ApplyPatch
  <2>1. UNCHANGED head
    BY <1>5 DEF ApplyPatch
  <2>2. \A q \in Roots : Range(files'[q]) \subseteq Range(files[q]) \cup Patches
    BY <1>5, ApplyPatchMakes DEF Makes
  <2>. QED
    BY <1>1, <1>2, <2>1, <2>2
<1>6. ASSUME NEW y \in OutsideEdits, NEW r \in DOMAIN files, OutsideEdit(y, r)
      PROVE  FilesOf[x] \subseteq Scope
  <2>1. UNCHANGED head
    BY <1>6 DEF OutsideEdit
  <2>2. \A q \in Roots : Range(files'[q]) \subseteq Range(files[q]) \cup {y}
    BY <1>6, OutsideEditMakes DEF Makes
  <2>. QED
    BY <1>1, <1>2, <2>1, <2>2
<1>7. CASE MergeOk
  <2>1. UNCHANGED head
    BY <1>7 DEF MergeOk
  <2>. QED
    BY <1>1, <1>7, <2>1, MergeBrings DEF Roots
<1>8. CASE GitRemoves
  <2>1. UNCHANGED head
    BY <1>8 DEF GitRemoves
  <2>. QED
    BY <1>1, <1>8, <2>1, CleanupTakes DEF Roots
<1>9. CASE ReversePatch
  <2>1. UNCHANGED head
    BY <1>9 DEF ReversePatch
  <2>. QED
    BY <1>1, <1>9, <2>1, ReverseTakes
<1>10. CASE RollBack
  <2> DEFINE p == arg["rpc"].list[Len(arg["rpc"].list) + 1 - Len(arg["rpc"].undone)]
  <2>1. UNCHANGED head
    BY <1>10 DEF RollBack
  <2>2. p \in Patches /\ \A q \in Roots : Range(files'[q]) \subseteq Range(files[q]) \cup {p}
    BY <1>10, RollBackPutsBack, NextOfList DEF RollBack
  <2> HIDE DEF p
  <2>. QED
    BY <1>1, <1>2, <2>1, <2>2
<1>11. CASE Binding
  BY <1>11, <1>3 DEF Binding, StartTask, StartFails, CreateWorktree, ActivateWorktree, RouteTask,
     GitAdds, git
<1>12. CASE Writing
  BY <1>12, <1>3, <1>4, <1>5 DEF Writing, Write, WriteUnbound, ResolveRoot, RecordPatch, GitAdds,
     git
<1>13. CASE Merging
  BY <1>13, <1>3, <1>7 DEF Merging, RequestMerge, VerificationFails, AskMerge, SubmitApproval,
     MergeRequested,
     MergeCheck, MergeConflicts, CheckoutFails, RecordMerge, git
<1>14. CASE Cleaning
  BY <1>14, <1>3, <1>8 DEF Cleaning, Cleanup, RecordCleaned, git
<1>15. CASE Reverting
  BY <1>15, <1>3, <1>9, <1>10 DEF Reverting, StartRevert, SimulateRevert, ReverseFails,
     ReverseTimesOut,
     RevertFailed, MarkReverted, git
<1>16. CASE EndTask \/ Crash \/ UNCHANGED vars
  BY <1>16, <1>3 DEF EndTask, Crash, git, vars
<1>. QED
  BY <1>6, <1>11, <1>12, <1>13, <1>14, <1>15, <1>16 DEF Next

LEMMA Isolated ==
  ASSUME IInv, [Next]_vars, NEW p \in Patches,
         patch'[p] = [status |-> "approved", at |-> "workspace"], patch'[p] # patch[p]
  PROVE  rec \notin Active /\ ("required" \in bind => rec # "none")
<1>0. patch \in [Patches -> PatchType]
  BY DEF IInv, TypeOK
<1>1. CASE ApplyPatch
  <2>1. arg["task"].root = "workspace"
    BY <1>1, ApplyPatchMakes
  <2>. QED
    BY <1>1, <2>1 DEF ApplyPatch, IInv, RootStands, AtTask
<1>2. CASE RecordPatch
  <2>1. arg["task"].patch \in Patches
    BY <1>2 DEF RecordPatch, IInv, AtTask
  <2>2. patch'[arg["task"].patch].status = "applied"
        /\ \A q \in Patches : q # arg["task"].patch => patch'[q] = patch[q]
    BY <1>0, <1>2, <2>1 DEF RecordPatch, PatchType
  <2>. QED
    BY <2>2
<1>3. CASE MarkReverted
  <2>1. patch'[p] = patch[p] \/ patch'[p].status = "reverted"
    BY <1>0, <1>3, MarkRevertedMarks DEF PatchType
  <2>. QED
    BY <2>1
<1>4. CASE ~ApplyPatch /\ ~RecordPatch /\ ~MarkReverted
  <2>1. UNCHANGED patch
    <3>1. CASE Binding \/ Writing \/ EndTask \/ \E x \in OutsideEdits : \E r \in DOMAIN files : OutsideEdit(x, r)
      BY <1>4, <3>1 DEF Binding, StartTask, StartFails, CreateWorktree, ActivateWorktree,
         RouteTask, Writing, Write, WriteUnbound, ResolveRoot, RunCommand, EndTask, OutsideEdit
    <3>2. CASE Merging \/ Cleaning \/ Crash
      BY <3>2, RpcLeaves
    <3>3. CASE Reverting
      BY <1>4, <3>3 DEF Reverting, StartRevert, SimulateRevert, ReversePatch, ReverseFails,
         ReverseTimesOut, RollBack, RevertFailed
    <3>4. CASE UNCHANGED vars
      BY <3>4 DEF vars
    <3>. QED
      BY <3>1, <3>2, <3>3, <3>4 DEF Next
  <2>. QED
    BY <2>1
<1>. QED
  BY <1>1, <1>2, <1>3, <1>4

\* What the task writes stays where it belongs, provided that its commands change
\* what the policy was told they would.
THEOREM WritesIsolatedHolds ==
  ASSUME TruthfulCommands
  PROVE  Spec => WritesIsolated
<1> DEFINE Inside == PatchesInside /\ EditsInside
<1>1. Init => Inside
  <2> SUFFICES ASSUME Init PROVE Inside
    OBVIOUS
  <2>1. Range(<< >>) = {}
    BY EmptySeq DEF Range
  <2>. QED
    BY <2>1 DEF Init, PatchesInside, EditsInside, Roots
<1>2. IInv /\ Inside /\ [Next]_vars => Inside'
  BY PatchesInsideStep, EditsInsideStep
<1>3. IInv /\ IInv' /\ Inside' /\ [Next]_vars =>
        [/\ \A p \in Patches :
              patch'[p] = [status |-> "approved", at |-> "workspace"] /\ patch'[p] # patch[p]
                => rec \notin Active /\ ("required" \in bind => rec # "none")
         /\ Scope # {} =>
              \A r \in DOMAIN files : \A x \in Range(files'[r]) \cap (Patches \cup TaskEdits) :
                FilesOf[x] \subseteq Scope]_vars
  <2> SUFFICES ASSUME IInv, IInv', Inside', [Next]_vars
               PROVE  /\ \A p \in Patches :
                           patch'[p] = [status |-> "approved", at |-> "workspace"] /\ patch'[p] # patch[p]
                             => rec \notin Active /\ ("required" \in bind => rec # "none")
                      /\ Scope # {} =>
                           \A r \in DOMAIN files : \A x \in Range(files'[r]) \cap (Patches \cup TaskEdits) :
                             FilesOf[x] \subseteq Scope
    OBVIOUS
  <2>1. \A r \in DOMAIN files : r \in Roots
    BY DEF IInv, TypeOK
  <2>2. \A r \in Roots : \A p \in Patches \cap Range(files'[r]) : patch'[p].status # "none"
    BY DEF IInv, Placed
  <2>3. ASSUME Scope # {}, NEW r \in Roots, NEW x \in Range(files'[r]) \cap (Patches \cup TaskEdits)
        PROVE  FilesOf[x] \subseteq Scope
    <3>1. CASE x \in Patches
      BY <2>2, <2>3, <3>1 DEF PatchesInside
    <3>2. CASE x \in TaskEdits
      BY <2>3, <3>2 DEF EditsInside
    <3>. QED
      BY <2>3, <3>1, <3>2
  <2>. QED
    BY <2>1, <2>3, Isolated
<1>. QED
  BY <1>1, <1>2, <1>3, WorktreeInductive, PTL DEF Spec, WritesIsolated

=============================================================================
