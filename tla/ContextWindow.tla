--------------------------- MODULE ContextWindow ---------------------------
(***************************************************************************)
(* The messages of one task, from the context the builder makes to every   *)
(* request the ReAct loop sends: sections fitted to the token budget, user *)
(* supplements and memories added before a turn, tool results added one by *)
(* one with a compaction after each, a tool held for approval and the      *)
(* calls left over drained on resume, the preflight compaction with its    *)
(* running token total, and the smaller request sent after the provider    *)
(* found the context too large.                                            *)
(***************************************************************************)
EXTENDS ContextSections, MessageWindow

CONSTANTS
  Modes,           \* contexts built: "full", "lightweight", "minimal"
  Texts,           \* the sizes the texts of the sections may have (0: left out)
  SchemaTokens,    \* tokens of the tool schemas
  MaxContext,      \* maxContextTokens
  Limit,           \* the compaction threshold of the loop
  Near,            \* its near ratio
  ResultSizes,     \* tokens of a tool result
  SummarySizes,    \* tokens of a summary
  MaxSteps,        \* bound: turns
  MaxBatch         \* bound: tool calls of one turn

ASSUME ContextAssumption ==
  /\ Modes \subseteq {"full", "lightweight", "minimal"}
  /\ Texts \subseteq [Names -> Nat]
  /\ {SchemaTokens, MaxContext, Limit, Near, MaxSteps, MaxBatch} \subseteq Nat
  /\ ResultSizes \cup SummarySizes \subseteq Nat \ {0}

VARIABLES
  sizes,       \* the sections as gathered
  kept,        \* and as fitted; Nothing outside of the build
  msgs,        \* messages
  total,       \* _msg_token_total
  counted,     \* _msg_count_at_last_check
  stage,       \* where the task is
  step,        \* steps
  todo,        \* the tool calls of the turn not yet executed
  batch,       \* the tool calls of the last turn
  added,       \* messages added to the list since its results
  cut,         \* the tail the last request was cut to, 0 if it was not
  request      \* the messages of the last request

cwVars == <<sizes, kept, msgs, total, counted, stage, step, todo, batch, added, cut, request>>
loop == <<total, counted, step, todo, batch, added, cut, request>>

Nothing == [n \in Names |-> 0]

CWInit ==
  /\ \E mode \in Modes, text \in Texts :
       sizes = [n \in Names |-> IF n \in Included(mode) THEN text[n] ELSE 0]
  /\ kept = Nothing /\ msgs = <<>> /\ total = 0 /\ counted = 0
  /\ stage = "build" /\ step = 0 /\ todo = <<>> /\ batch = {} /\ added = 0 /\ cut = 0
  /\ request = <<>>

\* A message of a layer, when the layer has text.
LayerMessage(role, size) == IF size = 0 THEN <<>> ELSE <<Message(role, size)>>

\* should_compact and compact on a list: the lists that may result, with the reason.
Outcomes(list, max, near) ==
  UNION {LET after(s) == IF Compacts(r) THEN Compact(list, max, Forced(r), s) ELSE list
         IN {[msgs |-> after(s),
              reason |-> r] : s \in SummarySizes} : r \in Reasons(list, max, near)}

(***************************************************************************)
(* The builder.                                                            *)
(***************************************************************************)

\* The sections are fitted into what the tool schemas leave of the budget.
FitSections ==
  /\ stage = "build"
  /\ \E wide \in BOOLEAN : kept' = Fit(sizes, MaxContext - SchemaTokens, wide)
  /\ stage' = "fitted"
  /\ UNCHANGED <<sizes, msgs, loop>>

\* The layers become messages, which the compactor may shorten once more; then the
\* loop starts, with the tokens of the list as its total.
BuildMessages ==
  /\ stage = "fitted"
  /\ LET built == <<Message("system", Layer(kept, "system"))>>
                  \o LayerMessage("prefix", Layer(kept, "stable"))
                  \o LayerMessage("user", Layer(kept, "dynamic"))
                  \o <<Message("user", Layer(kept, "request"))>>
     IN \E o \in Outcomes(built, MaxContext, MaxContext - 1) :
          /\ msgs' = o.msgs
          /\ total' = Tokens(o.msgs) /\ counted' = Len(o.msgs)
  /\ sizes' = Nothing /\ kept' = Nothing
  /\ stage' = "top"
  /\ UNCHANGED <<step, todo, batch, added, cut, request>>

(***************************************************************************)
(* The loop.                                                               *)
(***************************************************************************)

\* Before a turn the pending supplements are added and, in the first one, memories.
\* The total does not count them.
Top ==
  /\ stage = "top" /\ step < MaxSteps
  /\ \E news \in {<<>>, <<Message("user", 1)>>}
          \cup (IF step = 0 THEN {<<Message("system", 1)>>} ELSE {}) :
       /\ msgs' = msgs \o news
       /\ added' = added + Len(news)
  /\ stage' = "preflight"
  /\ UNCHANGED <<sizes, kept, total, counted, step, todo, batch, cut, request>>

\* The preflight compacts when the total reaches the threshold or the context size.
Preflight ==
  /\ stage = "preflight"
  /\ IF total >= Limit \/ total >= MaxContext
     THEN /\ msgs' = PreflightCompact(msgs)
          /\ total' = Tokens(msgs') /\ counted' = Len(msgs')
          /\ cut' = PreflightTail
     ELSE /\ counted' = Len(msgs) /\ cut' = 0
          /\ UNCHANGED <<msgs, total>>
  /\ stage' = "request"
  /\ UNCHANGED <<sizes, kept, step, todo, batch, added, request>>

\* The request goes out in the format of its provider; after a context_too_large
\* failure a shorter one does. The loop's own list stays as it is.
SendRequest ==
  /\ stage = "request"
  /\ \E format \in RequestFormats :
       \/ request' = Serialized(format, msgs) /\ UNCHANGED cut
       \/ /\ request' = Serialized(format, RecoveryCompact(msgs))
          /\ cut' = IF cut = 0 THEN RecoveryTail ELSE Min({cut, RecoveryTail})
  /\ stage' = "sent"
  /\ UNCHANGED <<sizes, kept, msgs, total, counted, step, todo, batch, added>>

\* The answer: a final one, or a batch of tool calls.
Answer ==
  /\ stage = "sent"
  /\ step' = step + 1
  /\ request' = <<>> /\ cut' = 0 /\ added' = 0
  /\ \E n \in 0..MaxBatch, text \in {0, 1} :
       LET calls == [i \in 1..n |-> <<step', i>>] IN
       /\ batch' = ToSet(calls) /\ todo' = calls
       /\ IF n = 0 THEN stage' = "ended" /\ UNCHANGED msgs
          ELSE stage' = "tools" /\ msgs' = Append(msgs, Assistant(batch', text))
  /\ UNCHANGED <<sizes, kept, total, counted>>

\* The result of the next call is appended, the messages since the last count are
\* added to the total, and the compactor looks at the list.
Result ==
  /\ stage = "tools" /\ todo # <<>>
  /\ \E n \in ResultSizes :
       LET list == Append(msgs, ToolResult(Head(todo), n)) IN
       \E o \in Outcomes(list, Limit, Near) :
         /\ msgs' = o.msgs
         /\ counted' = Len(o.msgs)
         /\ total' = IF Compacts(o.reason) THEN Tokens(o.msgs)
                     ELSE total + Tokens(SubSeq(list, counted + 1, Len(list)))
  /\ todo' = SubSeq(todo, 2, Len(todo))
  /\ UNCHANGED <<sizes, kept, stage, step, batch, added, cut, request>>

\* enter_plan_mode: appended, without count or compaction.
PlanResult ==
  /\ stage = "tools" /\ todo # <<>>
  /\ msgs' = Append(msgs, ToolResult(Head(todo), 1))
  /\ todo' = SubSeq(todo, 2, Len(todo))
  /\ UNCHANGED <<sizes, kept, total, counted, stage, step, batch, added, cut, request>>

\* The tool waits for an approval or an answer: the loop ends and the list is saved
\* with the calls that remain.
Hold ==
  /\ stage \in {"tools", "drain"} /\ todo # <<>>
  /\ stage' = "held"
  /\ UNCHANGED <<sizes, kept, msgs, loop>>

\* The decision arrives: the pending call and then the remaining ones are executed
\* and appended, without compaction.
ResumeHeld ==
  /\ stage = "held"
  /\ stage' = "drain"
  /\ \E n \in ResultSizes : msgs' = Append(msgs, ToolResult(Head(todo), n))
  /\ todo' = SubSeq(todo, 2, Len(todo))
  /\ UNCHANGED <<sizes, kept, total, counted, step, batch, added, cut, request>>

DrainResult ==
  /\ stage = "drain" /\ todo # <<>>
  /\ \E n \in ResultSizes : msgs' = Append(msgs, ToolResult(Head(todo), n))
  /\ todo' = SubSeq(todo, 2, Len(todo))
  /\ UNCHANGED <<sizes, kept, total, counted, stage, step, batch, added, cut, request>>

\* The loop goes on; a resumed task enters it again, and counts its messages anew.
Continue ==
  /\ stage \in {"tools", "drain"} /\ todo = <<>>
  /\ IF stage = "drain" THEN total' = Tokens(msgs) /\ counted' = Len(msgs)
     ELSE UNCHANGED <<total, counted>>
  /\ stage' = "top"
  /\ UNCHANGED <<sizes, kept, msgs, step, todo, batch, added, cut, request>>

CWNext ==
  \/ FitSections \/ BuildMessages \/ Top \/ Preflight \/ SendRequest \/ Answer
  \/ Result \/ PlanResult \/ Hold \/ ResumeHeld \/ DrainResult \/ Continue

CWSpec == CWInit /\ [][CWNext]_cwVars

(***************************************************************************)
(* Properties.                                                             *)
(***************************************************************************)

\* Every variable has its type; the count never runs past the list it counts.
CWTypeOK ==
  /\ stage \in {"build", "fitted", "top", "preflight", "request", "sent", "tools", "held",
             "drain", "ended"}
  /\ \A i \in DOMAIN msgs : msgs[i].role \in {"system", "prefix", "user", "assistant", "tool"}
  /\ total \in Nat /\ counted \in 0..Len(msgs) /\ step \in 0..MaxSteps
  /\ Range(todo) \subseteq batch

\* TokenBudget.fit drops no fixed section; afterwards the budget is kept, unless only
\* fixed sections are left; and no section loses text while one of a lower priority
\* with more than its minimum is whole.
BudgetRespected ==
  stage = "fitted" =>
    LET max == MaxContext - SchemaTokens
        lost(i) == kept[Sections[i].name] < sizes[Sections[i].name]
    IN /\ \A i \in DOMAIN Sections : Sections[i].fixed => ~lost(i)
       /\ \/ Total(kept) <= max
          \/ \A i \in DOMAIN Sections : Sections[i].fixed \/ kept[Sections[i].name] = 0
       /\ \A i, j \in DOMAIN Sections :
            i < j /\ lost(j) /\ ~Sections[i].fixed =>
              lost(i) \/ kept[Sections[i].name] <= Sections[i].min

\* Every request is one the provider accepts, in each of the three formats: a call is
\* answered by exactly one result, between the two there are only results and further
\* calls of the turn, and a result answers a call of the request, however the list was
\* compacted in the middle of a batch, held, drained and cut.
RequestPaired ==
  LET answers(c) == {j \in DOMAIN request : request[j].call = c}
  IN /\ \A i \in DOMAIN request : \A c \in request[i].calls :
          /\ Cardinality(answers(c)) = 1
          /\ \A j \in answers(c) :
               /\ i < j
               /\ \A k \in (i + 1)..j : request[k].call # NoCall \/ request[k].role = "call"
     /\ {request[i].call : i \in DOMAIN request} \ {NoCall} \subseteq CallsOf(request)

\* The model sees what its last tool calls returned: compaction never loses a result of
\* the last batch, and cutting to a tail loses them only when the batch, with the
\* messages after it, is longer than the tail.
FreshResultsSent ==
  stage = "sent" /\ (cut = 0 \/ Cardinality(batch) + 1 + added <= cut) =>
    batch \subseteq {request[i].call : i \in DOMAIN request}

=============================================================================
