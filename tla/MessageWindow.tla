--------------------------- MODULE MessageWindow ---------------------------
(***************************************************************************)
(* Lists of chat messages and what shortens them: the compactor            *)
(* (context/compactor.py), the preflight and the recovery of a provider    *)
(* turn (orchestrator/provider_turn.py), and the three formats a request   *)
(* is sent in (provider/openai_compatible.py).                             *)
(*                                                                         *)
(* A message is its role, the tool calls it makes (assistant), the call it *)
(* answers (tool), its tokens, and whether it is a tool output above the   *)
(* truncation limit. A "prefix" is the user message that holds the stable  *)
(* context.                                                                *)
(***************************************************************************)
EXTENDS Integers, Sequences, SequencesExt, FiniteSetsExt

CONSTANTS
  RecentTurns,     \* messages the compactor keeps verbatim (6)
  PreflightTail,   \* conversation messages the preflight keeps (8)
  RecoveryTail,    \* and the recovery of a failed request (6)
  TrimmedSize,     \* tokens of a message trimmed by either of them
  TruncatedSize,   \* tokens of a truncated tool output
  Tier1, Tier2     \* _TIER1_THRESHOLD, _TIER2_THRESHOLD

ASSUME WindowAssumption ==
  /\ {RecentTurns, PreflightTail, RecoveryTail, TrimmedSize, TruncatedSize} \subseteq Nat \ {0}
  /\ Tier1 \in Nat /\ Tier2 \in Nat /\ Tier1 <= Tier2

NoCall == <<0, 0>>

Message(role, size) ==
  [role |-> role, calls |-> {}, call |-> NoCall, size |-> size, big |-> FALSE]

\* The text beside the calls may be empty.
Assistant(calls, size) ==
  [role |-> "assistant", calls |-> calls, call |-> NoCall, size |-> size, big |-> FALSE]

ToolResult(call, size) ==
  [role |-> "tool", calls |-> {}, call |-> call, size |-> size, big |-> size > TruncatedSize]

Tokens(msgs) == FoldLeft(LAMBDA sum, m : sum + m.size, 0, msgs)

CallsOf(msgs) == UNION {msgs[i].calls : i \in DOMAIN msgs}

IsTool(m) == m.role = "tool"

(***************************************************************************)
(* The compactor.                                                          *)
(***************************************************************************)

\* _is_primer_message
IsPrimer(m) == m.role \in {"system", "prefix"}

\* _split_segments: the leading primers, and how much of the rest is history.
PrimerCount(msgs) ==
  IF \A i \in DOMAIN msgs : IsPrimer(msgs[i]) THEN Len(msgs)
  ELSE Min({i \in DOMAIN msgs : ~IsPrimer(msgs[i])}) - 1

Orphans(recents) ==
  {recents[i].call : i \in {j \in DOMAIN recents : IsTool(recents[j])}} \ CallsOf(recents)

\* Variant: only the assistant message itself is taken back from the history.
RepairedNarrow(history, recents) ==
  LET callers == {i \in DOMAIN history : history[i].calls \cap Orphans(recents) # {}}
  IN IF history = <<>> \/ recents = <<>> \/ callers = {} THEN <<history, recents>>
     ELSE << SubSeq(history, 1, Max(callers) - 1), <<history[Max(callers)]>> \o recents >>

\* Variant: the segments stay as they were split.
Unrepaired(history, recents) == <<history, recents>>

\* _repair_recent_tool_call_pairs: while a result of the recents answers a call that
\* is not among them, the recents start at the last history message that makes one
\* of those calls; results of no call at all are removed.
Repaired(history, recents) ==
  LET from[k \in 0..Len(history)] ==
        LET tail    == SubSeq(history, k + 1, Len(history)) \o recents
            callers == {i \in 1..k : history[i].calls \cap Orphans(tail) # {}}
        IN IF callers = {} THEN k ELSE from[Max(callers) - 1]
      k    == from[Len(history)]
      tail == SubSeq(history, k + 1, Len(history)) \o recents
  IN IF history = <<>> \/ recents = <<>> THEN <<history, recents>>
     ELSE << SubSeq(history, 1, k),
             SelectSeq(tail, LAMBDA m : ~(IsTool(m) /\ m.call \in Orphans(tail))) >>

\* _generate_summary and the structured handoff: one system message, never empty,
\* because the handoff always states the verification status.
SummaryMessage(size) == Message("system", size)

\* The full compaction: primers, a summary, recents. An earlier summary is a primer.
FullCompact(msgs, summarySize) ==
  LET p        == PrimerCount(msgs)
      body     == SubSeq(msgs, p + 1, Len(msgs))
      split    == Max({0, Len(body) - RecentTurns})
      repaired == Repaired(SubSeq(body, 1, split), SubSeq(body, split + 1, Len(body)))
  IN SubSeq(msgs, 1, p) \o <<SummaryMessage(summarySize)>> \o repaired[2]

\* _truncate_tool_outputs
Truncated(msgs) ==
  [i \in DOMAIN msgs |-> IF msgs[i].big THEN [msgs[i] EXCEPT !.size = TruncatedSize] ELSE msgs[i]]

\* compact
Compact(msgs, max, force, summarySize) ==
  CASE Tokens(msgs) <= max /\ ~force -> msgs
    [] Tokens(msgs) > max /\ ~force /\ Tokens(msgs) < Tier2
         /\ Tokens(Truncated(msgs)) <= max -> Truncated(msgs)
    [] OTHER -> FullCompact(msgs, summarySize)

\* should_compact: the reasons it may give. Near the budget the provider is asked, and
\* says what it likes.
Reasons(msgs, max, near) ==
  LET n == Tokens(msgs) IN
  CASE n >= max -> {"over_budget"}
    [] n < max /\ n < Tier1 -> {"small"}
    [] n < max /\ n >= Tier1 /\ (\E i \in DOMAIN msgs : msgs[i].big) -> {"oversized_tools"}
    [] OTHER -> IF n < near THEN {"comfortable"} ELSE {"declined", "near_budget"}

Forced(reason) == reason = "near_budget"

Compacts(reason) == reason \in {"over_budget", "oversized_tools", "near_budget"}

(***************************************************************************)
(* The provider turn.                                                      *)
(***************************************************************************)

\* _provider_recovery_trim_message
Trim(m) == [m EXCEPT !.size = Min({@, TrimmedSize})]

LastOf(msgs, n) == SubSeq(msgs, Max({1, Len(msgs) - n + 1}), Len(msgs))

\* At most two system messages, a notice, and the last n of the others.
KeepTail(msgs, n) ==
  LET trimmed == [i \in DOMAIN msgs |-> Trim(msgs[i])]
      systems == {i \in DOMAIN msgs : msgs[i].role = "system"}
      first   == {i \in systems : Cardinality({j \in systems : j <= i}) <= 2}
      pick(S) == [k \in 1..Cardinality(S) |->
                    trimmed[CHOOSE i \in S : Cardinality({j \in S : j <= i}) = k]]
  IN pick(first) \o <<Message("system", 1)>> \o LastOf(pick(DOMAIN msgs \ first), n)

\* _provider_preflight_compact_messages
PreflightCompact(msgs) == KeepTail(msgs, PreflightTail)

\* _provider_recovery_compact_messages
RecoveryCompact(msgs) == KeepTail(msgs, RecoveryTail)

(***************************************************************************)
(* The request: a list of items in the format of the provider.             *)
(***************************************************************************)

\* _drop_orphan_tool_messages: a result is sent only after the message that made its
\* call.
DropOrphans(msgs) ==
  LET answered == {i \in DOMAIN msgs :
                     IsTool(msgs[i]) => \E j \in 1..(i - 1) : msgs[i].call \in msgs[j].calls}
  IN [k \in 1..Cardinality(answered) |->
        msgs[CHOOSE i \in answered : Cardinality({j \in answered : j <= i}) = k]]

\* The prefix is a message of the user.
Sent(m) == [m EXCEPT !.role = IF @ = "prefix" THEN "user" ELSE @]

\* System texts travel apart from the conversation, in front of it.
SystemFirst(items) ==
  SelectSeq(items, LAMBDA m : m.role = "system" /\ m.size > 0)
    \o SelectSeq(items, LAMBDA m : m.role # "system")

\* _serialize_messages_for_request: one item for each message, in its place.
ChatMessages(msgs) == [i \in DOMAIN DropOrphans(msgs) |-> Sent(DropOrphans(msgs)[i])]

\* append_message: neighbours of one role become one.
AppendMessage(items, m) ==
  IF items # <<>> /\ Last(items).role = m.role
  THEN [items EXCEPT ![Len(items)].size = @ + m.size]
  ELSE Append(items, m)

\* _serialize_response_function_calls: an item for each call.
FunctionCalls(m) ==
  LET calls == SetToSortSeq(m.calls, LAMBDA a, b : a[2] < b[2])
  IN [i \in DOMAIN calls |-> [Message("call", 0) EXCEPT !.calls = {calls[i]}]]

\* _serialize_responses_input, _responses_instructions_and_input: an assistant message
\* is its text, when it has one, and its calls.
ResponsesInput(msgs) ==
  LET text(m) == IF m.size = 0 THEN <<>> ELSE <<[m EXCEPT !.calls = {}]>>
      add(items, m) == CASE IsTool(m)            -> Append(items, m)
                         [] m.role = "assistant" -> items \o text(m) \o FunctionCalls(m)
                         [] OTHER                -> AppendMessage(items, Sent(m))
  IN SystemFirst(FoldLeft(add, <<>>, DropOrphans(msgs)))

\* _serialize_anthropic_messages: a result is a message of the user, and the
\* conversation is never empty.
AnthropicMessages(msgs) ==
  LET sent  == ChatMessages(msgs)
      items == [i \in DOMAIN sent |-> IF IsTool(sent[i]) THEN [sent[i] EXCEPT !.role = "user"]
                                       ELSE sent[i]]
  IN SystemFirst(items)
       \o IF \A i \in DOMAIN items : items[i].role = "system" THEN <<Message("user", 0)>>
          ELSE <<>>

RequestFormats == {"chat", "responses", "anthropic"}

Serialized(format, msgs) ==
  CASE format = "chat"      -> ChatMessages(msgs)
    [] format = "responses" -> ResponsesInput(msgs)
    [] format = "anthropic" -> AnthropicMessages(msgs)
=============================================================================
