---------------------------- MODULE ProviderTurn ----------------------------
(***************************************************************************)
(* One turn of the ReAct loop at the model provider, from the record       *)
(* create_provider_turn makes to its end: the streaming request with its   *)
(* retry, the plain request it falls back to, the recovery retry with a    *)
(* smaller context, the adapter's own retries below both, the response     *)
(* cache, and the cancel of the task while any of it is going on           *)
(* (orchestrator/provider_turn.py, provider/adapter.py and the turn's part *)
(* of orchestrator/react_runner.py).                                       *)
(*                                                                         *)
(* A token of text is represented by the request that produced it (its     *)
(* call and its try), so that text of two responses can be told apart.     *)
(***************************************************************************)
EXTENDS ProviderRecovery

CONSTANTS
  Formats,     \* the API formats profiles use
  Tries,       \* PROVIDER_RETRY_ATTEMPTS
  Errors,      \* the errors a request or a stream may end with
  MaxTokens    \* bound: tokens of one response

ASSUME ProviderAssumption ==
  /\ Tries \in Nat \ {0} /\ MaxTokens \in Nat
  /\ Errors \subseteq SUBSET Rules
  /\ Formats \subseteq {"openai-chat", "openai-responses", "anthropic-messages"}

VARIABLES
  format,      \* the API format of the active profile
  stream,      \* its streaming flag: "on", "off", or "auto" (not set)
  task,        \* the task's status
  record,      \* the provider turn's record, "none" before the first
  pc,          \* where the turn is
  act,         \* what the adapter is doing: "stream", "chat" or "via"
  context,     \* the messages of the request: "full" or "small"
  attempt,     \* the stream attempt of _request_provider_response
  recovered,   \* recovery_retry
  try,         \* the adapter's attempt
  reduced,     \* has this try been sent again without a rejected parameter
  parts,       \* _stream_text_parts, or the parts of _generate_via_stream
  emitted,     \* emitted_event
  final,       \* the final response, or None
  failure,     \* the error the adapter raised, while it is being handled
  cache,       \* llm_cache: a response or None, for each context; it may hold one
               \* of an earlier task that asked the same
  shown        \* the assistant.token texts published in this turn

config == <<format, stream>>
adapter == <<act, try, reduced, parts, emitted, final>>
vars == <<config, task, record, pc, context, attempt, recovered, adapter, failure,
          cache, shown>>

None == [text |-> <<>>, tools |-> FALSE, none |-> TRUE]
Response(text, tools) == [text |-> text, tools |-> tools, none |-> FALSE]

\* The current request: the call it belongs to, and the adapter's try.
Request == <<IF act = "stream" THEN attempt ELSE IF recovered THEN 4 ELSE 3, try>>

\* A text of n tokens that the current request produced.
Text(n) == [i \in 1..n |-> Request]

\* _should_stream_provider; the mode of a profile that leaves the flag out streams.
Streams == stream # "off"

Init ==
  /\ format \in Formats
  /\ stream \in {"on", "auto", "off"}
  /\ task = "running" /\ record = "none" /\ pc = "idle" /\ act = "chat"
  /\ context = "full" /\ attempt = 1 /\ recovered = FALSE
  /\ try = 1 /\ reduced = FALSE /\ parts = <<>> /\ emitted = FALSE /\ final = None
  /\ failure = {}
  /\ cache \in [{"full", "small"} -> {None, Response(<< <<0, 0>> >>, FALSE)}]
  /\ shown = <<>>

(***************************************************************************)
(* The adapter: requests, retries, streams.                                *)
(***************************************************************************)

\* A call of the adapter starts with its first try.
StartCall(a) ==
  /\ act' = a /\ try' = 1 /\ reduced' = FALSE
  /\ parts' = <<>> /\ emitted' = FALSE /\ final' = None
  /\ pc' = "send"

\* One request goes out.
Send ==
  /\ pc = "send"
  /\ pc' = "wait"
  /\ UNCHANGED <<config, task, record, context, attempt, recovered, adapter, failure,
                 cache, shown>>

\* A responses endpoint rejects reasoning, temperature or max_output_tokens: the
\* payload goes out again without it, once, within the same try.
SendReduced ==
  /\ pc = "wait" /\ format = "openai-responses"
  /\ ~reduced /\ reduced' = TRUE
  /\ UNCHANGED <<config, task, record, pc, context, attempt, recovered, act, try, parts,
                 emitted, final, failure, cache, shown>>

\* A plain request is answered.
ChatAnswers ==
  /\ pc = "wait" /\ act = "chat"
  /\ \E n \in 0..MaxTokens, tools \in BOOLEAN : final' = Response(Text(n), tools)
  /\ pc' = "generated"
  /\ UNCHANGED <<config, task, record, context, attempt, recovered, act, try,
                 reduced, parts, emitted, failure, cache, shown>>

\* The headers of a stream arrive.
StreamOpens ==
  /\ pc = "wait" /\ act # "chat"
  /\ pc' = "events"
  /\ UNCHANGED <<config, task, record, context, attempt, recovered, adapter, failure,
                 cache, shown>>

\* The error leaves the adapter for the code that called it.
Raise(error) ==
  /\ failure' = error
  /\ pc' = IF act = "stream" THEN "streamFailed" ELSE "callFailed"
  /\ UNCHANGED adapter

\* The next try of the same call.
RetryCall ==
  /\ try' = try + 1 /\ reduced' = FALSE /\ emitted' = FALSE
  /\ pc' = "send"
  /\ UNCHANGED <<act, parts, final, failure>>

\* chat's retry loop; an unreadable answer of a responses endpoint is asked for
\* again as a stream, outside that loop.
ChatFails(error) ==
  IF format = "openai-responses" /\ Classify(error) = "invalid_response"
  THEN StartCall("via") /\ UNCHANGED failure
  ELSE IF try < Tries /\ Classify(error) \in Retryable THEN RetryCall
       ELSE Raise(error)

\* Variant: a stream is retried although events were handed out.
StreamRetriedLate(error) ==
  IF try < Tries /\ Classify(error) \in Retryable THEN RetryCall ELSE Raise(error)

\* chat_stream's retry loop: never once an event has been handed out.
StreamFails(error) ==
  IF ~emitted /\ try < Tries /\ Classify(error) \in Retryable THEN RetryCall
  ELSE Raise(error)

\* The request fails: no connection, a timeout, an HTTP error, an unreadable
\* answer; or the stream breaks off with an error.
RequestFails ==
  /\ pc \in {"wait", "events"}
  /\ \E error \in Errors :
       /\ error = ArgumentOverflow => pc = "events"
       /\ IF act = "chat" THEN ChatFails(error) ELSE StreamFails(error)
  /\ UNCHANGED <<config, task, record, context, attempt, recovered, cache, shown>>

\* A token of a stream. The turn checks for a cancel before it publishes one;
\* _generate_via_stream only collects it.
Token ==
  /\ pc = "events" /\ Len(parts) < MaxTokens
  /\ emitted' = TRUE
  /\ IF act = "stream" /\ task = "cancelled"
     THEN pc' = "streamFailed" /\ UNCHANGED parts
     ELSE /\ parts' = Append(parts, Request)
          /\ pc' = IF act = "stream" THEN "publish" ELSE "events"
  /\ UNCHANGED <<config, task, record, context, attempt, recovered, act, try,
                 reduced, final, failure, cache, shown>>

\* The stream ends, with [DONE] or because the connection was closed: either way
\* the client builds a final response of what arrived.
StreamFinal ==
  /\ pc = "events"
  /\ emitted' = TRUE
  /\ \E tools \in BOOLEAN : final' = Response(parts, tools)
  /\ pc' = IF act = "stream" THEN "streamed" ELSE "generated"
  /\ UNCHANGED <<config, task, record, context, attempt, recovered, act, try,
                 reduced, parts, failure, cache, shown>>

(***************************************************************************)
(* The turn: streaming, fallback and recovery.                             *)
(***************************************************************************)

\* The ReAct loop creates the turn's record and asks for a response. The preflight
\* may have replaced the messages by a compacted list before.
Begin ==
  /\ pc = "idle" /\ task = "running"
  /\ record' = "running"
  /\ context' \in {"full", "small"}
  /\ IF Streams THEN StartCall("stream")
     ELSE pc' = "generate" /\ UNCHANGED adapter
  /\ UNCHANGED <<config, task, attempt, recovered, failure, cache, shown>>

\* generate: the cache answers, or a request does.
Generate ==
  /\ pc = "generate"
  /\ IF cache[context].none
     THEN StartCall(IF stream = "on" THEN "via" ELSE "chat")
     ELSE /\ final' = cache[context] /\ pc' = "answered"
          /\ act' = "chat" /\ UNCHANGED <<try, reduced, parts, emitted>>
  /\ UNCHANGED <<config, task, record, context, attempt, recovered, failure, cache,
                 shown>>

\* The answer to a plain request is cached.
Generated ==
  /\ pc = "generated"
  /\ cache' = [cache EXCEPT ![context] = final]
  /\ pc' = "answered"
  /\ UNCHANGED <<config, task, record, context, attempt, recovered, adapter, failure,
                 shown>>

\* The token goes out as assistant.token; text that repeats itself ends the loop
\* without a final response.
Publish ==
  /\ pc = "publish"
  /\ shown' = Append(shown, parts[Len(parts)])
  /\ pc' \in {"events"} \cup (IF Len(parts) = MaxTokens THEN {"streamed"} ELSE {})
  /\ UNCHANGED <<config, task, record, context, attempt, recovered, adapter, failure,
                 cache>>

\* Variant: a cancelled task leaves the turn where it is.
StreamedWaits ==
  /\ pc = "streamed" /\ task # "cancelled"
  /\ pc' = IF final.none THEN "generate" ELSE "answered"
  /\ UNCHANGED <<config, task, record, context, attempt, recovered, adapter, failure,
                 cache, shown>>

\* After the loop over the events: a cancelled task raises, a stream without a
\* final response is replaced by a plain request.
Streamed ==
  /\ pc = "streamed"
  /\ pc' = IF task = "cancelled" THEN "raised"
           ELSE IF final.none THEN "generate" ELSE "answered"
  /\ UNCHANGED <<config, task, record, context, attempt, recovered, adapter, failure,
                 cache, shown>>

\* The stream raised: a cancelled task lets the error through.
StreamFailed ==
  /\ pc = "streamFailed"
  /\ pc' = IF task = "cancelled" THEN "raised" ELSE "recover"
  /\ UNCHANGED <<config, task, record, context, attempt, recovered, adapter, failure,
                 cache, shown>>

\* The recovery decision for a failed stream: fall back, try again (with a smaller
\* context where the strategy says so), or give up.
Recover ==
  /\ pc = "recover"
  /\ failure' = {}
  /\ LET category == Classify(failure)
         partial  == parts # <<>>
         strategy == Strategy(category, "stream", partial)
     IN \/ /\ strategy = "fallback"
           /\ pc' = "generate"
           /\ UNCHANGED <<context, attempt, adapter>>
        \/ /\ strategy # "fallback"
           /\ ShouldRetry(category, strategy, partial) /\ attempt < 2
           /\ attempt' = attempt + 1
           /\ context' = IF strategy = "compact_or_split_context" THEN "small" ELSE context
           /\ StartCall("stream")
        \/ /\ strategy # "fallback"
           /\ ~ShouldRetry(category, strategy, partial) \/ attempt = 2
           /\ pc' = "raised"
           /\ UNCHANGED <<context, attempt, adapter>>
  /\ UNCHANGED <<config, task, record, recovered, cache, shown>>

\* The recovery decision for a failed plain request: one retry, with a compacted
\* context.
CallFailed ==
  /\ pc = "callFailed"
  /\ failure' = {}
  /\ LET category == Classify(failure)
         strategy == Strategy(category, "non_stream", FALSE)
     IN IF ~recovered /\ ShouldRetry(category, strategy, FALSE)
        THEN recovered' = TRUE /\ context' = "small" /\ pc' = "generate"
        ELSE pc' = "raised" /\ UNCHANGED <<recovered, context>>
  /\ UNCHANGED <<config, task, record, attempt, adapter, cache, shown>>

\* The tokens the response used are taken from the worker's budget, which may be
\* exhausted by them.
Answered ==
  /\ pc = "answered"
  /\ pc' \in {"returned", "raised"}
  /\ UNCHANGED <<config, task, record, context, attempt, recovered, adapter, failure,
                 cache, shown>>

\* The loop's handler of a raised error: the record is cancelled with the task, or
\* failed.
Raised ==
  /\ pc = "raised"
  /\ record' = IF task = "cancelled" THEN "cancelled" ELSE "failed"
  /\ pc' = "ended"
  /\ UNCHANGED <<config, task, context, attempt, recovered, adapter, failure, cache,
                 shown>>

\* Text and no tool calls is a final answer, neither is an error.
Parses == final.tools \/ final.text # <<>>

\* The loop reads the task again, parses the response, completes the record, and
\* publishes the text unless it was streamed.
Returned ==
  /\ pc = "returned"
  /\ IF task = "cancelled" THEN record' = "cancelled" /\ UNCHANGED shown
     ELSE IF ~Parses THEN UNCHANGED <<record, shown>>
     ELSE /\ record' = "completed"
          /\ shown' = IF act = "stream" /\ parts # <<>> THEN shown ELSE shown \o final.text
  /\ pc' = "ended"
  /\ UNCHANGED <<config, task, context, attempt, recovered, adapter, failure, cache>>

\* task.cancel, from another thread.
Cancel ==
  /\ task = "running"
  /\ task' = "cancelled"
  /\ UNCHANGED <<config, record, pc, context, attempt, recovered, adapter, failure,
                 cache, shown>>

Turn ==
  \/ Begin \/ Send \/ SendReduced \/ ChatAnswers \/ StreamOpens \/ RequestFails
  \/ Token \/ StreamFinal \/ Generate \/ Generated \/ Publish \/ Streamed
  \/ StreamFailed \/ Recover \/ CallFailed \/ Answered \/ Raised \/ Returned

Next == Turn \/ Cancel

Spec == Init /\ [][Next]_vars

\* The thread of the task runs; a request ends by its timeouts, a stream by the
\* read timeout and by stream_timeout.
FairSpec == Spec /\ WF_vars(Turn)

(***************************************************************************)
(* Properties.                                                             *)
(***************************************************************************)

Pcs == {"idle", "send", "wait", "events", "publish", "streamed", "streamFailed", "recover",
        "generate", "generated", "callFailed", "answered", "raised", "returned", "ended"}

Responses == [text : Seq((0..4) \X (0..Tries)), tools : BOOLEAN, none : BOOLEAN]

\* Every variable has its type; the adapter never goes past its last try nor the
\* turn past its second stream attempt (range() in chat, chat_stream and
\* _request_provider_response).
TypeOK ==
  /\ format \in Formats /\ stream \in {"on", "auto", "off"}
  /\ task \in {"running", "cancelled"}
  /\ record \in {"none", "running", "completed", "failed", "cancelled"}
  /\ pc \in Pcs /\ act \in {"stream", "chat", "via"} /\ context \in {"full", "small"}
  /\ attempt \in 1..2 /\ try \in 1..Tries /\ reduced \in BOOLEAN
  /\ recovered \in BOOLEAN /\ emitted \in BOOLEAN
  /\ parts \in Seq((1..4) \X (1..Tries)) /\ Len(parts) <= MaxTokens
  /\ shown \in Seq((0..4) \X (0..Tries))
  /\ final \in Responses /\ cache \in [{"full", "small"} -> Responses]
  /\ failure \in Errors \cup {{}}

\* A completed turn answers with the text of exactly one response, whatever was
\* streamed, retried and replaced before, and that text is the last thing the
\* client was shown.
AnswerOfOneResponse ==
  record = "completed" =>
    LET n == Len(final.text) IN
    /\ \A i, j \in 1..n : final.text[i] = final.text[j]
    /\ Len(shown) >= n
    /\ SubSeq(shown, Len(shown) - n + 1, Len(shown)) = final.text

\* Every turn that starts comes to its end, whatever fails.
TurnEnds == (pc # "idle") ~> (pc = "ended")

=============================================================================
