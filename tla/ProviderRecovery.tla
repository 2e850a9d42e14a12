-------------------------- MODULE ProviderRecovery --------------------------
(***************************************************************************)
(* The decisions the runtime takes about a failed provider request:        *)
(* provider/failure_recovery.py classifies the error, and                  *)
(* orchestrator/provider_turn.py picks a strategy, decides whether to      *)
(* retry and whether a failed stream may be replaced by a plain request.   *)
(* An error is the set of the classes whose markers its message contains.  *)
(***************************************************************************)
EXTENDS Naturals, Sequences

\* The order in which classify_provider_failure tries its rules.
RuleOrder == <<"auth", "rate_limit", "timeout", "context_too_large", "refusal",
               "server_error", "network", "unsupported_format",
               "request_validation", "invalid_response">>

Rules == {RuleOrder[i] : i \in 1..Len(RuleOrder)}

\* The first rule the message matches names the category.
Classify(error) ==
  IF error \cap Rules = {} THEN "unknown"
  ELSE LET first == CHOOSE i \in 1..Len(RuleOrder) :
                      /\ RuleOrder[i] \in error
                      /\ \A j \in 1..i - 1 : RuleOrder[j] \notin error
       IN RuleOrder[first]

\* Errors the adapter retries by itself.
Retryable == {"rate_limit", "timeout", "server_error", "network", "invalid_response"}

\* Errors that some strategy may recover from.
Recoverable == Retryable \cup {"context_too_large", "unsupported_format", "request_validation"}

\* The message of a tool call whose arguments grow past the limit while they are
\* streamed: it names the arguments and says "before completion".
ArgumentOverflow == {"timeout", "context_too_large"}

\* A plain request may replace a stream that failed.
CanFallback(category, partial) ==
  \/ category = "invalid_response"
  \/ partial /\ category \in {"timeout", "network", "server_error"}

Strategy(category, stage, partial) ==
  CASE category = "auth" -> "fix_provider_credentials"
    [] category = "refusal" -> "ask_user_or_change_request"
    [] category \notin Recoverable /\ category \notin {"auth", "refusal"} -> "surface_error"
    [] category \in Recoverable /\ stage = "stream" /\ CanFallback(category, partial) -> "fallback"
    [] OTHER ->
         CASE category = "context_too_large" -> "compact_or_split_context"
           [] category = "unsupported_format" -> "fix_provider_api_format"
           [] category = "request_validation" -> "fix_provider_request"
           [] category = "invalid_response" -> "inspect_provider_response"
           [] OTHER -> IF ~partial THEN "surface_error"
                       ELSE IF category \in {"rate_limit", "server_error"}
                            THEN "retry_with_backoff" ELSE "retry"

\* _provider_recovery_should_retry, for the strategies Strategy returns.
ShouldRetry(category, strategy, partial) ==
  /\ category \in Recoverable
  /\ \/ strategy \in {"retry", "retry_with_backoff"} /\ category \in Retryable /\ partial
     \/ /\ strategy \in {"compact_or_split_context", "fallback"}
        /\ category = "context_too_large" \/ (partial /\ category \in Retryable)
=============================================================================
