--------------------------- MODULE MCProviderTurn ---------------------------
(* The provider turn with two tries per call and responses of at most two      *)
(* tokens. One error of each class the retries tell apart; three of the        *)
(* messages match several rules.                                               *)
EXTENDS ProviderTurn

\* The two formats the turn treats differently; anthropic-messages is handled as
\* openai-chat here.
MCFormats == {"openai-chat", "openai-responses"}

MCErrors == {{"auth"}, {"rate_limit"}, {"timeout", "network"}, {"context_too_large", "request_validation"},
             {"invalid_response"}, ArgumentOverflow}
=============================================================================
