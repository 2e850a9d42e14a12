----------------------- MODULE TurnAndContext_proofs -----------------------
(* Two components that share nothing, in one module.                          *)
(*                                                                            *)
(* Provider turns: which text a turn answers with and shows, for any formats, *)
(* errors and tokens, and any number of tries.                                *)
(*                                                                            *)
(* The context: what the builder fits into the token budget, for any texts    *)
(* and any budget.                                                            *)
EXTENDS ProviderTurn, ContextWindow, SequenceTheorems, WellFoundedInduction, TLAPS

Tok == (0..4) \X (0..Tries)

-----------------------------------------------------------------------------
(* The inductive invariant.                                                  *)

Uniform(s) == \A i, j \in 1..Len(s) : s[i] = s[j]

\* The last n elements of s are the first n of t.
EndsWith(s, t, n) == n <= Len(s) /\ \A i \in 1..n : s[Len(s) - n + i] = t[i]

Asking == {"send", "wait", "events", "publish"}

\* A response, cached or at hand, is the text of one request.
OneSource == Uniform(final.text) /\ \A c \in {"full", "small"} : Uniform(cache[c].text)

\* While the adapter works, all it collected comes from the current try, and
\* nothing is collected before an event was handed out.
FromThisTry ==
  pc \in Asking =>
    /\ \A i \in 1..Len(parts) : parts[i] = Request
    /\ emitted \/ parts = <<>>
    /\ final.none
    /\ pc = "publish" => act = "stream" /\ parts # <<>>
    /\ act = "chat" => ~emitted /\ pc \in {"send", "wait"}

\* What a stream collected is what was shown last, up to the token that is
\* about to be published.
StreamShown ==
  act = "stream" =>
    /\ pc \in {"send", "wait", "events", "streamed", "answered", "returned"}
         => EndsWith(shown, parts, Len(parts))
    /\ pc = "publish" => EndsWith(shown, parts, Len(parts) - 1)
    /\ pc # "generated"
    /\ pc \in {"answered", "returned"} => ~final.none
    /\ pc \in {"streamed", "answered", "returned"} /\ ~final.none => final.text = parts

\* The record is completed by the turn's last step, after the text went out.
ClosedLast ==
  record = "completed" => pc = "ended" /\ EndsWith(shown, final.text, Len(final.text))

IndInv == TypeOK /\ OneSource /\ FromThisTry /\ StreamShown /\ ClosedLast

-----------------------------------------------------------------------------
(* Types.                                                                    *)

\* The current request is a token of text.
LEMMA RequestType ==
  ASSUME TypeOK
  PROVE  Request \in (1..4) \X (1..Tries) /\ Request \in Tok
<1>1. Tries \in Nat \ {0}
  BY ProviderAssumption
<1>2. (IF act = "stream" THEN attempt ELSE IF recovered THEN 4 ELSE 3) \in 1..4
  BY DEF TypeOK
<1>. QED
  BY <1>1, <1>2 DEF Request, TypeOK, Tok

\* Nothing, a text of the current request and what was collected are responses.
LEMMA ResponseTypes ==
  ASSUME TypeOK
  PROVE  /\ None \in Responses
         /\ \A tools \in BOOLEAN : Response(parts, tools) \in Responses
         /\ \A n \in Nat, tools \in BOOLEAN : Response(Text(n), tools) \in Responses
         /\ <<>> \in Seq((1..4) \X (1..Tries))
<1>1. Tries \in Nat \ {0}
  BY ProviderAssumption
<1>2. parts \in Seq(Tok)
  <2>1. (1..4) \X (1..Tries) \subseteq Tok
    BY <1>1 DEF Tok
  <2>. QED
    BY <2>1, SeqMonotonic DEF TypeOK
<1>3. ASSUME NEW n \in Nat PROVE Text(n) \in Seq(Tok)
  BY <1>3, RequestType DEF Text
<1>4. <<>> \in Seq(Tok) /\ <<>> \in Seq((1..4) \X (1..Tries))
  OBVIOUS
<1>. QED
  BY <1>2, <1>3, <1>4 DEF None, Response, Responses, Tok

\* A new call of the adapter is typed.
LEMMA StartTypes ==
  ASSUME TypeOK, NEW a \in {"stream", "chat", "via"}, StartCall(a)
  PROVE  /\ act' \in {"stream", "chat", "via"} /\ try' \in 1..Tries /\ reduced' \in BOOLEAN
         /\ parts' \in Seq((1..4) \X (1..Tries)) /\ Len(parts') <= MaxTokens
         /\ emitted' \in BOOLEAN /\ final' \in Responses /\ pc' \in Pcs
<1>1. Tries \in Nat \ {0} /\ MaxTokens \in Nat
  BY ProviderAssumption
<1>2. act' = a /\ try' = 1 /\ reduced' = FALSE /\ parts' = <<>> /\ emitted' = FALSE
      /\ final' = None /\ pc' = "send"
  BY DEF StartCall
<1>3. Len(parts') = 0
  BY <1>2
<1>4. final' \in Responses /\ parts' \in Seq((1..4) \X (1..Tries))
  BY <1>2, ResponseTypes
<1>5. reduced' \in BOOLEAN /\ emitted' \in BOOLEAN /\ pc' \in Pcs /\ act' \in {"stream", "chat", "via"}
  BY <1>2, Zenon DEF Pcs
<1>6. try' \in 1..Tries /\ Len(parts') <= MaxTokens
  BY <1>1, <1>2, <1>3
<1>. QED
  BY <1>4, <1>5, <1>6

\* A failed request leaves everything typed.
LEMMA FailTypes ==
  ASSUME TypeOK, RequestFails
  PROVE  TypeOK'
<1>1. UNCHANGED <<config, task, record, context, attempt, recovered, cache, shown>>
  BY DEF RequestFails
<1>2. PICK error \in Errors : IF act = "chat" THEN ChatFails(error) ELSE StreamFails(error)
  BY DEF RequestFails
<1>3. CASE StartCall("via") /\ UNCHANGED failure
  BY <1>1, <1>3, StartTypes DEF TypeOK, config
<1>4. CASE try < Tries /\ RetryCall
  <2>1. try' \in 1..Tries
    BY <1>4, ProviderAssumption DEF RetryCall, TypeOK
  <2>. QED
    BY <1>1, <1>4, <2>1 DEF RetryCall, TypeOK, config, Pcs
<1>5. CASE Raise(error)
  BY <1>1, <1>5 DEF Raise, TypeOK, config, adapter, Pcs
<1>. QED
  BY <1>2, <1>3, <1>4, <1>5 DEF ChatFails, StreamFails

\* Every step keeps the types; a token that is published is there.
LEMMA TypeStep == TypeOK /\ FromThisTry /\ [Next]_vars => TypeOK'
<1> SUFFICES ASSUME TypeOK, FromThisTry, [Next]_vars PROVE TypeOK'
  OBVIOUS
<1>a. Tries \in Nat \ {0} /\ MaxTokens \in Nat
  BY ProviderAssumption
<1>1. CASE Begin
  <2>1. CASE StartCall("stream")
    BY <1>1, <2>1, StartTypes DEF Begin, TypeOK, config
  <2>2. CASE pc' = "generate" /\ UNCHANGED adapter
    BY <1>1, <2>2 DEF Begin, TypeOK, config, adapter, Pcs
  <2>. QED
    BY <1>1, <2>1, <2>2 DEF Begin
<1>2. CASE Send \/ SendReduced \/ StreamOpens
  BY <1>2 DEF Send, SendReduced, StreamOpens, TypeOK, config, adapter, Pcs
<1>3. CASE ChatAnswers
  <2>1. final' \in Responses
    BY <1>a, <1>3, ResponseTypes DEF ChatAnswers
  <2>. QED
    BY <1>3, <2>1 DEF ChatAnswers, TypeOK, config, Pcs
<1>4. CASE RequestFails
  BY <1>4, FailTypes
<1>5. CASE Token
  <2>1. parts' \in Seq((1..4) \X (1..Tries)) /\ Len(parts') <= MaxTokens
    <3>1. CASE parts' = parts
      BY <3>1 DEF TypeOK
    <3>2. CASE parts' = Append(parts, Request)
      BY <1>a, <1>5, <3>2, RequestType DEF Token, TypeOK
    <3>. QED
      BY <1>5, <3>1, <3>2 DEF Token
  <2>2. pc' \in Pcs /\ emitted' \in BOOLEAN
    BY <1>5 DEF Token, Pcs
  <2>. QED
    BY <1>5, <2>1, <2>2 DEF Token, TypeOK, config
<1>6. CASE StreamFinal
  <2>1. final' \in Responses
    BY <1>6, ResponseTypes DEF StreamFinal
  <2>. QED
    BY <1>6, <2>1 DEF StreamFinal, TypeOK, config, Pcs
<1>7. CASE Generate
  <2>1. CASE StartCall("via") \/ StartCall("chat")
    BY <1>7, <2>1, StartTypes DEF Generate, TypeOK, config
  <2>2. CASE /\ final' = cache[context] /\ pc' = "answered"
             /\ act' = "chat" /\ UNCHANGED <<try, reduced, parts, emitted>>
    BY <1>7, <2>2 DEF Generate, TypeOK, config, Pcs
  <2>. QED
    BY <1>7, <2>1, <2>2 DEF Generate
<1>8. CASE Generated
  BY <1>8 DEF Generated, TypeOK, config, adapter, Pcs
<1>9. CASE Publish
  <2>1. parts # <<>>
    BY <1>9 DEF Publish, FromThisTry, Asking
  <2>2. Len(parts) \in 1..Len(parts) /\ parts[Len(parts)] \in (1..4) \X (1..Tries)
    BY <2>1 DEF TypeOK
  <2>3. parts[Len(parts)] \in Tok
    BY <1>a, <2>2 DEF Tok
  <2>4. shown' \in Seq(Tok)
    BY <1>9, <2>3 DEF Publish, TypeOK, Tok
  <2>. QED
    BY <1>9, <2>4 DEF Publish, TypeOK, config, adapter, Pcs, Tok
<1>10. CASE Streamed \/ StreamFailed \/ Answered \/ Raised
  BY <1>10 DEF Streamed, StreamFailed, Answered, Raised, TypeOK, config, adapter, Pcs
<1>11. CASE Recover
  <2>1. CASE StartCall("stream") /\ attempt < 2 /\ attempt' = attempt + 1
             /\ context' \in {"small", context}
    BY <1>11, <2>1, StartTypes DEF Recover, TypeOK, config
  <2>2. CASE pc' \in {"generate", "raised"} /\ UNCHANGED <<context, attempt, adapter>>
    BY <1>11, <2>2 DEF Recover, TypeOK, config, adapter, Pcs
  <2>. QED
    BY <1>11, <2>1, <2>2 DEF Recover
<1>12. CASE CallFailed
  BY <1>12, ZenonT(40) DEF CallFailed, TypeOK, config, adapter, Pcs
<1>13. CASE Returned
  <2>1. final.text \in Seq(Tok) /\ shown \in Seq(Tok)
    BY DEF TypeOK, Responses, Tok
  <2>2. shown' \in Seq(Tok)
    BY <1>13, <2>1, ConcatProperties DEF Returned
  <2>. QED
    BY <1>13, <2>2 DEF Returned, TypeOK, config, adapter, Pcs, Tok
<1>14. CASE Cancel \/ UNCHANGED vars
  BY <1>14 DEF Cancel, vars, TypeOK, config, adapter
<1>. QED
  BY <1>1, <1>2, <1>3, <1>4, <1>5, <1>6, <1>7, <1>8, <1>9, <1>10, <1>11, <1>12, <1>13,
     <1>14 DEF Next, Turn

-----------------------------------------------------------------------------
(* Responses have one source.                                                *)

\* A text of the current request is uniform, and so is what the current try
\* collected.
LEMMA UniformTexts ==
  ASSUME TypeOK
  PROVE  /\ \A n \in Nat : Uniform(Text(n))
         /\ (\A i \in 1..Len(parts) : parts[i] = Request) => Uniform(parts)
         /\ Uniform(None.text)
BY RequestType DEF Uniform, Text, None

\* Every step keeps each response the text of one request.
LEMMA SourceStep == TypeOK /\ OneSource /\ FromThisTry /\ [Next]_vars => OneSource'
<1> SUFFICES ASSUME TypeOK, OneSource, FromThisTry, [Next]_vars PROVE OneSource'
  OBVIOUS
<1> USE DEF OneSource
<1>1. ASSUME UNCHANGED cache, \/ UNCHANGED final
                              \/ final' = None
                              \/ final' \in {cache[c] : c \in {"full", "small"}}
      PROVE  OneSource'
  BY <1>1, UniformTexts
<1>2. CASE ChatAnswers
  <2>1. PICK n \in 0..MaxTokens, tools \in BOOLEAN : final' = Response(Text(n), tools)
    BY <1>2 DEF ChatAnswers
  <2>2. n \in Nat
    BY ProviderAssumption
  <2>3. final'.text = Text(n)
    BY <2>1 DEF Response
  <2>. QED
    BY <1>2, <2>2, <2>3, UniformTexts DEF ChatAnswers
<1>3. CASE StreamFinal
  <2>1. final'.text = parts
    BY <1>3 DEF StreamFinal, Response
  <2>2. \A i \in 1..Len(parts) : parts[i] = Request
    BY <1>3 DEF StreamFinal, FromThisTry, Asking
  <2>. QED
    BY <1>3, <2>1, <2>2, UniformTexts DEF StreamFinal
<1>4. CASE Generated
  <2>1. cache' = [cache EXCEPT ![context] = final] /\ UNCHANGED final
    BY <1>4 DEF Generated, adapter
  <2>. QED
    BY <2>1 DEF TypeOK
<1>5. CASE Generate
  <2>1. UNCHANGED cache
    BY <1>5 DEF Generate
  <2>2. final' = None \/ final' \in {cache[c] : c \in {"full", "small"}}
    BY <1>5 DEF Generate, StartCall, TypeOK
  <2>. QED
    BY <1>1, <2>1, <2>2
<1>6. CASE Begin \/ Recover \/ RequestFails
  <2>1. UNCHANGED cache
    BY <1>6 DEF Begin, Recover, RequestFails
  <2>2. UNCHANGED final \/ final' = None
    BY <1>6 DEF Begin, Recover, RequestFails, ChatFails, StreamFails, StartCall, RetryCall,
       Raise, adapter
  <2>. QED
    BY <1>1, <2>1, <2>2
<1>7. CASE Send \/ SendReduced \/ StreamOpens \/ Token \/ Publish \/ Streamed \/ StreamFailed
           \/ CallFailed \/ Answered \/ Raised \/ Returned \/ Cancel \/ UNCHANGED vars
  <2>1. UNCHANGED <<cache, final>>
    BY <1>7 DEF Send, SendReduced, StreamOpens, Token, Publish, Streamed, StreamFailed,
       CallFailed, Answered, Raised, Returned, Cancel, vars, adapter
  <2>. QED
    BY <1>1, <2>1
<1>. QED
  BY <1>2, <1>3, <1>4, <1>5, <1>6, <1>7 DEF Next, Turn

-----------------------------------------------------------------------------
(* What the adapter collects.                                                *)

\* A new call has collected nothing.
LEMMA StartFresh ==
  ASSUME NEW a, StartCall(a)
  PROVE  FromThisTry'
<1>1. parts' = <<>> /\ final' = None /\ pc' = "send" /\ ~emitted'
  BY DEF StartCall
<1>2. Len(parts') = 0 /\ final'.none
  BY <1>1 DEF None
<1>. QED
  BY <1>1, <1>2 DEF FromThisTry

\* Every step of the adapter collects from one try only.
LEMMA TryStep == TypeOK /\ FromThisTry /\ [Next]_vars => FromThisTry'
<1> SUFFICES ASSUME TypeOK, FromThisTry, [Next]_vars PROVE FromThisTry'
  OBVIOUS
<1>1. CASE pc' \notin Asking
  BY <1>1 DEF FromThisTry
<1>2. CASE Begin \/ Generate \/ Recover
  <2>1. pc' \notin Asking \/ \E a \in {"stream", "chat", "via"} : StartCall(a)
    BY <1>2 DEF Begin, Generate, Recover, Asking
  <2>. QED
    BY <1>1, <2>1, StartFresh
<1>3. CASE RequestFails
  <2>1. PICK error \in Errors : IF act = "chat" THEN ChatFails(error) ELSE StreamFails(error)
    BY <1>3 DEF RequestFails
  <2>2. CASE RetryCall
    <3>1. ~emitted
      BY <1>3, <2>1, <2>2 DEF RequestFails, ChatFails, StreamFails, FromThisTry, Asking,
         StartCall, Raise, adapter, RetryCall, TypeOK
    <3>. QED
      BY <1>3, <2>2, <3>1 DEF RetryCall, FromThisTry, RequestFails, Asking
  <2>3. CASE Raise(error)
    BY <1>1, <2>3 DEF Raise, Asking
  <2>4. CASE StartCall("via")
    BY <2>4, StartFresh
  <2>. QED
    BY <2>1, <2>2, <2>3, <2>4 DEF ChatFails, StreamFails
<1>4. CASE Token
  <2>1. CASE parts' = Append(parts, Request)
    <3>1. UNCHANGED Request
      BY <1>4 DEF Token, Request
    <3>2. \A i \in 1..Len(parts') : parts'[i] = Request
      BY <1>4, <2>1, RequestType DEF Token, FromThisTry, Asking, TypeOK
    <3>3. parts' # <<>> /\ emitted' /\ UNCHANGED <<final, act>> /\ pc = "events"
          /\ (pc' = "publish" => act = "stream")
      BY <1>4, <2>1, RequestType DEF Token, TypeOK
    <3>. QED
      BY <3>1, <3>2, <3>3 DEF FromThisTry, Asking
  <2>2. CASE pc' = "streamFailed"
    BY <1>1, <2>2 DEF Asking
  <2>. QED
    BY <1>4, <2>1, <2>2 DEF Token
<1>5. CASE Send \/ SendReduced \/ StreamOpens
  <2>1. pc \in {"send", "wait"} /\ pc' \in {"wait", "events"}
        /\ UNCHANGED <<act, attempt, recovered, try, parts, emitted, final>>
    BY <1>5 DEF Send, SendReduced, StreamOpens, adapter
  <2>2. UNCHANGED Request
    BY <2>1 DEF Request
  <2>3. act = "chat" => pc' = "wait"
    BY <1>5 DEF Send, SendReduced, StreamOpens
  <2>. QED
    BY <2>1, <2>2, <2>3 DEF FromThisTry, Asking
<1>6. CASE Publish
  <2>1. UNCHANGED <<act, attempt, recovered, try, parts, emitted, final>>
    BY <1>6 DEF Publish, adapter
  <2>2. UNCHANGED Request
    BY <2>1 DEF Request
  <2>3. pc = "publish" /\ pc' \in {"events", "streamed"}
    BY <1>6 DEF Publish
  <2>. QED
    BY <2>1, <2>2, <2>3 DEF FromThisTry, Asking
<1>7. CASE Cancel \/ UNCHANGED vars
  <2>1. UNCHANGED <<pc, act, attempt, recovered, try, parts, emitted, final>>
    BY <1>7 DEF Cancel, vars, adapter
  <2>2. UNCHANGED Request
    BY <2>1 DEF Request
  <2>. QED
    BY <2>1, <2>2 DEF FromThisTry
<1>8. CASE ChatAnswers \/ StreamFinal \/ Generated \/ Streamed \/ StreamFailed \/ CallFailed
           \/ Answered \/ Raised \/ Returned
  <2>1. pc' \notin Asking
    BY <1>8 DEF ChatAnswers, StreamFinal, Generated, Streamed, StreamFailed, CallFailed,
       Answered, Raised, Returned, Asking
  <2>. QED
    BY <1>1, <2>1
<1>. QED
  BY <1>2, <1>3, <1>4, <1>5, <1>6, <1>7, <1>8 DEF Next, Turn

-----------------------------------------------------------------------------
(* What the client is shown.                                                 *)

\* A new call has nothing to show.
LEMMA StartShown ==
  ASSUME TypeOK', NEW a, StartCall(a)
  PROVE  StreamShown'
<1>1. parts' = <<>> /\ pc' = "send"
  BY DEF StartCall
<1>2. Len(parts') = 0 /\ Len(shown') \in Nat
  BY <1>1 DEF TypeOK
<1>. QED
  BY <1>1, <1>2 DEF StreamShown, EndsWith

\* Every step keeps what a stream collected the last thing that was shown.
LEMMA ShownStep ==
  ASSUME TypeOK, TypeOK', FromThisTry, StreamShown, [Next]_vars
  PROVE  StreamShown'
<1> USE DEF StreamShown
<1>a. Len(parts) \in Nat /\ Len(shown) \in Nat
  BY DEF TypeOK
<1>1. CASE \/ act' # "stream"
           \/ pc' \notin (Asking \cup {"streamed", "generated", "answered", "returned"})
  BY <1>1 DEF Asking
<1>2. CASE Begin \/ Recover
  <2>1. \/ pc' \notin (Asking \cup {"streamed", "generated", "answered", "returned"})
        \/ StartCall("stream")
    BY <1>2 DEF Begin, Recover, Asking
  <2>. QED
    BY <1>1, <2>1, StartShown
<1>3. CASE Generate
  BY <1>1, <1>3 DEF Generate, StartCall
<1>4. CASE RequestFails
  <2>1. PICK error \in Errors : IF act = "chat" THEN ChatFails(error) ELSE StreamFails(error)
    BY <1>4 DEF RequestFails
  <2>2. CASE RetryCall
    BY <1>4, <2>2 DEF RetryCall, RequestFails
  <2>3. CASE Raise(error)
    BY <1>1, <2>3 DEF Raise, Asking
  <2>4. CASE StartCall("via")
    BY <1>1, <2>4 DEF StartCall
  <2>. QED
    BY <2>1, <2>2, <2>3, <2>4 DEF ChatFails, StreamFails
<1>5. CASE Token
  <2>1. CASE parts' = Append(parts, Request)
    <3>1. Len(parts') = Len(parts) + 1 /\ \A i \in 1..Len(parts) : parts'[i] = parts[i]
      BY <2>1, RequestType DEF TypeOK
    <3>2. UNCHANGED <<act, shown, final>> /\ pc = "events"
          /\ pc' = (IF act = "stream" THEN "publish" ELSE "events")
      BY <1>5, <2>1, <3>1, <1>a DEF Token
    <3>3. act = "stream" => EndsWith(shown, parts', Len(parts') - 1)
      BY <1>a, <3>1, <3>2 DEF EndsWith
    <3>. QED
      BY <3>2, <3>3
  <2>2. CASE pc' = "streamFailed"
    BY <1>1, <2>2 DEF Asking
  <2>. QED
    BY <1>5, <2>1, <2>2 DEF Token
<1>6. CASE Publish
  <2>1. UNCHANGED <<act, parts, final>> /\ pc = "publish" /\ pc' \in {"events", "streamed"}
        /\ shown' = Append(shown, parts[Len(parts)])
    BY <1>6 DEF Publish, adapter
  <2>2. act = "stream" /\ parts # <<>> /\ final.none
    BY <2>1 DEF FromThisTry, Asking
  <2>3. Len(parts) > 0
    BY <2>2 DEF TypeOK
  <2>4. parts[Len(parts)] \in Tok
    <3>1. parts[Len(parts)] \in (1..4) \X (1..Tries)
      BY <2>3 DEF TypeOK
    <3>. QED
      BY <3>1, ProviderAssumption DEF Tok
  <2>5. /\ Len(shown') = Len(shown) + 1
        /\ \A i \in 1..Len(shown) : shown'[i] = shown[i]
        /\ shown'[Len(shown) + 1] = parts[Len(parts)]
    BY <2>1, <2>4 DEF TypeOK, Tok
  <2>6. EndsWith(shown, parts, Len(parts) - 1)
    BY <2>1, <2>2
  <2>7. EndsWith(shown', parts, Len(parts))
    <3>1. Len(parts) <= Len(shown')
      BY <1>a, <2>3, <2>5, <2>6 DEF EndsWith
    <3>2. ASSUME NEW i \in 1..Len(parts) PROVE shown'[Len(shown') - Len(parts) + i] = parts[i]
      <4>1. CASE i = Len(parts)
        BY <1>a, <2>5, <4>1
      <4>2. CASE i # Len(parts)
        <5>1. i \in 1..(Len(parts) - 1) /\ Len(shown) - (Len(parts) - 1) + i \in 1..Len(shown)
          BY <1>a, <2>3, <2>6, <4>2 DEF EndsWith
        <5>2. shown[Len(shown) - (Len(parts) - 1) + i] = parts[i]
          BY <2>6, <5>1 DEF EndsWith
        <5>3. Len(shown') - Len(parts) + i = Len(shown) - (Len(parts) - 1) + i
          BY <1>a, <2>5
        <5>. QED
          BY <2>5, <5>1, <5>2, <5>3
      <4>. QED
        BY <4>1, <4>2
    <3>. QED
      BY <3>1, <3>2 DEF EndsWith
  <2>. QED
    BY <2>1, <2>2, <2>7
<1>7. CASE StreamFinal
  <2>1. UNCHANGED <<act, parts, shown>> /\ pc = "events" /\ ~final'.none /\ final'.text = parts
    BY <1>7 DEF StreamFinal, Response
  <2>2. act = "stream" => pc' = "streamed"
    BY <1>7 DEF StreamFinal
  <2>. QED
    BY <2>1, <2>2
<1>8. CASE Generated
  BY <1>8 DEF Generated, adapter
<1>9. CASE ChatAnswers
  BY <1>9 DEF ChatAnswers
<1>10. CASE Send \/ SendReduced \/ StreamOpens
  <2>1. pc \in {"send", "wait"} /\ pc' \in {"wait", "events"} /\ UNCHANGED <<act, parts, shown>>
    BY <1>10 DEF Send, SendReduced, StreamOpens, adapter
  <2>. QED
    BY <2>1
<1>11. CASE Streamed \/ Answered
  <2>1. pc \in {"streamed", "answered"} /\ UNCHANGED <<act, parts, shown, final>>
    BY <1>11 DEF Streamed, Answered, adapter
  <2>2. pc' \in {"raised", "generate"} \/ (pc' \in {"answered", "returned"} /\ (pc = "streamed" => ~final.none))
    BY <1>11 DEF Streamed, Answered
  <2>. QED
    BY <2>1, <2>2
<1>12. CASE StreamFailed \/ CallFailed \/ Raised \/ Returned
  <2>1. pc' \notin (Asking \cup {"streamed", "generated", "answered", "returned"})
    BY <1>12 DEF StreamFailed, CallFailed, Raised, Returned, Asking
  <2>. QED
    BY <1>1, <2>1
<1>13. CASE Cancel \/ UNCHANGED vars
  BY <1>13 DEF Cancel, vars, adapter
<1>. QED
  BY <1>2, <1>3, <1>4, <1>5, <1>6, <1>7, <1>8, <1>9, <1>10, <1>11, <1>12, <1>13 DEF Next, Turn

\* The loop completes a record only after the text of the response went out.
LEMMA ClosedStep ==
  ASSUME TypeOK, StreamShown, ClosedLast, [Next]_vars
  PROVE  ClosedLast'
<1> USE DEF ClosedLast
<1>1. CASE Returned
  <2>1. CASE record' = "completed" /\ record # "completed"
    <3>1. UNCHANGED final /\ pc' = "ended" /\ pc = "returned"
      BY <1>1 DEF Returned, adapter
    <3>2. final.text \in Seq(Tok) /\ shown \in Seq(Tok)
      BY DEF TypeOK, Responses, Tok
    <3>3. CASE act = "stream" /\ parts # <<>>
      <4>1. UNCHANGED shown
        BY <1>1, <2>1, <3>3 DEF Returned
      <4>2. final.text = parts /\ EndsWith(shown, parts, Len(parts))
        BY <3>1, <3>3 DEF StreamShown
      <4>. QED
        BY <3>1, <4>1, <4>2
    <3>4. CASE ~(act = "stream" /\ parts # <<>>)
      <4>1. shown' = shown \o final.text
        BY <1>1, <2>1, <3>4 DEF Returned
      <4>2. /\ Len(shown') = Len(shown) + Len(final.text)
            /\ Len(shown) \in Nat /\ Len(final.text) \in Nat
            /\ \A i \in 1..Len(final.text) : shown'[Len(shown) + i] = final.text[i]
        BY <3>2, <4>1
      <4>3. EndsWith(shown', final.text, Len(final.text))
        BY <4>2 DEF EndsWith
      <4>. QED
        BY <3>1, <4>3
    <3>. QED
      BY <3>3, <3>4
  <2>2. CASE record = "completed"
    BY <1>1, <2>2 DEF Returned
  <2>. QED
    BY <2>1, <2>2
<1>2. CASE Raised \/ Begin
  BY <1>2 DEF Raised, Begin
<1>3. CASE Cancel \/ UNCHANGED vars
  BY <1>3 DEF Cancel, vars, adapter
<1>4. CASE Turn /\ ~(Returned \/ Raised \/ Begin)
  <2>1. UNCHANGED record
    BY <1>4 DEF Turn, Send, SendReduced, ChatAnswers, StreamOpens, RequestFails, Token,
       StreamFinal, Generate, Generated, Publish, Streamed, StreamFailed, Recover,
       CallFailed, Answered
  <2>2. pc # "ended"
    BY <1>4 DEF Turn, Send, SendReduced, ChatAnswers, StreamOpens, RequestFails, Token,
       StreamFinal, Generate, Generated, Publish, Streamed, StreamFailed, Recover,
       CallFailed, Answered
  <2>. QED
    BY <2>1, <2>2
<1>. QED
  BY <1>1, <1>2, <1>3, <1>4 DEF Next, Turn

-----------------------------------------------------------------------------
(* The theorems.                                                             *)

\* The invariant holds of every state a provider turn reaches.
THEOREM Inductive == Spec => []IndInv
<1>1. Init => IndInv
  <2> SUFFICES ASSUME Init PROVE IndInv
    OBVIOUS
  <2>1. Tries \in Nat \ {0} /\ MaxTokens \in Nat
    BY ProviderAssumption
  <2>2. Response(<< <<0, 0>> >>, FALSE) \in Responses /\ None \in Responses
    BY <2>1 DEF Response, None, Responses
  <2>3. TypeOK
    <3>1. parts = <<>> /\ shown = <<>> /\ Len(parts) = 0
      BY DEF Init
    <3>2. cache \in [{"full", "small"} -> Responses] /\ final \in Responses
      BY <2>2 DEF Init
    <3>3. parts \in Seq((1..4) \X (1..Tries)) /\ shown \in Seq((0..4) \X (0..Tries))
          /\ Len(parts) <= MaxTokens /\ attempt \in 1..2 /\ try \in 1..Tries
      BY <2>1, <3>1 DEF Init
    <3>4. /\ format \in Formats /\ stream \in {"on", "auto", "off"}
          /\ task \in {"running", "cancelled"} /\ record = "none" /\ pc \in Pcs
          /\ act = "chat" /\ context = "full" /\ failure = {}
      BY DEF Init, Pcs
    <3>5. reduced \in BOOLEAN /\ recovered \in BOOLEAN /\ emitted \in BOOLEAN
      BY Zenon DEF Init
    <3>. QED
      BY <3>2, <3>3, <3>4, <3>5 DEF TypeOK
  <2>4. OneSource
    <3>1. Uniform(None.text) /\ Uniform(Response(<< <<0, 0>> >>, FALSE).text)
      BY DEF Uniform, None, Response
    <3>2. \A c \in {"full", "small"} : cache[c] \in {None, Response(<< <<0, 0>> >>, FALSE)}
      BY DEF Init
    <3>. QED
      BY <3>1, <3>2 DEF Init, OneSource
  <2>5. FromThisTry /\ StreamShown /\ ClosedLast
    BY DEF Init, FromThisTry, StreamShown, ClosedLast, Asking
  <2>. QED
    BY <2>3, <2>4, <2>5 DEF IndInv
<1>2. IndInv /\ [Next]_vars => IndInv'
  <2> SUFFICES ASSUME IndInv, [Next]_vars PROVE IndInv'
    OBVIOUS
  <2>1. TypeOK' /\ OneSource' /\ FromThisTry'
    BY TypeStep, SourceStep, TryStep DEF IndInv
  <2>2. StreamShown' /\ ClosedLast'
    BY <2>1, ShownStep, ClosedStep DEF IndInv
  <2>. QED
    BY <2>1, <2>2 DEF IndInv
<1>. QED
  BY <1>1, <1>2, PTL DEF Spec

\* The adapter never goes past its last try nor the turn past its second stream
\* attempt, and every variable keeps its type.
THEOREM TypeCorrect == Spec => []TypeOK
<1>1. IndInv => TypeOK
  BY DEF IndInv
<1>. QED
  BY <1>1, Inductive, PTL

\* The elements that end a sequence are the subsequence at its end.
LEMMA LastElements ==
  ASSUME NEW S, NEW s \in Seq(S), NEW t \in Seq(S), EndsWith(s, t, Len(t))
  PROVE  SubSeq(s, Len(s) - Len(t) + 1, Len(s)) = t
<1> DEFINE m == Len(s) - Len(t) + 1
           u == SubSeq(s, m, Len(s))
<1>1. Len(s) \in Nat /\ Len(t) \in Nat /\ Len(t) <= Len(s) /\ m \in Int /\ m >= 1
  BY DEF EndsWith
<1>2. \A i \in m..Len(s) : s[i] \in S
  BY <1>1
<1>3. u \in Seq(S) /\ Len(u) = (IF m <= Len(s) THEN Len(s) - m + 1 ELSE 0)
      /\ \A i \in 1..(Len(s) - m + 1) : u[i] = s[m + i - 1]
  BY <1>1, <1>2, SubSeqProperties
<1>4. Len(u) = Len(t)
  BY <1>1, <1>3
<1>5. ASSUME NEW i \in 1..Len(u) PROVE u[i] = t[i]
  <2>1. i \in 1..(Len(s) - m + 1) /\ m + i - 1 = Len(s) - Len(t) + i /\ i \in 1..Len(t)
    BY <1>1, <1>4
  <2>. QED
    BY <1>3, <2>1 DEF EndsWith
<1>. QED
  BY <1>3, <1>4, <1>5, SeqEqual

\* A completed turn answers with the text of one response, and that text is the
\* last thing the client was shown, whatever was streamed, retried and replaced.
THEOREM AnswerOfOneResponseHolds == Spec => []AnswerOfOneResponse
<1>1. IndInv => AnswerOfOneResponse
  <2> SUFFICES ASSUME IndInv, record = "completed" PROVE AnswerOfOneResponse
    BY DEF AnswerOfOneResponse
  <2>1. final.text \in Seq(Tok) /\ shown \in Seq(Tok)
    BY DEF IndInv, TypeOK, Responses, Tok
  <2>2. EndsWith(shown, final.text, Len(final.text))
    BY DEF IndInv, ClosedLast
  <2>3. SubSeq(shown, Len(shown) - Len(final.text) + 1, Len(shown)) = final.text
    BY <2>1, <2>2, LastElements
  <2>4. \A i, j \in 1..Len(final.text) : final.text[i] = final.text[j]
    BY DEF IndInv, OneSource, Uniform
  <2>. QED
    BY <2>2, <2>3, <2>4 DEF AnswerOfOneResponse, EndsWith
<1>. QED
  BY <1>1, Inductive, PTL

-----------------------------------------------------------------------------
(* Numbers and chains.                                                       *)

\* A set of naturals has a least element.
LEMMA LeastExists ==
  ASSUME NEW S \in SUBSET Nat, S # {}
  PROVE  \E i \in S : \A j \in S : i <= j
<1>1. PICK x \in S : \A y \in S : <<y, x>> \notin OpToRel(<, Nat)
  BY NatLessThanWellFounded, WFMin, Zenon
<1>2. \A y \in S : ~ (y < x)
  BY <1>1 DEF OpToRel
<1>. QED BY <1>2

\* A set of naturals that has 0 and, with n, n + 1, has every natural.
LEMMA NatInduct ==
  ASSUME NEW S, 0 \in S, \A n \in Nat : n \in S => n + 1 \in S
  PROVE  Nat \subseteq S
<1> DEFINE T == Nat \ S
<1>1. ASSUME T # {} PROVE FALSE
  <2>1. T \in SUBSET Nat
    OBVIOUS
  <2>2. PICK x \in T : \A y \in T : x <= y
    <3>. HIDE DEF T
    <3>. QED BY <1>1, <2>1, LeastExists
  <2>3. x # 0 /\ x - 1 \in Nat
    OBVIOUS
  <2>4. x - 1 \notin T
    BY <2>2, <2>3
  <2>. QED BY <2>3, <2>4
<1>. QED BY <1>1

\* f starts at b and goes from one link to the next by an element of s.
IsChain(f, n, A, b, s, next) ==
  /\ f \in [0 .. n -> A] /\ f[0] = b
  /\ \A i \in 1 .. n : f[i] = next[<<f[i - 1], s[i]>>]

\* There is such a chain for every sequence.
LEMMA ChainExists ==
  ASSUME NEW n \in Nat, NEW A, NEW R, NEW b \in A, NEW s \in [1 .. n -> R],
         NEW next \in [A \X R -> A]
  PROVE  \E f : IsChain(f, n, A, b, s, next)
<1> DEFINE Chain(f, m) == /\ f \in [0 .. m -> A] /\ f[0] = b
                          /\ \A i \in 1 .. m : f[i] = next[<<f[i - 1], s[i]>>]
           Can(m) == \E f : Chain(f, m)
           S == {m \in Nat : m <= n => Can(m)}
<1>1. 0 \in S
  <2> DEFINE f == [i \in 0 .. 0 |-> b]
  <2>1. Chain(f, 0)
    OBVIOUS
  <2>2. Can(0)
    <3>. HIDE DEF Chain, f
    <3>. QED BY <2>1
  <2>. HIDE DEF Can
  <2>. QED BY <2>2
<1>2. ASSUME NEW m \in Nat, m \in S PROVE m + 1 \in S
  <2>1. SUFFICES ASSUME m + 1 <= n PROVE Can(m + 1)
    <3>. HIDE DEF Can
    <3>. QED OBVIOUS
  <2>2. Can(m)
    <3>. HIDE DEF Can
    <3>. QED BY <1>2, <2>1
  <2>3. PICK f : Chain(f, m)
    BY <2>2
  <2> DEFINE g == [i \in 0 .. m + 1 |-> IF i = m + 1 THEN next[<<f[m], s[m + 1]>>] ELSE f[i]]
  <2>4. f[m] \in A /\ s[m + 1] \in R
    BY <2>1, <2>3
  <2>5. g \in [0 .. m + 1 -> A]
    BY <2>3, <2>4
  <2>6. g[0] = b
    BY <2>3
  <2>7. ASSUME NEW i \in 1 .. m + 1 PROVE g[i] = next[<<g[i - 1], s[i]>>]
    <3>1. CASE i = m + 1
      <4>1. (m + 1) - 1 = m /\ m \in 0 .. m + 1 /\ m + 1 \in 0 .. m + 1 /\ m # m + 1
        OBVIOUS
      <4>2. g[m] = f[m] /\ g[m + 1] = next[<<f[m], s[m + 1]>>]
        BY <4>1
      <4>3. g[m + 1] = next[<<g[(m + 1) - 1], s[m + 1]>>]
        <5>. HIDE DEF g
        <5>. QED BY <4>1, <4>2
      <4>. HIDE DEF g
      <4>. QED BY <3>1, <4>3
    <3>2. CASE i # m + 1
      <4>1. i \in 1 .. m /\ g[i] = f[i] /\ g[i - 1] = f[i - 1]
        BY <3>2
      <4>. QED BY <2>3, <4>1
    <3>. QED BY <3>1, <3>2
  <2>8. Chain(g, m + 1)
    <3>. HIDE DEF g
    <3>. QED BY <2>5, <2>6, <2>7
  <2>. HIDE DEF Chain, g
  <2>. QED BY <2>8
<1>3. Nat \subseteq S
  <2>. HIDE DEF S
  <2>. QED BY <1>1, <1>2, NatInduct
<1>4. \E f : Chain(f, n)
  <2>. HIDE DEF Chain
  <2>. QED BY <1>3
<1>. QED BY <1>4 DEF IsChain

\* The greater of two.
LEMMA MaxOfTwo ==
  ASSUME NEW x \in Int, NEW y \in Int
  PROVE  Max({x, y}) = IF x >= y THEN x ELSE y
<1>1. \E m \in {x, y} : \A z \in {x, y} : m >= z
  <2>1. CASE x >= y
    BY <2>1
  <2>2. CASE y >= x
    BY <2>2
  <2>. QED BY <2>1, <2>2
<1>2. Max({x, y}) \in {x, y} /\ \A z \in {x, y} : Max({x, y}) >= z
  BY <1>1, Zenon DEF Max
<1>. HIDE DEF Max
<1>. QED BY <1>2

-----------------------------------------------------------------------------
(* The sections. *)

SectionSet == {Sections[i] : i \in 1 .. 18}

\* The sections one by one: name, least size, whether fixed.
LEMMA SectionList ==
  /\ Sections[1].name = "patch_diff" /\ Sections[1].min = 1 /\ Sections[1].fixed = FALSE
  /\ Sections[2].name = "command_history" /\ Sections[2].min = 1 /\ Sections[2].fixed = FALSE
  /\ Sections[3].name = "git_status" /\ Sections[3].min = 1 /\ Sections[3].fixed = FALSE
  /\ Sections[4].name = "stable_workspace_context" /\ Sections[4].min = 4 /\ Sections[4].fixed = FALSE
  /\ Sections[5].name = "session_summary" /\ Sections[5].min = 2 /\ Sections[5].fixed = FALSE
  /\ Sections[6].name = "scratchpad" /\ Sections[6].min = 1 /\ Sections[6].fixed = FALSE
  /\ Sections[7].name = "task_history" /\ Sections[7].min = 0 /\ Sections[7].fixed = FALSE
  /\ Sections[8].name = "project_memory" /\ Sections[8].min = 1 /\ Sections[8].fixed = FALSE
  /\ Sections[9].name = "workspace_summary" /\ Sections[9].min = 1 /\ Sections[9].fixed = FALSE
  /\ Sections[10].name = "key_file" /\ Sections[10].min = 1 /\ Sections[10].fixed = FALSE
  /\ Sections[11].name = "user_message" /\ Sections[11].min = 0 /\ Sections[11].fixed = TRUE
  /\ Sections[12].name = "runtime_role" /\ Sections[12].min = 0 /\ Sections[12].fixed = TRUE
  /\ Sections[13].name = "recent_conversation" /\ Sections[13].min = 0 /\ Sections[13].fixed = TRUE
  /\ Sections[14].name = "external_attachment" /\ Sections[14].min = 2 /\ Sections[14].fixed = FALSE
  /\ Sections[15].name = "referenced_file" /\ Sections[15].min = 2 /\ Sections[15].fixed = FALSE
  /\ Sections[16].name = "project_focus" /\ Sections[16].min = 0 /\ Sections[16].fixed = TRUE
  /\ Sections[17].name = "canonical_memory" /\ Sections[17].min = 0 /\ Sections[17].fixed = TRUE
  /\ Sections[18].name = "system_prompt" /\ Sections[18].min = 0 /\ Sections[18].fixed = TRUE
<1>1. Sections[1].name = "patch_diff" /\ Sections[1].min = 1 /\ Sections[1].fixed = FALSE
  BY DEF Sections, PatchDiff, Trimmable
<1>2. Sections[2].name = "command_history" /\ Sections[2].min = 1 /\ Sections[2].fixed = FALSE
  BY DEF Sections, CommandHistory, Trimmable
<1>3. Sections[3].name = "git_status" /\ Sections[3].min = 1 /\ Sections[3].fixed = FALSE
  BY DEF Sections, GitStatus, Trimmable
<1>4. Sections[4].name = "stable_workspace_context" /\ Sections[4].min = 4 /\ Sections[4].fixed = FALSE
  BY DEF Sections, StableWorkspace, Trimmable
<1>5. Sections[5].name = "session_summary" /\ Sections[5].min = 2 /\ Sections[5].fixed = FALSE
  BY DEF Sections, SessionSummary, Trimmable
<1>6. Sections[6].name = "scratchpad" /\ Sections[6].min = 1 /\ Sections[6].fixed = FALSE
  BY DEF Sections, Scratchpad, Trimmable
<1>7. Sections[7].name = "task_history" /\ Sections[7].min = 0 /\ Sections[7].fixed = FALSE
  BY DEF Sections, TaskHistory, Trimmable
<1>8. Sections[8].name = "project_memory" /\ Sections[8].min = 1 /\ Sections[8].fixed = FALSE
  BY DEF Sections, ProjectMemory, Trimmable
<1>9. Sections[9].name = "workspace_summary" /\ Sections[9].min = 1 /\ Sections[9].fixed = FALSE
  BY DEF Sections, WorkspaceSummary, Trimmable
<1>10. Sections[10].name = "key_file" /\ Sections[10].min = 1 /\ Sections[10].fixed = FALSE
  BY DEF Sections, KeyFile, Trimmable
<1>11. Sections[11].name = "user_message" /\ Sections[11].min = 0 /\ Sections[11].fixed = TRUE
  BY DEF Sections, UserMessage, Fixed
<1>12. Sections[12].name = "runtime_role" /\ Sections[12].min = 0 /\ Sections[12].fixed = TRUE
  BY DEF Sections, RuntimeRole, Fixed
<1>13. Sections[13].name = "recent_conversation" /\ Sections[13].min = 0 /\ Sections[13].fixed = TRUE
  BY DEF Sections, RecentConversation, Fixed
<1>14. Sections[14].name = "external_attachment" /\ Sections[14].min = 2 /\ Sections[14].fixed = FALSE
  BY DEF Sections, ExternalAttachment, Trimmable
<1>15. Sections[15].name = "referenced_file" /\ Sections[15].min = 2 /\ Sections[15].fixed = FALSE
  BY DEF Sections, ReferencedFile, Trimmable
<1>16. Sections[16].name = "project_focus" /\ Sections[16].min = 0 /\ Sections[16].fixed = TRUE
  BY DEF Sections, ProjectFocus, Fixed
<1>17. Sections[17].name = "canonical_memory" /\ Sections[17].min = 0 /\ Sections[17].fixed = TRUE
  BY DEF Sections, CanonicalMemory, Fixed
<1>18. Sections[18].name = "system_prompt" /\ Sections[18].min = 0 /\ Sections[18].fixed = TRUE
  BY DEF Sections, SystemPrompt, Fixed
<1>. QED BY <1>1, <1>2, <1>3, <1>4, <1>5, <1>6, <1>7, <1>8, <1>9,
            <1>10, <1>11, <1>12, <1>13, <1>14, <1>15, <1>16, <1>17, <1>18

\* The indices of the sections, one by one.
LEMMA Index ==
  ASSUME NEW i \in 1 .. 18
  PROVE  \/ i = 1 \/ i = 2 \/ i = 3 \/ i = 4 \/ i = 5 \/ i = 6 \/ i = 7 \/ i = 8 \/ i = 9
         \/ i = 10 \/ i = 11 \/ i = 12 \/ i = 13 \/ i = 14 \/ i = 15 \/ i = 16 \/ i = 17 \/ i = 18
OBVIOUS

\* The types of the sections.
LEMMA SectionsAre ==
  /\ DOMAIN Sections = 1 .. 18
  /\ Names = {Sections[i].name : i \in 1 .. 18}
  /\ \A i \in 1 .. 18 : /\ Sections[i] \in SectionSet
                        /\ Sections[i].name \in Names
                        /\ Sections[i].min \in Nat /\ Sections[i].fixed \in BOOLEAN
<1>1. DOMAIN Sections = 1 .. 18
  BY DEF Sections
<1>2. ASSUME NEW i \in 1 .. 18 PROVE Sections[i].min \in Nat
  BY SectionList, Index
<1>3. ASSUME NEW i \in 1 .. 18 PROVE Sections[i].fixed \in BOOLEAN
  BY SectionList, Index, ZenonT(40)
<1>. QED BY <1>1, <1>2, <1>3 DEF Names, SectionSet

\* No two sections share a name.
LEMMA NamesDiffer == \A i, j \in 1 .. 18 : Sections[i].name = Sections[j].name => i = j
<1> SUFFICES ASSUME NEW i \in 1 .. 18, NEW j \in 1 .. 18, i # j
             PROVE  Sections[i].name # Sections[j].name
  OBVIOUS
<1>1. CASE i = 1
  BY <1>1, SectionList, Index
<1>2. CASE i = 2
  BY <1>2, SectionList, Index
<1>3. CASE i = 3
  BY <1>3, SectionList, Index
<1>4. CASE i = 4
  BY <1>4, SectionList, Index
<1>5. CASE i = 5
  BY <1>5, SectionList, Index
<1>6. CASE i = 6
  BY <1>6, SectionList, Index
<1>7. CASE i = 7
  BY <1>7, SectionList, Index
<1>8. CASE i = 8
  BY <1>8, SectionList, Index
<1>9. CASE i = 9
  BY <1>9, SectionList, Index
<1>10. CASE i = 10
  BY <1>10, SectionList, Index
<1>11. CASE i = 11
  BY <1>11, SectionList, Index
<1>12. CASE i = 12
  BY <1>12, SectionList, Index
<1>13. CASE i = 13
  BY <1>13, SectionList, Index
<1>14. CASE i = 14
  BY <1>14, SectionList, Index
<1>15. CASE i = 15
  BY <1>15, SectionList, Index
<1>16. CASE i = 16
  BY <1>16, SectionList, Index
<1>17. CASE i = 17
  BY <1>17, SectionList, Index
<1>18. CASE i = 18
  BY <1>18, SectionList, Index
<1>. QED BY <1>1, <1>2, <1>3, <1>4, <1>5, <1>6, <1>7, <1>8, <1>9,
            <1>10, <1>11, <1>12, <1>13, <1>14, <1>15, <1>16, <1>17, <1>18, Index

\* The same, for a section without its index.
LEMMA SectionNames ==
  ASSUME NEW s \in SectionSet
  PROVE  s.name \in Names /\ s.min \in Nat /\ s.fixed \in BOOLEAN
<1>1. PICK i \in 1 .. 18 : s = Sections[i]
  BY DEF SectionSet
<1>. QED BY <1>1, SectionsAre, Zenon

-----------------------------------------------------------------------------
(* The total. *)

\* The total, section by section.
LEMMA TotalChain ==
  ASSUME NEW a0 \in [Names -> Nat]
  PROVE  \E g \in [0 .. 18 -> Nat] :
           /\ g[0] = 0
           /\ \A i \in 1 .. 18 : g[i] = a0[Sections[i].name] + g[i - 1]
           /\ Total(a0) = g[18]
<1> DEFINE A == Nat
           b == 0
           Op(a, r) == a0[r.name] + a
           nx == [p \in A \X SectionSet |-> Op(p[1], p[2])]
           Is(f) == f = [i \in 0 .. Len(Sections) |-> IF i = 0 THEN b ELSE Op(f[i - 1], Sections[i])]
           it == CHOOSE f : Is(f)
<1>1. Len(Sections) = 18 /\ Sections \in [1 .. 18 -> SectionSet]
  BY SectionsAre, Sections = [i \in 1 .. 18 |-> Sections[i]] DEF Sections
<1>2. b \in A
  OBVIOUS
<1>3. ASSUME NEW a \in A, NEW r \in SectionSet PROVE Op(a, r) \in A
  BY <1>3, SectionNames
<1>4. nx \in [A \X SectionSet -> A]
  <2>. HIDE DEF Op, A
  <2>. QED BY <1>3
<1>5. \A a \in A, r \in SectionSet : nx[<<a, r>>] = Op(a, r)
  <2>. HIDE DEF Op, A
  <2>. QED OBVIOUS
<1>6. \E f : Is(f)
  <2>1. PICK f \in [0 .. 18 -> A] :
           f[0] = b /\ \A i \in 1 .. 18 : f[i] = nx[<<f[i - 1], Sections[i]>>]
    <3>. HIDE DEF nx, A, b
    <3>1. 18 \in Nat
      OBVIOUS
    <3>2. Sections \in [1 .. 18 -> SectionSet]
      BY <1>1
    <3>3. \E f : IsChain(f, 18, A, b, Sections, nx)
      BY <1>2, <1>4, <3>1, <3>2, ChainExists, Zenon
    <3>. QED BY <3>3 DEF IsChain
  <2>2. ASSUME NEW i \in 1 .. 18 PROVE f[i] = Op(f[i - 1], Sections[i])
    <3>1. f[i - 1] \in A /\ Sections[i] \in SectionSet
      <4>. HIDE DEF A
      <4>1. i - 1 \in 0 .. 18
        OBVIOUS
      <4>. QED BY <1>1, <4>1
    <3>. HIDE DEF Op, nx, A
    <3>. QED BY <1>5, <2>1, <3>1
  <2>3. f = [i \in 0 .. Len(Sections) |-> IF i = 0 THEN b ELSE Op(f[i - 1], Sections[i])]
    <3>. HIDE DEF Op, nx, A, b
    <3>. QED BY <1>1, <2>1, <2>2
  <2>. HIDE DEF Op, b
  <2>. QED BY <2>3
<1>7. Is(it)
  <2>. HIDE DEF Is
  <2>. QED BY <1>6
<1>8. it[0] = b /\ \A i \in 1 .. 18 : it[i] = Op(it[i - 1], Sections[i])
  <2>. HIDE DEF it, Op, b
  <2>. QED BY <1>1, <1>7
<1>9. \A i \in 0 .. 18 : it[i] \in A
  <2>. HIDE DEF it, Op, A, b
  <2> DEFINE S == {m \in Nat : m <= 18 => it[m] \in A}
  <2>1. 0 \in S
    BY <1>2, <1>8
  <2>2. ASSUME NEW m \in Nat, m \in S PROVE m + 1 \in S
    <3> SUFFICES ASSUME m + 1 <= 18 PROVE it[m + 1] \in A
      OBVIOUS
    <3>1. m + 1 \in 1 .. 18 /\ (m + 1) - 1 = m
      OBVIOUS
    <3>2. Sections[m + 1] \in SectionSet
      BY <1>1, <3>1
    <3>3. it[m + 1] = Op(it[m], Sections[m + 1])
      <4>1. it[m + 1] = Op(it[(m + 1) - 1], Sections[m + 1])
        BY <1>8, <3>1
      <4>. QED BY <3>1, <4>1
    <3>. QED BY <1>3, <2>2, <3>2, <3>3
  <2>3. Nat \subseteq S
    <3>. HIDE DEF S
    <3>. QED BY <2>1, <2>2, NatInduct
  <2>. QED BY <2>3
<1>10. it \in [0 .. 18 -> A]
  <2>1. it = [i \in 0 .. 18 |-> it[i]]
    <3>. HIDE DEF it, Op, b
    <3>. QED BY <1>1, <1>7
  <2>. HIDE DEF it, A
  <2>. QED BY <1>9, <2>1
<1>11. Total(a0) = it[18]
  <2>1. Total(a0) = it[Len(Sections)]
    BY DEF Total
  <2>. HIDE DEF it, Total
  <2>. QED BY <1>1, <2>1
<1>. HIDE DEF it, b, A
<1>12. \A i \in 1 .. 18 : it[i] = a0[Sections[i].name] + it[i - 1]
  BY <1>8 DEF Op
<1>. QED BY <1>8, <1>10, <1>11, <1>12 DEF b, A

\* A total is a natural, and smaller sections have no larger total.
LEMMA TotalGrows ==
  ASSUME NEW a \in [Names -> Nat], NEW b \in [Names -> Nat], \A n \in Names : a[n] <= b[n]
  PROVE  Total(a) \in Nat /\ Total(b) \in Nat /\ Total(a) <= Total(b)
<1>1. PICK g \in [0 .. 18 -> Nat] :
         /\ g[0] = 0
         /\ \A i \in 1 .. 18 : g[i] = a[Sections[i].name] + g[i - 1]
         /\ Total(a) = g[18]
  BY TotalChain
<1>2. PICK h \in [0 .. 18 -> Nat] :
         /\ h[0] = 0
         /\ \A i \in 1 .. 18 : h[i] = b[Sections[i].name] + h[i - 1]
         /\ Total(b) = h[18]
  BY TotalChain
<1> DEFINE S == {m \in Nat : m <= 18 => g[m] <= h[m]}
<1>3. 0 \in S
  BY <1>1, <1>2
<1>4. ASSUME NEW m \in Nat, m \in S PROVE m + 1 \in S
  <2> SUFFICES ASSUME m + 1 <= 18 PROVE g[m + 1] <= h[m + 1]
    OBVIOUS
  <2>1. m + 1 \in 1 .. 18 /\ (m + 1) - 1 = m /\ m \in 0 .. 18
    OBVIOUS
  <2>2. Sections[m + 1].name \in Names
    BY <2>1, SectionsAre
  <2>3. g[m + 1] = a[Sections[m + 1].name] + g[m] /\ h[m + 1] = b[Sections[m + 1].name] + h[m]
    BY <1>1, <1>2, <2>1
  <2>4. a[Sections[m + 1].name] <= b[Sections[m + 1].name] /\ g[m] <= h[m]
    BY <1>4, <2>1, <2>2
  <2>5. /\ a[Sections[m + 1].name] \in Nat /\ b[Sections[m + 1].name] \in Nat
        /\ g[m] \in Nat /\ h[m] \in Nat
    BY <2>1, <2>2
  <2>. QED BY <2>3, <2>4, <2>5
<1>5. Nat \subseteq S
  <2>. HIDE DEF S
  <2>. QED BY <1>3, <1>4, NatInduct
<1>6. g[18] <= h[18] /\ g[18] \in Nat /\ h[18] \in Nat
  BY <1>5
<1>. QED BY <1>1, <1>2, <1>6

-----------------------------------------------------------------------------
(* The two loops. *)

\* Trimming a section touches that section alone; over the budget, one that may be
\* trimmed gets smaller or has no more than its minimum.
LEMMA TrimIs ==
  ASSUME NEW a \in [Names -> Nat], NEW s \in SectionSet, NEW max \in Int, NEW wide \in BOOLEAN
  PROVE  /\ TrimSection(a, s, max, wide) \in [Names -> Nat]
         /\ \A n \in Names : TrimSection(a, s, max, wide)[n] <= a[n]
         /\ \A n \in Names : n # s.name => TrimSection(a, s, max, wide)[n] = a[n]
         /\ Total(a) <= max \/ s.fixed => TrimSection(a, s, max, wide) = a
         /\ Total(a) > max /\ ~s.fixed =>
              \/ TrimSection(a, s, max, wide)[s.name] < a[s.name]
              \/ TrimSection(a, s, max, wide)[s.name] <= s.min
<1>1. s.name \in Names /\ s.min \in Nat /\ a[s.name] \in Nat
  BY SectionNames
<1>2. Total(a) \in Nat
  BY TotalGrows
<1> DEFINE over == Total(a) - max
           size == a[s.name]
           target == Max({s.min, size - over})
           new == IF target <= 0 THEN 0 ELSE TrimTo(size, target, wide)
<1>3. over \in Int /\ size \in Nat
  BY <1>1, <1>2
<1>4. target = IF s.min >= size - over THEN s.min ELSE size - over
  <2>1. s.min \in Int /\ size - over \in Int
    BY <1>1, <1>3
  <2>. HIDE DEF size, over
  <2>. QED BY <2>1, MaxOfTwo
<1>. HIDE DEF target
<1>5. target \in Nat
  BY <1>1, <1>3, <1>4
<1>. HIDE DEF size, over
<1>6. new \in Nat /\ new <= size /\ (target < size => new < size)
  BY <1>3, <1>5 DEF TrimTo
<1>7. over > 0 => new < size \/ new <= s.min
  BY <1>1, <1>3, <1>4, <1>5, <1>6
<1>8. TrimSection(a, s, max, wide) = IF s.fixed \/ size = 0 \/ over <= 0 THEN a ELSE [a EXCEPT ![s.name] = new]
  BY DEF TrimSection, over, size, target
<1>. HIDE DEF new
<1>9. CASE s.fixed \/ size = 0 \/ over <= 0
  <2>1. TrimSection(a, s, max, wide) = a
    BY <1>8, <1>9, Zenon
  <2>2. \A n \in Names : a[n] <= a[n]
    OBVIOUS
  <2>3. Total(a) > max /\ ~s.fixed => a[s.name] <= s.min
    BY <1>1, <1>2, <1>9 DEF over, size
  <2>. QED BY <2>1, <2>2, <2>3
<1>10. CASE over > 0 /\ size # 0 /\ ~s.fixed
  <2>1. TrimSection(a, s, max, wide) = [a EXCEPT ![s.name] = new]
    <3>1. ~(s.fixed \/ size = 0 \/ over <= 0)
      BY <1>3, <1>10
    <3>. QED BY <1>8, <3>1
  <2>2. ~(Total(a) <= max \/ s.fixed)
    BY <1>2, <1>10 DEF over
  <2>. QED BY <1>1, <1>6, <1>7, <1>10, <2>1, <2>2 DEF size
<1>. QED BY <1>3, <1>9, <1>10

\* So does dropping one; over the budget, one that may be trimmed has nothing left.
LEMMA DropIs ==
  ASSUME NEW a \in [Names -> Nat], NEW s \in SectionSet, NEW max \in Int
  PROVE  /\ DropSection(a, s, max) \in [Names -> Nat]
         /\ \A n \in Names : DropSection(a, s, max)[n] <= a[n]
         /\ \A n \in Names : n # s.name => DropSection(a, s, max)[n] = a[n]
         /\ Total(a) <= max \/ s.fixed => DropSection(a, s, max) = a
         /\ Total(a) > max /\ ~s.fixed => DropSection(a, s, max)[s.name] = 0
<1>1. s.name \in Names /\ a[s.name] \in Nat
  BY SectionNames
<1>2. Total(a) \in Nat
  BY TotalGrows
<1>3. CASE s.fixed \/ a[s.name] = 0 \/ Total(a) <= max
  <2>1. DropSection(a, s, max) = a
    BY <1>3 DEF DropSection
  <2>2. Total(a) > max /\ ~s.fixed => a[s.name] = 0
    BY <1>2, <1>3
  <2>. QED BY <2>1, <2>2
<1>4. CASE ~(s.fixed \/ a[s.name] = 0 \/ Total(a) <= max)
  <2>1. DropSection(a, s, max) = [a EXCEPT ![s.name] = 0]
    BY <1>4 DEF DropSection
  <2>. QED BY <1>1, <1>4, <2>1
<1>. QED BY <1>3, <1>4

\* The first loop, section by section.
LEMMA TrimChain ==
  ASSUME NEW a0 \in [Names -> Nat], NEW max \in Int, NEW wide \in BOOLEAN
  PROVE  \E g \in [0 .. 18 -> [Names -> Nat]] :
           /\ g[0] = a0
           /\ \A i \in 1 .. 18 : g[i] = TrimSection(g[i - 1], Sections[i], max, wide)
           /\ TrimAll(a0, max, wide) = g[18]
<1> DEFINE A == [Names -> Nat]
           b == a0
           Op(a, r) == TrimSection(a, r, max, wide)
           nx == [p \in A \X SectionSet |-> Op(p[1], p[2])]
           Is(f) == f = [i \in 0 .. Len(Sections) |-> IF i = 0 THEN b ELSE Op(f[i - 1], Sections[i])]
           it == CHOOSE f : Is(f)
<1>1. Len(Sections) = 18 /\ Sections \in [1 .. 18 -> SectionSet]
  BY SectionsAre, Sections = [i \in 1 .. 18 |-> Sections[i]] DEF Sections
<1>2. b \in A
  OBVIOUS
<1>3. ASSUME NEW a \in A, NEW r \in SectionSet PROVE Op(a, r) \in A
  BY <1>3, TrimIs
<1>4. nx \in [A \X SectionSet -> A]
  <2>. HIDE DEF Op, A
  <2>. QED BY <1>3
<1>5. \A a \in A, r \in SectionSet : nx[<<a, r>>] = Op(a, r)
  <2>. HIDE DEF Op, A
  <2>. QED OBVIOUS
<1>6. \E f : Is(f)
  <2>1. PICK f \in [0 .. 18 -> A] :
           f[0] = b /\ \A i \in 1 .. 18 : f[i] = nx[<<f[i - 1], Sections[i]>>]
    <3>. HIDE DEF nx, A, b
    <3>1. 18 \in Nat
      OBVIOUS
    <3>2. Sections \in [1 .. 18 -> SectionSet]
      BY <1>1
    <3>3. \E f : IsChain(f, 18, A, b, Sections, nx)
      BY <1>2, <1>4, <3>1, <3>2, ChainExists, Zenon
    <3>. QED BY <3>3 DEF IsChain
  <2>2. ASSUME NEW i \in 1 .. 18 PROVE f[i] = Op(f[i - 1], Sections[i])
    <3>1. f[i - 1] \in A /\ Sections[i] \in SectionSet
      <4>. HIDE DEF A
      <4>1. i - 1 \in 0 .. 18
        OBVIOUS
      <4>. QED BY <1>1, <4>1
    <3>. HIDE DEF Op, nx, A
    <3>. QED BY <1>5, <2>1, <3>1
  <2>3. f = [i \in 0 .. Len(Sections) |-> IF i = 0 THEN b ELSE Op(f[i - 1], Sections[i])]
    <3>. HIDE DEF Op, nx, A, b
    <3>. QED BY <1>1, <2>1, <2>2
  <2>. HIDE DEF Op, b
  <2>. QED BY <2>3
<1>7. Is(it)
  <2>. HIDE DEF Is
  <2>. QED BY <1>6
<1>8. it[0] = b /\ \A i \in 1 .. 18 : it[i] = Op(it[i - 1], Sections[i])
  <2>. HIDE DEF it, Op, b
  <2>. QED BY <1>1, <1>7
<1>9. \A i \in 0 .. 18 : it[i] \in A
  <2>. HIDE DEF it, Op, A, b
  <2> DEFINE S == {m \in Nat : m <= 18 => it[m] \in A}
  <2>1. 0 \in S
    BY <1>2, <1>8
  <2>2. ASSUME NEW m \in Nat, m \in S PROVE m + 1 \in S
    <3> SUFFICES ASSUME m + 1 <= 18 PROVE it[m + 1] \in A
      OBVIOUS
    <3>1. m + 1 \in 1 .. 18 /\ (m + 1) - 1 = m
      OBVIOUS
    <3>2. Sections[m + 1] \in SectionSet
      BY <1>1, <3>1
    <3>3. it[m + 1] = Op(it[m], Sections[m + 1])
      <4>1. it[m + 1] = Op(it[(m + 1) - 1], Sections[m + 1])
        BY <1>8, <3>1
      <4>. QED BY <3>1, <4>1
    <3>. QED BY <1>3, <2>2, <3>2, <3>3
  <2>3. Nat \subseteq S
    <3>. HIDE DEF S
    <3>. QED BY <2>1, <2>2, NatInduct
  <2>. QED BY <2>3
<1>10. it \in [0 .. 18 -> A]
  <2>1. it = [i \in 0 .. 18 |-> it[i]]
    <3>. HIDE DEF it, Op, b
    <3>. QED BY <1>1, <1>7
  <2>. HIDE DEF it, A
  <2>. QED BY <1>9, <2>1
<1>11. TrimAll(a0, max, wide) = it[18]
  <2>1. TrimAll(a0, max, wide) = it[Len(Sections)]
    BY DEF TrimAll
  <2>. HIDE DEF it, TrimAll
  <2>. QED BY <1>1, <2>1
<1>. HIDE DEF it, b, A
<1>12. \A i \in 1 .. 18 : it[i] = TrimSection(it[i - 1], Sections[i], max, wide)
  BY <1>8 DEF Op
<1>. QED BY <1>8, <1>10, <1>11, <1>12 DEF b, A

\* The second loop, section by section.
LEMMA DropChain ==
  ASSUME NEW a0 \in [Names -> Nat], NEW max \in Int
  PROVE  \E g \in [0 .. 18 -> [Names -> Nat]] :
           /\ g[0] = a0
           /\ \A i \in 1 .. 18 : g[i] = DropSection(g[i - 1], Sections[i], max)
           /\ DropAll(a0, max) = g[18]
<1> DEFINE A == [Names -> Nat]
           b == a0
           Op(a, r) == DropSection(a, r, max)
           nx == [p \in A \X SectionSet |-> Op(p[1], p[2])]
           Is(f) == f = [i \in 0 .. Len(Sections) |-> IF i = 0 THEN b ELSE Op(f[i - 1], Sections[i])]
           it == CHOOSE f : Is(f)
<1>1. Len(Sections) = 18 /\ Sections \in [1 .. 18 -> SectionSet]
  BY SectionsAre, Sections = [i \in 1 .. 18 |-> Sections[i]] DEF Sections
<1>2. b \in A
  OBVIOUS
<1>3. ASSUME NEW a \in A, NEW r \in SectionSet PROVE Op(a, r) \in A
  BY <1>3, DropIs
<1>4. nx \in [A \X SectionSet -> A]
  <2>. HIDE DEF Op, A
  <2>. QED BY <1>3
<1>5. \A a \in A, r \in SectionSet : nx[<<a, r>>] = Op(a, r)
  <2>. HIDE DEF Op, A
  <2>. QED OBVIOUS
<1>6. \E f : Is(f)
  <2>1. PICK f \in [0 .. 18 -> A] :
           f[0] = b /\ \A i \in 1 .. 18 : f[i] = nx[<<f[i - 1], Sections[i]>>]
    <3>. HIDE DEF nx, A, b
    <3>1. 18 \in Nat
      OBVIOUS
    <3>2. Sections \in [1 .. 18 -> SectionSet]
      BY <1>1
    <3>3. \E f : IsChain(f, 18, A, b, Sections, nx)
      BY <1>2, <1>4, <3>1, <3>2, ChainExists, Zenon
    <3>. QED BY <3>3 DEF IsChain
  <2>2. ASSUME NEW i \in 1 .. 18 PROVE f[i] = Op(f[i - 1], Sections[i])
    <3>1. f[i - 1] \in A /\ Sections[i] \in SectionSet
      <4>. HIDE DEF A
      <4>1. i - 1 \in 0 .. 18
        OBVIOUS
      <4>. QED BY <1>1, <4>1
    <3>. HIDE DEF Op, nx, A
    <3>. QED BY <1>5, <2>1, <3>1
  <2>3. f = [i \in 0 .. Len(Sections) |-> IF i = 0 THEN b ELSE Op(f[i - 1], Sections[i])]
    <3>. HIDE DEF Op, nx, A, b
    <3>. QED BY <1>1, <2>1, <2>2
  <2>. HIDE DEF Op, b
  <2>. QED BY <2>3
<1>7. Is(it)
  <2>. HIDE DEF Is
  <2>. QED BY <1>6
<1>8. it[0] = b /\ \A i \in 1 .. 18 : it[i] = Op(it[i - 1], Sections[i])
  <2>. HIDE DEF it, Op, b
  <2>. QED BY <1>1, <1>7
<1>9. \A i \in 0 .. 18 : it[i] \in A
  <2>. HIDE DEF it, Op, A, b
  <2> DEFINE S == {m \in Nat : m <= 18 => it[m] \in A}
  <2>1. 0 \in S
    BY <1>2, <1>8
  <2>2. ASSUME NEW m \in Nat, m \in S PROVE m + 1 \in S
    <3> SUFFICES ASSUME m + 1 <= 18 PROVE it[m + 1] \in A
      OBVIOUS
    <3>1. m + 1 \in 1 .. 18 /\ (m + 1) - 1 = m
      OBVIOUS
    <3>2. Sections[m + 1] \in SectionSet
      BY <1>1, <3>1
    <3>3. it[m + 1] = Op(it[m], Sections[m + 1])
      <4>1. it[m + 1] = Op(it[(m + 1) - 1], Sections[m + 1])
        BY <1>8, <3>1
      <4>. QED BY <3>1, <4>1
    <3>. QED BY <1>3, <2>2, <3>2, <3>3
  <2>3. Nat \subseteq S
    <3>. HIDE DEF S
    <3>. QED BY <2>1, <2>2, NatInduct
  <2>. QED BY <2>3
<1>10. it \in [0 .. 18 -> A]
  <2>1. it = [i \in 0 .. 18 |-> it[i]]
    <3>. HIDE DEF it, Op, b
    <3>. QED BY <1>1, <1>7
  <2>. HIDE DEF it, A
  <2>. QED BY <1>9, <2>1
<1>11. DropAll(a0, max) = it[18]
  <2>1. DropAll(a0, max) = it[Len(Sections)]
    BY DEF DropAll
  <2>. HIDE DEF it, DropAll
  <2>. QED BY <1>1, <2>1
<1>. HIDE DEF it, b, A
<1>12. \A i \in 1 .. 18 : it[i] = DropSection(it[i - 1], Sections[i], max)
  BY <1>8 DEF Op
<1>. QED BY <1>8, <1>10, <1>11, <1>12 DEF b, A

-----------------------------------------------------------------------------
(* What fitting keeps. *)

NameOf(i) == Sections[i].name

\* The section has less in b than in a.
Lost(a, b, i) == b[NameOf(i)] < a[NameOf(i)]

\* There is nothing left to take from it before the next one.
Taken(a, b, i) == Sections[i].fixed \/ Lost(a, b, i) \/ b[NameOf(i)] <= Sections[i].min

\* No section loses text before those of lower priority.
InOrder(a, b) == \A i, j \in 1 .. 18 : i < j /\ Lost(a, b, j) => Taken(a, b, i)

Shrunk(a, b) ==
  /\ b \in [Names -> Nat] /\ \A n \in Names : b[n] <= a[n]
  /\ \A i \in 1 .. 18 : Sections[i].fixed => b[NameOf(i)] = a[NameOf(i)]

\* After the first m sections of the first loop.
TrimmedTo(a, b, m, max) ==
  /\ Shrunk(a, b) /\ InOrder(a, b)
  /\ \A i \in 1 .. 18 : i > m => b[NameOf(i)] = a[NameOf(i)]
  /\ Total(b) > max => \A i \in 1 .. m : Taken(a, b, i)

\* After the first m sections of the second loop.
DroppedTo(a, b, m, max) ==
  /\ Shrunk(a, b) /\ InOrder(a, b)
  /\ Total(b) > max => \A i \in 1 .. m : Sections[i].fixed \/ b[NameOf(i)] = 0

\* Another section has another name.
LEMMA OtherName ==
  ASSUME NEW i \in 1 .. 18, NEW j \in 1 .. 18, i # j
  PROVE  NameOf(i) \in Names /\ NameOf(i) # NameOf(j)
BY SectionsAre, NamesDiffer DEF NameOf

\* One more section is trimmed.
LEMMA TrimStep ==
  ASSUME NEW a \in [Names -> Nat], NEW b, NEW max \in Int, NEW wide \in BOOLEAN,
         NEW m \in 0 .. 17, TrimmedTo(a, b, m, max)
  PROVE  TrimmedTo(a, TrimSection(b, Sections[m + 1], max, wide), m + 1, max)
<1> DEFINE s == Sections[m + 1]
           c == TrimSection(b, s, max, wide)
<1>1. b \in [Names -> Nat] /\ m + 1 \in 1 .. 18
  BY DEF TrimmedTo, Shrunk
<1>2. s \in SectionSet /\ s.name \in Names /\ s.name = NameOf(m + 1) /\ s.min \in Nat
  BY <1>1, SectionsAre DEF NameOf
<1>. HIDE DEF s
<1>3. /\ c \in [Names -> Nat]
      /\ \A n \in Names : c[n] <= b[n]
      /\ \A n \in Names : n # s.name => c[n] = b[n]
      /\ Total(b) <= max \/ s.fixed => c = b
      /\ Total(b) > max /\ ~s.fixed => c[s.name] < b[s.name] \/ c[s.name] <= s.min
  BY <1>1, <1>2, TrimIs
<1>. HIDE DEF c
<1>4. Total(b) \in Nat /\ Total(c) \in Nat /\ Total(c) <= Total(b)
  BY <1>1, <1>3, TotalGrows
<1>5. \A i \in 1 .. 18 : i # m + 1 => c[NameOf(i)] = b[NameOf(i)]
  BY <1>1, <1>2, <1>3, OtherName
<1>6. \A i \in 1 .. 18 : i # m + 1 => (Lost(a, c, i) <=> Lost(a, b, i)) /\ (Taken(a, c, i) <=> Taken(a, b, i))
  BY <1>5 DEF Lost, Taken
<1>7. \A n \in Names : c[n] <= a[n]
  BY <1>1, <1>3 DEF TrimmedTo, Shrunk
<1>8. \A i \in 1 .. 18 : i > m + 1 => c[NameOf(i)] = a[NameOf(i)]
  BY <1>5 DEF TrimmedTo
<1>9. \A i \in 1 .. 18 : Sections[i].fixed => c[NameOf(i)] = a[NameOf(i)]
  <2> SUFFICES ASSUME NEW i \in 1 .. 18, Sections[i].fixed PROVE c[NameOf(i)] = a[NameOf(i)]
    OBVIOUS
  <2>1. b[NameOf(i)] = a[NameOf(i)]
    BY DEF TrimmedTo, Shrunk
  <2>2. CASE i = m + 1
    BY <1>3, <2>1, <2>2 DEF s
  <2>3. CASE i # m + 1
    BY <1>5, <2>1, <2>3
  <2>. QED BY <2>2, <2>3
<1>10. Shrunk(a, c)
  BY <1>3, <1>7, <1>9 DEF Shrunk
<1>11. Total(b) > max => \A i \in 1 .. m + 1 : Taken(a, c, i)
  <2> SUFFICES ASSUME Total(b) > max, NEW i \in 1 .. m + 1 PROVE Taken(a, c, i)
    OBVIOUS
  <2>1. i \in 1 .. 18
    OBVIOUS
  <2>2. CASE i # m + 1
    <3>1. i \in 1 .. m
      BY <2>2
    <3>2. Taken(a, b, i)
      BY <3>1 DEF TrimmedTo
    <3>. QED BY <1>6, <2>1, <2>2, <3>2
  <2>3. CASE i = m + 1 /\ s.fixed
    BY <2>3 DEF Taken, s
  <2>4. CASE i = m + 1 /\ ~s.fixed
    <3>1. b[s.name] = a[s.name]
      BY <1>1, <1>2 DEF TrimmedTo
    <3>2. c[s.name] < a[s.name] \/ c[s.name] <= s.min
      BY <1>3, <2>4, <3>1
    <3>3. Sections[i] = s /\ NameOf(i) = s.name
      BY <1>2, <2>4 DEF s
    <3>. QED BY <3>2, <3>3 DEF Taken, Lost
  <2>. QED BY <2>2, <2>3, <2>4
<1>12. InOrder(a, c)
  <2>1. CASE Total(b) <= max
    BY <1>3, <2>1 DEF TrimmedTo
  <2>2. CASE Total(b) > max
    <3> SUFFICES ASSUME NEW i \in 1 .. 18, NEW j \in 1 .. 18, i < j, Lost(a, c, j)
                 PROVE  Taken(a, c, i)
      BY DEF InOrder
    <3>1. ~(j > m + 1)
      <4> SUFFICES ASSUME j > m + 1 PROVE FALSE
        OBVIOUS
      <4>1. NameOf(j) \in Names
        BY SectionsAre DEF NameOf
      <4>2. c[NameOf(j)] = a[NameOf(j)] /\ a[NameOf(j)] \in Nat
        BY <1>8, <4>1
      <4>. QED BY <4>2 DEF Lost
    <3>2. i \in 1 .. m + 1
      BY <3>1
    <3>. QED BY <1>11, <2>2, <3>2
  <2>. QED BY <1>4, <2>1, <2>2
<1>13. Total(c) > max => Total(b) > max
  BY <1>4
<1>14. TrimmedTo(a, c, m + 1, max)
  BY <1>8, <1>10, <1>11, <1>12, <1>13 DEF TrimmedTo
<1>. QED BY <1>14 DEF c, s

\* One more section is dropped.
LEMMA DropStep ==
  ASSUME NEW a \in [Names -> Nat], NEW b, NEW max \in Int,
         NEW m \in 0 .. 17, DroppedTo(a, b, m, max)
  PROVE  DroppedTo(a, DropSection(b, Sections[m + 1], max), m + 1, max)
<1> DEFINE s == Sections[m + 1]
           c == DropSection(b, s, max)
<1>1. b \in [Names -> Nat] /\ m + 1 \in 1 .. 18
  BY DEF DroppedTo, Shrunk
<1>2. s \in SectionSet /\ s.name \in Names /\ s.name = NameOf(m + 1) /\ s.min \in Nat
  BY <1>1, SectionsAre DEF NameOf
<1>. HIDE DEF s
<1>3. /\ c \in [Names -> Nat]
      /\ \A n \in Names : c[n] <= b[n]
      /\ \A n \in Names : n # s.name => c[n] = b[n]
      /\ Total(b) <= max \/ s.fixed => c = b
      /\ Total(b) > max /\ ~s.fixed => c[s.name] = 0
  BY <1>1, <1>2, DropIs
<1>. HIDE DEF c
<1>4. Total(b) \in Nat /\ Total(c) \in Nat /\ Total(c) <= Total(b)
  BY <1>1, <1>3, TotalGrows
<1>5. CASE Total(b) <= max
  <2>1. c = b
    BY <1>3, <1>5
  <2>2. ~(Total(c) > max)
    BY <1>4, <1>5, <2>1
  <2>3. DroppedTo(a, c, m + 1, max)
    BY <2>1, <2>2 DEF DroppedTo
  <2>. QED BY <2>3 DEF c, s
<1>6. CASE Total(b) > max /\ s.fixed
  <2>1. c = b
    BY <1>3, <1>6
  <2>2. ASSUME NEW i \in 1 .. m + 1 PROVE Sections[i].fixed \/ b[NameOf(i)] = 0
    <3>1. CASE i = m + 1
      BY <1>6, <3>1 DEF s
    <3>2. CASE i \in 1 .. m
      BY <1>6, <3>2 DEF DroppedTo
    <3>. QED BY <3>1, <3>2
  <2>3. DroppedTo(a, c, m + 1, max)
    BY <2>1, <2>2 DEF DroppedTo
  <2>. QED BY <2>3 DEF c, s
<1>7. CASE Total(b) > max /\ ~s.fixed
  <2>1. \A i \in 1 .. 18 : i # m + 1 => c[NameOf(i)] = b[NameOf(i)]
    BY <1>1, <1>2, <1>3, OtherName
  <2>2. c[NameOf(m + 1)] = 0
    BY <1>2, <1>3, <1>7
  <2>3. ASSUME NEW i \in 1 .. m + 1 PROVE Sections[i].fixed \/ c[NameOf(i)] = 0
    <3>1. CASE i = m + 1
      BY <2>2, <3>1
    <3>2. CASE i \in 1 .. m
      <4>1. Sections[i].fixed \/ b[NameOf(i)] = 0
        BY <1>7, <3>2 DEF DroppedTo
      <4>2. c[NameOf(i)] = b[NameOf(i)]
        BY <2>1, <3>2
      <4>. QED BY <4>1, <4>2
    <3>. QED BY <3>1, <3>2
  <2>4. \A i \in 1 .. m + 1 : Taken(a, c, i)
    <3> SUFFICES ASSUME NEW i \in 1 .. m + 1, c[NameOf(i)] = 0 PROVE Taken(a, c, i)
      BY <2>3 DEF Taken
    <3>1. Sections[i].min \in Nat
      BY SectionsAre
    <3>. QED BY <3>1 DEF Taken
  <2>5. InOrder(a, c)
    <3> SUFFICES ASSUME NEW i \in 1 .. 18, NEW j \in 1 .. 18, i < j, Lost(a, c, j)
                 PROVE  Taken(a, c, i)
      BY DEF InOrder
    <3>1. CASE i \in 1 .. m + 1
      BY <2>4, <3>1
    <3>2. CASE i > m + 1
      <4>1. Lost(a, b, j)
        BY <2>1, <3>2 DEF Lost
      <4>2. Taken(a, b, i)
        BY <4>1 DEF DroppedTo, InOrder
      <4>. QED BY <2>1, <3>2, <4>2 DEF Taken, Lost
    <3>. QED BY <3>1, <3>2
  <2>6. Shrunk(a, c)
    <3>1. \A n \in Names : c[n] <= a[n]
      BY <1>1, <1>3 DEF DroppedTo, Shrunk
    <3>2. ASSUME NEW i \in 1 .. 18, Sections[i].fixed PROVE c[NameOf(i)] = a[NameOf(i)]
      <4>1. i # m + 1
        BY <1>7, <3>2 DEF s
      <4>. QED BY <2>1, <3>2, <4>1 DEF DroppedTo, Shrunk
    <3>. QED BY <1>3, <3>1, <3>2 DEF Shrunk
  <2>7. DroppedTo(a, c, m + 1, max)
    BY <2>3, <2>5, <2>6 DEF DroppedTo
  <2>. QED BY <2>7 DEF c, s
<1>. QED BY <1>4, <1>5, <1>6, <1>7

\* Fitting leaves the fixed sections alone, keeps the budget unless only they are left,
\* and takes from the sections in their order.
LEMMA FitKeeps ==
  ASSUME NEW a \in [Names -> Nat], NEW max \in Int, NEW wide \in BOOLEAN
  PROVE  DroppedTo(a, Fit(a, max, wide), 18, max)
<1>1. PICK t \in [0 .. 18 -> [Names -> Nat]] :
         /\ t[0] = a
         /\ \A i \in 1 .. 18 : t[i] = TrimSection(t[i - 1], Sections[i], max, wide)
         /\ TrimAll(a, max, wide) = t[18]
  BY TrimChain, ZenonT(40)
<1>2. TrimmedTo(a, t[18], 18, max)
  <2> DEFINE S == {m \in Nat : m <= 18 => TrimmedTo(a, t[m], m, max)}
  <2>1. 0 \in S
    <3>1. Shrunk(a, a)
      BY DEF Shrunk
    <3>2. InOrder(a, a)
      <4>1. ASSUME NEW j \in 1 .. 18 PROVE ~Lost(a, a, j)
        <5>1. NameOf(j) \in Names
          BY SectionsAre DEF NameOf
        <5>2. a[NameOf(j)] \in Nat
          BY <5>1
        <5>. QED BY <5>2 DEF Lost
      <4>. QED BY <4>1 DEF InOrder
    <3>3. TrimmedTo(a, a, 0, max)
      BY <3>1, <3>2 DEF TrimmedTo
    <3>. QED BY <1>1, <3>3
  <2>2. ASSUME NEW m \in Nat, m \in S PROVE m + 1 \in S
    <3> SUFFICES ASSUME m + 1 <= 18 PROVE TrimmedTo(a, t[m + 1], m + 1, max)
      OBVIOUS
    <3>1. m \in 0 .. 17 /\ TrimmedTo(a, t[m], m, max)
      BY <2>2
    <3>2. TrimmedTo(a, TrimSection(t[m], Sections[m + 1], max, wide), m + 1, max)
      BY <3>1, TrimStep
    <3>3. m + 1 \in 1 .. 18 /\ (m + 1) - 1 = m
      OBVIOUS
    <3>4. t[m + 1] = TrimSection(t[m], Sections[m + 1], max, wide)
      BY <1>1, <3>3
    <3>. QED BY <3>2, <3>4
  <2>3. Nat \subseteq S
    <3>. HIDE DEF S
    <3>. QED BY <2>1, <2>2, NatInduct
  <2>. QED BY <2>3
<1>3. t[18] \in [Names -> Nat]
  OBVIOUS
<1>4. PICK d \in [0 .. 18 -> [Names -> Nat]] :
         /\ d[0] = t[18]
         /\ \A i \in 1 .. 18 : d[i] = DropSection(d[i - 1], Sections[i], max)
         /\ DropAll(t[18], max) = d[18]
  BY <1>3, DropChain
<1>5. DroppedTo(a, d[18], 18, max)
  <2> DEFINE S == {m \in Nat : m <= 18 => DroppedTo(a, d[m], m, max)}
  <2>1. 0 \in S
    <3>1. DroppedTo(a, d[0], 0, max)
      BY <1>2, <1>4 DEF TrimmedTo, DroppedTo
    <3>. QED BY <3>1
  <2>2. ASSUME NEW m \in Nat, m \in S PROVE m + 1 \in S
    <3> SUFFICES ASSUME m + 1 <= 18 PROVE DroppedTo(a, d[m + 1], m + 1, max)
      OBVIOUS
    <3>1. m \in 0 .. 17 /\ DroppedTo(a, d[m], m, max)
      BY <2>2
    <3>2. DroppedTo(a, DropSection(d[m], Sections[m + 1], max), m + 1, max)
      BY <3>1, DropStep
    <3>3. m + 1 \in 1 .. 18 /\ (m + 1) - 1 = m
      OBVIOUS
    <3>4. d[m + 1] = DropSection(d[m], Sections[m + 1], max)
      BY <1>4, <3>3
    <3>. QED BY <3>2, <3>4
  <2>3. Nat \subseteq S
    <3>. HIDE DEF S
    <3>. QED BY <2>1, <2>2, NatInduct
  <2>. QED BY <2>3
<1>. QED BY <1>1, <1>4, <1>5 DEF Fit

-----------------------------------------------------------------------------
(* The build. *)

\* The sections are sizes, and what is kept of them is what fitting gives.
FitInv ==
  /\ sizes \in [Names -> Nat]
  /\ stage = "fitted" => \E wide \in BOOLEAN : kept = Fit(sizes, MaxContext - SchemaTokens, wide)

\* The texts a task starts from are sizes.
LEMMA FitInit == CWInit => FitInv
<1> SUFFICES ASSUME CWInit PROVE FitInv
  OBVIOUS
<1>1. PICK mode \in Modes, text \in Texts :
         sizes = [n \in Names |-> IF n \in Included(mode) THEN text[n] ELSE 0]
  BY DEF CWInit
<1>2. text \in [Names -> Nat]
  BY ContextAssumption
<1>3. sizes \in [Names -> Nat]
  <2>. HIDE DEF Names, Included
  <2>. QED BY <1>1, <1>2
<1>4. stage = "build"
  BY DEF CWInit
<1>. QED BY <1>3, <1>4 DEF FitInv

\* Only the build makes a fitted context.
LEMMA FitStep == FitInv /\ [CWNext]_cwVars => FitInv'
<1> SUFFICES ASSUME FitInv, [CWNext]_cwVars PROVE FitInv'
  OBVIOUS
<1>1. CASE FitSections
  BY <1>1 DEF FitSections, FitInv
<1>2. CASE BuildMessages
  BY <1>2 DEF BuildMessages, FitInv, Nothing
<1>3. CASE Top \/ Preflight \/ SendRequest \/ PlanResult \/ Hold \/ ResumeHeld \/ DrainResult \/ Continue
  BY <1>3 DEF Top, Preflight, SendRequest, PlanResult, Hold, ResumeHeld, DrainResult, Continue, FitInv, loop
<1>4. CASE Answer
  <2>1. sizes' = sizes /\ stage' \in {"ended", "tools"}
    BY <1>4 DEF Answer
  <2>. QED BY <2>1 DEF FitInv
<1>5. CASE Result
  <2>1. UNCHANGED <<sizes, kept, stage>>
    BY <1>5 DEF Result
  <2>. QED BY <2>1 DEF FitInv
<1>6. CASE UNCHANGED cwVars
  BY <1>6 DEF cwVars, FitInv
<1>. QED BY <1>1, <1>2, <1>3, <1>4, <1>5, <1>6 DEF CWNext

\* BudgetRespected: whatever the texts and the budget, the context the builder fits
\* has every fixed section whole, keeps the budget or has nothing left but fixed
\* sections, and takes from a section only when those before it had nothing to give.
THEOREM BudgetRespectedHolds == CWSpec => []BudgetRespected
<1>1. FitInv => BudgetRespected
  <2> SUFFICES ASSUME FitInv, stage = "fitted" PROVE BudgetRespected
    BY DEF BudgetRespected
  <2> DEFINE max == MaxContext - SchemaTokens
             lost(i) == kept[Sections[i].name] < sizes[Sections[i].name]
  <2>1. max \in Int
    BY ContextAssumption
  <2>2. DroppedTo(sizes, kept, 18, max)
    <3>. HIDE DEF max
    <3>1. PICK wide \in BOOLEAN : kept = Fit(sizes, max, wide)
      BY DEF FitInv, max
    <3>2. sizes \in [Names -> Nat]
      BY DEF FitInv
    <3>. QED BY <2>1, <3>1, <3>2, FitKeeps
  <2>. HIDE DEF max
  <2>3. kept \in [Names -> Nat] /\ Total(kept) \in Nat
    <3>1. kept \in [Names -> Nat]
      BY <2>2 DEF DroppedTo, Shrunk
    <3>. QED BY <3>1, TotalGrows
  <2>4. \A i \in 1 .. 18 : Sections[i].fixed => ~lost(i)
    <3> SUFFICES ASSUME NEW i \in 1 .. 18, Sections[i].fixed PROVE ~lost(i)
      OBVIOUS
    <3>1. kept[Sections[i].name] = sizes[Sections[i].name] /\ kept[Sections[i].name] \in Nat
      BY <2>2, <2>3, SectionsAre DEF DroppedTo, Shrunk, NameOf
    <3>. QED BY <3>1
  <2>5. \/ Total(kept) <= max
        \/ \A i \in 1 .. 18 : Sections[i].fixed \/ kept[Sections[i].name] = 0
    BY <2>1, <2>2, <2>3 DEF DroppedTo, NameOf
  <2>6. \A i, j \in 1 .. 18 :
          i < j /\ lost(j) /\ ~Sections[i].fixed => lost(i) \/ kept[Sections[i].name] <= Sections[i].min
    BY <2>2 DEF DroppedTo, InOrder, Taken, Lost, NameOf
  <2>7. DOMAIN Sections = 1 .. 18
    BY SectionsAre
  <2>. QED BY <2>4, <2>5, <2>6, <2>7, Zenon DEF BudgetRespected, max
<1>. QED BY <1>1, FitInit, FitStep, PTL DEF CWSpec
=============================================================================
