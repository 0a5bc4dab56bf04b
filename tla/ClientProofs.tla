---------------------------- MODULE ClientProofs ----------------------------
(***************************************************************************)
(* For any number of retries, requests and days: a request is repeated     *)
(* only when the answer asks for it, no body is lost, success is what the  *)
(* server answered; and the Gemini client, which is a user of the HTTP     *)
(* client, asks the model it was told to and reports its own tokens.       *)
(***************************************************************************)
EXTENDS Gemini, TLAPS

-----------------------------------------------------------------------------
(* The HTTP client.                                                        *)

Retryable(a) == ~Succeeded(a) /\ a.status \in {429, 503}

Responses == [status : Statuses, body : Bodies, success : BOOLEAN]

HttpTypes ==
  /\ retries \in Nat /\ attempt \in Nat /\ attempt <= retries
  /\ retries <= MaxRetries
  /\ call \in {"idle", "attempt", "returned"}
  /\ answers \in Seq(HttpAnswer)
  /\ response \in Responses
  /\ bodies \subseteq Bodies

\* While it is tried there is an answer to each attempt before this one, all
\* of which asked for another, and nothing is held; when it returns there is
\* one more, which the response repeats.
AnswersInv ==
  /\ \A i \in 1 .. Len(answers) - 1 : Retryable(answers[i])
  /\ call = "attempt" =>
       /\ Len(answers) = attempt
       /\ \A i \in 1 .. attempt : Retryable(answers[i])
       /\ response = Blanked
  /\ call = "returned" =>
       /\ Len(answers) = attempt + 1
       /\ response.status = LastAnswer.status /\ response.success = Succeeded(LastAnswer)
  /\ call = "idle" => response.body = 0 /\ Len(answers) <= attempt + 1

HttpInv == HttpTypes /\ BodiesAreOwned /\ AnswersInv

\* An answer is tried again when it asks for it, and then it is no success.
LEMMA RetryableAnswer ==
  \A a \in HttpAnswer : http_is_retryable(a.status) => Retryable(a)
BY DEF HttpAnswer, Statuses, http_is_retryable, Retryable, Succeeded

LEMMA HttpInvInit == HttpInit => HttpInv
BY HttpAssumption
   DEF HttpInit, HttpInv, HttpTypes, BodiesAreOwned, AnswersInv, Blanked, Responses, Statuses, Bodies

\* One attempt: the answer is appended; it is given up or returned.
LEMMA PerformKeeps ==
  ASSUME HttpInv, Perform
  PROVE  HttpInv'
<1>1. PICK a \in HttpAnswer, body \in {0, attempt + 1} :
        /\ answers' = Append(answers, a)
        /\ IF attempt < retries /\ http_is_retryable(a.status)
           THEN RetryLater(body) ELSE Return(a, body)
  BY DEF Perform
<1>2. /\ call = "attempt" /\ UNCHANGED retries
      /\ HttpTypes /\ Len(answers) = attempt /\ response = Blanked
      /\ \A i \in 1 .. attempt : Retryable(answers[i])
      /\ bodies = {}
  BY DEF Perform, HttpInv, AnswersInv, BodiesAreOwned, Blanked
<1>3. /\ retries \in Nat /\ attempt \in Nat /\ attempt <= retries /\ retries <= MaxRetries
      /\ answers \in Seq(HttpAnswer) /\ MaxRetries \in Nat
  BY <1>2, HttpAssumption DEF HttpTypes
<1>4. body \in Bodies /\ 0 \in Bodies
  BY <1>3 DEF Bodies
<1>5. /\ answers' \in Seq(HttpAnswer) /\ Len(answers') = attempt + 1
      /\ answers'[attempt + 1] = a
      /\ \A i \in 1 .. attempt : answers'[i] = answers[i]
  BY <1>1, <1>2, <1>3
<1>6. \A i \in 1 .. attempt : Retryable(answers'[i])
  BY <1>2, <1>5
<1>7. CASE attempt < retries /\ http_is_retryable(a.status)
  <2>1. /\ response' = Blanked /\ bodies' = {} /\ attempt' = attempt + 1 /\ call' = "attempt"
    BY <1>1, <1>2, <1>7 DEF RetryLater
  <2>2. Retryable(a)
    BY <1>7, RetryableAnswer
  <2>3. \A i \in 1 .. attempt + 1 : Retryable(answers'[i])
    BY <2>2, <1>5, <1>6, <1>3
  <2>4. AnswersInv'
    BY <2>1, <2>3, <1>3, <1>5 DEF AnswersInv
  <2>5. HttpTypes'
    BY <2>1, <1>2, <1>3, <1>4, <1>5, <1>7 DEF HttpTypes, Blanked, Responses, Statuses
  <2>6. BodiesAreOwned'
    BY <2>1 DEF BodiesAreOwned, Blanked
  <2> QED
    BY <2>4, <2>5, <2>6 DEF HttpInv
<1>8. CASE ~ (attempt < retries /\ http_is_retryable(a.status))
  <2>1. /\ response' = [status |-> a.status, body |-> body, success |-> Succeeded(a)]
        /\ bodies' = {body} \ {0} /\ attempt' = attempt /\ call' = "returned"
    BY <1>1, <1>2, <1>8 DEF Return, ResponseTo
  <2>2. LastAnswer' = a
    BY <1>5 DEF LastAnswer
  <2>3. Len(answers') - 1 = attempt
    BY <1>3, <1>5
  <2>4. AnswersInv'
    BY <2>1, <2>2, <2>3, <1>5, <1>6 DEF AnswersInv
  <2>5. Succeeded(a) \in BOOLEAN /\ a.status \in Statuses
    BY DEF Succeeded, HttpAnswer
  <2>6. HttpTypes'
    BY <2>1, <2>5, <1>2, <1>3, <1>4, <1>5 DEF HttpTypes, Responses
  <2>7. BodiesAreOwned'
    BY <2>1 DEF BodiesAreOwned
  <2> QED
    BY <2>4, <2>6, <2>7 DEF HttpInv
<1> QED
  BY <1>7, <1>8

LEMMA HttpInvStep == HttpInv /\ [HttpNext]_httpVars => HttpInv'
<1> SUFFICES ASSUME HttpInv, [HttpNext]_httpVars PROVE HttpInv'
  OBVIOUS
<1>1. HttpTypes /\ BodiesAreOwned /\ AnswersInv
  BY DEF HttpInv
<1>2. CASE Execute
  <2>1. /\ call = "idle" /\ call' = "attempt" /\ attempt' = 0 /\ answers' = <<>>
        /\ response' = Blanked /\ UNCHANGED retries /\ UNCHANGED bodies
    BY <1>2 DEF Execute
  <2>2. bodies = {}
    BY <2>1, <1>1 DEF BodiesAreOwned, AnswersInv
  <2> QED
    BY <2>1, <2>2, <1>1, HttpAssumption
       DEF HttpInv, HttpTypes, BodiesAreOwned, AnswersInv, Blanked, Responses, Statuses, Bodies
<1>3. CASE Perform
  BY <1>3, PerformKeeps
<1>4. CASE FreeResponse
  <2>1. /\ call = "returned" /\ call' = "idle"
        /\ bodies' = bodies \ {response.body} /\ response' = [response EXCEPT !.body = 0]
        /\ UNCHANGED <<retries, attempt, answers>>
    BY <1>4 DEF FreeResponse
  <2>2. response \in Responses /\ 0 \in Bodies
    BY <1>1, HttpAssumption DEF HttpTypes, Bodies
  <2>3. response' \in Responses /\ response'.body = 0 /\ bodies' = {}
    BY <2>1, <2>2, <1>1 DEF Responses, BodiesAreOwned
  <2>4. HttpTypes'
    BY <2>1, <2>3, <1>1 DEF HttpTypes
  <2>5. AnswersInv'
    BY <2>1, <2>3, <1>1 DEF AnswersInv, HttpTypes
  <2> QED
    BY <2>3, <2>4, <2>5 DEF HttpInv, BodiesAreOwned
<1>5. CASE UNCHANGED httpVars
  BY <1>5, <1>1 DEF httpVars, HttpInv, HttpTypes, BodiesAreOwned, AnswersInv, LastAnswer
<1> QED
  BY <1>2, <1>3, <1>4, <1>5 DEF HttpNext

\* The body of an attempt that is given up is freed before the next.
THEOREM BodiesAreOwnedCorrect == HttpSpec => []BodiesAreOwned
<1>1. HttpInv => BodiesAreOwned
  BY DEF HttpInv
<1> QED
  BY <1>1, HttpInvInit, HttpInvStep, PTL DEF HttpSpec

\* What a server accepted is not sent again, however many retries are allowed.
THEOREM OnlyRetryableRepeatedCorrect == HttpSpec => []OnlyRetryableRepeated
<1>1. HttpInv => OnlyRetryableRepeated
  <2> SUFFICES ASSUME HttpInv PROVE OnlyRetryableRepeated
    OBVIOUS
  <2>1. HttpTypes /\ AnswersInv
    BY DEF HttpInv
  <2>2. Len(answers) <= attempt + 1
    BY <2>1 DEF HttpTypes, AnswersInv
  <2>3. Len(answers) <= retries + 1
    BY <2>1, <2>2 DEF HttpTypes
  <2> QED
    BY <2>1, <2>3 DEF OnlyRetryableRepeated, AnswersInv, Retryable
<1> QED
  BY <1>1, HttpInvInit, HttpInvStep, PTL DEF HttpSpec

\* A caller that is told of success holds the whole last answer.
THEOREM SuccessIsWholeCorrect == HttpSpec => []SuccessIsWhole
<1>1. HttpInv => SuccessIsWhole
  <2> SUFFICES ASSUME HttpInv, call = "returned" PROVE
         /\ Rc = 0 => LastAnswer.whole /\ LastAnswer.status = 200
         /\ response.status = LastAnswer.status
    BY DEF SuccessIsWhole
  <2>1. /\ response.status = LastAnswer.status /\ response.success = Succeeded(LastAnswer)
        /\ answers \in Seq(HttpAnswer) /\ Len(answers) = attempt + 1 /\ attempt \in Nat
    BY DEF HttpInv, HttpTypes, AnswersInv
  <2>2. LastAnswer \in HttpAnswer
    BY <2>1 DEF LastAnswer
  <2>3. Succeeded(LastAnswer) => LastAnswer.whole /\ LastAnswer.status = 200
    BY <2>2 DEF Succeeded, HttpAnswer, Statuses
  <2>4. Rc = 0 => response.success
    BY DEF Rc
  <2> QED
    BY <2>1, <2>3, <2>4
<1> QED
  BY <1>1, HttpInvInit, HttpInvStep, PTL DEF HttpSpec

-----------------------------------------------------------------------------
(* The Gemini client.                                                      *)

\* Each of its steps is one of the HTTP client's, or none of its business: so
\* it keeps to that client's protocol and has all of its properties.
THEOREM GeminiUsesHttpClient == GeminiSpec => HttpSpec
<1>1. GeminiInit => HttpInit
  BY DEF GeminiInit
<1>2. [GeminiNext]_clientVars => [HttpNext]_httpVars
  <2> SUFFICES ASSUME [GeminiNext]_clientVars PROVE HttpNext \/ UNCHANGED httpVars
    OBVIOUS
  <2>1. CASE NewDay
    BY <2>1 DEF NewDay
  <2>2. CASE Call
    BY <2>2 DEF Call, BeginCall
  <2>3. ASSUME NEW m \in {Primary} \cup Others, CallWithModel(m) PROVE UNCHANGED httpVars
    BY <2>3 DEF CallWithModel, BeginCall
  <2>4. CASE Post
    BY <2>4 DEF Post, HttpNext
  <2>5. CASE Await
    BY <2>5 DEF Await, HttpNext
  <2>6. CASE Handle
    BY <2>6 DEF Handle, HttpNext
  <2>7. CASE UNCHANGED clientVars
    BY <2>7 DEF clientVars
  <2> QED
    BY <2>1, <2>2, <2>3, <2>4, <2>5, <2>6, <2>7 DEF GeminiNext
<1> QED
  BY <1>1, <1>2, PTL DEF GeminiSpec, HttpSpec

\* Between calls the client's model is the configured one, which a call puts
\* aside and works for the one that is wanted.
ModelInv ==
  /\ stage \in {"idle", "post", "waiting"}
  /\ stage = "idle" => model = Primary
  /\ stage # "idle" => saved = Primary /\ model = wanted
  /\ WantedModelIsAsked
  /\ TokensAreOfThisAnswer

LEMMA ModelInvInit == GeminiInit => ModelInv
BY DEF GeminiInit, GeminiIdle, ModelInv, WantedModelIsAsked, TokensAreOfThisAnswer

LEMMA ModelInvStep == ModelInv /\ [GeminiNext]_clientVars => ModelInv'
<1> SUFFICES ASSUME ModelInv, [GeminiNext]_clientVars PROVE ModelInv'
  OBVIOUS
<1> USE DEF ModelInv, WantedModelIsAsked, TokensAreOfThisAnswer
<1>1. CASE NewDay
  BY <1>1 DEF NewDay
<1>2. CASE Call
  BY <1>2 DEF Call, BeginCall
<1>3. ASSUME NEW m \in {Primary} \cup Others, CallWithModel(m) PROVE ModelInv'
  BY <1>3 DEF CallWithModel, BeginCall
<1>4. CASE Post
  BY <1>4 DEF Post
<1>5. CASE Await
  BY <1>5 DEF Await, geminiVars
<1>6. CASE Handle
  <2>1. stage = "waiting" /\ UNCHANGED <<saved, wanted>>
        /\ (GiveUp \/ SwitchToFallback \/ Understand)
    BY <1>6 DEF Handle
  <2>2. CASE GiveUp
    BY <2>1, <2>2 DEF GiveUp, Finish
  <2>3. CASE SwitchToFallback
    BY <2>1, <2>3 DEF SwitchToFallback
  <2>4. CASE Understand
    <3>1. stage' = "idle" /\ model' = saved /\ tokens' = usage'
      BY <2>4 DEF Understand, Finish
    <3> QED
      BY <3>1, <2>1
  <2> QED
    BY <2>1, <2>2, <2>3, <2>4
<1>7. CASE UNCHANGED clientVars
  BY <1>7 DEF clientVars, geminiVars
<1> QED
  BY <1>1, <1>2, <1>3, <1>4, <1>5, <1>6, <1>7 DEF GeminiNext

\* The wanted model is asked unless the rate limit has put the fallback in its
\* place, in every sequence of calls, with a model of their own or without.
THEOREM WantedModelIsAskedCorrect == GeminiSpec => []WantedModelIsAsked
<1>1. ModelInv => WantedModelIsAsked
  BY DEF ModelInv
<1> QED
  BY <1>1, ModelInvInit, ModelInvStep, PTL DEF GeminiSpec

\* The token counts of a call that succeeded are those of its own answer.
THEOREM TokensAreOfThisAnswerCorrect == GeminiSpec => []TokensAreOfThisAnswer
<1>1. ModelInv => TokensAreOfThisAnswer
  BY DEF ModelInv
<1> QED
  BY <1>1, ModelInvInit, ModelInvStep, PTL DEF GeminiSpec
=============================================================================
