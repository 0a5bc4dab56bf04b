-------------------------------- MODULE Gemini --------------------------------
(***************************************************************************)
(* The Gemini client of kaufbot, which makes every request with an         *)
(* HttpClient of its own that never retries: which model is asked, the     *)
(* switch to the fallback model on a rate limit until the next midnight,   *)
(* and the token counts that are kept of the last answer.                  *)
(***************************************************************************)
EXTENDS HttpClient

CONSTANTS
  Primary, Fallback,  \* the configured models
  Others,             \* models a user may ask for with /retrywith
  FallbackEnabled,    \* GEMINI_FALLBACK_ENABLED
  MaxDay              \* bound: days that pass

ASSUME GeminiAssumption ==
  /\ Primary # Fallback /\ Primary \notin Others
  /\ FallbackEnabled \in BOOLEAN
  /\ MaxDay \in Nat

VARIABLES
  stage,          \* "idle", "post", "waiting"
  model,          \* client->model
  saved,          \* the model that is put back when the call ends
  wanted,         \* the model the caller asked for
  active,         \* the model in the URL of the last request
  day,            \* today; midnight begins the next one
  fallbackUntil,  \* the day client->fallback_until begins, 0 for none
  triedFallback,  \* local to the call
  result,         \* "text", or "null"
  tokens,         \* last_total_tokens
  usage           \* ghost: the tokens the last successful answer was charged with

geminiVars == <<stage, model, saved, wanted, active, day, fallbackUntil, triedFallback,
                result, tokens, usage>>
clientVars == <<httpVars, geminiVars>>

Models == {Primary, Fallback} \cup Others
Tokens == 0..1

GeminiIdle ==
  /\ stage = "idle"
  /\ model = Primary /\ saved = Primary /\ wanted = Primary /\ active = Primary
  /\ day = 1 /\ fallbackUntil = 0 /\ triedFallback = FALSE
  /\ result = "null" /\ tokens = 0 /\ usage = 0

\* Its requests are made with clients of http_client_new.
GeminiInit == HttpInit /\ retries = 0 /\ GeminiIdle

-----------------------------------------------------------------------------
NewDay == /\ day < MaxDay
          /\ day' = day + 1
          /\ UNCHANGED <<httpVars, stage, model, saved, wanted, active, fallbackUntil,
                         triedFallback, result, tokens, usage>>

BeginCall(wants, with) ==
  /\ stage = "idle" /\ requests < MaxRequests
  /\ stage' = "post" /\ wanted' = wants
  /\ saved' = model /\ model' = with
  /\ triedFallback' = FALSE
  /\ UNCHANGED <<httpVars, active, day, fallbackUntil, result, tokens, usage>>

\* gemini_extract_text and gemini_parse_receipt: the client's model is asked.
Call == BeginCall(Primary, model)

\* gemini_extract_text_with_model swaps the model for the call.
CallWithModel(m) == BeginCall(m, m)

\* The fallback ends when its day is over.
Post ==
  /\ stage = "post"
  /\ fallbackUntil' = IF day >= fallbackUntil THEN 0 ELSE fallbackUntil
  /\ active' = IF fallbackUntil' # 0 THEN Fallback ELSE model
  /\ Execute
  /\ stage' = "waiting"
  /\ UNCHANGED <<model, saved, wanted, day, triedFallback, result, tokens, usage>>

Await == Perform /\ UNCHANGED geminiVars

\* Mutant: a call that failed leaves the model it had swapped in.
Finish_NotRestored(res) ==
  /\ stage' = "idle" /\ result' = res
  /\ model' = IF res = "null" THEN model ELSE saved

Finish(res) == stage' = "idle" /\ result' = res /\ model' = saved

SwitchToFallback ==
  /\ fallbackUntil' = day + 1 /\ triedFallback' = TRUE /\ stage' = "post"
  /\ UNCHANGED <<model, result, tokens, usage>>

GiveUp == Finish("null") /\ UNCHANGED <<fallbackUntil, triedFallback, tokens, usage>>

\* The answer's JSON, by what gemini_check_error looks at: is there an error
\* object, and how far does the path to the text of the first part go?
Steps == <<"candidates", "content", "parts", "text">>
GeminiJson == [error : BOOLEAN, found : 0..Len(Steps)]

gemini_check_error(json) == IF ~json.error /\ json.found = Len(Steps) THEN "text" ELSE "null"

\* Mutant: the counts of an earlier answer stay when this one has none.
Understand_TokensKept ==
  /\ \E charged \in Tokens :
       /\ usage' = charged
       /\ \/ tokens' = charged
          \/ charged = 0 /\ tokens' = tokens
  /\ \E json \in GeminiJson : Finish(gemini_check_error(json))
  /\ UNCHANGED <<fallbackUntil, triedFallback>>

\* The counts are zeroed first, as usageMetadata may be missing; the answer
\* need not hold a text.
Understand ==
  /\ \E charged \in Tokens : usage' = charged /\ tokens' = charged
  /\ \E json \in GeminiJson : Finish(gemini_check_error(json))
  /\ UNCHANGED <<fallbackUntil, triedFallback>>

\* The rest of gemini_post_and_parse.
Handle ==
  /\ stage = "waiting"
  /\ FreeResponse
  /\ IF Rc # 0 THEN GiveUp
     ELSE IF response.status = 429 /\ ~triedFallback /\ FallbackEnabled THEN SwitchToFallback
     ELSE IF ~response.success THEN GiveUp
     ELSE Understand
  /\ UNCHANGED <<saved, wanted, active, day>>

GeminiNext ==
  NewDay \/ Call \/ (\E m \in {Primary} \cup Others : CallWithModel(m))
    \/ Post \/ Await \/ Handle

GeminiSpec == GeminiInit /\ [][GeminiNext]_clientVars

-----------------------------------------------------------------------------
\* The model that is asked is the one the caller wants, unless a rate limit
\* has put the fallback in its place: a model swapped in for one call is gone
\* in the next, however the call ended.
WantedModelIsAsked ==
  stage = "waiting" => IF fallbackUntil # 0 THEN active = Fallback ELSE active = wanted

\* The token counts a caller reads after a successful call are those of its
\* own answer, not of an earlier one.
TokensAreOfThisAnswer == stage = "idle" /\ result = "text" => tokens = usage

\* "Handle 429 rate limit - switch to fallback model and retry once"
RateLimitFallsBack ==
  [][stage = "waiting" /\ call = "returned" /\ LastAnswer.status = 429 /\ FallbackEnabled
       /\ ~triedFallback => stage' # "idle"]_clientVars
=============================================================================
