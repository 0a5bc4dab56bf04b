------------------------------ MODULE HttpClient ------------------------------
(***************************************************************************)
(* One HttpClient of kaufbot, of any configuration, and the requests made  *)
(* with it: the retry loop of http_client_execute, and the memory that     *)
(* passes through it.  What the network and the server do with an attempt  *)
(* is its answer.                                                          *)
(***************************************************************************)
EXTENDS Integers, Sequences

CONSTANTS
  MaxRetries,   \* bound: the max_retries of a configuration
  MaxRequests   \* bound: requests made with the client

ASSUME HttpAssumption == MaxRetries \in Nat /\ MaxRequests \in Nat

VARIABLES
  retries,   \* client->config.max_retries
  call,      \* "idle", "attempt" or "returned"
  attempt,   \* retries so far
  answers,   \* what the attempts of this request met with
  response,  \* the caller's HttpResponse
  bodies,    \* response bodies that are allocated; 0 is no body
  requests   \* requests so far

httpVars == <<retries, call, attempt, answers, response, bodies, requests>>

\* No answer at all, and a representative of each class of status codes.
Statuses == {0, 200, 404, 429, 503}

\* "whole": did curl_easy_perform return CURLE_OK?  A status may be known of
\* an answer that broke off.
HttpAnswer == {a \in [whole : BOOLEAN, status : Statuses] : a.whole => a.status # 0}

Bodies == 0..MaxRetries + 1

Blanked == [status |-> 0, body |-> 0, success |-> FALSE]

\* http_client_new never retries, http_client_new_custom as often as it is told.
HttpInit ==
  /\ retries \in 0..MaxRetries
  /\ call = "idle" /\ attempt = 0 /\ answers = <<>>
  /\ response = Blanked /\ bodies = {} /\ requests = 0

-----------------------------------------------------------------------------
Execute ==
  /\ call = "idle" /\ requests < MaxRequests
  /\ call' = "attempt"
  /\ attempt' = 0 /\ answers' = <<>> /\ response' = Blanked
  /\ requests' = requests + 1
  /\ UNCHANGED <<retries, bodies>>

\* Mutant: whatever is no success is tried again.
http_is_retryable_AnyError(status) == status >= 300 \/ status = 0

http_is_retryable(status) == status >= 500 \/ status = 429

\* Mutant: an answer that broke off counts as well.
Succeeded_BrokenOff(a) == a.status >= 200 /\ a.status < 300

Succeeded(a) == a.whole /\ a.status >= 200 /\ a.status < 300

ResponseTo(a, body) == [status |-> a.status, body |-> body, success |-> Succeeded(a)]

\* Mutant: the body of the attempt is not freed.
Retry_BodyKept(body) ==
  /\ response' = Blanked /\ bodies' = bodies \cup ({body} \ {0})
  /\ attempt' = attempt + 1
  /\ UNCHANGED call

\* The body of the attempt is freed, the response blanked.
RetryLater(body) ==
  /\ response' = Blanked /\ bodies' = bodies
  /\ attempt' = attempt + 1
  /\ UNCHANGED call

Return(a, body) ==
  /\ response' = ResponseTo(a, body) /\ bodies' = bodies \cup ({body} \ {0})
  /\ call' = "returned"
  /\ UNCHANGED attempt

\* One attempt: a body is allocated when data arrived.
Perform ==
  /\ call = "attempt"
  /\ \E a \in HttpAnswer, body \in {0, attempt + 1} :
       /\ a.status = 0 => body = 0
       /\ answers' = Append(answers, a)
       /\ IF attempt < retries /\ http_is_retryable(a.status)
          THEN RetryLater(body) ELSE Return(a, body)
  /\ UNCHANGED <<retries, requests>>

\* http_client_execute returns this.
Rc == IF response.success THEN 0 ELSE -1

\* The caller has looked at the response: http_response_free.
FreeResponse ==
  /\ call = "returned"
  /\ call' = "idle"
  /\ bodies' = bodies \ {response.body} /\ response' = [response EXCEPT !.body = 0]
  /\ UNCHANGED <<retries, attempt, answers, requests>>

HttpNext == Execute \/ Perform \/ FreeResponse

HttpSpec == HttpInit /\ [][HttpNext]_httpVars

-----------------------------------------------------------------------------
LastAnswer == answers[Len(answers)]

\* The only body that is allocated is the one the caller's response holds:
\* the bodies of attempts that were given up are not lost.
BodiesAreOwned == bodies = {response.body} \ {0}

\* A request is sent again only after an answer that asks for it, so what a
\* server has accepted is never sent twice, and not more often than allowed.
OnlyRetryableRepeated ==
  /\ Len(answers) <= retries + 1
  /\ \A i \in 1..Len(answers) - 1 : ~Succeeded(answers[i]) /\ answers[i].status \in {429, 503}

\* A caller that is told of success holds a whole answer, that of the last
\* attempt.
SuccessIsWhole ==
  call = "returned" =>
    /\ Rc = 0 => LastAnswer.whole /\ LastAnswer.status = 200
    /\ response.status = LastAnswer.status
=============================================================================
