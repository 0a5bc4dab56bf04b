------------------------------ MODULE MCClients ------------------------------
(***************************************************************************)
(* The HTTP client of any configuration and the Gemini client, whose HTTP  *)
(* clients never retry: one part of MCComponents.                          *)
(***************************************************************************)
EXTENDS Gemini

CONSTANT other

OneOther == {other}

ClientsInit == HttpInit /\ GeminiIdle

ClientsNext ==
  \/ retries = 0 /\ GeminiNext
  \/ retries # 0 /\ HttpNext /\ UNCHANGED geminiVars
=============================================================================
