------------------------------ MODULE MCGemini ------------------------------
(* Values for model checking the Gemini client.                            *)
EXTENDS Gemini

CONSTANT other

OneOther == {other}
=============================================================================
