------------------------------ MODULE MCBotLoop ------------------------------
(* Values for model checking the main loop with the prompt fetcher.        *)
EXTENDS BotLoop

CONSTANTS t1, t2

OneText  == {t1}
TwoTexts == {t1, t2}
=============================================================================
