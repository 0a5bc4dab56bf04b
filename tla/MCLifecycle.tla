----------------------------- MODULE MCLifecycle -----------------------------
(* Values for model checking processes of the bot with their prompt fetcher. *)
EXTENDS Lifecycle

CONSTANTS t1, t2

TwoTexts == {t1, t2}
=============================================================================
