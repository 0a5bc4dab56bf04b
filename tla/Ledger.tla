------------------------------- MODULE Ledger -------------------------------
(***************************************************************************)
(* What the bot promises about the files it has taken in, with no storage, *)
(* no crashes and no intermediate steps: a ledger of the contents it knows.*)
(* An entry has an id nobody had before, is the only one of its content,   *)
(* may be read (OCR) and may hold a receipt, and that receipt is its own.  *)
(***************************************************************************)
EXTENDS Integers

CONSTANTS Contents, Ids

VARIABLES
  entries,  \* records of id, hash, read (a BOOLEAN) and receipt ("none" or "own")
  issued    \* the last id that was given out

LedgerInit == entries = {} /\ issued = 0

Register(c) ==
  /\ \A e \in entries : e.hash # c
  /\ issued + 1 \in Ids
  /\ issued' = issued + 1
  /\ entries' = entries \cup
                  {[id |-> issued + 1, hash |-> c, read |-> FALSE, receipt |-> "none"]}

\* An id that is used up and names nothing.
SkipId == issued + 1 \in Ids /\ issued' = issued + 1 /\ UNCHANGED entries

Replace(e, f) == entries' = (entries \ {e}) \cup {f}

MarkRead(e) == Replace(e, [e EXCEPT !.read = TRUE]) /\ UNCHANGED issued

PutReceipt(e) == Replace(e, [e EXCEPT !.receipt = "own"]) /\ UNCHANGED issued

Remove(e) == entries' = entries \ {e} /\ UNCHANGED issued

LedgerNext ==
  \/ \E c \in Contents : Register(c)
  \/ SkipId
  \/ \E e \in entries : MarkRead(e) \/ PutReceipt(e) \/ Remove(e)

LedgerSpec == LedgerInit /\ [][LedgerNext]_<<entries, issued>>
=============================================================================
