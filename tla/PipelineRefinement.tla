------------------------- MODULE PipelineRefinement -------------------------
(***************************************************************************)
(* The pipeline implements the ledger: each of its database calls is one   *)
(* step of the ledger, and every other step leaves the ledger alone.       *)
(***************************************************************************)
EXTENDS PipelineProperties

\* A receipt that was parsed from some other file is no receipt of the ledger.
ReceiptOf(r) ==
  IF \E p \in receipts : p.file = r.id
  THEN IF \E p \in receipts : p.file = r.id /\ p.from \in Own(r) THEN "own" ELSE "foreign"
  ELSE "none"

Entries == {[id |-> r.id, hash |-> r.hash, read |-> r.ocr # None, receipt |-> ReceiptOf(r)] :
              r \in files}

L == INSTANCE Ledger WITH entries <- Entries, issued <- lastId

\* Whatever fails, what the tables say of the files changes only as the
\* ledger may: contents entered once, fresh ids, own receipts, whole removals.
ImplementsLedger == L!LedgerSpec
=============================================================================
