----------------------------- MODULE MCComponents -----------------------------
(***************************************************************************)
(* The components that do not meet at run time, model-checked in one run:  *)
(* each behaviour is one of a single part, the others stay as they were.   *)
(***************************************************************************)
EXTENDS EventBus, MemoryRepository, DocumentStore, Encodings, Configuration,
        MCClients

CONSTANTS h1, h2, h3, c1, c2, jpg

VARIABLE part

ThreeHandlers == {h1, h2, h3}
TwoContents   == {c1, c2}
OneExt        == {jpg}
ZeroAndOne    == {0, 1}
OcrAndParsed  == {"ocr", "parsed"}

\* Files of lengths around the ends of the first two blocks.
Lengths == {0, 1, 55, 56, 57, 63, 64, 65, 119, 120, 128}

\* Bytes of all zeros and all ones, and characters that need (no) escape.
FewBytes == {0, 37, 47, 65, 255}

Inputs == {[i \in 1..n |-> (7 * i) % 256] : n \in Lengths}
            \cup UNION {[1..n -> FewBytes] : n \in 0..4}

Lists == UNION {[1..n -> Char] : n \in 0..4} \cup [1..5 -> {1, Comma, Minus, Letter}]

dataVars == <<encodingVars, configurationVars>>

componentVars == <<busVars, memoryVars, documentVars, dataVars, clientVars>>

ComponentsInit ==
  /\ BusInit /\ MemoryInit /\ DocumentInit /\ NothingEncoded /\ loaded = {}
  /\ ClientsInit /\ (part = "clients" \/ retries = 0)
  /\ \/ part \in {"bus", "memory", "documents", "clients"} /\ bytes = <<>> /\ raw = <<>>
     \/ part = "encodings" /\ bytes \in Inputs /\ raw = <<>>
     \/ part = "configuration" /\ bytes = <<>> /\ raw \in Lists

ComponentsNext ==
  /\ UNCHANGED part
  /\ \/ /\ part = "bus" /\ BusNext
        /\ UNCHANGED <<memoryVars, documentVars, dataVars, clientVars>>
     \/ /\ part = "memory" /\ MemoryNext
        /\ UNCHANGED <<busVars, documentVars, dataVars, clientVars>>
     \/ /\ part = "documents" /\ DocumentNext
        /\ UNCHANGED <<busVars, memoryVars, dataVars, clientVars>>
     \/ /\ part = "encodings" /\ EncodingsNext
        /\ UNCHANGED <<busVars, memoryVars, documentVars, configurationVars, clientVars>>
     \/ /\ part = "configuration" /\ config_load
        /\ UNCHANGED <<busVars, memoryVars, documentVars, encodingVars, clientVars>>
     \/ /\ part = "clients" /\ ClientsNext
        /\ UNCHANGED <<busVars, memoryVars, documentVars, dataVars>>

PublishGoesOn ==
  /\ part = "bus" /\ Walk
  /\ UNCHANGED <<memoryVars, documentVars, dataVars, clientVars, part>>

\* Handlers return.
ComponentsSpec ==
  /\ ComponentsInit /\ [][ComponentsNext]_<<componentVars, part>>
  /\ WF_<<componentVars, part>>(PublishGoesOn)
=============================================================================
