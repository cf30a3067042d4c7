--------------------------- MODULE RecordedMemory ---------------------------
(***************************************************************************)
(* What a memory store promises about its ledger: what is live under an id *)
(* is what was recorded for it last.  A write records and stores in one    *)
(* step; memories may retire (deleted, archived, merged away) without a    *)
(* record.  No clients, transactions, digests or chains.                   *)
(***************************************************************************)
CONSTANTS
  Ids,      \* ids of memories
  Values,   \* what can be stored
  Live,     \* the values that are in use when they are stored
  None      \* nothing stored, nothing recorded

VARIABLES
  memory,   \* what is live under an id
  recorded  \* what was last recorded for it

Init ==
  /\ memory = [i \in Ids |-> None]
  /\ recorded = [i \in Ids |-> None]

Record(i, value) ==
  /\ value \in Values
  /\ recorded' = [recorded EXCEPT ![i] = value]
  /\ memory' = [memory EXCEPT ![i] = IF value \in Live THEN value ELSE None]

Retire(ids) ==
  /\ memory' = [i \in Ids |-> IF i \in ids THEN None ELSE memory[i]]
  /\ UNCHANGED recorded

Next ==
  \/ \E i \in Ids : Record(i, recorded'[i])
  \/ \E ids \in SUBSET Ids : Retire(ids)

Spec == Init /\ [][Next]_<<memory, recorded>>

-----------------------------------------------------------------------------
TypeOK ==
  /\ memory \in [Ids -> Values \cup {None}]
  /\ recorded \in [Ids -> Values \cup {None}]

(* The promise.                                                              *)
LiveIsRecorded == \A i \in Ids : memory[i] # None => memory[i] = recorded[i]
=============================================================================
