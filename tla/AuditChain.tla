----------------------------- MODULE AuditChain -----------------------------
(***************************************************************************)
(* The hash-linked audit ledger of packages/storage: how a row is appended *)
(* (appendAuditRecordSync) and how the whole table is verified             *)
(* (verifyAuditChain).                                                     *)
(*                                                                         *)
(* Digests are symbolic.  SHA-256 over the canonical JSON of a row covers  *)
(* the previous digest and the row's own fields, so a digest stands for    *)
(* the list of everything it commits to: appending is injective and never  *)
(* collides, which is what the program assumes of SHA-256.                 *)
(*                                                                         *)
(* audit_log is written in the order of chain_sequence and the embedded    *)
(* schema never deletes from it, so the table is a sequence.  log_id and   *)
(* timestamp are covered by the digest in the code; nothing here tells two *)
(* values of them apart and they are left out.                             *)
(***************************************************************************)
EXTENDS Naturals, Sequences

(* "0".repeat(64), the digest before the first row. *)
Genesis == <<>>

(* calculateJCSHash over the payload of an audit row. *)
RowDigest(previous, sequence, event) ==
  Append(previous, [chain_sequence |-> sequence, event |-> event])

(* calculateJCSHash over a primitive. *)
JCSHash(primitive) == [sha256 |-> primitive]

Digest(Event) == Seq([chain_sequence : Nat \ {0}, event : Event])

AuditRecord(Event) ==
  [ chain_sequence    : Nat \ {0},
    event             : Event,
    previous_jcs_hash : Digest(Event),
    new_jcs_hash      : Digest(Event) ]

-----------------------------------------------------------------------------
(* What the next row links to: the newest row, or the genesis value. *)
LatestSequence(log) == IF log = <<>> THEN 0 ELSE log[Len(log)].chain_sequence

(* The query without DESC.                                                   *)
DigestOfFirst(log) == IF log = <<>> THEN Genesis ELSE log[1].new_jcs_hash

LatestDigest(log) == IF log = <<>> THEN Genesis ELSE log[Len(log)].new_jcs_hash

(* An off-by-one: the row takes the number of the row it links to.           *)
NextRecordZeroBased(log, event) ==
  [ chain_sequence    |-> LatestSequence(log),
    event             |-> event,
    previous_jcs_hash |-> LatestDigest(log),
    new_jcs_hash      |-> RowDigest(LatestDigest(log), LatestSequence(log), event) ]

NextRecord(log, event) ==
  LET sequence == LatestSequence(log) + 1
      previous == LatestDigest(log)
  IN  [ chain_sequence    |-> sequence,
        event             |-> event,
        previous_jcs_hash |-> previous,
        new_jcs_hash      |-> RowDigest(previous, sequence, event) ]

AppendAuditRecord(log, event) == Append(log, NextRecord(log, event))

(* verifyAuditChain(): row i carries sequence i, links to row i - 1 and its  *)
(* stored digest is the digest of its own payload.                           *)
VerifyAuditChain(log) ==
  \A i \in 1 .. Len(log) :
    /\ log[i].chain_sequence = i
    /\ log[i].previous_jcs_hash = (IF i = 1 THEN Genesis ELSE log[i - 1].new_jcs_hash)
    /\ log[i].new_jcs_hash =
         RowDigest(log[i].previous_jcs_hash, log[i].chain_sequence, log[i].event)
=============================================================================
