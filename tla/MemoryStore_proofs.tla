------------------------- MODULE MemoryStore_proofs -------------------------
(***************************************************************************)
(* Theorems about MemoryStore, for every set of primitives, clients and    *)
(* operations and every bound.                                             *)
(***************************************************************************)
EXTENDS MemoryStore, TLAPS

-----------------------------------------------------------------------------
(* The ledger's operators, for any set of events.                          *)

(* The row that appendAuditRecordSync inserts is a well-formed audit row.    *)
LEMMA NextRecordType ==
  ASSUME NEW Event, NEW log \in Seq(AuditRecord(Event)), NEW event \in Event
  PROVE  NextRecord(log, event) \in AuditRecord(Event)
<1> DEFINE Body == [chain_sequence : Nat \ {0}, event : Event]
<1>1. LatestSequence(log) + 1 \in Nat \ {0}
  <2>1. CASE log = <<>>
    BY <2>1 DEF LatestSequence
  <2>2. CASE log # <<>>
    <3>1. log[Len(log)] \in AuditRecord(Event)
      BY <2>2
    <3> QED BY <2>2, <3>1 DEF LatestSequence, AuditRecord
  <2> QED BY <2>1, <2>2
<1>2. LatestDigest(log) \in Seq(Body)
  <2>1. CASE log = <<>>
    BY <2>1 DEF LatestDigest, Genesis
  <2>2. CASE log # <<>>
    <3>1. log[Len(log)] \in AuditRecord(Event)
      BY <2>2
    <3> QED BY <2>2, <3>1 DEF LatestDigest, AuditRecord, Digest
  <2> QED BY <2>1, <2>2
<1>3. [chain_sequence |-> LatestSequence(log) + 1, event |-> event] \in Body
  BY <1>1
<1>4. RowDigest(LatestDigest(log), LatestSequence(log) + 1, event) \in Seq(Body)
  BY <1>2, <1>3 DEF RowDigest
<1> QED BY <1>1, <1>2, <1>4 DEF NextRecord, AuditRecord, Digest

(* The table keeps its type when a row is appended.                          *)
LEMMA AppendType ==
  ASSUME NEW Event, NEW log \in Seq(AuditRecord(Event)), NEW event \in Event
  PROVE  AppendAuditRecord(log, event) \in Seq(AuditRecord(Event))
<1>1. NextRecord(log, event) \in AuditRecord(Event)
  BY NextRecordType
<1> QED BY <1>1 DEF AppendAuditRecord

(* In a chain that verifies, the newest row carries the number of rows.      *)
LEMMA LatestSequenceIsLength ==
  ASSUME NEW Event, NEW log \in Seq(AuditRecord(Event)), VerifyAuditChain(log)
  PROVE  LatestSequence(log) = Len(log)
<1>1. CASE log = <<>>
  BY <1>1 DEF LatestSequence
<1>2. CASE log # <<>>
  <2>1. Len(log) \in 1 .. Len(log)
    BY <1>2
  <2> QED BY <1>2, <2>1 DEF LatestSequence, VerifyAuditChain
<1> QED BY <1>1, <1>2

(* Appending to a chain that verifies gives a chain that verifies.           *)
LEMMA AppendKeepsChain ==
  ASSUME NEW Event, NEW log \in Seq(AuditRecord(Event)), NEW event \in Event,
         VerifyAuditChain(log)
  PROVE  VerifyAuditChain(AppendAuditRecord(log, event))
<1> DEFINE n == Len(log)
           longer == AppendAuditRecord(log, event)
<1>1. /\ n \in Nat
      /\ Len(longer) = n + 1
      /\ longer[n + 1] = NextRecord(log, event)
      /\ \A i \in 1 .. n : longer[i] = log[i]
  BY NextRecordType DEF AppendAuditRecord
<1>2. LatestSequence(log) = n
  BY LatestSequenceIsLength
<1>3. LatestDigest(log) = IF n = 0 THEN Genesis ELSE log[n].new_jcs_hash
  BY DEF LatestDigest
<1>4. ASSUME NEW i \in 1 .. n
      PROVE  /\ longer[i].chain_sequence = i
             /\ longer[i].previous_jcs_hash
                  = (IF i = 1 THEN Genesis ELSE longer[i - 1].new_jcs_hash)
             /\ longer[i].new_jcs_hash =
                  RowDigest(longer[i].previous_jcs_hash, longer[i].chain_sequence,
                            longer[i].event)
  <2>1. longer[i] = log[i] /\ (i # 1 => longer[i - 1] = log[i - 1])
    BY <1>1
  <2> QED BY <2>1 DEF VerifyAuditChain
<1>5. /\ longer[n + 1].chain_sequence = n + 1
      /\ longer[n + 1].previous_jcs_hash
           = (IF n + 1 = 1 THEN Genesis ELSE longer[n].new_jcs_hash)
      /\ longer[n + 1].new_jcs_hash =
           RowDigest(longer[n + 1].previous_jcs_hash, longer[n + 1].chain_sequence,
                     longer[n + 1].event)
  BY <1>1, <1>2, <1>3 DEF NextRecord
<1>6. \A i \in 1 .. Len(longer) : i \in 1 .. n \/ i = n + 1
  BY <1>1
<1> QED
  <2> HIDE DEF n, longer
  <2> SUFFICES VerifyAuditChain(longer)
    BY DEF longer
  <2> QED BY <1>1, <1>4, <1>5, <1>6 DEF VerifyAuditChain

-----------------------------------------------------------------------------
(* Types.                                                                  *)

(* The fields a call in flight carries, by what it does.                     *)
LEMMA StoreCallFields ==
  ASSUME NEW r \in StoreCall
  PROVE  /\ r.op = "insert" => r.primitive \in Primitive
         /\ r.op = "update" => r.base \in Primitive /\ r.candidate \in Primitive
         /\ r.op = "write"  => r.base \in Primitive /\ r.updated \in Primitive
         /\ r.op \in {"archive", "delete", "embed"} => r.id \in Ids
         /\ r.op = "archive" => r.since \in Nat
         /\ r.op = "merge" => /\ r.id \in Ids /\ r.duplicate \in Ids
                              /\ r.id # r.duplicate
BY DEF StoreCall, Idle

(* appendAuditRecordSync keeps the ledger's type.                            *)
LEMMA AuditType ==
  ASSUME audit_log \in Seq(AuditRecord(AuditEvent)),
         NEW operation \in {"CREATE", "UPDATE", "MERGE",
                            "proposal_created", "user_approval", "user_rejection"},
         NEW initiator \in {"human_user", "system", "user"},
         NEW primitive \in Primitive,
         Audit(operation, initiator, primitive)
  PROVE  audit_log' \in Seq(AuditRecord(AuditEvent))
<1> DEFINE event == [ primitive_id       |-> primitive.id,
                      operation_type     |-> operation,
                      initiator          |-> initiator,
                      primitive_jcs_hash |-> JCSHash(primitive) ]
<1>1. event \in AuditEvent
  BY DEF AuditEvent, JCSHash, Primitive, Fields
<1>2. audit_log' = AppendAuditRecord(audit_log, event)
  BY DEF Audit
<1> QED BY <1>1, <1>2, AppendType

(* A submitted primitive stays one when it is given its times.               *)
LEMMA SubmittedType ==
  ASSUME NEW d \in Drafts, NEW made \in Nat, NEW changed \in Nat
  PROVE  Submitted(d, made, changed) \in Primitive
<1> DEFINE s == [d EXCEPT !.created_at = made, !.updated_at = changed]
<1>1. d \in Primitive
  BY DraftAssumption
<1>2. s \in Fields /\ s.id = d.id /\ s.source = d.source /\ s.target = d.target
  BY <1>1 DEF Primitive, Fields
<1> HIDE DEF s
<1>3. s \in Primitive
  BY <1>1, <1>2 DEF Primitive
<1> QED BY <1>3 DEF s, Submitted

(* constructMutation builds a primitive with the target's identity.          *)
LEMMA MutatedType ==
  ASSUME clock \in Nat, NEW target \in Primitive, NEW candidate \in Primitive, NEW kind,
         Mutable(target, candidate)
  PROVE  /\ Mutated(target, candidate, kind) \in Primitive
         /\ Mutated(target, candidate, kind).id = target.id
         /\ Mutated(target, candidate, kind).created_at = target.created_at
<1> DEFINE mutated == Mutated(target, candidate, kind)
<1>1. mutated \in Fields
  BY DEF Mutated, Primitive, Fields
<1>2. target.id \in Edges <=> candidate.id \in Edges
  BY DEF Mutable, Edges, Primitive, Fields
<1>3. /\ mutated.id = target.id
      /\ mutated.created_at = target.created_at
      /\ mutated.source = candidate.source
      /\ mutated.target = candidate.target
  BY DEF Mutated, Primitive, Fields
<1> QED BY <1>1, <1>2, <1>3 DEF Primitive

(* The insert transaction keeps the tables' types.                           *)
LEMMA InsertRowsType ==
  ASSUME MemoryTypeOK, NEW p \in Primitive, InsertRows(p)
  PROVE  MemoryTypeOK'
<1>1. p.id \in Ids /\ p.claim \in Facts
  BY DEF Primitive, Fields
<1> QED BY <1>1 DEF InsertRows, MemoryTypeOK, Registered, Importance

(* The update transaction keeps the tables' types.                           *)
LEMMA UpdateRowsType ==
  ASSUME MemoryTypeOK, NEW p \in Primitive, NEW expected, UpdateRows(p, expected)
  PROVE  MemoryTypeOK'
<1>1. p.id \in Ids /\ p.claim \in Facts /\ p.detail \in Facts \cup {None}
      /\ p.updated_at \in Nat
      /\ p.status \in {"active", "archived"}
  BY DEF Primitive, Fields
<1>2. rows[p.id] \in Primitive /\ rows[p.id].id = p.id
  BY <1>1 DEF UpdateRows, MemoryTypeOK
<1> DEFINE updated == [rows[p.id] EXCEPT !.claim = p.claim,
                                         !.detail = p.detail,
                                         !.status = p.status,
                                         !.updated_at = p.updated_at]
<1>3. updated \in Primitive /\ updated.id = p.id
  BY <1>1, <1>2 DEF Primitive, Fields
<1>4. rows' = [rows EXCEPT ![p.id] = updated]
  BY DEF UpdateRows
<1> QED BY <1>1, <1>3, <1>4 DEF UpdateRows, MemoryTypeOK

(* updatePrimitiveRows stores the primitive it was given, except that the    *)
(* row keeps its own created_at.                                             *)
LEMMA UpdateRowsStores ==
  ASSUME TablesTypeOK, NEW p \in Primitive, NEW expected, UpdateRows(p, expected)
  PROVE  \E q \in Primitive :
           /\ rows' = [rows EXCEPT ![p.id] = q]
           /\ q.id = p.id /\ q.status = p.status
           /\ Undated(q) = Undated(p)
           /\ rows[p.id].created_at = p.created_at => q = p
<1> DEFINE q == [rows[p.id] EXCEPT !.claim = p.claim, !.detail = p.detail,
                                   !.status = p.status, !.updated_at = p.updated_at]
<1>1. p.id \in Ids
  BY DEF Primitive, Fields
<1>2. /\ rows[p.id] # None
      /\ Matches(rows[p.id], p, expected)
      /\ rows' = [rows EXCEPT ![p.id] = q]
  BY DEF UpdateRows
<1>3. rows[p.id] \in Primitive /\ rows[p.id].id = p.id
  BY <1>1, <1>2 DEF TablesTypeOK, MemoryTypeOK
<1>4. /\ rows[p.id].sensitivity = p.sensitivity
      /\ rows[p.id].source = p.source
      /\ rows[p.id].target = p.target
  BY <1>1, <1>2, <1>3 DEF Matches, Primitive
<1>5. q \in Primitive /\ q.id = p.id /\ q.status = p.status
  BY <1>1, <1>3 DEF Primitive, Fields
<1>6. Undated(q) = Undated(p)
  BY <1>1, <1>3, <1>4 DEF Undated, Primitive, Fields
<1>7. rows[p.id].created_at = p.created_at => q = p
  BY <1>1, <1>3, <1>4 DEF Primitive, Fields
<1> HIDE DEF q
<1> QED BY <1>2, <1>5, <1>6, <1>7

(* Deleting an id keeps the types of the tables that reference it.           *)
LEMMA CascadeType ==
  ASSUME TablesTypeOK, NEW i \in Ids
  PROVE  /\ IndexAfterDelete(i) \in [Ids -> Facts \cup {None}]
         /\ [lifecycle EXCEPT ![i] = None] \in [Ids -> Importance \cup {None}]
         /\ ProposalsAfterDelete(i) \in [ProposalIds -> Proposal \cup {None}]
BY DEF TablesTypeOK, MemoryTypeOK, IndexAfterDelete, ProposalsAfterDelete

(* Relinking changes endpoints only.                                         *)
LEMMA RelinkedType ==
  ASSUME NEW row \in Primitive, NEW primary \in Ids, NEW duplicate \in Ids
  PROVE  /\ Relinked(row, primary, duplicate) \in Primitive
         /\ Relinked(row, primary, duplicate).id = row.id
BY DraftAssumption DEF Relinked, Primitive, Fields

(* archivePrimitive stamps the row with a second between its read and now.   *)
LEMMA ArchivedRow ==
  ASSUME TablesTypeOK, NEW c \in Clients, call[c] \in StoreCall, CommitArchive(c),
         call[c].id \in Archivable, rows[call[c].id] # None
  PROVE  \E q \in Primitive :
           /\ rows' = [rows EXCEPT ![call[c].id] = q]
           /\ \E now \in Nat :
                q = [rows[call[c].id] EXCEPT !.status = "archived", !.updated_at = now]
           /\ q # None /\ q.id = call[c].id /\ q.status = "archived"
           /\ q.sensitivity = rows[call[c].id].sensitivity
           /\ q.source = rows[call[c].id].source /\ q.target = rows[call[c].id].target
<1> DEFINE i == call[c].id
<1>1. i \in Ids /\ call[c].since \in Nat /\ clock \in Nat
  BY StoreCallFields, BoundAssumption DEF CommitArchive, TablesTypeOK
<1>2. PICK now \in call[c].since .. clock :
        rows' = [rows EXCEPT ![i].status = "archived", ![i].updated_at = now]
  BY DEF CommitArchive
<1>3. rows[i] \in Primitive /\ rows[i].id = i /\ rows \in [Ids -> Primitive \cup {None}]
  BY <1>1 DEF TablesTypeOK, MemoryTypeOK
<1> DEFINE q == [rows[i] EXCEPT !.status = "archived", !.updated_at = now]
<1>4. now \in Nat
  BY <1>1
<1>5. rows' = [rows EXCEPT ![i] = q]
  BY <1>1, <1>2, <1>3
<1>6. /\ q \in Primitive /\ q.id = i /\ q.status = "archived"
      /\ q.sensitivity = rows[i].sensitivity
      /\ q.source = rows[i].source /\ q.target = rows[i].target
  BY <1>3, <1>4 DEF Primitive, Fields
<1>7. q # None
  BY <1>6, DraftAssumption
<1> HIDE DEF q
<1> QED
  <2>1. \E later \in Nat : q = [rows[i] EXCEPT !.status = "archived", !.updated_at = later]
    BY <1>4 DEF q
  <2> QED BY <1>5, <1>6, <1>7, <2>1

(* Every step of a client keeps the tables' types and leaves the client with *)
(* a well-formed call; the other clients' calls stay.                        *)
LEMMA StoreStepType ==
  ASSUME TablesTypeOK, NEW c \in Clients, call[c] \in StoreCall, StoreStep(c)
  PROVE  /\ TablesTypeOK'
         /\ \E r \in StoreCall : call' = [call EXCEPT ![c] = r]
<1> USE DEF TablesTypeOK, tables, memoryTables
<1> DEFINE Sets(r) == call' = [call EXCEPT ![c] = r]
<1>1. clock \in Nat
  BY BoundAssumption
<1>2. Idle \in StoreCall
  BY DEF StoreCall
<1>3. MemoryTypeOK /\ UNCHANGED memoryTables => MemoryTypeOK'
  BY DEF MemoryTypeOK
<1>4. CASE BeginInsert(c)
  <2>1. PICK d \in Drafts, made \in SubmissionTimes, changed \in SubmissionTimes :
          Sets([op |-> "insert", primitive |-> Submitted(d, made, changed)])
    BY <1>4 DEF BeginInsert, Start
  <2>2. Submitted(d, made, changed) \in Primitive
    BY SubmittedType DEF SubmissionTimes
  <2>3. [op |-> "insert", primitive |-> Submitted(d, made, changed)] \in StoreCall
    BY <2>2 DEF StoreCall
  <2> QED BY <1>3, <1>4, <2>1, <2>3 DEF BeginInsert
<1>5. CASE CommitInsert(c)
  <2>1. call[c].primitive \in Primitive
    BY <1>5, StoreCallFields DEF CommitInsert
  <2>2. MemoryTypeOK'
    BY <1>5, <2>1, InsertRowsType DEF CommitInsert
  <2>3. audit_log' \in Seq(AuditRecord(AuditEvent))
    BY <1>5, <2>1, AuditType DEF CommitInsert
  <2> QED BY <1>2, <1>5, <2>2, <2>3 DEF CommitInsert, Return
<1>6. CASE BeginUpdate(c)
  <2>1. PICK d \in Drafts :
          /\ rows[d.id] # None
          /\ Sets([op |-> "update", base |-> rows[d.id], candidate |-> d])
    BY <1>6 DEF BeginUpdate, Start
  <2>2. d \in Primitive /\ d.id \in Ids
    BY DraftAssumption DEF Primitive, Fields
  <2>3. rows[d.id] \in Primitive
    BY <2>1, <2>2 DEF MemoryTypeOK
  <2>4. [op |-> "update", base |-> rows[d.id], candidate |-> d] \in StoreCall
    BY <2>2, <2>3 DEF StoreCall
  <2> QED BY <1>3, <1>6, <2>1, <2>4 DEF BeginUpdate
<1>7. CASE CheckUpdate(c)
  <2>1. call[c].base \in Primitive /\ call[c].candidate \in Primitive
    BY <1>7, StoreCallFields DEF CheckUpdate
  <2> DEFINE target == rows[call[c].base.id]
             updated == Mutated(target, call[c].candidate, "UPDATE")
  <2>2. target \in Primitive
    <3>1. call[c].base.id \in Ids
      BY <2>1 DEF Primitive, Fields
    <3>2. target # None
      BY <1>7 DEF CheckUpdate
    <3> QED BY <3>1, <3>2 DEF MemoryTypeOK
  <2>3. updated \in Primitive
    <3>1. Mutable(target, call[c].candidate)
      BY <1>7 DEF CheckUpdate
    <3> QED BY <1>1, <2>1, <2>2, <3>1, MutatedType
  <2>4. Sets([op |-> "write", base |-> call[c].base, updated |-> updated])
    BY <1>7 DEF CheckUpdate
  <2>5. [op |-> "write", base |-> call[c].base, updated |-> updated] \in StoreCall
    <3> HIDE DEF updated
    <3> QED BY <2>1, <2>3 DEF StoreCall
  <2> QED BY <1>3, <1>7, <2>4, <2>5 DEF CheckUpdate
<1>8. CASE CommitUpdate(c)
  <2>1. call[c].updated \in Primitive
    BY <1>8, StoreCallFields DEF CommitUpdate
  <2>2. MemoryTypeOK'
    BY <1>8, <2>1, UpdateRowsType DEF CommitUpdate
  <2>3. audit_log' \in Seq(AuditRecord(AuditEvent))
    BY <1>8, <2>1, AuditType DEF CommitUpdate
  <2> QED BY <1>2, <1>8, <2>2, <2>3 DEF CommitUpdate, Return
<1>9. CASE BeginOnExisting(c)
  <2>1. PICK i \in Ids :
          \/ Sets([op |-> "archive", id |-> i, since |-> clock])
          \/ Sets([op |-> "delete", id |-> i])
          \/ Sets([op |-> "embed", id |-> i])
    BY <1>9 DEF BeginOnExisting, Start
  <2>2. {[op |-> "archive", id |-> i, since |-> clock], [op |-> "delete", id |-> i],
         [op |-> "embed", id |-> i]} \subseteq StoreCall
    BY <1>1 DEF StoreCall
  <2> QED BY <1>3, <1>9, <2>1, <2>2 DEF BeginOnExisting
<1>10. CASE CommitArchive(c)
  <2> DEFINE i == call[c].id
  <2>1. i \in Ids
    BY <1>10, StoreCallFields DEF CommitArchive
  <2>2. rows' \in [Ids -> Primitive \cup {None}]
        /\ \A j \in Ids : rows'[j] # None => rows'[j].id = j
    <3>1. CASE i \in Archivable /\ rows[i] # None
      <4>1. PICK q \in Primitive : rows' = [rows EXCEPT ![i] = q] /\ q.id = i
        BY <1>10, <3>1, ArchivedRow
      <4> QED BY <2>1, <4>1 DEF MemoryTypeOK
    <3>2. CASE ~ (i \in Archivable /\ rows[i] # None)
      <4>1. rows' = rows
        BY <1>10, <3>2 DEF CommitArchive
      <4> QED BY <4>1 DEF MemoryTypeOK
    <3> QED BY <3>1, <3>2
  <2> QED BY <1>2, <1>10, <2>2 DEF CommitArchive, Return, MemoryTypeOK
<1>11. CASE CommitDelete(c)
  <2> DEFINE i == call[c].id
  <2>1. i \in Ids
    BY <1>11, StoreCallFields DEF CommitDelete
  <2>2. /\ fts' \in [Ids -> Facts \cup {None}]
        /\ lifecycle' \in [Ids -> Importance \cup {None}]
        /\ proposals' \in [ProposalIds -> Proposal \cup {None}]
    BY <1>11, <2>1, CascadeType DEF CommitDelete, DeleteFromRegistry
  <2>3. rows' = [j \in Ids |-> IF j = i \/ Touches(j, i) THEN None ELSE rows[j]]
    BY <1>11 DEF CommitDelete
  <2>4. registry' \subseteq Ids /\ embeddings' \subseteq Ids
    BY <1>11 DEF CommitDelete, DeleteFromRegistry, MemoryTypeOK
  <2> QED BY <1>2, <1>11, <2>2, <2>3, <2>4 DEF CommitDelete, Return, MemoryTypeOK
<1>12. CASE CommitEmbed(c)
  <2>1. call[c].id \in Ids
    BY <1>12, StoreCallFields DEF CommitEmbed
  <2> QED BY <1>2, <1>12, <2>1 DEF CommitEmbed, Return, MemoryTypeOK
<1>13. CASE BeginMerge(c)
  <2>1. PICK i \in Ids, j \in Ids :
          i # j /\ Sets([op |-> "merge", id |-> i, duplicate |-> j])
    BY <1>13 DEF BeginMerge, Start
  <2>2. [op |-> "merge", id |-> i, duplicate |-> j] \in StoreCall
    BY <2>1 DEF StoreCall
  <2> QED BY <1>3, <1>13, <2>1, <2>2 DEF BeginMerge
<1>14. CASE CommitMerge(c)
  <2> DEFINE primary == call[c].id
             duplicate == call[c].duplicate
             relink == [j \in Ids |-> IF Touches(j, duplicate)
                                      THEN Relinked(rows[j], primary, duplicate) ELSE rows[j]]
             gone(j) == \/ j = duplicate
                        \/ /\ relink[j] # None
                           /\ j \in Edges
                           /\ duplicate \in {relink[j].source, relink[j].target}
  <2>1. primary \in Ids /\ duplicate \in Ids
    BY <1>14, StoreCallFields DEF CommitMerge
  <2>2. \A j \in Ids : relink[j] # None => relink[j] \in Primitive /\ relink[j].id = j
    <3> SUFFICES ASSUME NEW j \in Ids, relink[j] # None
                 PROVE  relink[j] \in Primitive /\ relink[j].id = j
      OBVIOUS
    <3>1. CASE Touches(j, duplicate)
      <4>1. rows[j] \in Primitive /\ rows[j].id = j
        BY <3>1 DEF Touches, MemoryTypeOK
      <4>2. relink[j] = Relinked(rows[j], primary, duplicate)
        BY <3>1
      <4> QED BY <2>1, <4>1, <4>2, RelinkedType
    <3>2. CASE ~ Touches(j, duplicate)
      BY <3>2 DEF MemoryTypeOK
    <3> QED BY <3>1, <3>2
  <2>3. rows' = [j \in Ids |-> IF gone(j) THEN None ELSE relink[j]]
    BY <1>14 DEF CommitMerge
  <2>4. rows' \in [Ids -> Primitive \cup {None}]
        /\ \A j \in Ids : rows'[j] # None => rows'[j].id = j
    <3> HIDE DEF relink, gone
    <3>1. \A j \in Ids : rows'[j] # None => rows'[j] \in Primitive /\ rows'[j].id = j
      BY <2>2, <2>3
    <3> QED BY <2>3, <3>1
  <2>5. /\ fts' \in [Ids -> Facts \cup {None}]
        /\ lifecycle' \in [Ids -> Importance \cup {None}]
        /\ proposals' \in [ProposalIds -> Proposal \cup {None}]
    BY <1>14, <2>1, CascadeType DEF CommitMerge
  <2>6. registry' \subseteq Ids /\ embeddings' \subseteq Ids
    BY <1>14, <2>1 DEF CommitMerge, MemoryTypeOK
  <2>7. Sets(Idle) /\ UNCHANGED <<clock, audit_log>>
    BY <1>14 DEF CommitMerge, Return
  <2> QED BY <1>2, <2>4, <2>5, <2>6, <2>7 DEF MemoryTypeOK
<1>15. CASE Abort(c)
  BY <1>2, <1>3, <1>15 DEF Abort, Return
<1> QED BY <1>4, <1>5, <1>6, <1>7, <1>8, <1>9, <1>10, <1>11, <1>12, <1>13, <1>14, <1>15
        DEF StoreStep

(* A second passes.                                                          *)
LEMMA TickType ==
  ASSUME TablesTypeOK, Tick
  PROVE  TablesTypeOK' /\ UNCHANGED call
BY BoundAssumption DEF Tick, TablesTypeOK, MemoryTypeOK, tables, memoryTables

(* TypeOK holds in every state: the tables are well-typed and every call in  *)
(* flight carries what its commit step reads.                                *)
THEOREM TypeCorrect == Spec => []TypeOK
<1>1. Init => TypeOK
  BY BoundAssumption DEF Init, TypeOK, TablesTypeOK, MemoryTypeOK, StoreCall
<1>2. TypeOK /\ [Next]_vars => TypeOK'
  <2> SUFFICES ASSUME TypeOK, [Next]_vars PROVE TypeOK'
    OBVIOUS
  <2>1. CASE Tick
    BY <2>1, TickType DEF TypeOK
  <2>2. ASSUME NEW c \in Clients, StoreStep(c)
        PROVE  TypeOK'
    <3>1. call[c] \in StoreCall
      BY DEF TypeOK
    <3>2. TablesTypeOK' /\ \E r \in StoreCall : call' = [call EXCEPT ![c] = r]
      BY <2>2, <3>1, StoreStepType DEF TypeOK
    <3> QED BY <3>2 DEF TypeOK
  <2>3. CASE UNCHANGED vars
    BY <2>3 DEF vars, tables, memoryTables, TypeOK, TablesTypeOK, MemoryTypeOK
  <2> QED BY <2>1, <2>2, <2>3 DEF Next
<1> QED BY <1>1, <1>2, PTL DEF Spec

-----------------------------------------------------------------------------
(* The audit ledger.                                                       *)

(* A step appends at most one audit row, built by appendAuditRecordSync.     *)
Appends == \E event \in AuditEvent : audit_log' = AppendAuditRecord(audit_log, event)

(* An audit row leaves the rows before it as they are.                       *)
LEMMA AppendedRow ==
  ASSUME audit_log \in Seq(AuditRecord(AuditEvent)), NEW event \in AuditEvent,
         audit_log' = AppendAuditRecord(audit_log, event)
  PROVE  /\ Len(audit_log) \in Nat
         /\ Len(audit_log') = Len(audit_log) + 1
         /\ audit_log'[Len(audit_log) + 1].event = event
         /\ \A k \in 1 .. Len(audit_log) : audit_log'[k] = audit_log[k]
<1>1. NextRecord(audit_log, event) \in AuditRecord(AuditEvent)
  BY NextRecordType
<1>2. NextRecord(audit_log, event).event = event
  BY DEF NextRecord
<1> HIDE DEF NextRecord
<1> QED BY <1>1, <1>2 DEF AppendAuditRecord

(* What appendAuditRecordSync appends is a well-formed audit row.          *)
LEMMA AuditAppends ==
  ASSUME NEW operation \in {"CREATE", "UPDATE", "MERGE",
                            "proposal_created", "user_approval", "user_rejection"},
         NEW initiator \in {"human_user", "system", "user"},
         NEW primitive \in Primitive,
         Audit(operation, initiator, primitive)
  PROVE  Appends
<1> DEFINE event == [ primitive_id       |-> primitive.id,
                      operation_type     |-> operation,
                      initiator          |-> initiator,
                      primitive_jcs_hash |-> JCSHash(primitive) ]
<1>1. event \in AuditEvent
  BY DEF AuditEvent, JCSHash, Primitive, Fields
<1> QED BY <1>1 DEF Audit, Appends

(* A step of the store API writes the ledger through appendAuditRecordSync.*)
LEMMA StoreStepAppends ==
  ASSUME NEW c \in Clients, call[c] \in StoreCall, StoreStep(c)
  PROVE  UNCHANGED audit_log \/ Appends
<1> USE DEF tables
<1>1. CASE CommitInsert(c)
  BY <1>1, StoreCallFields, AuditAppends DEF CommitInsert
<1>2. CASE CommitUpdate(c)
  BY <1>2, StoreCallFields, AuditAppends DEF CommitUpdate
<1>3. CASE ~ (CommitInsert(c) \/ CommitUpdate(c))
  BY <1>3 DEF StoreStep, BeginInsert, BeginUpdate, CheckUpdate, BeginOnExisting,
              CommitArchive, CommitDelete, CommitEmbed, BeginMerge, CommitMerge, Abort
<1> QED BY <1>1, <1>2, <1>3

(* A ledger that verifies still verifies when such a row is appended.      *)
LEMMA AppendsKeepsChain ==
  ASSUME audit_log \in Seq(AuditRecord(AuditEvent)), AuditChainValid,
         UNCHANGED audit_log \/ Appends
  PROVE  AuditChainValid'
<1>1. CASE UNCHANGED audit_log
  BY <1>1 DEF AuditChainValid, VerifyAuditChain
<1>2. CASE Appends
  BY <1>2, AppendKeepsChain DEF AuditChainValid, Appends
<1> QED BY <1>1, <1>2

(* The ledger verifies in every state, whichever calls raced or were cut     *)
(* short: verifyAuditChain() never reports a chain the program wrote.        *)
THEOREM ChainAlwaysVerifies == Spec => []AuditChainValid
<1>1. Init => AuditChainValid
  BY DEF Init, AuditChainValid, VerifyAuditChain
<1>2. TypeOK /\ AuditChainValid /\ [Next]_vars => AuditChainValid'
  <2> SUFFICES ASSUME TypeOK, AuditChainValid, [Next]_vars PROVE AuditChainValid'
    OBVIOUS
  <2>1. audit_log \in Seq(AuditRecord(AuditEvent))
    BY DEF TypeOK, TablesTypeOK
  <2>2. UNCHANGED audit_log \/ Appends
    <3>1. ASSUME NEW c \in Clients, StoreStep(c)
          PROVE  UNCHANGED audit_log \/ Appends
      BY <3>1, StoreStepAppends DEF TypeOK
    <3>2. CASE Tick \/ UNCHANGED vars
      BY <3>2 DEF Tick, vars, tables
    <3> QED BY <3>1, <3>2 DEF Next
  <2> QED BY <2>1, <2>2, AppendsKeepsChain
<1> QED BY <1>1, <1>2, TypeCorrect, PTL DEF Spec

-----------------------------------------------------------------------------
(* References.                                                             *)

(* The part of the database that ReferentialClosure is about is untouched.   *)
LEMMA ClosureStutters ==
  ASSUME ReferentialClosure, UNCHANGED <<registry, rows, embeddings, lifecycle, proposals>>
  PROVE  ReferentialClosure'
BY DEF ReferentialClosure, EdgesClosed, NodesClosed, NotesClosed, Registered

(* In a closed database exactly the ids with a registry row can be stored.   *)
LEMMA StoredIsRegistered ==
  ASSUME ReferentialClosure, NEW i \in Ids, rows[i] # None
  PROVE  i \in registry
BY DEF ReferentialClosure, EdgesClosed, NodesClosed, Nodes, Edges

(* The insert transaction: endpoints are registered, the id is new.          *)
LEMMA InsertRowsClosure ==
  ASSUME TablesTypeOK, ReferentialClosure, NEW p \in Primitive, InsertRows(p),
         \A q \in ProposalIds : proposals'[q] # None => proposals'[q].target \in registry' \cup {None}
  PROVE  ReferentialClosure'
<1>1. /\ p.id \in Ids
      /\ p.id \in Edges => {p.source, p.target} \subseteq Ids
      /\ p # None
  BY DraftAssumption DEF Primitive, Fields
<1>2. /\ registry' = registry \cup {p.id}
      /\ rows' = [rows EXCEPT ![p.id] = p]
      /\ rows \in [Ids -> Primitive \cup {None}]
      /\ lifecycle \in [Ids -> Importance \cup {None}]
      /\ embeddings' = embeddings
  BY DEF InsertRows, TablesTypeOK, MemoryTypeOK
<1>3. EdgesClosed'
  <2> SUFFICES ASSUME NEW e \in Edges, rows'[e] # None
               PROVE  e \in registry' /\ {rows'[e].source, rows'[e].target} \subseteq registry'
    BY DEF EdgesClosed
  <2>1. CASE e = p.id
    <3>1. {p.source, p.target} \subseteq registry
      BY <1>1, <2>1, DraftAssumption DEF InsertRows, Registered
    <3> QED BY <1>1, <1>2, <2>1, <3>1 DEF Nodes, Edges
  <2>2. CASE e # p.id
    BY <1>2, <2>2 DEF ReferentialClosure, EdgesClosed, Nodes, Edges
  <2> QED BY <2>1, <2>2
<1>4. NodesClosed'
  <2> SUFFICES ASSUME NEW n \in Nodes
               PROVE  /\ rows'[n] # None <=> n \in registry'
                      /\ rows'[n] # None => lifecycle'[n] # None
    BY DEF NodesClosed
  <2>1. n \in Ids
    BY DEF Nodes, Edges
  <2>2. n = p.id => lifecycle'[n] = "default"
    BY <1>2, <2>1 DEF InsertRows
  <2>3. n # p.id => lifecycle'[n] = lifecycle[n]
    BY <1>1, <1>2, <2>1 DEF InsertRows
  <2>4. "default" # None
    BY DraftAssumption DEF Importance
  <2> QED BY <1>1, <1>2, <2>1, <2>2, <2>3, <2>4 DEF ReferentialClosure, NodesClosed
<1>5. NotesClosed'
  <2>1. embeddings' \subseteq registry'
    BY <1>2 DEF ReferentialClosure, NotesClosed
  <2>2. \A i \in Ids : lifecycle'[i] # None => i \in registry' \cup {None}
    BY <1>1, <1>2 DEF InsertRows, ReferentialClosure, NotesClosed, Registered
  <2> QED BY <2>1, <2>2 DEF NotesClosed, Registered
<1> QED BY <1>3, <1>4, <1>5 DEF ReferentialClosure

(* Writing rows in place: no row appears or goes, endpoints stay.            *)
LEMMA RowsInPlaceClosure ==
  ASSUME TablesTypeOK, ReferentialClosure,
         UNCHANGED <<registry, embeddings, lifecycle>>,
         \A i \in Ids : /\ rows'[i] # None <=> rows[i] # None
                        /\ rows[i] # None => /\ rows'[i].source = rows[i].source
                                             /\ rows'[i].target = rows[i].target,
         \A q \in ProposalIds : proposals'[q] # None => proposals'[q].target \in registry' \cup {None}
  PROVE  ReferentialClosure'
BY DEF ReferentialClosure, EdgesClosed, NodesClosed, NotesClosed, Registered, Nodes, Edges

(* updatePrimitiveRows writes in place.                                      *)
LEMMA UpdateRowsInPlace ==
  ASSUME TablesTypeOK, NEW p \in Primitive, NEW expected, UpdateRows(p, expected)
  PROVE  \A i \in Ids : /\ rows'[i] # None <=> rows[i] # None
                        /\ rows[i] # None => /\ rows'[i].source = rows[i].source
                                             /\ rows'[i].target = rows[i].target
<1>1. p.id \in Ids
  BY DEF Primitive, Fields
<1>2. rows[p.id] \in Primitive
  BY <1>1 DEF UpdateRows, TablesTypeOK, MemoryTypeOK
<1> DEFINE updated == [rows[p.id] EXCEPT !.claim = p.claim,
                                         !.detail = p.detail,
                                         !.status = p.status,
                                         !.updated_at = p.updated_at]
<1>3. /\ updated.source = rows[p.id].source
      /\ updated.target = rows[p.id].target
      /\ updated.id = p.id
  <2>1. rows[p.id].id = p.id
    BY <1>1 DEF UpdateRows, TablesTypeOK, MemoryTypeOK
  <2> QED BY <1>2, <2>1 DEF Primitive, Fields
<1>4. updated # None
  <2>1. updated \in Fields /\ updated.source = rows[p.id].source
                           /\ updated.target = rows[p.id].target
    BY <1>2 DEF Primitive, Fields
  <2>2. updated \in Primitive
    BY <1>2, <1>3, <2>1 DEF Primitive, Fields
  <2> QED BY <2>2, DraftAssumption
<1>5. rows' = [rows EXCEPT ![p.id] = updated] /\ rows \in [Ids -> Primitive \cup {None}]
  BY DEF UpdateRows, TablesTypeOK, MemoryTypeOK
<1> QED
  <2> HIDE DEF updated
  <2> QED BY <1>1, <1>3, <1>4, <1>5 DEF UpdateRows

(* Deleting an id: what pointed at it goes with it.                          *)
LEMMA DeleteClosure ==
  ASSUME TablesTypeOK, ReferentialClosure, NEW i \in Ids, DeleteFromRegistry(i),
         rows' = [j \in Ids |-> IF j = i \/ Touches(j, i) THEN None ELSE rows[j]]
  PROVE  ReferentialClosure'
<1> USE DEF TablesTypeOK, MemoryTypeOK, ReferentialClosure, DeleteFromRegistry
<1>1. EdgesClosed'
  BY DEF EdgesClosed, Touches, Nodes, Edges
<1>2. NodesClosed'
  BY DraftAssumption DEF NodesClosed, Touches, Nodes, Edges
<1>3. NotesClosed'
  BY DEF NotesClosed, Registered, ProposalsAfterDelete
<1> QED BY <1>1, <1>2, <1>3

(* mergeMemories: what pointed at the duplicate points at the primary.       *)
LEMMA MergeClosure ==
  ASSUME TablesTypeOK, ReferentialClosure, NEW c \in Clients, call[c] \in StoreCall,
         CommitMerge(c)
  PROVE  ReferentialClosure'
<1> DEFINE primary == call[c].id
           duplicate == call[c].duplicate
           relink == [j \in Ids |-> IF Touches(j, duplicate)
                                    THEN Relinked(rows[j], primary, duplicate) ELSE rows[j]]
<1>1. primary \in Ids /\ duplicate \in Ids /\ primary # duplicate
  BY StoreCallFields DEF CommitMerge
<1>2. (\E e \in Edges : Touches(e, duplicate)) => primary \in registry
  BY <1>1, DraftAssumption DEF CommitMerge, Registered
<1>3. registry' = registry \ {duplicate}
  BY DEF CommitMerge
<1>4. \A j \in Ids : rows'[j] # None => j # duplicate /\ rows'[j] = relink[j]
  BY DEF CommitMerge
<1>5. EdgesClosed'
  <2> SUFFICES ASSUME NEW e \in Edges, rows'[e] # None
               PROVE  e \in registry' /\ {rows'[e].source, rows'[e].target} \subseteq registry'
    BY DEF EdgesClosed
  <2>1. e \in Ids /\ e # duplicate /\ rows'[e] = relink[e]
    BY <1>4 DEF Nodes, Edges
  <2>2. CASE Touches(e, duplicate)
    <3>1. rows[e] \in Fields
      BY <2>1, <2>2 DEF Touches, TablesTypeOK, MemoryTypeOK, Primitive
    <3>2. rows'[e] = Relinked(rows[e], primary, duplicate)
      BY <2>1, <2>2
    <3>3. /\ rows'[e].source \in {primary, rows[e].source} \ {duplicate}
          /\ rows'[e].target \in {primary, rows[e].target} \ {duplicate}
      BY <1>1, <3>1, <3>2 DEF Relinked, Fields
    <3> QED BY <1>2, <1>3, <2>1, <2>2, <3>3 DEF Touches, ReferentialClosure, EdgesClosed
  <2>3. CASE ~ Touches(e, duplicate)
    <3>1. rows'[e] = rows[e] /\ rows[e] # None
      BY <2>1, <2>3
    <3> QED BY <1>3, <2>1, <2>3, <3>1 DEF Touches, ReferentialClosure, EdgesClosed
  <2> QED BY <2>2, <2>3
<1>6. NodesClosed'
  <2> SUFFICES ASSUME NEW n \in Nodes
               PROVE  /\ rows'[n] # None <=> n \in registry'
                      /\ rows'[n] # None => lifecycle'[n] # None
    BY DEF NodesClosed
  <2>1. n \in Ids /\ n \notin Edges
    BY DEF Nodes, Edges
  <2>2. rows'[n] = IF n = duplicate THEN None ELSE rows[n]
    BY <2>1 DEF CommitMerge, Touches
  <2>3. n # duplicate => lifecycle'[n] = lifecycle[n]
    BY <2>1 DEF CommitMerge, TablesTypeOK, MemoryTypeOK
  <2> QED BY <1>3, <2>2, <2>3 DEF ReferentialClosure, NodesClosed
<1>7. NotesClosed'
  <2>1. embeddings' \subseteq registry'
    <3>1. rows[primary] # None => primary \in registry
      BY <1>1, StoredIsRegistered
    <3> QED BY <1>1, <1>3, <3>1 DEF CommitMerge, ReferentialClosure, NotesClosed
  <2>2. \A i \in Ids : lifecycle'[i] # None => i \in registry' \cup {None}
    BY <1>1, <1>3 DEF CommitMerge, ReferentialClosure, NotesClosed, Registered,
                      TablesTypeOK, MemoryTypeOK
  <2>3. \A p \in ProposalIds : proposals'[p] # None =>
          proposals'[p].target \in registry' \cup {None}
    BY <1>3 DEF CommitMerge, ReferentialClosure, NotesClosed, Registered,
                ProposalsAfterDelete
  <2> QED BY <2>1, <2>2, <2>3 DEF NotesClosed, Registered
<1> QED BY <1>5, <1>6, <1>7 DEF ReferentialClosure

(* No step of the store API leaves a dangling reference.                   *)
LEMMA StoreStepClosure ==
  ASSUME TablesTypeOK, ReferentialClosure, NEW c \in Clients, call[c] \in StoreCall,
         StoreStep(c)
  PROVE  ReferentialClosure'
<1> USE DEF tables, memoryTables
<1>1. CASE CommitInsert(c)
  <2>1. call[c].primitive \in Primitive /\ InsertRows(call[c].primitive)
    BY <1>1, StoreCallFields DEF CommitInsert
  <2>2. \A q \in ProposalIds : proposals'[q] # None =>
          proposals'[q].target \in registry' \cup {None}
    BY <1>1 DEF CommitInsert, InsertRows, ReferentialClosure, NotesClosed, Registered
  <2> QED BY <2>1, <2>2, InsertRowsClosure
<1>2. CASE CommitUpdate(c)
  <2>1. call[c].updated \in Primitive
        /\ UpdateRows(call[c].updated, call[c].base.updated_at)
    BY <1>2, StoreCallFields DEF CommitUpdate
  <2>2. UNCHANGED <<registry, embeddings, lifecycle, proposals>>
    BY <1>2 DEF CommitUpdate, UpdateRows
  <2>3. \A q \in ProposalIds : proposals'[q] # None =>
          proposals'[q].target \in registry' \cup {None}
    BY <2>2 DEF ReferentialClosure, NotesClosed, Registered
  <2> QED BY <2>1, <2>2, <2>3, UpdateRowsInPlace, RowsInPlaceClosure
<1>3. CASE CommitArchive(c)
  <2> DEFINE i == call[c].id
  <2>1. i \in Ids /\ rows \in [Ids -> Primitive \cup {None}]
    BY <1>3, StoreCallFields DEF CommitArchive, TablesTypeOK, MemoryTypeOK
  <2>2. \A j \in Ids : /\ rows'[j] # None <=> rows[j] # None
                       /\ rows[j] # None => /\ rows'[j].source = rows[j].source
                                            /\ rows'[j].target = rows[j].target
    <3>1. CASE i \in Archivable /\ rows[i] # None
      <4>1. PICK q \in Primitive :
              /\ rows' = [rows EXCEPT ![i] = q] /\ q # None
              /\ q.source = rows[i].source /\ q.target = rows[i].target
        BY <1>3, <3>1, ArchivedRow
      <4> QED BY <2>1, <3>1, <4>1
    <3>2. CASE ~ (i \in Archivable /\ rows[i] # None)
      BY <1>3, <3>2 DEF CommitArchive
    <3> QED BY <3>1, <3>2
  <2>3. \A q \in ProposalIds : proposals'[q] # None =>
          proposals'[q].target \in registry' \cup {None}
    BY <1>3 DEF CommitArchive, ReferentialClosure, NotesClosed, Registered
  <2> QED BY <1>3, <2>2, <2>3, RowsInPlaceClosure DEF CommitArchive
<1>4. CASE CommitDelete(c)
  BY <1>4, StoreCallFields, DeleteClosure DEF CommitDelete
<1>5. CASE CommitEmbed(c)
  <2>1. call[c].id \in registry
    BY <1>5, StoreCallFields, DraftAssumption DEF CommitEmbed, Registered
  <2> QED BY <1>5, <2>1 DEF CommitEmbed, ReferentialClosure, EdgesClosed, NodesClosed,
                            NotesClosed, Registered
<1>6. CASE CommitMerge(c)
  BY <1>6, MergeClosure
<1>7. CASE BeginInsert(c) \/ BeginUpdate(c) \/ CheckUpdate(c) \/ BeginOnExisting(c)
             \/ BeginMerge(c) \/ Abort(c)
  BY <1>7, ClosureStutters DEF BeginInsert, BeginUpdate, CheckUpdate, BeginOnExisting,
                               BeginMerge, Abort
<1> QED BY <1>1, <1>2, <1>3, <1>4, <1>5, <1>6, <1>7 DEF StoreStep

(* No reference dangles in any state: no interleaving of inserts, deletions, *)
(* merges and writes leaves a row, an endpoint, a vector, a lifecycle row or *)
(* a proposal that names an id which is not registered.                      *)
THEOREM ReferencesResolve == Spec => []ReferentialClosure
<1>1. Init => ReferentialClosure
  BY DEF Init, ReferentialClosure, EdgesClosed, NodesClosed, NotesClosed, Nodes, Edges
<1>2. TypeOK /\ ReferentialClosure /\ [Next]_vars => ReferentialClosure'
  <2> SUFFICES ASSUME TypeOK, ReferentialClosure, [Next]_vars PROVE ReferentialClosure'
    OBVIOUS
  <2>1. ASSUME NEW c \in Clients, StoreStep(c)
        PROVE  ReferentialClosure'
    BY <2>1, StoreStepClosure DEF TypeOK
  <2>2. CASE Tick \/ UNCHANGED vars
    BY <2>2, ClosureStutters DEF Tick, vars, tables, memoryTables
  <2> QED BY <2>1, <2>2 DEF Next
<1> QED BY <1>1, <1>2, TypeCorrect, PTL DEF Spec

(* An insertion never overwrites: the id was free when its caller looked,    *)
(* and in a closed database the key that is free at the commit has no row.   *)
THEOREM InsertNeverOverwrites == Spec => CreateNeverOverwrites
<1>1. ASSUME TypeOK, ReferentialClosure, [Next]_vars
      PROVE  \A c \in Clients : CommitInsert(c) => rows[call[c].primitive.id] = None
  <2> SUFFICES ASSUME NEW c \in Clients, CommitInsert(c)
               PROVE  rows[call[c].primitive.id] = None
    OBVIOUS
  <2>1. call[c].primitive.id \in Ids
    BY <1>1, StoreCallFields DEF CommitInsert, TypeOK, Primitive, Fields
  <2>2. call[c].primitive.id \notin registry
    BY DEF CommitInsert, InsertRows, KeyIsFree
  <2> QED BY <1>1, <2>1, <2>2, StoredIsRegistered
<1> QED BY <1>1, TypeCorrect, ReferencesResolve, PTL DEF Spec, CreateNeverOverwrites

-----------------------------------------------------------------------------
(* The search index.                                                       *)

(* Steps that write rows in place and leave the index alone.                 *)
LEMMA IndexStutters ==
  ASSUME SearchIndexHidesRestricted, UNCHANGED fts,
         \A i \in Nodes : rows[i] # None =>
           rows'[i] # None /\ rows'[i].sensitivity = rows[i].sensitivity
  PROVE  SearchIndexHidesRestricted'
BY DEF SearchIndexHidesRestricted

(* The insert triggers index a primitive only if it is not restricted.     *)
LEMMA InsertRowsIndex ==
  ASSUME TablesTypeOK, ReferentialClosure, SearchIndexHidesRestricted,
         NEW p \in Primitive, InsertRows(p)
  PROVE  SearchIndexHidesRestricted'
<1>1. p.id \in Ids /\ p # None /\ p.id \notin registry
  BY DraftAssumption DEF InsertRows, KeyIsFree, Primitive, Fields
<1>2. rows[p.id] = None
  BY <1>1, StoredIsRegistered
<1>3. fts[p.id] = None
  BY <1>1, <1>2 DEF SearchIndexHidesRestricted
<1>4. rows' = [rows EXCEPT ![p.id] = p] /\ rows \in [Ids -> Primitive \cup {None}]
      /\ fts \in [Ids -> Facts \cup {None}]
  BY DEF InsertRows, TablesTypeOK, MemoryTypeOK
<1>5. CASE IndexedOnInsert(p)
  BY <1>1, <1>4, <1>5 DEF InsertRows, IndexedOnInsert, SearchIndexHidesRestricted, Indexed,
                          Nodes, Edges
<1>6. CASE ~ IndexedOnInsert(p)
  BY <1>1, <1>3, <1>4, <1>6 DEF InsertRows, SearchIndexHidesRestricted
<1> QED BY <1>5, <1>6

(* updatePrimitiveRows writes content, never the tier.                       *)
LEMMA UpdateRowsKeepTier ==
  ASSUME TablesTypeOK, NEW p \in Primitive, NEW expected, UpdateRows(p, expected)
  PROVE  \A i \in Ids : rows[i] # None =>
           rows'[i] # None /\ rows'[i].sensitivity = rows[i].sensitivity
<1>1. p.id \in Ids /\ rows \in [Ids -> Primitive \cup {None}]
  BY DEF Primitive, Fields, TablesTypeOK, MemoryTypeOK
<1>2. rows[p.id] \in Primitive
  BY <1>1 DEF UpdateRows
<1> DEFINE updated == [rows[p.id] EXCEPT !.claim = p.claim,
                                         !.detail = p.detail,
                                         !.status = p.status,
                                         !.updated_at = p.updated_at]
<1>3. updated.sensitivity = rows[p.id].sensitivity
  BY <1>2 DEF Primitive, Fields
<1>4. rows' = [rows EXCEPT ![p.id] = updated]
  BY DEF UpdateRows
<1>5. rows'[p.id] # None
  BY <1>1, UpdateRowsInPlace DEF UpdateRows
<1> QED
  <2> HIDE DEF updated
  <2> QED BY <1>1, <1>3, <1>4, <1>5

(* No step of the store API makes a restricted or deleted primitive findable.*)
LEMMA StoreStepIndex ==
  ASSUME TablesTypeOK, ReferentialClosure, SearchIndexHidesRestricted,
         NEW c \in Clients, call[c] \in StoreCall, StoreStep(c)
  PROVE  SearchIndexHidesRestricted'
<1> USE DEF tables, memoryTables
<1>1. Nodes \subseteq Ids /\ Nodes \cap Edges = {}
  BY DEF Nodes, Edges
<1>2. /\ rows \in [Ids -> Primitive \cup {None}]
      /\ fts \in [Ids -> Facts \cup {None}]
  BY DEF TablesTypeOK, MemoryTypeOK
<1>3. CASE CommitInsert(c)
  BY <1>3, StoreCallFields, InsertRowsIndex DEF CommitInsert
<1>4. CASE CommitUpdate(c)
  <2>1. call[c].updated \in Primitive
        /\ UpdateRows(call[c].updated, call[c].base.updated_at)
    BY <1>4, StoreCallFields DEF CommitUpdate
  <2>2. UNCHANGED fts
    BY <2>1 DEF UpdateRows
  <2> QED BY <1>1, <2>1, <2>2, UpdateRowsKeepTier, IndexStutters
<1>5. CASE CommitArchive(c)
  <2> DEFINE i == call[c].id
  <2>1. i \in Ids
    BY <1>5, StoreCallFields DEF CommitArchive
  <2>2. CASE i \in Archivable /\ rows[i] # None
    <3>1. PICK q \in Primitive : /\ rows' = [rows EXCEPT ![i] = q] /\ q # None
                                 /\ q.sensitivity = rows[i].sensitivity
      BY <1>5, <2>2, ArchivedRow
    <3>2. \A n \in Nodes : rows[n] # None =>
            rows'[n] # None /\ rows'[n].sensitivity = rows[n].sensitivity
      BY <1>1, <1>2, <2>1, <3>1
    <3>3. UNCHANGED fts
      BY <1>5 DEF CommitArchive
    <3> QED BY <3>2, <3>3, IndexStutters
  <2>3. CASE ~ (i \in Archivable /\ rows[i] # None)
    <3>1. UNCHANGED <<rows, fts>>
      BY <1>5, <2>3 DEF CommitArchive
    <3> QED BY <3>1, IndexStutters
  <2> QED BY <2>2, <2>3
<1>6. CASE CommitDelete(c)
  <2> DEFINE i == call[c].id
  <2>1. i \in Ids
    BY <1>6, StoreCallFields DEF CommitDelete
  <2>2. fts' = [fts EXCEPT ![i] = None]
    BY <1>6 DEF CommitDelete, DeleteFromRegistry, IndexAfterDelete
  <2>3. \A n \in Nodes : n # i => rows'[n] = rows[n]
    BY <1>1, <1>6 DEF CommitDelete, Touches
  <2> QED BY <1>2, <2>1, <2>2, <2>3 DEF SearchIndexHidesRestricted
<1>7. CASE CommitMerge(c)
  <2> DEFINE i == call[c].duplicate
  <2>1. i \in Ids
    BY <1>7, StoreCallFields DEF CommitMerge
  <2>2. fts' = [fts EXCEPT ![i] = None]
    BY <1>7 DEF CommitMerge, IndexAfterDelete
  <2>3. \A n \in Nodes : n # i => rows'[n] = rows[n]
    BY <1>1, <1>7 DEF CommitMerge, Touches
  <2> QED BY <1>2, <2>1, <2>2, <2>3 DEF SearchIndexHidesRestricted
<1>8. CASE BeginInsert(c) \/ BeginUpdate(c) \/ CheckUpdate(c) \/ BeginOnExisting(c)
             \/ CommitEmbed(c) \/ BeginMerge(c) \/ Abort(c)
  BY <1>8, IndexStutters DEF BeginInsert, BeginUpdate, CheckUpdate, BeginOnExisting,
                             CommitEmbed, BeginMerge, Abort
<1> QED BY <1>3, <1>4, <1>5, <1>6, <1>7, <1>8 DEF StoreStep

(* Full-text search never returns a restricted or a deleted memory: deleting *)
(* clears the index in the same transaction, and tiers never change.         *)
THEOREM SearchStaysPublic == Spec => []SearchIndexHidesRestricted
<1>1. Init => SearchIndexHidesRestricted
  BY DEF Init, SearchIndexHidesRestricted
<1>2. TypeOK /\ ReferentialClosure /\ SearchIndexHidesRestricted /\ [Next]_vars
        => SearchIndexHidesRestricted'
  <2> SUFFICES ASSUME TypeOK, ReferentialClosure, SearchIndexHidesRestricted, [Next]_vars
               PROVE  SearchIndexHidesRestricted'
    OBVIOUS
  <2>1. ASSUME NEW c \in Clients, StoreStep(c)
        PROVE  SearchIndexHidesRestricted'
    BY <2>1, StoreStepIndex DEF TypeOK
  <2>2. CASE Tick \/ UNCHANGED vars
    BY <2>2, IndexStutters DEF Tick, vars, tables, memoryTables
  <2> QED BY <2>1, <2>2 DEF Next
<1> QED BY <1>1, <1>2, TypeCorrect, ReferencesResolve, PTL DEF Spec

-----------------------------------------------------------------------------
(* The ledger, read as a map.                                              *)

(* A write becomes the last write of its id and of no other.                 *)
LEMMA LastWritesAfterWrite ==
  ASSUME audit_log \in Seq(AuditRecord(AuditEvent)), NEW event \in AuditEvent,
         audit_log' = AppendAuditRecord(audit_log, event), event.operation_type \in Writes,
         NEW n \in Nodes
  PROVE  LastWrites(n)' = IF event.primitive_id = n THEN {Len(audit_log) + 1} ELSE LastWrites(n)
<1>0. PICK len \in Nat : len = Len(audit_log)
  OBVIOUS
<1>1. /\ len \in Nat
      /\ Len(audit_log') = len + 1
      /\ audit_log'[len + 1].event = event
      /\ \A k \in 1 .. len : audit_log'[k] = audit_log[k]
  BY <1>0, AppendedRow
<1>2. IsWriteOf(len + 1, n)' <=> event.primitive_id = n
  BY <1>1 DEF IsWriteOf
<1>3. \A k \in 1 .. len : IsWriteOf(k, n)' <=> IsWriteOf(k, n)
  BY <1>1 DEF IsWriteOf
<1>4. LastWrites(n)' = {k \in 1 .. len + 1 :
                          /\ IsWriteOf(k, n)'
                          /\ \A m \in k + 1 .. len + 1 : ~ IsWriteOf(m, n)'}
  BY <1>1 DEF LastWrites, IsLastWriteOf
<1>5. LastWrites(n) = {k \in 1 .. len :
                         IsWriteOf(k, n) /\ \A m \in k + 1 .. len : ~ IsWriteOf(m, n)}
  BY <1>0 DEF LastWrites, IsLastWriteOf
<1>6. CASE event.primitive_id = n
  <2>1. \A k \in 1 .. len : len + 1 \in k + 1 .. len + 1
    BY <1>1
  <2>2. len + 1 \in 1 .. len + 1 /\ (len + 1) + 1 .. len + 1 = {}
    BY <1>1
  <2>3. \A k \in 1 .. len + 1 : k \in 1 .. len \/ k = len + 1
    BY <1>1
  <2> QED BY <1>0, <1>2, <1>4, <1>6, <2>1, <2>2, <2>3
<1>7. CASE event.primitive_id # n
  <2>1. \A k \in 1 .. len + 1 : k \in 1 .. len \/ k = len + 1
    BY <1>1
  <2>2. \A k \in 1 .. len : \A m \in k + 1 .. len + 1 : m \in k + 1 .. len \/ m = len + 1
    BY <1>1
  <2>3. \A k \in 1 .. len : /\ k \in 1 .. len + 1
                            /\ \A m \in k + 1 .. len : m \in k + 1 .. len + 1 /\ m \in 1 .. len
    BY <1>1
  <2>4. \A k : k \in LastWrites(n)' <=> k \in LastWrites(n)
    BY <1>2, <1>3, <1>4, <1>5, <1>7, <2>1, <2>2, <2>3
  <2> QED BY <1>7, <2>4
<1> QED BY <1>6, <1>7

(* An audit row that is about no write leaves the last writes as they are.   *)
LEMMA LastWritesAfterNote ==
  ASSUME audit_log \in Seq(AuditRecord(AuditEvent)), NEW event \in AuditEvent,
         audit_log' = AppendAuditRecord(audit_log, event), event.operation_type \notin Writes,
         NEW n \in Nodes
  PROVE  LastWrites(n)' = LastWrites(n)
<1>1. PICK len \in Nat : len = Len(audit_log)
  OBVIOUS
<1>2. /\ Len(audit_log') = len + 1
      /\ audit_log'[len + 1].event = event
      /\ \A k \in 1 .. len : audit_log'[k] = audit_log[k]
  BY <1>1, AppendedRow
<1>3. ~ IsWriteOf(len + 1, n)'
  BY <1>2 DEF IsWriteOf
<1>4. \A k \in 1 .. len : IsWriteOf(k, n)' <=> IsWriteOf(k, n)
  BY <1>2 DEF IsWriteOf
<1>5. LastWrites(n)' = {k \in 1 .. len + 1 :
                          /\ IsWriteOf(k, n)'
                          /\ \A m \in k + 1 .. len + 1 : ~ IsWriteOf(m, n)'}
  BY <1>2 DEF LastWrites, IsLastWriteOf
<1>6. LastWrites(n) = {k \in 1 .. len :
                         IsWriteOf(k, n) /\ \A m \in k + 1 .. len : ~ IsWriteOf(m, n)}
  BY <1>1 DEF LastWrites, IsLastWriteOf
<1>7. \A k \in 1 .. len + 1 : k \in 1 .. len \/ k = len + 1
  BY <1>1
<1>8. \A k \in 1 .. len : \A m \in k + 1 .. len + 1 : m \in k + 1 .. len \/ m = len + 1
  BY <1>1
<1>9. \A k \in 1 .. len : /\ k \in 1 .. len + 1
                          /\ \A m \in k + 1 .. len : m \in k + 1 .. len + 1 /\ m \in 1 .. len
  BY <1>1
<1>10. \A k : k \in LastWrites(n)' <=> k \in LastWrites(n)
  BY <1>3, <1>4, <1>5, <1>6, <1>7, <1>8, <1>9
<1> QED BY <1>10

(* What the newest write of a memory says: who wrote it, and the content.    *)
Last(n) == LastEvent(LastWrites(n))

ByUpdate(n) == ByUpdatePrimitive(Last(n))

Content(n) == Digested(Last(n))

(* A memory about which the step records no write.                           *)
Untold(n) ==
  /\ LastWrites(n)' = LastWrites(n)
  /\ LastWrites(n) # {} => Last(n)' = Last(n)

(* A memory whose write of p the step records.                               *)
Told(n, p, operation, initiator) ==
  /\ LastWrites(n)' # {}
  /\ Content(n)' = p
  /\ ByUpdate(n)' <=> operation = "UPDATE" /\ initiator = "human_user"

LEMMA LastDefined ==
  ASSUME NEW n \in Nodes
  PROVE  /\ Last(n) = audit_log[CHOOSE k \in LastWrites(n) : TRUE].event
         /\ Last(n)' = audit_log'[CHOOSE k \in LastWrites(n)' : TRUE].event
         /\ Content(n) = Last(n).primitive_jcs_hash.sha256
         /\ Content(n)' = Last(n)'.primitive_jcs_hash.sha256
         /\ ByUpdate(n) <=> /\ Last(n).operation_type = "UPDATE"
                            /\ Last(n).initiator = "human_user"
         /\ ByUpdate(n)' <=> /\ Last(n)'.operation_type = "UPDATE"
                             /\ Last(n)'.initiator = "human_user"
BY DEF Last, LastEvent, Content, Digested, ByUpdate, ByUpdatePrimitive

(* The two maps, in these terms.                                             *)
LEMMA MapsDefined ==
  ASSUME NEW n \in Nodes
  PROVE  /\ LastRecorded[n] = IF LastWrites(n) = {} THEN None
                              ELSE IF ByUpdate(n) THEN Undated(Content(n)) ELSE Content(n)
         /\ LastRecorded'[n] = IF LastWrites(n)' = {} THEN None
                               ELSE IF ByUpdate(n)' THEN Undated(Content(n)') ELSE Content(n)'
         /\ ActiveMemory[n] = IF rows[n] # None /\ rows[n].status = "active"
                              THEN IF LastWrites(n) # {} /\ ByUpdate(n)
                                   THEN Undated(rows[n]) ELSE rows[n]
                              ELSE None
         /\ ActiveMemory'[n] = IF rows'[n] # None /\ rows'[n].status = "active"
                               THEN IF LastWrites(n)' # {} /\ ByUpdate(n)'
                                    THEN Undated(rows'[n]) ELSE rows'[n]
                               ELSE None
<1>1. LastRecorded[n] = IF LastWrites(n) = {} THEN None
                        ELSE Compared(Last(n), Digested(Last(n)))
  BY DEF LastRecorded, RecordedBy, Last
<1>2. LastRecorded'[n] = IF LastWrites(n)' = {} THEN None
                         ELSE Compared(Last(n)', Digested(Last(n)'))
  BY DEF LastRecorded, RecordedBy, Last
<1>3. ActiveMemory[n] = IF rows[n] # None /\ rows[n].status = "active"
                        THEN IF LastWrites(n) = {} THEN rows[n] ELSE Compared(Last(n), rows[n])
                        ELSE None
  BY DEF ActiveMemory, LiveAfter, Last
<1>4. ActiveMemory'[n] = IF rows'[n] # None /\ rows'[n].status = "active"
                         THEN IF LastWrites(n)' = {} THEN rows'[n]
                              ELSE Compared(Last(n)', rows'[n])
                         ELSE None
  BY DEF ActiveMemory, LiveAfter, Last
<1> QED BY <1>1, <1>2, <1>3, <1>4, LastDefined DEF Compared, ByUpdatePrimitive, Digested

(* Without a new audit row the ledger says the same of every memory.         *)
LEMMA UntoldStays ==
  ASSUME UNCHANGED audit_log, NEW n \in Nodes
  PROVE  Untold(n)
<1>1. LastWrites(n)' = LastWrites(n)
  BY DEF LastWrites, IsLastWriteOf, IsWriteOf
<1> QED BY <1>1, LastDefined DEF Untold

(* Rows that stay in the ledger say what they said.                          *)
LEMMA UntoldAfterAppend ==
  ASSUME audit_log \in Seq(AuditRecord(AuditEvent)), NEW event \in AuditEvent,
         audit_log' = AppendAuditRecord(audit_log, event),
         NEW n \in Nodes, LastWrites(n)' = LastWrites(n)
  PROVE  Untold(n)
<1>1. \A k \in 1 .. Len(audit_log) : audit_log'[k] = audit_log[k]
  BY AppendedRow
<1>2. LastWrites(n) # {} => (CHOOSE k \in LastWrites(n) : TRUE) \in 1 .. Len(audit_log)
  BY DEF LastWrites
<1> QED BY <1>1, <1>2, LastDefined DEF Untold

(* An audit row that is not about a write tells nothing.                     *)
LEMMA NoteTellsNothing ==
  ASSUME audit_log \in Seq(AuditRecord(AuditEvent)),
         NEW operation \in {"proposal_created", "user_rejection"},
         NEW initiator \in {"system", "user"}, NEW p \in Primitive, Audit(operation, initiator, p),
         NEW n \in Nodes
  PROVE  Untold(n)
<1> DEFINE event == [ primitive_id       |-> p.id,
                      operation_type     |-> operation,
                      initiator          |-> initiator,
                      primitive_jcs_hash |-> JCSHash(p) ]
<1>1. event \in AuditEvent /\ event.operation_type \notin Writes
  BY DEF AuditEvent, JCSHash, Primitive, Fields, Writes
<1>2. audit_log' = AppendAuditRecord(audit_log, event)
  BY DEF Audit
<1> HIDE DEF event
<1> QED BY <1>1, <1>2, LastWritesAfterNote, UntoldAfterAppend

(* The audit row of a write tells of the primitive written, and of no other. *)
LEMMA WriteTells ==
  ASSUME audit_log \in Seq(AuditRecord(AuditEvent)),
         NEW operation \in Writes, NEW initiator \in {"human_user", "system", "user"},
         NEW p \in Primitive, Audit(operation, initiator, p), NEW n \in Nodes
  PROVE  /\ n = p.id => Told(n, p, operation, initiator)
         /\ n # p.id => Untold(n)
<1> DEFINE event == [ primitive_id       |-> p.id,
                      operation_type     |-> operation,
                      initiator          |-> initiator,
                      primitive_jcs_hash |-> JCSHash(p) ]
<1>1. event \in AuditEvent /\ event.operation_type \in Writes
  BY DEF AuditEvent, JCSHash, Primitive, Fields, Writes
<1>2. audit_log' = AppendAuditRecord(audit_log, event)
  BY DEF Audit
<1>3. /\ event.primitive_id = p.id /\ event.primitive_jcs_hash.sha256 = p
      /\ event.operation_type = operation /\ event.initiator = initiator
  BY DEF JCSHash
<1> HIDE DEF event
<1>4. LastWrites(n)' = IF p.id = n THEN {Len(audit_log) + 1} ELSE LastWrites(n)
  BY <1>1, <1>2, <1>3, LastWritesAfterWrite
<1>5. ASSUME n # p.id PROVE Untold(n)
  BY <1>1, <1>2, <1>4, <1>5, UntoldAfterAppend
<1>6. ASSUME n = p.id PROVE Told(n, p, operation, initiator)
  <2>1. LastWrites(n)' = {Len(audit_log) + 1}
    BY <1>4, <1>6
  <2>2. (CHOOSE k \in {Len(audit_log) + 1} : TRUE) = Len(audit_log) + 1
    OBVIOUS
  <2>3. audit_log'[Len(audit_log) + 1].event = event
    BY <1>1, <1>2, AppendedRow
  <2>4. Last(n)' = event
    BY <2>1, <2>2, <2>3, LastDefined
  <2> QED BY <1>3, <2>1, <2>4, LastDefined DEF Told
<1> QED BY <1>5, <1>6

(* What the two maps say of a memory, before and after a step.               *)
LEMMA MapsAfterUntold ==
  ASSUME NEW n \in Nodes, Untold(n)
  PROVE  /\ LastRecorded'[n] = LastRecorded[n]
         /\ rows'[n] = rows[n] => ActiveMemory'[n] = ActiveMemory[n]
         /\ rows'[n] = None \/ rows'[n].status = "archived" => ActiveMemory'[n] = None
<1>1. LastWrites(n) # {} => Content(n)' = Content(n) /\ (ByUpdate(n)' <=> ByUpdate(n))
  BY LastDefined DEF Untold
<1> QED BY <1>1, MapsDefined DEF Untold

LEMMA MapsAfterTold ==
  ASSUME NEW n \in Nodes, NEW p, NEW operation, NEW initiator,
         Told(n, p, operation, initiator)
  PROVE  /\ LastRecorded'[n] = IF operation = "UPDATE" /\ initiator = "human_user"
                               THEN Undated(p) ELSE p
         /\ ActiveMemory'[n] =
              IF rows'[n] # None /\ rows'[n].status = "active"
              THEN IF operation = "UPDATE" /\ initiator = "human_user"
                   THEN Undated(rows'[n]) ELSE rows'[n]
              ELSE None
BY MapsDefined DEF Told

(* Both are maps of the nodes.                                               *)
LEMMA MapsOfNodes ==
  /\ LastRecorded = [n \in Nodes |-> LastRecorded[n]]
  /\ LastRecorded' = [n \in Nodes |-> LastRecorded'[n]]
  /\ ActiveMemory = [n \in Nodes |-> ActiveMemory[n]]
  /\ ActiveMemory' = [n \in Nodes |-> ActiveMemory'[n]]
<1>1. LastRecorded = [n \in Nodes |-> LastRecorded[n]]
  BY DEF LastRecorded
<1>2. ActiveMemory = [n \in Nodes |-> ActiveMemory[n]]
  BY DEF ActiveMemory
<1>3. LastRecorded' = [n \in Nodes |-> LastRecorded'[n]]
  BY DEF LastRecorded
<1>4. ActiveMemory' = [n \in Nodes |-> ActiveMemory'[n]]
  BY DEF ActiveMemory
<1> QED BY <1>1, <1>2, <1>3, <1>4

-----------------------------------------------------------------------------
(* Steps of the store, as steps of the map.                                *)

Simulates == Recorded!Next \/ UNCHANGED <<ActiveMemory, LastRecorded>>

(* An audit row that is not about a write changes no memory's last write.    *)
LEMMA NoteSimulates ==
  ASSUME audit_log \in Seq(AuditRecord(AuditEvent)),
         NEW operation \in {"proposal_created", "user_rejection"},
         NEW initiator \in {"system", "user"}, NEW p \in Primitive, Audit(operation, initiator, p),
         UNCHANGED rows
  PROVE  Simulates
<1>1. ASSUME NEW n \in Nodes
      PROVE  LastRecorded'[n] = LastRecorded[n] /\ ActiveMemory'[n] = ActiveMemory[n]
  BY <1>1, NoteTellsNothing, MapsAfterUntold
<1>2. LastRecorded' = [n \in Nodes |-> LastRecorded'[n]]
      /\ ActiveMemory' = [n \in Nodes |-> ActiveMemory'[n]]
  BY MapsOfNodes
<1>3. UNCHANGED <<ActiveMemory, LastRecorded>>
  BY <1>1, <1>2, MapsOfNodes
<1> QED BY <1>3 DEF Simulates

(* A transaction that stores a row and audits it records it; updatePrimitive *)
(* records it but for created_at.                                            *)
LEMMA WriteSimulates ==
  ASSUME TablesTypeOK,
         NEW operation \in Writes, NEW initiator \in {"human_user", "system", "user"},
         NEW p \in Primitive, Audit(operation, initiator, p),
         NEW q \in Primitive, rows' = [rows EXCEPT ![p.id] = q], q.status = p.status,
         IF operation = "UPDATE" /\ initiator = "human_user" THEN Undated(q) = Undated(p)
                                                            ELSE q = p
  PROVE  Simulates
<1> DEFINE value == IF operation = "UPDATE" /\ initiator = "human_user" THEN Undated(p) ELSE p
<1>1. p.id \in Ids /\ q # None
  BY DraftAssumption DEF Primitive, Fields
<1>2. value \in Primitive /\ value.status = p.status
  BY DEF Undated, Primitive, Fields
<1>3. ASSUME NEW n \in Nodes
      PROVE  /\ LastRecorded'[n] = IF n = p.id THEN value ELSE LastRecorded[n]
             /\ ActiveMemory'[n] = IF n = p.id THEN IF p.status = "active" THEN value ELSE None
                                   ELSE ActiveMemory[n]
  <2>1. audit_log \in Seq(AuditRecord(AuditEvent)) /\ rows \in [Ids -> Primitive \cup {None}]
        /\ n \in Ids
    BY DEF TablesTypeOK, MemoryTypeOK, Nodes
  <2>2. CASE n = p.id
    <3>1. Told(n, p, operation, initiator)
      BY <2>1, <2>2, WriteTells
    <3>2. rows'[n] = q
      BY <1>1, <2>1, <2>2
    <3> QED BY <1>1, <2>2, <3>1, <3>2, MapsAfterTold
  <2>3. CASE n # p.id
    <3>1. Untold(n)
      BY <2>1, <2>3, WriteTells
    <3>2. rows'[n] = rows[n]
      BY <2>1, <2>3
    <3> QED BY <2>3, <3>1, <3>2, MapsAfterUntold
  <2> QED BY <2>2, <2>3
<1>4. LastRecorded' = [n \in Nodes |-> LastRecorded'[n]]
      /\ ActiveMemory' = [n \in Nodes |-> ActiveMemory'[n]]
  BY MapsOfNodes
<1> HIDE DEF value
<1>5. CASE p.id \in Nodes
  <2>1. LastRecorded'[p.id] = value
    BY <1>3, <1>5
  <2>2. LastRecorded' = [LastRecorded EXCEPT ![p.id] = value]
    BY <1>3, <1>4, <1>5, MapsOfNodes
  <2>3. ActiveMemory' = [ActiveMemory EXCEPT ![p.id] =
                           IF value \in {r \in Primitive : r.status = "active"}
                           THEN value ELSE None]
    BY <1>2, <1>3, <1>4, <1>5, MapsOfNodes
  <2>4. Recorded!Record(p.id, LastRecorded'[p.id])
    BY <1>2, <2>1, <2>2, <2>3 DEF Recorded!Record
  <2> QED BY <1>5, <2>4 DEF Recorded!Next, Simulates
<1>6. CASE p.id \notin Nodes
  <2>1. UNCHANGED <<ActiveMemory, LastRecorded>>
    BY <1>3, <1>4, <1>6, MapsOfNodes
  <2> QED BY <2>1 DEF Simulates
<1> QED BY <1>5, <1>6

(* A transaction that audits nothing only takes memories out of use.         *)
LEMMA RetirementSimulates ==
  ASSUME UNCHANGED audit_log,
         \A n \in Nodes : rows'[n] \in {rows[n], None} \/ rows'[n].status = "archived"
  PROVE  Simulates
<1> DEFINE gone == {n \in Nodes : ActiveMemory'[n] = None}
<1>1. ASSUME NEW n \in Nodes
      PROVE  LastRecorded'[n] = LastRecorded[n] /\ ActiveMemory'[n] \in {ActiveMemory[n], None}
  <2>1. Untold(n)
    BY UntoldStays
  <2>2. rows'[n] \in {rows[n], None} \/ rows'[n].status = "archived"
    OBVIOUS
  <2> QED BY <2>1, <2>2, MapsAfterUntold
<1>2. LastRecorded' = [n \in Nodes |-> LastRecorded'[n]]
      /\ ActiveMemory' = [n \in Nodes |-> ActiveMemory'[n]]
  BY MapsOfNodes
<1>3. ActiveMemory' = [n \in Nodes |-> IF n \in gone THEN None ELSE ActiveMemory[n]]
  BY <1>1, <1>2
<1>4. UNCHANGED LastRecorded
  BY <1>1, <1>2, MapsOfNodes
<1>5. Recorded!Retire(gone)
  BY <1>3, <1>4 DEF Recorded!Retire
<1>6. gone \in SUBSET Nodes
  OBVIOUS
<1> HIDE DEF gone
<1> QED BY <1>5, <1>6 DEF Recorded!Next, Simulates

(* Every step of the store API is a step of the map or none.                 *)
LEMMA StoreStepSimulates ==
  ASSUME TablesTypeOK, NEW c \in Clients, call[c] \in StoreCall, StoreStep(c)
  PROVE  Simulates
<1> USE DEF tables, memoryTables
<1>1. CASE CommitInsert(c)
  <2>1. call[c].primitive \in Primitive
    BY <1>1, StoreCallFields DEF CommitInsert
  <2>2. /\ rows' = [rows EXCEPT ![call[c].primitive.id] = call[c].primitive]
        /\ Audit("CREATE", "human_user", call[c].primitive)
    BY <1>1 DEF CommitInsert, InsertRows
  <2> QED BY <2>1, <2>2, WriteSimulates DEF Writes
<1>2. CASE CommitUpdate(c)
  <2>1. call[c].updated \in Primitive
    BY <1>2, StoreCallFields DEF CommitUpdate
  <2>2. /\ UpdateRows(call[c].updated, call[c].base.updated_at)
        /\ Audit("UPDATE", "human_user", call[c].updated)
    BY <1>2 DEF CommitUpdate
  <2>3. PICK q \in Primitive : /\ rows' = [rows EXCEPT ![call[c].updated.id] = q]
                               /\ q.status = call[c].updated.status
                               /\ Undated(q) = Undated(call[c].updated)
    BY <2>1, <2>2, UpdateRowsStores
  <2> QED BY <2>1, <2>2, <2>3, WriteSimulates DEF Writes
<1>3. CASE CommitArchive(c)
  <2> DEFINE i == call[c].id
  <2>1. \A n \in Nodes : rows'[n] \in {rows[n], None} \/ rows'[n].status = "archived"
    <3>1. CASE i \in Archivable /\ rows[i] # None
      <4>1. PICK q \in Primitive : rows' = [rows EXCEPT ![i] = q] /\ q.status = "archived"
        BY <1>3, <3>1, ArchivedRow
      <4> QED BY <4>1 DEF TablesTypeOK, MemoryTypeOK, Nodes
    <3>2. CASE ~ (i \in Archivable /\ rows[i] # None)
      BY <1>3, <3>2 DEF CommitArchive
    <3> QED BY <3>1, <3>2
  <2> QED BY <1>3, <2>1, RetirementSimulates DEF CommitArchive
<1>4. CASE CommitDelete(c)
  <2>1. \A n \in Nodes : rows'[n] \in {rows[n], None}
    BY <1>4 DEF CommitDelete, Nodes
  <2> QED BY <1>4, <2>1, RetirementSimulates DEF CommitDelete
<1>5. CASE CommitMerge(c)
  <2>1. \A n \in Nodes : ~ Touches(n, call[c].duplicate)
    BY DEF Touches, Nodes
  <2>2. \A n \in Nodes : rows'[n] \in {rows[n], None}
    BY <1>5, <2>1 DEF CommitMerge, Nodes
  <2> QED BY <1>5, <2>2, RetirementSimulates DEF CommitMerge
<1>6. CASE ~ (CommitInsert(c) \/ CommitUpdate(c) \/ CommitArchive(c)
              \/ CommitDelete(c) \/ CommitMerge(c))
  <2>1. UNCHANGED <<rows, audit_log>>
    BY <1>6 DEF StoreStep, BeginInsert, BeginUpdate, CheckUpdate, BeginOnExisting,
                CommitEmbed, BeginMerge, Abort
  <2> QED BY <2>1, RetirementSimulates
<1> QED BY <1>1, <1>2, <1>3, <1>4, <1>5, <1>6

(* An empty store has recorded nothing.                                      *)
LEMMA InitSimulates ==
  ASSUME Init
  PROVE  Recorded!Init
<1>1. ActiveMemory = [n \in Nodes |-> None]
  BY DEF Init, ActiveMemory, Nodes
<1>2. \A n \in Nodes : LastWrites(n) = {}
  BY DEF Init, LastWrites
<1>3. LastRecorded = [n \in Nodes |-> None]
  BY <1>2 DEF LastRecorded, RecordedBy
<1> QED BY <1>1, <1>3 DEF Recorded!Init

-----------------------------------------------------------------------------
(* What the map promises, and what the promise says of the store.          *)

(* Steps of the map keep its promise.                                        *)
LEMMA PromiseKept ==
  ASSUME Recorded!LiveIsRecorded, [Recorded!Next]_<<ActiveMemory, LastRecorded>>
  PROVE  Recorded!LiveIsRecorded'
<1>1. ASSUME NEW i \in Nodes, Recorded!Record(i, LastRecorded'[i])
      PROVE  Recorded!LiveIsRecorded'
  BY <1>1, MapsOfNodes DEF Recorded!Record, Recorded!LiveIsRecorded
<1>2. ASSUME NEW ids \in SUBSET Nodes, Recorded!Retire(ids)
      PROVE  Recorded!LiveIsRecorded'
  BY <1>2 DEF Recorded!Retire, Recorded!LiveIsRecorded
<1>3. CASE UNCHANGED <<ActiveMemory, LastRecorded>>
  BY <1>3 DEF Recorded!LiveIsRecorded
<1> QED BY <1>1, <1>2, <1>3 DEF Recorded!Next

(* A store that keeps the promise has a ledger that explains it.             *)
LEMMA PromiseExplains ==
  ASSUME TablesTypeOK, Recorded!LiveIsRecorded
  PROVE  AuditMatchesStore
<1> SUFFICES ASSUME NEW n \in Nodes, rows[n] # None, rows[n].status = "active"
             PROVE  \E k \in 1 .. Len(audit_log) :
                      /\ IsLastWriteOf(k, n)
                      /\ Compared(audit_log[k].event, Digested(audit_log[k].event))
                           = Compared(audit_log[k].event, rows[n])
  BY DEF AuditMatchesStore
<1>1. ActiveMemory[n] = LastRecorded[n] \/ ActiveMemory[n] = None
  BY DEF Recorded!LiveIsRecorded
<1>2. Undated(rows[n]) # None
  <2>1. rows[n] \in Primitive
    BY DEF TablesTypeOK, MemoryTypeOK, Nodes
  <2>2. Undated(rows[n]) \in Primitive
    BY <2>1 DEF Undated, Primitive, Fields
  <2> QED BY <2>2, DraftAssumption
<1>3. /\ LastWrites(n) # {}
      /\ IF ByUpdate(n) THEN Undated(Content(n)) = Undated(rows[n]) ELSE Content(n) = rows[n]
  BY <1>1, <1>2, MapsDefined
<1>4. PICK k \in LastWrites(n) : Last(n) = audit_log[k].event
  BY <1>3, LastDefined
<1>5. k \in 1 .. Len(audit_log) /\ IsLastWriteOf(k, n)
  BY <1>4 DEF LastWrites
<1>6. Compared(Last(n), Content(n)) = Compared(Last(n), rows[n])
  BY <1>3 DEF Compared, ByUpdate
<1> QED BY <1>4, <1>5, <1>6 DEF Content

-----------------------------------------------------------------------------
(* The rows and the ledger of packages/storage move as RecordedMemory says,  *)
(* whichever callers interleave: no write reaches an active row without the  *)
(* audit row that carries its digest, in the same transaction.  What         *)
(* updatePrimitive wrote is compared without created_at.                     *)
THEOREM StoreImplementsRecordedMemory == Spec => ImplementsRecordedMemory
<1>1. TypeOK /\ [Next]_vars => [Recorded!Next]_<<ActiveMemory, LastRecorded>>
  <2> SUFFICES ASSUME TypeOK, [Next]_vars PROVE Simulates
    BY DEF Simulates
  <2>1. CASE Tick \/ UNCHANGED vars
    <3>1. UNCHANGED <<rows, audit_log>>
      BY <2>1 DEF Tick, vars, tables, memoryTables
    <3> QED BY <3>1, RetirementSimulates
  <2>2. ASSUME NEW c \in Clients, StoreStep(c)
        PROVE  Simulates
    BY <2>2, StoreStepSimulates DEF TypeOK
  <2> QED BY <2>1, <2>2 DEF Next
<1> QED BY <1>1, InitSimulates, TypeCorrect, PTL DEF Spec, ImplementsRecordedMemory, Recorded!Spec

(* The promise follows from the abstract specification alone: what is live   *)
(* under an id is what was recorded for it last.                             *)
THEOREM LiveMemoryIsRecorded == ImplementsRecordedMemory => []Recorded!LiveIsRecorded
<1>1. Recorded!Init => Recorded!LiveIsRecorded
  BY DEF Recorded!Init, Recorded!LiveIsRecorded
<1>2. Recorded!LiveIsRecorded /\ [Recorded!Next]_<<ActiveMemory, LastRecorded>>
        => Recorded!LiveIsRecorded'
  BY PromiseKept
<1> QED BY <1>1, <1>2, PTL DEF ImplementsRecordedMemory, Recorded!Spec

(* Every active memory's newest audited write carries its digest, up to      *)
(* created_at where updatePrimitive wrote last: the ledger can be compared   *)
(* with the store.                                                           *)
THEOREM LedgerExplainsStore == Spec => []AuditMatchesStore
<1>1. TypeOK /\ Recorded!LiveIsRecorded => AuditMatchesStore
  BY PromiseExplains DEF TypeOK
<1> QED BY <1>1, TypeCorrect, StoreImplementsRecordedMemory, LiveMemoryIsRecorded, PTL
=============================================================================
