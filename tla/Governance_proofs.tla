------------------------- MODULE Governance_proofs -------------------------
(***************************************************************************)
(* Theorems about Governance: the store's invariants survive the proposal  *)
(* workflow, and agents stay away from restricted memories; all three      *)
(* specifications implement RecordedMemory; and the same invariants under  *)
(* Consolidation.                                                          *)
(***************************************************************************)
EXTENDS Consolidation, MemoryStore_proofs

-----------------------------------------------------------------------------
(* Types.                                                                  *)

(* The fields a governance call carries, by what it does.                    *)
WellFormed(r) ==
  /\ r.op = "propose" => r.record \in Proposal /\ r.mode \in Mode
  /\ r.op = "importance" => r.id \in Ids
  /\ r.op \in {"approve", "reject"} => r.id \in ProposalIds /\ r.record \in Proposal

StoreOperations ==
  {"idle", "insert", "update", "write", "archive", "delete", "embed", "merge"}

LEMMA GovernanceCallFields ==
  ASSUME NEW r \in GovernanceCall
  PROVE  /\ WellFormed(r)
         /\ r \notin StoreCall => r.op \notin StoreOperations
BY DEF GovernanceCall, StoreCall, Idle, WellFormed, StoreOperations

(* A store step of a client that is inside another call is an abort.         *)
LEMMA StoreStepOfOtherCall ==
  ASSUME NEW c \in Clients, call[c].op \notin StoreOperations, StoreStep(c)
  PROVE  Abort(c)
BY DEF StoreStep, BeginInsert, CommitInsert, BeginUpdate, CheckUpdate, CommitUpdate,
       BeginOnExisting, CommitArchive, CommitDelete, CommitEmbed, BeginMerge, CommitMerge,
       Start, Idle, StoreOperations

(* What executeAtomicMutationTransaction does to the tables: one transaction *)
(* of the store, one proposal row, one audit row.                            *)
LEMMA ExecuteAtomicMutationType ==
  ASSUME TablesTypeOK, NEW p \in ProposalIds, NEW record \in Proposal,
         NEW operation \in {"CREATE", "UPDATE", "MERGE", "user_approval"},
         NEW initiator \in {"system", "user"},
         ExecuteAtomicMutation(p, record, operation, initiator), UNCHANGED clock
  PROVE  TablesTypeOK' /\ Appends
<1> DEFINE persisted == Mutated(rows[record.target], record.candidate, record.decision)
<1>1. record.candidate \in Primitive
  BY DEF Proposal
<1>2. proposals' \in [ProposalIds -> Proposal \cup {None}]
  BY DEF ExecuteAtomicMutation, SaveProposal, TablesTypeOK
<1>3. MemoryTypeOK' /\ audit_log' \in Seq(AuditRecord(AuditEvent)) /\ Appends
  <2>1. CASE record.decision = "CREATE"
    <3>1. InsertRows(record.candidate) /\ Audit(operation, initiator, record.candidate)
      BY <2>1 DEF ExecuteAtomicMutation, CreateFrom
    <3> QED BY <1>1, <3>1, InsertRowsType, AuditType, AuditAppends DEF TablesTypeOK
  <2>2. CASE record.decision # "CREATE"
    <3>1. /\ record.target \in Ids
          /\ rows[record.target] # None
          /\ Mutable(rows[record.target], record.candidate)
          /\ UpdateRows(persisted, record.expected)
          /\ Audit(operation, initiator, persisted)
      BY <2>2 DEF ExecuteAtomicMutation, MutateFrom, Proposal
    <3>2. rows[record.target] \in Primitive /\ clock \in Nat
      BY <3>1, BoundAssumption DEF TablesTypeOK, MemoryTypeOK
    <3>3. persisted \in Primitive
      BY <1>1, <3>1, <3>2, MutatedType
    <3> HIDE DEF persisted
    <3> QED BY <3>1, <3>3, UpdateRowsType, AuditType, AuditAppends DEF TablesTypeOK
  <2> QED BY <2>1, <2>2
<1> QED BY <1>2, <1>3 DEF TablesTypeOK

(* createMemoryProposal builds a well-formed record.                         *)
LEMMA ProposeCallType ==
  ASSUME TablesTypeOK, NEW candidate \in Primitive, NEW decision \in Decision,
         NEW target \in Ids \cup {None}, NEW mode \in Mode
  PROVE  ProposeCall(candidate, decision, target, mode) \in GovernanceCall
<1> DEFINE record == ProposalRecord(candidate, decision, target, mode)
           expected == IF Found(target) THEN rows[target].updated_at ELSE None
           status == IF mode = "auto_apply" THEN "auto_applied" ELSE "pending"
<1>1. expected \in Nat \cup {None}
  <2>1. CASE Found(target)
    <3>1. rows[target] \in Fields
      BY <2>1 DEF Found, TablesTypeOK, MemoryTypeOK, Primitive
    <3> QED BY <2>1, <3>1 DEF Fields
  <2> QED BY <2>1
<1>2. record \in Proposal
  <2> HIDE DEF expected
  <2>1. record = [ candidate |-> candidate, decision |-> decision, target |-> target,
                   expected |-> expected, status |-> status ]
    BY DEF ProposalRecord, expected
  <2>2. status \in {"pending", "auto_applied"}
    OBVIOUS
  <2> HIDE DEF record, status
  <2> QED BY <1>1, <2>1, <2>2 DEF Proposal, Decision
<1> QED
  <2> HIDE DEF record
  <2> QED BY <1>2 DEF ProposeCall, GovernanceCall, record

(* Every governance step keeps the types and the calls well-formed, and      *)
(* appends at most one audit row.                                            *)
LEMMA GovernanceStepType ==
  ASSUME TablesTypeOK, NEW c \in Clients, WellFormed(call[c]), GovernanceStep(c)
  PROVE  /\ TablesTypeOK'
         /\ \E r \in GovernanceCall : call' = [call EXCEPT ![c] = r]
         /\ UNCHANGED audit_log \/ Appends
<1> USE DEF tables, memoryTables
<1>1. Idle \in GovernanceCall
  BY DEF GovernanceCall, StoreCall
<1>2. UNCHANGED <<clock, tables>> => TablesTypeOK'
  BY DEF TablesTypeOK, MemoryTypeOK
<1>3. CASE BeginPropose(c)
  <2>1. PICK d \in Drafts, made \in SubmissionTimes, changed \in SubmissionTimes,
             decision \in Decision, target \in Ids \cup {None}, confident \in BOOLEAN :
          call' = [call EXCEPT ![c] =
            ProposeCall(Submitted(d, made, changed), decision, target,
                        Policy(Submitted(d, made, changed), decision, confident))]
    BY <1>3 DEF BeginPropose, Start
  <2> DEFINE candidate == Submitted(d, made, changed)
             mode == Policy(candidate, decision, confident)
  <2>2. candidate \in Primitive
    BY SubmittedType DEF SubmissionTimes
  <2>3. mode \in Mode
    BY DEF Policy, Mode
  <2>4. ProposeCall(candidate, decision, target, mode) \in GovernanceCall
    <3> HIDE DEF candidate, mode
    <3> QED BY <2>2, <2>3, ProposeCallType
  <2> QED BY <1>2, <1>3, <2>1, <2>4 DEF BeginPropose
<1>4. CASE CommitAutoApply(c)
  <2>1. PICK p \in ProposalIds :
          ExecuteAtomicMutation(p, call[c].record, call[c].record.decision, "system")
    BY <1>4 DEF CommitAutoApply
  <2>2. call[c].record \in Proposal
    BY <1>4 DEF WellFormed, CommitAutoApply
  <2>3. call[c].record.decision \in {"CREATE", "UPDATE", "MERGE"}
    BY <2>2 DEF Proposal
  <2>4. TablesTypeOK' /\ Appends
    BY <1>4, <2>1, <2>2, <2>3, ExecuteAtomicMutationType DEF CommitAutoApply
  <2>5. PersistedId(call[c].record) \in Ids
    BY <2>1, <2>2 DEF PersistedId, ExecuteAtomicMutation, MutateFrom, Proposal, Primitive,
                      Fields
  <2>6. [op |-> "importance", id |-> PersistedId(call[c].record)] \in GovernanceCall
    BY <2>5 DEF GovernanceCall
  <2> QED BY <1>4, <2>4, <2>6 DEF CommitAutoApply
<1>5. CASE CommitStage(c)
  <2>1. call[c].record \in Proposal /\ call[c].record.candidate \in Primitive
    BY <1>5 DEF WellFormed, CommitStage, Proposal
  <2>2. audit_log' \in Seq(AuditRecord(AuditEvent)) /\ Appends
    BY <1>5, <2>1, AuditType, AuditAppends DEF CommitStage, TablesTypeOK
  <2>3. proposals' \in [ProposalIds -> Proposal \cup {None}]
    BY <1>5, <2>1 DEF CommitStage, SaveProposal, TablesTypeOK
  <2> QED BY <1>1, <1>5, <2>2, <2>3 DEF CommitStage, Return, TablesTypeOK, MemoryTypeOK
<1>6. CASE SetImportance(c)
  <2>1. call[c].id \in Ids
    BY <1>6 DEF WellFormed, SetImportance
  <2> QED BY <1>1, <1>6, <2>1 DEF SetImportance, Return, TablesTypeOK, MemoryTypeOK, Importance
<1>7. ASSUME NEW operation \in {"approve", "reject"}, NEW status \in {"approved", "rejected"},
             BeginDecide(c, operation, status)
      PROVE  /\ TablesTypeOK'
             /\ \E r \in GovernanceCall : call' = [call EXCEPT ![c] = r]
             /\ UNCHANGED audit_log
  <2>1. PICK p \in ProposalIds :
          /\ proposals[p] # None
          /\ call' = [call EXCEPT ![c] =
               [op |-> operation, id |-> p, record |-> [proposals[p] EXCEPT !.status = status]]]
    BY <1>7 DEF BeginDecide, Start
  <2> DEFINE record == [proposals[p] EXCEPT !.status = status]
  <2>2. record \in Proposal
    <3>1. proposals[p] \in Proposal
      BY <2>1 DEF TablesTypeOK
    <3> QED BY <3>1 DEF Proposal
  <2>3. [op |-> operation, id |-> p, record |-> record] \in GovernanceCall
    <3> HIDE DEF record
    <3> QED BY <2>2 DEF GovernanceCall
  <2> QED BY <1>2, <1>7, <2>1, <2>3 DEF BeginDecide
<1>8. CASE CommitApprove(c)
  <2>1. call[c].id \in ProposalIds /\ call[c].record \in Proposal
    BY <1>8 DEF WellFormed, CommitApprove
  <2>2. TablesTypeOK' /\ Appends
    BY <1>8, <2>1, ExecuteAtomicMutationType DEF CommitApprove
  <2> QED BY <1>1, <1>8, <2>2 DEF CommitApprove, Return
<1>9. CASE CommitReject(c)
  <2>1. call[c].record \in Proposal /\ call[c].record.candidate \in Primitive
    BY <1>9 DEF WellFormed, CommitReject, Proposal
  <2>2. audit_log' \in Seq(AuditRecord(AuditEvent)) /\ Appends
    BY <1>9, <2>1, AuditType, AuditAppends DEF CommitReject, TablesTypeOK
  <2>3. proposals' \in [ProposalIds -> Proposal \cup {None}]
    BY <1>9, <2>1 DEF CommitReject, SaveProposal, TablesTypeOK
  <2> QED BY <1>1, <1>9, <2>2, <2>3 DEF CommitReject, Return, TablesTypeOK, MemoryTypeOK
<1>10. CASE BeginApprove(c) \/ BeginReject(c)
  BY <1>7, <1>10 DEF BeginApprove, BeginReject
<1> QED BY <1>3, <1>4, <1>5, <1>6, <1>8, <1>9, <1>10 DEF GovernanceStep

(* The same of a step of the store inside the composition.                   *)
LEMMA ComposedStoreStepType ==
  ASSUME TablesTypeOK, NEW c \in Clients, call[c] \in GovernanceCall, StoreStep(c)
  PROVE  /\ TablesTypeOK'
         /\ \E r \in GovernanceCall : call' = [call EXCEPT ![c] = r]
         /\ UNCHANGED audit_log \/ Appends
<1>1. CASE call[c] \in StoreCall
  BY <1>1, StoreStepType, StoreStepAppends DEF GovernanceCall
<1>2. CASE call[c] \notin StoreCall
  <2>1. Abort(c)
    BY <1>2, GovernanceCallFields, StoreStepOfOtherCall
  <2> QED BY <2>1 DEF Abort, Return, tables, memoryTables, TablesTypeOK, MemoryTypeOK,
                      GovernanceCall, StoreCall
<1> QED BY <1>1, <1>2

(* A step of the composition keeps the types and appends at most one row.  *)
LEMMA ComposedStepType ==
  ASSUME GovernanceTypeOK, [GovernanceNext]_vars
  PROVE  GovernanceTypeOK' /\ (UNCHANGED audit_log \/ Appends)
<1>1. ASSUME NEW c \in Clients, StoreStep(c) \/ GovernanceStep(c)
      PROVE  GovernanceTypeOK' /\ (UNCHANGED audit_log \/ Appends)
  <2>1. call[c] \in GovernanceCall
    BY DEF GovernanceTypeOK
  <2>2. /\ TablesTypeOK'
        /\ \E r \in GovernanceCall : call' = [call EXCEPT ![c] = r]
        /\ UNCHANGED audit_log \/ Appends
    BY <1>1, <2>1, GovernanceCallFields, GovernanceStepType, ComposedStoreStepType
    DEF GovernanceTypeOK
  <2> QED BY <2>2 DEF GovernanceTypeOK
<1>2. CASE Tick
  BY <1>2, TickType DEF GovernanceTypeOK, Tick, tables
<1>3. CASE UNCHANGED vars
  BY <1>3 DEF vars, tables, memoryTables, GovernanceTypeOK, TablesTypeOK, MemoryTypeOK
<1> QED BY <1>1, <1>2, <1>3 DEF GovernanceNext, Next

(* Types of the composition: proposals, decisions and store calls in flight. *)
THEOREM GovernanceTypeCorrect == GovernanceSpec => []GovernanceTypeOK
<1>1. Init => GovernanceTypeOK
  BY BoundAssumption DEF Init, GovernanceTypeOK, TablesTypeOK, MemoryTypeOK,
                         GovernanceCall, StoreCall
<1>2. GovernanceTypeOK /\ [GovernanceNext]_vars => GovernanceTypeOK'
  BY ComposedStepType
<1> QED BY <1>1, <1>2, PTL DEF GovernanceSpec

(* The ledger verifies however proposals, approvals and writes interleave.   *)
THEOREM GovernanceChainVerifies == GovernanceSpec => []AuditChainValid
<1>1. Init => AuditChainValid
  BY DEF Init, AuditChainValid, VerifyAuditChain
<1>2. GovernanceTypeOK /\ AuditChainValid /\ [GovernanceNext]_vars => AuditChainValid'
  BY ComposedStepType, AppendsKeepsChain DEF GovernanceTypeOK, TablesTypeOK
<1> QED BY <1>1, <1>2, GovernanceTypeCorrect, PTL DEF GovernanceSpec

-----------------------------------------------------------------------------
(* References.                                                             *)

(* A saved proposal names no target or a registered one.                     *)
LEMMA SaveProposalClosure ==
  ASSUME TablesTypeOK, ReferentialClosure, NEW p \in ProposalIds, NEW record \in Proposal,
         SaveProposal(p, record), registry \subseteq registry'
  PROVE  \A q \in ProposalIds : proposals'[q] # None =>
           proposals'[q].target \in registry' \cup {None}
BY DEF SaveProposal, TablesTypeOK, ReferentialClosure, NotesClosed, Registered

(* executeAtomicMutationTransaction leaves no dangling reference.          *)
LEMMA ExecuteAtomicMutationClosure ==
  ASSUME TablesTypeOK, ReferentialClosure, NEW p \in ProposalIds, NEW record \in Proposal,
         NEW operation, NEW initiator,
         ExecuteAtomicMutation(p, record, operation, initiator)
  PROVE  ReferentialClosure'
<1>1. record.candidate \in Primitive /\ SaveProposal(p, record)
  BY DEF Proposal, ExecuteAtomicMutation
<1>2. CASE record.decision = "CREATE"
  <2>1. InsertRows(record.candidate) /\ registry \subseteq registry'
    BY <1>2 DEF ExecuteAtomicMutation, CreateFrom, InsertRows
  <2> QED BY <1>1, <2>1, SaveProposalClosure, InsertRowsClosure
<1>3. CASE record.decision # "CREATE"
  <2> DEFINE persisted == Mutated(rows[record.target], record.candidate, record.decision)
  <2>1. /\ record.target \in Ids
        /\ rows[record.target] # None
        /\ Mutable(rows[record.target], record.candidate)
        /\ UpdateRows(persisted, record.expected)
    BY <1>3 DEF ExecuteAtomicMutation, MutateFrom, Proposal
  <2>2. rows[record.target] \in Primitive /\ clock \in Nat
    BY <2>1, BoundAssumption DEF TablesTypeOK, MemoryTypeOK
  <2>3. persisted \in Primitive
    BY <1>1, <2>1, <2>2, MutatedType
  <2>4. UNCHANGED <<registry, embeddings, lifecycle>>
    BY <2>1 DEF UpdateRows
  <2> HIDE DEF persisted
  <2> QED BY <1>1, <2>1, <2>3, <2>4, SaveProposalClosure, UpdateRowsInPlace, RowsInPlaceClosure
<1> QED BY <1>2, <1>3

(* No step of a proposal or a decision leaves a dangling reference.        *)
LEMMA GovernanceStepClosure ==
  ASSUME TablesTypeOK, ReferentialClosure, NEW c \in Clients, WellFormed(call[c]),
         GovernanceStep(c)
  PROVE  ReferentialClosure'
<1> USE DEF tables, memoryTables
<1>1. CASE CommitAutoApply(c)
  BY <1>1, ExecuteAtomicMutationClosure DEF WellFormed, CommitAutoApply
<1>2. CASE CommitApprove(c)
  BY <1>2, ExecuteAtomicMutationClosure DEF WellFormed, CommitApprove
<1>3. CASE CommitStage(c) \/ CommitReject(c)
  <2>1. /\ UNCHANGED <<registry, rows, embeddings, lifecycle>>
        /\ \A q \in ProposalIds : proposals'[q] # None =>
             proposals'[q].target \in registry' \cup {None}
    BY <1>3, SaveProposalClosure DEF WellFormed, CommitStage, CommitReject
  <2> QED BY <2>1, RowsInPlaceClosure
<1>4. CASE SetImportance(c)
  <2>1. call[c].id \in registry
    BY <1>4, DraftAssumption DEF WellFormed, SetImportance, Registered
  <2>2. \A i \in Ids : /\ lifecycle'[i] # None => lifecycle[i] # None \/ i = call[c].id
                       /\ lifecycle[i] # None => lifecycle'[i] # None
    BY <1>4, DraftAssumption DEF SetImportance, Importance, TablesTypeOK, MemoryTypeOK
  <2>3. UNCHANGED <<registry, rows, embeddings, proposals>>
    BY <1>4 DEF SetImportance
  <2> QED BY <2>1, <2>2, <2>3 DEF ReferentialClosure, EdgesClosed, NodesClosed, NotesClosed,
                                  Registered, Nodes, Edges
<1>5. CASE BeginPropose(c) \/ BeginApprove(c) \/ BeginReject(c)
  BY <1>5, ClosureStutters DEF BeginPropose, BeginApprove, BeginReject, BeginDecide
<1> QED BY <1>1, <1>2, <1>3, <1>4, <1>5 DEF GovernanceStep

(* No reference dangles when proposals, decisions and writes interleave.     *)
THEOREM GovernanceReferencesResolve == GovernanceSpec => []ReferentialClosure
<1>1. Init => ReferentialClosure
  BY DEF Init, ReferentialClosure, EdgesClosed, NodesClosed, NotesClosed, Nodes, Edges
<1>2. GovernanceTypeOK /\ ReferentialClosure /\ [GovernanceNext]_vars => ReferentialClosure'
  <2> SUFFICES ASSUME GovernanceTypeOK, ReferentialClosure, [GovernanceNext]_vars
               PROVE  ReferentialClosure'
    OBVIOUS
  <2>1. ASSUME NEW c \in Clients, StoreStep(c)
        PROVE  ReferentialClosure'
    <3>1. CASE call[c] \in StoreCall
      BY <2>1, <3>1, StoreStepClosure DEF GovernanceTypeOK
    <3>2. CASE call[c] \notin StoreCall
      <4>1. Abort(c)
        BY <2>1, <3>2, GovernanceCallFields, StoreStepOfOtherCall DEF GovernanceTypeOK
      <4> QED BY <4>1, ClosureStutters DEF Abort, tables, memoryTables
    <3> QED BY <3>1, <3>2
  <2>2. ASSUME NEW c \in Clients, GovernanceStep(c)
        PROVE  ReferentialClosure'
    BY <2>2, GovernanceCallFields, GovernanceStepClosure DEF GovernanceTypeOK
  <2>3. CASE Tick \/ UNCHANGED vars
    BY <2>3, ClosureStutters DEF Tick, vars, tables, memoryTables
  <2> QED BY <2>1, <2>2, <2>3 DEF GovernanceNext, Next
<1> QED BY <1>1, <1>2, GovernanceTypeCorrect, PTL DEF GovernanceSpec

-----------------------------------------------------------------------------
(* The search index.                                                       *)

(* An insertion through governance fires the same triggers, an update none,  *)
(* and neither changes a tier.                                               *)
LEMMA ExecuteAtomicMutationIndex ==
  ASSUME TablesTypeOK, ReferentialClosure, SearchIndexHidesRestricted,
         NEW p \in ProposalIds, NEW record \in Proposal, NEW operation, NEW initiator,
         ExecuteAtomicMutation(p, record, operation, initiator)
  PROVE  SearchIndexHidesRestricted'
<1>1. record.candidate \in Primitive
  BY DEF Proposal
<1>2. CASE record.decision = "CREATE"
  BY <1>1, <1>2, InsertRowsIndex DEF ExecuteAtomicMutation, CreateFrom
<1>3. CASE record.decision # "CREATE"
  <2> DEFINE persisted == Mutated(rows[record.target], record.candidate, record.decision)
  <2>1. /\ record.target \in Ids
        /\ rows[record.target] # None
        /\ Mutable(rows[record.target], record.candidate)
        /\ UpdateRows(persisted, record.expected)
    BY <1>3 DEF ExecuteAtomicMutation, MutateFrom, Proposal
  <2>2. rows[record.target] \in Primitive /\ clock \in Nat
    BY <2>1, BoundAssumption DEF TablesTypeOK, MemoryTypeOK
  <2>3. persisted \in Primitive
    BY <1>1, <2>1, <2>2, MutatedType
  <2> HIDE DEF persisted
  <2>4. UNCHANGED fts
    BY <2>1 DEF UpdateRows
  <2>5. \A i \in Ids : rows[i] # None =>
          rows'[i] # None /\ rows'[i].sensitivity = rows[i].sensitivity
    BY <2>1, <2>3, UpdateRowsKeepTier
  <2>6. Nodes \subseteq Ids
    BY DEF Nodes
  <2> QED BY <2>4, <2>5, <2>6, IndexStutters
<1> QED BY <1>2, <1>3

LEMMA GovernanceStepIndex ==
  ASSUME TablesTypeOK, ReferentialClosure, SearchIndexHidesRestricted,
         NEW c \in Clients, WellFormed(call[c]), GovernanceStep(c)
  PROVE  SearchIndexHidesRestricted'
<1> USE DEF tables, memoryTables
<1>1. CASE CommitAutoApply(c)
  BY <1>1, ExecuteAtomicMutationIndex DEF WellFormed, CommitAutoApply
<1>2. CASE CommitApprove(c)
  BY <1>2, ExecuteAtomicMutationIndex DEF WellFormed, CommitApprove
<1>3. CASE ~ CommitAutoApply(c) /\ ~ CommitApprove(c)
  <2>1. UNCHANGED <<rows, fts>>
    BY <1>3 DEF GovernanceStep, BeginPropose, CommitStage, SetImportance, BeginApprove,
                BeginReject, BeginDecide, CommitReject
  <2> QED BY <2>1, IndexStutters
<1> QED BY <1>1, <1>2, <1>3

(* Full-text search never returns a restricted or a deleted memory when      *)
(* proposals wait while their targets are deleted and recreated in another   *)
(* tier, and are then approved.                                              *)
THEOREM GovernedSearchStaysPublic == GovernanceSpec => []SearchIndexHidesRestricted
<1>1. Init => SearchIndexHidesRestricted
  BY DEF Init, SearchIndexHidesRestricted
<1>2. GovernanceTypeOK /\ ReferentialClosure /\ SearchIndexHidesRestricted
        /\ [GovernanceNext]_vars => SearchIndexHidesRestricted'
  <2> SUFFICES ASSUME GovernanceTypeOK, ReferentialClosure, SearchIndexHidesRestricted,
                      [GovernanceNext]_vars
               PROVE  SearchIndexHidesRestricted'
    OBVIOUS
  <2>1. ASSUME NEW c \in Clients, StoreStep(c)
        PROVE  SearchIndexHidesRestricted'
    <3>1. CASE call[c] \in StoreCall
      BY <2>1, <3>1, StoreStepIndex DEF GovernanceTypeOK
    <3>2. CASE call[c] \notin StoreCall
      <4>1. Abort(c)
        BY <2>1, <3>2, GovernanceCallFields, StoreStepOfOtherCall DEF GovernanceTypeOK
      <4> QED BY <4>1, IndexStutters DEF Abort, tables, memoryTables
    <3> QED BY <3>1, <3>2
  <2>2. ASSUME NEW c \in Clients, GovernanceStep(c)
        PROVE  SearchIndexHidesRestricted'
    BY <2>2, GovernanceCallFields, GovernanceStepIndex DEF GovernanceTypeOK
  <2>3. CASE Tick \/ UNCHANGED vars
    BY <2>3, IndexStutters DEF Tick, vars, tables, memoryTables
  <2> QED BY <2>1, <2>2, <2>3 DEF GovernanceNext, Next
<1> QED BY <1>1, <1>2, GovernanceTypeCorrect, GovernanceReferencesResolve, PTL DEF GovernanceSpec

-----------------------------------------------------------------------------
(* Restricted memories.                                                    *)

(* What the policy guarantees of a call that is about to write on its own,   *)
(* kept until the write: the strengthening AgentsLeaveRestrictedAlone needs. *)
Honoured(r) ==
  r.op = "propose" /\ r.mode = "auto_apply" => r.record.candidate.sensitivity # Restricted

PolicyHonoured == \A c \in Clients : Honoured(call[c])

LEMMA CallStaysHonoured ==
  ASSUME PolicyHonoured, DOMAIN call = Clients, NEW c \in Clients, NEW r, Honoured(r),
         call' = [call EXCEPT ![c] = r]
  PROVE  PolicyHonoured'
<1>1. ASSUME NEW d \in Clients PROVE Honoured(call'[d])
  BY DEF PolicyHonoured
<1> QED BY <1>1 DEF PolicyHonoured, Honoured

(* The policy decides before the await, and nobody else touches the call.    *)
LEMMA GovernanceStepHonoured ==
  ASSUME NEW c \in Clients, GovernanceStep(c)
  PROVE  \E r : Honoured(r) /\ call' = [call EXCEPT ![c] = r]
<1>1. CASE BeginPropose(c)
  <2>1. PICK candidate, decision, target, confident :
          call' = [call EXCEPT ![c] =
            ProposeCall(candidate, decision, target, Policy(candidate, decision, confident))]
    BY <1>1 DEF BeginPropose, Start
  <2>2. Policy(candidate, decision, confident) = "auto_apply"
          => candidate.sensitivity # Restricted
    BY DEF Policy
  <2>3. Honoured(ProposeCall(candidate, decision, target, Policy(candidate, decision, confident)))
    BY <2>2 DEF Honoured, ProposeCall, ProposalRecord
  <2> QED BY <2>1, <2>3
<1>2. CASE ~ BeginPropose(c)
  <2>1. \E r : r.op # "propose" /\ call' = [call EXCEPT ![c] = r]
    BY <1>2 DEF GovernanceStep, CommitAutoApply, CommitStage, SetImportance, BeginApprove,
                BeginReject, BeginDecide, CommitApprove, CommitReject, Start, Return, Idle
  <2> QED BY <2>1 DEF Honoured
<1> QED BY <1>1, <1>2

(* Every step of the composition keeps what the policy decided.              *)
LEMMA PolicyHonouredInductive ==
  ASSUME GovernanceTypeOK, PolicyHonoured, [GovernanceNext]_vars
  PROVE  PolicyHonoured'
<1>1. DOMAIN call = Clients
  BY DEF GovernanceTypeOK
<1>2. ASSUME NEW c \in Clients, GovernanceStep(c)
      PROVE  PolicyHonoured'
  BY <1>1, <1>2, CallStaysHonoured, GovernanceStepHonoured
<1>3. ASSUME NEW c \in Clients, StoreStep(c)
      PROVE  PolicyHonoured'
  <2>1. \E r \in StoreCall : call' = [call EXCEPT ![c] = r]
    <3>1. CASE call[c] \in StoreCall
      BY <1>3, <3>1, StoreStepType DEF GovernanceTypeOK
    <3>2. CASE call[c] \notin StoreCall
      BY <1>3, <3>2, GovernanceCallFields, StoreStepOfOtherCall
      DEF GovernanceTypeOK, Abort, Return, StoreCall
    <3> QED BY <3>1, <3>2
  <2>2. \A r \in StoreCall : Honoured(r)
    BY DEF StoreCall, Idle, Honoured
  <2> QED BY <1>1, <2>1, <2>2, CallStaysHonoured
<1>4. CASE Tick \/ UNCHANGED vars
  BY <1>4 DEF Tick, vars, PolicyHonoured, Honoured
<1> QED BY <1>2, <1>3, <1>4 DEF GovernanceNext, Next

(* An automatic write under the policy leaves restricted rows alone.         *)
LEMMA AutoApplyLeavesRestricted ==
  ASSUME TablesTypeOK, ReferentialClosure, NEW c \in Clients, WellFormed(call[c]),
         Honoured(call[c]), CommitAutoApply(c), NEW i \in Ids,
         IsRestricted(rows[i]) \/ IsRestricted(rows'[i])
  PROVE  rows'[i] = rows[i]
<1> DEFINE record == call[c].record
<1>1. /\ record \in Proposal
      /\ record.candidate \in Primitive
      /\ record.candidate.sensitivity # Restricted
  BY DEF CommitAutoApply, Honoured, Proposal, WellFormed
<1>2. rows \in [Ids -> Primitive \cup {None}]
  BY DEF TablesTypeOK, MemoryTypeOK
<1>3. CASE record.decision = "CREATE"
  <2>1. InsertRows(record.candidate)
    BY <1>3 DEF CommitAutoApply, ExecuteAtomicMutation, CreateFrom
  <2>2. record.candidate.id \in Ids /\ record.candidate.id \notin registry
    BY <1>1, <2>1 DEF InsertRows, KeyIsFree, Primitive, Fields
  <2>3. rows[record.candidate.id] = None
    BY <2>2, StoredIsRegistered
  <2> QED BY <1>1, <1>2, <2>1, <2>2, <2>3 DEF InsertRows, IsRestricted
<1>4. CASE record.decision # "CREATE"
  <2> DEFINE t == record.target
             persisted == Mutated(rows[t], record.candidate, record.decision)
  <2>1. /\ t \in Ids
        /\ rows[t] # None
        /\ Mutable(rows[t], record.candidate)
        /\ UpdateRows(persisted, record.expected)
    BY <1>1, <1>4 DEF CommitAutoApply, ExecuteAtomicMutation, MutateFrom, Proposal
  <2>2. rows[t] \in Primitive /\ rows[t].id = t /\ clock \in Nat
    BY <2>1, BoundAssumption DEF TablesTypeOK, MemoryTypeOK
  <2>3. rows[t].sensitivity # Restricted
    BY <1>1, <2>1 DEF Mutable
  <2>4. persisted.id = t
    BY <1>1, <2>1, <2>2, MutatedType
  <2>5. rows' = [rows EXCEPT ![t] = [@ EXCEPT !.claim = persisted.claim,
                                               !.detail = persisted.detail,
                                               !.status = persisted.status,
                                               !.updated_at = persisted.updated_at]]
    BY <2>1, <2>4 DEF UpdateRows
  <2>6. rows'[t].sensitivity = rows[t].sensitivity
    <3> HIDE DEF persisted
    <3> QED BY <1>2, <2>1, <2>2, <2>5 DEF Primitive, Fields
  <2>7. i # t
    BY <2>3, <2>6 DEF IsRestricted
  <2> QED
    <3> HIDE DEF persisted
    <3> QED BY <1>2, <2>5, <2>7
<1> QED BY <1>3, <1>4

(* No automatic write ever creates, changes or replaces a restricted memory. *)
THEOREM RestrictedNeedsAUser == GovernanceSpec => AgentsLeaveRestrictedAlone
<1>1. Init => PolicyHonoured
  BY DEF Init, PolicyHonoured, Honoured, Idle
<1>2. GovernanceTypeOK /\ PolicyHonoured /\ [GovernanceNext]_vars => PolicyHonoured'
  BY PolicyHonouredInductive
<1>3. GovernanceTypeOK /\ ReferentialClosure /\ PolicyHonoured =>
        \A c \in Clients : CommitAutoApply(c) =>
          \A i \in Ids : IsRestricted(rows[i]) \/ IsRestricted(rows'[i]) => rows'[i] = rows[i]
  BY GovernanceCallFields, AutoApplyLeavesRestricted DEF GovernanceTypeOK, PolicyHonoured
<1> QED BY <1>1, <1>2, <1>3, GovernanceTypeCorrect, GovernanceReferencesResolve, PTL
        DEF GovernanceSpec, AgentsLeaveRestrictedAlone

-----------------------------------------------------------------------------
(* Decisions.                                                              *)

(* constructMutation says what the proposal says, in the candidate's tier.   *)
LEMMA MutatedIsWrittenFrom ==
  ASSUME clock \in Nat, NEW record \in Proposal, NEW target \in Primitive,
         Mutable(target, record.candidate), record.decision # "CREATE"
  PROVE  LET persisted == Mutated(target, record.candidate, record.decision)
         IN  /\ WrittenFrom(record, persisted)
             /\ persisted.sensitivity = record.candidate.sensitivity
             /\ record.decision = "MERGE" => persisted.claim = target.claim
BY DEF Mutated, Mutable, WrittenFrom, Proposal, Primitive, Fields

(* What executeAtomicMutationTransaction writes, and that it audits it.      *)
LEMMA ExecutedAsProposed ==
  ASSUME TablesTypeOK, NEW p \in ProposalIds, NEW record \in Proposal,
         NEW operation \in Writes, NEW initiator \in {"system", "user"},
         ExecuteAtomicMutation(p, record, operation, initiator)
  PROVE  \E written \in Primitive :
           /\ WrittenFrom(record, written)
           /\ written.id = PersistedId(record)
           /\ written.sensitivity = record.candidate.sensitivity
           /\ record.decision = "MERGE" => written.claim = rows[PersistedId(record)].claim
           /\ rows' = [rows EXCEPT ![written.id] = written]
           /\ Audit(operation, initiator, written)
<1>1. record.candidate \in Primitive
  BY DEF Proposal
<1>2. CASE record.decision = "CREATE"
  <2>1. /\ WrittenFrom(record, record.candidate)
        /\ record.candidate.id = PersistedId(record)
    BY <1>2 DEF WrittenFrom, PersistedId
  <2>2. /\ rows' = [rows EXCEPT ![record.candidate.id] = record.candidate]
        /\ Audit(operation, initiator, record.candidate)
    BY <1>2 DEF ExecuteAtomicMutation, CreateFrom, InsertRows
  <2> QED BY <1>1, <1>2, <2>1, <2>2
<1>3. CASE record.decision # "CREATE"
  <2> DEFINE target == rows[record.target]
             persisted == Mutated(target, record.candidate, record.decision)
  <2>1. /\ record.target \in Ids
        /\ target # None
        /\ Mutable(target, record.candidate)
        /\ UpdateRows(persisted, record.expected)
        /\ Audit(operation, initiator, persisted)
    BY <1>3 DEF ExecuteAtomicMutation, MutateFrom, Proposal
  <2>2. target \in Primitive /\ target.id = record.target /\ clock \in Nat
    BY <2>1, BoundAssumption DEF TablesTypeOK, MemoryTypeOK
  <2>3. /\ persisted \in Primitive /\ persisted.id = record.target
        /\ persisted.created_at = target.created_at
    BY <1>1, <2>1, <2>2, MutatedType
  <2>4. /\ WrittenFrom(record, persisted)
        /\ persisted.sensitivity = record.candidate.sensitivity
        /\ record.decision = "MERGE" => persisted.claim = target.claim
    BY <1>3, <2>1, <2>2, MutatedIsWrittenFrom
  <2>5. PersistedId(record) = record.target
    BY <1>3 DEF PersistedId
  <2> HIDE DEF persisted
  <2>6. rows' = [rows EXCEPT ![persisted.id] = persisted]
    BY <2>1, <2>3, UpdateRowsStores
  <2> QED BY <2>1, <2>3, <2>4, <2>5, <2>6
<1> QED BY <1>2, <1>3

(* An approval stores what was proposed and nothing else.                    *)
LEMMA ApprovalStep ==
  ASSUME TablesTypeOK, NEW c \in Clients, WellFormed(call[c]), CommitApprove(c)
  PROVE  AppliesProposal(call[c].record)
<1> DEFINE record == call[c].record
<1>1. record \in Proposal /\ call[c].id \in ProposalIds
  BY DEF WellFormed, CommitApprove
<1>2. PICK written \in Primitive :
        /\ WrittenFrom(record, written)
        /\ written.id = PersistedId(record)
        /\ written.sensitivity = record.candidate.sensitivity
        /\ record.decision = "MERGE" => written.claim = rows[PersistedId(record)].claim
        /\ rows' = [rows EXCEPT ![written.id] = written]
  BY <1>1, ExecutedAsProposed DEF CommitApprove, Writes
<1>3. written.id \in Ids /\ written # None
  BY DraftAssumption DEF Primitive, Fields
<1>4. rows'[written.id] = written /\ \A j \in Ids \ {written.id} : rows'[j] = rows[j]
  BY <1>2, <1>3 DEF TablesTypeOK, MemoryTypeOK
<1> HIDE DEF record
<1> QED BY <1>2, <1>3, <1>4 DEF AppliesProposal, record

(* An approval takes effect as proposed, however long the proposal waited    *)
(* and whoever wrote meanwhile.                                              *)
THEOREM ApprovalsApply == GovernanceSpec => ApprovalAppliesProposal
<1>1. GovernanceTypeOK =>
        \A c \in Clients : CommitApprove(c) => AppliesProposal(call[c].record)
  BY GovernanceCallFields, ApprovalStep DEF GovernanceTypeOK
<1> QED BY <1>1, GovernanceTypeCorrect, PTL DEF GovernanceSpec, ApprovalAppliesProposal

(* The ledger only grows.                                                    *)
LedgerGrows ==
  /\ Len(audit_log') \in Nat /\ Len(audit_log) <= Len(audit_log')
  /\ \A k \in 1 .. Len(audit_log) : audit_log'[k] = audit_log[k]

LEMMA LedgerOnlyGrows ==
  ASSUME audit_log \in Seq(AuditRecord(AuditEvent)), UNCHANGED audit_log \/ Appends
  PROVE  LedgerGrows
<1>1. CASE UNCHANGED audit_log
  BY <1>1 DEF LedgerGrows
<1>2. CASE Appends
  BY <1>2, AppendedRow DEF LedgerGrows, Appends
<1> QED BY <1>1, <1>2

(* So what was on file stays on file ...                                     *)
LEMMA DecisionStaysAudited ==
  ASSUME Len(audit_log) \in Nat, LedgerGrows, NEW record, DecisionAudited(record)
  PROVE  DecisionAudited(record)'
<1>1. ASSUME NEW operation, NEW initiator, NEW i
      PROVE  AuditedContents(operation, initiator, i)
               \subseteq AuditedContents(operation, initiator, i)'
  <2>1. \A k \in 1 .. Len(audit_log) : k \in 1 .. Len(audit_log') /\ audit_log'[k] = audit_log[k]
    BY DEF LedgerGrows
  <2> QED BY <2>1 DEF AuditedContents
<1> QED BY <1>1 DEF DecisionAudited, CandidateAudited, WriteAudited, PersistedId

(* ... and what is audited is on file.                                       *)
LEMMA AuditIsOnFile ==
  ASSUME audit_log \in Seq(AuditRecord(AuditEvent)),
         NEW operation \in {"CREATE", "UPDATE", "MERGE",
                            "proposal_created", "user_approval", "user_rejection"},
         NEW initiator \in {"human_user", "system", "user"},
         NEW p \in Primitive, Audit(operation, initiator, p)
  PROVE  p \in AuditedContents(operation, initiator, p.id)'
<1> DEFINE event == [ primitive_id       |-> p.id,
                      operation_type     |-> operation,
                      initiator          |-> initiator,
                      primitive_jcs_hash |-> JCSHash(p) ]
<1>1. event \in AuditEvent
  BY DEF AuditEvent, JCSHash, Primitive, Fields
<1>2. audit_log' = AppendAuditRecord(audit_log, event)
  BY DEF Audit
<1>3. /\ Len(audit_log) + 1 \in 1 .. Len(audit_log')
      /\ audit_log'[Len(audit_log) + 1].event = event
  BY <1>1, <1>2, AppendedRow
<1> QED BY <1>3 DEF AuditedContents, JCSHash

(* The decision a call in flight is about to file.                           *)
Decided(r) ==
  /\ r.op = "propose" =>
       r.record.status = IF r.mode = "auto_apply" THEN "auto_applied" ELSE "pending"
  /\ r.op = "approve" => r.record.status = "approved"
  /\ r.op = "reject" => r.record.status = "rejected"

CallsDecided == \A c \in Clients : Decided(call[c])

(* A step that files nothing but what it audits keeps the files in order.    *)
LEMMA FilesInOrder ==
  ASSUME TablesTypeOK, DecisionsAudited, UNCHANGED audit_log \/ Appends,
         \A p \in ProposalIds : \/ proposals'[p] \in {None, proposals[p]}
                                \/ \E record : /\ proposals'[p] = record
                                               /\ DecisionAudited(record)'
  PROVE  DecisionsAudited'
<1>1. Len(audit_log) \in Nat /\ LedgerGrows
  BY LedgerOnlyGrows DEF TablesTypeOK
<1>2. ASSUME NEW p \in ProposalIds, proposals'[p] # None
      PROVE  DecisionAudited(proposals[p])'
  <2>1. PICK record : record = proposals'[p]
    OBVIOUS
  <2>2. DecisionAudited(record)'
    <3>1. CASE record = proposals[p]
      BY <1>1, <1>2, <2>1, <3>1, DecisionStaysAudited DEF DecisionsAudited
    <3>2. CASE record # proposals[p]
      BY <1>2, <2>1, <3>2
    <3> QED BY <3>1, <3>2
  <2> QED BY <2>1, <2>2 DEF DecisionAudited, CandidateAudited, WriteAudited, PersistedId,
                            AuditedContents
<1> QED BY <1>2 DEF DecisionsAudited

(* An atomic mutation files a decision with its audit row.                   *)
LEMMA ExecutionIsAudited ==
  ASSUME TablesTypeOK, NEW p \in ProposalIds, NEW record \in Proposal,
         NEW operation \in Writes, NEW initiator \in {"system", "user"},
         ExecuteAtomicMutation(p, record, operation, initiator),
         \/ /\ record.status = "approved"
            /\ operation = "user_approval" /\ initiator = "user"
         \/ /\ record.status = "auto_applied"
            /\ operation = record.decision /\ initiator = "system"
  PROVE  DecisionAudited(record)'
<1>1. PICK written \in Primitive :
        /\ WrittenFrom(record, written)
        /\ written.id = PersistedId(record)
        /\ Audit(operation, initiator, written)
  BY ExecutedAsProposed
<1>2. written \in AuditedContents(operation, initiator, PersistedId(record))'
  BY <1>1, AuditIsOnFile DEF TablesTypeOK, Writes
<1>3. WriteAudited(record, operation, initiator)'
  BY <1>1, <1>2 DEF WriteAudited, WrittenFrom, PersistedId
<1> QED BY <1>3 DEF DecisionAudited

(* No step of governance files a decision without its audit row.             *)
LEMMA GovernanceStepDecisions ==
  ASSUME TablesTypeOK, DecisionsAudited, NEW c \in Clients, WellFormed(call[c]),
         Decided(call[c]), GovernanceStep(c), UNCHANGED audit_log \/ Appends
  PROVE  DecisionsAudited'
<1> USE DEF tables
<1> DEFINE Filed(p, record) == /\ proposals' = [proposals EXCEPT ![p] = record]
                               /\ DecisionAudited(record)'
<1>1. ASSUME NEW p \in ProposalIds, NEW record, Filed(p, record)
      PROVE  DecisionsAudited'
  <2>1. \A q \in ProposalIds : \/ proposals'[q] \in {None, proposals[q]}
                               \/ \E r : proposals'[q] = r /\ DecisionAudited(r)'
    BY <1>1 DEF TablesTypeOK
  <2> QED BY <2>1, FilesInOrder
<1>2. CASE CommitAutoApply(c)
  <2>1. PICK record \in Proposal :
          /\ record = call[c].record
          /\ record.status = "auto_applied"
          /\ record.decision \in Writes
    BY <1>2 DEF WellFormed, Decided, CommitAutoApply, Proposal, Writes
  <2>2. PICK p \in ProposalIds : ExecuteAtomicMutation(p, record, record.decision, "system")
    BY <1>2, <2>1 DEF CommitAutoApply
  <2>3. DecisionAudited(record)'
    BY <2>1, <2>2, ExecutionIsAudited
  <2>4. Filed(p, record)
    BY <2>2, <2>3 DEF ExecuteAtomicMutation, SaveProposal
  <2> QED BY <1>1, <2>4
<1>3. CASE CommitApprove(c)
  <2>1. PICK record \in Proposal, p \in ProposalIds :
          /\ record = call[c].record /\ p = call[c].id
          /\ record.status = "approved"
    BY <1>3 DEF WellFormed, Decided, CommitApprove
  <2>2. ExecuteAtomicMutation(p, record, "user_approval", "user")
    BY <1>3, <2>1 DEF CommitApprove
  <2>3. DecisionAudited(record)'
    BY <2>1, <2>2, ExecutionIsAudited DEF Writes
  <2>4. Filed(p, record)
    BY <2>2, <2>3 DEF ExecuteAtomicMutation, SaveProposal
  <2> QED BY <1>1, <2>4
<1>4. CASE CommitStage(c) \/ CommitReject(c)
  <2>1. PICK record \in Proposal, p \in ProposalIds,
             operation \in {"proposal_created", "user_rejection"}, initiator \in {"system", "user"} :
          /\ \/ /\ record.status = "pending"
                /\ operation = "proposal_created" /\ initiator = "system"
             \/ /\ record.status = "rejected"
                /\ operation = "user_rejection" /\ initiator = "user"
          /\ SaveProposal(p, record)
          /\ Audit(operation, initiator, record.candidate)
    <3>1. CASE CommitStage(c)
      BY <3>1 DEF WellFormed, Decided, CommitStage
    <3>2. CASE CommitReject(c)
      BY <3>2 DEF WellFormed, Decided, CommitReject
    <3> QED BY <1>4, <3>1, <3>2
  <2>2. record.candidate \in Primitive
    BY DEF Proposal
  <2>3. record.candidate \in AuditedContents(operation, initiator, record.candidate.id)'
    BY <2>1, <2>2, AuditIsOnFile DEF TablesTypeOK
  <2>4. CandidateAudited(record, operation, initiator)'
    BY <2>3 DEF CandidateAudited
  <2>5. DecisionAudited(record)'
    BY <2>1, <2>4 DEF DecisionAudited
  <2>6. Filed(p, record)
    BY <2>1, <2>5 DEF SaveProposal
  <2> QED BY <1>1, <2>6
<1>5. CASE SetImportance(c) \/ BeginPropose(c) \/ BeginApprove(c) \/ BeginReject(c)
  <2>1. UNCHANGED proposals
    BY <1>5 DEF SetImportance, BeginPropose, BeginApprove, BeginReject, BeginDecide
  <2> QED BY <2>1, FilesInOrder
<1> QED BY <1>2, <1>3, <1>4, <1>5 DEF GovernanceStep

(* Nor does a call of the store.                                             *)
LEMMA StoreStepDecisions ==
  ASSUME TablesTypeOK, DecisionsAudited, NEW c \in Clients, StoreStep(c),
         UNCHANGED audit_log \/ Appends
  PROVE  DecisionsAudited'
<1>1. \A p \in ProposalIds : proposals'[p] \in {None, proposals[p]}
  <2>1. CASE CommitDelete(c) \/ CommitMerge(c)
    BY <2>1 DEF CommitDelete, CommitMerge, DeleteFromRegistry, ProposalsAfterDelete
  <2>2. CASE ~ (CommitDelete(c) \/ CommitMerge(c))
    BY <2>2 DEF StoreStep, BeginInsert, CommitInsert, BeginUpdate, CheckUpdate, CommitUpdate,
                BeginOnExisting, CommitArchive, CommitEmbed, BeginMerge, Abort, tables
  <2> QED BY <2>1, <2>2
<1> QED BY <1>1, FilesInOrder

(* A new call carries the status its commit files.                           *)
LEMMA GovernanceStepDecided ==
  ASSUME NEW c \in Clients, GovernanceStep(c), TablesTypeOK
  PROVE  \E r : Decided(r) /\ call' = [call EXCEPT ![c] = r]
<1>1. CASE BeginPropose(c)
  <2>1. PICK candidate, decision, target, mode :
          call' = [call EXCEPT ![c] = ProposeCall(candidate, decision, target, mode)]
    BY <1>1 DEF BeginPropose, Start
  <2>2. Decided(ProposeCall(candidate, decision, target, mode))
    BY DEF Decided, ProposeCall, ProposalRecord
  <2> QED BY <2>1, <2>2
<1>2. CASE BeginApprove(c) \/ BeginReject(c)
  <2>1. PICK p \in ProposalIds, operation \in {"approve", "reject"},
             status \in {"approved", "rejected"} :
          /\ proposals[p] # None
          /\ \/ operation = "approve" /\ status = "approved"
             \/ operation = "reject" /\ status = "rejected"
          /\ call' = [call EXCEPT ![c] =
               [op |-> operation, id |-> p, record |-> [proposals[p] EXCEPT !.status = status]]]
    BY <1>2 DEF BeginApprove, BeginReject, BeginDecide, Start
  <2>2. [proposals[p] EXCEPT !.status = status].status = status
    BY <2>1 DEF TablesTypeOK, Proposal
  <2> DEFINE r == [op |-> operation, id |-> p, record |-> [proposals[p] EXCEPT !.status = status]]
  <2>3. Decided(r)
    BY <2>1, <2>2 DEF Decided
  <2> HIDE DEF r
  <2> QED BY <2>1, <2>3 DEF r
<1>3. CASE ~ (BeginPropose(c) \/ BeginApprove(c) \/ BeginReject(c))
  <2>1. \E r : r.op \notin {"propose", "approve", "reject"} /\ call' = [call EXCEPT ![c] = r]
    BY <1>3 DEF GovernanceStep, CommitAutoApply, CommitStage, SetImportance, CommitApprove,
                CommitReject, Return, Idle
  <2> QED BY <2>1 DEF Decided
<1> QED BY <1>1, <1>2, <1>3

(* So does every call in flight, after any step.                            *)
LEMMA ComposedStepDecided ==
  ASSUME GovernanceTypeOK, CallsDecided, [GovernanceNext]_vars
  PROVE  CallsDecided'
<1>1. ASSUME NEW c \in Clients, NEW r, Decided(r), call' = [call EXCEPT ![c] = r]
      PROVE  CallsDecided'
  <2>1. ASSUME NEW d \in Clients PROVE Decided(call'[d])
    BY <1>1 DEF CallsDecided, GovernanceTypeOK
  <2> QED BY <2>1 DEF CallsDecided, Decided
<1>2. ASSUME NEW c \in Clients, GovernanceStep(c)
      PROVE  CallsDecided'
  BY <1>1, <1>2, GovernanceStepDecided DEF GovernanceTypeOK
<1>3. ASSUME NEW c \in Clients, StoreStep(c)
      PROVE  CallsDecided'
  <2>1. PICK r \in StoreCall : call' = [call EXCEPT ![c] = r]
    <3>1. CASE call[c] \in StoreCall
      BY <1>3, <3>1, StoreStepType DEF GovernanceTypeOK
    <3>2. CASE call[c] \notin StoreCall
      BY <1>3, <3>2, GovernanceCallFields, StoreStepOfOtherCall
      DEF GovernanceTypeOK, Abort, Return, StoreCall
    <3> QED BY <3>1, <3>2
  <2>2. Decided(r)
    BY DEF Decided, StoreCall, Idle
  <2> QED BY <1>1, <2>1, <2>2
<1>4. CASE Tick \/ UNCHANGED vars
  BY <1>4 DEF Tick, vars, CallsDecided, Decided
<1> QED BY <1>2, <1>3, <1>4 DEF GovernanceNext, Next

(* Whatever is on file of a decision, the ledger has its audit row: staged,  *)
(* rejected, approved or applied by the policy, whoever raced.               *)
THEOREM DecisionsAreAudited == GovernanceSpec => []DecisionsAudited
<1>1. Init => DecisionsAudited /\ CallsDecided
  BY DEF Init, DecisionsAudited, CallsDecided, Decided, Idle
<1>2. GovernanceTypeOK /\ CallsDecided /\ [GovernanceNext]_vars => CallsDecided'
  BY ComposedStepDecided
<1>3. GovernanceTypeOK /\ CallsDecided /\ DecisionsAudited /\ [GovernanceNext]_vars
        => DecisionsAudited'
  <2> SUFFICES ASSUME GovernanceTypeOK, CallsDecided, DecisionsAudited, [GovernanceNext]_vars
               PROVE  DecisionsAudited'
    OBVIOUS
  <2>1. TablesTypeOK /\ (UNCHANGED audit_log \/ Appends)
    BY ComposedStepType DEF GovernanceTypeOK
  <2>2. ASSUME NEW c \in Clients, GovernanceStep(c)
        PROVE  DecisionsAudited'
    <3>1. WellFormed(call[c]) /\ Decided(call[c])
      BY GovernanceCallFields DEF GovernanceTypeOK, CallsDecided
    <3> QED BY <2>1, <2>2, <3>1, GovernanceStepDecisions
  <2>3. ASSUME NEW c \in Clients, StoreStep(c)
        PROVE  DecisionsAudited'
    BY <2>1, <2>3, StoreStepDecisions
  <2>4. CASE Tick \/ UNCHANGED vars
    <3>1. UNCHANGED proposals
      BY <2>4 DEF Tick, vars, tables
    <3> QED BY <2>1, <3>1, FilesInOrder
  <2> QED BY <2>2, <2>3, <2>4 DEF GovernanceNext, Next
<1> QED BY <1>1, <1>2, <1>3, GovernanceTypeCorrect, PTL DEF GovernanceSpec

-----------------------------------------------------------------------------
(* The memory store with governance on top of it implements RecordedMemory. *)

(* A transaction of governance writes one row and audits it, or nothing.     *)
LEMMA ExecuteAtomicMutationSimulates ==
  ASSUME TablesTypeOK, NEW p \in ProposalIds, NEW record \in Proposal,
         NEW operation \in Writes, NEW initiator \in {"system", "user"},
         ExecuteAtomicMutation(p, record, operation, initiator)
  PROVE  Simulates
<1>1. record.candidate \in Primitive
  BY DEF Proposal
<1>2. CASE record.decision = "CREATE"
  <2>1. /\ rows' = [rows EXCEPT ![record.candidate.id] = record.candidate]
        /\ Audit(operation, initiator, record.candidate)
    BY <1>2 DEF ExecuteAtomicMutation, CreateFrom, InsertRows
  <2> QED BY <1>1, <2>1, WriteSimulates
<1>3. CASE record.decision # "CREATE"
  <2> DEFINE persisted == Mutated(rows[record.target], record.candidate, record.decision)
  <2>1. /\ record.target \in Ids
        /\ rows[record.target] # None
        /\ Mutable(rows[record.target], record.candidate)
        /\ UpdateRows(persisted, record.expected)
        /\ Audit(operation, initiator, persisted)
    BY <1>3 DEF ExecuteAtomicMutation, MutateFrom, Proposal
  <2>2. rows[record.target] \in Primitive /\ rows[record.target].id = record.target
        /\ clock \in Nat
    BY <2>1, BoundAssumption DEF TablesTypeOK, MemoryTypeOK
  <2>3. /\ persisted \in Primitive /\ persisted.id = record.target
        /\ persisted.created_at = rows[record.target].created_at
    BY <1>1, <2>1, <2>2, MutatedType
  <2> HIDE DEF persisted
  <2>4. rows' = [rows EXCEPT ![persisted.id] = persisted]
    BY <2>1, <2>3, UpdateRowsStores
  <2> QED BY <2>1, <2>3, <2>4, WriteSimulates
<1> QED BY <1>2, <1>3

(* Every step of governance is a step of the map or none.                    *)
LEMMA GovernanceStepSimulates ==
  ASSUME TablesTypeOK, NEW c \in Clients, WellFormed(call[c]), GovernanceStep(c)
  PROVE  Simulates
<1> USE DEF tables, memoryTables
<1>1. CASE CommitAutoApply(c)
  <2>1. call[c].record \in Proposal /\ call[c].record.decision \in Writes
    BY <1>1 DEF WellFormed, CommitAutoApply, Proposal, Writes
  <2> QED BY <1>1, <2>1, ExecuteAtomicMutationSimulates DEF CommitAutoApply
<1>2. CASE CommitApprove(c)
  <2>1. call[c].id \in ProposalIds /\ call[c].record \in Proposal
    BY <1>2 DEF WellFormed, CommitApprove
  <2> QED BY <1>2, <2>1, ExecuteAtomicMutationSimulates DEF CommitApprove, Writes
<1>3. CASE CommitStage(c) \/ CommitReject(c)
  <2>1. call[c].record.candidate \in Primitive
    BY <1>3 DEF WellFormed, CommitStage, CommitReject, Proposal
  <2> QED BY <1>3, <2>1, NoteSimulates DEF CommitStage, CommitReject, TablesTypeOK
<1>4. CASE SetImportance(c) \/ BeginPropose(c) \/ BeginApprove(c) \/ BeginReject(c)
  <2>1. UNCHANGED <<rows, audit_log>>
    BY <1>4 DEF SetImportance, BeginPropose, BeginApprove, BeginReject, BeginDecide
  <2> QED BY <2>1, RetirementSimulates
<1> QED BY <1>1, <1>2, <1>3, <1>4 DEF GovernanceStep

(* So is every step of the store next to governance.                         *)
LEMMA ComposedStepSimulates ==
  ASSUME GovernanceTypeOK, [GovernanceNext]_vars
  PROVE  Simulates
<1>1. CASE Tick \/ UNCHANGED vars
  <2>1. UNCHANGED <<rows, audit_log>>
    BY <1>1 DEF Tick, vars, tables, memoryTables
  <2> QED BY <2>1, RetirementSimulates
<1>2. ASSUME NEW c \in Clients, StoreStep(c)
      PROVE  Simulates
  <2>1. CASE call[c] \in StoreCall
    BY <1>2, <2>1, StoreStepSimulates DEF GovernanceTypeOK
  <2>2. CASE call[c] \notin StoreCall
    <3>1. Abort(c)
      BY <1>2, <2>2, GovernanceCallFields, StoreStepOfOtherCall DEF GovernanceTypeOK
    <3> QED BY <3>1, RetirementSimulates DEF Abort, tables, memoryTables
  <2> QED BY <2>1, <2>2
<1>3. ASSUME NEW c \in Clients, GovernanceStep(c)
      PROVE  Simulates
  BY <1>3, GovernanceCallFields, GovernanceStepSimulates DEF GovernanceTypeOK
<1> QED BY <1>1, <1>2, <1>3 DEF GovernanceNext, Next

-----------------------------------------------------------------------------
(* They still do when agents propose and users decide.                       *)
THEOREM GovernanceImplementsRecordedMemory == GovernanceSpec => ImplementsRecordedMemory
<1>1. GovernanceTypeOK /\ [GovernanceNext]_vars
        => [Recorded!Next]_<<ActiveMemory, LastRecorded>>
  BY ComposedStepSimulates DEF Simulates
<1> QED BY <1>1, InitSimulates, GovernanceTypeCorrect, PTL
        DEF GovernanceSpec, ImplementsRecordedMemory, Recorded!Spec

(* The same with proposals, automatic writes and approvals among the writes. *)
THEOREM LedgerExplainsGovernedStore == GovernanceSpec => []AuditMatchesStore
<1>1. GovernanceTypeOK /\ Recorded!LiveIsRecorded => AuditMatchesStore
  BY PromiseExplains DEF GovernanceTypeOK
<1> QED BY <1>1, GovernanceTypeCorrect, GovernanceImplementsRecordedMemory,
        LiveMemoryIsRecorded, PTL

-----------------------------------------------------------------------------
(* Calls.                                                                  *)

(* The fields a call of the engine carries, by what it does.                 *)
EngineFields(r) ==
  /\ r.op \in {"consolidate", "submit"} =>
       /\ r.source \in Primitive /\ r.action \in ConsolidationAction
       /\ r.target \in Ids \cup {None} /\ r.confident \in BOOLEAN
  /\ r.op \in {"submit", "rollback", "restore", "forget"} => r.lineage \in LineageIds
  /\ r.op \in {"rollback", "restore", "forget"} => r.source \in Primitive
  /\ r.op = "contradict" => r.a \in Ids /\ r.b \in Ids

LEMMA ConsolidationCallFields ==
  ASSUME NEW r \in ConsolidationCall
  PROVE  /\ WellFormed(r)
         /\ EngineFields(r)
         /\ r \notin StoreCall => r.op \notin StoreOperations
<1>1. CASE r \in GovernanceCall
  BY <1>1, GovernanceCallFields DEF EngineFields, GovernanceCall, StoreCall, Idle
<1>2. CASE r \notin GovernanceCall
  BY <1>2 DEF ConsolidationCall, WellFormed, EngineFields, StoreOperations
<1> QED BY <1>1, <1>2

-----------------------------------------------------------------------------
(* Steps, as the tables see them.                                          *)

(* A step of the store or of governance next to the engine.                  *)
LEMMA GovernedStep ==
  ASSUME TablesTypeOK, NEW c \in Clients, call[c] \in ConsolidationCall,
         StoreStep(c) \/ GovernanceStep(c)
  PROVE  /\ TablesTypeOK'
         /\ \E r \in GovernanceCall : call' = [call EXCEPT ![c] = r]
         /\ UNCHANGED audit_log \/ Appends
         /\ ReferentialClosure => ReferentialClosure'
         /\ Simulates
<1>1. CASE GovernanceStep(c)
  BY <1>1, ConsolidationCallFields, GovernanceStepType, GovernanceStepClosure,
     GovernanceStepSimulates
<1>2. CASE StoreStep(c) /\ call[c] \in StoreCall
  BY <1>2, StoreStepType, StoreStepAppends, StoreStepClosure, StoreStepSimulates
  DEF GovernanceCall
<1>3. CASE StoreStep(c) /\ call[c] \notin StoreCall
  <2>1. Abort(c)
    BY <1>3, ConsolidationCallFields, StoreStepOfOtherCall
  <2>2. UNCHANGED tables /\ call' = [call EXCEPT ![c] = Idle]
    BY <2>1 DEF Abort, Return
  <2>3. Idle \in GovernanceCall
    BY DEF GovernanceCall, StoreCall
  <2>4. TablesTypeOK'
    BY <2>1, <2>2 DEF Abort, tables, memoryTables, TablesTypeOK, MemoryTypeOK
  <2> QED BY <2>2, <2>3, <2>4, ClosureStutters, RetirementSimulates DEF tables, memoryTables
<1> QED BY <1>1, <1>2, <1>3

(* A step of the engine.                                                     *)
LEMMA EngineStep ==
  ASSUME TablesTypeOK, NEW c \in Clients, EngineFields(call[c]), ConsolidationStep(c)
  PROVE  /\ TablesTypeOK'
         /\ UNCHANGED audit_log \/ Appends
         /\ ReferentialClosure => ReferentialClosure'
         /\ Simulates
         /\ \A p \in ProposalIds : proposals'[p] \in {None, proposals[p]}
<1>1. CASE RollbackDelete(c)
  <2> DEFINE i == call[c].source.id
  <2>1. i \in Ids
    BY <1>1 DEF RollbackDelete, EngineFields, Primitive, Fields
  <2>2. /\ rows' = [j \in Ids |-> IF j = i \/ Touches(j, i) THEN None ELSE rows[j]]
        /\ DeleteFromRegistry(i)
        /\ UNCHANGED <<clock, audit_log>>
    BY <1>1 DEF RollbackDelete
  <2>3. TablesTypeOK'
    BY <2>1, <2>2, CascadeType DEF DeleteFromRegistry, TablesTypeOK, MemoryTypeOK
  <2>4. \A n \in Nodes : rows'[n] \in {rows[n], None}
    BY <2>2 DEF Nodes
  <2>5. \A p \in ProposalIds : proposals'[p] \in {None, proposals[p]}
    BY <2>2 DEF DeleteFromRegistry, ProposalsAfterDelete
  <2> QED BY <2>1, <2>2, <2>3, <2>4, <2>5, DeleteClosure, RetirementSimulates
<1>2. CASE RestoreSnapshot(c) /\ InsertRows(call[c].source)
                              /\ Audit("CREATE", "human_user", call[c].source)
  <2>1. call[c].source \in Primitive /\ UNCHANGED <<clock, proposals>>
    BY <1>2 DEF RestoreSnapshot, EngineFields
  <2>2. TablesTypeOK'
    BY <1>2, <2>1, InsertRowsType, AuditType DEF TablesTypeOK
  <2>3. Appends
    BY <1>2, <2>1, AuditAppends
  <2>4. ReferentialClosure => ReferentialClosure'
    <3> SUFFICES ASSUME ReferentialClosure PROVE ReferentialClosure'
      OBVIOUS
    <3>1. \A q \in ProposalIds : proposals'[q] # None =>
            proposals'[q].target \in registry' \cup {None}
      BY <1>2, <2>1 DEF InsertRows, ReferentialClosure, NotesClosed, Registered
    <3> QED BY <1>2, <2>1, <3>1, InsertRowsClosure
  <2>5. Simulates
    BY <1>2, <2>1, WriteSimulates DEF InsertRows, Writes
  <2> QED BY <2>1, <2>2, <2>3, <2>4, <2>5
<1>3. CASE ~ RollbackDelete(c)
           /\ ~ (RestoreSnapshot(c) /\ InsertRows(call[c].source)
                                    /\ Audit("CREATE", "human_user", call[c].source))
  <2>1. UNCHANGED <<clock, tables>>
    BY <1>3 DEF ConsolidationStep, BeginContradict, RecordContradiction, ResolveContradiction,
                BeginConsolidate, RecordLineage, SubmitConsolidation, BeginRollback,
                RestoreSnapshot, ForgetLineage, tables
  <2>2. TablesTypeOK'
    BY <2>1 DEF tables, memoryTables, TablesTypeOK, MemoryTypeOK
  <2> QED BY <2>1, <2>2, ClosureStutters, RetirementSimulates DEF tables, memoryTables
<1> QED BY <1>1, <1>2, <1>3

-----------------------------------------------------------------------------
(* Types.                                                                  *)

EngineTypeOK ==
  /\ lineage \in [LineageIds -> Snapshot \cup {None}]
  /\ contradictions \in [ContradictionIds -> Contradiction \cup {None}]

(* proposeConsolidation hands governance a well-formed record, filed as the  *)
(* policy decided.                                                           *)
LEMMA SubmittedCallType ==
  ASSUME TablesTypeOK, NEW c \in Clients, EngineFields(call[c]), SubmitConsolidation(c)
  PROVE  \E r \in ConsolidationCall : Decided(r) /\ call' = [call EXCEPT ![c] = r]
<1> DEFINE candidate == call[c].source
           target == call[c].target
           decision == ConsolidationDecision(call[c].action, target)
           mode == Policy(candidate, decision, call[c].confident)
           record == ProposalRecord(candidate, decision, target, mode)
           r == [op |-> "propose", mode |-> mode, lineage |-> call[c].lineage, record |-> record]
<1>1. /\ candidate \in Primitive /\ target \in Ids \cup {None} /\ call[c].lineage \in LineageIds
  BY DEF SubmitConsolidation, EngineFields
<1>2. decision \in Decision /\ mode \in Mode
  BY DEF ConsolidationDecision, Decision, Policy, Mode
<1>3. call' = [call EXCEPT ![c] = r]
  BY DEF SubmitConsolidation
<1>4. record \in Proposal
  <2> HIDE DEF candidate, target, decision, mode
  <2>1. ProposeCall(candidate, decision, target, mode) \in GovernanceCall
    BY <1>1, <1>2, ProposeCallType
  <2>2. WellFormed(ProposeCall(candidate, decision, target, mode))
    BY <2>1, GovernanceCallFields
  <2> QED BY <2>2 DEF WellFormed, ProposeCall
<1>5. record.status = IF mode = "auto_apply" THEN "auto_applied" ELSE "pending"
  BY DEF ProposalRecord
<1> HIDE DEF candidate, target, decision, mode, record
<1>6. r \in ConsolidationCall /\ Decided(r)
  BY <1>1, <1>2, <1>4, <1>5 DEF ConsolidationCall, Decided
<1> QED BY <1>3, <1>6

(* A step of the engine keeps its tables and its calls well-formed.          *)
LEMMA EngineStepType ==
  ASSUME TablesTypeOK, EngineTypeOK, NEW c \in Clients, call \in [Clients -> ConsolidationCall],
         Decided(call[c]), ConsolidationStep(c)
  PROVE  /\ EngineTypeOK'
         /\ \E r \in ConsolidationCall : Decided(r) /\ call' = [call EXCEPT ![c] = r]
<1> DEFINE Sets(r) == call' = [call EXCEPT ![c] = r]
<1>0. EngineFields(call[c])
  BY ConsolidationCallFields
<1>1. Idle \in ConsolidationCall /\ Decided(Idle)
  BY DEF ConsolidationCall, GovernanceCall, StoreCall, Decided, Idle
<1>2. UNCHANGED <<lineage, contradictions>> => EngineTypeOK'
  BY DEF EngineTypeOK
<1>3. CASE BeginContradict(c)
  <2>1. PICK i \in Ids, j \in Ids : Sets([op |-> "contradict", a |-> i, b |-> j])
    BY <1>3 DEF BeginContradict, Start
  <2>2. [op |-> "contradict", a |-> i, b |-> j] \in ConsolidationCall
    BY DEF ConsolidationCall
  <2> QED BY <1>2, <1>3, <2>1, <2>2 DEF BeginContradict, Decided
<1>4. CASE RecordContradiction(c)
  <2>1. call[c].a \in Ids /\ call[c].b \in Ids
    BY <1>0, <1>4 DEF RecordContradiction, EngineFields
  <2>2. [a |-> call[c].a, b |-> call[c].b, status |-> "detected"] \in Contradiction
    BY <2>1 DEF Contradiction
  <2> QED BY <1>1, <1>4, <2>2 DEF RecordContradiction, Return, EngineTypeOK
<1>5. CASE ResolveContradiction(c)
  <2>1. PICK k \in ContradictionIds :
          /\ contradictions[k] # None
          /\ contradictions' = [contradictions EXCEPT ![k].status = "resolved"]
    BY <1>5 DEF ResolveContradiction
  <2>2. [contradictions[k] EXCEPT !.status = "resolved"] \in Contradiction
    BY <2>1 DEF EngineTypeOK, Contradiction
  <2>3. Sets(call[c]) /\ UNCHANGED lineage
    BY <1>5 DEF ResolveContradiction
  <2> QED BY <2>1, <2>2, <2>3 DEF EngineTypeOK
<1>6. CASE BeginConsolidate(c)
  <2>1. PICK i \in Ids, target \in Ids \cup {None}, action \in ConsolidationAction,
             confident \in BOOLEAN :
          /\ rows[i] # None
          /\ Sets([op |-> "consolidate", source |-> rows[i], action |-> action,
                   target |-> target, confident |-> confident])
    BY <1>6 DEF BeginConsolidate, Start
  <2>2. rows[i] \in Primitive
    BY <2>1 DEF TablesTypeOK, MemoryTypeOK
  <2>3. [op |-> "consolidate", source |-> rows[i], action |-> action,
         target |-> target, confident |-> confident] \in ConsolidationCall
    BY <2>2 DEF ConsolidationCall
  <2> QED BY <1>2, <1>6, <2>1, <2>3 DEF BeginConsolidate, Decided
<1>7. CASE RecordLineage(c)
  <2>1. PICK l \in LineageIds :
          /\ lineage' = [lineage EXCEPT ![l] =
                           [source |-> call[c].source, target |-> call[c].target]]
          /\ Sets([op |-> "submit", source |-> call[c].source, action |-> call[c].action,
                   target |-> call[c].target, confident |-> call[c].confident, lineage |-> l])
    BY <1>7 DEF RecordLineage
  <2>2. /\ call[c].source \in Primitive /\ call[c].target \in Ids \cup {None}
        /\ call[c].action \in ConsolidationAction /\ call[c].confident \in BOOLEAN
    BY <1>0, <1>7 DEF RecordLineage, EngineFields
  <2>3. [op |-> "submit", source |-> call[c].source, action |-> call[c].action,
         target |-> call[c].target, confident |-> call[c].confident, lineage |-> l]
          \in ConsolidationCall
    BY <2>2 DEF ConsolidationCall
  <2>4. [source |-> call[c].source, target |-> call[c].target] \in Snapshot
    BY <2>2 DEF Snapshot
  <2> QED BY <1>7, <2>1, <2>3, <2>4 DEF RecordLineage, EngineTypeOK, Decided
<1>8. CASE SubmitConsolidation(c)
  BY <1>0, <1>2, <1>8, SubmittedCallType DEF SubmitConsolidation
<1>9. CASE BeginRollback(c)
  <2>1. PICK l \in LineageIds :
          lineage[l] # None /\ Sets(RollbackCall("rollback", l, lineage[l].source))
    BY <1>9 DEF BeginRollback, Start
  <2>2. lineage[l].source \in Primitive
    BY <2>1 DEF EngineTypeOK, Snapshot
  <2>3. RollbackCall("rollback", l, lineage[l].source) \in ConsolidationCall
    BY <2>2 DEF RollbackCall, ConsolidationCall
  <2> QED BY <1>2, <1>9, <2>1, <2>3 DEF BeginRollback, RollbackCall, Decided
<1>10. ASSUME NEW op \in {"rollback", "restore"}, NEW next \in {"restore", "forget"},
              call[c].op = op, call' = [call EXCEPT ![c].op = next]
       PROVE  \E r \in ConsolidationCall : Decided(r) /\ Sets(r)
  <2>1. call[c] \in [op : {"rollback", "restore", "forget"}, lineage : LineageIds,
                     source : Primitive]
    BY <1>10 DEF ConsolidationCall, GovernanceCall, StoreCall, Idle
  <2>2. [call[c] EXCEPT !.op = next] \in ConsolidationCall
    BY <2>1 DEF ConsolidationCall
  <2>3. Decided([call[c] EXCEPT !.op = next])
    BY <2>1 DEF Decided
  <2> QED BY <1>10, <2>2, <2>3
<1>11. CASE RollbackDelete(c)
  BY <1>10, <1>11 DEF RollbackDelete, ContradictionsCascade, EngineTypeOK
<1>12. CASE RestoreSnapshot(c)
  BY <1>2, <1>10, <1>12 DEF RestoreSnapshot
<1>13. CASE ForgetLineage(c)
  BY <1>1, <1>13 DEF ForgetLineage, Return, EngineTypeOK
<1> QED BY <1>3, <1>4, <1>5, <1>6, <1>7, <1>8, <1>9, <1>11, <1>12, <1>13 DEF ConsolidationStep

(* Next to the engine, too, a call carries the status its commit files.      *)
LEMMA GovernedStepDecided ==
  ASSUME TablesTypeOK, NEW c \in Clients, call[c] \in ConsolidationCall,
         StoreStep(c) \/ GovernanceStep(c)
  PROVE  \E r : Decided(r) /\ call' = [call EXCEPT ![c] = r]
<1>1. CASE GovernanceStep(c)
  BY <1>1, GovernanceStepDecided
<1>2. CASE StoreStep(c)
  <2>1. \E r \in StoreCall : call' = [call EXCEPT ![c] = r]
    <3>1. CASE call[c] \in StoreCall
      BY <1>2, <3>1, StoreStepType
    <3>2. CASE call[c] \notin StoreCall
      BY <1>2, <3>2, ConsolidationCallFields, StoreStepOfOtherCall DEF Abort, Return, StoreCall
    <3> QED BY <3>1, <3>2
  <2> QED BY <2>1 DEF Decided, StoreCall, Idle
<1> QED BY <1>1, <1>2

(* What every step of the composition keeps and does.                        *)
LEMMA ConsolidationStepKeeps ==
  ASSUME ConsolidationTypeOK, CallsDecided, [ConsolidationNext]_consolidationVars
  PROVE  /\ ConsolidationTypeOK' /\ CallsDecided'
         /\ ReferentialClosure => ReferentialClosure'
         /\ DecisionsAudited => DecisionsAudited'
         /\ Simulates
<1> DEFINE Kept == /\ ConsolidationTypeOK' /\ CallsDecided'
                   /\ ReferentialClosure => ReferentialClosure'
                   /\ DecisionsAudited => DecisionsAudited'
                   /\ Simulates
<1>1. TablesTypeOK /\ EngineTypeOK
  BY DEF ConsolidationTypeOK, EngineTypeOK
<1>2. ASSUME NEW c \in Clients, NEW r, Decided(r), call' = [call EXCEPT ![c] = r]
      PROVE  CallsDecided'
  <2>1. ASSUME NEW d \in Clients PROVE Decided(call'[d])
    BY <1>2 DEF CallsDecided, ConsolidationTypeOK
  <2> QED BY <2>1 DEF CallsDecided, Decided
<1>3. ContradictionsCascade /\ UNCHANGED lineage => EngineTypeOK'
  BY <1>1 DEF ContradictionsCascade, EngineTypeOK
<1>4. ASSUME NEW c \in Clients, StoreStep(c) \/ GovernanceStep(c), EngineTypeOK'
      PROVE  Kept
  <2>1. call[c] \in ConsolidationCall /\ Decided(call[c])
    BY DEF ConsolidationTypeOK, CallsDecided
  <2>2. /\ TablesTypeOK'
        /\ \E r \in GovernanceCall : call' = [call EXCEPT ![c] = r]
        /\ UNCHANGED audit_log \/ Appends
        /\ ReferentialClosure => ReferentialClosure'
        /\ Simulates
    BY <1>1, <1>4, <2>1, GovernedStep
  <2>3. ConsolidationTypeOK'
    BY <1>4, <2>2 DEF ConsolidationTypeOK, EngineTypeOK, ConsolidationCall
  <2>4. CallsDecided'
    BY <1>1, <1>2, <1>4, <2>1, GovernedStepDecided
  <2>5. DecisionsAudited => DecisionsAudited'
    BY <1>1, <1>4, <2>1, <2>2, ConsolidationCallFields, GovernanceStepDecisions, StoreStepDecisions
  <2> QED BY <2>2, <2>3, <2>4, <2>5
<1>5. ASSUME UNCHANGED <<clock, tables, call>> \/ Tick, EngineTypeOK'
      PROVE  Kept
  <2>1. UNCHANGED <<tables, call>> /\ TablesTypeOK'
    BY <1>1, <1>5, TickType
    DEF Tick, tables, memoryTables, TablesTypeOK, MemoryTypeOK
  <2>2. CallsDecided'
    BY <2>1 DEF CallsDecided, Decided
  <2>3. DecisionsAudited => DecisionsAudited'
    BY <1>1, <2>1, FilesInOrder DEF tables
  <2>4. /\ ReferentialClosure => ReferentialClosure'
        /\ Simulates
    BY <2>1, ClosureStutters, RetirementSimulates DEF tables, memoryTables
  <2>5. ConsolidationTypeOK'
    BY <1>5, <2>1 DEF ConsolidationTypeOK, EngineTypeOK
  <2> QED BY <2>2, <2>3, <2>4, <2>5
<1>6. ASSUME NEW c \in Clients, ConsolidationStep(c)
      PROVE  Kept
  <2>1. call[c] \in ConsolidationCall /\ Decided(call[c])
    BY DEF ConsolidationTypeOK, CallsDecided
  <2>2. /\ TablesTypeOK'
        /\ UNCHANGED audit_log \/ Appends
        /\ ReferentialClosure => ReferentialClosure'
        /\ Simulates
        /\ \A p \in ProposalIds : proposals'[p] \in {None, proposals[p]}
    BY <1>1, <1>6, <2>1, ConsolidationCallFields, EngineStep
  <2>3. PICK r \in ConsolidationCall : Decided(r) /\ call' = [call EXCEPT ![c] = r]
    BY <1>1, <1>6, <2>1, EngineStepType DEF ConsolidationTypeOK
  <2>4. EngineTypeOK'
    BY <1>1, <1>6, <2>1, EngineStepType DEF ConsolidationTypeOK
  <2>5. ConsolidationTypeOK'
    BY <2>2, <2>3, <2>4 DEF ConsolidationTypeOK, EngineTypeOK
  <2>6. CallsDecided'
    BY <1>2, <2>3
  <2>7. DecisionsAudited => DecisionsAudited'
    BY <1>1, <2>2, FilesInOrder
  <2> QED BY <2>2, <2>5, <2>6, <2>7
<1>7. CASE GovernanceNext /\ ContradictionsCascade /\ UNCHANGED lineage
  BY <1>3, <1>4, <1>5, <1>7 DEF GovernanceNext, Next
<1>8. CASE UNCHANGED consolidationVars
  BY <1>1, <1>5, <1>8 DEF consolidationVars, vars, EngineTypeOK
<1> QED BY <1>6, <1>7, <1>8 DEF ConsolidationNext

-----------------------------------------------------------------------------
(* Types of the composition, and the status each call in flight will file.   *)
LEMMA ConsolidationInvariant == ConsolidationSpec => [](ConsolidationTypeOK /\ CallsDecided)
<1>1. ConsolidationInit => ConsolidationTypeOK /\ CallsDecided
  <2> SUFFICES ASSUME ConsolidationInit PROVE ConsolidationTypeOK /\ CallsDecided
    OBVIOUS
  <2>1. TablesTypeOK
    BY BoundAssumption DEF ConsolidationInit, Init, TablesTypeOK, MemoryTypeOK
  <2>2. call \in [Clients -> ConsolidationCall]
    BY DEF ConsolidationInit, Init, ConsolidationCall, GovernanceCall, StoreCall
  <2> QED BY <2>1, <2>2 DEF ConsolidationInit, Init, ConsolidationTypeOK, CallsDecided,
                            Decided, Idle
<1>2. ConsolidationTypeOK /\ CallsDecided /\ [ConsolidationNext]_consolidationVars
        => ConsolidationTypeOK' /\ CallsDecided'
  BY ConsolidationStepKeeps
<1> QED BY <1>1, <1>2, PTL DEF ConsolidationSpec

(* Types of the engine's tables and calls.                                   *)
THEOREM ConsolidationTypeCorrect == ConsolidationSpec => []ConsolidationTypeOK
BY ConsolidationInvariant, PTL

-----------------------------------------------------------------------------
(* References.                                                             *)

(* A step adds contradictions between registered primitives only, and takes  *)
(* those along whose primitives it deregisters.                              *)
LEMMA ContradictionsStayClosed ==
  ASSUME ConsolidationTypeOK, CallsDecided, ContradictionsClosed,
         [ConsolidationNext]_consolidationVars
  PROVE  ContradictionsClosed'
<1> DEFINE Names(k) == contradictions[k] # None =>
                         {contradictions[k].a, contradictions[k].b} \subseteq registry
<1>1. ReferentialClosure'
  BY ConsolidationStepKeeps DEF ContradictionsClosed
<1>2. \A k \in ContradictionIds : Names(k)
  BY DEF ContradictionsClosed
<1>3. CASE ContradictionsCascade
  BY <1>1, <1>3 DEF ContradictionsCascade, ContradictionsClosed
<1>4. CASE UNCHANGED contradictions /\ registry \subseteq registry'
  BY <1>1, <1>2, <1>4 DEF ContradictionsClosed
<1>5. ASSUME NEW c \in Clients, ConsolidationStep(c)
      PROVE  ContradictionsClosed'
  <2>1. CASE RecordContradiction(c)
    <3>1. call[c].a \in Ids /\ call[c].b \in Ids
      BY <2>1, ConsolidationCallFields DEF ConsolidationTypeOK, RecordContradiction, EngineFields
    <3>2. call[c].a \in registry /\ call[c].b \in registry /\ UNCHANGED registry
      BY <2>1, <3>1, DraftAssumption DEF RecordContradiction, Registered, tables, memoryTables
    <3> QED BY <1>1, <1>2, <2>1, <3>2
            DEF RecordContradiction, ContradictionsClosed, ConsolidationTypeOK
  <2>2. CASE ResolveContradiction(c)
    <3>1. UNCHANGED registry
      BY <2>2 DEF ResolveContradiction, tables, memoryTables
    <3>2. PICK k \in ContradictionIds :
            /\ contradictions[k] # None
            /\ contradictions' = [contradictions EXCEPT ![k].status = "resolved"]
      BY <2>2 DEF ResolveContradiction
    <3>3. /\ contradictions[k] \in Contradiction
          /\ contradictions \in [ContradictionIds -> Contradiction \cup {None}]
      BY <3>2 DEF ConsolidationTypeOK
    <3>4. /\ contradictions'[k].a = contradictions[k].a
          /\ contradictions'[k].b = contradictions[k].b
          /\ \A m \in ContradictionIds \ {k} : contradictions'[m] = contradictions[m]
      BY <3>2, <3>3 DEF Contradiction
    <3> QED BY <1>1, <1>2, <3>1, <3>2, <3>4 DEF ContradictionsClosed
  <2>3. CASE RollbackDelete(c)
    BY <1>3, <2>3 DEF RollbackDelete
  <2>4. CASE RestoreSnapshot(c)
    BY <1>4, <2>4 DEF RestoreSnapshot, InsertRows, memoryTables
  <2>5. CASE BeginContradict(c) \/ BeginConsolidate(c) \/ RecordLineage(c)
             \/ SubmitConsolidation(c) \/ BeginRollback(c) \/ ForgetLineage(c)
    BY <1>4, <2>5 DEF BeginContradict, BeginConsolidate, RecordLineage, SubmitConsolidation,
                      BeginRollback, ForgetLineage, tables, memoryTables
  <2> QED BY <1>5, <2>1, <2>2, <2>3, <2>4, <2>5 DEF ConsolidationStep
<1>6. CASE UNCHANGED consolidationVars
  BY <1>4, <1>6 DEF consolidationVars, vars, tables, memoryTables
<1> QED BY <1>3, <1>5, <1>6 DEF ConsolidationNext

(* A contradiction never names a primitive that is gone, and no reference of *)
(* the store dangles, whatever is rolled back, merged away or deleted        *)
(* between its detection and its record.                                     *)
THEOREM ConsolidationReferencesResolve == ConsolidationSpec => []ContradictionsClosed
<1>1. ConsolidationInit => ContradictionsClosed
  BY DEF ConsolidationInit, Init, ContradictionsClosed, ReferentialClosure, EdgesClosed,
         NodesClosed, NotesClosed, Nodes, Edges
<1>2. ConsolidationTypeOK /\ CallsDecided /\ ContradictionsClosed
        /\ [ConsolidationNext]_consolidationVars => ContradictionsClosed'
  BY ContradictionsStayClosed
<1> QED BY <1>1, <1>2, ConsolidationInvariant, PTL DEF ConsolidationSpec

-----------------------------------------------------------------------------
(* The ledger.                                                             *)

(* Rollbacks, too, move rows and ledger as RecordedMemory says.              *)
THEOREM ConsolidationImplementsRecordedMemory == ConsolidationSpec => ImplementsRecordedMemory
<1>1. ConsolidationInit => Recorded!Init
  BY InitSimulates DEF ConsolidationInit
<1>2. ConsolidationTypeOK /\ CallsDecided /\ [ConsolidationNext]_consolidationVars
        => [Recorded!Next]_<<ActiveMemory, LastRecorded>>
  BY ConsolidationStepKeeps DEF Simulates
<1> QED BY <1>1, <1>2, ConsolidationInvariant, PTL
        DEF ConsolidationSpec, ImplementsRecordedMemory, Recorded!Spec

(* The ledger explains the store after any number of rollbacks.              *)
THEOREM LedgerExplainsConsolidatedStore == ConsolidationSpec => []AuditMatchesStore
<1>1. ConsolidationTypeOK /\ Recorded!LiveIsRecorded => AuditMatchesStore
  BY PromiseExplains DEF ConsolidationTypeOK
<1> QED BY <1>1, ConsolidationTypeCorrect, ConsolidationImplementsRecordedMemory,
        LiveMemoryIsRecorded, PTL

(* Every decision on file has its audit row, those of consolidations too.    *)
THEOREM ConsolidationDecisionsAudited == ConsolidationSpec => []DecisionsAudited
<1>1. ConsolidationInit => DecisionsAudited
  BY DEF ConsolidationInit, Init, DecisionsAudited
<1>2. ConsolidationTypeOK /\ CallsDecided /\ DecisionsAudited
        /\ [ConsolidationNext]_consolidationVars => DecisionsAudited'
  BY ConsolidationStepKeeps
<1> QED BY <1>1, <1>2, ConsolidationInvariant, PTL DEF ConsolidationSpec

(* A rollback's records are appended like any others.                        *)
THEOREM ConsolidationChainVerifies == ConsolidationSpec => []AuditChainValid
<1>1. ConsolidationInit => AuditChainValid
  BY DEF ConsolidationInit, Init, AuditChainValid, VerifyAuditChain
<1>2. ConsolidationTypeOK /\ AuditChainValid /\ [ConsolidationNext]_consolidationVars
        => AuditChainValid'
  <2> SUFFICES ASSUME ConsolidationTypeOK, AuditChainValid,
                      [ConsolidationNext]_consolidationVars
               PROVE  AuditChainValid'
    OBVIOUS
  <2>1. UNCHANGED audit_log \/ Appends
    <3>1. ASSUME NEW c \in Clients, StoreStep(c) \/ GovernanceStep(c)
          PROVE  UNCHANGED audit_log \/ Appends
      BY <3>1, GovernedStep DEF ConsolidationTypeOK
    <3>2. ASSUME NEW c \in Clients, ConsolidationStep(c)
          PROVE  UNCHANGED audit_log \/ Appends
      BY <3>2, ConsolidationCallFields, EngineStep DEF ConsolidationTypeOK
    <3>3. CASE Tick \/ UNCHANGED consolidationVars
      BY <3>3 DEF Tick, consolidationVars, vars, tables
    <3> QED BY <3>1, <3>2, <3>3 DEF ConsolidationNext, GovernanceNext, Next
  <2> QED BY <2>1, AppendsKeepsChain DEF ConsolidationTypeOK, TablesTypeOK
<1> QED BY <1>1, <1>2, ConsolidationTypeCorrect, PTL DEF ConsolidationSpec

-----------------------------------------------------------------------------
(* Decisions on consolidations.                                            *)

(* An approval takes effect as proposed when consolidations and rollbacks,   *)
(* which delete and restore its target, run next to it.                      *)
THEOREM ConsolidationApprovalsApply == ConsolidationSpec => ApprovalAppliesProposal
<1>1. ConsolidationTypeOK =>
        \A c \in Clients : CommitApprove(c) => AppliesProposal(call[c].record)
  BY ConsolidationCallFields, ApprovalStep DEF ConsolidationTypeOK
<1> QED BY <1>1, ConsolidationTypeCorrect, PTL DEF ConsolidationSpec, ApprovalAppliesProposal

(* The engine submits what it read to the same policy, and its snapshots     *)
(* pass by the policy only to restore what was stored.                       *)
LEMMA ConsolidationHonoured ==
  ASSUME ConsolidationTypeOK, CallsDecided, PolicyHonoured,
         [ConsolidationNext]_consolidationVars
  PROVE  PolicyHonoured'
<1>1. DOMAIN call = Clients
  BY DEF ConsolidationTypeOK
<1>2. ASSUME NEW c \in Clients, GovernanceStep(c)
      PROVE  PolicyHonoured'
  BY <1>1, <1>2, CallStaysHonoured, GovernanceStepHonoured
<1>3. ASSUME NEW c \in Clients, NEW r, r.op # "propose", call' = [call EXCEPT ![c] = r]
      PROVE  PolicyHonoured'
  BY <1>1, <1>3, CallStaysHonoured DEF Honoured
<1>4. ASSUME NEW c \in Clients, StoreStep(c)
      PROVE  PolicyHonoured'
  <2>1. \E r \in StoreCall : call' = [call EXCEPT ![c] = r]
    <3>1. CASE call[c] \in StoreCall
      BY <1>4, <3>1, StoreStepType DEF ConsolidationTypeOK
    <3>2. CASE call[c] \notin StoreCall
      BY <1>4, <3>2, ConsolidationCallFields, StoreStepOfOtherCall
      DEF ConsolidationTypeOK, Abort, Return, StoreCall
    <3> QED BY <3>1, <3>2
  <2>2. \A r \in StoreCall : r.op # "propose"
    BY DEF StoreCall, Idle
  <2> QED BY <1>3, <2>1, <2>2
<1>5. ASSUME NEW c \in Clients, SubmitConsolidation(c)
      PROVE  PolicyHonoured'
  <2> DEFINE candidate == call[c].source
             decision == ConsolidationDecision(call[c].action, call[c].target)
             mode == Policy(candidate, decision, call[c].confident)
             r == [op |-> "propose", mode |-> mode, lineage |-> call[c].lineage,
                   record |-> ProposalRecord(candidate, decision, call[c].target, mode)]
  <2>1. call' = [call EXCEPT ![c] = r]
    BY <1>5 DEF SubmitConsolidation
  <2>2. mode = "auto_apply" => candidate.sensitivity # Restricted
    BY DEF Policy
  <2>3. Honoured(r)
    BY <2>2 DEF Honoured, ProposalRecord
  <2> HIDE DEF r
  <2> QED BY <1>1, <2>1, <2>3, CallStaysHonoured
<1>6. ASSUME NEW c \in Clients, ConsolidationStep(c), ~ SubmitConsolidation(c)
      PROVE  PolicyHonoured'
  <2>1. CASE ResolveContradiction(c)
    BY <2>1 DEF ResolveContradiction, PolicyHonoured, Honoured
  <2>2. CASE RollbackDelete(c) \/ RestoreSnapshot(c)
    <3>1. call[c] \in [op : {"rollback", "restore", "forget"}, lineage : LineageIds,
                       source : Primitive]
      BY <2>2 DEF RollbackDelete, RestoreSnapshot, ConsolidationTypeOK, ConsolidationCall,
                  GovernanceCall, StoreCall, Idle
    <3>2. \E r : r.op # "propose" /\ call' = [call EXCEPT ![c] = r]
      BY <2>2, <3>1 DEF RollbackDelete, RestoreSnapshot, ConsolidationTypeOK
    <3> QED BY <1>3, <3>2
  <2>3. CASE ~ ResolveContradiction(c) /\ ~ RollbackDelete(c) /\ ~ RestoreSnapshot(c)
    <3>1. \E r : r.op # "propose" /\ call' = [call EXCEPT ![c] = r]
      BY <1>6, <2>3 DEF ConsolidationStep, BeginContradict, RecordContradiction,
                        BeginConsolidate, RecordLineage, BeginRollback, RollbackCall,
                        ForgetLineage, Start, Return, Idle
    <3> QED BY <1>3, <3>1
  <2> QED BY <2>1, <2>2, <2>3
<1>7. CASE Tick \/ UNCHANGED consolidationVars
  BY <1>7 DEF Tick, consolidationVars, vars, PolicyHonoured, Honoured
<1> QED BY <1>2, <1>4, <1>5, <1>6, <1>7 DEF ConsolidationNext, GovernanceNext, Next

(* No automatic write touches a restricted memory, those that consolidate    *)
(* included, whatever was rolled back since the policy decided.              *)
THEOREM ConsolidationLeavesRestrictedAlone == ConsolidationSpec => AgentsLeaveRestrictedAlone
<1>1. ConsolidationInit => PolicyHonoured
  BY DEF ConsolidationInit, Init, PolicyHonoured, Honoured, Idle
<1>2. ConsolidationTypeOK /\ CallsDecided /\ PolicyHonoured
        /\ [ConsolidationNext]_consolidationVars => PolicyHonoured'
  BY ConsolidationHonoured
<1>3. ConsolidationTypeOK /\ ContradictionsClosed /\ PolicyHonoured =>
        \A c \in Clients : CommitAutoApply(c) =>
          \A i \in Ids : IsRestricted(rows[i]) \/ IsRestricted(rows'[i]) => rows'[i] = rows[i]
  BY ConsolidationCallFields, AutoApplyLeavesRestricted
  DEF ConsolidationTypeOK, PolicyHonoured, ContradictionsClosed
<1> QED BY <1>1, <1>2, <1>3, ConsolidationInvariant, ConsolidationReferencesResolve, PTL
        DEF ConsolidationSpec, AgentsLeaveRestrictedAlone
-----------------------------------------------------------------------------
(* The search index.                                                       *)

(* Rolling back deletes with the index, and restores through the triggers.   *)
LEMMA EngineStepIndex ==
  ASSUME TablesTypeOK, ReferentialClosure, SearchIndexHidesRestricted,
         NEW c \in Clients, EngineFields(call[c]), ConsolidationStep(c)
  PROVE  SearchIndexHidesRestricted'
<1> USE DEF tables, memoryTables
<1>1. CASE RollbackDelete(c)
  <2> DEFINE i == call[c].source.id
  <2>1. i \in Ids /\ Nodes \cap Edges = {}
    BY <1>1 DEF RollbackDelete, EngineFields, Primitive, Fields, Nodes, Edges
  <2>2. fts' = [fts EXCEPT ![i] = None]
    BY <1>1 DEF RollbackDelete, DeleteFromRegistry, IndexAfterDelete
  <2>3. \A n \in Nodes : n # i => rows'[n] = rows[n]
    BY <1>1, <2>1 DEF RollbackDelete, Touches, Nodes
  <2>4. fts \in [Ids -> Facts \cup {None}]
    BY DEF TablesTypeOK, MemoryTypeOK
  <2> QED BY <2>1, <2>2, <2>3, <2>4 DEF SearchIndexHidesRestricted
<1>2. CASE RestoreSnapshot(c) /\ InsertRows(call[c].source)
  BY <1>2, InsertRowsIndex DEF RestoreSnapshot, EngineFields
<1>3. CASE ~ RollbackDelete(c) /\ ~ (RestoreSnapshot(c) /\ InsertRows(call[c].source))
  <2>1. UNCHANGED <<rows, fts>>
    BY <1>3 DEF ConsolidationStep, BeginContradict, RecordContradiction, ResolveContradiction,
                BeginConsolidate, RecordLineage, SubmitConsolidation, BeginRollback,
                RestoreSnapshot, ForgetLineage
  <2> QED BY <2>1, IndexStutters
<1> QED BY <1>1, <1>2, <1>3

(* A rollback brings no restricted or deleted memory into the index, in any  *)
(* of its transactions and wherever it ends.                                 *)
THEOREM ConsolidatedSearchStaysPublic == ConsolidationSpec => []SearchIndexHidesRestricted
<1>1. ConsolidationInit => SearchIndexHidesRestricted
  BY DEF ConsolidationInit, Init, SearchIndexHidesRestricted
<1>2. ConsolidationTypeOK /\ ContradictionsClosed /\ SearchIndexHidesRestricted
        /\ [ConsolidationNext]_consolidationVars => SearchIndexHidesRestricted'
  <2> SUFFICES ASSUME ConsolidationTypeOK, ContradictionsClosed, SearchIndexHidesRestricted,
                      [ConsolidationNext]_consolidationVars
               PROVE  SearchIndexHidesRestricted'
    OBVIOUS
  <2>1. TablesTypeOK /\ ReferentialClosure
    BY DEF ConsolidationTypeOK, ContradictionsClosed
  <2>2. ASSUME NEW c \in Clients, StoreStep(c)
        PROVE  SearchIndexHidesRestricted'
    <3>1. CASE call[c] \in StoreCall
      BY <2>1, <2>2, <3>1, StoreStepIndex
    <3>2. CASE call[c] \notin StoreCall
      <4>1. Abort(c)
        BY <2>2, <3>2, ConsolidationCallFields, StoreStepOfOtherCall DEF ConsolidationTypeOK
      <4> QED BY <4>1, IndexStutters DEF Abort, tables, memoryTables
    <3> QED BY <3>1, <3>2
  <2>3. ASSUME NEW c \in Clients, GovernanceStep(c)
        PROVE  SearchIndexHidesRestricted'
    BY <2>1, <2>3, ConsolidationCallFields, GovernanceStepIndex DEF ConsolidationTypeOK
  <2>4. ASSUME NEW c \in Clients, ConsolidationStep(c)
        PROVE  SearchIndexHidesRestricted'
    BY <2>1, <2>4, ConsolidationCallFields, EngineStepIndex DEF ConsolidationTypeOK
  <2>5. CASE Tick \/ UNCHANGED consolidationVars
    BY <2>5, IndexStutters DEF Tick, consolidationVars, vars, tables, memoryTables
  <2> QED BY <2>2, <2>3, <2>4, <2>5 DEF ConsolidationNext, GovernanceNext, Next
<1> QED BY <1>1, <1>2, ConsolidationTypeCorrect, ConsolidationReferencesResolve, PTL
        DEF ConsolidationSpec
=============================================================================
