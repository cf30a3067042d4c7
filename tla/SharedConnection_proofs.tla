----------------------- MODULE SharedConnection_proofs -----------------------
(***************************************************************************)
(* Theorems about SharedConnection, for any number of clients, calls and   *)
(* primitives: what survives when transactions of different calls share a  *)
(* connection, and under which conditions a transaction is one.            *)
(***************************************************************************)
EXTENDS SharedConnection, MemoryStore_proofs

-----------------------------------------------------------------------------
(* Types.                                                                  *)

LEMMA ConnectionCallFields ==
  ASSUME NEW r \in ConnectionCall
  PROVE  /\ r.op \notin OpenStages => r \in StoreCall
         /\ r.op \in OpenStages => r.id \in Ids /\ r.duplicate \in Ids
         /\ r.op = "relinked" => r.vector \in BOOLEAN
         /\ r.op = "transfer" => r.existing \in BOOLEAN
BY DEF ConnectionCall, StoreCall, Idle, OpenStages

(* An update stores the primitive it built and audits that very primitive.   *)
LEMMA UpdateAtOnceStores ==
  ASSUME TablesTypeOK, NEW c \in Clients, call[c] \in StoreCall, UpdateAtOnce(c)
  PROVE  \E p \in Primitive :
           /\ UpdateRows(p, call[c].base.updated_at)
           /\ Audit("UPDATE", "human_user", p)
           /\ rows' = [rows EXCEPT ![p.id] = p]
<1> DEFINE target == rows[call[c].base.id]
           p == Mutated(target, call[c].candidate, "UPDATE")
<1>1. call[c].base \in Primitive /\ call[c].candidate \in Primitive /\ call[c].base.id \in Ids
  BY StoreCallFields DEF UpdateAtOnce, Primitive, Fields
<1>2. /\ target # None
      /\ Mutable(target, call[c].candidate)
      /\ UpdateRows(p, call[c].base.updated_at)
      /\ Audit("UPDATE", "human_user", p)
  BY DEF UpdateAtOnce
<1>3. target \in Primitive /\ target.id = call[c].base.id /\ clock \in Nat
  BY <1>1, <1>2, BoundAssumption DEF TablesTypeOK, MemoryTypeOK
<1>4. p \in Primitive /\ p.id = target.id /\ p.created_at = target.created_at
  BY <1>1, <1>2, <1>3, MutatedType
<1> HIDE DEF p
<1>5. rows' = [rows EXCEPT ![p.id] = p]
  BY <1>2, <1>3, <1>4, UpdateRowsStores
<1> QED BY <1>2, <1>4, <1>5

(* A joined step is a step of the store, or an update at once, by a client   *)
(* that is not merging.                                                      *)
StoreStepAtOnce(c) == StoreStep(c) \/ UpdateAtOnce(c)

LEMMA JoinedIsStoreStep ==
  ASSUME NEW c \in Clients, call[c] \in ConnectionCall, JoinedStep(c)
  PROVE  StoreStepAtOnce(c) /\ ~ Merging(c) /\ call[c] \in StoreCall
<1>1. StoreStepAtOnce(c)
  BY DEF JoinedStep, StoreStep, StoreStepAtOnce
<1>2. ~ Merging(c)
  BY DEF JoinedStep, Merging, OpenStages, BeginInsert, CommitInsert, BeginUpdate, UpdateAtOnce,
         BeginOnExisting, CommitArchive, CommitDelete, CommitEmbed, BeginMerge, Start, Idle
<1> QED BY <1>1, <1>2, ConnectionCallFields DEF Merging

(* An update at once keeps what the steps of the store keep.                 *)
LEMMA AtOnceType ==
  ASSUME TablesTypeOK, NEW c \in Clients, call[c] \in StoreCall, StoreStepAtOnce(c)
  PROVE  /\ TablesTypeOK'
         /\ \E r \in StoreCall : call' = [call EXCEPT ![c] = r]
<1>1. CASE UpdateAtOnce(c)
  <2>1. PICK p \in Primitive : /\ UpdateRows(p, call[c].base.updated_at)
                               /\ Audit("UPDATE", "human_user", p)
    BY <1>1, UpdateAtOnceStores
  <2>2. MemoryTypeOK' /\ audit_log' \in Seq(AuditRecord(AuditEvent))
    BY <2>1, UpdateRowsType, AuditType DEF TablesTypeOK
  <2> QED BY <1>1, <2>2 DEF UpdateAtOnce, Return, StoreCall, TablesTypeOK
<1> QED BY <1>1, StoreStepType DEF StoreStepAtOnce

LEMMA AtOnceAppends ==
  ASSUME TablesTypeOK, NEW c \in Clients, call[c] \in StoreCall, StoreStepAtOnce(c)
  PROVE  UNCHANGED audit_log \/ Appends
<1>1. CASE UpdateAtOnce(c)
  BY <1>1, UpdateAtOnceStores, AuditAppends
<1> QED BY <1>1, StoreStepAppends DEF StoreStepAtOnce

LEMMA AtOnceClosure ==
  ASSUME TablesTypeOK, ReferentialClosure, NEW c \in Clients, call[c] \in StoreCall,
         StoreStepAtOnce(c)
  PROVE  ReferentialClosure'
<1>1. CASE UpdateAtOnce(c)
  <2>1. PICK p \in Primitive : UpdateRows(p, call[c].base.updated_at)
    BY <1>1, UpdateAtOnceStores
  <2>2. UNCHANGED <<registry, embeddings, lifecycle, proposals>>
    BY <1>1, <2>1 DEF UpdateAtOnce, UpdateRows
  <2>3. \A q \in ProposalIds : proposals'[q] # None =>
          proposals'[q].target \in registry' \cup {None}
    BY <2>2 DEF ReferentialClosure, NotesClosed, Registered
  <2> QED BY <2>1, <2>2, <2>3, UpdateRowsInPlace, RowsInPlaceClosure
<1> QED BY <1>1, StoreStepClosure DEF StoreStepAtOnce

LEMMA AtOnceIndex ==
  ASSUME TablesTypeOK, ReferentialClosure, SearchIndexHidesRestricted,
         NEW c \in Clients, call[c] \in StoreCall, StoreStepAtOnce(c)
  PROVE  SearchIndexHidesRestricted'
<1>1. CASE UpdateAtOnce(c)
  <2>1. PICK p \in Primitive : UpdateRows(p, call[c].base.updated_at)
    BY <1>1, UpdateAtOnceStores
  <2>2. UNCHANGED fts /\ Nodes \subseteq Ids
    BY <2>1 DEF UpdateRows, Nodes
  <2> QED BY <2>1, <2>2, UpdateRowsKeepTier, IndexStutters
<1> QED BY <1>1, StoreStepIndex DEF StoreStepAtOnce

LEMMA TablesType ==
  ASSUME TablesTypeOK
  PROVE  Tables \in TablesSet /\ \A i \in Ids : Tables.rows[i] # None => Tables.rows[i].id = i
BY DEF Tables, TablesSet, TablesTypeOK, MemoryTypeOK

LEMMA DigestsType ==
  ASSUME NEW log \in Seq(AuditRecord(AuditEvent))
  PROVE  Digests(log) \subseteq Digest(AuditEvent)
<1>1. \A k \in 1 .. Len(log) : log[k] \in AuditRecord(AuditEvent)
  OBVIOUS
<1> QED BY <1>1 DEF Digests, AuditRecord

CommittedType ==
  /\ inTransaction \in BOOLEAN
  /\ committed \in TablesSet
  /\ \A i \in Ids : committed.rows[i] # None => committed.rows[i].id = i

WorkType ==
  /\ working \subseteq Clients
  /\ appended \in [Clients -> SUBSET Digest(AuditEvent)]

LEMMA RollbackType ==
  ASSUME TablesTypeOK, CommittedType, Rollback, UNCHANGED clock
  PROVE  TablesTypeOK' /\ CommittedType'
BY DEF Rollback, TablesTypeOK, MemoryTypeOK, CommittedType, TablesSet

LEMMA AutocommitType ==
  ASSUME CommittedType, TablesTypeOK', Autocommit \/ Commit
  PROVE  CommittedType'
<1>1. (Tables \in TablesSet /\ \A i \in Ids : Tables.rows[i] # None => Tables.rows[i].id = i)'
  BY TablesType, PTL
<1> QED BY <1>1 DEF Autocommit, Commit, CommittedType

LEMMA RelinkedRowsType ==
  ASSUME TablesTypeOK, NEW primary \in Ids, NEW duplicate \in Ids
  PROVE  LET relink == RelinkedRows(primary, duplicate)
         IN  /\ relink \in [Ids -> Primitive \cup {None}]
             /\ \A j \in Ids : relink[j] # None => relink[j].id = j
<1> DEFINE relink == RelinkedRows(primary, duplicate)
<1>1. ASSUME NEW j \in Ids
      PROVE  relink[j] \in Primitive \cup {None} /\ (relink[j] # None => relink[j].id = j)
  <2>1. CASE Touches(j, duplicate)
    <3>1. rows[j] \in Primitive /\ rows[j].id = j
      BY <2>1 DEF Touches, TablesTypeOK, MemoryTypeOK
    <3>2. relink[j] = Relinked(rows[j], primary, duplicate)
      BY <2>1 DEF RelinkedRows
    <3>3. /\ Relinked(rows[j], primary, duplicate) \in Primitive
          /\ Relinked(rows[j], primary, duplicate).id = rows[j].id
      BY <3>1, RelinkedType
    <3> HIDE DEF relink
    <3> QED BY <3>1, <3>2, <3>3
  <2>2. CASE ~ Touches(j, duplicate)
    BY <2>2 DEF RelinkedRows, TablesTypeOK, MemoryTypeOK
  <2> QED BY <2>1, <2>2
<1>2. relink = [j \in Ids |-> relink[j]]
  BY DEF RelinkedRows
<1> QED
  <2> HIDE DEF relink
  <2> QED BY <1>1, <1>2 DEF relink

(* What a client may be doing after its step.                                *)
CallTurns(c) == \E r \in ConnectionCall : call' = [call EXCEPT ![c] = r]

LEMMA ReturnTurns ==
  ASSUME NEW c \in Clients, Return(c)
  PROVE  CallTurns(c)
BY DEF Return, CallTurns, ConnectionCall, StoreCall

LEMMA JoinedStepType ==
  ASSUME ConnectionTypeOK, NEW c \in Clients, JoinedStep(c)
  PROVE  TablesTypeOK' /\ CommittedType' /\ CallTurns(c) /\ WorkType'
<1>1. StoreStepAtOnce(c) /\ call[c] \in StoreCall
  BY JoinedIsStoreStep DEF ConnectionTypeOK
<1>2. TablesTypeOK' /\ \E r \in StoreCall : call' = [call EXCEPT ![c] = r]
  BY <1>1, AtOnceType DEF ConnectionTypeOK
<1>3. CallTurns(c)
  BY <1>2 DEF CallTurns, ConnectionCall
<1>4. CommittedType'
  BY <1>2, AutocommitType DEF JoinedStep, ConnectionTypeOK, CommittedType
<1>5. audit_log' \in Seq(AuditRecord(AuditEvent))
  BY <1>2 DEF TablesTypeOK
<1>6. Digests(audit_log') \subseteq Digest(AuditEvent)
  BY <1>5, DigestsType
<1>7. WorkType'
  BY <1>6 DEF JoinedStep, ConnectionTypeOK, WorkType
<1> QED BY <1>2, <1>3, <1>4, <1>7

LEMMA RelinkType ==
  ASSUME ConnectionTypeOK, NEW c \in Clients, call[c].op = "merge", Relink(c), UNCHANGED clock
  PROVE  TablesTypeOK' /\ CommittedType' /\ CallTurns(c)
<1> DEFINE primary == call[c].id
           duplicate == call[c].duplicate
<1>1. primary \in Ids /\ duplicate \in Ids
  BY ConnectionCallFields, StoreCallFields DEF ConnectionTypeOK, OpenStages
<1>2. CASE (\E e \in Edges : Touches(e, duplicate)) /\ ~ Registered(primary)
  BY <1>2, ReturnTurns DEF Relink, ConnectionTypeOK, TablesTypeOK, MemoryTypeOK, CommittedType,
                           tables, memoryTables
<1>3. CASE ~ ((\E e \in Edges : Touches(e, duplicate)) /\ ~ Registered(primary))
  <2>1. /\ rows' \in [Ids -> Primitive \cup {None}]
        /\ \A j \in Ids : rows'[j] # None => rows'[j].id = j
    BY <1>1, <1>3, RelinkedRowsType DEF Relink, ConnectionTypeOK
  <2>2. TablesTypeOK' /\ CommittedType'
    BY <1>3, <2>1 DEF Relink, Begin, ConnectionTypeOK, TablesTypeOK, MemoryTypeOK, CommittedType
  <2> DEFINE had == duplicate \in embeddings
             relinked == [op |-> "relinked", id |-> primary, duplicate |-> duplicate,
                          vector |-> had]
  <2>3. relinked \in ConnectionCall
    <3>1. had \in BOOLEAN
      OBVIOUS
    <3> HIDE DEF had
    <3> QED BY <1>1, <3>1 DEF ConnectionCall
  <2>4. call' = [call EXCEPT ![c] = relinked]
    BY <1>3 DEF Relink
  <2>5. CallTurns(c)
    <3> HIDE DEF relinked
    <3> QED BY <2>3, <2>4 DEF CallTurns
  <2> QED BY <2>2, <2>5
<1> QED BY <1>2, <1>3

LEMMA RemoveDuplicateType ==
  ASSUME ConnectionTypeOK, NEW c \in Clients, RemoveDuplicate(c)
  PROVE  TablesTypeOK' /\ CommittedType' /\ CallTurns(c)
<1> DEFINE duplicate == call[c].duplicate
<1>1. duplicate \in Ids
  BY ConnectionCallFields DEF ConnectionTypeOK, RemoveDuplicate, OpenStages
<1>2. /\ fts' \in [Ids -> Facts \cup {None}]
      /\ lifecycle' \in [Ids -> Importance \cup {None}]
      /\ proposals' \in [ProposalIds -> Proposal \cup {None}]
  BY <1>1, CascadeType DEF RemoveDuplicate, DeleteFromRegistry, ConnectionTypeOK
<1>3. TablesTypeOK'
  BY <1>1, <1>2 DEF RemoveDuplicate, DeleteFromRegistry, ConnectionTypeOK, TablesTypeOK, MemoryTypeOK
<1>4. CommittedType'
  BY <1>3, AutocommitType DEF RemoveDuplicate, ConnectionTypeOK, CommittedType
<1> QED BY <1>3, <1>4, ReturnTurns DEF RemoveDuplicate

LEMMA TransferVectorType ==
  ASSUME ConnectionTypeOK, NEW c \in Clients, TransferVector(c)
  PROVE  TablesTypeOK' /\ CommittedType' /\ CallTurns(c)
<1>1. call[c].id \in Ids /\ call[c].duplicate \in Ids
  BY ConnectionCallFields DEF ConnectionTypeOK, TransferVector, OpenStages
<1>2. CASE call[c].existing /\ Registered(call[c].id)
  <2>1. TablesTypeOK'
    BY <1>1, <1>2 DEF TransferVector, ConnectionTypeOK, TablesTypeOK, MemoryTypeOK
  <2>2. CommittedType'
    BY <1>2, <2>1, AutocommitType DEF TransferVector, ConnectionTypeOK, CommittedType
  <2>3. CallTurns(c)
    BY <1>1, <1>2 DEF TransferVector, CallTurns, ConnectionCall
  <2> QED BY <2>1, <2>2, <2>3
<1>3. CASE ~ (call[c].existing /\ Registered(call[c].id))
  BY <1>3, RollbackType, ReturnTurns DEF TransferVector, MergeFails, ConnectionTypeOK, CommittedType
<1> QED BY <1>2, <1>3

LEMMA ReadVectorType ==
  ASSUME ConnectionTypeOK, NEW c \in Clients, ReadVector(c)
  PROVE  TablesTypeOK' /\ CommittedType' /\ CallTurns(c)
<1>1. call[c].id \in Ids /\ call[c].duplicate \in Ids
  BY ConnectionCallFields DEF ConnectionTypeOK, ReadVector, OpenStages
<1> DEFINE found == rows[call[c].id] # None
           transfer == [op |-> "transfer", id |-> call[c].id, duplicate |-> call[c].duplicate,
                        existing |-> found]
           remove == [op |-> "remove", id |-> call[c].id, duplicate |-> call[c].duplicate]
<1>2. transfer \in ConnectionCall /\ remove \in ConnectionCall
  <2>1. found \in BOOLEAN
    OBVIOUS
  <2> HIDE DEF found
  <2> QED BY <1>1, <2>1 DEF ConnectionCall
<1>3. call' = [call EXCEPT ![c] = transfer] \/ call' = [call EXCEPT ![c] = remove]
  BY DEF ReadVector
<1>4. CallTurns(c)
  <2> HIDE DEF transfer, remove
  <2> QED BY <1>2, <1>3 DEF CallTurns
<1> QED BY <1>4 DEF ReadVector, ConnectionTypeOK, TablesTypeOK, MemoryTypeOK, CommittedType,
                    tables, memoryTables

(* executeTransaction: begin, commit, roll back.                             *)
WorkStep(c) == BeginWork(c) \/ FinishWork(c) \/ WorkThrows(c)

LEMMA WorkStepType ==
  ASSUME ConnectionTypeOK, NEW c \in Clients, WorkStep(c)
  PROVE  TablesTypeOK' /\ CommittedType' /\ (CallTurns(c) \/ UNCHANGED call) /\ WorkType'
<1>1. CommittedType /\ TablesTypeOK
  BY DEF ConnectionTypeOK, CommittedType
<1>2. CASE BeginWork(c)
  <2>1. TablesTypeOK' /\ CommittedType'
    <3>1. CASE inTransaction
      BY <1>1, <1>2, <3>1, RollbackType DEF BeginWork
    <3>2. CASE ~ inTransaction
      BY <1>1, <1>2, <3>2 DEF BeginWork, Begin, TablesTypeOK, MemoryTypeOK, CommittedType,
                              tables, memoryTables
    <3> QED BY <3>1, <3>2
  <2> QED BY <1>2, <2>1 DEF BeginWork, ConnectionTypeOK, WorkType
<1>3. CASE FinishWork(c)
  <2>1. TablesTypeOK'
    BY <1>1, <1>3 DEF FinishWork, Leave, TablesTypeOK, MemoryTypeOK, tables, memoryTables
  <2>2. CommittedType'
    BY <1>1, <1>3, <2>1, AutocommitType DEF FinishWork
  <2> QED BY <1>3, <2>1, <2>2, ReturnTurns DEF FinishWork, Leave, ConnectionTypeOK, WorkType
<1>4. CASE WorkThrows(c)
  <2>1. TablesTypeOK' /\ CommittedType'
    BY <1>1, <1>4, RollbackType DEF WorkThrows, Leave
  <2> QED BY <1>4, <2>1, ReturnTurns DEF WorkThrows, Leave, ConnectionTypeOK, WorkType
<1> QED BY <1>2, <1>3, <1>4 DEF WorkStep

(* A merge past the read of its primary.                                     *)
MergeStep(c) == OpenMerge(c) \/ ReadVector(c) \/ TransferVector(c) \/ RemoveDuplicate(c)

LEMMA MergeStepType ==
  ASSUME ConnectionTypeOK, NEW c \in Clients, MergeStep(c)
  PROVE  TablesTypeOK' /\ CommittedType' /\ CallTurns(c) /\ WorkType'
<1>1. WorkType'
  BY DEF MergeStep, OpenMerge, ReadVector, TransferVector, RemoveDuplicate, ConnectionTypeOK, WorkType
<1>2. CASE OpenMerge(c)
  <2>1. CASE inTransaction
    BY <1>1, <1>2, <2>1, ReturnTurns DEF OpenMerge, ConnectionTypeOK, TablesTypeOK, MemoryTypeOK,
                                   CommittedType, tables, memoryTables
  <2>2. CASE ~ inTransaction
    BY <1>1, <1>2, <2>2, RelinkType DEF OpenMerge
  <2> QED BY <2>1, <2>2
<1> QED BY <1>1, <1>2, ReadVectorType, TransferVectorType, RemoveDuplicateType DEF MergeStep

LEMMA CrashType ==
  ASSUME ConnectionTypeOK, Crash, UNCHANGED callers
  PROVE  ConnectionTypeOK'
<1>1. TablesTypeOK' /\ CommittedType'
  BY RollbackType DEF Crash, ConnectionTypeOK, CommittedType
<1>2. call' \in [Clients -> ConnectionCall]
  BY DEF Crash, ConnectionCall, StoreCall
<1> QED BY <1>1, <1>2 DEF Crash, ConnectionTypeOK, CommittedType

LEMMA ClientSteps ==
  ASSUME NEW c \in Clients, ClientStep(c)
  PROVE  JoinedStep(c) \/ WorkStep(c) \/ MergeStep(c)
BY DEF ClientStep, WorkStep, MergeStep

(* The tables stay well-typed on both sides of every transaction, and calls  *)
(* in flight carry what their next step reads.                               *)
THEOREM ConnectionTypeCorrect == ConnectionSpec => []ConnectionTypeOK
<1>1. ConnectionInit => ConnectionTypeOK
  <2> SUFFICES ASSUME ConnectionInit PROVE ConnectionTypeOK
    OBVIOUS
  <2>1. TablesTypeOK /\ call \in [Clients -> ConnectionCall]
    BY BoundAssumption DEF ConnectionInit, Init, TablesTypeOK, MemoryTypeOK, ConnectionCall, StoreCall
  <2> QED BY <2>1, TablesType DEF ConnectionInit, ConnectionTypeOK
<1>2. ConnectionTypeOK /\ [ConnectionNext]_connectionVars => ConnectionTypeOK'
  <2> SUFFICES ASSUME ConnectionTypeOK, [ConnectionNext]_connectionVars PROVE ConnectionTypeOK'
    OBVIOUS
  <2>0. callers' \subseteq Clients
    BY DEF ConnectionTypeOK, ConnectionNext, connectionVars
  <2>1. ASSUME NEW c \in Clients, ClientStep(c)
        PROVE  ConnectionTypeOK'
    <3>1. TablesTypeOK' /\ CommittedType' /\ WorkType' /\ (CallTurns(c) \/ UNCHANGED call)
      BY <2>1, ClientSteps, JoinedStepType, WorkStepType, MergeStepType
    <3>2. call' \in [Clients -> ConnectionCall]
      BY <3>1 DEF CallTurns, ConnectionTypeOK
    <3> QED BY <2>0, <3>1, <3>2 DEF ConnectionTypeOK, CommittedType, WorkType
  <2>2. CASE Tick /\ UNCHANGED <<inTransaction, committed, working, appended>>
    BY <2>0, <2>2, TickType DEF ConnectionTypeOK
  <2>3. CASE UNCHANGED connectionVars
    BY <2>3 DEF connectionVars, vars, tables, memoryTables, ConnectionTypeOK, TablesTypeOK, MemoryTypeOK
  <2> QED BY <2>1, <2>2, <2>3, CrashType DEF ConnectionNext, ConnectionTypeOK
<1> QED BY <1>1, <1>2, PTL DEF ConnectionSpec

-----------------------------------------------------------------------------
(* References.                                                             *)

(* ReferentialClosure of any tables: of what ROLLBACK goes back to as well.  *)
ClosedTables(t) ==
  /\ \A e \in Edges : t.rows[e] # None =>
       e \in t.registry /\ {t.rows[e].source, t.rows[e].target} \subseteq t.registry
  /\ \A n \in Nodes : /\ t.rows[n] # None <=> n \in t.registry
                      /\ t.rows[n] # None => t.lifecycle[n] # None
  /\ t.embeddings \subseteq t.registry
  /\ \A i \in Ids : t.lifecycle[i] # None => i \in t.registry \cup {None}
  /\ \A p \in ProposalIds : t.proposals[p] # None =>
       t.proposals[p].target \in t.registry \cup {None}

LEMMA ClosureOfTables == ReferentialClosure <=> ClosedTables(Tables)
BY DEF ReferentialClosure, EdgesClosed, NodesClosed, NotesClosed, Registered, ClosedTables, Tables

LEMMA RollbackCloses ==
  ASSUME ClosedTables(committed), Rollback
  PROVE  ReferentialClosure' /\ ClosedTables(committed)'
BY DEF Rollback, ReferentialClosure, EdgesClosed, NodesClosed, NotesClosed, Registered, ClosedTables

LEMMA CommitKeepsClosed ==
  ASSUME ClosedTables(committed), ReferentialClosure', Autocommit \/ Commit
  PROVE  ClosedTables(committed)'
<1>1. ClosedTables(Tables)'
  BY ClosureOfTables, PTL
<1> QED BY <1>1 DEF Autocommit, Commit, ClosedTables

LEMMA RelinkClosure ==
  ASSUME ConnectionTypeOK, ReferentialClosure, ClosedTables(committed), NEW c \in Clients,
         call[c].op = "merge", Relink(c)
  PROVE  ReferentialClosure' /\ ClosedTables(committed)'
<1> DEFINE primary == call[c].id
           duplicate == call[c].duplicate
<1>1. primary \in Ids /\ duplicate \in Ids
  BY ConnectionCallFields, StoreCallFields DEF ConnectionTypeOK, OpenStages
<1>2. CASE (\E e \in Edges : Touches(e, duplicate)) /\ ~ Registered(primary)
  BY <1>2, ClosureStutters DEF Relink, tables, memoryTables, ClosedTables
<1>3. CASE ~ ((\E e \in Edges : Touches(e, duplicate)) /\ ~ Registered(primary))
  <2>1. rows' = RelinkedRows(primary, duplicate) /\ UNCHANGED committed
        /\ UNCHANGED <<registry, embeddings, lifecycle, proposals>>
    BY <1>3 DEF Relink, Begin
  <2>2. EdgesClosed'
    <3> SUFFICES ASSUME NEW e \in Edges, rows'[e] # None
                 PROVE  e \in registry' /\ {rows'[e].source, rows'[e].target} \subseteq registry'
      BY DEF EdgesClosed
    <3>1. e \in Ids
      BY DEF Edges
    <3>2. CASE Touches(e, duplicate)
      <4>1. rows[e] \in Fields /\ rows[e] # None
        BY <3>1, <3>2 DEF Touches, ConnectionTypeOK, TablesTypeOK, MemoryTypeOK, Primitive
      <4>2. rows'[e] = Relinked(rows[e], primary, duplicate)
        BY <2>1, <3>1, <3>2 DEF RelinkedRows
      <4>3. /\ rows'[e].source \in {primary, rows[e].source}
            /\ rows'[e].target \in {primary, rows[e].target}
        BY <4>1, <4>2 DEF Relinked, Fields
      <4>4. primary \in registry
        BY <1>1, <1>3, <3>2, DraftAssumption DEF Registered
      <4> QED BY <2>1, <4>1, <4>3, <4>4 DEF ReferentialClosure, EdgesClosed
    <3>3. CASE ~ Touches(e, duplicate)
      <4>1. rows'[e] = rows[e]
        BY <2>1, <3>1, <3>3 DEF RelinkedRows
      <4> QED BY <2>1, <4>1 DEF ReferentialClosure, EdgesClosed
    <3> QED BY <3>2, <3>3
  <2>3. \A n \in Nodes : rows'[n] = rows[n]
    BY <2>1 DEF RelinkedRows, Touches, Nodes
  <2>4. NodesClosed' /\ NotesClosed'
    BY <2>1, <2>3 DEF ReferentialClosure, NodesClosed, NotesClosed, Registered
  <2> QED BY <2>1, <2>2, <2>4 DEF ReferentialClosure, ClosedTables
<1> QED BY <1>2, <1>3

LEMMA MergeStepClosure ==
  ASSUME ConnectionTypeOK, ReferentialClosure, ClosedTables(committed), NEW c \in Clients,
         MergeStep(c)
  PROVE  ReferentialClosure' /\ ClosedTables(committed)'
<1>1. CASE OpenMerge(c)
  <2>1. CASE inTransaction
    BY <1>1, <2>1, ClosureStutters DEF OpenMerge, tables, memoryTables, ClosedTables
  <2> QED BY <1>1, <2>1, RelinkClosure DEF OpenMerge
<1>2. CASE ReadVector(c)
  BY <1>2, ClosureStutters DEF ReadVector, tables, memoryTables, ClosedTables
<1>3. CASE TransferVector(c)
  <2>1. CASE call[c].existing /\ Registered(call[c].id)
    <3>1. call[c].id \in registry
      BY <1>3, <2>1, ConnectionCallFields, DraftAssumption
      DEF ConnectionTypeOK, TransferVector, OpenStages, Registered
    <3>2. ReferentialClosure'
      BY <1>3, <2>1, <3>1 DEF TransferVector, ReferentialClosure, EdgesClosed, NodesClosed,
                              NotesClosed, Registered
    <3> QED BY <1>3, <2>1, <3>2, CommitKeepsClosed DEF TransferVector
  <2>2. CASE ~ (call[c].existing /\ Registered(call[c].id))
    BY <1>3, <2>2, RollbackCloses DEF TransferVector, MergeFails
  <2> QED BY <2>1, <2>2
<1>4. CASE RemoveDuplicate(c)
  <2>1. call[c].duplicate \in Ids
    BY <1>4, ConnectionCallFields DEF ConnectionTypeOK, RemoveDuplicate, OpenStages
  <2>2. ReferentialClosure'
    BY <1>4, <2>1, DeleteClosure DEF RemoveDuplicate, ConnectionTypeOK
  <2> QED BY <1>4, <2>2, CommitKeepsClosed DEF RemoveDuplicate
<1> QED BY <1>1, <1>2, <1>3, <1>4 DEF MergeStep

LEMMA WorkStepClosure ==
  ASSUME ReferentialClosure, ClosedTables(committed), NEW c \in Clients, WorkStep(c)
  PROVE  ReferentialClosure' /\ ClosedTables(committed)'
<1>1. CASE BeginWork(c)
  <2>1. CASE inTransaction
    BY <1>1, <2>1, RollbackCloses DEF BeginWork
  <2>2. CASE ~ inTransaction
    BY <1>1, <2>2, ClosureStutters DEF BeginWork, Begin, tables, memoryTables, ClosedTables
  <2> QED BY <2>1, <2>2
<1>2. CASE FinishWork(c)
  <2>1. ReferentialClosure'
    BY <1>2, ClosureStutters DEF FinishWork, tables, memoryTables
  <2> QED BY <1>2, <2>1, CommitKeepsClosed DEF FinishWork
<1>3. CASE WorkThrows(c)
  BY <1>3, RollbackCloses DEF WorkThrows
<1> QED BY <1>1, <1>2, <1>3 DEF WorkStep

(* No reference dangles, in the open transaction or in what a ROLLBACK goes  *)
(* back to, although calls join transactions, end those of others and write  *)
(* between the steps of a merge.                                             *)
THEOREM ConnectionReferencesResolve == ConnectionSpec => []ReferentialClosure
<1> DEFINE Closed == ReferentialClosure /\ ClosedTables(committed)
<1>1. ConnectionInit => Closed
  <2> SUFFICES ASSUME ConnectionInit PROVE Closed
    OBVIOUS
  <2>1. ReferentialClosure
    BY DEF ConnectionInit, Init, ReferentialClosure, EdgesClosed, NodesClosed, NotesClosed, Nodes, Edges
  <2> QED BY <2>1, ClosureOfTables DEF ConnectionInit
<1>2. ConnectionTypeOK /\ Closed /\ [ConnectionNext]_connectionVars => Closed'
  <2> SUFFICES ASSUME ConnectionTypeOK, Closed, [ConnectionNext]_connectionVars PROVE Closed'
    OBVIOUS
  <2>1. ASSUME NEW c \in Clients, JoinedStep(c)
        PROVE  Closed'
    <3>1. StoreStepAtOnce(c) /\ call[c] \in StoreCall
      BY <2>1, JoinedIsStoreStep DEF ConnectionTypeOK
    <3>2. ReferentialClosure'
      BY <3>1, AtOnceClosure DEF ConnectionTypeOK
    <3> QED BY <2>1, <3>2, CommitKeepsClosed DEF JoinedStep
  <2>2. CASE Tick /\ UNCHANGED <<inTransaction, committed, working, appended>>
    BY <2>2, ClosureStutters DEF Tick, tables, memoryTables, ClosedTables
  <2>3. CASE UNCHANGED connectionVars
    BY <2>3, ClosureStutters DEF connectionVars, vars, tables, memoryTables, ClosedTables
  <2>4. CASE Crash
    BY <2>4, RollbackCloses DEF Crash
  <2> QED BY <2>1, <2>2, <2>3, <2>4, ClientSteps, WorkStepClosure, MergeStepClosure
         DEF ConnectionNext, ConnectionTypeOK
<1> QED BY <1>1, <1>2, ConnectionTypeCorrect, PTL DEF ConnectionSpec

-----------------------------------------------------------------------------
(* The ledger explains the store.                                          *)

(* The last writes of a node in any ledger, and the promise of               *)
(* RecordedMemory of any tables: of what ROLLBACK goes back to as well.      *)
LastWritesIn(log, n) ==
  {k \in 1 .. Len(log) :
     /\ log[k].event.primitive_id = n /\ log[k].event.operation_type \in Writes
     /\ \A m \in k + 1 .. Len(log) :
          ~ (log[m].event.primitive_id = n /\ log[m].event.operation_type \in Writes)}

LastRecordedIn(log, n) ==
  IF LastWritesIn(log, n) = {} THEN None
  ELSE log[CHOOSE k \in LastWritesIn(log, n) : TRUE].event.primitive_jcs_hash.sha256

ExplainedTables(t) ==
  \A n \in Nodes : t.rows[n] # None /\ t.rows[n].status = "active" =>
    t.rows[n] = LastRecordedIn(t.audit_log, n)

(* The promise with nothing left out: created_at is as it was recorded.      *)
Exact ==
  \A n \in Nodes : rows[n] # None /\ rows[n].status = "active" =>
    LastWrites(n) # {} /\ Content(n) = rows[n]

LEMMA PromiseOfTables == Exact <=> ExplainedTables(Tables)
<1>1. \A n \in Nodes : LastWrites(n) = LastWritesIn(audit_log, n)
  BY DEF LastWrites, IsLastWriteOf, IsWriteOf, LastWritesIn
<1>2. ASSUME NEW n \in Nodes
      PROVE  LastRecordedIn(audit_log, n) = IF LastWrites(n) = {} THEN None ELSE Content(n)
  <2>1. LastWrites(n) = LastWritesIn(audit_log, n)
    BY <1>1
  <2> QED BY <2>1, LastDefined DEF LastRecordedIn
<1>3. Tables.rows = rows /\ Tables.audit_log = audit_log
  BY DEF Tables
<1> QED BY <1>2, <1>3 DEF ExplainedTables, Exact

(* What ROLLBACK restores is what was committed, and what COMMIT keeps is    *)
(* what the connection reads.                                                *)
LEMMA RollbackExplains ==
  ASSUME ExplainedTables(committed), Rollback
  PROVE  Exact' /\ ExplainedTables(committed)'
<1>1. ExplainedTables(Tables)' <=> Exact'
  BY PromiseOfTables, PTL
<1>2. Tables'.rows = committed.rows /\ Tables'.audit_log = committed.audit_log
  BY DEF Tables, Rollback
<1>3. ExplainedTables(Tables)'
  BY <1>2 DEF ExplainedTables
<1> QED BY <1>1, <1>3 DEF Rollback, ExplainedTables

LEMMA CommitKeepsExplained ==
  ASSUME ExplainedTables(committed), Exact', Autocommit \/ Commit
  PROVE  ExplainedTables(committed)'
<1>1. ExplainedTables(Tables)'
  BY PromiseOfTables, PTL
<1> QED BY <1>1 DEF Autocommit, Commit, ExplainedTables

(* Rows that go without a record, and rows that come with one.               *)
LEMMA RetirementKeeps ==
  ASSUME Exact, UNCHANGED audit_log,
         \A n \in Nodes : rows'[n] \in {rows[n], None} \/ rows'[n].status = "archived"
  PROVE  Exact'
<1>1. ASSUME NEW n \in Nodes, rows'[n] # None, rows'[n].status = "active"
      PROVE  LastWrites(n)' # {} /\ Content(n)' = rows'[n]
  <2>1. rows'[n] = rows[n]
    BY <1>1
  <2>2. Untold(n) /\ LastWrites(n) # {} /\ Content(n) = rows[n]
    BY <1>1, <2>1, UntoldStays DEF Exact
  <2> QED BY <2>1, <2>2, LastDefined DEF Untold
<1> QED BY <1>1 DEF Exact

LEMMA WriteKeeps ==
  ASSUME TablesTypeOK, Exact, NEW operation \in Writes,
         NEW initiator \in {"human_user", "system", "user"},
         NEW p \in Primitive, Audit(operation, initiator, p), rows' = [rows EXCEPT ![p.id] = p]
  PROVE  Exact'
<1>1. ASSUME NEW n \in Nodes, rows'[n] # None, rows'[n].status = "active"
      PROVE  LastWrites(n)' # {} /\ Content(n)' = rows'[n]
  <2>1. n \in Ids /\ rows \in [Ids -> Primitive \cup {None}]
        /\ audit_log \in Seq(AuditRecord(AuditEvent))
    BY DEF Nodes, TablesTypeOK, MemoryTypeOK
  <2>2. CASE n = p.id
    <3>1. rows'[n] = p
      BY <2>1, <2>2
    <3>2. Told(n, p, operation, initiator)
      BY <2>1, <2>2, WriteTells
    <3> QED BY <3>1, <3>2 DEF Told
  <2>3. CASE n # p.id
    <3>1. rows'[n] = rows[n]
      BY <2>1, <2>3
    <3>2. Untold(n)
      BY <2>1, <2>3, WriteTells
    <3>3. LastWrites(n) # {} /\ Content(n) = rows[n]
      BY <1>1, <3>1 DEF Exact
    <3> QED BY <3>1, <3>2, <3>3, LastDefined DEF Untold
  <2> QED BY <2>2, <2>3
<1> QED BY <1>1 DEF Exact

LEMMA JoinedStepExplains ==
  ASSUME TablesTypeOK, Exact, NEW c \in Clients, call[c] \in StoreCall, JoinedStep(c)
  PROVE  Exact'
<1> USE DEF tables, memoryTables
<1>1. CASE CommitInsert(c)
  <2>1. call[c].primitive \in Primitive
    BY <1>1, StoreCallFields DEF CommitInsert
  <2>2. /\ rows' = [rows EXCEPT ![call[c].primitive.id] = call[c].primitive]
        /\ Audit("CREATE", "human_user", call[c].primitive)
    BY <1>1 DEF CommitInsert, InsertRows
  <2> QED BY <2>1, <2>2, WriteKeeps DEF Writes
<1>2. CASE UpdateAtOnce(c)
  BY <1>2, UpdateAtOnceStores, WriteKeeps DEF Writes
<1>3. CASE CommitArchive(c)
  <2>1. \A n \in Nodes : rows'[n] \in {rows[n], None} \/ rows'[n].status = "archived"
    <3>1. CASE call[c].id \in Archivable /\ rows[call[c].id] # None
      <4>1. PICK q \in Primitive :
              rows' = [rows EXCEPT ![call[c].id] = q] /\ q.status = "archived"
        BY <1>3, <3>1, ArchivedRow
      <4> QED BY <4>1 DEF TablesTypeOK, MemoryTypeOK, Nodes
    <3>2. CASE ~ (call[c].id \in Archivable /\ rows[call[c].id] # None)
      BY <1>3, <3>2 DEF CommitArchive
    <3> QED BY <3>1, <3>2
  <2> QED BY <1>3, <2>1, RetirementKeeps DEF CommitArchive
<1>4. CASE CommitDelete(c)
  <2>1. \A n \in Nodes : rows'[n] \in {rows[n], None}
    BY <1>4 DEF CommitDelete, Nodes
  <2> QED BY <1>4, <2>1, RetirementKeeps DEF CommitDelete
<1>5. CASE ~ (CommitInsert(c) \/ UpdateAtOnce(c) \/ CommitArchive(c) \/ CommitDelete(c))
  <2>1. UNCHANGED <<rows, audit_log>>
    BY <1>5 DEF JoinedStep, BeginInsert, BeginUpdate, BeginOnExisting, CommitEmbed, BeginMerge, Abort
  <2> QED BY <2>1, RetirementKeeps
<1> QED BY <1>1, <1>2, <1>3, <1>4, <1>5

LEMMA MergeStepExplains ==
  ASSUME Exact, ExplainedTables(committed), NEW c \in Clients, MergeStep(c)
  PROVE  Exact' /\ ExplainedTables(committed)'
<1> USE DEF tables, memoryTables
<1>1. CASE OpenMerge(c)
  <2>1. UNCHANGED <<audit_log, committed>>
    BY <1>1 DEF OpenMerge, Relink, Begin
  <2>2. \A n \in Nodes : rows'[n] = rows[n]
    BY <1>1 DEF OpenMerge, Relink, RelinkedRows, Touches, Nodes
  <2> QED BY <2>1, <2>2, RetirementKeeps DEF ExplainedTables
<1>2. CASE ReadVector(c)
  BY <1>2, RetirementKeeps DEF ReadVector, ExplainedTables
<1>3. CASE TransferVector(c)
  <2>1. CASE call[c].existing /\ Registered(call[c].id)
    <3>1. Exact'
      BY <1>3, <2>1, RetirementKeeps DEF TransferVector
    <3> QED BY <1>3, <2>1, <3>1, CommitKeepsExplained DEF TransferVector
  <2>2. CASE ~ (call[c].existing /\ Registered(call[c].id))
    BY <1>3, <2>2, RollbackExplains DEF TransferVector, MergeFails
  <2> QED BY <2>1, <2>2
<1>4. CASE RemoveDuplicate(c)
  <2>1. \A n \in Nodes : rows'[n] \in {rows[n], None}
    BY <1>4 DEF RemoveDuplicate, Nodes
  <2>2. Exact'
    BY <1>4, <2>1, RetirementKeeps DEF RemoveDuplicate
  <2> QED BY <1>4, <2>2, CommitKeepsExplained DEF RemoveDuplicate
<1> QED BY <1>1, <1>2, <1>3, <1>4 DEF MergeStep

LEMMA WorkStepExplains ==
  ASSUME Exact, ExplainedTables(committed), NEW c \in Clients, WorkStep(c)
  PROVE  Exact' /\ ExplainedTables(committed)'
<1>1. CASE BeginWork(c)
  <2>1. CASE inTransaction
    BY <1>1, <2>1, RollbackExplains DEF BeginWork
  <2>2. CASE ~ inTransaction
    BY <1>1, <2>2, RetirementKeeps DEF BeginWork, Begin, tables, memoryTables, ExplainedTables
  <2> QED BY <2>1, <2>2
<1>2. CASE FinishWork(c)
  <2>1. Exact'
    BY <1>2, RetirementKeeps DEF FinishWork, tables, memoryTables
  <2> QED BY <1>2, <2>1, CommitKeepsExplained DEF FinishWork
<1>3. CASE WorkThrows(c)
  BY <1>3, RollbackExplains DEF WorkThrows
<1> QED BY <1>1, <1>2, <1>3 DEF WorkStep

(* The newest audited write of a node carries the digest of its active row,  *)
(* created_at included, as the connection reads both: no ROLLBACK takes back *)
(* a row and leaves its audit row, or the other way round, whichever call's  *)
(* transaction it ends and whichever writes had joined it, and no call comes *)
(* between the read and the write of an update.                              *)
THEOREM ConnectionLedgerExplains == ConnectionSpec => []LedgerMatchesRows
<1> DEFINE Explained == Exact /\ ExplainedTables(committed)
<1>1. ConnectionInit => Explained
  <2> SUFFICES ASSUME ConnectionInit PROVE Explained
    OBVIOUS
  <2>1. Exact
    BY DEF ConnectionInit, Init, Exact, Nodes
  <2> QED BY <2>1, PromiseOfTables DEF ConnectionInit
<1>2. ConnectionTypeOK /\ Explained /\ [ConnectionNext]_connectionVars => Explained'
  <2> SUFFICES ASSUME ConnectionTypeOK, Explained, [ConnectionNext]_connectionVars PROVE Explained'
    OBVIOUS
  <2>1. ASSUME NEW c \in Clients, JoinedStep(c)
        PROVE  Explained'
    <3>1. call[c] \in StoreCall
      BY <2>1, JoinedIsStoreStep DEF ConnectionTypeOK
    <3>2. Exact'
      BY <2>1, <3>1, JoinedStepExplains DEF ConnectionTypeOK
    <3> QED BY <2>1, <3>2, CommitKeepsExplained DEF JoinedStep
  <2>2. CASE (Tick /\ UNCHANGED committed) \/ UNCHANGED connectionVars
    BY <2>2, RetirementKeeps
    DEF Tick, connectionVars, vars, tables, memoryTables, ExplainedTables
  <2>3. CASE Crash
    BY <2>3, RollbackExplains DEF Crash
  <2> QED BY <2>1, <2>2, <2>3, ClientSteps, WorkStepExplains, MergeStepExplains
         DEF ConnectionNext, ConnectionTypeOK
<1>3. ASSUME ConnectionTypeOK, Exact, NEW n \in Nodes, rows[n] # None, rows[n].status = "active"
      PROVE  \E k \in 1 .. Len(audit_log) :
               IsLastWriteOf(k, n) /\ audit_log[k].event.primitive_jcs_hash = JCSHash(rows[n])
  <2>1. LastWrites(n) # {} /\ Content(n) = rows[n]
    BY <1>3 DEF Exact
  <2>2. PICK k \in LastWrites(n) : Last(n) = audit_log[k].event
    BY <2>1, LastDefined
  <2>3. k \in 1 .. Len(audit_log) /\ IsLastWriteOf(k, n)
    BY <2>2 DEF LastWrites
  <2>4. audit_log[k] \in AuditRecord(AuditEvent)
    BY <1>3, <2>3 DEF ConnectionTypeOK, TablesTypeOK
  <2>5. audit_log[k].event.primitive_jcs_hash \in [sha256 : Primitive]
    BY <2>4 DEF AuditRecord, AuditEvent
  <2>6. audit_log[k].event.primitive_jcs_hash.sha256 = rows[n]
    BY <2>1, <2>2, LastDefined
  <2> QED BY <2>3, <2>5, <2>6 DEF JCSHash
<1>4. ConnectionTypeOK /\ Explained => LedgerMatchesRows
  BY <1>3 DEF LedgerMatchesRows
<1> QED BY <1>1, <1>2, <1>4, ConnectionTypeCorrect, PTL DEF ConnectionSpec

-----------------------------------------------------------------------------
(* The ledger verifies, and the search index hides.                        *)

(* A ledger that verifies and one that ROLLBACK goes back to.                *)
Verified == AuditChainValid /\ VerifyAuditChain(committed.audit_log)

(* The chain verifies although rows leave it again: a ROLLBACK takes back a  *)
(* tail of the ledger, and the next row links to what is left.               *)
THEOREM ConnectionChainVerifies == ConnectionSpec => []AuditChainValid
<1>1. ConnectionInit => Verified
  BY DEF ConnectionInit, Init, AuditChainValid, VerifyAuditChain, Verified, Tables
<1>2. ConnectionTypeOK /\ Verified /\ [ConnectionNext]_connectionVars => Verified'
  <2> SUFFICES ASSUME ConnectionTypeOK, Verified, [ConnectionNext]_connectionVars
               PROVE  Verified'
    OBVIOUS
  <2>1. AuditChainValid /\ VerifyAuditChain(committed.audit_log)
    BY DEF Verified
  <2>2. ASSUME Rollback PROVE Verified'
    BY <2>1, <2>2 DEF Rollback, AuditChainValid, Verified
  <2>3. ASSUME AuditChainValid', Autocommit \/ Commit PROVE Verified'
    BY <2>1, <2>3 DEF Autocommit, Commit, AuditChainValid, Verified, Tables
  <2>4. ASSUME UNCHANGED audit_log, UNCHANGED committed \/ Autocommit \/ Commit PROVE Verified'
    BY <2>1, <2>3, <2>4 DEF AuditChainValid, Verified
  <2>5. ASSUME NEW c \in Clients, JoinedStep(c)
        PROVE  Verified'
    <3>1. StoreStepAtOnce(c) /\ call[c] \in StoreCall
      BY <2>5, JoinedIsStoreStep DEF ConnectionTypeOK
    <3>2. AuditChainValid'
      BY <2>1, <3>1, AtOnceAppends, AppendsKeepsChain DEF ConnectionTypeOK, TablesTypeOK
    <3> QED BY <2>3, <2>5, <3>2 DEF JoinedStep
  <2>6. ASSUME NEW c \in Clients, WorkStep(c)
        PROVE  Verified'
    BY <2>2, <2>4, <2>6 DEF WorkStep, BeginWork, Begin, FinishWork, WorkThrows, tables
  <2>7. ASSUME NEW c \in Clients, MergeStep(c)
        PROVE  Verified'
    BY <2>2, <2>4, <2>7 DEF MergeStep, OpenMerge, Relink, Begin, ReadVector, TransferVector,
                            MergeFails, RemoveDuplicate, tables
  <2>8. CASE (Tick /\ UNCHANGED committed) \/ UNCHANGED connectionVars
    BY <2>4, <2>8 DEF Tick, connectionVars, vars, tables
  <2> QED BY <2>2, <2>5, <2>6, <2>7, <2>8, ClientSteps DEF ConnectionNext, ConnectionTypeOK, Crash
<1> QED BY <1>1, <1>2, ConnectionTypeCorrect, PTL DEF ConnectionSpec, Verified

(* SearchIndexHidesRestricted of any tables.                                 *)
HiddenTables(t) ==
  \A i \in Ids : t.fts[i] # None =>
    i \in Nodes /\ t.rows[i] # None /\ t.rows[i].sensitivity # Restricted

IndexHides == SearchIndexHidesRestricted /\ HiddenTables(committed)

(* Search never returns a restricted or deleted memory, uncommitted writes   *)
(* and writes that were rolled back included.                                *)
THEOREM ConnectionSearchStaysPublic == ConnectionSpec => []SearchIndexHidesRestricted
<1>1. ConnectionInit => IndexHides
  BY DEF ConnectionInit, Init, SearchIndexHidesRestricted, HiddenTables, IndexHides, Tables
<1>2. ConnectionTypeOK /\ ReferentialClosure /\ IndexHides /\ [ConnectionNext]_connectionVars
        => IndexHides'
  <2> SUFFICES ASSUME ConnectionTypeOK, ReferentialClosure, IndexHides,
                      [ConnectionNext]_connectionVars
               PROVE  IndexHides'
    OBVIOUS
  <2>1. SearchIndexHidesRestricted /\ HiddenTables(committed)
    BY DEF IndexHides
  <2>2. ASSUME Rollback PROVE IndexHides'
    BY <2>1, <2>2 DEF Rollback, SearchIndexHidesRestricted, HiddenTables, IndexHides
  <2>3. ASSUME SearchIndexHidesRestricted', UNCHANGED committed \/ Autocommit \/ Commit
        PROVE  IndexHides'
    BY <2>1, <2>3
    DEF Autocommit, Commit, SearchIndexHidesRestricted, HiddenTables, IndexHides, Tables
  <2>4. ASSUME UNCHANGED fts, \A n \in Nodes : rows'[n] = rows[n],
               UNCHANGED committed \/ Autocommit \/ Commit
        PROVE  IndexHides'
    BY <2>1, <2>3, <2>4, IndexStutters
  <2>5. ASSUME NEW c \in Clients, JoinedStep(c)
        PROVE  IndexHides'
    <3>1. StoreStepAtOnce(c) /\ call[c] \in StoreCall
      BY <2>5, JoinedIsStoreStep DEF ConnectionTypeOK
    <3>2. SearchIndexHidesRestricted'
      BY <2>1, <3>1, AtOnceIndex DEF ConnectionTypeOK
    <3> QED BY <2>3, <2>5, <3>2 DEF JoinedStep
  <2>6. ASSUME NEW c \in Clients, WorkStep(c)
        PROVE  IndexHides'
    BY <2>2, <2>4, <2>6 DEF WorkStep, BeginWork, Begin, FinishWork, WorkThrows, tables, memoryTables
  <2>7. ASSUME NEW c \in Clients, RemoveDuplicate(c)
        PROVE  IndexHides'
    <3> DEFINE i == call[c].duplicate
    <3>1. i \in Ids /\ Nodes \cap Edges = {}
      BY <2>7, ConnectionCallFields
      DEF ConnectionTypeOK, RemoveDuplicate, OpenStages, Nodes, Edges
    <3>2. fts' = [fts EXCEPT ![i] = None] /\ fts \in [Ids -> Facts \cup {None}]
      BY <2>7 DEF RemoveDuplicate, DeleteFromRegistry, IndexAfterDelete,
                  ConnectionTypeOK, TablesTypeOK, MemoryTypeOK
    <3>3. \A n \in Nodes : n # i => rows'[n] = rows[n]
      BY <2>7, <3>1 DEF RemoveDuplicate, Touches, Nodes
    <3>4. SearchIndexHidesRestricted'
      BY <2>1, <3>1, <3>2, <3>3 DEF SearchIndexHidesRestricted
    <3> QED BY <2>3, <2>7, <3>4 DEF RemoveDuplicate
  <2>8. ASSUME NEW c \in Clients, MergeStep(c), ~ RemoveDuplicate(c)
        PROVE  IndexHides'
    BY <2>2, <2>4, <2>8
    DEF MergeStep, OpenMerge, Relink, RelinkedRows, Touches, Nodes, Edges, Begin, ReadVector,
        TransferVector, MergeFails, tables, memoryTables
  <2>9. CASE (Tick /\ UNCHANGED committed) \/ UNCHANGED connectionVars
    BY <2>4, <2>9 DEF Tick, connectionVars, vars, tables, memoryTables
  <2> QED BY <2>2, <2>5, <2>6, <2>7, <2>8, <2>9, ClientSteps
         DEF ConnectionNext, ConnectionTypeOK, Crash
<1> QED BY <1>1, <1>2, ConnectionTypeCorrect, ConnectionReferencesResolve, PTL
        DEF ConnectionSpec, IndexHides

-----------------------------------------------------------------------------
(* Whose transaction is open.                                              *)

(* A joined step enters no merge past its BEGIN, and nobody else's call      *)
(* moves.                                                                    *)
LEMMA JoinedStepMergesNothing ==
  ASSUME ConnectionTypeOK, NEW c \in Clients, JoinedStep(c)
  PROVE  \A d \in Clients : Merging(d)' => Merging(d) /\ d # c
<1>1. StoreStepAtOnce(c) /\ call[c] \in StoreCall /\ ~ Merging(c)
  BY JoinedIsStoreStep DEF ConnectionTypeOK
<1>2. PICK r \in StoreCall : call' = [call EXCEPT ![c] = r]
  BY <1>1, AtOnceType DEF ConnectionTypeOK
<1>3. r.op \notin OpenStages
  BY DEF StoreCall, Idle, OpenStages
<1> QED BY <1>2, <1>3 DEF Merging, ConnectionTypeOK

(* What each step of a merge does to the transaction and to its call.        *)
LEMMA MergeStepStages ==
  ASSUME ConnectionTypeOK, NEW c \in Clients, MergeStep(c)
  PROVE  /\ \A d \in Clients : d # c => call'[d] = call[d]
         /\ \/ /\ UNCHANGED inTransaction
               /\ Merging(c)' <=> Merging(c)
            \/ ~ inTransaction' /\ ~ Merging(c)'
            \/ ~ inTransaction /\ inTransaction' /\ Merging(c)'
<1> USE DEF ConnectionTypeOK, Merging, OpenStages
<1>1. CASE OpenMerge(c)
  BY <1>1 DEF OpenMerge, Relink, Return, Idle, Begin
<1>2. CASE ReadVector(c)
  BY <1>2 DEF ReadVector
<1>3. CASE TransferVector(c)
  <2>1. CASE call[c].existing /\ Registered(call[c].id)
    BY <1>3, <2>1 DEF TransferVector, Autocommit
  <2>2. CASE ~ (call[c].existing /\ Registered(call[c].id))
    BY <1>3, <2>2 DEF TransferVector, MergeFails, Rollback, Return, Idle
  <2> QED BY <2>1, <2>2
<1>4. CASE RemoveDuplicate(c)
  BY <1>4 DEF RemoveDuplicate, Commit, Return, Idle
<1> QED BY <1>1, <1>2, <1>3, <1>4 DEF MergeStep

(* Every transaction that is opened is ended, by whoever opened it at the    *)
(* latest: each way out of executeTransaction and of a merge past its BEGIN  *)
(* is a COMMIT or a ROLLBACK.                                                *)
THEOREM NoTransactionIsLeftOpen == ConnectionSpec => []NoTransactionLeftOpen
<1>1. ConnectionInit => NoTransactionLeftOpen
  BY DEF ConnectionInit, NoTransactionLeftOpen
<1>2. ConnectionTypeOK /\ NoTransactionLeftOpen /\ [ConnectionNext]_connectionVars
        => NoTransactionLeftOpen'
  <2> SUFFICES ASSUME ConnectionTypeOK, NoTransactionLeftOpen, [ConnectionNext]_connectionVars,
                      inTransaction'
               PROVE  \E d \in Clients : d \in working' \/ Merging(d)'
    BY DEF NoTransactionLeftOpen
  <2>1. ASSUME NEW c \in Clients, JoinedStep(c)
        PROVE  \E d \in Clients : d \in working' \/ Merging(d)'
    <3>1. inTransaction /\ working' = working /\ ~ Merging(c)
      BY <2>1, JoinedIsStoreStep DEF JoinedStep, Autocommit, ConnectionTypeOK
    <3>2. PICK r \in StoreCall : call' = [call EXCEPT ![c] = r]
      BY <2>1, JoinedIsStoreStep, AtOnceType DEF ConnectionTypeOK
    <3> QED BY <3>1, <3>2 DEF NoTransactionLeftOpen, Merging, ConnectionTypeOK
  <2>2. ASSUME NEW c \in Clients, WorkStep(c)
        PROVE  \E d \in Clients : d \in working' \/ Merging(d)'
    BY <2>2 DEF WorkStep, BeginWork, FinishWork, WorkThrows, Commit, Rollback, Begin
  <2>3. ASSUME NEW c \in Clients, MergeStep(c)
        PROVE  \E d \in Clients : d \in working' \/ Merging(d)'
    <3>1. working' = working
      BY <2>3 DEF MergeStep, OpenMerge, ReadVector, TransferVector, RemoveDuplicate
    <3>2. CASE Merging(c)'
      BY <3>2
    <3>3. CASE ~ Merging(c)'
      <4>1. inTransaction /\ ~ Merging(c)
        BY <2>3, <3>3, MergeStepStages
      <4>2. \A d \in Clients : Merging(d) => Merging(d)'
        BY <2>3, <4>1, MergeStepStages DEF Merging
      <4> QED BY <3>1, <4>1, <4>2 DEF NoTransactionLeftOpen
    <3> QED BY <3>2, <3>3
  <2>4. CASE Tick /\ UNCHANGED <<inTransaction, committed, working, appended>>
    BY <2>4 DEF Tick, NoTransactionLeftOpen, Merging
  <2>5. CASE UNCHANGED connectionVars
    BY <2>5 DEF connectionVars, vars, NoTransactionLeftOpen, Merging
  <2>6. CASE Crash
    BY <2>6 DEF Crash, Rollback
  <2> QED BY <2>1, <2>2, <2>3, <2>4, <2>5, <2>6, ClientSteps DEF ConnectionNext, ConnectionTypeOK
<1> QED BY <1>1, <1>2, ConnectionTypeCorrect, PTL DEF ConnectionSpec

(* Where nobody calls executeTransaction, the failing BEGIN of mergeMemories *)
(* is a lock: a merge past it has the open transaction to itself.            *)
THEOREM MergesAreExclusive == ConnectionSpec => []MergesExclude
<1> DEFINE Exclusive == \A c \in Clients : Merging(c) =>
             inTransaction /\ \A d \in Clients : Merging(d) => d = c
           Alone == Exclusive /\ working = {}
           Inv == NobodyTransacts => Alone
<1>1. ConnectionInit => Inv
  BY DEF ConnectionInit, Init, Merging, OpenStages, Idle
<1>2. ConnectionTypeOK /\ Inv /\ [ConnectionNext]_connectionVars => Inv'
  <2> SUFFICES ASSUME ConnectionTypeOK, Alone, NobodyTransacts, [ConnectionNext]_connectionVars
               PROVE  Alone'
    BY DEF NobodyTransacts, ConnectionNext, connectionVars
  <2>1. ASSUME NEW c \in Clients, JoinedStep(c)
        PROVE  Alone'
    BY <2>1, JoinedStepMergesNothing DEF JoinedStep, Autocommit
  <2>2. ASSUME NEW c \in callers, WorkStep(c)
        PROVE  FALSE
    BY <2>2 DEF NobodyTransacts, WorkStep, BeginWork, FinishWork, WorkThrows
  <2>3. ASSUME NEW c \in Clients, MergeStep(c)
        PROVE  Alone'
    <3>1. working' = {}
      BY <2>3 DEF MergeStep, OpenMerge, ReadVector, TransferVector, RemoveDuplicate
    <3>2. \A d \in Clients : d # c => (Merging(d)' <=> Merging(d))
      BY <2>3, MergeStepStages DEF Merging
    <3>3. \/ UNCHANGED inTransaction /\ (Merging(c)' <=> Merging(c))
          \/ ~ inTransaction' /\ ~ Merging(c)'
          \/ ~ inTransaction /\ inTransaction' /\ Merging(c)'
      BY <2>3, MergeStepStages
    <3>4. CASE ~ inTransaction' /\ ~ Merging(c)'
      <4>1. MergeStep(c) /\ (Merging(c) \/ ~ inTransaction)
        BY <2>3, <3>4 DEF MergeStep, OpenMerge, ReadVector, TransferVector, RemoveDuplicate,
                          Merging, OpenStages
      <4>2. \A d \in Clients : Merging(d) => d = c
        BY <4>1
      <4> QED BY <3>1, <3>2, <3>4, <4>2
    <3> QED BY <3>1, <3>2, <3>3, <3>4
  <2>4. CASE Tick /\ UNCHANGED <<inTransaction, committed, working, appended>>
    BY <2>4 DEF Tick, Merging
  <2>5. CASE UNCHANGED connectionVars
    BY <2>5 DEF connectionVars, vars, Merging
  <2>6. CASE Crash
    BY <2>6 DEF Crash, Merging, OpenStages, Idle
  <2> QED BY <2>1, <2>2, <2>3, <2>4, <2>5, <2>6, ClientSteps DEF ConnectionNext, ConnectionTypeOK
<1>3. Inv => MergesExclude
  BY DEF MergesExclude
<1> QED BY <1>1, <1>2, <1>3, ConnectionTypeCorrect, PTL DEF ConnectionSpec

-----------------------------------------------------------------------------
(* What an await of a merge lets in.                                         *)

(* A merge names two memories; outside of transactions the file has what the *)
(* connection reads.                                                         *)
MergesDistinct ==
  \A c \in Clients : call[c].op \in OpenStages \cup {"merge"} => call[c].id # call[c].duplicate

Synchronous == ~ inTransaction => committed = Tables

LEMMA StartOfMerge ==
  ASSUME ConnectionTypeOK, MergesDistinct, NEW c \in Clients, JoinedStep(c)
  PROVE  MergesDistinct'
<1>1. CASE BeginMerge(c)
  BY <1>1 DEF BeginMerge, Start, MergesDistinct, ConnectionTypeOK
<1>2. CASE ~ BeginMerge(c)
  <2>1. call'[c].op \notin OpenStages \cup {"merge"} \/ UNCHANGED call
    BY <1>2 DEF JoinedStep, BeginInsert, CommitInsert, BeginUpdate, UpdateAtOnce, BeginOnExisting,
       CommitArchive, CommitDelete, CommitEmbed, Abort, Start, Return, Idle, OpenStages,
       ConnectionTypeOK
  <2>2. \A d \in Clients : d # c => call'[d] = call[d]
    BY JoinedIsStoreStep, AtOnceType DEF ConnectionTypeOK
  <2> QED BY <2>1, <2>2 DEF MergesDistinct
<1> QED BY <1>1, <1>2

LEMMA MergeStepDistinct ==
  ASSUME ConnectionTypeOK, MergesDistinct, NEW c \in Clients, MergeStep(c)
  PROVE  MergesDistinct'
<1>1. \A d \in Clients : d # c => call'[d] = call[d]
  BY MergeStepStages
<1>2. call'[c].op \in OpenStages \cup {"merge"} => call'[c].id # call'[c].duplicate
  <2> USE DEF ConnectionTypeOK, MergesDistinct, OpenStages
  <2>1. CASE OpenMerge(c)
    BY <2>1 DEF OpenMerge, Relink, Return, Idle
  <2>2. CASE ReadVector(c)
    BY <2>2 DEF ReadVector
  <2>3. CASE TransferVector(c)
    BY <2>3 DEF TransferVector, MergeFails, Return, Idle
  <2>4. CASE RemoveDuplicate(c)
    BY <2>4 DEF RemoveDuplicate, Return, Idle
  <2> QED BY <2>1, <2>2, <2>3, <2>4 DEF MergeStep
<1> QED BY <1>1, <1>2 DEF MergesDistinct

LEMMA RollbackSynchronous ==
  ASSUME ConnectionTypeOK, Rollback
  PROVE  Synchronous'
<1>1. committed = [ registry |-> committed.registry, rows |-> committed.rows,
                    fts |-> committed.fts, embeddings |-> committed.embeddings,
                    lifecycle |-> committed.lifecycle, proposals |-> committed.proposals,
                    audit_log |-> committed.audit_log ]
  BY DEF ConnectionTypeOK, TablesSet
<1> QED BY <1>1 DEF Rollback, Synchronous, Tables

LEMMA AutocommitSynchronous ==
  ASSUME Synchronous, Autocommit \/ Commit
  PROVE  Synchronous'
BY DEF Synchronous, Autocommit, Commit

LEMMA MergeStepSynchronous ==
  ASSUME ConnectionTypeOK, Synchronous, NEW c \in Clients, MergeStep(c)
  PROVE  Synchronous'
<1>1. CASE OpenMerge(c)
  BY <1>1 DEF OpenMerge, Relink, Begin, Synchronous, Tables, tables, memoryTables
<1>2. CASE ReadVector(c)
  BY <1>2 DEF ReadVector, Synchronous, Tables, tables, memoryTables
<1>3. CASE TransferVector(c)
  BY <1>3, AutocommitSynchronous, RollbackSynchronous DEF TransferVector, MergeFails
<1>4. CASE RemoveDuplicate(c)
  BY <1>4, AutocommitSynchronous DEF RemoveDuplicate
<1> QED BY <1>1, <1>2, <1>3, <1>4 DEF MergeStep

LEMMA WorkStepSynchronous ==
  ASSUME ConnectionTypeOK, Synchronous, NEW c \in Clients, WorkStep(c)
  PROVE  Synchronous'
<1>1. CASE BeginWork(c)
  BY <1>1, RollbackSynchronous DEF BeginWork, Begin, Synchronous
<1>2. CASE FinishWork(c)
  BY <1>2, AutocommitSynchronous DEF FinishWork
<1>3. CASE WorkThrows(c)
  BY <1>3, RollbackSynchronous DEF WorkThrows
<1> QED BY <1>1, <1>2, <1>3 DEF WorkStep

LEMMA ConnectionBookkeeping == ConnectionSpec => [](MergesDistinct /\ Synchronous)
<1>1. ConnectionInit => MergesDistinct /\ Synchronous
  BY DEF ConnectionInit, Init, MergesDistinct, Synchronous, OpenStages, Idle
<1>2. ConnectionTypeOK /\ MergesDistinct /\ Synchronous /\ [ConnectionNext]_connectionVars
        => (MergesDistinct /\ Synchronous)'
  <2> SUFFICES ASSUME ConnectionTypeOK, MergesDistinct, Synchronous,
                      [ConnectionNext]_connectionVars
               PROVE  MergesDistinct' /\ Synchronous'
    OBVIOUS
  <2>1. ASSUME NEW c \in Clients, JoinedStep(c)
        PROVE  MergesDistinct' /\ Synchronous'
    BY <2>1, StartOfMerge, AutocommitSynchronous DEF JoinedStep
  <2>2. ASSUME NEW c \in Clients, WorkStep(c)
        PROVE  MergesDistinct' /\ Synchronous'
    <3>1. call'[c] = Idle \/ UNCHANGED call
      BY <2>2 DEF WorkStep, BeginWork, FinishWork, WorkThrows, Leave, Return, ConnectionTypeOK
    <3>2. \A d \in Clients : d # c => call'[d] = call[d]
      BY <2>2 DEF WorkStep, BeginWork, FinishWork, WorkThrows, Leave, Return, ConnectionTypeOK
    <3>3. MergesDistinct'
      BY <3>1, <3>2 DEF MergesDistinct, Idle, OpenStages
    <3> QED BY <2>2, <3>3, WorkStepSynchronous
  <2>3. ASSUME NEW c \in Clients, MergeStep(c)
        PROVE  MergesDistinct' /\ Synchronous'
    BY <2>3, MergeStepDistinct, MergeStepSynchronous
  <2>4. CASE Tick /\ UNCHANGED <<inTransaction, committed, working, appended>>
    BY <2>4 DEF Tick, MergesDistinct, Synchronous, Tables, tables, memoryTables
  <2>5. CASE UNCHANGED connectionVars
    BY <2>5 DEF connectionVars, vars, MergesDistinct, Synchronous, Tables, tables, memoryTables
  <2>6. CASE Crash
    <3>1. MergesDistinct'
      BY <2>6 DEF Crash, MergesDistinct, Idle, OpenStages
    <3> QED BY <2>6, <3>1, RollbackSynchronous DEF Crash
  <2> QED BY <2>1, <2>2, <2>3, <2>4, <2>5, <2>6, ClientSteps DEF ConnectionNext, ConnectionTypeOK
<1> QED BY <1>1, <1>2, ConnectionTypeCorrect, PTL DEF ConnectionSpec

(* Only an insertion makes a relation touch a primitive it did not touch.    *)
Created(e) ==
  /\ Len(audit_log') = Len(audit_log) + 1
  /\ audit_log'[Len(audit_log')].event.primitive_id = e
  /\ audit_log'[Len(audit_log')].event.operation_type = "CREATE"

LEMMA JoinedStepTouches ==
  ASSUME ConnectionTypeOK, NEW c \in Clients, JoinedStep(c),
         NEW e \in Edges, NEW i \in Ids, Touches(e, i)'
  PROVE  Touches(e, i) \/ Created(e)
<1>0. e \in Ids /\ TablesTypeOK /\ call[c] \in StoreCall
  BY JoinedIsStoreStep DEF Edges, ConnectionTypeOK
<1>1. CASE CommitInsert(c)
  <2> DEFINE p == call[c].primitive
  <2>1. p \in Primitive /\ p.id \in Ids
    BY <1>0, <1>1, StoreCallFields DEF CommitInsert, Primitive, Fields
  <2>2. rows' = [rows EXCEPT ![p.id] = p] /\ Audit("CREATE", "human_user", p)
    BY <1>1 DEF CommitInsert, InsertRows
  <2>3. CASE e = p.id
    <3>1. audit_log \in Seq(AuditRecord(AuditEvent))
      BY <1>0 DEF TablesTypeOK
    <3> DEFINE event == [ primitive_id |-> p.id, operation_type |-> "CREATE",
                          initiator |-> "human_user", primitive_jcs_hash |-> JCSHash(p) ]
    <3>2. event \in AuditEvent /\ audit_log' = AppendAuditRecord(audit_log, event)
      BY <2>1, <2>2 DEF Audit, AuditEvent, JCSHash, Primitive, Fields
    <3>3. event.primitive_id = e /\ event.operation_type = "CREATE"
      BY <2>3
    <3> HIDE DEF event
    <3> QED BY <3>1, <3>2, <3>3, AppendedRow DEF Created
  <2>4. CASE e # p.id
    BY <1>0, <2>2, <2>4 DEF Touches, TablesTypeOK, MemoryTypeOK
  <2> QED BY <2>3, <2>4
<1>2. CASE UpdateAtOnce(c)
  <2>1. PICK p \in Primitive : UpdateRows(p, call[c].base.updated_at)
    BY <1>0, <1>2, UpdateAtOnceStores
  <2> QED BY <1>0, <2>1 DEF UpdateRows, Touches, TablesTypeOK, MemoryTypeOK, Primitive, Fields
<1>3. CASE CommitArchive(c)
  BY <1>0, <1>3 DEF CommitArchive, Touches, TablesTypeOK, MemoryTypeOK, Primitive, Fields
<1>4. CASE CommitDelete(c)
  BY <1>0, <1>4 DEF CommitDelete, Touches
<1>5. CASE ~ (CommitInsert(c) \/ UpdateAtOnce(c) \/ CommitArchive(c) \/ CommitDelete(c))
  <2>1. UNCHANGED rows
    BY <1>5 DEF JoinedStep, BeginInsert, BeginUpdate, BeginOnExisting, CommitEmbed, BeginMerge,
                Abort, tables, memoryTables
  <2> QED BY <2>1 DEF Touches
<1> QED BY <1>1, <1>2, <1>3, <1>4, <1>5

(* What was created while a merge awaits stays in the ledger behind what the *)
(* file has.                                                                 *)
LEMMA CreatedStays ==
  ASSUME ConnectionTypeOK, UNCHANGED committed, UNCHANGED audit_log \/ Appends,
         Len(committed.audit_log) <= Len(audit_log)
  PROVE  /\ Len(committed.audit_log)' <= Len(audit_log)'
         /\ \A e \in Edges : CreatedMeanwhile(e) \/ Created(e) => CreatedMeanwhile(e)'
<1>0. /\ audit_log \in Seq(AuditRecord(AuditEvent))
      /\ Len(audit_log) \in Nat /\ Len(committed.audit_log) \in Nat
  BY DEF ConnectionTypeOK, TablesTypeOK, TablesSet
<1>1. CASE UNCHANGED audit_log
  BY <1>0, <1>1 DEF CreatedMeanwhile, Created
<1>2. CASE Appends
  <2>1. /\ Len(audit_log') = Len(audit_log) + 1
        /\ \A k \in 1 .. Len(audit_log) : audit_log'[k] = audit_log[k]
    BY <1>0, <1>2, AppendedRow DEF Appends
  <2> QED BY <1>0, <2>1 DEF CreatedMeanwhile, Created
<1> QED BY <1>1, <1>2

(* While a merge awaits, a relation that touches the duplicate is new.       *)
TouchedAreNew(c) ==
  /\ inTransaction
  /\ Len(committed.audit_log) <= Len(audit_log)
  /\ \A e \in Edges : Touches(e, call[c].duplicate) => CreatedMeanwhile(e)

LEMMA RelinkTouchesNothing ==
  ASSUME ConnectionTypeOK, MergesDistinct, Synchronous, NEW c \in Clients,
         call[c].op = "merge", Relink(c), Merging(c)', ~ inTransaction
  PROVE  TouchedAreNew(c)'
<1> DEFINE primary == call[c].id
           duplicate == call[c].duplicate
<1>1. primary \in Ids /\ duplicate \in Ids /\ primary # duplicate
  BY ConnectionCallFields, StoreCallFields DEF ConnectionTypeOK, OpenStages, MergesDistinct
<1>2. ~ ((\E e \in Edges : Touches(e, duplicate)) /\ ~ Registered(primary))
  BY DEF Relink, Return, Merging, Idle, OpenStages, ConnectionTypeOK
<1>3. /\ inTransaction' /\ UNCHANGED <<committed, audit_log>>
      /\ rows' = RelinkedRows(primary, duplicate)
      /\ call'[c].duplicate = duplicate
  BY <1>2 DEF Relink, Begin, ConnectionTypeOK
<1>4. committed.audit_log = audit_log /\ Len(audit_log) \in Nat
  BY DEF Synchronous, Tables, ConnectionTypeOK, TablesTypeOK
<1>5. ASSUME NEW e \in Edges
      PROVE  rows'[e] = None \/ duplicate \notin {rows'[e].source, rows'[e].target}
  <2>1. e \in Ids
    BY DEF Edges
  <2>2. CASE Touches(e, duplicate)
    <3>1. rows[e] \in Fields
      BY <2>1, <2>2 DEF Touches, ConnectionTypeOK, TablesTypeOK, MemoryTypeOK, Primitive
    <3>2. rows'[e] = Relinked(rows[e], primary, duplicate)
      BY <1>3, <2>1, <2>2 DEF RelinkedRows
    <3>3. duplicate \notin {rows'[e].source, rows'[e].target}
      BY <1>1, <3>1, <3>2 DEF Relinked, Fields
    <3> QED BY <3>3
  <2>3. CASE ~ Touches(e, duplicate)
    <3>1. rows'[e] = rows[e]
      BY <1>3, <2>1, <2>3 DEF RelinkedRows
    <3> QED BY <2>3, <3>1 DEF Touches
  <2> QED BY <2>2, <2>3
<1> QED BY <1>3, <1>4, <1>5 DEF TouchedAreNew, Touches

LEMMA MergeStepTouches ==
  ASSUME ConnectionTypeOK, MergesDistinct, Synchronous, NEW c \in Clients, MergeStep(c),
         Merging(c)', Merging(c) => TouchedAreNew(c)
  PROVE  TouchedAreNew(c)'
<1> USE DEF ConnectionTypeOK, Merging, OpenStages
<1>1. CASE OpenMerge(c)
  <2>1. ~ inTransaction /\ Relink(c)
    BY <1>1 DEF OpenMerge, Return, Idle
  <2> QED BY <1>1, <2>1, RelinkTouchesNothing DEF OpenMerge
<1>2. CASE ReadVector(c)
  BY <1>2 DEF ReadVector, TouchedAreNew, Touches, CreatedMeanwhile, tables, memoryTables
<1>3. CASE TransferVector(c)
  <2>1. call[c].existing /\ Registered(call[c].id)
    BY <1>3 DEF TransferVector, MergeFails, Return, Idle
  <2> QED BY <1>3, <2>1 DEF TransferVector, Autocommit, TouchedAreNew, Touches, CreatedMeanwhile
<1>4. CASE RemoveDuplicate(c)
  BY <1>4 DEF RemoveDuplicate, Return, Idle
<1> QED BY <1>1, <1>2, <1>3, <1>4 DEF MergeStep

(* Where nobody calls executeTransaction, the cascade at the end of a merge   *)
(* takes no relation that was there when the merge began: all of them name   *)
(* the primary by then.                                                      *)
THEOREM MergesTakeNewEdgesOnly == ConnectionSpec => MergeTakesNewEdgesOnly
<1> DEFINE Inv == NobodyTransacts =>
             working = {} /\ \A c \in Clients : Merging(c) => TouchedAreNew(c)
<1>1. ConnectionInit => Inv
  BY DEF ConnectionInit, Init, Merging, OpenStages, Idle
<1>2. ConnectionTypeOK /\ MergesExclude /\ MergesDistinct /\ Synchronous /\ Inv
        /\ [ConnectionNext]_connectionVars => Inv'
  <2> SUFFICES ASSUME ConnectionTypeOK, MergesExclude, MergesDistinct, Synchronous, NobodyTransacts,
                      working = {}, \A d \in Clients : Merging(d) => TouchedAreNew(d),
                      [ConnectionNext]_connectionVars
               PROVE  working' = {} /\ \A c \in Clients : Merging(c)' => TouchedAreNew(c)'
    BY DEF NobodyTransacts, ConnectionNext, connectionVars
  <2>0. working' = {}
    <3>1. ASSUME NEW d \in callers PROVE ~ WorkStep(d)
      BY <3>1 DEF NobodyTransacts, WorkStep, BeginWork, FinishWork, WorkThrows
    <3>2. ASSUME NEW d \in Clients, JoinedStep(d) \/ MergeStep(d) PROVE working' = {}
      BY <3>2 DEF JoinedStep, MergeStep, OpenMerge, ReadVector, TransferVector, RemoveDuplicate
    <3>3. CASE Crash
      BY <3>3 DEF Crash
    <3>4. CASE UNCHANGED connectionVars
      BY <3>4 DEF connectionVars
    <3> QED BY <3>1, <3>2, <3>3, <3>4, ClientSteps DEF ConnectionNext, ConnectionTypeOK
  <2> SUFFICES ASSUME NEW c \in Clients, Merging(c)' PROVE TouchedAreNew(c)'
    BY <2>0
  <2> USE DEF ConnectionTypeOK
  <2>1. ASSUME NEW d \in Clients, JoinedStep(d)
        PROVE  TouchedAreNew(c)'
    <3>1. Merging(c) /\ d # c
      BY <2>1, JoinedStepMergesNothing
    <3>2. call'[c] = call[c] /\ (UNCHANGED audit_log \/ Appends)
      BY <2>1, <3>1, JoinedIsStoreStep, AtOnceType, AtOnceAppends
    <3>3. TouchedAreNew(c) /\ call[c].duplicate \in Ids
      BY <3>1, ConnectionCallFields DEF Merging
    <3>4. inTransaction' /\ UNCHANGED committed
      BY <2>1, <3>3 DEF JoinedStep, Autocommit, TouchedAreNew
    <3>5. \A e \in Edges : Touches(e, call[c].duplicate)' =>
            CreatedMeanwhile(e) \/ Created(e)
      <4> SUFFICES ASSUME NEW e \in Edges, Touches(e, call[c].duplicate)'
                   PROVE  CreatedMeanwhile(e) \/ Created(e)
        OBVIOUS
      <4> DEFINE i == call[c].duplicate
      <4>1. Touches(e, i)' <=> e \in Edges /\ rows'[e] # None /\ i' \in {rows'[e].source, rows'[e].target}
        BY DEF Touches
      <4>2. i' = i
        BY <3>2
      <4> QED BY <2>1, <3>3, <4>1, <4>2, JoinedStepTouches DEF Touches, TouchedAreNew
    <3> QED BY <3>3, <3>4, <3>5, <3>2, CreatedStays DEF TouchedAreNew
  <2>2. ASSUME NEW d \in callers, WorkStep(d)
        PROVE  FALSE
    BY <2>2 DEF NobodyTransacts, WorkStep, BeginWork, FinishWork, WorkThrows
  <2>3. ASSUME NEW d \in Clients, MergeStep(d)
        PROVE  TouchedAreNew(c)'
    <3>1. CASE d = c
      BY <2>3, <3>1, MergeStepTouches
    <3>2. CASE d # c
      <4>1. Merging(c) /\ call'[c] = call[c]
        BY <2>3, <3>2, MergeStepStages DEF Merging
      <4>2. ~ Merging(d) /\ inTransaction
        BY <3>2, <4>1 DEF MergesExclude
      <4>3. UNCHANGED <<tables, inTransaction, committed>>
        BY <2>3, <4>2 DEF MergeStep, OpenMerge, ReadVector, TransferVector, RemoveDuplicate,
                          Merging, OpenStages
      <4> QED BY <4>1, <4>3 DEF TouchedAreNew, Touches, CreatedMeanwhile, tables, memoryTables
    <3> QED BY <3>1, <3>2
  <2>4. CASE Tick /\ UNCHANGED <<inTransaction, committed, working, appended>>
    BY <2>4 DEF Tick, Merging, TouchedAreNew, Touches, CreatedMeanwhile, tables, memoryTables
  <2>5. CASE UNCHANGED connectionVars
    BY <2>5 DEF connectionVars, vars, Merging, TouchedAreNew, Touches, CreatedMeanwhile, tables,
                memoryTables
  <2>6. CASE Crash
    BY <2>6 DEF Crash, Merging, OpenStages, Idle
  <2> QED BY <2>1, <2>2, <2>3, <2>4, <2>5, <2>6, ClientSteps DEF ConnectionNext
<1>3. Inv => [NobodyTransacts =>
                \A c \in Clients : RemoveDuplicate(c) =>
                  \A e \in Edges \ {call[c].duplicate} :
                    rows[e] # None /\ rows'[e] = None => CreatedMeanwhile(e)]_connectionVars
  <2> SUFFICES ASSUME Inv, NobodyTransacts, NEW c \in Clients, RemoveDuplicate(c),
                      NEW e \in Edges \ {call[c].duplicate}, rows[e] # None, rows'[e] = None
               PROVE  CreatedMeanwhile(e)
    OBVIOUS
  <2>1. Merging(c) /\ e \in Ids
    BY DEF RemoveDuplicate, Merging, OpenStages, Edges
  <2>2. Touches(e, call[c].duplicate)
    BY <2>1 DEF RemoveDuplicate
  <2> QED BY <2>1, <2>2 DEF TouchedAreNew
<1> QED BY <1>1, <1>2, <1>3, ConnectionTypeCorrect, MergesAreExclusive, ConnectionBookkeeping, PTL
        DEF ConnectionSpec, MergeTakesNewEdgesOnly

-----------------------------------------------------------------------------
(* executeTransaction where it is alone.                                   *)

(* Appending keeps the digests there are.                                    *)
LEMMA AppendsKeepDigests ==
  ASSUME audit_log \in Seq(AuditRecord(AuditEvent)), UNCHANGED audit_log \/ Appends
  PROVE  Digests(audit_log) \subseteq Digests(audit_log')
<1>1. CASE UNCHANGED audit_log
  BY <1>1 DEF Digests
<1>2. CASE Appends
  <2>1. PICK event \in AuditEvent : audit_log' = AppendAuditRecord(audit_log, event)
    BY <1>2 DEF Appends
  <2>2. /\ Len(audit_log) \in Nat /\ Len(audit_log') = Len(audit_log) + 1
        /\ \A k \in 1 .. Len(audit_log) : audit_log'[k] = audit_log[k]
    BY <2>1, AppendedRow
  <2>3. \A k \in 1 .. Len(audit_log) : k \in 1 .. Len(audit_log')
    BY <2>2
  <2> QED BY <2>2, <2>3 DEF Digests
<1> QED BY <1>1, <1>2

(* The transaction that is open is the one of the one client at work, and    *)
(* what it has appended is in the tables and not in the file.                *)
OwnTransaction ==
  /\ ~ inTransaction => committed = Tables
  /\ inTransaction <=> working # {}
  /\ working \subseteq callers
  /\ \A c \in working : "transact" \in Operations[c]
  /\ \A c \in Clients : call[c].op \notin OpenStages \cup {"merge"}
  /\ Digests(committed.audit_log) \subseteq Digests(audit_log)
  /\ \A c \in Clients \ working : appended[c] = {}
  /\ \A c \in working :
       appended[c] \subseteq Digests(audit_log) \ Digests(committed.audit_log)

LEMMA OwnTransactionJoined ==
  ASSUME ConnectionTypeOK, OwnTransaction, NEW c \in callers, JoinedStep(c), OneTransacts, UNCHANGED callers
  PROVE  OwnTransaction'
<1>0. c \in Clients /\ "merge" \notin Operations[c]
  BY DEF ConnectionTypeOK, OneTransacts
<1>1. StoreStepAtOnce(c) /\ call[c] \in StoreCall
  BY <1>0, JoinedIsStoreStep DEF ConnectionTypeOK
<1>2. Digests(audit_log) \subseteq Digests(audit_log')
  BY <1>1, AtOnceAppends, AppendsKeepDigests DEF ConnectionTypeOK, TablesTypeOK
<1>3. UNCHANGED <<inTransaction, working>>
  BY DEF JoinedStep, Autocommit
<1>4. \A d \in Clients : call'[d].op \notin OpenStages \cup {"merge"}
  <2>1. PICK r \in StoreCall : call' = [call EXCEPT ![c] = r]
    BY <1>0, <1>1, AtOnceType DEF ConnectionTypeOK
  <2>2. r.op \notin OpenStages
    BY DEF StoreCall, Idle, OpenStages
  <2>3. ~ BeginMerge(c)
    BY <1>0 DEF BeginMerge, Start
  <2>4. call'[c] = r
    BY <1>0, <2>1 DEF ConnectionTypeOK
  <2>5. r.op # "merge"
    BY <2>3, <2>4 DEF JoinedStep, BeginInsert, CommitInsert, BeginUpdate, UpdateAtOnce,
       BeginOnExisting, CommitArchive, CommitDelete, CommitEmbed, Abort, Start, Return, Idle,
       ConnectionTypeOK
  <2> QED BY <2>1, <2>2, <2>5 DEF OwnTransaction, ConnectionTypeOK
<1>5. CASE inTransaction
  <2>1. UNCHANGED committed
    BY <1>5 DEF JoinedStep, Autocommit
  <2>2. \A d \in Clients : appended'[d] =
          IF d = c /\ c \in working
          THEN appended[d] \cup (Digests(audit_log') \ Digests(audit_log)) ELSE appended[d]
    BY DEF JoinedStep, ConnectionTypeOK
  <2>3. working \subseteq Clients
    BY DEF ConnectionTypeOK
  <2>4. \A d \in working' :
          appended'[d] \subseteq Digests(audit_log') \ Digests(committed.audit_log)
    BY <1>2, <1>3, <2>2, <2>3 DEF OwnTransaction
  <2>5. \A d \in Clients \ working' : appended'[d] = {}
    BY <1>3, <2>2 DEF OwnTransaction
  <2>6. Digests(committed.audit_log)' \subseteq Digests(audit_log)'
    BY <1>2, <2>1 DEF OwnTransaction, Digests
  <2>7. Digests(committed.audit_log)' = Digests(committed.audit_log)
        /\ Digests(audit_log)' = Digests(audit_log')
    BY <2>1 DEF Digests
  <2> QED BY <1>3, <1>4, <1>5, <2>4, <2>5, <2>6, <2>7 DEF OwnTransaction
<1>6. CASE ~ inTransaction
  <2>1. committed' = Tables' /\ working = {} /\ appended' = appended
    BY <1>6 DEF JoinedStep, Autocommit, OwnTransaction
  <2>2. committed'.audit_log = audit_log'
    BY <2>1 DEF Tables
  <2> QED BY <1>3, <1>4, <1>6, <2>1, <2>2 DEF OwnTransaction
<1> QED BY <1>5, <1>6

LEMMA OwnTransactionWork ==
  ASSUME ConnectionTypeOK, OwnTransaction, NEW c \in callers, WorkStep(c), OneTransacts,
         UNCHANGED callers
  PROVE  OwnTransaction'
<1>1. c \in Clients /\ working \subseteq Clients /\ \A d \in working : d = c
  BY DEF OneTransacts, WorkStep, BeginWork, FinishWork, WorkThrows, OwnTransaction, ConnectionTypeOK
<1>2. CASE BeginWork(c)
  <2>1. ~ inTransaction /\ working = {}
    BY <1>1, <1>2 DEF BeginWork, OwnTransaction
  <2>2. /\ inTransaction' /\ working' = {c} /\ committed' = Tables
        /\ UNCHANGED <<tables, call, appended>>
    BY <1>2, <2>1 DEF BeginWork, Begin, OwnTransaction
  <2>3. committed'.audit_log = audit_log /\ audit_log' = audit_log
    BY <2>2 DEF Tables, tables
  <2>4. appended'[c] = {} /\ \A d \in Clients : appended'[d] = {}
    BY <1>1, <2>1, <2>2 DEF OwnTransaction
  <2> QED BY <1>2, <2>2, <2>3, <2>4 DEF OwnTransaction, BeginWork
<1>3. CASE FinishWork(c) \/ WorkThrows(c)
  <2>1. /\ ~ inTransaction' /\ working' = {}
        /\ call' = [call EXCEPT ![c] = Idle]
        /\ appended' = [appended EXCEPT ![c] = {}]
    BY <1>1, <1>3 DEF FinishWork, WorkThrows, Commit, Rollback, Leave, Return
  <2>2. committed' = Tables'
    <3>1. CASE FinishWork(c)
      BY <3>1 DEF FinishWork, Commit
    <3>2. CASE WorkThrows(c)
      BY <3>2 DEF WorkThrows, Rollback, Tables, ConnectionTypeOK, TablesSet
    <3> QED BY <1>3, <3>1, <3>2
  <2>3. committed'.audit_log = audit_log'
    BY <2>2 DEF Tables
  <2>4. \A d \in Clients : appended'[d] = {}
    BY <1>1, <2>1 DEF OwnTransaction, ConnectionTypeOK
  <2>5. \A d \in Clients : call'[d].op \notin OpenStages \cup {"merge"}
    BY <2>1 DEF OwnTransaction, ConnectionTypeOK, Idle, OpenStages
  <2> QED BY <2>1, <2>2, <2>3, <2>4, <2>5 DEF OwnTransaction
<1> QED BY <1>2, <1>3 DEF WorkStep

LEMMA OwnTransactionCrash ==
  ASSUME ConnectionTypeOK, Crash, UNCHANGED callers
  PROVE  OwnTransaction'
<1>1. committed' = Tables'
  BY DEF Crash, Rollback, Tables, ConnectionTypeOK, TablesSet
<1>2. committed'.audit_log = audit_log'
  BY <1>1 DEF Tables
<1> QED BY <1>1, <1>2 DEF Crash, Rollback, OwnTransaction, Idle, OpenStages

(* The work of the only caller of executeTransaction, where nobody merges,   *)
(* is all or nothing, whatever joins its transaction: successful, every      *)
(* audit row it appended is in the file; failed or cut off by the end of the *)
(* process, none is.                                                         *)
THEOREM SingleWorkIsAtomic == ConnectionSpec => SingleWorkIsAllOrNothing
<1> DEFINE Inv == OneTransacts => OwnTransaction
<1>1. ConnectionInit => Inv
  BY DEF ConnectionInit, Init, OwnTransaction, Idle, OpenStages, Tables, Digests
<1>2. ConnectionTypeOK /\ Inv /\ [ConnectionNext]_connectionVars => Inv'
  <2> SUFFICES ASSUME ConnectionTypeOK, OneTransacts, OwnTransaction, [ConnectionNext]_connectionVars
               PROVE  OwnTransaction'
    BY DEF OneTransacts, ConnectionNext, connectionVars
  <2>0. UNCHANGED callers /\ callers \subseteq Clients
    BY DEF ConnectionNext, connectionVars, ConnectionTypeOK
  <2>1. ASSUME NEW c \in callers, MergeStep(c)
        PROVE  FALSE
    BY <2>0, <2>1 DEF MergeStep, OpenMerge, ReadVector, TransferVector, RemoveDuplicate,
                      OwnTransaction, OpenStages
  <2>2. CASE Tick /\ UNCHANGED <<inTransaction, committed, working, appended>>
    BY <2>0, <2>2 DEF Tick, OwnTransaction, Tables, tables, memoryTables
  <2>3. CASE UNCHANGED connectionVars
    BY <2>3 DEF connectionVars, vars, OwnTransaction, Tables, tables, memoryTables
  <2> QED BY <2>0, <2>1, <2>2, <2>3, ClientSteps, OwnTransactionJoined, OwnTransactionWork,
             OwnTransactionCrash DEF ConnectionNext
<1>3. ASSUME ConnectionTypeOK, OwnTransaction, [ConnectionNext]_connectionVars,
             NEW c \in working, c \notin working'
      PROVE  EndsAllOrNothing(c)
  <2>1. c \in Clients /\ inTransaction
        /\ appended[c] \subseteq Digests(audit_log) \ Digests(committed.audit_log)
    BY <1>3 DEF ConnectionTypeOK, OwnTransaction
  <2>2. CASE FinishWork(c)
    <3>1. committed'.audit_log = audit_log
      BY <2>2 DEF FinishWork, Commit, Tables, tables
    <3> QED BY <2>1, <2>2, <3>1 DEF EndsAllOrNothing
  <2>3. CASE ~ FinishWork(c)
    <3>1. committed' = committed
      <4>1. ASSUME NEW d \in Clients, ClientStep(d) PROVE WorkThrows(d)
        <5>1. d = c \/ c \in working'
          BY <4>1 DEF ClientStep, JoinedStep, BeginWork, FinishWork, WorkThrows, Leave, OpenMerge,
                      ReadVector, TransferVector, RemoveDuplicate
        <5> QED BY <1>3, <2>3, <4>1, <5>1
            DEF ClientStep, JoinedStep, BeginWork, OpenMerge, ReadVector, TransferVector, RemoveDuplicate
      <4>2. (\E d \in Clients : WorkThrows(d)) \/ Crash
        BY <1>3, <4>1 DEF ConnectionNext, connectionVars, ConnectionTypeOK
      <4> QED BY <4>2 DEF WorkThrows, Crash, Rollback
    <3> QED BY <2>1, <2>3, <3>1 DEF EndsAllOrNothing
  <2> QED BY <2>2, <2>3
<1>4. ConnectionTypeOK /\ Inv /\ [ConnectionNext]_connectionVars =>
        [OneTransacts => \A c \in working : EndsAllOrNothing(c)]_connectionVars
  BY <1>3 DEF EndsAllOrNothing
<1> QED BY <1>1, <1>2, <1>4, ConnectionTypeCorrect, PTL DEF ConnectionSpec, SingleWorkIsAllOrNothing
=============================================================================
