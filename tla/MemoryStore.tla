---------------------------- MODULE MemoryStore ----------------------------
(***************************************************************************)
(* AIETStorageRepository (packages/storage/src/repository.ts): the SQLite  *)
(* tables behind one memory database and the operations callers run on     *)
(* them.                                                                   *)
(*                                                                         *)
(* A call is split where the code lets another caller in: at an await of   *)
(* the same process, or between a read and the write transaction when a    *)
(* second process (MCP server, CLI, SDK) has the file open.  Each          *)
(* db.transaction() is one step: SQLite serialises write transactions, and *)
(* one that read first and lost the race fails as a whole with SQLITE_BUSY.*)
(* Any call may stop between two of its steps (Abort): a thrown error, a   *)
(* busy database or the end of its process.                                *)
(***************************************************************************)
EXTENDS AuditChain, Integers, FiniteSets

CONSTANTS
  Ids,          \* ids of primitives
  TypeOf,       \* the type an id's prefix gives it
  Facts,        \* values of a content field
  Tiers,        \* sensitivity tiers
  Restricted,   \* the tier kept out of search and of automatic writes
  Drafts,       \* the primitives callers submit (their times are set by the call)
  ProposalIds,  \* primary keys of memory_proposals
  Clients,      \* concurrent callers, of one process or of several
  Operations,   \* the API calls each client makes
  None,         \* SQL NULL, or no row
  MaxClock,     \* bound: seconds that pass
  Skews,        \* how many seconds off the clock a submitted primitive's times are
  MaxAudit      \* bound: rows of audit_log

Types == {"entity", "directive", "assertion", "event", "relation"}

Edges == {i \in Ids : TypeOf[i] = "relation"}
Nodes == Ids \ Edges

(* The types archivePrimitive writes, and those with an index trigger.       *)
Archivable == {i \in Ids : TypeOf[i] \in {"entity", "assertion"}}
Indexed == {i \in Ids : TypeOf[i] \in {"entity", "directive", "assertion"}}

(* claim stands for what a type cannot do without (name, statement, claim,   *)
(* summary, predicate), detail for its optional fields and metadata.         *)
Fields ==
  [ id          : Ids,
    claim       : Facts,
    detail      : Facts \cup {None},
    sensitivity : Tiers,
    status      : {"active", "archived"},
    created_at  : Nat,
    updated_at  : Nat,
    source      : Ids \cup {None},
    target      : Ids \cup {None} ]

(* What validateOrThrow lets through: a relation names both endpoints,       *)
(* nothing else has any.                                                     *)
Primitive ==
  { p \in Fields : IF p.id \in Edges THEN p.source # None /\ p.target # None
                                     ELSE p.source = None /\ p.target = None }

(* memory_lifecycle.importance_score: the trigger's 0.5, or a decision's.    *)
Importance == {"default", "decided"}

ASSUME DraftAssumption ==
  /\ None \notin Ids \cup Facts \cup Importance
  /\ None \notin Primitive
  /\ TypeOf \in [Ids -> Types]
  /\ Restricted \in Tiers
  /\ Drafts \subseteq { p \in Primitive : p.status = "active" }

ASSUME BoundAssumption == MaxClock \in Nat /\ MaxAudit \in Nat /\ Skews \subseteq Int

VARIABLES
  clock,       \* the wall clock in whole seconds, the resolution of updated_at
  registry,    \* primitives_registry
  rows,        \* the typed tables: entities, assertions, directives, relations
  fts,         \* fts_knowledge_index: the text indexed for an id
  embeddings,  \* vector_embeddings: the ids that have a vector
  lifecycle,   \* memory_lifecycle.importance_score
  proposals,   \* memory_proposals
  audit_log,   \* audit_log, in chain order
  call         \* what each client is in the middle of

memoryTables == <<registry, rows, fts, embeddings, lifecycle>>
tables == <<memoryTables, proposals, audit_log>>
vars == <<clock, tables, call>>

-----------------------------------------------------------------------------
(* Types.                                                                  *)

AuditEvent ==
  [ primitive_id       : Ids,
    operation_type     : {"CREATE", "UPDATE", "MERGE",
                          "proposal_created", "user_approval", "user_rejection"},
    initiator          : {"human_user", "system", "user"},
    primitive_jcs_hash : [sha256 : Primitive] ]

Proposal ==
  [ candidate : Primitive,
    decision  : {"CREATE", "UPDATE", "MERGE"},
    target    : Ids \cup {None},
    expected  : Nat \cup {None},
    status    : {"pending", "approved", "rejected", "auto_applied"} ]

Idle == [op |-> "idle"]

StoreCall ==
  {Idle}
    \cup [op : {"insert"}, primitive : Primitive]
    \cup [op : {"update"}, base : Primitive, candidate : Primitive]
    \cup [op : {"write"}, base : Primitive, updated : Primitive]
    \cup [op : {"archive"}, id : Ids, since : Nat]
    \cup [op : {"delete", "embed"}, id : Ids]
    \cup { r \in [op : {"merge"}, id : Ids, duplicate : Ids] : r.id # r.duplicate }

MemoryTypeOK ==
  /\ registry \subseteq Ids
  /\ rows \in [Ids -> Primitive \cup {None}]
  /\ \A i \in Ids : rows[i] # None => rows[i].id = i
  /\ fts \in [Ids -> Facts \cup {None}]
  /\ embeddings \subseteq Ids
  /\ lifecycle \in [Ids -> Importance \cup {None}]

TablesTypeOK ==
  /\ clock \in 0 .. MaxClock
  /\ MemoryTypeOK
  /\ proposals \in [ProposalIds -> Proposal \cup {None}]
  /\ audit_log \in Seq(AuditRecord(AuditEvent))

TypeOK == TablesTypeOK /\ call \in [Clients -> StoreCall]

Init ==
  /\ clock = 0
  /\ registry = {}
  /\ rows = [i \in Ids |-> None]
  /\ fts = [i \in Ids |-> None]
  /\ embeddings = {}
  /\ lifecycle = [i \in Ids |-> None]
  /\ proposals = [p \in ProposalIds |-> None]
  /\ audit_log = <<>>
  /\ call = [c \in Clients |-> Idle]

-----------------------------------------------------------------------------
(* Rows and triggers.                                                      *)

(* trg_*_fts_insert: entities, directives and assertions, unless restricted. *)
IndexedOnInsert(p) == p.id \in Indexed /\ p.sensitivity # Restricted

(* PRAGMA foreign_keys = ON: a column that references primitives_registry    *)
(* holds NULL or a registered id.                                            *)
ForeignKeysOff(i) == TRUE

Registered(i) == i \in registry \cup {None}

(* The primary key of primitives_registry.                                   *)
Overwrites(p) == TRUE

KeyIsFree(p) == p.id \notin registry

(* insertPrimitiveRows, and the transaction of insertPrimitive: endpoints    *)
(* are registered, the id is not; the insert triggers fire.                  *)
InsertRows(p) ==
  /\ Registered(p.source) /\ Registered(p.target)
  /\ KeyIsFree(p)
  /\ registry' = registry \cup {p.id}
  /\ rows' = [rows EXCEPT ![p.id] = p]
  /\ fts' = IF IndexedOnInsert(p) THEN [fts EXCEPT ![p.id] = p.claim] ELSE fts
  /\ lifecycle' = IF p.id \in Nodes THEN [lifecycle EXCEPT ![p.id] = "default"]
                                    ELSE lifecycle
  /\ UNCHANGED embeddings

(* constructMutation: what must agree between target and candidate ...       *)
MutableAcrossTiers(target, candidate) ==
  /\ TypeOf[target.id] = TypeOf[candidate.id]
  /\ target.id \in Edges => /\ candidate.source = target.source
                            /\ candidate.target = target.target

Mutable(target, candidate) ==
  /\ TypeOf[target.id] = TypeOf[candidate.id]
  /\ candidate.sensitivity = target.sensitivity
  /\ target.id \in Edges => /\ candidate.source = target.source
                            /\ candidate.target = target.target

(* ... and the row that results: identity and created_at from the target as  *)
(* it was read, content from the candidate, updated_at from the clock.  MERGE *)
(* keeps the target's claim and what the candidate says nothing about.       *)
MutatedTakingClaim(target, candidate, kind) ==
  [candidate EXCEPT
     !.id = target.id,
     !.created_at = target.created_at,
     !.sensitivity = target.sensitivity,
     !.detail = IF kind = "MERGE" /\ @ = None THEN target.detail ELSE @,
     !.updated_at = clock]

Mutated(target, candidate, kind) ==
  [candidate EXCEPT
     !.id = target.id,
     !.created_at = target.created_at,
     !.sensitivity = target.sensitivity,
     !.claim = IF kind = "MERGE" THEN target.claim ELSE @,
     !.detail = IF kind = "MERGE" /\ @ = None THEN target.detail ELSE @,
     !.updated_at = clock]

(* updatePrimitiveRows: UPDATE ... WHERE id AND updated_at AND sensitivity   *)
(* [AND endpoints] matches one row, whose created_at is neither tested nor   *)
(* set.  No trigger touches the search index.                                *)
MatchesToken(row, p, expected) == row.updated_at = expected

MatchesTier(row, p, expected) == row.sensitivity = p.sensitivity

Matches(row, p, expected) ==
  /\ row.updated_at = expected
  /\ row.sensitivity = p.sensitivity
  /\ p.id \in Edges => row.source = p.source /\ row.target = p.target

UpdateRows(p, expected) ==
  /\ rows[p.id] # None
  /\ Matches(rows[p.id], p, expected)
  /\ rows' = [rows EXCEPT ![p.id] = [@ EXCEPT !.claim = p.claim,
                                              !.detail = p.detail,
                                              !.status = p.status,
                                              !.updated_at = p.updated_at]]
  /\ UNCHANGED <<registry, fts, embeddings, lifecycle>>

(* DELETE FROM primitives_registry: ON DELETE CASCADE empties every table    *)
(* that references the id, the proposals about it included.                  *)
ProposalsAfterDelete(i) ==
  [p \in ProposalIds |-> IF proposals[p] # None /\ proposals[p].target = i
                         THEN None ELSE proposals[p]]

IndexKept(i) == fts

IndexAfterDelete(i) == [fts EXCEPT ![i] = None]

DeleteFromRegistry(i) ==
  /\ registry' = registry \ {i}
  /\ fts' = IndexAfterDelete(i)
  /\ lifecycle' = [lifecycle EXCEPT ![i] = None]
  /\ embeddings' = embeddings \ {i}
  /\ proposals' = ProposalsAfterDelete(i)

(* appendAuditRecordSync.                                                    *)
Audit(operation, initiator, primitive) ==
  /\ Len(audit_log) < MaxAudit
  /\ audit_log' = AppendAuditRecord(audit_log,
       [ primitive_id       |-> primitive.id,
         operation_type     |-> operation,
         initiator          |-> initiator,
         primitive_jcs_hash |-> JCSHash(primitive) ])

-----------------------------------------------------------------------------
(* Client steps.                                                           *)

Start(c, operation, record) ==
  /\ call[c] = Idle
  /\ operation \in Operations[c]
  /\ call' = [call EXCEPT ![c] = record]

(* A submitted primitive carries the times its author gave it.               *)
SubmissionTimes == {clock + s : s \in Skews} \cap Nat

Submitted(d, made, changed) == [d EXCEPT !.created_at = made, !.updated_at = changed]

Return(c) == call' = [call EXCEPT ![c] = Idle]

(* insertPrimitive up to its await: an id that has a row is either the same  *)
(* content (nothing to do) or a collision.  With autorename the call goes on *)
(* as the insertion of the draft that carries the new id.                    *)
BeginInsert(c) ==
  /\ \E d \in Drafts, made, changed \in SubmissionTimes :
       /\ rows[d.id] = None
       /\ Start(c, "insert", [op |-> "insert", primitive |-> Submitted(d, made, changed)])
  /\ UNCHANGED <<clock, tables>>

CommitInsert(c) ==
  /\ call[c].op = "insert"
  /\ InsertRows(call[c].primitive)
  /\ Audit("CREATE", "human_user", call[c].primitive)
  /\ Return(c)
  /\ UNCHANGED <<clock, proposals>>

(* The caller reads a primitive, edits it and will pass the updated_at it saw.*)
BeginUpdate(c) ==
  /\ \E d \in Drafts :
       /\ rows[d.id] # None
       /\ Start(c, "update", [op |-> "update", base |-> rows[d.id], candidate |-> d])
  /\ UNCHANGED <<clock, tables>>

(* updatePrimitive outside its transaction: read, compare, construct.        *)
CheckUpdate(c) ==
  /\ call[c].op = "update"
  /\ LET target == rows[call[c].base.id]
     IN  /\ target # None
         /\ target.updated_at = call[c].base.updated_at
         /\ Mutable(target, call[c].candidate)
         /\ call' = [call EXCEPT ![c] =
              [op |-> "write", base |-> call[c].base,
               updated |-> Mutated(target, call[c].candidate, "UPDATE")]]
  /\ UNCHANGED <<clock, tables>>

CommitUpdate(c) ==
  /\ call[c].op = "write"
  /\ UpdateRows(call[c].updated, call[c].base.updated_at)
  /\ Audit("UPDATE", "human_user", call[c].updated)
  /\ Return(c)
  /\ UNCHANGED <<clock, proposals>>

(* archivePrimitive, deletePrimitive and upsertVectorEmbedding read the      *)
(* primitive first and throw when it has no row.                             *)
BeginOnExisting(c) ==
  /\ \E i \in Ids :
       /\ rows[i] # None
       /\ \/ Start(c, "archive", [op |-> "archive", id |-> i, since |-> clock])
          \/ \E operation \in {"delete", "embed"} :
               Start(c, operation, [op |-> operation, id |-> i])
  /\ UNCHANGED <<clock, tables>>

(* archivePrimitive, also deletePrimitive without hard_delete: an UPDATE by  *)
(* id alone, not audited; other types and vanished rows are left as they are. *)
(* `now` was taken before the call waited for its turn to write.             *)
CommitArchive(c) ==
  /\ call[c].op = "archive"
  /\ \E now \in call[c].since .. clock :
       LET i == call[c].id
       IN  rows' = IF i \in Archivable /\ rows[i] # None
                   THEN [rows EXCEPT ![i].status = "archived", ![i].updated_at = now]
                   ELSE rows
  /\ Return(c)
  /\ UNCHANGED <<clock, registry, fts, embeddings, lifecycle, proposals, audit_log>>

(* deletePrimitive with hard_delete: the rows of the relations that touch the *)
(* primitive go, their registry entries stay.                                 *)
Touches(e, i) == e \in Edges /\ rows[e] # None /\ i \in {rows[e].source, rows[e].target}

CommitDelete(c) ==
  /\ call[c].op = "delete"
  /\ LET i == call[c].id
     IN  /\ rows' = [j \in Ids |-> IF j = i \/ Touches(j, i) THEN None ELSE rows[j]]
         /\ DeleteFromRegistry(i)
  /\ Return(c)
  /\ UNCHANGED <<clock, audit_log>>

(* upsertVectorEmbedding: the foreign key requires a registered id.          *)
CommitEmbed(c) ==
  /\ call[c].op = "embed"
  /\ Registered(call[c].id)
  /\ embeddings' = embeddings \cup {call[c].id}
  /\ Return(c)
  /\ UNCHANGED <<clock, registry, rows, fts, lifecycle, proposals, audit_log>>

(* mergeMemories(primary, [duplicate]) reads the primary, then opens its     *)
(* transaction.  Its awaits inside the transaction are SharedConnection's    *)
(* subject; a second process sees the transaction as one step.               *)
BeginMerge(c) ==
  /\ \E i, j \in Ids :
       /\ i # j
       /\ rows[i] # None
       /\ Start(c, "merge", [op |-> "merge", id |-> i, duplicate |-> j])
  /\ UNCHANGED <<clock, tables>>

(* UPDATE relations SET source_id / target_id.                               *)
Unlinked(row, primary, duplicate) == row

Relinked(row, primary, duplicate) ==
  [row EXCEPT !.source = IF @ = duplicate THEN primary ELSE @,
              !.target = IF @ = duplicate THEN primary ELSE @]

CommitMerge(c) ==
  /\ call[c].op = "merge"
  /\ LET primary == call[c].id
         duplicate == call[c].duplicate
         movesVector == duplicate \in embeddings /\ primary \notin embeddings
         relink == [j \in Ids |-> IF Touches(j, duplicate)
                                  THEN Relinked(rows[j], primary, duplicate) ELSE rows[j]]
     IN  /\ (\E e \in Edges : Touches(e, duplicate)) => Registered(primary)
         /\ movesVector => rows[primary] # None
         /\ rows' = [j \in Ids |->
              IF j = duplicate \/ (relink[j] # None /\ j \in Edges
                                   /\ duplicate \in {relink[j].source, relink[j].target})
              THEN None ELSE relink[j]]
         /\ registry' = registry \ {duplicate}
         /\ fts' = IndexAfterDelete(duplicate)
         /\ lifecycle' = [lifecycle EXCEPT ![duplicate] = None]
         /\ embeddings' = (embeddings \cup (IF movesVector THEN {primary} ELSE {}))
                            \ {duplicate}
         /\ proposals' = ProposalsAfterDelete(duplicate)
  /\ Return(c)
  /\ UNCHANGED <<clock, audit_log>>

(* A step of the call throws, the database stays busy for longer than        *)
(* busy_timeout, or the process ends.                                        *)
Abort(c) ==
  /\ call[c] # Idle
  /\ Return(c)
  /\ UNCHANGED <<clock, tables>>

Tick ==
  /\ clock < MaxClock
  /\ clock' = clock + 1
  /\ UNCHANGED <<tables, call>>

StoreStep(c) ==
  \/ BeginInsert(c)
  \/ CommitInsert(c)
  \/ BeginUpdate(c)
  \/ CheckUpdate(c)
  \/ CommitUpdate(c)
  \/ BeginOnExisting(c)
  \/ CommitArchive(c)
  \/ CommitDelete(c)
  \/ CommitEmbed(c)
  \/ BeginMerge(c)
  \/ CommitMerge(c)
  \/ Abort(c)

Next == Tick \/ \E c \in Clients : StoreStep(c)

Spec == Init /\ [][Next]_vars

-----------------------------------------------------------------------------
(* Safety.                                                                 *)

(* Everything that names a primitive names a registered one: typed rows,     *)
(* endpoints of relations, vectors, lifecycle rows and proposals.  A node is *)
(* registered exactly while its row and its lifecycle row exist.  It takes   *)
(* foreign keys, cascades and the relinking of mergeMemories together.       *)
EdgesClosed ==
  \A e \in Edges : rows[e] # None =>
    /\ e \in registry
    /\ {rows[e].source, rows[e].target} \subseteq registry

NodesClosed ==
  \A n \in Nodes :
    /\ rows[n] # None <=> n \in registry
    /\ rows[n] # None => lifecycle[n] # None

NotesClosed ==
  /\ embeddings \subseteq registry
  /\ \A i \in Ids : lifecycle[i] # None => Registered(i)
  /\ \A p \in ProposalIds : proposals[p] # None => Registered(proposals[p].target)

ReferentialClosure == EdgesClosed /\ NodesClosed /\ NotesClosed

(* verifyAuditChain() accepts the ledger after any interleaving of writers.  *)
AuditChainValid == VerifyAuditChain(audit_log)

(* The ledger explains the store: the newest audited write of an id carries  *)
(* the digest of the active row that is stored under it, so a ledger can be  *)
(* compared with the store (writes from inserts, updates, proposals).  The   *)
(* one exception is created_at after updatePrimitive: it digests what it     *)
(* read before its transaction, and the row may have been recreated since.   *)
Writes == {"CREATE", "UPDATE", "MERGE", "user_approval"}

IsWriteOf(k, i) ==
  /\ audit_log[k].event.primitive_id = i
  /\ audit_log[k].event.operation_type \in Writes

IsLastWriteOf(k, i) ==
  IsWriteOf(k, i) /\ \A m \in k + 1 .. Len(audit_log) : ~ IsWriteOf(m, i)

ByUpdatePrimitive(event) == event.operation_type = "UPDATE" /\ event.initiator = "human_user"

Undated(p) == [p EXCEPT !.created_at = 0]

Compared(event, p) == IF ByUpdatePrimitive(event) THEN Undated(p) ELSE p

Digested(event) == event.primitive_jcs_hash.sha256

AuditMatchesStore ==
  \A n \in Nodes :
    rows[n] # None /\ rows[n].status = "active" =>
      \E k \in 1 .. Len(audit_log) :
        LET event == audit_log[k].event
        IN  /\ IsLastWriteOf(k, n)
            /\ Compared(event, Digested(event)) = Compared(event, rows[n])

(* The store implements RecordedMemory: in one step of any client, the rows  *)
(* and the ledger move together, or rows only go away.  What is live and     *)
(* what is recorded is what the two are compared on.                         *)
LastWrites(n) == {k \in 1 .. Len(audit_log) : IsLastWriteOf(k, n)}

LastEvent(writes) == audit_log[CHOOSE k \in writes : TRUE].event

LiveAfter(writes, row) == IF writes = {} THEN row ELSE Compared(LastEvent(writes), row)

RecordedBy(writes) ==
  IF writes = {} THEN None ELSE Compared(LastEvent(writes), Digested(LastEvent(writes)))

ActiveMemory ==
  [n \in Nodes |-> IF rows[n] # None /\ rows[n].status = "active"
                   THEN LiveAfter(LastWrites(n), rows[n]) ELSE None]

LastRecorded == [n \in Nodes |-> RecordedBy(LastWrites(n))]

Recorded ==
  INSTANCE RecordedMemory
    WITH Ids <- Nodes, Values <- Primitive,
         Live <- {p \in Primitive : p.status = "active"},
         memory <- ActiveMemory, recorded <- LastRecorded

ImplementsRecordedMemory == Recorded!Spec

(* Only stored, unrestricted nodes are searchable, whatever was deleted and  *)
(* recreated under an id (the insert triggers never look at the index).      *)
SearchIndexHidesRestricted ==
  \A i \in Ids : fts[i] # None =>
    /\ i \in Nodes
    /\ rows[i] # None
    /\ rows[i].sensitivity # Restricted

(* An insert whose id was free when it looked never replaces a primitive     *)
(* that somebody stored under that id in the meantime.                       *)
CreateNeverOverwrites ==
  [][\A c \in Clients : CommitInsert(c) => rows[call[c].primitive.id] = None]_vars

-----------------------------------------------------------------------------
(* What the documents say and the code does not do.                        *)

(* "All mutations MUST validate updated_at concurrency tokens to prevent     *)
(* silent data overwrites by concurrent agents": an update is written over   *)
(* the very version its author read.                                         *)
NoLostUpdate ==
  [][\A c \in Clients : CommitUpdate(c) => rows[call[c].base.id] = call[c].base]_vars

(* "Atomic memory consolidation" into an existing primary: a merge that      *)
(* deletes a duplicate leaves the primary it was merged into.                *)
MergeLeavesPrimary ==
  [][\A c \in Clients : CommitMerge(c) /\ rows[call[c].duplicate] # None =>
       rows'[call[c].id] # None]_vars
=============================================================================
