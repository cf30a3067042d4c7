-------------------------- MODULE SharedConnection --------------------------
(***************************************************************************)
(* The calls of one process on its one SQLite connection                   *)
(* (AIETStorageRepository): executeTransaction and mergeMemories await     *)
(* between BEGIN and COMMIT.  At those awaits other calls of the process   *)
(* run; what they write joins the open transaction, as a savepoint of      *)
(* better-sqlite3, and is committed or rolled back with it.                *)
(***************************************************************************)
EXTENDS MemoryStore

VARIABLES
  callers,        \* the clients that this process has
  inTransaction,  \* db.inTransaction
  committed,      \* the tables as the file has them, what ROLLBACK goes back to
  working,        \* the clients whose executeTransaction awaits its work
  appended        \* the digests of the audit rows that work has appended

connectionVars == <<vars, callers, inTransaction, committed, working, appended>>

-----------------------------------------------------------------------------
Tables ==
  [ registry |-> registry, rows |-> rows, fts |-> fts, embeddings |-> embeddings,
    lifecycle |-> lifecycle, proposals |-> proposals, audit_log |-> audit_log ]

(* mergeMemories inside its transaction: before it looks for the primary's   *)
(* vector, before it copies the duplicate's, before it deletes.              *)
OpenStages == {"relinked", "transfer", "remove"}

Merging(c) == call[c].op \in OpenStages

ConnectionCall ==
  StoreCall
    \cup [op : {"relinked"}, id : Ids, duplicate : Ids, vector : BOOLEAN]
    \cup [op : {"transfer"}, id : Ids, duplicate : Ids, existing : BOOLEAN]
    \cup [op : {"remove"}, id : Ids, duplicate : Ids]

TablesSet ==
  [ registry : SUBSET Ids, rows : [Ids -> Primitive \cup {None}],
    fts : [Ids -> Facts \cup {None}], embeddings : SUBSET Ids,
    lifecycle : [Ids -> Importance \cup {None}],
    proposals : [ProposalIds -> Proposal \cup {None}],
    audit_log : Seq(AuditRecord(AuditEvent)) ]

ConnectionTypeOK ==
  /\ TablesTypeOK
  /\ call \in [Clients -> ConnectionCall]
  /\ callers \subseteq Clients
  /\ inTransaction \in BOOLEAN
  /\ committed \in TablesSet
  /\ \A i \in Ids : committed.rows[i] # None => committed.rows[i].id = i
  /\ working \subseteq Clients
  /\ appended \in [Clients -> SUBSET Digest(AuditEvent)]

ConnectionInit ==
  /\ Init
  /\ callers \in SUBSET Clients
  /\ inTransaction = FALSE
  /\ committed = Tables
  /\ working = {}
  /\ appended = [c \in Clients |-> {}]

-----------------------------------------------------------------------------
(* SQLite.                                                                 *)

Begin ==
  /\ ~ inTransaction
  /\ inTransaction' = TRUE
  /\ UNCHANGED committed

(* A write outside of a transaction is committed at once.                    *)
Autocommit ==
  /\ committed' = IF inTransaction THEN committed ELSE Tables'
  /\ UNCHANGED inTransaction

(* COMMIT and ROLLBACK end whatever transaction is open, whoever began it.   *)
(* When none is open they fail and there is nothing to do.                   *)
Commit ==
  /\ committed' = Tables'
  /\ inTransaction' = FALSE

(* A rollback that forgets the ledger.                                       *)
RollbackMemory ==
  /\ inTransaction' = FALSE
  /\ registry' = committed.registry
  /\ rows' = committed.rows
  /\ fts' = committed.fts
  /\ embeddings' = committed.embeddings
  /\ lifecycle' = committed.lifecycle
  /\ proposals' = committed.proposals
  /\ UNCHANGED audit_log
  /\ committed' = Tables'

Rollback ==
  /\ inTransaction' = FALSE
  /\ registry' = committed.registry
  /\ rows' = committed.rows
  /\ fts' = committed.fts
  /\ embeddings' = committed.embeddings
  /\ lifecycle' = committed.lifecycle
  /\ proposals' = committed.proposals
  /\ audit_log' = committed.audit_log
  /\ UNCHANGED committed

Digests(log) == {log[k].new_jcs_hash : k \in 1 .. Len(log)}

-----------------------------------------------------------------------------
(* updatePrimitive has no await: for the callers of one connection its check *)
(* and its transaction are one step.                                         *)
UpdateAtOnce(c) ==
  /\ call[c].op = "update"
  /\ LET base == call[c].base
         candidate == call[c].candidate
         target == rows[base.id]
         updated == Mutated(target, candidate, "UPDATE")
     IN  /\ target # None
         /\ target.updated_at = base.updated_at
         /\ Mutable(target, candidate)
         /\ UpdateRows(updated, base.updated_at)
         /\ Audit("UPDATE", "human_user", updated)
  /\ Return(c)
  /\ UNCHANGED <<clock, proposals>>

(* Calls without a transaction of their own across an await: each of their   *)
(* db.transaction() joins or stands alone, and fails as a whole.             *)
JoinedStep(c) ==
  /\ \/ BeginInsert(c)
     \/ CommitInsert(c)
     \/ BeginUpdate(c)
     \/ UpdateAtOnce(c)
     \/ BeginOnExisting(c)
     \/ CommitArchive(c)
     \/ CommitDelete(c)
     \/ CommitEmbed(c)
     \/ BeginMerge(c)
     \/ /\ ~ Merging(c)
        /\ Abort(c)
  /\ appended' = IF c \in working
                 THEN [appended EXCEPT ![c] = @ \cup (Digests(audit_log') \ Digests(audit_log))]
                 ELSE appended
  /\ Autocommit
  /\ UNCHANGED working

-----------------------------------------------------------------------------
(* executeTransaction(work).                                               *)

(* BEGIN stands inside the try: when it fails, the handler rolls back.  The  *)
(* work of a client does not call executeTransaction again.                  *)
BeginWork(c) ==
  /\ call[c] = Idle /\ c \notin working
  /\ "transact" \in Operations[c]
  /\ IF inTransaction THEN Rollback /\ UNCHANGED working
     ELSE /\ Begin
          /\ working' = working \cup {c}
          /\ UNCHANGED tables
  /\ UNCHANGED <<clock, call, appended>>

Leave(c) ==
  /\ working' = working \ {c}
  /\ appended' = [appended EXCEPT ![c] = {}]
  /\ Return(c)
  /\ UNCHANGED clock

(* The work is done: COMMIT.  When there is nothing to commit any more, the  *)
(* handler's ROLLBACK fails as well and the result is a failure.             *)
FinishWork(c) ==
  /\ c \in working /\ call[c] = Idle
  /\ UNCHANGED tables
  /\ Commit
  /\ Leave(c)

(* The handler commits what there is.                                        *)
WorkThrowsCommitting(c) ==
  /\ c \in working /\ ~ Merging(c)
  /\ UNCHANGED tables
  /\ Commit
  /\ Leave(c)

(* The handler without its ROLLBACK.                                         *)
WorkThrowsOnly(c) ==
  /\ c \in working /\ ~ Merging(c)
  /\ Leave(c)
  /\ UNCHANGED <<tables, inTransaction, committed>>

(* The work throws, at one of its calls or between two of them.              *)
WorkThrows(c) ==
  /\ c \in working /\ ~ Merging(c)
  /\ Rollback
  /\ Leave(c)

-----------------------------------------------------------------------------
(* mergeMemories(primary, [duplicate]) after it has read the primary.      *)

RelinkedRows(primary, duplicate) ==
  [j \in Ids |-> IF Touches(j, duplicate) THEN Relinked(rows[j], primary, duplicate)
                 ELSE rows[j]]

(* The handler of mergeMemories: ROLLBACK, then throw.                       *)
MergeFails(c) ==
  /\ Rollback
  /\ Return(c)

(* BEGIN stands before the try: when it fails, nothing is rolled back.  Then, *)
(* without an await, both UPDATEs and the read of the duplicate's vector.    *)
Relink(c) ==
  LET primary == call[c].id
      duplicate == call[c].duplicate
  IN  IF (\E e \in Edges : Touches(e, duplicate)) /\ ~ Registered(primary)
      THEN Return(c) /\ UNCHANGED <<tables, inTransaction, committed>>
      ELSE /\ Begin
           /\ rows' = RelinkedRows(primary, duplicate)
           /\ call' = [call EXCEPT ![c] =
                [op |-> "relinked", id |-> primary, duplicate |-> duplicate,
                 vector |-> duplicate \in embeddings]]
           /\ UNCHANGED <<registry, fts, embeddings, lifecycle, proposals, audit_log>>

(* BEGIN inside the try, as in executeTransaction.                           *)
OpenMergeTrying(c) ==
  /\ call[c].op = "merge"
  /\ IF inTransaction THEN MergeFails(c) ELSE Relink(c)
  /\ UNCHANGED <<clock, working, appended>>

OpenMerge(c) ==
  /\ call[c].op = "merge"
  /\ IF inTransaction THEN Return(c) /\ UNCHANGED <<tables, inTransaction, committed>>
                      ELSE Relink(c)
  /\ UNCHANGED <<clock, working, appended>>

(* The primary's vector; if the duplicate's goes there, the first read of    *)
(* upsertVectorEmbedding.                                                    *)
ReadVector(c) ==
  /\ call[c].op = "relinked"
  /\ LET primary == call[c].id
         duplicate == call[c].duplicate
     IN  call' = [call EXCEPT ![c] =
           IF call[c].vector /\ primary \notin embeddings
           THEN [op |-> "transfer", id |-> primary, duplicate |-> duplicate,
                 existing |-> rows[primary] # None]
           ELSE [op |-> "remove", id |-> primary, duplicate |-> duplicate]]
  /\ UNCHANGED <<clock, tables, inTransaction, committed, working, appended>>

TransferVector(c) ==
  /\ call[c].op = "transfer"
  /\ LET primary == call[c].id
     IN  IF call[c].existing /\ Registered(primary)
         THEN /\ embeddings' = embeddings \cup {primary}
              /\ call' = [call EXCEPT ![c] =
                   [op |-> "remove", id |-> primary, duplicate |-> call[c].duplicate]]
              /\ UNCHANGED <<registry, rows, fts, lifecycle, proposals, audit_log>>
              /\ Autocommit
         ELSE MergeFails(c)
  /\ UNCHANGED <<clock, working, appended>>

(* The deletion and, in the same turn, COMMIT; relations that name the       *)
(* duplicate again go with it.                                               *)
RemoveDuplicate(c) ==
  /\ call[c].op = "remove"
  /\ LET duplicate == call[c].duplicate
     IN  /\ rows' = [j \in Ids |-> IF j = duplicate \/ Touches(j, duplicate) THEN None ELSE rows[j]]
         /\ DeleteFromRegistry(duplicate)
  /\ UNCHANGED audit_log
  /\ Commit
  /\ Return(c)
  /\ UNCHANGED <<clock, working, appended>>

-----------------------------------------------------------------------------
(* The process ends: the connection closes without COMMIT.                   *)
Crash ==
  /\ Rollback
  /\ call' = [c \in Clients |-> Idle]
  /\ working' = {}
  /\ appended' = [c \in Clients |-> {}]
  /\ UNCHANGED clock

ClientStep(c) ==
  \/ JoinedStep(c)
  \/ BeginWork(c)
  \/ FinishWork(c)
  \/ WorkThrows(c)
  \/ OpenMerge(c)
  \/ ReadVector(c)
  \/ TransferVector(c)
  \/ RemoveDuplicate(c)

ConnectionNext ==
  /\ \/ \E c \in callers : ClientStep(c)
     \/ Tick /\ UNCHANGED <<inTransaction, committed, working, appended>>
     \/ Crash
  /\ UNCHANGED callers

ConnectionSpec == ConnectionInit /\ [][ConnectionNext]_connectionVars

-----------------------------------------------------------------------------
(* Safety.                                                                 *)

(* No transaction is left open when nobody is inside one, however failed     *)
(* BEGINs, COMMITs and ROLLBACKs of different calls interleave: otherwise    *)
(* every later write of the process would wait for a COMMIT nobody issues.   *)
NoTransactionLeftOpen ==
  inTransaction => \E c \in Clients : c \in working \/ Merging(c)

NobodyTransacts == \A c \in callers : "transact" \notin Operations[c]

(* Where nobody calls executeTransaction, merges exclude each other: while    *)
(* one awaits, its transaction is open and no other one has got past its      *)
(* BEGIN.                                                                    *)
MergesExclude ==
  NobodyTransacts =>
    \A c \in Clients : Merging(c) =>
      /\ inTransaction
      /\ \A d \in Clients : Merging(d) => d = c

(* On one connection nothing comes between what an update reads and what it   *)
(* writes: the newest audited write of a node has the digest of its active   *)
(* row, created_at included, at each await and after each ROLLBACK.          *)
LedgerMatchesRows ==
  \A n \in Nodes :
    rows[n] # None /\ rows[n].status = "active" =>
      \E k \in 1 .. Len(audit_log) :
        IsLastWriteOf(k, n) /\ audit_log[k].event.primitive_jcs_hash = JCSHash(rows[n])

(* Where nobody calls executeTransaction, a merge keeps every relation that   *)
(* was there when it began: the cascade of its deletion takes, besides the   *)
(* duplicate, only relations created while it awaited.                       *)
CreatedMeanwhile(e) ==
  \E k \in Len(committed.audit_log) + 1 .. Len(audit_log) :
    /\ audit_log[k].event.primitive_id = e
    /\ audit_log[k].event.operation_type = "CREATE"

MergeTakesNewEdgesOnly ==
  [][NobodyTransacts =>
       \A c \in Clients : RemoveDuplicate(c) =>
         \A e \in Edges \ {call[c].duplicate} :
           rows[e] # None /\ rows'[e] = None => CreatedMeanwhile(e)]_connectionVars

(* A work that ends: successful, its audit rows are in the file; failed or    *)
(* cut off, none of them is.                                                 *)
EndsAllOrNothing(c) ==
  c \notin working' =>
    IF FinishWork(c) /\ inTransaction
    THEN appended[c] \subseteq Digests(committed'.audit_log)
    ELSE appended[c] \cap Digests(committed'.audit_log) = {}

(* One caller uses executeTransaction and nobody merges.                     *)
OneTransacts ==
  /\ \A c \in callers : "merge" \notin Operations[c]
  /\ \A c, d \in callers : "transact" \in Operations[c] \cap Operations[d] => d = c

(* The work of the only caller of executeTransaction is kept or undone as a   *)
(* whole, whatever the calls of others that join its transaction do.         *)
SingleWorkIsAllOrNothing ==
  [][OneTransacts => \A c \in working : EndsAllOrNothing(c)]_connectionVars

-----------------------------------------------------------------------------
(* What the documents say and the code does not do.                        *)

(* "If any primitive or edge write within a transaction fails, the entire    *)
(* transaction MUST be rolled back", with several callers of                 *)
(* executeTransaction.                                                       *)
WorkIsAllOrNothing == [][\A c \in working : EndsAllOrNothing(c)]_connectionVars
=============================================================================
