# A TLA+ model of the AI Engineering Toolkit

AIET keeps an engineer's knowledge ("primitives": entities, directives,
assertions, events, relations) in a SQLite file, lets agents propose changes to
it under a policy, keeps a hash-chained ledger of what was written, and compiles
the memory into context files for coding agents. Paths below are relative to
the repository root, `packages/` holds the source.

This directory holds TLA+ modules translated from that source, TLC
configurations that check them on small instances, and TLAPS proofs for every
value of the constants. Run them here:

    tlc -config MemoryStore.cfg MCMemoryStore     # any .cfg with its MC module
    tlapm MemoryStore_proofs.tla                  # any *_proofs.tla

`PROJECT.json` lists the runs, the source lines behind every definition, the
mutations that show each property can fail, the findings, the hazards and the
theorems.

## 1. Inventory

### State shared by everything

One SQLite database per memory (`.pakb/*.db`), opened in WAL mode with foreign
keys on and a busy timeout (`storage/src/connection.ts`). Several processes open
the same file: the MCP server, the CLI, any program that uses the SDK. Within a
process all calls share one synchronous connection (better-sqlite3 or
node:sqlite) behind `async` methods.

### Components

| Component | State it keeps | Operations | Talks to | What is hard | What makes it correct |
|---|---|---|---|---|---|
| Audit ledger (`storage/src/repository.ts`, `jcs-hash.ts`) | `audit_log` | `appendAuditRecordSync`, `verifyAuditChain` | every audited write of the store | several writers link to "the newest row" | the chain always verifies; the ledger explains the store |
| Memory store (`storage/src/repository.ts`, `schema.ts`, `connection.ts`) | registry, typed tables, FTS index, vectors, lifecycle, proposals, lineage | insert, update, archive, delete, merge, embed, proposals, contradictions, lineage, `executeTransaction` | triggers and cascades of SQLite | reads before an await or outside the transaction, one-second tokens, cascades | references resolve, no overwrite, no lost update, the index never shows restricted text |
| Governance (`governance/src`) | proposals (in the store) | `createMemoryProposal`, `approveMemoryProposal`, `rejectMemoryProposal`, the policy | store, ledger | decisions on stale copies, targets that change while a proposal waits | agents never write restricted memory alone, each decision is audited and made once |
| Retrieval (`storage/src/repository.ts`) | access counts in `memory_lifecycle` | FTS, vector and hybrid search, ranked recall, traversal, timeline | store's tables | several statements per call, limit before filter, stale index | what may be shown is shown and nothing else, the fused order respects both rankings, no access is lost |
| Consolidation (`consolidation/src`) | `memory_lineage`, contradictions (in the store) | consolidate, rollback, detect | governance, store | three transactions per rollback, lineage before proposal | what is changed can be restored, references and ledger survive a rollback, verdicts do not depend on row order |
| Context compiler (`compiler/src` filter, scoring, ranking, fitting, pipeline) | none (pure) | filter, score, rank, fit, emit | store (reads) | budget boundaries, token rounding, cycles | output within budget, hard directives never demoted, order total |
| Incremental build (`compiler/src/orchestrator.ts`, `build-manifest.ts`, `verifier.ts`) | the build manifest | build, verify | compiler, file system | "up to date" decided from part of the inputs | what is called up to date would be selected the same |
| Compiler CLI (`compiler-cli/src`) | artifacts on disk, watcher flags | build, watch, init, status, doctor | compiler, file system | changes during a build, crash between two files | the last change is compiled, builds never overlap |
| MCP server (`mcp-server/src`) | a staging Map per process | tool calls, proposals, decisions | governance, store, core | memory of the process against the database | a proposal can be decided where it was made |
| Core SDK (`core/src`) | none | facade, compile loop | everything | the loop must end | delegation is faithful, the loop ends within budget |
| Extractor, decision engine | none | text heuristics, rule evaluation | governance | - | stateless |
| Domain, schema, embeddings, utils, config, logging, errors, contracts, adapters | none that lasts | validation, conversions, external calls | - | - | stateless |

Where callers interleave in the store:

* Inside a process at each `await`. The methods look asynchronous, but nearly
  all of them run synchronously to their end once called; the awaits that matter
  are those of `insertPrimitive`, `archivePrimitive`, `deletePrimitive`,
  `mergeMemories` and the governance operations, which await
  `getPrimitive...` and then write.
* Between processes, anywhere outside a transaction.

`PROJECT.json` lists the hazards, each at the line where it bites, with the
properties that cover it or the module of the plan that will.

## 2. Modules

    AuditChain                    the ledger
      `-- MemoryStore             the tables and the operations on them
            |     implements RecordedMemory, the abstract store
            |-- MCMemoryStore     instances for TLC
            |-- MemoryStore_proofs    the ledger, the store, its refinement
            |-- SharedConnection      transactions that await, on one connection
            |     |-- MCSharedConnection
            |     `-- SharedConnection_proofs (extends MemoryStore_proofs)
            `-- Governance        proposals, policy and decisions next to the store's callers
                  |-- MCGovernance
                  `-- Consolidation       lineage, contradictions, rollback
                        |-- MCConsolidation
                        `-- Governance_proofs: both specifications (extends MemoryStore_proofs)
    Detection                     both detectors, as operators
      `-- Retrieval               searches, recalls, traversals, comparisons
            |-- MCRetrieval
            `-- Retrieval_proofs (extends Orders_proofs)
    Selection                     the stages filter, rank, fit; the token profiler
      |-- Selection_proofs        the two selections agree (extends Orders_proofs)
      |-- ContextCompiler         compile: fetch, select, render, retry
      |     |-- MCContextCompiler
      |     `-- ContextCompiler_proofs (extends Selection_proofs)
      `-- Build                   `aiet compile [--watch]` over files
            |-- MCBuild
            `-- Build_proofs (extends Selection_proofs)
    Orders_proofs                 lemmas on least naturals, recursion, sorting and folds

### AuditChain

Operators over one table. `NextRecord` is `appendAuditRecordSync`: read the
newest row, number the new row one higher, link to its digest, hash.
`VerifyAuditChain` is `verifyAuditChain()`.

* **Digests are symbolic.** A digest is the sequence of everything it commits to,
  so digests are equal exactly when the payloads and all the payloads before
  them are. That is what the program assumes of SHA-256 and canonical JSON.
* The table is a sequence in `chain_sequence` order: the embedded schema never
  deletes from it and its unique index on `chain_sequence` (repository.ts
  305-309) excludes two rows with one number. `log_id` and `timestamp` are left
  out: no property tells two of their values apart.

### MemoryStore

Variables and what they stand for:

| Variable | Table or state |
|---|---|
| `registry` | `primitives_registry` |
| `rows` | the typed tables; `None` where an id has no row |
| `fts` | `fts_knowledge_index` |
| `embeddings`, `lifecycle` | `vector_embeddings`, `memory_lifecycle.importance_score` |
| `proposals` | `memory_proposals` |
| `audit_log` | `audit_log` |
| `clock` | the wall clock in whole seconds, the resolution of `updated_at` |
| `call` | the local variables of each call in flight |

A call is split where another caller gets in. Each `db.transaction(...)` is one
step, because SQLite serialises write transactions and one that read first and
lost the race fails as a whole (SQLITE_BUSY). `Abort` is the busy database, a
thrown error or the end of the process between two steps; a guard that is false
in a commit is the error the code throws there, and `Abort` is how that call
ends.

| Operation | Steps | What may happen between them |
|---|---|---|
| `insertPrimitive` | `BeginInsert`, `CommitInsert` | the id is taken, an endpoint is deleted |
| caller's read, then `updatePrimitive` | `BeginUpdate`, `CheckUpdate`, `CommitUpdate` | the row is updated, archived, deleted, recreated in another tier. The last two run without an await, so only a second process gets in between them |
| `archivePrimitive`, `deletePrimitive` (soft) | `BeginOnExisting`, `CommitArchive` | any other write; the UPDATE is by id alone, and its time was taken before the call waited for its turn to write |
| `deletePrimitive` (hard) | `BeginOnExisting`, `CommitDelete` | the same |
| `upsertVectorEmbedding` | `BeginOnExisting`, `CommitEmbed` | the primitive is deleted |
| `mergeMemories` of one duplicate | `BeginMerge`, `CommitMerge` | the primary disappears, the opposite merge. One step is what another process sees; the awaits inside are `SharedConnection`'s |

Triggers, foreign keys and cascades are part of the step that fires them:
`InsertRows` indexes and creates the lifecycle row, `DeleteFromRegistry` cascades
to rows, vectors, lifecycle and proposals, `Registered` is the foreign key check.

What is abstracted:

* Primitives keep their type, tier, status, `created_at`, `updated_at` and
  endpoints. The rest is `claim` (what the type cannot do without) and `detail` (optional
  fields and metadata); MERGE keeps the target's claim and fills in detail as
  `candidate ?? target`. The union of event tags and the maximum of relation
  weights, which MERGE also computes, are not told apart from that.
* A submitted primitive is active and carries the times its author gave it, up to
  `Skews` seconds off the clock; for the proofs that is any integer, the future
  included. An assertion's "superseded" is the archived status. `schema_version`
  is left out.
* `created_at` of a mutation is that of the target as it was read. The digest has
  it; the UPDATE neither tests nor sets it, so a row recreated between the read
  and the transaction of `updatePrimitive` keeps its own.
* `autorename` is an insertion under the new id.
* A relation hard-deleted through an endpoint leaves its registry entry behind,
  as the code does; the entry can still be named as an endpoint.
* The schema is the one `repository.ts` embeds. The SQL migration's differs (its
  `audit_log` has a cascading foreign key); that is listed as a hazard.

### SharedConnection

Extends MemoryStore: the calls of one process on its one connection. The store's
own specification has every transaction as one step, which is right for calls of
different processes. Two methods await between BEGIN and COMMIT, and at those
awaits the other calls of the process run inside the open transaction.

| Variable | State |
|---|---|
| the tables of MemoryStore | what the connection reads, uncommitted writes included |
| `callers` | the clients that the process has; never changes |
| `committed` | the tables as the file has them: what a ROLLBACK goes back to |
| `inTransaction` | `db.inTransaction` |
| `working` | the callers whose `executeTransaction` awaits its work |
| `appended` | the digests of the audit rows that work has appended (a ghost) |

| Operation | Steps |
|---|---|
| `executeTransaction(work)` | `BeginWork`, any calls of that client, `FinishWork` or `WorkThrows` |
| `mergeMemories` of one duplicate | `BeginMerge`, `OpenMerge` (BEGIN, both UPDATEs), `ReadVector`, `TransferVector`, `RemoveDuplicate` (DELETE, COMMIT) |
| `updatePrimitive` | `BeginUpdate` (the caller's read), `UpdateAtOnce`: its check and its transaction, with no await between them |
| every other call | its steps in MemoryStore, as `JoinedStep` |
| the process ends | `Crash`: SQLite drops what was not committed |

* A `db.transaction(...)` of better-sqlite3 inside a transaction is a savepoint: it
  fails as a whole and is committed or rolled back with the outer one. That is
  `JoinedStep` with `Autocommit`.
* COMMIT and ROLLBACK end whatever transaction is open, whoever began it. BEGIN
  inside one fails: in `executeTransaction` it stands inside the `try`, and the
  handler rolls back the other caller's transaction; in `mergeMemories` it stands
  before the `try`, and nothing is rolled back.
* The work of a client is a sequence of its own calls; it does not call
  `executeTransaction` again. A merge inside it fails at BEGIN, as in the code.
* One duplicate per merge, as in MemoryStore; governance's and consolidation's
  calls are left out, since their transactions join as the store's do.

### Governance

Extends MemoryStore: the same tables, the same clients, its own calls on top.
`Policy` is `evaluateGovernancePolicy`; `ProposalRecord` is what
`createMemoryProposal` computes before its await; `ExecuteAtomicMutation` is
`executeAtomicMutationTransaction`.

| Operation | Steps |
|---|---|
| `createMemoryProposal`, automatic | `BeginPropose`, `CommitAutoApply`, `SetImportance` |
| `createMemoryProposal`, staged | `BeginPropose`, `CommitStage` |
| `approveMemoryProposal` | `BeginApprove`, `CommitApprove` |
| `rejectMemoryProposal` | `BeginReject`, `CommitReject` |

The extractor's and the decision engine's results are inputs: any draft, any
decision, any target, confident (at least 0.85) or not. IGNORE is refused at
once and changes nothing. Initiators are `user` (a decision), `system` (the
policy), `human_user` (a direct write).

### RecordedMemory

What the store promises of its ledger, without clients, transactions, digests or
chains: `memory` (what is live under an id) and `recorded` (what was recorded for
it last); `Record` does both at once, `Retire` takes memories away. The promise
is `LiveIsRecorded`. `MemoryStore` instantiates it as `Recorded` with the
refinement mapping `memory <- ActiveMemory` (the active rows of nodes) and
`recorded <- LastRecorded` (the payload of an id's newest write in the ledger),
both without `created_at` where that write is an `updatePrimitive`'s (`Compared`);
`ImplementsRecordedMemory` is the abstract specification under that mapping.
Nothing is recorded for deletions, archives and merges, which is why `Retire`
leaves `recorded` alone.

### Consolidation

Extends Governance with `memory_lineage` and `memory_contradictions`: all the
store's and governance's calls stay, and a proposal that comes from here is
decided by the same actions.

| Operation | Steps |
|---|---|
| `recordContradiction`, `resolveContradiction` | `BeginContradict` (a detector's finding in rows the caller read), `RecordContradiction`; `ResolveContradiction` |
| `proposeConsolidation` | `BeginConsolidate`, `RecordLineage`, `SubmitConsolidation`, then Governance's `CommitAutoApply` / `CommitStage` |
| `rollbackLineage` | `BeginRollback`, `RollbackDelete`, `RestoreSnapshot`, `ForgetLineage`: three transactions, any of which may be the last |

`ContradictionsCascade` is the ON DELETE CASCADE of `memory_contradictions`; it is
conjoined to every step of the layers below, because any of them may delete from
the registry. `memory_lineage` has no foreign key. Of a rollback's
`insertPrimitive` both outcomes that return are modelled; a collision throws and
is `Abort`.

### Detection

`ContradictionDetector` and `DuplicateDetector` as operators over a list of
memories. A memory has the four fields a text may come from, and each detector
takes its text in an order of its own: `ExtractText` (claim, statement, name,
summary) and `ExtractSearchableText` (name, claim, statement, summary). A text is
its trimmed lower-case form, which one detector compares, and what the parsers
make of it (a preference, a usage, words that may name a subject), which the other
compares; the regular expressions are left out. A report is a set of at most one
element per pair, so "the first rule that applies" is the order of the conditions.
Of similarity only the pairs at or above the threshold matter. The JCS digest
covers the id, so two ids never have the same one and `jcs_hash_exact` is never
reported.

### Retrieval

The reads that take several statements, next to writers reduced to what a reader
can tell (`Insert`, `Delete`, `Embed`). Each `await this.getPrimitive(...)` in a
loop is a step, so rows change between the SELECT that named them and the read
that fetches them.

| Call | Steps |
|---|---|
| `searchFTS5` (`pakb_search`) | `BeginRecall` (its SELECT, with LIMIT and OFFSET), `ReadFtsRow` per row, `CatchFtsError` (an error at any row becomes an empty list), `ReturnKeyword` |
| `searchHybrid` | the same, `SelectVectors`, `ReadVectorRow` per vector, `Fuse`, `Hydrate` per keyword hit without a primitive, `ReturnHybrid` |
| `retrieveRankedMemories` | the same with twice the limit, `ReadLifecycle` and `Touch` per hit, `ReturnRanked` |
| `traverseGraph` | `BeginTraverse` (the recursive query), `ReadNode` per row, `SelectEdges` |
| `MemoryClient.consolidate`, `pakb_find_duplicates` | `BeginCompare` (any page of `PageSize` rows, 100 in the code) or `BeginScan`, `ReadMemory` per row, `Compare` |

The query is fixed: `Matches` is bm25's order of the ids whose text matches it,
`Similarity` the cosine. `InOrder` is what a sort or an ORDER BY makes of a set:
the sequence of its elements in which every one precedes those it comes before.
Fusion weights the keyword search by `alpha` and the vectors by `1 - alpha`, in
tenths, and divides by 60 plus the rank; scores are in units of 1/(10 * `Unit`),
exact for the three ranks the runs reach, and the theorem speaks of the rounded
scores, for longer lists too. Only `searchHybrid` called directly gets an `alpha`
that is not 0.5. Recency is the weight 1 or 2 of one half-life; importance is the
same for all.
The text behind an id does not change, so the index that updates leave stale is
not here.

### Selection

The stages of `packages/compiler` as operators, shared by the two state machines
below: `IsEligible` and `FilterStage` (filter.ts), `Score` and `Precedes`
(scoring.ts, ranking.ts), `FitStep` and `FitStage` (fitting.ts) folded over the
ranking, and `CalculateBudget`, the token profiler's own idea of priority and
budget. A primitive keeps what these look at; one without `valid_to`
(filter.ts:37-46) is not told apart from one that expires later, which makes no
difference while no caller passes a cutoff. `PlacedByBoth` is what the fitter and
the profiler both have a place for: a hard directive on demand is not (fitting.ts:94
refuses it, token-profiler.ts:250 demotes it).

### ContextCompiler

`CompilerClient.compile` of the SDK and the stages it runs, up to FIT. `Fetch` is
`getPrimitives()`, which returns one page of 100 (a constant here). `Select`,
`SetAside` and `Refuse` are the three outcomes of `assignTier` for the next
primitive of the ranking, one step each; `Finish`, `Retry` and `GiveUp` are the
ends of a round of the `while (true)` loop. Each primitive has an estimated cost
(what FIT counts); the length of the rendered text is a separate constant
operator, `TokensOf`, because tokens of concatenated lines do not add up and
because the text of an entity includes a description its estimate leaves out.
Tier 1 and overflow are one outcome, since `compile` renders neither.

### Build

`aiet compile [--dry-run] [--watch]`: a directory of JSON files a user edits, the
configuration, the pipeline from INGEST to EMIT, four targets on disk.

| Variable | State |
|---|---|
| `input`, `config`, `edits` | the files, each a list of primitives as they are written; budget and `dry_run` of `pakb.config.json`; the bound on editing |
| `process`, `options` | `aiet compile`: down, first compilation, chokidar's initial scan, watching; its command line |
| `changes`, `unreported` | edits chokidar will report; edits nobody saw and nobody has read since (a ghost) |
| `isCompiling`, `recompileQueued` | the flags of `startWatchMode` |
| `step`, `todo`, `resolved`, `read`, `artifacts`, `exit` | the compilation: one step per file read, two per file written; `resolved` is what `resolveConfig` makes of file and command line |
| `output` | what each target holds; files are emptied (`OpenArtifact`) and written (`WriteArtifact`) in place, one after the other, and a kill in between leaves `Broken` |

`Kill` is Ctrl-C or a crash at any step, `WriteError` the disk, `ReadFile` of
`Broken` an invalid file. A written primitive (`Written`) also says in which order
its keys stand, whether an entity has a description, and where format characters
are: `Sanitized` strips strings of the primitive itself and not nested ones, as
`sanitizeStage` does; `PrintedAsJson` is the entity that an emitter prints as it was
written; `SourceHash` sorts keys. A primitive that stands twice in one file
collides with itself. A text shows what its emitter shows of the fit; the manifest
has digests of the texts (symbolic) and of the normalized input. `UpToDate` is the
test of `BuildOrchestrator.build`, a library class no command calls, against the
manifest the CLI left on disk. The input and output directories are fixed: watch
mode keeps the paths it started with, and another directory is another instance.

## 3. Runs

The runs of the store, the shared connection, governance, consolidation and
retrieval assume no fairness: their properties are safety properties, and the specifications allow
the system to stop anywhere, which includes a crash of any client at any point.
Deadlock is checked in all of them but retrieval: some client can always start or
abort; retrieval ends when its bounds on calls and writes are used up.

Two specifications state fairness. `ContextCompiler` has weak fairness of its
next step: its loops are synchronous code without an await; a call that has ended
is a state without successors, so its runs do not check deadlock. `Build` has
weak fairness of `CompilationStep`, the process's own steps and chokidar's
reports: a compilation is synchronous, Node runs what is queued, and chokidar
reports what it saw. Nothing is assumed of the user, the disk or `Kill`.

| Run | Config | Question |
|---|---|---|
| `memory_store` | MemoryStore.cfg | Do all operations of the store together, called from two processes, keep references, ledger and index consistent, and implement the abstract store? |
| `governance` | Governance.cfg | Do automatic writes and decisions keep their promises next to each other and to deletions? |
| `consolidation` | Consolidation.cfg | Do the references of lineage and contradictions, and the ledger, survive rollbacks in three transactions? |
| `retrieval` | Retrieval.cfg | Is what a recall, a traversal or a comparison returns right, when rows change under it? |
| `shared_connection` | SharedConnection.cfg | Is what awaits between BEGIN and COMMIT kept or undone as a whole, and always ended, when other calls join it, fail to begin or end it; and what does a merge take with it that was written while it awaited? |
| `compile` | Compile.cfg | Does the budget loop end, and with the right selection or the right error? |
| `build` | Build.cfg | Is the output current when watch mode is quiet, and is the last change compiled? |
| `lost_update` | LostUpdate.cfg | Finding: a token does not prevent a lost update within one second. |
| `merge_survivor` | MergeSurvivor.cfg | Finding: a merge can leave nothing. |
| `decision_race` | DecisionRace.cfg | Finding: one proposal, two decisions. |
| `hard_overflow` | HardOverflow.cfg | Finding: a compilation fails over hard directives that fit. |
| `work_not_undone` | WorkNotUndone.cfg | Finding: of two transactions together, one fails and half of it stays. |

### Bounds, and why they are enough

* **Two clients.** Every hazard listed is a step of one caller between two steps
  of another; each transaction is atomic, so a third caller adds a longer
  history to the same tables, and a second call of the first client already
  does that.
* **Ids.** `memory_store` has an entity, an event and a relation between them:
  a type with index and archive, one without either, and an edge whose endpoints
  can be deleted, merged, or be the duplicate itself; the entity exists in two
  versions and two tiers. `governance` has two entities, so that
  MERGE and UPDATE can move content from one id to the other.
* **`MaxClock`.** 1 in `memory_store`, where a second passes while there is no
  node but the entity and at most two audited writes (the state constraint
  `TimePassesForNodes`): a stale token,
  the same second, and a submission older than what it meets. 1 in `governance`,
  so that a proposal can be older than its target, and for the merges of
  `shared_connection`; 0 where every write falls into one second, which is the
  hardest case for the token.
* **`Skews`.** -1 and 0 in `memory_store`: what is submitted was made and changed
  this second or the one before, so a row recreated under a call in flight can
  match its token and differ in `created_at`. 0 elsewhere.
* **`MaxAudit`.** 3 or 4 rows: a write by each client and one more. Deletes,
  archives and merges write no audit rows and are not limited by it, so rows
  come and go any number of times between them.
* **Symmetry** of clients where both call the same operations, of proposal ids
  in `governance`. No liveness property is checked there, so it is sound.
* **Consolidation.** Two entities, so that source and target differ and a merge
  or an update moves content; one lineage row and one contradiction at a time,
  since rows of these tables do not look at each other; one second, since the
  token is the subject of other runs. One client consolidates and rolls back, the
  other inserts, approves and deletes between its steps.
* **Shared connection.** Processes of two callers, chosen initially: one with
  transactions and one whose calls join them; two that merge, embed and delete; two
  that merge and call `executeTransaction`, so that every BEGIN that can fail does,
  in both handlers. Two entities and a relation, so that a merge has something to
  relink and an endpoint to lose. Three audit rows (one committed before, one
  inside, one that joins), two for the third process and once a second has passed
  (`WithinBounds`). `MergesExclude` and `SingleWorkIsAllOrNothing` name the
  processes they speak of; without that the latter is the finding
  `work_not_undone`.
* **Retrieval.** Three primitives: two that match the words and up to three with
  vectors, so that the two rankings can agree, cross and miss each other; limits
  1 and 2, so that pages cut; offsets 0 and 1; `alpha` 0.5 and 0.8, an even and an
  uneven weight; pages of two, so that `getPrimitives` leaves one of three out;
  depth 4 is clamped to 3, and a path of two edges and a ring need no more.
  `MaxCalls` is 2 and `MaxWrites` is 1: two calls together, and one write that
  hits any point of either. Four worlds hold every tier, a missing primitive, and
  texts for each rule of the detectors on both sides of its boundary (30 and 31
  days, one-sided domains and contexts).
* **Build.** Two files, so that one can change after it was read and before the
  other is; five contents: an entity without a description in two orders of its
  keys, a hard directive whose format characters are half stripped next to an
  archived memory, a primitive that stands twice, one that is refused. Two
  configurations: the entity and the directive fit together in the larger budget
  only, which the file asks to dry-run. One directory to begin with; `MaxEdits` is
  2: one edit during a compilation and one during the compilation that follows it.
* **Compile.** A catalog with a primitive for each rule of filter, ranking and
  fitting; every memory of up to four of them, so that a hard directive meets
  what precedes it and what follows it; pages of three, so that a page can cut a
  memory; budgets from below the header to above everything, with entities that
  are rendered four tokens longer than estimated, so that several rounds are
  needed.

### What the passing runs show

* `ReferentialClosure`: rows, endpoints, vectors, lifecycle rows and proposals
  name registered primitives, and a node is registered exactly while its row
  and its lifecycle row exist, through every cascade and merge.
* `AuditChainValid`: the chain verifies after any interleaving of writers.
* `AuditMatchesStore`: the newest audited write of a node has the digest of the
  active row stored under its id. Archived rows are left out (archiving is not
  audited), and relations too: a merge relinks them without an audit row. Where
  that write is an `updatePrimitive`'s, everything but `created_at` is compared;
  see below.
* `SearchIndexHidesRestricted`: what is indexed is stored and unrestricted,
  also after an id was deleted and recreated in another tier.
* `CreateNeverOverwrites`: the check an insert made before its await is backed by
  the primary key.
* `DecisionsAudited`, `ApprovalAppliesProposal`, `AgentsLeaveRestrictedAlone`:
  what governance decided is in the ledger, what was approved is what is
  written, and no automatic write touches a restricted row even when the target
  is recreated as restricted between the decision and the write.

* `HardDirectivesKept`, `SelectionIsGreedy`: after any number of rounds, a text
  that is returned has every hard directive that was read and, for the last
  budget, exactly the selection a definition of greedy selection without a loop
  gives.
* `BudgetShrinks`, `CompileEnds`, `HeaderErrorIsHonest`: each round has less to
  spend, the loop ends (liveness), and it blames the header only when it is to
  blame.
* `ProfilerAgrees`: the token profiler and the fitter, two definitions of one
  budget, select the same preamble and refuse together, on memories without what
  only one of them can place (`PlacedByBoth`).
* `ImplementsRecordedMemory`: rows and ledger move in one step, or rows only go
  away.
* `ContradictionsClosed`, and `AuditMatchesStore` again under consolidation:
  between any two transactions of a rollback, and when it stops there, nothing refers to what is gone and what is stored is explained. (A
  rollback that stops after its delete leaves no memory; the ledger does not
  claim there is one that is live, and the lineage row still holds it.) `AuditChainValid`,
  `DecisionsAudited`, `ApprovalAppliesProposal`, `AgentsLeaveRestrictedAlone` and
  `SearchIndexHidesRestricted` are proved for this specification and have no run
  of their own here.
* `HitsAreVisible`, `RecallIsComplete`, `FusionRewardsAgreement`,
  `AccessesCounted`, `TraversalIsReach`: hits nobody touched meanwhile are ones
  the caller may see; a recall that is short found everything, unless hidden rows
  filled the page; a hit ahead in both rankings stays ahead; concurrent recalls
  lose no access; an undisturbed traversal is exactly reachability within the
  depth, through archived entities as through others. A recall that came back empty
  because `searchFTS5` swallowed an error is left out of `RecallIsComplete`, and a
  hit of both searches is sure to come before a hit of one only while the two
  weights are even enough for the lengths of the lists (`Balanced`).
* `VerdictsIgnoreOrder`: the detectors' rules are asymmetric, their verdicts are
  not.
* `QuietMeansCurrent`, `LastChangeCompiled` (liveness), `UpToDateKeepsSelection`:
  after a success, with nothing left to report, all targets are of one build of
  what the directory holds now; every reported change leads there, or to a failed
  compilation; and whatever the manifest calls up to date would be selected the
  same, and written the same where no entity is printed as JSON. The last is about
  builds without filter options, as the CLI's are.

* `NoTransactionLeftOpen`: however failed BEGINs, COMMITs and ROLLBACKs of
  different calls interleave, an open transaction has somebody inside who will
  end it.
* `SingleWorkIsAllOrNothing`, `MergesExclude`: with one caller of
  `executeTransaction` the audit rows of its work are in the file exactly when it
  reports success; the BEGIN that fails before the `try` makes `mergeMemories` a
  lock against other merges.
* `MergeTakesNewEdgesOnly`: in a process without `executeTransaction`, a merge keeps
  every relation that was there when it began; the cascade of its last statement
  takes no other than those that calls created while it awaited.
* `LedgerMatchesRows`: on one connection nothing gets between what an update reads
  and what it writes, so the digest is exact, `created_at` included, inside a
  transaction and after it is rolled back.

### Findings

* **Lost update within a second** (`NoLostUpdate`): the token is `updated_at` in
  whole seconds, and two versions of one second share it.
* **A merge without a survivor** (`MergeLeavesPrimary`): the primary is checked
  before the await and the transaction, not in it.
* **Two decisions on one proposal** (`DecisionIsFinal`): `pending` is checked on
  a copy read before an await. Approve and reject in flight together both
  succeed.
* **Hard directives that fit are refused** (`RefusalIsJustified`): an owner entity
  or a newer memory of the same score comes first in the ranking and takes the
  room; the documents reserve the failure for hard directives that exceed the
  budget alone.
* **A transaction that is half undone** (`WorkIsAllOrNothing`): with two callers of
  `executeTransaction` the second BEGIN fails inside the `try`, the handler rolls
  back the first caller's transaction, and what that caller's work writes next is
  committed at once although it reports a failure.

Seen while modelling, without a run of their own because a short sequence of calls
shows them:

* Deletions, archives and merges append nothing to the ledger, although
  `docs/autonomous-memory-architecture.md:142` says it logs "every memory creation,
  modification, merge, and deletion"; `Retire` of the abstract store is this.
* `pakb_find_duplicates` (`mcp-server/src/tools.ts:239`) searches for the empty
  query, which returns at once (`repository.ts:1231`), so it reports no duplicates,
  although `docs/memory-consolidation.md:105` says it "Scans storage primitives".
* `pakb_search` labels each hit `sensitivity: "public"` (`tools.ts:111`); internal
  ones are among them.
* An `rrf_score` is at most 1/61, so the thresholds 0.85 and 0.95 of
  `rule-evaluator.ts:72` are never met by a ranked recall; `MemoryClient.add` passes
  no memories to the evaluator anyway, so its decisions are CREATE or IGNORE.
* `normalizePrimitive` returns what it gets; the comment at `pipeline.ts:146` speaks
  of sorted keys, line endings and trimming. `SourceHash` sorts keys itself.
* `verifyArtifactsOrThrow` (`compiler/src/verifier.ts`) is empty: the orchestrator's
  step "Verify Artifact Integrity" verifies nothing.
* A file edited between the first compilation of watch mode and the end of
  chokidar's initial scan is not compiled before the next edit: `unreported` in
  `Build`.
* `proposeConsolidation` (`consolidation-engine.ts:29`) snapshots its source, and MERGE
  and UPDATE change the target: a rollback restores what was not changed, although
  `docs/memory-consolidation.md:63` says the snapshot is taken "Before any primitive
  mutation".
* On a shared connection other calls read what a transaction has not committed
  (`docs/architecture/pakb-storage-semantics.md:149` says "MUST NEVER be visible to
  concurrent queries"), and an insertion that joined it returns before it ends and
  goes with its ROLLBACK.
* `updatePrimitive` digests the `created_at` of a copy read before its transaction
  (`repository.ts:446`, `1157`, `1172`); its UPDATE neither tests nor sets the column.
  When another process deletes and recreates the row in the gap, with the same tier
  and `updated_at`, the ledger records (`1181`) a `created_at` the row does not have.
* `archivePrimitive` takes its time before its transaction (`repository.ts:1196`), and
  its UPDATE is by id alone: after a wait for the write lock it sets `updated_at` back
  behind an update committed meanwhile.
* Archived entities are traversed and their relations returned
  (`repository.ts:1500-1528`), although
  `docs/architecture/pakb-storage-semantics.md:169` says graph queries "MUST filter out
  edges connected to archived entities unless historical retrieval is explicitly
  enabled".
* With an `alpha` away from 0.5 a hit of both searches can come behind a hit of one:
  at 0.8, ranks 20 and 20 earn 1/80 together and a first keyword hit 0.8/61.
  `retrieveRankedMemories` declares `alpha` among its options (`repository.ts:92`) and
  does not pass it on (`1662`).
* `searchFTS5` answers any error with an empty list (`repository.ts:1289`), which its
  callers cannot tell from no match. A hit whose primitive was recreated as restricted
  between the searches and the last read (`1448`) comes back, since that read filters
  nothing.
* `UP_TO_DATE` (`orchestrator.ts:40`) looks neither at the filter options of the call
  nor at the artifacts. The emitters print an entity without a description in the order
  its keys were written (`emitters/utils.ts:38`), the source hash sorts keys
  (`fingerprint.ts:10`): inputs of one hash have different texts, and the second is not
  built; `docs/architecture-overview.md:105` promises "bit-for-bit identical output" of
  identical inputs.
* `sanitizeStage` strips strings of the primitive itself (`pipeline.ts:95-110`); in
  tags, metadata and other nested values format characters stay.
* `writeArtifactsAtomic` empties and writes each file in place (`filesystem.ts:42`).
* A hard directive on demand is refused by the fitter (`fitting.ts:94`, then `:40`) and
  demoted by the token profiler (`token-profiler.ts:250`).
* An MCP proposal is kept in a Map of the server process (`staging.ts`), decisions look
  in `memory_proposals`.
* A relation to the duplicate that another call inserts while a merge awaits
  (`repository.ts:1635`) is not relinked, and the cascade deletes it with the
  duplicate, although `docs/memory-engine.md:71` says the merge "Re-links all graph
  relations". A merge whose transaction an `executeTransaction` rolled back deletes
  its duplicate all the same, without the relinking, and then fails at COMMIT.

## 4. Proofs

The proofs hold for every value of the constants that satisfies the named
assumptions: `DraftAssumption` (`None` is not an id, fact, importance or
primitive; `Restricted` is a tier; what is submitted is an active primitive)
and `BoundAssumption` (bounds are natural numbers, skews integers); for the compiler
`CatalogAssumption` (a memory is finite, ids are unique, only directives are hard,
a cost is positive) and `CallAssumption` (a budget is positive, a token count is a
natural number); for the build `ContentAssumption` (finitely many files, numbered;
each holds a list of written primitives; a configuration is a budget and a flag; the
markers are none of these); for retrieval `QueryAssumption` (`Matches` has no
repetition and no two similarities are equal, so that the order of a page is that of
the scores alone; limits are positive, offsets and the page size natural numbers,
weights tenths) and
`WorldAssumption` (tables of the right types, finitely many vectors); for the
detectors `TextAssumption` (a text is known by its key, dates are numbers, the
markers are none of these). TLC evaluates them in every run of these modules. The
bounds appear in the guards of `Tick` and `Audit`, and in retrieval of the calls
and writes, and may be as large as one likes.

`Orders_proofs` has what sorting, recursion and folds need. The library states
induction with an operator parameter, which no installed prover can instantiate;
here it is stated with a set of naturals, or of subsets, instead (`Induction`,
`FiniteInduction`, `RemovalInduction`) and derived from `LeastNatural`, that a
nonempty set of naturals has a least element. `SortingExists` puts a finite set in the
order of a relation; `FoldExists` and `FoldUnfolds` say that the function which
`MapThenFoldSet` chooses exists and is unfolded at the element its choice picks.
From these come what `FitStage`, `CalculateBudget`, `InOrder` and the recursive
functions of `Retrieval` compute, for every argument.

| Theorem | States | Argument |
|---|---|---|
| `TypeCorrect` | `Spec => []TypeOK` | inductive; `StampedType`, `MutatedType` and `AppendType` carry rows and ledger rows |
| `ChainAlwaysVerifies` | `Spec => []AuditChainValid` | `AppendKeepsChain`: appending to a chain that verifies gives one that verifies. The latest number equals the length because the chain verifies, which is why the invariant is inductive by itself once types are known |
| `ReferencesResolve` | `Spec => []ReferentialClosure` | inductive with TypeOK; one step per action. Deletion needs that the cascade empties every table that can name the id; merging needs that relinking leaves no row that names the duplicate, and that the primary is registered when something was relinked |
| `InsertNeverOverwrites` | `Spec => CreateNeverOverwrites` | from `ReferentialClosure`: an id outside the registry has no row |
| `SearchStaysPublic` | `Spec => []SearchIndexHidesRestricted` | needs `ReferentialClosure`: an insert does not touch the index of a restricted primitive, so there must be no entry left from before; there is none because entries exist only for stored rows and the id was free |
| `GovernanceTypeCorrect` | `GovernanceSpec => []GovernanceTypeOK` | the store's lemmas again under the larger set of calls |
| `GovernanceChainVerifies` | `GovernanceSpec => []AuditChainValid` | as above, over both next-state relations |
| `GovernedSearchStaysPublic`, `ConsolidatedSearchStaysPublic` | `... => []SearchIndexHidesRestricted` | the store's argument for each write a decision makes; a MERGE or UPDATE leaves the index alone, and leaves the row its tier; a rollback's delete takes the entry along and its insert finds none |
| `GovernanceReferencesResolve` | `GovernanceSpec => []ReferentialClosure` | proposals saved by decisions in flight are caught by the foreign key of their target |
| `RestrictedNeedsAUser` | `GovernanceSpec => AgentsLeaveRestrictedAlone` | strengthened with: a call that will apply automatically holds a candidate that is not restricted. `Mutable` and `Matches` then compare the tier of the row as it is at the write |
| `ConsolidationLeavesRestrictedAlone` | `ConsolidationSpec => AgentsLeaveRestrictedAlone` | the same strengthening (`PolicyHonoured`), which a consolidation that submits its candidate establishes by asking the policy |
| `CompilerTypeCorrect` | `Spec => []TypeOK` | inductive |
| `RoundsGetSmaller` | `Spec => BudgetShrinks` | from the types: the overrun subtracted is at least one |
| `HardDirectivesAreKept` | `Spec => []HardDirectivesKept` | strengthened with: while fitting, each hard directive is selected or still in the queue; only `Refuse` takes one out of the queue otherwise, and it ends the call |
| `HeaderErrorHonest` | `Spec => []HeaderErrorIsHonest` | strengthened with: what is selected costs something and at most the round's budget, so at budget zero the text is the header alone |
| `SelectionGreedy` | `Spec => []SelectionIsGreedy` | strengthened with `GreedyInv`: what was placed so far precedes the queue, its cost is `tokens`, and each candidate passed over does not fit behind the selected ones that precede it |
| `TwoSelectionsAgree` | `SelectionsAgree(S, budget)` for every finite set of distinct ids that both selections place, and every budget | on what is always on both rankings are one order, so both loops take the same element at each unfolding; the profiler's sum of hard costs is at most what the fitter has used, so neither refuses alone; what is on demand comes last in both rankings and never changes what the others get |
| `ProfilersAgree` | `Spec => []ProfilerAgrees` | `TwoSelectionsAgree` for every memory and budget a call may have |
| `ApprovalsApply`, `ConsolidationApprovalsApply` | `... => ApprovalAppliesProposal` | from the types: `ExecutedAsProposed` reads off what `ExecuteAtomicMutation` writes, for each decision |
| `DecisionsAreAudited` | `GovernanceSpec => []DecisionsAudited` | strengthened with `CallsDecided`: the copy of a proposal that a call in flight holds carries the status that fits what the call will do, so a commit audits what it saves. An audit row, once written, stays (`LedgerOnlyGrows`) |
| `StoreImplementsRecordedMemory`, `GovernanceImplementsRecordedMemory`, `ConsolidationImplementsRecordedMemory` | `... => ImplementsRecordedMemory` | initial states map to initial states; a step that audits a write is `Record` of that id (`WriteSimulates`), one that audits a decision only or nothing leaves `LastRecorded` alone (`NoteSimulates`, `RetirementSimulates`); of a rollback the delete is `Retire` and the insert is `Record` |
| `LiveMemoryIsRecorded` | `ImplementsRecordedMemory => []Recorded!LiveIsRecorded` | the abstract promise, inductive over three lines |
| `LedgerExplainsStore`, `LedgerExplainsGovernedStore`, `LedgerExplainsConsolidatedStore` | `... => []AuditMatchesStore` | through the refinement: the promise, read back through the mapping, says that the newest write of a node with an active row carries that row, `created_at` excepted where `updatePrimitive` wrote last, and equal payloads have equal digests |
| `ConsolidationTypeCorrect` | `ConsolidationSpec => []ConsolidationTypeOK` | the lemmas of the layers below, applied step by step; together with `CallsDecided`, which a submitted consolidation establishes for its own record |
| `ConsolidationReferencesResolve` | `ConsolidationSpec => []ContradictionsClosed` | the store's closure, and every step that shrinks the registry takes the cascade with it |
| `ConsolidationChainVerifies` | `ConsolidationSpec => []AuditChainValid` | a rollback's record is appended like any other |
| `ConsolidationDecisionsAudited` | `ConsolidationSpec => []DecisionsAudited` | as in governance; a rollback only appends to the ledger |
| `QuietOutputIsCurrent` | `Spec => []QuietMeansCurrent` of Build | strengthened with `BuildInv`: while a compilation reads or writes, every file that is not still to be read, to be reported or never reported was read as it was; what is written so far is `Emitted` of what was read; the flags say who is compiling. The pipeline is opaque |
| `ManifestNamesItsSelection` | `Spec => []UpToDateKeepsSelection` of Build | a manifest on disk that is whole is of some build; it names its budget and the input without the order of keys, and the selection is a function of the budget and of the primitives alone; the texts are one of the primitives too, where no entity is printed as it was written |
| `BuildTypeCorrect` | `Spec => []BuildTypeOK` of Build | what the fit selects is part of what was read (`Selection_proofs`), and what was read is what some user wrote |
| `ConnectionTypeCorrect` | `ConnectionSpec => []ConnectionTypeOK` | the lemmas of the store for the steps that join, and the types of `committed` for what comes back |
| `ConnectionReferencesResolve` | `ConnectionSpec => []ReferentialClosure` | strengthened with the same closure of `committed`, which COMMIT copies to and ROLLBACK from; `ReferencesResolve`'s lemmas for the rest |
| `NoTransactionIsLeftOpen` | `ConnectionSpec => []NoTransactionLeftOpen` | inductive with the types |
| `MergesAreExclusive` | `ConnectionSpec => []MergesExclude` | inductive together with `working = {}`, in a process where nobody calls `executeTransaction` |
| `SingleWorkIsAtomic` | `ConnectionSpec => SingleWorkIsAllOrNothing` | strengthened with `OwnTransaction`: while the work runs its transaction is open, what it appended is in the ledger of the connection and not in the file's |
| `ConnectionLedgerExplains` | `ConnectionSpec => []LedgerMatchesRows` | strengthened with the same of the tables of `committed` (`ExplainedTables`): an update digests what it writes because `UpdateAtOnce` reads, checks and writes in one step, COMMIT copies rows and ledger together and ROLLBACK takes both back together |
| `MergesTakeNewEdgesOnly` | `ConnectionSpec => MergeTakesNewEdgesOnly` | strengthened with `TouchedAreNew`: while a merge awaits, in a process without `executeTransaction`, a relation that names its duplicate has its CREATE behind the committed part of the ledger. Relinking leaves no such relation, only an insertion makes one, and nothing of the process commits before the merge does (`MergesAreExclusive`) |
| `ConnectionChainVerifies` | `ConnectionSpec => []AuditChainValid` | with the chain of `committed` (`Verified`): a ROLLBACK goes back to a chain that verifies, and the next row links to its end |
| `ConnectionSearchStaysPublic` | `ConnectionSpec => []SearchIndexHidesRestricted` | with the same of `committed` (`HiddenTables`) |
| `RetrievalTypes` | `Spec => []RetrievalTypeOK` of Retrieval | with `TypeInv`: each call in flight has the shape of its operation, a list without repetition at each stage; a combined list has an id once, although the two searches answer from two moments |
| `AccessesAreCounted` | `Spec => []AccessesCounted` | inductive with the types: the count and the ghost move in the same step, whoever else is between its read and its touch |
| `HitsVisible` | `Spec => []HitsAreVisible` | with `VisibleInv`: whatever a call in flight carries was visible when it was read, or has been written since the call began |
| `RecallCompletes` | `Spec => []RecallIsComplete` | with `FoundInv`: as long as nothing was written, what is still to be read and what was found make up the page, at each stage |
| `FusionAgrees` | `Spec => []FusionRewardsAgreement` | with `FusionInv`: the order is that of the fused scores. Division is antitone, so a hit ahead in both lists earns at least as much of each, whatever the weights, and a tie keeps the order of the lists. Of a hit of both against a hit of one the property speaks while the weights are `Balanced`: then two last places together exceed one first place |
| `TraversalReaches` | `Spec => []TraversalIsReach` | with `WalkInv`: an undisturbed walk holds the rows of the recursive query. A node on a simple path of length d is within distance d, and a shortest path is simple, by induction on the depth |
| `VerdictsAreUnordered` | `Spec => []VerdictsIgnoreOrder` | with `VerdictInv`: a report is what the detector says of the list read. Each rule is symmetric or decided by the dates, and a rule that applies one way excludes the earlier ones the other way |

### Model-checked only

Every invariant and every action property of the passing runs is stated by a
theorem of the same specification. Liveness is out of the prover's reach and stays
with TLC: `CompileEnds`, whose variant is `RoundsGetSmaller`, and
`LastChangeCompiled`.

`CreateNeverOverwrites` is an action of the store's own calls and is stated for the
store; `MergeTakesNewEdgesOnly` is about the awaits of one process and is stated for
the shared connection.

## 5. Not modelled, and why

* Text: extraction heuristics, the parsers in front of the detectors, secret
  patterns, layout of the emitted files. Stateless.
* External services: embedding and LLM providers; bm25 and cosine are given.
* `retryWithBackoff` and `timeoutPromise` (`utils/src`): no caller in the
  packages keeps state around them.
* Logging, argument parsing, printing commands of the CLI (`status`, `doctor`,
  `connect`, `init`, `memory list` and the like).
* Of the store: updates that leave the search index stale, `getTimeline`, the
  schema of the SQL migration. Governance and consolidation on a shared
  connection.
* Of the MCP server: the staging queue, a Map that is written and listed by one
  process and that nothing decides from; the routing of requests.
* Of the build: `verifier.ts`, whose function returns without looking at anything.

## 6. Plan

In the order of what matters most; finished parts are described above.

1. `AuditChain`, `MemoryStore`, `Governance`, `ContextCompiler` with proofs: done.
2. `RecordedMemory` and the refinement, by TLC and by TLAPS: done.
3. `Consolidation` with proofs, `Retrieval`, `Detection`, `Selection`, `Build`: done.
4. `SharedConnection` with proofs, and the proofs of `Build`: done.
5. `Orders_proofs`, the proofs of `Retrieval`, `Selection` and `BuildTypeOK`, the
   ledger and the index under consolidation and on a shared connection: done.
6. The times and weights the code reads early or takes from its caller (`created_at`,
   the `now` of an archive, `alpha`), the awaits of a merge, keys and format
   characters in a build: done.
7. The search index under updates, in `MemoryStore` or `Retrieval`.
8. Governance and consolidation on a shared connection, with rollbacks of
   lineage inside a transaction.
