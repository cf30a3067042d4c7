----------------------------- MODULE Retrieval -----------------------------
(***************************************************************************)
(* The reads of AIETStorageRepository that take several statements:        *)
(* searchHybrid and retrieveRankedMemories (with searchFTS5 and            *)
(* searchVector inside them), traverseGraph, and the getPrimitives behind  *)
(* MemoryClient.consolidate, next to writers of the same tables.           *)
(*                                                                         *)
(* Every statement is a step: the rows a SELECT named are read one by one, *)
(* and the writers of MemoryStore, reduced to what a reader can tell, act  *)
(* in between.  A query is fixed, with the order bm25 and the cosine give  *)
(* its matches.                                                            *)
(***************************************************************************)
EXTENDS Detection

CONSTANTS
  Matches,     \* the ids whose indexed text matches the query, best first
  Similarity,  \* cosine of an id's vector and the query's
  Worlds,      \* what the tables may hold at first
  Readers,     \* concurrent callers
  Operations,  \* what each of them calls
  Limits,      \* the limits they ask for
  Offsets,     \* the offsets, of a keyword search alone
  Alphas,      \* the weights of keywords against vectors, in tenths
  Depths,      \* the depths
  PageSize,    \* how many primitives getPrimitives returns, 100 in the code
  MaxCalls,    \* bound: calls begun
  MaxWrites    \* bound: rows written by others

Tiers == {"public", "internal", "restricted"}

Relation == [source : Ids, target : Ids, sensitivity : Tiers]

(* memory_lifecycle; aged: last accessed one half-life ago.                  *)
Lifecycle == [access_count : Nat, aged : BOOLEAN]

ASSUME QueryAssumption ==
  /\ Matches \in Seq(Ids) /\ IsInjective(Matches)
  /\ Similarity \in [Ids -> Nat] /\ IsInjective(Similarity)
  /\ None \notin Tiers \cup Lifecycle
  /\ Limits \subseteq Nat \ {0} /\ Offsets \subseteq Nat /\ Depths \subseteq Nat
  /\ Alphas \subseteq 0 .. 10
  /\ PageSize \in Nat
  /\ MaxCalls \in Nat /\ MaxWrites \in Nat

(* aged are the ids last accessed one half-life ago.                         *)
ASSUME WorldAssumption ==
  \A w \in Worlds :
    /\ w \in [ stored : [Ids -> Tiers \cup {None}], content : [Ids -> Memory],
               relations : SUBSET Relation, embeddings : SUBSET Ids, aged : SUBSET Ids ]
    /\ \A i \in Ids : w.content[i].id = i
    /\ IsFiniteSet(w.embeddings)

VARIABLES
  stored,      \* the sensitivity of the primitive that has the id
  content,     \* what the primitive that has the id says
  relations,   \* the relation rows
  embeddings,  \* vector_embeddings
  lifecycle,   \* memory_lifecycle
  call,        \* what each reader is in the middle of, or returned last
  budget,      \* calls and writes still to come
  changed,     \* per reader: the ids written since its call began
  touches      \* accesses recorded since the id was stored

tables == <<stored, content, relations, embeddings, lifecycle>>
vars == <<tables, call, budget, changed, touches>>

Idle == [op |-> "idle"]

(* One entry of the combined list.  weight is the recency score in halves:   *)
(* 1 after one half-life; importance is 0.5 for everybody and drops out.     *)
Item ==
  [id : Ids, score : Nat, primitive : Tiers \cup {None}, weight : {1, 2}, seen : Nat]

(* caught: the keyword search threw and answered with an empty list.         *)
Recall ==
  [ op     : {"fts", "vector", "hydrate", "lifecycle", "touch", "recalled", "failed"},
    kind   : {"keyword", "hybrid", "ranked"},
    limit  : Limits,
    offset : Nat,
    alpha  : 0 .. 10,
    public : BOOLEAN,
    caught : BOOLEAN,
    todo   : Seq(Ids),
    fts    : Seq(Ids),
    vector : Seq(Ids),
    items  : Seq(Item) ]

Walk ==
  [ op    : {"walk", "walked"},
    seed  : Ids,
    depth : Nat,
    todo  : SUBSET (Ids \X Nat),
    nodes : SUBSET (Ids \X Nat),
    edges : SUBSET Relation ]

Report == [conflict : {"PREFERENCE_CONFLICT", "CONTRADICTING_ASSERTION", "OUTDATED_FACT"},
           a : Memory, b : Memory]

Duplicate == [match : {"vector_similarity", "text_exact"}, pair : SUBSET Memory]

Comparison ==
  [ op             : {"compare", "compared"},
    todo           : SUBSET Ids,
    list           : Seq(Memory),
    duplicates     : SUBSET Duplicate,
    contradictions : SUBSET Report ]

(* Types; a combined list has an id once.                                    *)
RetrievalTypeOK ==
  /\ stored \in [Ids -> Tiers \cup {None}]
  /\ content \in [Ids -> Memory]
  /\ relations \subseteq Relation
  /\ embeddings \subseteq Ids
  /\ lifecycle \in [Ids -> Lifecycle \cup {None}]
  /\ call \in [Readers -> {Idle} \cup Recall \cup Walk \cup Comparison]
  /\ \A r \in Readers : call[r] \in Recall =>
       IsInjective([k \in DOMAIN call[r].items |-> call[r].items[k].id])
  /\ budget \in [calls : 0 .. MaxCalls, writes : 0 .. MaxWrites]
  /\ changed \in [Readers -> SUBSET Ids]
  /\ touches \in [Ids -> Nat]

Init ==
  /\ \E w \in Worlds :
       /\ stored = w.stored
       /\ content = w.content
       /\ relations = w.relations
       /\ embeddings = w.embeddings
       /\ lifecycle = [i \in Ids |-> IF w.stored[i] = None THEN None
                                     ELSE [access_count |-> 0, aged |-> i \in w.aged]]
  /\ call = [r \in Readers |-> Idle]
  /\ budget = [calls |-> MaxCalls, writes |-> MaxWrites]
  /\ changed = [r \in Readers |-> {}]
  /\ touches = [i \in Ids |-> 0]

-----------------------------------------------------------------------------
(* The writers: insertPrimitive, deletePrimitive, upsertVectorEmbedding.     *)

Writes(i) ==
  /\ budget.writes > 0
  /\ budget' = [budget EXCEPT !.writes = @ - 1]
  /\ changed' = [r \in Readers |-> changed[r] \cup {i}]
  /\ UNCHANGED call

Insert(i, sensitivity) ==
  /\ stored[i] = None
  /\ Writes(i)
  /\ stored' = [stored EXCEPT ![i] = sensitivity]
  /\ lifecycle' = [lifecycle EXCEPT ![i] = [access_count |-> 0, aged |-> FALSE]]
  /\ touches' = [touches EXCEPT ![i] = 0]
  /\ UNCHANGED <<content, relations, embeddings>>

Delete(i) ==
  /\ stored[i] # None
  /\ Writes(i)
  /\ stored' = [stored EXCEPT ![i] = None]
  /\ lifecycle' = [lifecycle EXCEPT ![i] = None]
  /\ embeddings' = embeddings \ {i}
  /\ relations' = {e \in relations : i \notin {e.source, e.target}}
  /\ UNCHANGED <<content, touches>>

Embed(i) ==
  /\ stored[i] # None /\ i \notin embeddings
  /\ Writes(i)
  /\ embeddings' = embeddings \cup {i}
  /\ UNCHANGED <<stored, content, relations, lifecycle, touches>>

-----------------------------------------------------------------------------
(* Calls.                                                                  *)

Free(r) == call[r].op \in {"idle", "recalled", "failed", "walked", "compared"}

Start(r, operation, record) ==
  /\ Free(r)
  /\ operation \in Operations[r]
  /\ budget.calls > 0
  /\ budget' = [budget EXCEPT !.calls = @ - 1]
  /\ changed' = [changed EXCEPT ![r] = {}]
  /\ call' = [call EXCEPT ![r] = record]
  /\ UNCHANGED <<tables, touches>>

Continue(r, record) ==
  /\ call' = [call EXCEPT ![r] = record]
  /\ UNCHANGED <<budget, changed>>

UpTo(limit, s) == SubSeq(s, 1, IF Len(s) < limit THEN Len(s) ELSE limit)

(* What ORDER BY or a sort makes of a set.                                   *)
InOrder(S, Before(_, _)) ==
  CHOOSE s \in [1 .. Cardinality(S) -> S] :
    \A a, b \in 1 .. Cardinality(S) : a < b => Before(s[a], s[b])

Position(list, i) == CHOOSE k \in DOMAIN list : list[k] = i

(* A list without what is not in S.                                          *)
Only(list, S) ==
  InOrder(ToSet(list) \cap S, LAMBDA i, j : Position(list, i) < Position(list, j))

(* The filter behind a row that was read: sensitivity_limit is PUBLIC or not *)
(* given.                                                                    *)
Visible(sensitivity, public) ==
  sensitivity \in (IF public THEN {"public"} ELSE {"public", "internal"})

(* trg_*_fts_insert: nothing restricted is indexed.                          *)
IndexMatches == Only(Matches, {i \in Ids : stored[i] \notin {None, "restricted"}})

(* A ranked recall asks the hybrid search for twice its limit, which asks    *)
(* either search for twice that.                                             *)
HybridLimit(c) == IF c.kind = "ranked" THEN 2 * c.limit ELSE c.limit
SearchLimit(c) == IF c.kind = "keyword" THEN c.limit ELSE 2 * HybridLimit(c)

(* The matches behind the offset.                                            *)
Rest(c) == SubSeq(IndexMatches, c.offset + 1, Len(IndexMatches))

(* searchFTS5, its SELECT: LIMIT and OFFSET come before any filter.           *)
(* pakb_search and `memory search` call it directly and pass no               *)
(* sensitivity_limit; the hybrid search passes no offset, the ranked one no   *)
(* alpha either.                                                              *)
BeginRecall(r) ==
  \E kind \in {"keyword", "hybrid", "ranked"}, limit \in Limits, offset \in Offsets \cup {0},
     alpha \in Alphas \cup {5}, public \in BOOLEAN :
    LET c == [ op |-> "fts", kind |-> kind, limit |-> limit, offset |-> offset, alpha |-> alpha,
               public |-> public, caught |-> FALSE, todo |-> <<>>, fts |-> <<>>,
               vector |-> <<>>, items |-> <<>> ]
    IN  /\ kind = "keyword" => ~ public
        /\ kind # "keyword" => offset = 0
        /\ kind # "hybrid" => alpha = 5
        /\ Start(r, kind, [c EXCEPT !.todo = UpTo(SearchLimit(c), Rest(c))])

(* A match keeps the primitive that was read for it.                         *)
Match(i) == [id |-> i, score |-> 0, primitive |-> stored[i], weight |-> 2, seen |-> 0]

ReadFtsRow(r) ==
  LET c == call[r]
      i == Head(c.todo)
      visible == Visible(stored[i], c.public)
  IN  /\ c.op = "fts" /\ c.todo # <<>>
      /\ Continue(r, [c EXCEPT !.todo = Tail(@),
                               !.fts = IF visible THEN Append(@, i) ELSE @,
                               !.items = IF visible THEN Append(@, Match(i)) ELSE @])
      /\ UNCHANGED <<tables, touches>>

(* Whatever one of its statements throws, searchFTS5 catches it and returns  *)
(* an empty list.                                                            *)
CatchFtsError(r) ==
  LET c == call[r]
  IN  /\ c.op = "fts" /\ c.todo # <<>>
      /\ Continue(r, [c EXCEPT !.todo = <<>>, !.fts = <<>>, !.items = <<>>, !.caught = TRUE])
      /\ UNCHANGED <<tables, touches>>

ReturnKeyword(r) ==
  LET c == call[r]
  IN  /\ c.op = "fts" /\ c.todo = <<>> /\ c.kind = "keyword"
      /\ Continue(r, [c EXCEPT !.op = "recalled"])
      /\ UNCHANGED <<tables, touches>>

(* The last candidates by cosine.                                            *)
ByCosine(ids) == InOrder(ids, LAMBDA i, j : Similarity[i] > Similarity[j])

(* A LIMIT in the SELECT, as searchFTS5 has it.                              *)
VectorRowsLimited(c) == UpTo(SearchLimit(c), ByCosine(embeddings))

(* searchVector, its SELECT: all vectors.  Of a keyword match the hybrid     *)
(* search keeps the id alone.                                                *)
VectorRows(c) == ByCosine(embeddings)

SelectVectors(r) ==
  LET c == call[r]
  IN  /\ c.op = "fts" /\ c.todo = <<>> /\ c.kind # "keyword"
      /\ Continue(r, [c EXCEPT !.op = "vector", !.todo = VectorRows(c), !.items = <<>>])
      /\ UNCHANGED <<tables, touches>>

ReadVectorRowUnfiltered(r) ==
  LET c == call[r]
      i == Head(c.todo)
  IN  /\ c.op = "vector" /\ c.todo # <<>>
      /\ Continue(r, [c EXCEPT !.todo = Tail(@),
                               !.items = IF stored[i] # None THEN Append(@, Match(i)) ELSE @])
      /\ UNCHANGED <<tables, touches>>

ReadVectorRow(r) ==
  LET c == call[r]
      i == Head(c.todo)
  IN  /\ c.op = "vector" /\ c.todo # <<>>
      /\ Continue(r, [c EXCEPT !.todo = Tail(@),
                               !.items = IF Visible(stored[i], c.public)
                                         THEN Append(@, Match(i)) ELSE @])
      /\ UNCHANGED <<tables, touches>>

(* Reciprocal rank fusion, in units of 1 / (10 * Unit): a score is exact up  *)
(* to rank 3.                                                                *)
Unit == 61 * 62 * 63

Contribution(list, i) ==
  IF i \in ToSet(list) THEN Unit \div (60 + Position(list, i)) ELSE 0

(* The vector list's entry replaces the one of the keyword list.             *)
FusedReplacing(alpha, fts, vector, i) ==
  IF i \in ToSet(vector) THEN (10 - alpha) * Contribution(vector, i)
  ELSE alpha * Contribution(fts, i)

Fused(alpha, fts, vector, i) ==
  alpha * Contribution(fts, i) + (10 - alpha) * Contribution(vector, i)

(* One list behind the other.                                                *)
ScoreMapKeysTwice(fts, vector) == fts \o vector

(* scoreMap keeps insertion order: keyword matches, then what only the       *)
(* vectors found.                                                            *)
ScoreMapKeys(fts, vector) == fts \o Only(vector, Ids \ ToSet(fts))

(* searchHybrid, its fusion.  Keyword matches have no primitive yet.         *)
Fuse(r) ==
  LET c == call[r]
      matches == UpTo(SearchLimit(c), c.items)
      vector == [k \in DOMAIN matches |-> matches[k].id]
      ids == ScoreMapKeys(c.fts, vector)
      Entry(i) ==
        [ id |-> i, score |-> Fused(c.alpha, c.fts, vector, i), weight |-> 2, seen |-> 0,
          primitive |-> IF i \in ToSet(vector)
                        THEN matches[Position(vector, i)].primitive ELSE None ]
  IN  /\ c.op = "vector" /\ c.todo = <<>>
      /\ Continue(r, [c EXCEPT !.op = "hydrate",
                               !.vector = vector,
                               !.items = [k \in DOMAIN ids |-> Entry(ids[k])],
                               !.todo = Only(c.fts, Ids \ ToSet(vector))])
      /\ UNCHANGED <<tables, touches>>

InItems(items, i, Edited(_)) ==
  [k \in DOMAIN items |-> IF items[k].id = i THEN Edited(items[k]) ELSE items[k]]

(* getPrimitive for what only the keywords found, filtered by nothing.       *)
Hydrate(r) ==
  LET c == call[r]
      i == Head(c.todo)
  IN  /\ c.op = "hydrate" /\ c.todo # <<>>
      /\ Continue(r, [c EXCEPT !.todo = Tail(@),
                               !.items = InItems(@, i, LAMBDA item :
                                           [item EXCEPT !.primitive = stored[i]])])
      /\ UNCHANGED <<tables, touches>>

(* Array.prototype.sort is stable.                                           *)
Descending(items, key) ==
  LET order == InOrder(DOMAIN items, LAMBDA a, b :
                 key[a] > key[b] \/ (key[a] = key[b] /\ a < b))
  IN  [k \in DOMAIN items |-> items[order[k]]]

Scores(items) == [k \in DOMAIN items |-> items[k].score]

(* The end of searchHybrid; a ranked recall goes through its results.        *)
ReturnHybrid(r) ==
  LET c == call[r]
      results == UpTo(HybridLimit(c), Descending(c.items, Scores(c.items)))
  IN  /\ c.op = "hydrate" /\ c.todo = <<>>
      /\ Continue(r, [c EXCEPT !.op = IF c.kind = "hybrid" THEN "recalled" ELSE "lifecycle",
                               !.items = results,
                               !.todo = IF c.kind = "hybrid" THEN <<>>
                                        ELSE [k \in DOMAIN results |-> results[k].id]])
      /\ UNCHANGED <<tables, touches>>

(* getMemoryLifecycle; an id without a row counts as never accessed, now.    *)
ReadLifecycle(r) ==
  LET c == call[r]
      i == Head(c.todo)
      row == lifecycle[i]
  IN  /\ c.op = "lifecycle" /\ c.todo # <<>>
      /\ Continue(r, [c EXCEPT !.op = "touch",
                               !.items = InItems(@, i, LAMBDA item :
                                 [item EXCEPT !.weight = IF row # None /\ row.aged THEN 1 ELSE 2,
                                              !.seen = IF row = None THEN 0
                                                       ELSE row.access_count])])
      /\ UNCHANGED <<tables, touches>>

(* access_count = the count this recall read, plus one.                      *)
CountedFrom(row, seen) == seen + 1

(* access_count = access_count + 1, in the statement.                        *)
Counted(row, seen) == row.access_count + 1

(* touchMemoryAccess: the INSERT of a row for an id that is gone breaks the  *)
(* foreign key, and the whole recall throws.                                 *)
Touch(r) ==
  LET c == call[r]
      i == Head(c.todo)
      row == lifecycle[i]
      seen == c.items[CHOOSE k \in DOMAIN c.items : c.items[k].id = i].seen
  IN  /\ c.op = "touch"
      /\ IF stored[i] = None
         THEN /\ Continue(r, [c EXCEPT !.op = "failed", !.todo = <<>>])
              /\ UNCHANGED <<tables, touches>>
         ELSE /\ Continue(r, [c EXCEPT !.op = "lifecycle", !.todo = Tail(@)])
              /\ lifecycle' = [lifecycle EXCEPT ![i] =
                    [aged |-> FALSE,
                     access_count |-> IF row = None THEN 1 ELSE Counted(row, seen)]]
              /\ touches' = [touches EXCEPT ![i] = @ + 1]
              /\ UNCHANGED <<stored, content, relations, embeddings>>

WeightedScores(items) == [k \in DOMAIN items |-> items[k].score * items[k].weight]

ReturnRanked(r) ==
  LET c == call[r]
  IN  /\ c.op = "lifecycle" /\ c.todo = <<>>
      /\ Continue(r, [c EXCEPT !.op = "recalled",
                               !.items = UpTo(c.limit, Descending(@, WeightedScores(@)))])
      /\ UNCHANGED <<tables, touches>>

-----------------------------------------------------------------------------
(* traverseGraph.                                                          *)

Joins(e, i, j) == {e.source, e.target} = {i, j}

(* The recursive query: paths of unrestricted relations, either way, that    *)
(* visit no node twice.                                                      *)
PathsFrom(seed, n) ==
  { p \in [0 .. n -> Ids] :
      /\ p[0] = seed
      /\ IsInjective(p)
      /\ \A k \in 1 .. n : \E e \in relations :
           e.sensitivity # "restricted" /\ Joins(e, p[k - 1], p[k]) }

(* depth <= the limit where a path is extended.                              *)
PathRowsBeyond(seed, depth) ==
  UNION { { <<p[n], n>> : p \in PathsFrom(seed, n) } : n \in 0 .. depth + 1 }

(* A row for every depth at which some path ends in the node.                *)
PathRows(seed, depth) == UNION { { <<p[n], n>> : p \in PathsFrom(seed, n) } : n \in 0 .. depth }

BeginTraverse(r) ==
  \E seed \in Ids, maxDepth \in Depths :
    LET depth == IF maxDepth < 3 THEN maxDepth ELSE 3
    IN  Start(r, "walk", [ op |-> "walk", seed |-> seed, depth |-> depth,
                           todo |-> PathRows(seed, depth), nodes |-> {}, edges |-> {} ])

ReadNode(r) ==
  LET c == call[r]
  IN  /\ c.op = "walk"
      /\ \E row \in c.todo :
           Continue(r, [c EXCEPT !.todo = @ \ {row},
                                 !.nodes = IF Visible(stored[row[1]], FALSE)
                                           THEN @ \cup {row} ELSE @])
      /\ UNCHANGED <<tables, touches>>

(* A last SELECT over the relations; predicates filter its rows.             *)
SelectEdges(r) ==
  LET c == call[r]
      ids == { row[1] : row \in c.nodes }
  IN  /\ c.op = "walk" /\ c.todo = {}
      /\ Continue(r, [c EXCEPT !.op = "walked",
                               !.edges = { e \in relations : /\ e.sensitivity # "restricted"
                                                             /\ {e.source, e.target} \subseteq ids }])
      /\ UNCHANGED <<tables, touches>>

-----------------------------------------------------------------------------
(* consolidate: getPrimitives selects ids, in no order, and reads each row.  *)

Comparing(ids) ==
  [op |-> "compare", todo |-> ids, list |-> <<>>, duplicates |-> {}, contradictions |-> {}]

(* The SELECT has no ORDER BY: any page may come.                            *)
BeginCompare(r) ==
  \E ids \in SUBSET {i \in Ids : stored[i] # None} :
    /\ Cardinality(ids) <= PageSize
    /\ Cardinality(ids) < PageSize => ids = {i \in Ids : stored[i] # None}
    /\ Start(r, "compare", Comparing(ids))

(* pakb_find_duplicates compares what searchFTS5 finds for the empty query,  *)
(* for which it returns at once, with nothing.                               *)
BeginScan(r) == Start(r, "scan", Comparing({}))

ReadMemory(r) ==
  LET c == call[r]
  IN  /\ c.op = "compare"
      /\ \E i \in c.todo :
           Continue(r, [c EXCEPT !.todo = @ \ {i},
                                 !.list = IF Visible(stored[i], FALSE)
                                          THEN Append(@, content[i]) ELSE @])
      /\ UNCHANGED <<tables, touches>>

(* Both detectors, without embeddings.                                       *)
Compare(r) ==
  LET c == call[r]
  IN  /\ c.op = "compare" /\ c.todo = {}
      /\ Continue(r, [c EXCEPT !.op = "compared",
                               !.duplicates = FindDuplicates(c.list, {}),
                               !.contradictions = FindContradictions(c.list)])
      /\ UNCHANGED <<tables, touches>>

-----------------------------------------------------------------------------
RecallStep(r) ==
  \/ BeginRecall(r)
  \/ ReadFtsRow(r)
  \/ CatchFtsError(r)
  \/ ReturnKeyword(r)
  \/ SelectVectors(r)
  \/ ReadVectorRow(r)
  \/ Fuse(r)
  \/ Hydrate(r)
  \/ ReturnHybrid(r)
  \/ ReadLifecycle(r)
  \/ Touch(r)
  \/ ReturnRanked(r)

WalkStep(r) == BeginTraverse(r) \/ ReadNode(r) \/ SelectEdges(r)

CompareStep(r) == BeginCompare(r) \/ BeginScan(r) \/ ReadMemory(r) \/ Compare(r)

Write ==
  \E i \in Ids :
    \/ \E sensitivity \in Tiers : Insert(i, sensitivity)
    \/ Delete(i)
    \/ Embed(i)

Next ==
  \/ Write
  \/ \E r \in Readers : RecallStep(r) \/ WalkStep(r) \/ CompareStep(r)

Spec == Init /\ [][Next]_vars

-----------------------------------------------------------------------------
(* Safety.                                                                 *)

Returned(r) == { call[r].items[k].id : k \in DOMAIN call[r].items }

(* A hit nobody touched since the call began is one the caller may see, and  *)
(* carries its primitive: the primitives behind the hits are read by three   *)
(* different statements, and the last of them filters nothing.               *)
HitsAreVisible ==
  \A r \in Readers : call[r].op = "recalled" =>
    \A k \in DOMAIN call[r].items :
      LET hit == call[r].items[k]
      IN  hit.id \notin changed[r] => Visible(hit.primitive, call[r].public)

Ahead(list, i, j) ==
  /\ i \in ToSet(list)
  /\ j \in ToSet(list) => Position(list, i) < Position(list, j)

(* The weights are even enough for lists so long that the two last places    *)
(* together outweigh one first place: for equal weights, up to rank 61.      *)
Balanced(c) ==
  \A list \in {c.fts, c.vector} :
    /\ c.alpha * (60 + Len(list)) < 610
    /\ (10 - c.alpha) * (60 + Len(list)) < 610

Beats(c, i, j) ==
  \/ Ahead(c.fts, i, j) /\ Ahead(c.vector, i, j)
  \/ /\ Balanced(c)
     /\ i \in ToSet(c.fts) \cap ToSet(c.vector)
     /\ j \notin ToSet(c.fts) \cap ToSet(c.vector)

(* Fusion of the two rankings: a primitive that is ahead of another in both  *)
(* lists, whatever alpha weighs them with, is returned ahead of it, and      *)
(* never cut off while the other stays; so is one that both searches found   *)
(* when the other was found by one, as long as the weights are balanced.     *)
FusionRewardsAgreement ==
  \A r \in Readers :
    LET c == call[r]
        order == [k \in DOMAIN c.items |-> c.items[k].id]
    IN  c.op = "recalled" /\ c.kind = "hybrid" =>
          \A i \in ToSet(c.fts) \cup ToSet(c.vector), j \in ToSet(order) :
            Beats(c, i, j) => Ahead(order, i, j)

(* A recall that comes back short found everything there is behind its       *)
(* offset, unless rows the caller may not see filled the page of the keyword *)
(* search, whose LIMIT comes before the filter, or that search swallowed an  *)
(* error.                                                                    *)
Hidden(c) == { i \in ToSet(Rest(c)) : ~ Visible(stored[i], c.public) }

Findable(c) == ToSet(Rest(c)) \cup (IF c.kind = "keyword" THEN {} ELSE embeddings)

RecallIsComplete ==
  \A r \in Readers :
    LET c == call[r]
        found == Len(c.items)
    IN  /\ c.op = "recalled" /\ changed[r] = {} /\ ~ c.caught
        /\ found < c.limit /\ found + Cardinality(Hidden(c)) < SearchLimit(c)
        => Returned(r) = { i \in Findable(c) : Visible(stored[i], c.public) }

(* Concurrent recalls lose no access: the count of a stored primitive is the *)
(* number of recalls that returned from touching it, and goes with it.       *)
AccessesCounted ==
  \A i \in Ids : IF stored[i] = None THEN lifecycle[i] = None
                 ELSE lifecycle[i] # None /\ lifecycle[i].access_count = touches[i]

(* A traversal nobody disturbed returns what is reachable: every visible     *)
(* node within the depth, at its distance first, and the relations between.  *)
(* Archived entities and their relations are among them: no statement looks  *)
(* at a status, although docs/architecture/pakb-storage-semantics.md:169     *)
(* wants such relations filtered out.                                        *)
Reach(seed, depth) ==
  LET reach[n \in Nat] ==
        IF n = 0 THEN {seed}
        ELSE reach[n - 1] \cup
               { i \in Ids : \E e \in relations, j \in reach[n - 1] :
                   e.sensitivity # "restricted" /\ Joins(e, i, j) }
  IN  reach[depth]

TraversalIsReach ==
  \A r \in Readers :
    LET c == call[r]
    IN  c.op = "walked" /\ changed[r] = {} =>
          /\ \A n \in 0 .. c.depth :
               { row[1] : row \in { m \in c.nodes : m[2] <= n } }
                 = { i \in Reach(c.seed, n) : Visible(stored[i], FALSE) }
          /\ \A row \in c.nodes : row[2] <= c.depth
          /\ c.edges = { e \in relations :
                 /\ e.sensitivity # "restricted"
                 /\ \A i \in {e.source, e.target} :
                      i \in Reach(c.seed, c.depth) /\ Visible(stored[i], FALSE) }

(* The verdicts are about the memories, not about the order the table gave   *)
(* them in, although the rules are asymmetric in the two they compare: the   *)
(* same pairs conflict, for the same reason, whichever comes first, and an   *)
(* outdated fact is always the older of the two.                             *)
Unordered(contradictions) == { [conflict |-> x.conflict, pair |-> {x.a, x.b}] : x \in contradictions }

VerdictsIgnoreOrder ==
  \A r \in Readers : call[r].op = "compared" =>
    LET c == call[r]
    IN  /\ \A order \in SetToSeqs(ToSet(c.list)) :
             Unordered(FindContradictions(order)) = Unordered(c.contradictions)
        /\ \A x \in c.contradictions :
             x.conflict = "OUTDATED_FACT" => x.a.created < x.b.created
=============================================================================
