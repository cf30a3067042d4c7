--------------------------- MODULE Consolidation ---------------------------
(***************************************************************************)
(* ConsolidationEngine (packages/consolidation) and the tables it adds to  *)
(* the store: lineage snapshots and recorded contradictions.  A proposal   *)
(* to consolidate goes through governance like any other; a rollback does  *)
(* not: it deletes, re-inserts and forgets in three transactions.          *)
(***************************************************************************)
EXTENDS Governance

CONSTANTS
  LineageIds,        \* primary keys of memory_lineage
  ContradictionIds   \* primary keys of memory_contradictions

VARIABLES
  lineage,           \* memory_lineage
  contradictions     \* memory_contradictions

consolidationVars == <<vars, lineage, contradictions>>

-----------------------------------------------------------------------------
ConsolidationAction == {"MERGE", "SUPERSEDE", "ARCHIVE", "COEXIST"}

Snapshot == [source : Primitive, target : Ids \cup {None}]

Contradiction == [a : Ids, b : Ids, status : {"detected", "resolved"}]

ConsolidationCall ==
  GovernanceCall
    \cup [op : {"consolidate"}, source : Primitive, action : ConsolidationAction,
          target : Ids \cup {None}, confident : BOOLEAN]
    \cup [op : {"submit"}, source : Primitive, action : ConsolidationAction,
          target : Ids \cup {None}, confident : BOOLEAN, lineage : LineageIds]
    \cup [op : {"propose"}, record : Proposal, mode : Mode, lineage : LineageIds]
    \cup [op : {"rollback", "restore", "forget"}, lineage : LineageIds, source : Primitive]
    \cup [op : {"contradict"}, a : Ids, b : Ids]

ConsolidationTypeOK ==
  /\ TablesTypeOK
  /\ call \in [Clients -> ConsolidationCall]
  /\ lineage \in [LineageIds -> Snapshot \cup {None}]
  /\ contradictions \in [ContradictionIds -> Contradiction \cup {None}]

ConsolidationInit ==
  /\ Init
  /\ lineage = [l \in LineageIds |-> None]
  /\ contradictions = [k \in ContradictionIds |-> None]

-----------------------------------------------------------------------------
(* Contradictions reference the registry: ON DELETE CASCADE.                *)
ContradictionsKept == UNCHANGED contradictions

ContradictionsCascade ==
  contradictions' =
    [k \in ContradictionIds |->
       IF contradictions[k] # None /\ ~ {contradictions[k].a, contradictions[k].b} \subseteq registry'
       THEN None ELSE contradictions[k]]

(* What a detector found in primitives the caller read: any two of them.     *)
BeginContradict(c) ==
  /\ \E i, j \in Ids :
       /\ i # j
       /\ rows[i] # None /\ rows[j] # None
       /\ Start(c, "contradict", [op |-> "contradict", a |-> i, b |-> j])
  /\ UNCHANGED <<clock, tables, lineage, contradictions>>

(* recordContradiction, under a fresh id.                                    *)
RecordContradiction(c) ==
  /\ call[c].op = "contradict"
  /\ Registered(call[c].a) /\ Registered(call[c].b)
  /\ \E k \in ContradictionIds :
       /\ contradictions[k] = None
       /\ contradictions' = [contradictions EXCEPT ![k] =
            [a |-> call[c].a, b |-> call[c].b, status |-> "detected"]]
  /\ Return(c)
  /\ UNCHANGED <<clock, tables, lineage>>

(* resolveContradiction: one UPDATE, whatever the status was; no row is no   *)
(* error.                                                                    *)
ResolveContradiction(c) ==
  /\ call[c] = Idle /\ "resolve" \in Operations[c]
  /\ \E k \in ContradictionIds :
       /\ contradictions[k] # None
       /\ contradictions' = [contradictions EXCEPT ![k].status = "resolved"]
  /\ UNCHANGED <<clock, tables, lineage, call>>

-----------------------------------------------------------------------------
(* proposeConsolidation of a primitive its caller read, into any other one,  *)
(* into none or into itself.                                                 *)
BeginConsolidate(c) ==
  /\ \E i \in Ids, target \in Ids \cup {None}, action \in ConsolidationAction,
        confident \in BOOLEAN :
       /\ rows[i] # None
       /\ Start(c, "consolidate",
            [op |-> "consolidate", source |-> rows[i], action |-> action, target |-> target,
             confident |-> confident])
  /\ UNCHANGED <<clock, tables, lineage, contradictions>>

(* recordLineage, under a fresh id: no key, no foreign key.                  *)
RecordLineage(c) ==
  /\ call[c].op = "consolidate"
  /\ \E l \in LineageIds :
       /\ lineage[l] = None
       /\ \A d \in Clients : "lineage" \in DOMAIN call[d] => call[d].lineage # l
       /\ lineage' = [lineage EXCEPT ![l] = [source |-> call[c].source, target |-> call[c].target]]
       /\ call' = [call EXCEPT ![c] =
            [op |-> "submit", source |-> call[c].source, action |-> call[c].action,
             target |-> call[c].target, confident |-> call[c].confident, lineage |-> l]]
  /\ UNCHANGED <<clock, tables, contradictions>>

ConsolidationDecision(action, target) ==
  IF action = "COEXIST" \/ target = None THEN "CREATE"
  ELSE IF action \in {"SUPERSEDE", "ARCHIVE"} THEN "UPDATE"
  ELSE "MERGE"

(* createMemoryProposal up to its await: the source is the candidate.  When  *)
(* it throws, the lineage row stays.                                         *)
SubmitConsolidation(c) ==
  /\ call[c].op = "submit"
  /\ LET decision == ConsolidationDecision(call[c].action, call[c].target)
         candidate == call[c].source
         mode == Policy(candidate, decision, call[c].confident)
     IN  /\ decision # "CREATE" => Found(call[c].target)
         /\ call' = [call EXCEPT ![c] =
              [op |-> "propose", mode |-> mode, lineage |-> call[c].lineage,
               record |-> ProposalRecord(candidate, decision, call[c].target, mode)]]
  /\ UNCHANGED <<clock, tables, lineage, contradictions>>

-----------------------------------------------------------------------------
(* rollbackLineage.                                                        *)

RollbackCall(operation, l, source) == [op |-> operation, lineage |-> l, source |-> source]

(* SELECT: an unknown id returns false at once.                              *)
BeginRollback(c) ==
  /\ \E l \in LineageIds :
       /\ lineage[l] # None
       /\ Start(c, "rollback", RollbackCall("rollback", l, lineage[l].source))
  /\ UNCHANGED <<clock, tables, lineage, contradictions>>

(* DELETE FROM primitives_registry, with its cascades to the typed row, the  *)
(* relations that touch it and everything else that references it.           *)
RollbackDelete(c) ==
  /\ call[c].op = "rollback"
  /\ LET i == call[c].source.id
     IN  /\ rows' = [j \in Ids |-> IF j = i \/ Touches(j, i) THEN None ELSE rows[j]]
         /\ DeleteFromRegistry(i)
  /\ ContradictionsCascade
  /\ call' = [call EXCEPT ![c].op = "restore"]
  /\ UNCHANGED <<clock, audit_log, lineage>>

(* insertPrimitive: what was stored in the meantime is the same content, or  *)
(* it collides and the rollback ends here.                                   *)
RestoreUnaudited(c) ==
  /\ call[c].op = "restore"
  /\ InsertRows(call[c].source)
  /\ call' = [call EXCEPT ![c].op = "forget"]
  /\ UNCHANGED <<clock, proposals, audit_log, lineage, contradictions>>

RestoreSnapshot(c) ==
  /\ call[c].op = "restore"
  /\ \/ /\ InsertRows(call[c].source)
        /\ Audit("CREATE", "human_user", call[c].source)
     \/ /\ rows[call[c].source.id] = call[c].source
        /\ UNCHANGED <<memoryTables, audit_log>>
  /\ call' = [call EXCEPT ![c].op = "forget"]
  /\ UNCHANGED <<clock, proposals, lineage, contradictions>>

(* DELETE FROM memory_lineage.                                               *)
ForgetLineage(c) ==
  /\ call[c].op = "forget"
  /\ lineage' = [lineage EXCEPT ![call[c].lineage] = None]
  /\ Return(c)
  /\ UNCHANGED <<clock, tables, contradictions>>

-----------------------------------------------------------------------------
ConsolidationStep(c) ==
  \/ BeginContradict(c)
  \/ RecordContradiction(c)
  \/ ResolveContradiction(c)
  \/ BeginConsolidate(c)
  \/ RecordLineage(c)
  \/ SubmitConsolidation(c)
  \/ BeginRollback(c)
  \/ RollbackDelete(c)
  \/ RestoreSnapshot(c)
  \/ ForgetLineage(c)

ConsolidationNext ==
  \/ GovernanceNext /\ ContradictionsCascade /\ UNCHANGED lineage
  \/ \E c \in Clients : ConsolidationStep(c)

ConsolidationSpec == ConsolidationInit /\ [][ConsolidationNext]_consolidationVars
-----------------------------------------------------------------------------
(* Contradictions, too, name registered primitives only: what a rollback, a  *)
(* deletion or a merge takes away takes them along, although a detector saw  *)
(* the primitives long before its finding was recorded.                      *)
ContradictionsClosed ==
  /\ ReferentialClosure
  /\ \A k \in ContradictionIds : contradictions[k] # None =>
       {contradictions[k].a, contradictions[k].b} \subseteq registry
=============================================================================
