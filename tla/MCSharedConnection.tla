------------------------- MODULE MCSharedConnection -------------------------
(***************************************************************************)
(* Instances of SharedConnection for TLC: processes of two callers.        *)
(***************************************************************************)
EXTENDS SharedConnection, TLC

CONSTANTS e1, e2, r1, f1, f2, public, restricted, t1, t2, m1, m2, x1, x2

MCIds == {e1, e2, r1}
MCTypeOf == (e1 :> "entity") @@ (e2 :> "entity") @@ (r1 :> "relation")
MCFacts == {f1, f2}
MCTiers == {public, restricted}
NoProposals == {}

Draft(i, claim, source, target) ==
  [ id |-> i, claim |-> claim, detail |-> None, sensitivity |-> public, status |-> "active",
    created_at |-> 0, updated_at |-> 0, source |-> source, target |-> target ]

(* Two entities that can be merged and a relation from one to the other.     *)
MCDrafts == { Draft(e1, f1, None, None), Draft(e2, f1, None, None), Draft(r1, f1, e1, e2) }

Transactors == {t1, t2}
Mergers == {m1, m2}
Mixed == {x1, x2}

MCClients == Transactors \cup Mergers \cup Mixed

(* A transaction and what joins it; two merges; merges and transactions that *)
(* get in each other's way.                                                  *)
MCOperations ==
  (t1 :> {"insert", "update", "archive", "delete", "transact"})
    @@ (t2 :> {"insert", "update", "archive", "delete"})
    @@ [c \in Mergers |-> {"insert", "delete", "embed", "merge"}]
    @@ [c \in Mixed |-> {"insert", "merge", "transact"}]

MCInit == ConnectionInit /\ callers \in {Transactors, Mergers, Mixed}

MCSpec == MCInit /\ [][ConnectionNext]_connectionVars

(* A second passes for merges.  Then, and where merges and transactions meet, *)
(* there are two audited writes at most.                                     *)
WithinBounds ==
  /\ clock > 0 => callers = Mergers
  /\ clock > 0 \/ callers = Mixed => Len(audit_log) <= 2

TransactOperations == [c \in MCClients |-> {"insert", "transact"}]

Symmetry == Permutations(Mergers) \cup Permutations(Mixed)
=============================================================================
