-------------------------- MODULE MCConsolidation --------------------------
(***************************************************************************)
(* Consolidation for TLC: two entities, one process that consolidates and  *)
(* rolls back, one that serves users.                                      *)
(***************************************************************************)
EXTENDS Consolidation, TLC

CONSTANTS e1, e2, f1, f2, public, restricted, c1, c2, p1, l1, k1

MCIds == {e1, e2}
MCTypeOf == [i \in MCIds |-> "entity"]
MCFacts == {f1, f2}
MCTiers == {public, restricted}
MCClients == {c1, c2}

Draft(i, claim, tier) ==
  [ id |-> i, claim |-> claim, detail |-> None, sensitivity |-> tier, status |-> "active",
    created_at |-> 0, updated_at |-> 0, source |-> None, target |-> None ]

MCDrafts == { Draft(e1, f1, public), Draft(e2, f2, public) }

MCOperations ==
  (c1 :> {"consolidate", "rollback", "contradict", "resolve"}) @@ (c2 :> {"insert", "approve", "delete"})
=============================================================================
