---------------------------- MODULE MCGovernance ----------------------------
(***************************************************************************)
(* Instances of Governance for TLC: two entities that updates and merges   *)
(* can move content between, two concurrent callers.                       *)
(***************************************************************************)
EXTENDS Governance, TLC

CONSTANTS e1, e2, f1, f2, public, restricted, c1, c2, p1, p2

MCIds == {e1, e2}
MCTypeOf == [i \in MCIds |-> "entity"]
MCFacts == {f1, f2}
MCTiers == {public, restricted}
MCClients == {c1, c2}
MCProposalIds == {p1, p2}
OneProposalId == {p1}

Draft(i, claim, detail, tier) ==
  [ id |-> i, claim |-> claim, detail |-> detail, sensitivity |-> tier, status |-> "active",
    created_at |-> 0, updated_at |-> 0, source |-> None, target |-> None ]

(* A memory that exists in either tier and a candidate that would change it. *)
MCDrafts == { Draft(e1, f1, f1, public), Draft(e1, f1, None, restricted), Draft(e2, f2, None, public) }

(* Two processes: both take the user's decisions, one of them acts for the   *)
(* agents, the other one deletes.                                            *)
MCOperations ==
  (c1 :> {"propose", "approve", "reject"}) @@ (c2 :> {"approve", "reject", "delete"})

DecideOperations == [c \in MCClients |-> {"propose", "approve", "reject"}]

(* Proposal ids are fresh ULIDs: nothing tells one from another.             *)
Symmetry == Permutations(MCProposalIds)
=============================================================================
