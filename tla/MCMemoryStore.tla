--------------------------- MODULE MCMemoryStore ---------------------------
(***************************************************************************)
(* Instances of MemoryStore for TLC.                                       *)
(***************************************************************************)
EXTENDS MemoryStore, TLC

CONSTANTS e1, v1, r1, f1, f2, public, restricted, c1, c2

MCIds == {e1, v1, r1}
MCTypeOf == (e1 :> "entity") @@ (v1 :> "event") @@ (r1 :> "relation")
MCFacts == {f1, f2}
MCTiers == {public, restricted}
MCClients == {c1, c2}
NoProposals == {}

(* Of the second before, or of now.                                          *)
MCSkews == {-1, 0}

Draft(i, claim, tier, source, target) ==
  [ id |-> i, claim |-> claim, detail |-> None, sensitivity |-> tier, status |-> "active",
    created_at |-> 0, updated_at |-> 0, source |-> source, target |-> target ]

Node(i, claim, tier) == Draft(i, claim, tier, None, None)

(* An entity in two versions and two tiers, an event, a relation.            *)
MCDrafts ==
  { Node(e1, f1, public), Node(e1, f2, public), Node(e1, f1, restricted),
    Node(v1, f1, public), Draft(r1, f1, public, e1, v1) }

(* What the clients of a run call; all of them call the same.               *)
Everybody(operations) == [c \in MCClients |-> operations]

AllOperations == Everybody({"insert", "update", "archive", "delete", "embed", "merge"})
UpdateOperations == Everybody({"insert", "update"})
MergeOperations == Everybody({"insert", "merge"})

(* Time passes where there is one node only and up to two audited writes;    *)
(* everything else happens within a second.  Whoever submits it has made a   *)
(* primitive before changing it.                                             *)
AboutOtherMemories(request) ==
  \/ request.op \in {"embed", "merge"}
  \/ request.op = "insert" /\ request.primitive.id # e1

ChangedBeforeMade(request) ==
  request.op = "insert" /\ request.primitive.updated_at < request.primitive.created_at

TimePassesForNodes ==
  clock > 0 => /\ Len(audit_log) <= 2
               /\ registry \subseteq {e1} /\ embeddings = {}
               /\ ~ \E c \in Clients : AboutOtherMemories(call[c]) \/ ChangedBeforeMade(call[c])

Symmetry == Permutations(MCClients)
=============================================================================
