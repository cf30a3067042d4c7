------------------------- MODULE MCContextCompiler -------------------------
(***************************************************************************)
(* ContextCompiler for TLC: every memory of at most MaxMemory primitives   *)
(* of a catalog that has one or two for each rule of the ranking.          *)
(***************************************************************************)
EXTENDS ContextCompiler

CONSTANT MaxMemory

P(id, type, activation, hard, topic, verified, cost) ==
  [ id |-> id, type |-> type, restricted |-> FALSE, activation |-> activation,
    status |-> "active", hard |-> hard, topic |-> topic, verified |-> verified,
    expires |-> 0, cost |-> cost ]

MCCatalog ==
  { P(1, "directive", "always_on", TRUE, "security", 1, 2),
    P(2, "entity", "always_on", FALSE, "owner", 1, 1),
    P(3, "directive", "always_on", TRUE, "safety", 1, 3),
    P(4, "directive", "always_on", FALSE, "global_style", 1, 2),
    P(5, "assertion", "always_on", FALSE, "other", 1, 3),
    P(6, "entity", "always_on", FALSE, "other", 2, 1),
    P(7, "directive", "always_on", TRUE, "other", 1, 2),
    P(8, "directive", "on_demand", TRUE, "other", 1, 1),
    P(9, "event", "always_on", FALSE, "other", 1, 1),
    [P(10, "entity", "always_on", FALSE, "other", 3, 1) EXCEPT !.restricted = TRUE],
    [P(11, "assertion", "always_on", FALSE, "other", 2, 2) EXCEPT !.status = "superseded"] }

MCMemories == {m \in SUBSET MCCatalog : Cardinality(m) <= MaxMemory}

(* A header of three tokens; a rendered line is one token longer than its    *)
(* estimate, that of an entity with a description four.                      *)
LineTokens(p) == p.cost + (IF p.type = "entity" THEN 4 ELSE 1)

MCTokensOf(selection) ==
  3 + MapThenFoldSet(+, 0, LineTokens, LAMBDA s : CHOOSE p \in s : TRUE, selection)
=============================================================================
