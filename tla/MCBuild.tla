------------------------------ MODULE MCBuild ------------------------------
(***************************************************************************)
(* Build for TLC: two files, contents that make every stage decide.        *)
(***************************************************************************)
EXTENDS Build

P(id, type, hard, status, cost) ==
  [ id |-> id, type |-> type, restricted |-> FALSE, activation |-> "always_on",
    status |-> status, hard |-> hard, topic |-> "other", verified |-> 1,
    expires |-> 1, cost |-> cost ]

Plain(p) == [primitive |-> p, keys |-> "sorted", described |-> TRUE, format |-> {}]

Hard == Plain(P(2, "directive", TRUE, "active", 2))
Old == Plain(P(3, "assertion", FALSE, "archived", 1))
Bad == Plain(P(4, "event", FALSE, "active", 1))

(* An entity without a description, with its keys in either order.           *)
Bare == [Plain(P(1, "entity", FALSE, "active", 2)) EXCEPT !.described = FALSE]
BareTurned == [Bare EXCEPT !.keys = "other"]

(* Alone each fits either budget; the entity and the directive together only *)
(* the larger.  Two contents differ in what the fingerprint drops, one is    *)
(* stripped of half its format characters, one holds a primitive twice.      *)
MCContents ==
  { <<Bare>>, <<BareTurned>>, <<[Hard EXCEPT !.format = {"own", "nested"}], Old>>,
    <<Hard, Hard>>, <<Bad>> }
MCInvalid == {Bad.primitive}

MCConfigs == {[budget |-> 2, dryRun |-> FALSE], [budget |-> 4, dryRun |-> TRUE]}

(* One file, another still to be written.                                    *)
MCDirectories == { <<<<Bare>>, Missing>> }
=============================================================================
