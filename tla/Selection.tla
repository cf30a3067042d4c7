----------------------------- MODULE Selection -----------------------------
(***************************************************************************)
(* The stages of CompilerPipeline (packages/compiler) that select: FILTER  *)
(* drops, RANK orders, FIT assigns tiers; and calculateBudget of the token *)
(* profiler, which assigns them a second time by its own rules.            *)
(*                                                                         *)
(* A primitive is what the stages before them leave of it.  A rank is a    *)
(* total order, so a ranked list is the set of its members.                *)
(***************************************************************************)
EXTENDS Integers, FiniteSets, Folds

Type == {"entity", "directive", "assertion", "event", "relation"}

(* topic is a directive's domain or an entity's type; verified is            *)
(* last_verified; expires is valid_to; cost is what estimatePrimitiveCost    *)
(* says.                                                                     *)
CatalogPrimitive ==
  [ id         : Nat,
    type       : Type,
    restricted : BOOLEAN,
    activation : {"always_on", "on_demand", "restricted"},
    status     : {"active", "archived", "superseded"},
    hard       : BOOLEAN,
    topic      : {"security", "owner", "safety", "global_style", "other"},
    verified   : Nat,
    expires    : Nat,
    cost       : Nat \ {0} ]

(* PipelineOptions but for the budget and the version; cutoff 0 is no cutoff.*)
FilterOptions ==
  [ include_archived : BOOLEAN, include_superseded : BOOLEAN, cutoff_timestamp : Nat ]

(* createPipelineContext without options.                                    *)
DefaultFilter ==
  [ include_archived |-> FALSE, include_superseded |-> FALSE, cutoff_timestamp |-> 0 ]

-----------------------------------------------------------------------------
(* FILTER.                                                                 *)

(* isPrimitiveEligible.                                                      *)
IsEligible(p, options) ==
  /\ ~ p.restricted
  /\ p.activation # "restricted"
  /\ p.status = "archived" => options.include_archived
  /\ p.status = "superseded" => options.include_superseded
  /\ p.expires >= options.cutoff_timestamp

FilterStage(primitives, options) == {p \in primitives : IsEligible(p, options)}

-----------------------------------------------------------------------------
(* RANK.                                                                   *)

(* scorePrimitive, for what passed the filter.                               *)
Score(p) ==
  IF p.hard /\ p.topic = "security" THEN 1
  ELSE IF p.type = "entity" /\ p.topic = "owner" THEN 2
  ELSE IF p.hard /\ p.topic = "safety" THEN 3
  ELSE IF p.type = "directive" /\ ~ p.hard /\ p.topic = "global_style" THEN 4
  ELSE IF p.activation = "always_on" THEN 5
  ELSE CASE p.type \in {"entity", "directive"} -> 6
         [] p.type = "event" -> 7
         [] p.type = "assertion" -> 8
         [] p.type = "relation" -> 9

(* RankingEngine.compare and sortByPriority: rank, then newest, then id.     *)
OrderedBy(Rank(_), p, q) ==
  \/ Rank(p) < Rank(q)
  \/ /\ Rank(p) = Rank(q)
     /\ \/ p.verified > q.verified
        \/ p.verified = q.verified /\ p.id < q.id

Precedes(p, q) == OrderedBy(Score, p, q)

(* A loop over a sorted list: Step(p, result so far) for one p after another.*)
ForEachInOrder(Step(_, _), start, Before(_, _), primitives) ==
  LET Last(s) == CHOOSE p \in s : \A q \in s \ {p} : Before(q, p)
  IN  MapThenFoldSet(Step, start, LAMBDA p : p, Last, primitives)

-----------------------------------------------------------------------------
(* FIT: BudgetFitter.fit with assignTier and determineOverflowTier.  An      *)
(* exception ends the loop: refused.                                         *)
NothingFitted == [tier0 |-> {}, tier1 |-> {}, overflow |-> {}, tokens |-> 0, refused |-> FALSE]

NeverInTier0(p) == p.type \in {"event", "relation"}

FitStep(p, fit, budget) ==
  IF fit.refused THEN fit
  ELSE IF NeverInTier0(p) THEN [fit EXCEPT !.overflow = @ \cup {p}]
  ELSE IF p.activation = "always_on" /\ fit.tokens + p.cost <= budget
       THEN [fit EXCEPT !.tier0 = @ \cup {p}, !.tokens = @ + p.cost]
  ELSE IF p.hard THEN [fit EXCEPT !.refused = TRUE]
  ELSE [fit EXCEPT !.tier1 = @ \cup {p}]

FitStage(primitives, budget) ==
  ForEachInOrder(LAMBDA p, fit : FitStep(p, fit, budget), NothingFitted, Precedes, primitives)

-----------------------------------------------------------------------------
(* calculateBudget of the token profiler.                                  *)

(* getPriorityRank: an owner counts only when it is always on.               *)
PriorityRank(p) ==
  IF p.restricted \/ p.activation = "restricted" THEN 99
  ELSE IF p.activation # "always_on" THEN 6
  ELSE IF p.hard /\ p.topic = "security" THEN 1
  ELSE IF p.hard /\ p.topic = "safety" THEN 3
  ELSE IF p.type = "directive" /\ ~ p.hard /\ p.topic = "global_style" THEN 4
  ELSE IF p.type = "entity" /\ p.topic = "owner" THEN 2
  ELSE 5

(* The hard constraints fit by their own sum, whatever precedes them.        *)
BudgetStepByHardSum(p, result, budget) ==
  LET hardUsage == result.hard + (IF p.hard THEN p.cost ELSE 0)
      fits == result.tokens + p.cost <= budget
  IN  IF result.refused \/ p.restricted \/ p.activation = "restricted" THEN result
      ELSE IF p.activation # "always_on" THEN [result EXCEPT !.demoted = @ \cup {p}]
      ELSE IF p.hard /\ hardUsage > budget THEN [result EXCEPT !.refused = TRUE]
      ELSE IF p.hard \/ fits THEN [result EXCEPT !.tier0 = @ \cup {p}, !.tokens = @ + p.cost,
                                                !.hard = hardUsage]
      ELSE [result EXCEPT !.demoted = @ \cup {p}]

(* sortByPriority.                                                           *)
PrecedesByPriority(p, q) == OrderedBy(PriorityRank, p, q)

(* The hard constraints get a sum of their own, tested before the usage.     *)
BudgetStep(p, result, budget) ==
  LET hardUsage == result.hard + (IF p.hard THEN p.cost ELSE 0)
      fits == result.tokens + p.cost <= budget
  IN  IF result.refused \/ p.restricted \/ p.activation = "restricted" THEN result
      ELSE IF p.activation # "always_on" THEN [result EXCEPT !.demoted = @ \cup {p}]
      ELSE IF p.hard /\ (hardUsage > budget \/ ~ fits) THEN [result EXCEPT !.refused = TRUE]
      ELSE IF fits THEN [result EXCEPT !.tier0 = @ \cup {p}, !.tokens = @ + p.cost,
                                       !.hard = hardUsage]
      ELSE [result EXCEPT !.demoted = @ \cup {p}]

CalculateBudget(primitives, budget) ==
  ForEachInOrder(LAMBDA p, result : BudgetStep(p, result, budget),
                 [tier0 |-> {}, demoted |-> {}, tokens |-> 0, hard |-> 0, refused |-> FALSE],
                 PrecedesByPriority, primitives)

-----------------------------------------------------------------------------
(* What both promise: for primitives both of them place (no event or         *)
(* relation, nothing the filter drops, no hard directive on demand), they    *)
(* refuse together and select the same preamble.                             *)
PlacedByBoth(p) ==
  /\ IsEligible(p, DefaultFilter)
  /\ ~ NeverInTier0(p)
  /\ p.hard => p.activation = "always_on"

SelectionsAgree(primitives, budget) ==
  LET fit == FitStage(primitives, budget)
      profile == CalculateBudget(primitives, budget)
  IN  /\ profile.refused <=> fit.refused
      /\ ~ fit.refused => /\ profile.tier0 = fit.tier0
                          /\ profile.tokens = fit.tokens
                          /\ profile.demoted = fit.tier1
=============================================================================
