-------------------------- MODULE ContextCompiler --------------------------
(***************************************************************************)
(* CompilerClient.compile (packages/core): read the memory, run the        *)
(* pipeline of packages/compiler up to FIT, render tier 0, and lower the   *)
(* selection budget until the rendered text fits the caller's budget.      *)
(*                                                                         *)
(* FIT's loop over the ranked primitives is one step per primitive.        *)
(* Sanitizing, normalizing and validating rewrite text and are left out.   *)
(***************************************************************************)
EXTENDS Selection

CONSTANTS
  Catalog,       \* the primitives a memory may hold
  Memories,      \* the memories compile is called on
  Budgets,       \* tokenBudget, a positive integer
  PageSize,      \* the limit getPrimitives has when none is given
  TokensOf(_)    \* profileTokens of the text rendered from a selection

ASSUME CatalogAssumption ==
  /\ Catalog \subseteq CatalogPrimitive
  /\ \A p, q \in Catalog : p.id = q.id => p = q
  /\ \A p \in Catalog : p.hard => p.type = "directive"
  /\ Memories \subseteq SUBSET Catalog
  /\ \A m \in Memories : IsFiniteSet(m)

ASSUME CallAssumption ==
  /\ Budgets \subseteq Nat \ {0}
  /\ PageSize \in Nat
  /\ \A selection \in SUBSET Catalog : TokensOf(selection) \in Nat

VARIABLES
  memory,          \* what is stored
  loaded,          \* activePrimitives: what was read and is not restricted
  maxBudget,       \* the caller's tokenBudget
  pipelineBudget,  \* what FIT may use in this round
  queue,           \* the ranked primitives FIT has not placed yet
  tier0,           \* the primitives selected in this round ...
  tokens,          \* ... and currentTier0Tokens, their estimated cost
  outcome          \* how far the call is

call == <<memory, loaded, maxBudget>>
fit == <<queue, tier0, tokens>>
vars == <<call, fit, pipelineBudget, outcome>>

Ended == {"compiled", "refused", "too_small"}

TypeOK ==
  /\ memory \in SUBSET Catalog
  /\ loaded \in SUBSET Catalog
  /\ maxBudget \in Nat \ {0}
  /\ pipelineBudget \in Nat
  /\ queue \in SUBSET loaded
  /\ tier0 \in SUBSET loaded
  /\ tokens \in Nat
  /\ outcome \in {"fetching", "fitting"} \cup Ended

-----------------------------------------------------------------------------
(* FILTER and RANK.                                                        *)

(* compile passes no cutoff and no include options.                          *)
Eligible(p) == IsEligible(p, DefaultFilter)

IsNext(p) == p \in queue /\ \A q \in queue \ {p} : Precedes(p, q)

-----------------------------------------------------------------------------
(* The call.                                                               *)

Init ==
  /\ memory \in Memories
  /\ maxBudget \in Budgets
  /\ pipelineBudget = maxBudget
  /\ loaded = {}
  /\ queue = {} /\ tier0 = {} /\ tokens = 0
  /\ outcome = "fetching"

StartRound ==
  /\ queue' = {p \in loaded' : Eligible(p)}
  /\ tier0' = {}
  /\ tokens' = 0

(* getPrimitives() returns the first page of the registry, in no stated      *)
(* order.                                                                    *)
Fetch ==
  /\ outcome = "fetching"
  /\ \E page \in SUBSET memory :
       /\ page = memory \/ Cardinality(page) = PageSize
       /\ Cardinality(page) <= PageSize
       /\ loaded' = {p \in page : ~ p.restricted}
  /\ StartRound
  /\ outcome' = "fitting"
  /\ UNCHANGED <<memory, maxBudget, pipelineBudget>>

(* BudgetFitter.fit places one primitive after the other (assignTier).       *)
FitsStrictly(p) == tokens + p.cost < pipelineBudget

Fits(p) == tokens + p.cost <= pipelineBudget

InTier0(p) ==
  /\ p.type \notin {"event", "relation"}
  /\ p.activation = "always_on"
  /\ Fits(p)

Place(p) ==
  /\ outcome = "fitting"
  /\ IsNext(p)
  /\ queue' = queue \ {p}
  /\ UNCHANGED <<call, pipelineBudget>>

Select(p) ==
  /\ Place(p)
  /\ InTier0(p)
  /\ tier0' = tier0 \cup {p}
  /\ tokens' = tokens + p.cost
  /\ UNCHANGED outcome

(* Tier 1 or overflow, neither of which compile renders.                     *)
SetAsideAny(p) ==
  /\ Place(p)
  /\ ~ InTier0(p)
  /\ UNCHANGED <<tier0, tokens, outcome>>

SetAside(p) ==
  /\ Place(p)
  /\ ~ InTier0(p)
  /\ ~ p.hard
  /\ UNCHANGED <<tier0, tokens, outcome>>

(* PreambleBudgetExceededError, also for a directive that is not always on.  *)
Refuse(p) ==
  /\ Place(p)
  /\ ~ InTier0(p)
  /\ p.hard
  /\ outcome' = "refused"
  /\ UNCHANGED <<tier0, tokens>>

Larger(a, b) == IF a > b THEN a ELSE b

ShrunkBelowZero(tokenCount) == pipelineBudget - Larger(1, tokenCount - maxBudget)

ShrunkFromMax(tokenCount) == Larger(0, maxBudget - Larger(1, tokenCount - maxBudget))

Shrunk(tokenCount) == Larger(0, pipelineBudget - Larger(1, tokenCount - maxBudget))

(* The round is over: the selection is rendered and its tokens counted.      *)
Rendered == outcome = "fitting" /\ queue = {}

Finish ==
  /\ Rendered
  /\ TokensOf(tier0) <= maxBudget
  /\ outcome' = "compiled"
  /\ UNCHANGED <<call, fit, pipelineBudget>>

Retry ==
  /\ Rendered
  /\ TokensOf(tier0) > maxBudget
  /\ pipelineBudget # 0
  /\ pipelineBudget' = Shrunk(TokensOf(tier0))
  /\ UNCHANGED <<call, outcome>>
  /\ StartRound

GiveUpAtOnce ==
  /\ Rendered
  /\ TokensOf(tier0) > maxBudget
  /\ outcome' = "too_small"
  /\ UNCHANGED <<call, fit, pipelineBudget>>

GiveUp ==
  /\ Rendered
  /\ TokensOf(tier0) > maxBudget
  /\ pipelineBudget = 0
  /\ outcome' = "too_small"
  /\ UNCHANGED <<call, fit, pipelineBudget>>

Next ==
  \/ Fetch
  \/ \E p \in queue : Select(p) \/ SetAside(p) \/ Refuse(p)
  \/ Finish
  \/ Retry
  \/ GiveUp

(* while (true) and for, without an await: once begun, the loops run on.     *)
Spec == Init /\ [][Next]_vars /\ WF_vars(Next)

-----------------------------------------------------------------------------
Hard == {p \in loaded : p.hard /\ Eligible(p)}

Cost(primitives) ==
  MapThenFoldSet(+, 0, LAMBDA p : p.cost, LAMBDA s : CHOOSE p \in s : TRUE, primitives)

(* Whatever rounds the loop took, a text that is returned holds every hard   *)
(* directive that was read: none is silently demoted.                        *)
HardDirectivesKept == outcome = "compiled" => Hard \subseteq tier0

(* A candidate for the preamble is left out only when it does not fit behind *)
(* what precedes it: the selection is the greedy one for the last budget,    *)
(* whatever the order the memory was read in.                                *)
Candidates ==
  {p \in loaded : /\ Eligible(p)
                  /\ p.activation = "always_on"
                  /\ p.type \notin {"event", "relation"}}

SelectionIsGreedy ==
  outcome = "compiled" =>
    /\ tier0 \subseteq Candidates
    /\ \A p \in Candidates :
         p \in tier0 <=>
           Cost({q \in tier0 : Precedes(q, p)}) + p.cost <= pipelineBudget

(* "The budget is too small for the compiled output header" is said only     *)
(* when the text without any primitive exceeds the budget.                   *)
HeaderErrorIsHonest == outcome = "too_small" => TokensOf({}) > maxBudget

(* The package decides twice what a preamble holds: BudgetFitter, which       *)
(* compile uses, and calculateBudget of the token profiler, with a ranking   *)
(* and an overflow rule of their own.  For a memory both can place, they     *)
(* select the same and refuse together.                                      *)
ProfilerAgrees ==
  outcome = "fetching" => SelectionsAgree({p \in memory : PlacedByBoth(p)}, maxBudget)

(* Each further round has less to spend: the variant of the loop, which also *)
(* must never hand FIT a negative budget.                                    *)
BudgetShrinks ==
  [][Retry => pipelineBudget' < pipelineBudget /\ pipelineBudget' >= 0]_vars

(* The loop ends, also when descriptions outgrow their estimate.             *)
CompileEnds == <>(outcome \in Ended)

-----------------------------------------------------------------------------
(* "If the sum of all enforcement == hard directives alone exceeds 500       *)
(* tokens, the build compiler MUST fail": it is the reason it fails for      *)
(* (the budget is the caller's; on-demand directives left aside).            *)
RefusalIsJustified ==
  outcome = "refused" /\ (\A p \in Hard : p.activation = "always_on")
    => Cost(Hard) > maxBudget
=============================================================================
