----------------------- MODULE ContextCompiler_proofs -----------------------
(***************************************************************************)
(* What holds of compile for every memory, budget, page size and tokenizer.*)
(***************************************************************************)
EXTENDS ContextCompiler, Selection_proofs

(* What a candidate costs is a positive number.                            *)
LEMMA CostPositive ==
  ASSUME NEW p \in Catalog
  PROVE  p.cost \in Nat \ {0}
BY CatalogAssumption DEF CatalogPrimitive

(* The budget of the next round is a smaller natural number.               *)
LEMMA ShrunkIsSmaller ==
  ASSUME pipelineBudget \in Nat, pipelineBudget # 0, maxBudget \in Nat,
         NEW tokenCount \in Nat
  PROVE  Shrunk(tokenCount) \in Nat /\ Shrunk(tokenCount) < pipelineBudget
BY DEF Shrunk, Larger

(* Every variable keeps its type: budgets are natural numbers, FIT works on *)
(* what was read.                                                          *)
THEOREM CompilerTypeCorrect == Spec => []TypeOK
<1>1. Init => TypeOK
  BY CatalogAssumption, CallAssumption DEF Init, TypeOK
<1>2. ASSUME TypeOK, [Next]_vars
      PROVE  TypeOK'
  <2> USE <1>2 DEF TypeOK, Ended
  <2>1. CASE Fetch
    BY <2>1 DEF Fetch, StartRound
  <2>2. ASSUME NEW p \in queue, Select(p)
        PROVE  TypeOK'
    <3>1. p.cost \in Nat
      BY CostPositive
    <3> QED BY <2>2, <3>1 DEF Select, Place, call
  <2>3. ASSUME NEW p \in queue, SetAside(p)
        PROVE  TypeOK'
    BY <2>3 DEF SetAside, Place, call
  <2>4. ASSUME NEW p \in queue, Refuse(p)
        PROVE  TypeOK'
    BY <2>4 DEF Refuse, Place, call
  <2>5. CASE Finish
    BY <2>5 DEF Finish, call, fit
  <2>6. CASE Retry
    <3>1. TokensOf(tier0) \in Nat
      BY CallAssumption
    <3>2. pipelineBudget' \in Nat
      BY <2>6, <3>1, ShrunkIsSmaller DEF Retry
    <3> QED BY <2>6, <3>2 DEF Retry, StartRound, call
  <2>7. CASE GiveUp
    BY <2>7 DEF GiveUp, call, fit
  <2>8. CASE UNCHANGED vars
    BY <2>8 DEF vars, call, fit
  <2> QED BY <2>1, <2>2, <2>3, <2>4, <2>5, <2>6, <2>7, <2>8 DEF Next
<1> QED BY <1>1, <1>2, PTL DEF Spec

-----------------------------------------------------------------------------
(* Each further round has less to spend, which is why the loop ends.       *)
THEOREM RoundsGetSmaller == Spec => BudgetShrinks
<1>1. ASSUME TypeOK, Retry
      PROVE  pipelineBudget' < pipelineBudget /\ pipelineBudget' >= 0
  <2>1. TokensOf(tier0) \in Nat
    BY <1>1, CallAssumption DEF TypeOK
  <2>2. pipelineBudget \in Nat /\ pipelineBudget # 0 /\ maxBudget \in Nat
    BY <1>1 DEF TypeOK, Retry
  <2>3. Shrunk(TokensOf(tier0)) \in Nat /\ Shrunk(TokensOf(tier0)) < pipelineBudget
    BY <2>1, <2>2, ShrunkIsSmaller
  <2> QED BY <1>1, <2>2, <2>3 DEF Retry
<1>2. TypeOK /\ [Next]_vars
        => [Retry => pipelineBudget' < pipelineBudget /\ pipelineBudget' >= 0]_vars
  BY <1>1
<1> QED BY <1>2, CompilerTypeCorrect, PTL DEF Spec, BudgetShrinks

-----------------------------------------------------------------------------
(* A hard directive is selected or still waits to be placed; FIT leaves the *)
(* loop by an error before it could set one aside.                         *)
HardWaitsOrSelected ==
  /\ outcome = "fitting" => Hard \subseteq tier0 \cup queue
  /\ outcome = "compiled" => Hard \subseteq tier0

(* No hard directive is missing from a compiled text, for any number of    *)
(* rounds.                                                                 *)
THEOREM HardDirectivesAreKept == Spec => []HardDirectivesKept
<1>1. Init => HardWaitsOrSelected
  BY DEF Init, HardWaitsOrSelected
<1>2. ASSUME HardWaitsOrSelected, [Next]_vars
      PROVE  HardWaitsOrSelected'
  <2> USE <1>2 DEF HardWaitsOrSelected, Hard
  <2>1. CASE Fetch
    BY <2>1 DEF Fetch, StartRound
  <2>2. ASSUME NEW p \in queue, Select(p)
        PROVE  HardWaitsOrSelected'
    BY <2>2 DEF Select, Place, call
  <2>3. ASSUME NEW p \in queue, SetAside(p)
        PROVE  HardWaitsOrSelected'
    BY <2>3 DEF SetAside, Place, call
  <2>4. ASSUME NEW p \in queue, Refuse(p)
        PROVE  HardWaitsOrSelected'
    BY <2>4 DEF Refuse, Place
  <2>5. CASE Finish
    BY <2>5 DEF Finish, Rendered, call, fit
  <2>6. CASE Retry
    BY <2>6 DEF Retry, Rendered, StartRound, call
  <2>7. CASE GiveUp
    BY <2>7 DEF GiveUp
  <2>8. CASE UNCHANGED vars
    BY <2>8 DEF vars, call, fit
  <2> QED BY <2>1, <2>2, <2>3, <2>4, <2>5, <2>6, <2>7, <2>8 DEF Next
<1>3. HardWaitsOrSelected => HardDirectivesKept
  BY DEF HardWaitsOrSelected, HardDirectivesKept
<1> QED BY <1>1, <1>2, <1>3, PTL DEF Spec

-----------------------------------------------------------------------------
(* What is selected costs something and fits the round's budget, so that   *)
(* nothing is selected with a budget of zero.                              *)
SelectionPaid ==
  /\ tokens <= pipelineBudget
  /\ tier0 # {} => tokens > 0
  /\ outcome = "too_small" => tier0 = {} /\ TokensOf(tier0) > maxBudget

(* The error that blames the header is about the header.                   *)
THEOREM HeaderErrorHonest == Spec => []HeaderErrorIsHonest
<1>1. Init => SelectionPaid
  BY CallAssumption DEF Init, SelectionPaid
<1>2. ASSUME TypeOK, SelectionPaid, [Next]_vars
      PROVE  SelectionPaid'
  <2> USE <1>2 DEF SelectionPaid, TypeOK
  <2>1. CASE Fetch
    BY <2>1 DEF Fetch, StartRound
  <2>2. ASSUME NEW p \in queue, Select(p)
        PROVE  SelectionPaid'
    <3>1. p.cost \in Nat \ {0}
      BY CostPositive
    <3> QED BY <2>2, <3>1 DEF Select, Place, InTier0, Fits, call
  <2>3. ASSUME NEW p \in queue, SetAside(p)
        PROVE  SelectionPaid'
    BY <2>3 DEF SetAside, Place, call
  <2>4. ASSUME NEW p \in queue, Refuse(p)
        PROVE  SelectionPaid'
    BY <2>4 DEF Refuse, Place, call
  <2>5. CASE Finish
    BY <2>5 DEF Finish, call, fit
  <2>6. CASE Retry
    <3>1. TokensOf(tier0) \in Nat
      BY CallAssumption
    <3>2. pipelineBudget' \in Nat
      BY <2>6, <3>1, ShrunkIsSmaller DEF Retry
    <3> QED BY <2>6, <3>2 DEF Retry, Rendered, StartRound, call
  <2>7. CASE GiveUp
    BY <2>7 DEF GiveUp, call, fit
  <2>8. CASE UNCHANGED vars
    BY <2>8 DEF vars, call, fit
  <2> QED BY <2>1, <2>2, <2>3, <2>4, <2>5, <2>6, <2>7, <2>8 DEF Next
<1>3. SelectionPaid => HeaderErrorIsHonest
  BY DEF SelectionPaid, HeaderErrorIsHonest
<1> QED BY <1>1, <1>2, <1>3, CompilerTypeCorrect, PTL DEF Spec
-----------------------------------------------------------------------------
(* What a selection costs.                                                 *)

(* Cost adds the primitives up one by one, the one CHOOSE picks last.        *)
AnyOf(s) == CHOOSE p \in s : TRUE

LEMMA CostUnfolds ==
  ASSUME NEW S, IsFiniteSet(S), S \subseteq Catalog
  PROVE  /\ Cost({}) = 0
         /\ \A T \in SUBSET S :
              /\ Cost(T) \in Nat
              /\ T # {} => Cost(T) = AnyOf(T).cost + Cost(T \ {AnyOf(T)})
<1> DEFINE V == Nat
           base == 0
           ch == [s \in SUBSET S |-> AnyOf(s)]
           G == [pair \in S \X V |-> pair[1].cost + pair[2]]
           Is(f, T) == f = [s \in SUBSET T |->
                              IF s = {} THEN 0
                              ELSE AnyOf(s).cost + f[s \ {AnyOf(s)}]]
           F == [T \in SUBSET S |-> CHOOSE f : Is(f, T)]
<1>1. IsFiniteSet(S) /\ \A p \in S : p.cost \in Nat
  BY CostPositive
<1>2. base \in V
  OBVIOUS
<1>3. \A s \in SUBSET S : s # {} => ch[s] \in s
  BY DEF AnyOf
<1>4. \A x \in S : \A v \in V : G[<<x, v>>] = x.cost + v /\ G[<<x, v>>] \in V
  BY <1>1
<1>5. ASSUME NEW T \in SUBSET S PROVE \E f : Is(f, T)
  <2>1. IsFiniteSet(T) /\ Chooses(ch, T)
    BY <1>1, <1>3, FS_Subset DEF Chooses
  <2>2. StepsIn(G, T, V)
    <3> HIDE DEF V, G
    <3> QED BY <1>4 DEF StepsIn
  <2>3. PICK h \in [SUBSET T -> V] : IsFold(h, T, base, ch, G)
    <3> HIDE DEF V, base, ch, G
    <3> QED BY <1>2, <2>1, <2>2, FoldExists
  <2>4. ASSUME NEW s \in SUBSET T, s # {}
        PROVE  G[<<ch[s], h[s \ {ch[s]}]>>] = AnyOf(s).cost + h[s \ {AnyOf(s)}]
    <3>1. ch[s] = AnyOf(s) /\ ch[s] \in S /\ h[s \ {ch[s]}] \in V
      BY <2>1, <2>4 DEF Chooses
    <3> HIDE DEF V, ch, G
    <3> QED BY <1>4, <3>1
  <2>5. Is(h, T)
    <3> HIDE DEF V, ch, G
    <3> QED BY <2>3, <2>4 DEF IsFold
  <2> QED BY <2>5
<1>6. ASSUME NEW T \in SUBSET S PROVE Is(F[T], T)
  <2> HIDE DEF Is
  <2> QED BY <1>5
<1>7. \A T \in SUBSET S : Cost(T) = F[T][T]
  BY DEF Cost, MapThenFoldSet, AnyOf
<1>8. ASSUME NEW T \in SUBSET S PROVE FoldsOver(F[T], T, base, ch, G, V)
  <2> DEFINE f == F[T]
  <2>1. Is(f, T)
    BY <1>6
  <2> HIDE DEF f, V, G
  <2>2. ASSUME NEW s \in SUBSET T, s # {}, f[s \ {ch[s]}] \in V
        PROVE  f[s] = G[<<ch[s], f[s \ {ch[s]}]>>]
    <3>1. ch[s] = AnyOf(s) /\ ch[s] \in S
      BY <1>3, <2>2
    <3>2. f[s] = AnyOf(s).cost + f[s \ {AnyOf(s)}]
      BY <2>1, <2>2
    <3> HIDE DEF ch
    <3> QED BY <1>4, <2>2, <3>1, <3>2
  <2>3. f[{}] = base
    BY <2>1
  <2> HIDE DEF ch, base
  <2> QED BY <2>2, <2>3 DEF FoldsOver, f
<1>9. /\ F[{}][{}] = base
      /\ \A T \in SUBSET S :
           /\ F[T][T] \in V
           /\ T # {} => F[T][T] = G[<<ch[T], F[T \ {ch[T]}][T \ {ch[T]}]>>]
  <2>1. Chooses(ch, S)
    BY <1>3 DEF Chooses
  <2> HIDE DEF V, base, ch, G, F
  <2>2. StepsIn(G, S, V)
    BY <1>4 DEF StepsIn
  <2>3. FoldsOverSubsets(F, S, base, ch, G, V)
    BY <1>8 DEF FoldsOverSubsets
  <2>4. Unfolds(F, S, base, ch, G, V)
    BY <1>1, <1>2, <2>1, <2>2, <2>3, FoldUnfolds
  <2> QED BY <2>4 DEF Unfolds
<1>10. ASSUME NEW T \in SUBSET S, T # {}
       PROVE  F[T][T] = AnyOf(T).cost + F[T \ {AnyOf(T)}][T \ {AnyOf(T)}]
  <2> DEFINE U == T \ {AnyOf(T)}
  <2>1. ch[T] = AnyOf(T) /\ ch[T] \in S /\ U \in SUBSET S
    BY <1>3, <1>10
  <2> HIDE DEF U, V, base, ch, G, F
  <2>2. F[U][U] \in V /\ F[T][T] = G[<<ch[T], F[U][U]>>]
    BY <1>9, <1>10, <2>1 DEF U
  <2>3. G[<<ch[T], F[U][U]>>] = ch[T].cost + F[U][U]
    BY <1>4, <2>1, <2>2
  <2> QED BY <2>1, <2>2, <2>3 DEF U
<1> HIDE DEF F, ch, G
<1>11. \A T \in SUBSET S : T \ {AnyOf(T)} \in SUBSET S
  OBVIOUS
<1>12. {} \in SUBSET S
  OBVIOUS
<1> QED BY <1>7, <1>9, <1>10, <1>11, <1>12

(* The order it adds them in does not matter.                                *)
LEMMA CostAdds ==
  ASSUME NEW S, IsFiniteSet(S), S \subseteq Catalog, NEW x \in S
  PROVE  Cost(S) \in Nat /\ Cost(S) = Cost(S \ {x}) + x.cost
<1> DEFINE Q(T) == \A y \in T : Cost(T) = Cost(T \ {y}) + y.cost
           N == {n \in Nat : \A T \in SUBSET S : Cardinality(T) = n => Q(T)}
<1>1. \A T \in SUBSET S : IsFiniteSet(T) /\ Cardinality(T) \in Nat
  BY FS_Subset, FS_CardinalityType
<1>2. \A p \in S : p.cost \in Nat
  BY CostPositive
<1>3. 0 \in N
  <2>1. \A T \in SUBSET S : Cardinality(T) = 0 => T = {}
    BY <1>1, FS_EmptySet
  <2> QED BY <2>1
<1>4. ASSUME NEW n \in N PROVE n + 1 \in N
  <2> SUFFICES ASSUME NEW T \in SUBSET S, Cardinality(T) = n + 1, NEW y \in T
               PROVE  Cost(T) = Cost(T \ {y}) + y.cost
    OBVIOUS
  <2> DEFINE z == AnyOf(T)
  <2>1. z \in T
    BY DEF AnyOf
  <2>2. Cost(T) = z.cost + Cost(T \ {z})
    BY CostUnfolds
  <2>3. ASSUME NEW u \in T PROVE Q(T \ {u})
    <3>1. Cardinality(T \ {u}) = Cardinality(T) - 1
      BY <1>1, FS_RemoveElement
    <3>2. Cardinality(T \ {u}) = n /\ T \ {u} \in SUBSET S
      BY <3>1
    <3> HIDE DEF Q
    <3> QED BY <3>2
  <2> HIDE DEF z
  <2>4. CASE y = z
    <3>1. Cost(T \ {z}) \in Nat /\ z.cost \in Nat
      BY <1>2, <2>1, CostUnfolds
    <3> QED BY <2>2, <2>4, <3>1
  <2>5. CASE y # z
    <3>1. Cost(T \ {z}) = Cost((T \ {z}) \ {y}) + y.cost
      BY <2>1, <2>3, <2>5
    <3>2. Cost(T \ {y}) = Cost((T \ {y}) \ {z}) + z.cost
      BY <2>1, <2>3, <2>5
    <3>3. (T \ {z}) \ {y} = (T \ {y}) \ {z} /\ (T \ {y}) \ {z} \in SUBSET S
      OBVIOUS
    <3> DEFINE c == Cost((T \ {y}) \ {z})
               a == y.cost
               b == z.cost
    <3>4. c \in Nat /\ a \in Nat /\ b \in Nat
      BY <1>2, <2>1, <3>3, CostUnfolds
    <3>5. Cost(T) = b + (c + a) /\ Cost(T \ {y}) = c + b
      BY <2>2, <3>1, <3>2, <3>3
    <3> HIDE DEF a, b, c
    <3>6. b + (c + a) = (c + b) + a
      BY <3>4
    <3> QED BY <3>5, <3>6 DEF a
  <2> QED BY <2>4, <2>5
<1>5. Nat \subseteq N
  <2> HIDE DEF N
  <2> QED BY <1>3, <1>4, Induction
<1>6. Q(S)
  <2>1. Cardinality(S) \in N
    BY <1>1, <1>5
  <2> HIDE DEF Q
  <2> QED BY <2>1
<1>7. Cost(S) \in Nat
  BY CostUnfolds
<1> QED BY <1>6, <1>7
-----------------------------------------------------------------------------
(* The greedy selection.                                                   *)

(* What FIT is done with was all ahead of what still waits, and is selected  *)
(* just when it fitted behind the selected ones ahead of it.                 *)
PlacedInOrder ==
  \A p, q \in loaded : Eligible(p) /\ p \notin queue /\ q \in queue => Precedes(p, q)

FitsBehind(p, selection, budget) ==
  Cost({q \in selection : Precedes(q, p)}) + p.cost <= budget

GreedySoFar ==
  /\ IsFiniteSet(memory) /\ loaded \subseteq memory
  /\ queue \subseteq {p \in loaded : Eligible(p)}
  /\ tier0 \subseteq Candidates \ queue
  /\ tokens = Cost(tier0)
  /\ PlacedInOrder
  /\ \A p \in Candidates \ queue : p \in tier0 <=> FitsBehind(p, tier0, pipelineBudget)

GreedyInv ==
  /\ outcome = "fetching" => IsFiniteSet(memory) /\ memory \in Memories
  /\ outcome \in {"fitting", "compiled"} => GreedySoFar
  /\ outcome = "compiled" => queue = {}

(* Nothing is placed yet.                                                    *)
LEMMA RoundStartsGreedy ==
  ASSUME IsFiniteSet(memory'), loaded' \subseteq memory', StartRound
  PROVE  GreedySoFar'
<1>1. Cost({}) = 0
  BY CostUnfolds, FS_EmptySet
<1>2. (Candidates \ queue)' = {}
  BY DEF Candidates, StartRound
<1>3. PlacedInOrder'
  BY DEF PlacedInOrder, StartRound
<1> QED BY <1>1, <1>2, <1>3 DEF StartRound, GreedySoFar

(* The primitive placed next is behind all that are placed: it sees the      *)
(* whole selection, and they see what they saw.                              *)
LEMMA PlacingStaysGreedy ==
  ASSUME TypeOK, GreedySoFar, NEW p \in queue, Place(p),
         \/ InTier0(p) /\ tier0' = tier0 \cup {p} /\ tokens' = tokens + p.cost
         \/ ~ InTier0(p) /\ UNCHANGED <<tier0, tokens>>
  PROVE  GreedySoFar'
<1>1. /\ IsFiniteSet(loaded) /\ loaded \subseteq Catalog
      /\ \A S \in SUBSET loaded : IsFiniteSet(S) /\ S \subseteq Catalog
  BY FS_Subset DEF GreedySoFar, TypeOK
<1>2. Rankable(loaded)
  BY <1>1, CatalogAssumption DEF Rankable
<1>3. UNCHANGED <<memory, loaded, maxBudget, pipelineBudget>> /\ queue' = queue \ {p} /\ p \in loaded
  BY DEF Place, call, GreedySoFar
<1>4. \A q \in queue \ {p} : Precedes(p, q)
  BY DEF Place, IsNext
<1>5. /\ \A q \in loaded : ~ Precedes(q, q)
      /\ \A q, r, s \in loaded : Precedes(q, r) /\ Precedes(r, s) => Precedes(q, s)
  BY <1>2, ScoreOrders
<1>6. \A q \in loaded : Eligible(q) /\ q \notin queue => Precedes(q, p) /\ ~ Precedes(p, q)
  BY <1>3, <1>5 DEF GreedySoFar, PlacedInOrder
<1>7. Candidates' = Candidates /\ \A q \in Candidates : q \in loaded /\ Eligible(q)
  BY <1>3 DEF Candidates, Eligible
<1>8. PlacedInOrder'
  <2> SUFFICES ASSUME NEW a \in loaded, NEW b \in loaded, Eligible(a), a \notin queue', b \in queue'
               PROVE  Precedes(a, b)
    BY <1>3 DEF PlacedInOrder, Eligible
  <2> QED BY <1>3, <1>4 DEF GreedySoFar, PlacedInOrder
<1>9. tier0 \subseteq Candidates \ queue /\ tokens = Cost(tier0) /\ tier0 \in SUBSET loaded
  BY <1>7 DEF GreedySoFar
<1>10. \A q \in tier0 : Precedes(q, p) /\ ~ Precedes(p, q)
  BY <1>6, <1>7, <1>9
<1>11. tier0 \subseteq tier0' /\ tier0' \subseteq tier0 \cup {p}
  OBVIOUS
<1>12. ASSUME NEW q \in Candidates \ queue
       PROVE  {r \in tier0' : Precedes(r, q)} = {r \in tier0 : Precedes(r, q)}
  BY <1>6, <1>7, <1>11, <1>12
<1>13. {r \in tier0' : Precedes(r, p)} = tier0
  BY <1>3, <1>5, <1>10, <1>11
<1>14. FitsBehind(p, tier0', pipelineBudget') <=> Fits(p)
  BY <1>3, <1>9, <1>13 DEF FitsBehind, Fits
<1>15. p \in Candidates => (p \in tier0' <=> FitsBehind(p, tier0', pipelineBudget'))
  <2>1. p \in Candidates => (InTier0(p) <=> Fits(p))
    BY DEF Candidates, InTier0
  <2>2. p \in tier0' <=> InTier0(p)
    BY <1>9
  <2> QED BY <1>14, <2>1, <2>2
<1>16. \A q \in Candidates \ queue : q \in tier0' <=> FitsBehind(q, tier0', pipelineBudget')
  <2> SUFFICES ASSUME NEW q \in Candidates \ queue
               PROVE  q \in tier0' <=> FitsBehind(q, tier0', pipelineBudget')
    OBVIOUS
  <2>1. q \in tier0 <=> FitsBehind(q, tier0, pipelineBudget)
    BY DEF GreedySoFar
  <2>2. q # p
    OBVIOUS
  <2>3. FitsBehind(q, tier0', pipelineBudget') <=> FitsBehind(q, tier0, pipelineBudget)
    BY <1>3, <1>12 DEF FitsBehind
  <2> QED BY <1>11, <2>1, <2>2, <2>3
<1>17. tier0' \subseteq Candidates \ queue'
  <2>1. InTier0(p) => p \in Candidates
    BY <1>3 DEF InTier0, Candidates, GreedySoFar
  <2> QED BY <1>3, <1>9, <2>1
<1>18. tokens' = Cost(tier0')
  <2>1. CASE ~ InTier0(p)
    BY <1>9, <2>1
  <2>2. CASE InTier0(p)
    <3>1. tier0' = tier0 \cup {p} /\ tokens' = tokens + p.cost
      BY <2>2
    <3>2. tier0' \in SUBSET loaded /\ (tier0' \ {p}) = tier0
      BY <1>3, <1>9, <3>1
    <3>3. Cost(tier0') = Cost(tier0' \ {p}) + p.cost
      BY <1>1, <3>1, <3>2, CostAdds
    <3> QED BY <1>9, <3>1, <3>2, <3>3
  <2> QED BY <2>1, <2>2
<1>19. queue' \subseteq {q \in loaded' : Eligible(q)}
  BY <1>3 DEF GreedySoFar
<1> QED BY <1>3, <1>7, <1>8, <1>15, <1>16, <1>17, <1>18, <1>19 DEF GreedySoFar

LEMMA GreedyHolds == Spec => []GreedyInv
<1>1. Init => GreedyInv
  BY CatalogAssumption DEF Init, GreedyInv
<1>2. ASSUME TypeOK, GreedyInv, [Next]_vars
      PROVE  GreedyInv'
  <2> USE <1>2 DEF GreedyInv
  <2>1. CASE Fetch
    <3>1. IsFiniteSet(memory') /\ loaded' \subseteq memory' /\ StartRound
      BY <2>1 DEF Fetch
    <3>2. GreedySoFar'
      BY <3>1, RoundStartsGreedy
    <3> QED BY <2>1, <3>2 DEF Fetch
  <2>2. ASSUME NEW p \in queue, Select(p)
        PROVE  GreedyInv'
    <3>1. outcome = "fitting" /\ outcome' = "fitting" /\ Place(p) /\ GreedySoFar
      BY <2>2 DEF Select, Place
    <3>2. GreedySoFar'
      BY <2>2, <3>1, PlacingStaysGreedy DEF Select
    <3> QED BY <3>1, <3>2
  <2>3. ASSUME NEW p \in queue, SetAside(p)
        PROVE  GreedyInv'
    <3>1. outcome = "fitting" /\ outcome' = "fitting" /\ Place(p) /\ GreedySoFar
      BY <2>3 DEF SetAside, Place
    <3>2. GreedySoFar'
      BY <2>3, <3>1, PlacingStaysGreedy DEF SetAside
    <3> QED BY <3>1, <3>2
  <2>4. ASSUME NEW p \in queue, Refuse(p)
        PROVE  GreedyInv'
    BY <2>4 DEF Refuse
  <2>5. CASE Finish
    <3>1. UNCHANGED <<memory, loaded, queue, tier0, tokens, pipelineBudget>>
      BY <2>5 DEF Finish, call, fit
    <3>2. outcome = "fitting" /\ queue = {} /\ outcome' = "compiled"
      BY <2>5 DEF Finish, Rendered
    <3>3. Candidates' = Candidates
      BY <3>1 DEF Candidates, Eligible
    <3>4. GreedySoFar'
      BY <3>1, <3>2, <3>3 DEF GreedySoFar, PlacedInOrder, FitsBehind, Eligible
    <3> QED BY <3>1, <3>2, <3>4
  <2>6. CASE Retry
    <3>1. IsFiniteSet(memory') /\ loaded' \subseteq memory' /\ StartRound
          /\ outcome = "fitting" /\ outcome' = "fitting"
      BY <2>6 DEF Retry, Rendered, call, GreedySoFar
    <3>2. GreedySoFar'
      BY <3>1, RoundStartsGreedy
    <3> QED BY <3>1, <3>2
  <2>7. CASE GiveUp
    BY <2>7 DEF GiveUp
  <2>8. CASE UNCHANGED vars
    <3>1. UNCHANGED <<memory, loaded, queue, tier0, tokens, pipelineBudget, outcome>>
      BY <2>8 DEF vars, call, fit
    <3>2. Candidates' = Candidates
      BY <3>1 DEF Candidates, Eligible
    <3> QED BY <3>1, <3>2 DEF GreedySoFar, PlacedInOrder, FitsBehind, Eligible
  <2> QED BY <2>1, <2>2, <2>3, <2>4, <2>5, <2>6, <2>7, <2>8 DEF Next
<1> QED BY <1>1, <1>2, CompilerTypeCorrect, PTL DEF Spec

(* A candidate is left out only when it does not fit behind what precedes    *)
(* it, in whatever order the memory was read and after any number of rounds. *)
THEOREM SelectionGreedy == Spec => []SelectionIsGreedy
<1>1. GreedyInv => SelectionIsGreedy
  BY DEF GreedyInv, GreedySoFar, SelectionIsGreedy, FitsBehind
<1> QED BY <1>1, GreedyHolds, PTL

(* BudgetFitter and the token profiler agree on every memory and budget.     *)
THEOREM ProfilersAgree == Spec => []ProfilerAgrees
<1>1. ASSUME TypeOK, GreedyInv, outcome = "fetching"
      PROVE  SelectionsAgree({p \in memory : PlacedByBoth(p)}, maxBudget)
  <2> DEFINE S == {p \in memory : PlacedByBoth(p)}
  <2>1. IsFiniteSet(S) /\ S \subseteq Catalog
    BY <1>1, FS_Subset DEF TypeOK, GreedyInv
  <2>2. Rankable(S)
    BY <2>1, CatalogAssumption DEF Rankable
  <2>3. maxBudget \in Int /\ \A p \in S : PlacedByBoth(p)
    BY <1>1 DEF TypeOK
  <2> HIDE DEF S
  <2>4. SelectionsAgree(S, maxBudget)
    BY <2>2, <2>3, TwoSelectionsAgree
  <2> QED BY <2>4 DEF S
<1>2. TypeOK /\ GreedyInv => ProfilerAgrees
  BY <1>1 DEF ProfilerAgrees
<1> QED BY <1>2, GreedyHolds, CompilerTypeCorrect, PTL
=============================================================================
