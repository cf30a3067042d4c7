-------------------------- MODULE Selection_proofs --------------------------
(***************************************************************************)
(* What the selection of the compiler computes, whatever the primitives:   *)
(* FIT and the token profiler unfold to one step per primitive in the      *)
(* order of their rankings, and decide alike.                              *)
(***************************************************************************)
EXTENDS Selection, Orders_proofs

-----------------------------------------------------------------------------
(* Rankings.                                                               *)

(* Primitives a ranking can order: a pipeline has an id once.                *)
Rankable(S) ==
  /\ IsFiniteSet(S) /\ S \subseteq CatalogPrimitive
  /\ \A p, q \in S : p.id = q.id => p = q

LEMMA RankableParts ==
  ASSUME NEW S, Rankable(S), NEW T \in SUBSET S
  PROVE  Rankable(T)
BY FS_Subset DEF Rankable

LEMMA RanksAreNaturals ==
  ASSUME NEW p \in CatalogPrimitive
  PROVE  Score(p) \in Nat /\ PriorityRank(p) \in Nat
<1>1. p.type \in {"entity", "directive", "event", "assertion", "relation"}
  BY DEF CatalogPrimitive, Type
<1> QED BY <1>1 DEF Score, PriorityRank

(* Rank, then newest, then id: which of two comes first.                     *)
FirstByRank(m, n, p, q) ==
  m < n \/ (m = n /\ (p.verified > q.verified \/ (p.verified = q.verified /\ p.id < q.id)))

LEMMA RankDecides ==
  ASSUME NEW p \in CatalogPrimitive, NEW q \in CatalogPrimitive, NEW s \in CatalogPrimitive,
         NEW k \in Nat, NEW m \in Nat, NEW n \in Nat
  PROVE  /\ ~ FirstByRank(k, k, p, p)
         /\ p.id # q.id => FirstByRank(k, m, p, q) \/ FirstByRank(m, k, q, p)
         /\ FirstByRank(k, m, p, q) /\ FirstByRank(m, n, q, s) => FirstByRank(k, n, p, s)
<1>1. /\ p.verified \in Nat /\ q.verified \in Nat /\ s.verified \in Nat
      /\ p.id \in Nat /\ q.id \in Nat /\ s.id \in Nat
  BY DEF CatalogPrimitive
<1> DEFINE a == p.verified
           b == q.verified
           c == s.verified
           i == p.id
           j == q.id
           l == s.id
<1> HIDE DEF a, b, c, i, j, l
<1>2. /\ a \in Nat /\ b \in Nat /\ c \in Nat /\ i \in Nat /\ j \in Nat /\ l \in Nat
  BY <1>1 DEF a, b, c, i, j, l
<1>3. i # j => \/ k < m \/ (k = m /\ (a > b \/ (a = b /\ i < j)))
               \/ m < k \/ (m = k /\ (b > a \/ (b = a /\ j < i)))
  BY <1>2
<1>4. /\ k < m \/ (k = m /\ (a > b \/ (a = b /\ i < j)))
      /\ m < n \/ (m = n /\ (b > c \/ (b = c /\ j < l)))
      => k < n \/ (k = n /\ (a > c \/ (a = c /\ i < l)))
  BY <1>2
<1>5. ~ (k < k \/ (k = k /\ (a > a \/ (a = a /\ i < i))))
  BY <1>2
<1> QED BY <1>3, <1>4, <1>5 DEF FirstByRank, a, b, c, i, j, l

LEMMA ScoreOrders ==
  ASSUME NEW S, Rankable(S)
  PROVE  /\ \A p \in S : ~ Precedes(p, p)
         /\ \A p, q \in S : p # q => Precedes(p, q) \/ Precedes(q, p)
         /\ \A p, q, s \in S : Precedes(p, q) /\ Precedes(q, s) => Precedes(p, s)
<1>1. \A p, q : Precedes(p, q) <=> FirstByRank(Score(p), Score(q), p, q)
  BY DEF Precedes, OrderedBy, FirstByRank
<1>2. \A p \in S : p \in CatalogPrimitive /\ Score(p) \in Nat
  BY RanksAreNaturals DEF Rankable
<1>3. \A p, q \in S : p # q => p.id # q.id
  BY DEF Rankable
<1> QED BY <1>1, <1>2, <1>3, RankDecides

LEMMA PriorityOrders ==
  ASSUME NEW S, Rankable(S)
  PROVE  /\ \A p \in S : ~ PrecedesByPriority(p, p)
         /\ \A p, q \in S : p # q => PrecedesByPriority(p, q) \/ PrecedesByPriority(q, p)
         /\ \A p, q, s \in S : PrecedesByPriority(p, q) /\ PrecedesByPriority(q, s)
                                 => PrecedesByPriority(p, s)
<1>1. \A p, q : PrecedesByPriority(p, q) <=> FirstByRank(PriorityRank(p), PriorityRank(q), p, q)
  BY DEF PrecedesByPriority, OrderedBy, FirstByRank
<1>2. \A p \in S : p \in CatalogPrimitive /\ PriorityRank(p) \in Nat
  BY RanksAreNaturals DEF Rankable
<1>3. \A p, q \in S : p # q => p.id # q.id
  BY DEF Rankable
<1> QED BY <1>1, <1>2, <1>3, RankDecides

(* The one a loop in this order comes to last.                               *)
LastByScore(s) == CHOOSE p \in s : \A q \in s \ {p} : Precedes(q, p)

LastByPriority(s) == CHOOSE p \in s : \A q \in s \ {p} : PrecedesByPriority(q, p)

LEMMA LastOfRanked ==
  ASSUME NEW S, Rankable(S), S # {}
  PROVE  /\ LastByScore(S) \in S
         /\ \A q \in S \ {LastByScore(S)} : Precedes(q, LastByScore(S))
         /\ LastByPriority(S) \in S
         /\ \A q \in S \ {LastByPriority(S)} : PrecedesByPriority(q, LastByPriority(S))
<1>1. IsFiniteSet(S)
  BY DEF Rankable
<1>2. \E m \in S : \A q \in S \ {m} : Precedes(q, m)
  <2> DEFINE R == {pair \in S \X S : Precedes(pair[1], pair[2])}
  <2>1. \A p, q \in S : <<p, q>> \in R <=> Precedes(p, q)
    OBVIOUS
  <2> HIDE DEF R
  <2>2. StrictTotal(R, S)
    BY <2>1, ScoreOrders DEF StrictTotal
  <2>3. \E m \in S : \A x \in S \ {m} : <<x, m>> \in R
    BY <1>1, <2>2, LastExists
  <2> QED BY <2>1, <2>3
<1>3. \E m \in S : \A q \in S \ {m} : PrecedesByPriority(q, m)
  <2> DEFINE R == {pair \in S \X S : PrecedesByPriority(pair[1], pair[2])}
  <2>1. \A p, q \in S : <<p, q>> \in R <=> PrecedesByPriority(p, q)
    OBVIOUS
  <2> HIDE DEF R
  <2>2. StrictTotal(R, S)
    BY <2>1, PriorityOrders DEF StrictTotal
  <2>3. \E m \in S : \A x \in S \ {m} : <<x, m>> \in R
    BY <1>1, <2>2, LastExists
  <2> QED BY <2>1, <2>3
<1> QED BY <1>2, <1>3 DEF LastByScore, LastByPriority

-----------------------------------------------------------------------------
(* The loops.                                                              *)

(* What FIT makes of primitives of S.                                        *)
FitResults(S) ==
  [tier0 : SUBSET S, tier1 : SUBSET S, overflow : SUBSET S, tokens : Nat, refused : BOOLEAN]

(* And calculateBudget.                                                      *)
ProfileResults(S) ==
  [tier0 : SUBSET S, demoted : SUBSET S, tokens : Nat, hard : Nat, refused : BOOLEAN]

NothingProfiled == [tier0 |-> {}, demoted |-> {}, tokens |-> 0, hard |-> 0, refused |-> FALSE]

LEMMA StepTypes ==
  ASSUME NEW S, NEW p \in S, p \in CatalogPrimitive, NEW budget
  PROVE  /\ \A v \in FitResults(S) : FitStep(p, v, budget) \in FitResults(S)
         /\ \A v \in ProfileResults(S) : BudgetStep(p, v, budget) \in ProfileResults(S)
<1>1. p.cost \in Nat
  BY DEF CatalogPrimitive
<1>2. ASSUME NEW v \in FitResults(S) PROVE FitStep(p, v, budget) \in FitResults(S)
  <2>1. v.tokens + p.cost \in Nat
    BY <1>1 DEF FitResults
  <2> QED BY <2>1 DEF FitResults, FitStep
<1>3. ASSUME NEW v \in ProfileResults(S) PROVE BudgetStep(p, v, budget) \in ProfileResults(S)
  <2>1. /\ v.tokens + p.cost \in Nat
        /\ v.hard + (IF p.hard THEN p.cost ELSE 0) \in Nat
    BY <1>1 DEF ProfileResults
  <2> QED BY <2>1 DEF ProfileResults, BudgetStep
<1> QED BY <1>2, <1>3

(* FIT is a step for the last of the ranked primitives after FIT of the rest.*)
LEMMA FitUnfolds ==
  ASSUME NEW S, Rankable(S), NEW budget
  PROVE  /\ FitStage({}, budget) = NothingFitted
         /\ \A T \in SUBSET S :
              /\ FitStage(T, budget) \in FitResults(S)
              /\ T # {} => FitStage(T, budget) =
                   FitStep(LastByScore(T), FitStage(T \ {LastByScore(T)}, budget), budget)
<1> DEFINE V == FitResults(S)
           base == NothingFitted
           ch == [s \in SUBSET S |-> LastByScore(s)]
           G == [pair \in S \X V |-> FitStep(pair[1], pair[2], budget)]
           Is(f, T) == f = [s \in SUBSET T |->
                              IF s = {} THEN NothingFitted
                              ELSE FitStep(LastByScore(s), f[s \ {LastByScore(s)}], budget)]
           F == [T \in SUBSET S |-> CHOOSE f : Is(f, T)]
<1>1. IsFiniteSet(S) /\ \A p \in S : p \in CatalogPrimitive
  BY DEF Rankable
<1>2. base \in V
  BY DEF NothingFitted, FitResults
<1>3. \A s \in SUBSET S : s # {} => ch[s] \in s
  BY RankableParts, LastOfRanked
<1>4. \A x \in S : \A v \in V : G[<<x, v>>] = FitStep(x, v, budget) /\ G[<<x, v>>] \in V
  BY <1>1, StepTypes
<1>5. ASSUME NEW T \in SUBSET S PROVE \E f : Is(f, T)
  <2>1. IsFiniteSet(T) /\ Chooses(ch, T)
    BY <1>1, <1>3, FS_Subset DEF Chooses
  <2>2. StepsIn(G, T, V)
    <3> HIDE DEF V, G
    <3> QED BY <1>4 DEF StepsIn
  <2>3. PICK h \in [SUBSET T -> V] : IsFold(h, T, base, ch, G)
    <3> HIDE DEF V, base, ch, G
    <3> QED BY <1>2, <2>1, <2>2, FoldExists
  <2>4. ASSUME NEW s \in SUBSET T, s # {}
        PROVE  G[<<ch[s], h[s \ {ch[s]}]>>] = FitStep(LastByScore(s), h[s \ {LastByScore(s)}], budget)
    <3>1. ch[s] = LastByScore(s) /\ ch[s] \in S /\ h[s \ {ch[s]}] \in V
      BY <2>1, <2>4 DEF Chooses
    <3> HIDE DEF V, ch, G
    <3> QED BY <1>4, <3>1
  <2>5. Is(h, T)
    <3> HIDE DEF V, ch, G
    <3> QED BY <2>3, <2>4 DEF IsFold
  <2> QED BY <2>5
<1>6. ASSUME NEW T \in SUBSET S PROVE Is(F[T], T)
  <2> HIDE DEF Is
  <2> QED BY <1>5
<1>7. \A T \in SUBSET S : FitStage(T, budget) = F[T][T]
  BY DEF FitStage, ForEachInOrder, MapThenFoldSet, LastByScore
<1>8. ASSUME NEW T \in SUBSET S PROVE FoldsOver(F[T], T, base, ch, G, V)
  <2> DEFINE f == F[T]
  <2>1. Is(f, T)
    BY <1>6
  <2> HIDE DEF f, V, G
  <2>2. ASSUME NEW s \in SUBSET T, s # {}, f[s \ {ch[s]}] \in V
        PROVE  f[s] = G[<<ch[s], f[s \ {ch[s]}]>>]
    <3>1. ch[s] = LastByScore(s) /\ ch[s] \in S
      BY <1>3, <2>2
    <3>2. f[s] = FitStep(LastByScore(s), f[s \ {LastByScore(s)}], budget)
      BY <2>1, <2>2
    <3> HIDE DEF ch
    <3> QED BY <1>4, <2>2, <3>1, <3>2
  <2>3. f[{}] = base
    BY <2>1
  <2> HIDE DEF ch, base
  <2> QED BY <2>2, <2>3 DEF FoldsOver, f
<1>9. /\ F[{}][{}] = base
      /\ \A T \in SUBSET S :
           /\ F[T][T] \in V
           /\ T # {} => F[T][T] = G[<<ch[T], F[T \ {ch[T]}][T \ {ch[T]}]>>]
  <2>1. Chooses(ch, S)
    BY <1>3 DEF Chooses
  <2> HIDE DEF V, base, ch, G, F
  <2>2. StepsIn(G, S, V)
    BY <1>4 DEF StepsIn
  <2>3. FoldsOverSubsets(F, S, base, ch, G, V)
    BY <1>8 DEF FoldsOverSubsets
  <2>4. Unfolds(F, S, base, ch, G, V)
    BY <1>1, <1>2, <2>1, <2>2, <2>3, FoldUnfolds
  <2> QED BY <2>4 DEF Unfolds
<1>10. ASSUME NEW T \in SUBSET S, T # {}
       PROVE  F[T][T] = FitStep(LastByScore(T), F[T \ {LastByScore(T)}][T \ {LastByScore(T)}], budget)
  <2> DEFINE U == T \ {LastByScore(T)}
  <2>1. ch[T] = LastByScore(T) /\ ch[T] \in S /\ U \in SUBSET S
    BY <1>3, <1>10
  <2> HIDE DEF U, V, base, ch, G, F
  <2>2. F[U][U] \in V /\ F[T][T] = G[<<ch[T], F[U][U]>>]
    BY <1>9, <1>10, <2>1 DEF U
  <2>3. G[<<ch[T], F[U][U]>>] = FitStep(ch[T], F[U][U], budget)
    BY <1>4, <2>1, <2>2
  <2> QED BY <2>1, <2>2, <2>3 DEF U
<1> HIDE DEF F, V, ch, G
<1>11. \A T \in SUBSET S : T \ {LastByScore(T)} \in SUBSET S
  OBVIOUS
<1>12. {} \in SUBSET S
  OBVIOUS
<1> QED BY <1>7, <1>9, <1>10, <1>11, <1>12 DEF V
(* The same of calculateBudget, over its own ranking.                        *)
LEMMA BudgetUnfolds ==
  ASSUME NEW S, Rankable(S), NEW budget
  PROVE  /\ CalculateBudget({}, budget) = NothingProfiled
         /\ \A T \in SUBSET S :
              /\ CalculateBudget(T, budget) \in ProfileResults(S)
              /\ T # {} => CalculateBudget(T, budget) =
                   BudgetStep(LastByPriority(T), CalculateBudget(T \ {LastByPriority(T)}, budget), budget)
<1> DEFINE V == ProfileResults(S)
           base == NothingProfiled
           ch == [s \in SUBSET S |-> LastByPriority(s)]
           G == [pair \in S \X V |-> BudgetStep(pair[1], pair[2], budget)]
           Is(f, T) == f = [s \in SUBSET T |->
                              IF s = {} THEN NothingProfiled
                              ELSE BudgetStep(LastByPriority(s), f[s \ {LastByPriority(s)}], budget)]
           F == [T \in SUBSET S |-> CHOOSE f : Is(f, T)]
<1>1. IsFiniteSet(S) /\ \A p \in S : p \in CatalogPrimitive
  BY DEF Rankable
<1>2. base \in V
  BY DEF NothingProfiled, ProfileResults
<1>3. \A s \in SUBSET S : s # {} => ch[s] \in s
  BY RankableParts, LastOfRanked
<1>4. \A x \in S : \A v \in V : G[<<x, v>>] = BudgetStep(x, v, budget) /\ G[<<x, v>>] \in V
  BY <1>1, StepTypes
<1>5. ASSUME NEW T \in SUBSET S PROVE \E f : Is(f, T)
  <2>1. IsFiniteSet(T) /\ Chooses(ch, T)
    BY <1>1, <1>3, FS_Subset DEF Chooses
  <2>2. StepsIn(G, T, V)
    <3> HIDE DEF V, G
    <3> QED BY <1>4 DEF StepsIn
  <2>3. PICK h \in [SUBSET T -> V] : IsFold(h, T, base, ch, G)
    <3> HIDE DEF V, base, ch, G
    <3> QED BY <1>2, <2>1, <2>2, FoldExists
  <2>4. ASSUME NEW s \in SUBSET T, s # {}
        PROVE  G[<<ch[s], h[s \ {ch[s]}]>>] = BudgetStep(LastByPriority(s), h[s \ {LastByPriority(s)}], budget)
    <3>1. ch[s] = LastByPriority(s) /\ ch[s] \in S /\ h[s \ {ch[s]}] \in V
      BY <2>1, <2>4 DEF Chooses
    <3> HIDE DEF V, ch, G
    <3> QED BY <1>4, <3>1
  <2>5. Is(h, T)
    <3> HIDE DEF V, ch, G
    <3> QED BY <2>3, <2>4 DEF IsFold
  <2> QED BY <2>5
<1>6. ASSUME NEW T \in SUBSET S PROVE Is(F[T], T)
  <2> HIDE DEF Is
  <2> QED BY <1>5
<1>7. \A T \in SUBSET S : CalculateBudget(T, budget) = F[T][T]
  BY DEF CalculateBudget, ForEachInOrder, MapThenFoldSet, LastByPriority, NothingProfiled
<1>8. ASSUME NEW T \in SUBSET S PROVE FoldsOver(F[T], T, base, ch, G, V)
  <2> DEFINE f == F[T]
  <2>1. Is(f, T)
    BY <1>6
  <2> HIDE DEF f, V, G
  <2>2. ASSUME NEW s \in SUBSET T, s # {}, f[s \ {ch[s]}] \in V
        PROVE  f[s] = G[<<ch[s], f[s \ {ch[s]}]>>]
    <3>1. ch[s] = LastByPriority(s) /\ ch[s] \in S
      BY <1>3, <2>2
    <3>2. f[s] = BudgetStep(LastByPriority(s), f[s \ {LastByPriority(s)}], budget)
      BY <2>1, <2>2
    <3> HIDE DEF ch
    <3> QED BY <1>4, <2>2, <3>1, <3>2
  <2>3. f[{}] = base
    BY <2>1
  <2> HIDE DEF ch, base
  <2> QED BY <2>2, <2>3 DEF FoldsOver, f
<1>9. /\ F[{}][{}] = base
      /\ \A T \in SUBSET S :
           /\ F[T][T] \in V
           /\ T # {} => F[T][T] = G[<<ch[T], F[T \ {ch[T]}][T \ {ch[T]}]>>]
  <2>1. Chooses(ch, S)
    BY <1>3 DEF Chooses
  <2> HIDE DEF V, base, ch, G, F
  <2>2. StepsIn(G, S, V)
    BY <1>4 DEF StepsIn
  <2>3. FoldsOverSubsets(F, S, base, ch, G, V)
    BY <1>8 DEF FoldsOverSubsets
  <2>4. Unfolds(F, S, base, ch, G, V)
    BY <1>1, <1>2, <2>1, <2>2, <2>3, FoldUnfolds
  <2> QED BY <2>4 DEF Unfolds
<1>10. ASSUME NEW T \in SUBSET S, T # {}
       PROVE  F[T][T] = BudgetStep(LastByPriority(T), F[T \ {LastByPriority(T)}][T \ {LastByPriority(T)}], budget)
  <2> DEFINE U == T \ {LastByPriority(T)}
  <2>1. ch[T] = LastByPriority(T) /\ ch[T] \in S /\ U \in SUBSET S
    BY <1>3, <1>10
  <2> HIDE DEF U, V, base, ch, G, F
  <2>2. F[U][U] \in V /\ F[T][T] = G[<<ch[T], F[U][U]>>]
    BY <1>9, <1>10, <2>1 DEF U
  <2>3. G[<<ch[T], F[U][U]>>] = BudgetStep(ch[T], F[U][U], budget)
    BY <1>4, <2>1, <2>2
  <2> QED BY <2>1, <2>2, <2>3 DEF U
<1> HIDE DEF F, V, ch, G
<1>11. \A T \in SUBSET S : T \ {LastByPriority(T)} \in SUBSET S
  OBVIOUS
<1>12. {} \in SUBSET S
  OBVIOUS
<1> QED BY <1>7, <1>9, <1>10, <1>11, <1>12 DEF V

-----------------------------------------------------------------------------
(* The two selections agree.                                               *)

(* The last of a set is the last of any part of it that holds it.            *)
LEMMA LastOfPart ==
  ASSUME NEW S, Rankable(S), NEW U \in SUBSET S
  PROVE  /\ LastByScore(S) \in U => LastByScore(U) = LastByScore(S)
         /\ LastByPriority(S) \in U => LastByPriority(U) = LastByPriority(S)
<1>1. ASSUME LastByScore(S) \in U PROVE LastByScore(U) = LastByScore(S)
  <2> DEFINE x == LastByScore(S)
             y == LastByScore(U)
  <2>1. Rankable(U) /\ x \in U /\ U # {}
    BY <1>1, RankableParts
  <2>2. x \in S /\ \A q \in S \ {x} : Precedes(q, x)
    BY <2>1, LastOfRanked
  <2>3. y \in U /\ \A q \in U \ {y} : Precedes(q, y)
    BY <2>1, LastOfRanked
  <2> HIDE DEF x, y
  <2>4. \A p \in S : ~ Precedes(p, p)
    BY ScoreOrders
  <2>5. \A p, q, s \in S : Precedes(p, q) /\ Precedes(q, s) => Precedes(p, s)
    BY ScoreOrders
  <2>6. x = y
    BY <2>1, <2>2, <2>3, <2>4, <2>5
  <2> QED BY <2>6 DEF x, y
<1>2. ASSUME LastByPriority(S) \in U PROVE LastByPriority(U) = LastByPriority(S)
  <2> DEFINE x == LastByPriority(S)
             y == LastByPriority(U)
  <2>1. Rankable(U) /\ x \in U /\ U # {}
    BY <1>2, RankableParts
  <2>2. x \in S /\ \A q \in S \ {x} : PrecedesByPriority(q, x)
    BY <2>1, LastOfRanked
  <2>3. y \in U /\ \A q \in U \ {y} : PrecedesByPriority(q, y)
    BY <2>1, LastOfRanked
  <2> HIDE DEF x, y
  <2>4. \A p \in S : ~ PrecedesByPriority(p, p)
    BY PriorityOrders
  <2>5. \A p, q, s \in S : PrecedesByPriority(p, q) /\ PrecedesByPriority(q, s)
                             => PrecedesByPriority(p, s)
    BY PriorityOrders
  <2>6. x = y
    BY <2>1, <2>2, <2>3, <2>4, <2>5
  <2> QED BY <2>6 DEF x, y
<1> QED BY <1>1, <1>2

AlwaysOn(S) == {p \in S : p.activation = "always_on"}

(* Among what is always on, the two rankings are one.                        *)
LEMMA RankingsAgree ==
  ASSUME NEW S, Rankable(S), S # {}, \A p \in S : PlacedByBoth(p), AlwaysOn(S) = S
  PROVE  LastByScore(S) = LastByPriority(S)
<1>1. \A p \in S : Score(p) = PriorityRank(p)
  <2> SUFFICES ASSUME NEW p \in S PROVE Score(p) = PriorityRank(p)
    OBVIOUS
  <2>1. p.activation = "always_on" /\ ~ p.restricted
    BY DEF AlwaysOn, PlacedByBoth, IsEligible
  <2> QED BY <2>1 DEF Score, PriorityRank
<1>2. \A p, q \in S : Precedes(p, q) <=> PrecedesByPriority(p, q)
  BY <1>1 DEF Precedes, PrecedesByPriority, OrderedBy
<1> DEFINE x == LastByScore(S)
           y == LastByPriority(S)
<1>3. /\ x \in S /\ \A q \in S \ {x} : Precedes(q, x)
      /\ y \in S /\ \A q \in S \ {y} : PrecedesByPriority(q, y)
  BY LastOfRanked
<1> HIDE DEF x, y
<1>4. /\ \A p \in S : ~ Precedes(p, p)
      /\ \A p, q, s \in S : Precedes(p, q) /\ Precedes(q, s) => Precedes(p, s)
  BY ScoreOrders
<1>5. x = y
  BY <1>2, <1>3, <1>4
<1> QED BY <1>5 DEF x, y

(* FIT selects what it would without the primitives on demand.               *)
FitIgnoresDemand(T, budget) ==
  LET fit == FitStage(T, budget)
      alone == FitStage(AlwaysOn(T), budget)
  IN  /\ fit.refused = alone.refused
      /\ ~ fit.refused => /\ fit.tier0 = alone.tier0
                          /\ fit.tokens = alone.tokens
                          /\ fit.tier1 = alone.tier1 \cup (T \ AlwaysOn(T))

LEMMA FitOfAlwaysOn ==
  ASSUME NEW S, Rankable(S), \A p \in S : PlacedByBoth(p), NEW budget
  PROVE  FitIgnoresDemand(S, budget)
<1> DEFINE P == {T \in SUBSET S : FitIgnoresDemand(T, budget)}
<1>1. {} \in P
  <2>1. AlwaysOn({}) = {}
    BY DEF AlwaysOn
  <2> QED BY <2>1, FitUnfolds DEF FitIgnoresDemand, NothingFitted
<1>2. ASSUME NEW T \in SUBSET S, T # {}, T \ {LastByScore(T)} \in P
      PROVE  T \in P
  <2> DEFINE x == LastByScore(T)
             U == T \ {x}
             v == FitStage(U, budget)
             a == FitStage(AlwaysOn(U), budget)
  <2>1. Rankable(T)
    BY RankableParts
  <2>2. x \in T /\ U \in SUBSET S
    BY <1>2, <2>1, LastOfRanked
  <2>3. FitStage(T, budget) = FitStep(x, v, budget)
    BY <1>2, FitUnfolds
  <2>4. AlwaysOn(T) \in SUBSET S /\ AlwaysOn(U) \in SUBSET S
    BY DEF AlwaysOn
  <2>5. v \in FitResults(S) /\ a \in FitResults(S)
    BY <2>2, <2>4, FitUnfolds
  <2>6. PlacedByBoth(x)
    BY <2>2
  <2>7. FitIgnoresDemand(U, budget)
    BY <1>2
  <2>8. CASE x.activation = "always_on"
    <3>1. x \in AlwaysOn(T) /\ AlwaysOn(T) \ {x} = AlwaysOn(U) /\ T \ AlwaysOn(T) = U \ AlwaysOn(U)
      BY <2>2, <2>8 DEF AlwaysOn
    <3>2. AlwaysOn(T) \in SUBSET T /\ AlwaysOn(T) # {}
      BY <3>1 DEF AlwaysOn
    <3>3. LastByScore(AlwaysOn(T)) = x
      BY <2>1, <3>1, <3>2, LastOfPart
    <3>4. FitStage(AlwaysOn(T), budget) = FitStep(x, a, budget)
      <4>1. FitStage(AlwaysOn(T), budget)
              = FitStep(LastByScore(AlwaysOn(T)),
                        FitStage(AlwaysOn(T) \ {LastByScore(AlwaysOn(T))}, budget), budget)
        <5> HIDE DEF x
        <5> QED BY <2>4, <3>2, FitUnfolds
      <4> HIDE DEF x, U
      <4> QED BY <3>1, <3>3, <4>1
    <3>5. FitIgnoresDemand(T, budget)
      <4>1. /\ v.refused = a.refused
            /\ ~ v.refused => /\ v.tier0 = a.tier0 /\ v.tokens = a.tokens
                              /\ v.tier1 = a.tier1 \cup (U \ AlwaysOn(U))
        BY <2>7 DEF FitIgnoresDemand
      <4> HIDE DEF x, U, v, a
      <4>2. CASE v.refused
        <5>1. FitStep(x, v, budget) = v /\ FitStep(x, a, budget) = a
          BY <4>1, <4>2 DEF FitStep
        <5> QED BY <2>3, <3>4, <4>1, <4>2, <5>1 DEF FitIgnoresDemand
      <4>3. CASE ~ v.refused
        <5>1. /\ v.tier0 = a.tier0 /\ v.tokens = a.tokens /\ ~ a.refused
              /\ v.tier1 = a.tier1 \cup (U \ AlwaysOn(U))
          BY <4>1, <4>3
        <5>2. /\ FitStep(x, v, budget).refused = FitStep(x, a, budget).refused
              /\ FitStep(x, v, budget).tier0 = FitStep(x, a, budget).tier0
              /\ FitStep(x, v, budget).tokens = FitStep(x, a, budget).tokens
          BY <2>5, <4>3, <5>1 DEF FitStep, FitResults
        <5>3. FitStep(x, v, budget).tier1
                = FitStep(x, a, budget).tier1 \cup (U \ AlwaysOn(U))
          BY <2>5, <4>3, <5>1 DEF FitStep, FitResults
        <5> QED BY <2>3, <3>1, <3>4, <5>2, <5>3 DEF FitIgnoresDemand
      <4> QED BY <4>2, <4>3
    <3> QED BY <3>5
  <2>9. CASE x.activation # "always_on"
    <3>1. AlwaysOn(T) = AlwaysOn(U) /\ T \ AlwaysOn(T) = (U \ AlwaysOn(U)) \cup {x}
      BY <2>2, <2>9 DEF AlwaysOn
    <3>2. ~ x.hard /\ ~ NeverInTier0(x)
      BY <2>6, <2>9 DEF PlacedByBoth
    <3>3. FitIgnoresDemand(T, budget)
      <4>1. /\ v.refused = a.refused
            /\ ~ v.refused => /\ v.tier0 = a.tier0 /\ v.tokens = a.tokens
                              /\ v.tier1 = a.tier1 \cup (U \ AlwaysOn(U))
        BY <2>7 DEF FitIgnoresDemand
      <4>2. a = FitStage(AlwaysOn(T), budget)
        BY <3>1
      <4> HIDE DEF x, U, v, a
      <4> QED BY <2>3, <2>5, <2>9, <3>1, <3>2, <4>1, <4>2
              DEF FitIgnoresDemand, FitStep, FitResults
    <3> QED BY <3>3
  <2> QED BY <2>8, <2>9
<1>3. ASSUME NEW T \in SUBSET S, T # {} PROVE \E x \in T : T \ {x} \in P => T \in P
  <2>1. LastByScore(T) \in T
    BY <1>3, RankableParts, LastOfRanked
  <2> HIDE DEF P
  <2> QED BY <1>2, <1>3, <2>1
<1>4. SUBSET S \subseteq P
  <2>1. IsFiniteSet(S)
    BY DEF Rankable
  <2> HIDE DEF P
  <2> QED BY <1>1, <1>3, <2>1, RemovalInduction
<1> QED BY <1>4
(* So does calculateBudget.                                                  *)
BudgetIgnoresDemand(T, budget) ==
  LET profile == CalculateBudget(T, budget)
      alone == CalculateBudget(AlwaysOn(T), budget)
  IN  /\ profile.refused = alone.refused
      /\ ~ profile.refused => /\ profile.tier0 = alone.tier0
                          /\ profile.tokens = alone.tokens
                              /\ profile.hard = alone.hard
                          /\ profile.demoted = alone.demoted \cup (T \ AlwaysOn(T))

LEMMA BudgetOfAlwaysOn ==
  ASSUME NEW S, Rankable(S), \A p \in S : PlacedByBoth(p), NEW budget
  PROVE  BudgetIgnoresDemand(S, budget)
<1> DEFINE P == {T \in SUBSET S : BudgetIgnoresDemand(T, budget)}
<1>1. {} \in P
  <2>1. AlwaysOn({}) = {}
    BY DEF AlwaysOn
  <2> QED BY <2>1, BudgetUnfolds DEF BudgetIgnoresDemand, NothingProfiled
<1>2. ASSUME NEW T \in SUBSET S, T # {}, T \ {LastByPriority(T)} \in P
      PROVE  T \in P
  <2> DEFINE x == LastByPriority(T)
             U == T \ {x}
             v == CalculateBudget(U, budget)
             a == CalculateBudget(AlwaysOn(U), budget)
  <2>1. Rankable(T)
    BY RankableParts
  <2>2. x \in T /\ U \in SUBSET S
    BY <1>2, <2>1, LastOfRanked
  <2>3. CalculateBudget(T, budget) = BudgetStep(x, v, budget)
    BY <1>2, BudgetUnfolds
  <2>4. AlwaysOn(T) \in SUBSET S /\ AlwaysOn(U) \in SUBSET S
    BY DEF AlwaysOn
  <2>5. v \in ProfileResults(S) /\ a \in ProfileResults(S)
    BY <2>2, <2>4, BudgetUnfolds
  <2>6. PlacedByBoth(x)
    BY <2>2
  <2>7. BudgetIgnoresDemand(U, budget)
    BY <1>2
  <2>8. CASE x.activation = "always_on"
    <3>1. x \in AlwaysOn(T) /\ AlwaysOn(T) \ {x} = AlwaysOn(U) /\ T \ AlwaysOn(T) = U \ AlwaysOn(U)
      BY <2>2, <2>8 DEF AlwaysOn
    <3>2. AlwaysOn(T) \in SUBSET T /\ AlwaysOn(T) # {}
      BY <3>1 DEF AlwaysOn
    <3>3. LastByPriority(AlwaysOn(T)) = x
      BY <2>1, <3>1, <3>2, LastOfPart
    <3>4. CalculateBudget(AlwaysOn(T), budget) = BudgetStep(x, a, budget)
      <4>1. CalculateBudget(AlwaysOn(T), budget)
              = BudgetStep(LastByPriority(AlwaysOn(T)),
                        CalculateBudget(AlwaysOn(T) \ {LastByPriority(AlwaysOn(T))}, budget), budget)
        <5> HIDE DEF x
        <5> QED BY <2>4, <3>2, BudgetUnfolds
      <4> HIDE DEF x, U
      <4> QED BY <3>1, <3>3, <4>1
    <3>5. BudgetIgnoresDemand(T, budget)
      <4>1. /\ v.refused = a.refused
            /\ ~ v.refused => /\ v.tier0 = a.tier0 /\ v.tokens = a.tokens /\ v.hard = a.hard
                              /\ v.demoted = a.demoted \cup (U \ AlwaysOn(U))
        BY <2>7 DEF BudgetIgnoresDemand
      <4> HIDE DEF x, U, v, a
      <4>2. CASE v.refused
        <5>1. BudgetStep(x, v, budget) = v /\ BudgetStep(x, a, budget) = a
          BY <4>1, <4>2 DEF BudgetStep
        <5> QED BY <2>3, <3>4, <4>1, <4>2, <5>1 DEF BudgetIgnoresDemand
      <4>3. CASE ~ v.refused
        <5>1. /\ v.tier0 = a.tier0 /\ v.tokens = a.tokens /\ v.hard = a.hard /\ ~ a.refused
              /\ v.demoted = a.demoted \cup (U \ AlwaysOn(U))
          BY <4>1, <4>3
        <5>2. /\ BudgetStep(x, v, budget).refused = BudgetStep(x, a, budget).refused
              /\ BudgetStep(x, v, budget).tier0 = BudgetStep(x, a, budget).tier0
              /\ BudgetStep(x, v, budget).tokens = BudgetStep(x, a, budget).tokens
              /\ BudgetStep(x, v, budget).hard = BudgetStep(x, a, budget).hard
          BY <2>5, <4>3, <5>1 DEF BudgetStep, ProfileResults
        <5>3. BudgetStep(x, v, budget).demoted
                = BudgetStep(x, a, budget).demoted \cup (U \ AlwaysOn(U))
          BY <2>5, <4>3, <5>1 DEF BudgetStep, ProfileResults
        <5> QED BY <2>3, <3>1, <3>4, <5>2, <5>3 DEF BudgetIgnoresDemand
      <4> QED BY <4>2, <4>3
    <3> QED BY <3>5
  <2>9. CASE x.activation # "always_on"
    <3>1. AlwaysOn(T) = AlwaysOn(U) /\ T \ AlwaysOn(T) = (U \ AlwaysOn(U)) \cup {x}
      BY <2>2, <2>9 DEF AlwaysOn
    <3>2. ~ x.restricted /\ x.activation # "restricted"
      BY <2>6 DEF PlacedByBoth, IsEligible
    <3>3. BudgetIgnoresDemand(T, budget)
      <4>1. /\ v.refused = a.refused
            /\ ~ v.refused => /\ v.tier0 = a.tier0 /\ v.tokens = a.tokens /\ v.hard = a.hard
                              /\ v.demoted = a.demoted \cup (U \ AlwaysOn(U))
        BY <2>7 DEF BudgetIgnoresDemand
      <4>2. a = CalculateBudget(AlwaysOn(T), budget)
        BY <3>1
      <4> HIDE DEF x, U, v, a
      <4> QED BY <2>3, <2>5, <2>9, <3>1, <3>2, <4>1, <4>2
              DEF BudgetIgnoresDemand, BudgetStep, ProfileResults
    <3> QED BY <3>3
  <2> QED BY <2>8, <2>9
<1>3. ASSUME NEW T \in SUBSET S, T # {} PROVE \E x \in T : T \ {x} \in P => T \in P
  <2>1. LastByPriority(T) \in T
    BY <1>3, RankableParts, LastOfRanked
  <2> HIDE DEF P
  <2> QED BY <1>2, <1>3, <2>1
<1>4. SUBSET S \subseteq P
  <2>1. IsFiniteSet(S)
    BY DEF Rankable
  <2> HIDE DEF P
  <2> QED BY <1>1, <1>3, <2>1, RemovalInduction
<1> QED BY <1>4

(* What is always on is placed alike: a hard directive that fits has, summed *)
(* with the hard ones before it, at most what the tokens used come to.       *)
PlacedAlike(U, budget) ==
  LET fit == FitStage(U, budget)
      profile == CalculateBudget(U, budget)
  IN  /\ fit.refused = profile.refused
      /\ ~ fit.refused => /\ fit.tier0 = profile.tier0 /\ fit.tier1 = profile.demoted
                          /\ fit.tokens = profile.tokens /\ profile.hard <= profile.tokens

LEMMA StepsAgree ==
  ASSUME NEW S, NEW p \in S, p \in CatalogPrimitive, PlacedByBoth(p), p.activation = "always_on",
         NEW budget \in Int, NEW v \in FitResults(S), NEW w \in ProfileResults(S),
         ~ v.refused, ~ w.refused, v.tier0 = w.tier0, v.tier1 = w.demoted,
         v.tokens = w.tokens, w.hard <= w.tokens
  PROVE  LET fit == FitStep(p, v, budget)
             profile == BudgetStep(p, w, budget)
         IN  /\ fit.refused = profile.refused
             /\ ~ fit.refused => /\ fit.tier0 = profile.tier0 /\ fit.tier1 = profile.demoted
                                 /\ fit.tokens = profile.tokens /\ profile.hard <= profile.tokens
<1> DEFINE t == w.tokens
           h == w.hard
           c == p.cost
           k == IF p.hard THEN c ELSE 0
<1>1. t \in Nat /\ h \in Nat /\ c \in Nat /\ k \in Nat /\ h <= t
  BY DEF ProfileResults, CatalogPrimitive
<1>2. ~ p.restricted /\ ~ NeverInTier0(p)
  BY DEF PlacedByBoth, IsEligible
<1>3. k <= c
  BY <1>1
<1> DEFINE hardUsage == h + k
           used == t + c
<1>4. hardUsage <= used
  <2> HIDE DEF t, h, c, k
  <2> QED BY <1>1, <1>3
<1>5. hardUsage \in Nat /\ used \in Nat
  <2> HIDE DEF t, h, c, k
  <2> QED BY <1>1
<1>6. hardUsage > budget => ~ used <= budget
  <2> HIDE DEF hardUsage, used
  <2> QED BY <1>4, <1>5
<1>7. v.tokens + p.cost = used
  OBVIOUS
<1>8. CASE used <= budget
  <2>1. FitStep(p, v, budget) = [v EXCEPT !.tier0 = @ \cup {p}, !.tokens = used]
    BY <1>2, <1>7, <1>8 DEF FitStep
  <2>2. BudgetStep(p, w, budget)
          = [w EXCEPT !.tier0 = @ \cup {p}, !.tokens = used, !.hard = hardUsage]
    BY <1>2, <1>6, <1>8 DEF BudgetStep
  <2> HIDE DEF hardUsage, used
  <2> QED BY <1>4, <2>1, <2>2 DEF FitResults, ProfileResults
<1>9. CASE ~ used <= budget /\ p.hard
  <2>1. FitStep(p, v, budget) = [v EXCEPT !.refused = TRUE]
    BY <1>2, <1>7, <1>9 DEF FitStep
  <2>2. BudgetStep(p, w, budget) = [w EXCEPT !.refused = TRUE]
    BY <1>2, <1>9 DEF BudgetStep
  <2> QED BY <2>1, <2>2 DEF FitResults, ProfileResults
<1>10. CASE ~ used <= budget /\ ~ p.hard
  <2>1. FitStep(p, v, budget) = [v EXCEPT !.tier1 = @ \cup {p}]
    BY <1>2, <1>7, <1>10 DEF FitStep
  <2>2. BudgetStep(p, w, budget) = [w EXCEPT !.demoted = @ \cup {p}]
    BY <1>2, <1>10 DEF BudgetStep
  <2> HIDE DEF hardUsage, used
  <2> QED BY <2>1, <2>2 DEF FitResults, ProfileResults
<1> QED BY <1>8, <1>9, <1>10

LEMMA AlwaysOnPlacedAlike ==
  ASSUME NEW S, Rankable(S), \A p \in S : PlacedByBoth(p), AlwaysOn(S) = S, NEW budget \in Int
  PROVE  PlacedAlike(S, budget)
<1> DEFINE P == {T \in SUBSET S : PlacedAlike(T, budget)}
<1>1. {} \in P
  <2>1. FitStage({}, budget) = NothingFitted /\ CalculateBudget({}, budget) = NothingProfiled
    BY FitUnfolds, BudgetUnfolds
  <2>2. /\ NothingFitted.refused = NothingProfiled.refused
        /\ NothingFitted.tier0 = NothingProfiled.tier0
        /\ NothingFitted.tier1 = NothingProfiled.demoted
        /\ NothingFitted.tokens = NothingProfiled.tokens
        /\ NothingProfiled.hard = 0 /\ NothingProfiled.tokens = 0
    BY DEF NothingFitted, NothingProfiled
  <2>3. PlacedAlike({}, budget)
    BY <2>1, <2>2 DEF PlacedAlike
  <2> QED BY <2>3
<1>2. ASSUME NEW T \in SUBSET S, T # {}, T \ {LastByScore(T)} \in P
      PROVE  T \in P
  <2> DEFINE x == LastByScore(T)
             U == T \ {x}
             v == FitStage(U, budget)
             w == CalculateBudget(U, budget)
  <2>1. Rankable(T) /\ AlwaysOn(T) = T
    BY RankableParts DEF AlwaysOn
  <2>2. LastByPriority(T) = x
    BY <1>2, <2>1, RankingsAgree
  <2>3. x \in T /\ U \in SUBSET S
    BY <1>2, <2>1, LastOfRanked
  <2>4. FitStage(T, budget) = FitStep(x, v, budget)
    BY <1>2, FitUnfolds
  <2>5. CalculateBudget(T, budget) = BudgetStep(x, w, budget)
    BY <1>2, <2>2, BudgetUnfolds
  <2>6. v \in FitResults(S) /\ w \in ProfileResults(S)
    BY <2>3, FitUnfolds, BudgetUnfolds
  <2>7. PlacedByBoth(x) /\ x \in CatalogPrimitive /\ x.activation = "always_on"
    BY <2>1, <2>3 DEF AlwaysOn, Rankable
  <2>8. /\ v.refused = w.refused
        /\ ~ v.refused => /\ v.tier0 = w.tier0 /\ v.tier1 = w.demoted
                          /\ v.tokens = w.tokens /\ w.hard <= w.tokens
    BY <1>2 DEF PlacedAlike
  <2> HIDE DEF x, U, v, w
  <2>9. CASE v.refused
    <3>1. FitStep(x, v, budget) = v /\ BudgetStep(x, w, budget) = w
      BY <2>8, <2>9 DEF FitStep, BudgetStep
    <3> QED BY <2>4, <2>5, <2>8, <2>9, <3>1 DEF PlacedAlike
  <2>10. CASE ~ v.refused
    <3>1. x \in S
      BY <2>3
    <3> QED BY <2>4, <2>5, <2>6, <2>7, <2>8, <2>10, <3>1, StepsAgree DEF PlacedAlike
  <2> QED BY <2>9, <2>10
<1>3. ASSUME NEW T \in SUBSET S, T # {} PROVE \E x \in T : T \ {x} \in P => T \in P
  <2>1. LastByScore(T) \in T
    BY <1>3, RankableParts, LastOfRanked
  <2> HIDE DEF P
  <2> QED BY <1>2, <1>3, <2>1
<1>4. SUBSET S \subseteq P
  <2>1. IsFiniteSet(S)
    BY DEF Rankable
  <2> HIDE DEF P
  <2> QED BY <1>1, <1>3, <2>1, RemovalInduction
<1> QED BY <1>4

(* BudgetFitter and calculateBudget refuse together and otherwise select the *)
(* same preamble, for any primitives with distinct ids and any budget.       *)
THEOREM TwoSelectionsAgree ==
  ASSUME NEW S, Rankable(S), \A p \in S : PlacedByBoth(p), NEW budget \in Int
  PROVE  SelectionsAgree(S, budget)
<1> DEFINE A == AlwaysOn(S)
<1>1. Rankable(A) /\ AlwaysOn(A) = A /\ A \subseteq S
  <2>1. A \in SUBSET S /\ AlwaysOn(A) = A
    BY DEF AlwaysOn
  <2> QED BY <2>1, RankableParts
<1>2. PlacedAlike(A, budget)
  <2> HIDE DEF A
  <2> QED BY <1>1, AlwaysOnPlacedAlike
<1>3. FitIgnoresDemand(S, budget) /\ BudgetIgnoresDemand(S, budget)
  BY FitOfAlwaysOn, BudgetOfAlwaysOn
<1> QED BY <1>2, <1>3 DEF PlacedAlike, FitIgnoresDemand, BudgetIgnoresDemand, SelectionsAgree
=============================================================================
