---------------------------- MODULE Orders_proofs ----------------------------
(***************************************************************************)
(* What the other proofs need of orders: least naturals, functions defined *)
(* by recursion on the naturals, finite sets put in order, and folds over  *)
(* finite sets.  Induction is a statement about a set of naturals, and a   *)
(* strict order is a set of pairs.                                         *)
(***************************************************************************)
EXTENDS Integers, Sequences, Functions, FiniteSetTheorems, TLAPS

-----------------------------------------------------------------------------
(* The naturals.                                                           *)

LEMMA LeastNatural ==
  ASSUME NEW S, S \subseteq Nat, S # {}
  PROVE  \E m \in S : \A k \in S : m <= k
<1>1. IsWellFoundedOn(OpToRel(<, Nat), Nat)
  BY NatLessThanWellFounded
<1>2. PICK m \in S : \A k \in S : ~ (<<k, m>> \in OpToRel(<, Nat))
  BY <1>1, WFMin
<1>3. ASSUME NEW k \in S PROVE m <= k
  <2>1. k \in Nat /\ m \in Nat /\ ~ (k < m)
    BY <1>2 DEF OpToRel
  <2> QED BY <2>1
<1> QED BY <1>3

(* Induction: T is the set of the naturals that have the property.           *)
LEMMA Induction ==
  ASSUME NEW T, 0 \in T, \A n \in T : n + 1 \in T
  PROVE  Nat \subseteq T
<1> DEFINE M == Nat \ T
<1> SUFFICES ASSUME M # {} PROVE FALSE
  OBVIOUS
<1>1. PICK m \in M : \A k \in M : m <= k
  <2> HIDE DEF M
  <2>1. M \subseteq Nat BY DEF M
  <2> QED BY <2>1, LeastNatural
<1>2. m \in Nat /\ m # 0
  BY <1>1
<1>3. m - 1 \in Nat /\ m - 1 \notin M
  BY <1>1, <1>2
<1>4. (m - 1) + 1 \in T
  BY <1>3
<1> QED BY <1>2, <1>4

(* There is a function on the naturals that starts at base and goes on by G. *)
LEMMA RecursionOnNat ==
  ASSUME NEW V, NEW base \in V, NEW G \in [V -> V]
  PROVE  \E h \in [Nat -> V] : h = [n \in Nat |-> IF n = 0 THEN base ELSE G[h[n - 1]]]
<1> DEFINE Upto(n) == {f \in [0 .. n -> V] :
                          f[0] = base /\ \A k \in 1 .. n : f[k] = G[f[k - 1]]}
           Exists == {n \in Nat : Upto(n) # {}}
           h == [n \in Nat |-> (CHOOSE f \in Upto(n) : TRUE)[n]]
<1>1. Nat \subseteq Exists
  <2>1. [k \in 0 .. 0 |-> base] \in Upto(0)
    OBVIOUS
  <2>2. ASSUME NEW n \in Exists PROVE n + 1 \in Exists
    <3>1. PICK f \in Upto(n) : TRUE
      OBVIOUS
    <3>2. [k \in 0 .. n + 1 |-> IF k = n + 1 THEN G[f[n]] ELSE f[k]] \in Upto(n + 1)
      <4> DEFINE g == [k \in 0 .. n + 1 |-> IF k = n + 1 THEN G[f[n]] ELSE f[k]]
      <4>1. n \in Nat /\ f \in [0 .. n -> V] /\ f[0] = base
        BY <3>1
      <4>2. g \in [0 .. n + 1 -> V] /\ g[0] = base
        BY <4>1
      <4>3. ASSUME NEW k \in 1 .. n + 1 PROVE g[k] = G[g[k - 1]]
        BY <3>1, <4>1
      <4> QED BY <4>2, <4>3
    <3> QED BY <3>2
  <2>3. 0 \in Exists
    BY <2>1
  <2> HIDE DEF Exists
  <2> QED BY <2>2, <2>3, Induction
<1>2. ASSUME NEW m \in Nat, NEW n \in Nat, m <= n, NEW f \in Upto(m), NEW g \in Upto(n)
      PROVE  f[m] = g[m]
  <2> DEFINE Equal == {k \in Nat : k <= m => f[k] = g[k]}
  <2>1. 0 \in Equal
    OBVIOUS
  <2>2. ASSUME NEW k \in Equal PROVE k + 1 \in Equal
    <3> SUFFICES ASSUME k + 1 <= m PROVE f[k + 1] = g[k + 1]
      OBVIOUS
    <3>1. k \in Nat /\ k + 1 \in 1 .. m /\ k + 1 \in 1 .. n /\ (k + 1) - 1 = k
      BY <1>2
    <3>2. f[k] = g[k]
      BY <3>1
    <3> QED BY <3>1, <3>2
  <2>3. Nat \subseteq Equal
    <3> HIDE DEF Equal
    <3> QED BY <2>1, <2>2, Induction
  <2> QED BY <2>3
<1>3. ASSUME NEW n \in Nat PROVE \E f \in Upto(n) : h[n] = f[n]
  <2>1. Upto(n) # {}
    BY <1>1
  <2> QED BY <2>1
<1>4. h \in [Nat -> V]
  <2>1. ASSUME NEW n \in Nat PROVE h[n] \in V
    BY <1>3
  <2> QED BY <2>1
<1>5. h[0] = base
  BY <1>3
<1>6. ASSUME NEW n \in Nat \ {0} PROVE h[n] = G[h[n - 1]]
  <2>1. n - 1 \in Nat /\ n - 1 <= n /\ n \in 1 .. n
    OBVIOUS
  <2>2. PICK f \in Upto(n) : h[n] = f[n]
    BY <1>3
  <2>3. PICK g \in Upto(n - 1) : h[n - 1] = g[n - 1]
    BY <1>3, <2>1
  <2>4. g[n - 1] = f[n - 1]
    BY <1>2, <2>1
  <2> QED BY <2>1, <2>2, <2>3, <2>4
<1> HIDE DEF h
<1>7. h = [n \in Nat |-> IF n = 0 THEN base ELSE G[h[n - 1]]]
  BY <1>4, <1>5, <1>6
<1> QED BY <1>4, <1>7

-----------------------------------------------------------------------------
(* Finite sets.                                                            *)

(* Induction: P is the set of the subsets of S that have the property.       *)
LEMMA FiniteInduction ==
  ASSUME NEW S, IsFiniteSet(S), NEW P, {} \in P,
         \A s \in SUBSET S : \A x \in S \ s : s \in P => s \cup {x} \in P
  PROVE  SUBSET S \subseteq P
<1> DEFINE T == {n \in Nat : \A s \in SUBSET S : Cardinality(s) = n => s \in P}
<1>1. 0 \in T
  <2>1. \A s \in SUBSET S : IsFiniteSet(s)
    BY FS_Subset
  <2> QED BY <2>1, FS_EmptySet
<1>2. ASSUME NEW n \in T PROVE n + 1 \in T
  <2> SUFFICES ASSUME NEW s \in SUBSET S, Cardinality(s) = n + 1
               PROVE  s \in P
    OBVIOUS
  <2>1. IsFiniteSet(s) /\ n \in Nat
    BY FS_Subset
  <2>2. s # {}
    <3>1. Cardinality({}) = 0
      BY FS_EmptySet
    <3> QED BY <2>1, <3>1
  <2>3. PICK x \in s : TRUE
    BY <2>2
  <2>4. Cardinality(s \ {x}) = n
    <3>1. Cardinality(s \ {x}) = Cardinality(s) - 1
      BY <2>1, <2>3, FS_RemoveElement
    <3> HIDE DEF T
    <3> QED BY <2>1, <3>1
  <2>5. s \ {x} \in P
    BY <2>4
  <2>6. (s \ {x}) \cup {x} \in P
    BY <2>3, <2>5
  <2>7. (s \ {x}) \cup {x} = s
    BY <2>3
  <2> QED BY <2>6, <2>7
<1>3. Nat \subseteq T
  <2> HIDE DEF T
  <2> QED BY <1>1, <1>2, Induction
<1> SUFFICES ASSUME NEW s \in SUBSET S PROVE s \in P
  OBVIOUS
<1>4. Cardinality(s) \in Nat
  BY FS_Subset, FS_CardinalityType
<1> QED BY <1>3, <1>4

(* A sequence without repetition counts its members.                         *)
LEMMA CardinalityOfSeq ==
  ASSUME NEW S, NEW s \in Seq(S), IsInjective(s)
  PROVE  /\ IsFiniteSet({s[k] : k \in DOMAIN s})
         /\ Cardinality({s[k] : k \in DOMAIN s}) = Len(s)
<1> DEFINE T == {s[k] : k \in DOMAIN s}
<1>1. s \in Bijection(1 .. Len(s), T)
  BY DEF Bijection, Injection, Surjection, IsInjective
<1>2. IsFiniteSet(1 .. Len(s)) /\ Cardinality(1 .. Len(s)) = Len(s)
  <2>1. Len(s) \in Nat
    OBVIOUS
  <2> HIDE DEF T
  <2> QED BY <2>1, FS_Interval
<1>3. ExistsBijection(1 .. Len(s), T)
  BY <1>1 DEF ExistsBijection
<1> QED BY <1>2, <1>3, FS_Bijection

StrictTotal(R, S) ==
  /\ \A x \in S : <<x, x>> \notin R
  /\ \A x, y \in S : x # y => <<x, y>> \in R \/ <<y, x>> \in R
  /\ \A x, y, z \in S : <<x, y>> \in R /\ <<y, z>> \in R => <<x, z>> \in R

(* A finite set can be put in any order: an element stands where the number  *)
(* of those before it says.                                                  *)
LEMMA SortingExists ==
  ASSUME NEW S, IsFiniteSet(S), NEW R, StrictTotal(R, S)
  PROVE  \E s \in [1 .. Cardinality(S) -> S] :
           \A a, b \in 1 .. Cardinality(S) : a < b => <<s[a], s[b]>> \in R
<1> DEFINE n == Cardinality(S)
           Before(x) == {y \in S : <<y, x>> \in R}
           place == [x \in S |-> Cardinality(Before(x)) + 1]
<1>1. n \in Nat
  BY FS_CardinalityType
<1>2. ASSUME NEW x \in S
      PROVE  /\ Before(x) \in SUBSET S /\ IsFiniteSet(Before(x))
             /\ Cardinality(Before(x)) \in Nat
             /\ Cardinality(Before(x)) < n
  <2>1. Before(x) \in SUBSET S /\ x \notin Before(x)
    BY DEF StrictTotal
  <2>2. /\ IsFiniteSet(Before(x)) /\ Cardinality(Before(x)) <= n
        /\ n = Cardinality(Before(x)) => S = Before(x)
    <3> HIDE DEF Before
    <3> QED BY <2>1, FS_Subset
  <2>3. Cardinality(Before(x)) \in Nat
    BY <2>2, FS_CardinalityType
  <2> QED BY <1>1, <2>1, <2>2, <2>3
<1>3. place \in [S -> 1 .. n]
  <2>1. ASSUME NEW x \in S PROVE Cardinality(Before(x)) + 1 \in 1 .. n
    <3> HIDE DEF Before, n
    <3> QED BY <1>1, <1>2
  <2> QED BY <2>1
<1>4. ASSUME NEW x \in S, NEW y \in S, <<x, y>> \in R
      PROVE  place[x] < place[y]
  <2>1. /\ Before(x) \in SUBSET Before(y)
        /\ x \in Before(y) /\ x \notin Before(x)
    BY <1>4 DEF StrictTotal
  <2>2. Cardinality(Before(x)) < Cardinality(Before(y))
    <3> HIDE DEF Before
    <3>1. /\ IsFiniteSet(Before(y))
          /\ Cardinality(Before(x)) \in Nat /\ Cardinality(Before(y)) \in Nat
      BY <1>2
    <3>2. /\ Cardinality(Before(x)) <= Cardinality(Before(y))
          /\ Cardinality(Before(y)) = Cardinality(Before(x)) => Before(y) = Before(x)
      BY <2>1, <3>1, FS_Subset
    <3> QED BY <2>1, <3>1, <3>2
  <2>3. Cardinality(Before(x)) \in Nat /\ Cardinality(Before(y)) \in Nat
    BY <1>2
  <2> HIDE DEF Before
  <2> QED BY <2>2, <2>3
<1> HIDE DEF place
<1>5. place \in Injection(S, 1 .. n)
  <2>1. \A x \in S : place[x] \in Int
    BY <1>1, <1>3
  <2>2. ASSUME NEW x \in S, NEW y \in S, place[x] = place[y] PROVE x = y
    <3>1. ~ <<x, y>> \in R /\ ~ <<y, x>> \in R
      BY <1>4, <2>1, <2>2
    <3> QED BY <3>1 DEF StrictTotal
  <2> QED BY <1>3, <2>2 DEF Injection, IsInjective
<1>6. place \in Surjection(S, 1 .. n)
  <2>1. IsFiniteSet(1 .. n) /\ Cardinality(1 .. n) = n
    BY <1>1, FS_Interval
  <2> QED BY <1>5, <2>1, FS_Injection
<1>7. \A k \in 1 .. n : \E x \in S : place[x] = k
  BY <1>6 DEF Surjection
<1> DEFINE s == [k \in 1 .. n |-> CHOOSE x \in S : place[x] = k]
<1>8. \A k \in 1 .. n : s[k] \in S /\ place[s[k]] = k
  BY <1>7
<1>9. ASSUME NEW a \in 1 .. n, NEW b \in 1 .. n, a < b PROVE <<s[a], s[b]>> \in R
  <2> HIDE DEF s
  <2>1. /\ s[a] \in S /\ s[b] \in S /\ place[s[a]] = a /\ place[s[b]] = b
    BY <1>8
  <2>2. a \in Int /\ b \in Int /\ s[a] # s[b]
    BY <1>1, <1>9, <2>1
  <2>3. ~ <<s[b], s[a]>> \in R
    BY <1>4, <1>9, <2>1, <2>2
  <2> QED BY <2>1, <2>2, <2>3 DEF StrictTotal
<1> QED
  <2>1. s \in [1 .. n -> S]
    BY <1>8
  <2> HIDE DEF s
  <2> QED BY <1>9, <2>1

(* Put in order, a set is a sequence of its elements, each of them once.     *)
LEMMA SortedSequence ==
  ASSUME NEW S, IsFiniteSet(S), NEW R, StrictTotal(R, S),
         NEW s \in [1 .. Cardinality(S) -> S],
         \A a, b \in 1 .. Cardinality(S) : a < b => <<s[a], s[b]>> \in R
  PROVE  /\ s \in Seq(S) /\ Len(s) = Cardinality(S) /\ IsInjective(s)
         /\ \A x \in S : \E k \in 1 .. Len(s) : s[k] = x
         /\ \A a, b \in 1 .. Len(s) : <<s[a], s[b]>> \in R => a < b
<1> DEFINE n == Cardinality(S)
<1>1. n \in Nat
  BY FS_CardinalityType
<1>2. s \in Seq(S) /\ Len(s) = n
  BY <1>1
<1>3. ASSUME NEW a \in 1 .. n, NEW b \in 1 .. n, ~ (a < b)
      PROVE  ~ <<s[a], s[b]>> \in R
  <2>1. a = b \/ b < a
    BY <1>1, <1>3
  <2>2. s[a] \in S /\ s[b] \in S
    OBVIOUS
  <2>3. a = b \/ <<s[b], s[a]>> \in R
    BY <2>1
  <2> QED BY <2>2, <2>3 DEF StrictTotal
<1>4. IsInjective(s)
  <2> SUFFICES ASSUME NEW a \in 1 .. n, NEW b \in 1 .. n, s[a] = s[b]
               PROVE  a = b
    BY DEF IsInjective
  <2>1. ~ (a < b) /\ ~ (b < a)
    BY DEF StrictTotal
  <2> QED BY <1>1, <2>1
<1>5. s \in Injection(1 .. n, S)
  BY <1>4 DEF Injection
<1>6. s \in Surjection(1 .. n, S)
  <2>1. IsFiniteSet(1 .. n) /\ Cardinality(1 .. n) = n
    BY <1>1, FS_Interval
  <2> QED BY <1>5, <2>1, FS_Injection
<1> QED BY <1>2, <1>3, <1>4, <1>6 DEF Surjection

(* A finite set that is not empty has a last element, whatever the order.    *)
LEMMA LastExists ==
  ASSUME NEW S, IsFiniteSet(S), S # {}, NEW R, StrictTotal(R, S)
  PROVE  \E m \in S : \A x \in S \ {m} : <<x, m>> \in R
<1> DEFINE n == Cardinality(S)
<1>1. n \in Nat \ {0}
  BY FS_CardinalityType, FS_EmptySet
<1>2. PICK s \in [1 .. n -> S] : \A a, b \in 1 .. n : a < b => <<s[a], s[b]>> \in R
  BY SortingExists
<1>3. \A x \in S : \E k \in 1 .. n : s[k] = x
  <2>1. Len(s) = n /\ \A x \in S : \E k \in 1 .. Len(s) : s[k] = x
    <3> HIDE DEF n
    <3>1. \A a, b \in 1 .. Cardinality(S) : a < b => <<s[a], s[b]>> \in R
      BY <1>2 DEF n
    <3>2. s \in [1 .. Cardinality(S) -> S]
      BY DEF n
    <3>3. Len(s) = Cardinality(S) /\ \A x \in S : \E k \in 1 .. Len(s) : s[k] = x
      BY <3>1, <3>2, SortedSequence
    <3> QED BY <3>3 DEF n
  <2> QED BY <2>1
<1>4. ASSUME NEW x \in S \ {s[n]} PROVE <<x, s[n]>> \in R
  <2>1. PICK k \in 1 .. n : s[k] = x
    BY <1>3
  <2>2. k < n
    BY <1>1, <2>1
  <2> QED BY <1>1, <1>2, <2>1, <2>2
<1> QED BY <1>1, <1>4

-----------------------------------------------------------------------------
(* Folds: ch takes an element from a set, G makes a step of it and of what   *)
(* the rest of the set gave.                                                 *)

Chooses(ch, S) == \A s \in SUBSET S : s # {} => ch[s] \in s

StepsIn(G, S, V) == \A x \in S : \A v \in V : G[<<x, v>>] \in V

(* The recursion in MapThenFoldSet.                                          *)
IsFold(h, S, base, ch, G) ==
  h = [s \in SUBSET S |-> IF s = {} THEN base ELSE G[<<ch[s], h[s \ {ch[s]}]>>]]

(* The function that MapThenFoldSet chooses exists.                          *)
LEMMA FoldExists ==
  ASSUME NEW S, IsFiniteSet(S), NEW V, NEW base \in V,
         NEW ch, Chooses(ch, S), NEW G, StepsIn(G, S, V)
  PROVE  \E h \in [SUBSET S -> V] : IsFold(h, S, base, ch, G)
<1> USE DEF Chooses, StepsIn, IsFold
<1> DEFINE Step(h) ==
             [s \in SUBSET S |-> IF s = {} THEN base ELSE G[<<ch[s], h[s \ {ch[s]}]>>]]
           W == [SUBSET S -> V]
           first == [s \in SUBSET S |-> base]
           next == [h \in W |-> Step(h)]
<1>1. first \in W
  OBVIOUS
<1>2. next \in [W -> W]
  <2> SUFFICES ASSUME NEW h \in W PROVE Step(h) \in W
    OBVIOUS
  <2>1. ASSUME NEW s \in SUBSET S, s # {} PROVE G[<<ch[s], h[s \ {ch[s]}]>>] \in V
    <3>1. ch[s] \in S /\ h[s \ {ch[s]}] \in V
      BY <2>1
    <3> QED BY <3>1
  <2> QED BY <2>1
<1>3. PICK H \in [Nat -> W] : H = [n \in Nat |-> IF n = 0 THEN first ELSE next[H[n - 1]]]
  <2> HIDE DEF W, first, next
  <2> QED BY <1>1, <1>2, RecursionOnNat
<1> DEFINE fold == [s \in SUBSET S |-> H[Cardinality(s)][s]]
<1>4. ASSUME NEW s \in SUBSET S
      PROVE  /\ IsFiniteSet(s) /\ Cardinality(s) \in Nat
             /\ fold[s] \in V
  BY FS_Subset, FS_CardinalityType
<1>5. fold \in W
  <2>1. \A s \in SUBSET S : fold[s] \in V
    BY <1>4
  <2> QED BY <2>1
<1>6. ASSUME NEW s \in SUBSET S
      PROVE  fold[s] = IF s = {} THEN base ELSE G[<<ch[s], fold[s \ {ch[s]}]>>]
  <2>1. CASE s = {}
    <3>1. Cardinality(s) = 0
      BY <2>1, FS_EmptySet
    <3> QED BY <1>3, <2>1, <3>1
  <2>2. CASE s # {}
    <3> DEFINE n == Cardinality(s)
               t == s \ {ch[s]}
    <3>1. ch[s] \in s /\ t \in SUBSET S
      BY <2>2
    <3>2. n \in Nat /\ Cardinality(t) = n - 1 /\ Cardinality(t) \in Nat
      BY <1>4, <3>1, FS_RemoveElement
    <3>3. H[n] = next[H[n - 1]] /\ H[n - 1] \in W /\ n - 1 \in Nat
      <4>1. n - 1 \in Nat /\ n # 0
        BY <3>2
      <4> HIDE DEF W, next, first, n, t
      <4>2. H[n] = next[H[n - 1]]
        BY <1>3, <3>2, <4>1
      <4> QED BY <1>3, <4>1, <4>2
    <3>4. H[n] = Step(H[n - 1])
      BY <3>3
    <3>5. H[n][s] = G[<<ch[s], H[n - 1][t]>>]
      BY <2>2, <3>4
    <3>6. fold[t] = H[n - 1][t]
      BY <3>1, <3>2
    <3> QED BY <2>2, <3>5, <3>6
  <2> QED BY <2>1, <2>2
<1>7. fold = Step(fold)
  <2> HIDE DEF fold
  <2> QED BY <1>5, <1>6
<1> QED BY <1>5, <1>7

-----------------------------------------------------------------------------
(* Division of naturals.                                                   *)

LEMMA DivisionFacts ==
  ASSUME NEW u \in Nat, NEW a \in Nat \ {0}
  PROVE  u \div a \in Nat /\ a * (u \div a) <= u /\ u < a * ((u \div a) + 1)
<1>1. u = (a * (u \div a)) + (u % a) /\ u % a \in 0 .. a - 1
  OBVIOUS
<1> QED BY <1>1

(* The larger the divisor, the smaller the quotient.                         *)
LEMMA DivisionAntitone ==
  ASSUME NEW u \in Nat, NEW a \in Nat \ {0}, NEW b \in Nat \ {0}, a <= b
  PROVE  u \div b \in Nat /\ u \div b <= u \div a
<1> DEFINE p == u \div a
           q == u \div b
<1>1. p \in Nat /\ q \in Nat /\ b * q <= u /\ u < a * (p + 1)
  BY DivisionFacts
<1> HIDE DEF p, q
<1>2. a * q <= b * q
  BY <1>1
<1>3. ASSUME q >= p + 1 PROVE FALSE
  <2>1. a * (p + 1) <= a * q
    BY <1>1, <1>3
  <2> QED BY <1>1, <1>2, <2>1
<1> QED BY <1>1, <1>3 DEF p, q

-----------------------------------------------------------------------------
(* Induction that takes one element away, and folds over parts of a set.   *)

LEMMA RemovalInduction ==
  ASSUME NEW S, IsFiniteSet(S), NEW P, {} \in P,
         \A s \in SUBSET S : s # {} => \E x \in s : s \ {x} \in P => s \in P
  PROVE  SUBSET S \subseteq P
<1> DEFINE T == {n \in Nat : \A s \in SUBSET S : Cardinality(s) = n => s \in P}
<1>1. \A s \in SUBSET S : IsFiniteSet(s) /\ Cardinality(s) \in Nat
  BY FS_Subset, FS_CardinalityType
<1>2. 0 \in T
  BY <1>1, FS_EmptySet
<1>3. ASSUME NEW n \in T PROVE n + 1 \in T
  <2> SUFFICES ASSUME NEW s \in SUBSET S, Cardinality(s) = n + 1 PROVE s \in P
    OBVIOUS
  <2>1. n \in Nat /\ Cardinality(s) # 0
    OBVIOUS
  <2>2. s # {}
    BY <2>1, FS_EmptySet
  <2>3. PICK x \in s : s \ {x} \in P => s \in P
    BY <2>2
  <2>4. Cardinality(s \ {x}) = n
    <3>1. Cardinality(s \ {x}) = Cardinality(s) - 1
      BY <1>1, FS_RemoveElement
    <3> QED BY <2>1, <3>1
  <2>5. s \ {x} \in P
    BY <2>4
  <2> QED BY <2>3, <2>5
<1>4. Nat \subseteq T
  <2> HIDE DEF T
  <2> QED BY <1>2, <1>3, Induction
<1>5. ASSUME NEW s \in SUBSET S PROVE s \in P
  <2>1. Cardinality(s) \in T
    BY <1>1, <1>4
  <2> QED BY <2>1
<1> QED BY <1>5

(* What the recursion of MapThenFoldSet says of f, as far as its values are  *)
(* the ones G is defined for.                                                *)
FoldsOver(f, T, base, ch, G, V) ==
  \A s \in SUBSET T :
    /\ s = {} => f[s] = base
    /\ s # {} /\ f[s \ {ch[s]}] \in V => f[s] = G[<<ch[s], f[s \ {ch[s]}]>>]

(* A function F[T] of the subsets of T for every T.                          *)
FoldsOverSubsets(F, S, base, ch, G, V) ==
  \A T \in SUBSET S : FoldsOver(F[T], T, base, ch, G, V)

Unfolds(F, S, base, ch, G, V) ==
  /\ F[{}][{}] = base
  /\ \A T \in SUBSET S :
       /\ F[T][T] \in V
       /\ T # {} => F[T][T] = G[<<ch[T], F[T \ {ch[T]}][T \ {ch[T]}]>>]

(* MapThenFoldSet chooses a function per set; they agree, so a fold over a   *)
(* set is a step after the fold over the rest of it.                         *)
LEMMA FoldUnfolds ==
  ASSUME NEW S, IsFiniteSet(S), NEW V, NEW base \in V,
         NEW ch, Chooses(ch, S), NEW G, StepsIn(G, S, V),
         NEW F, FoldsOverSubsets(F, S, base, ch, G, V)
  PROVE  Unfolds(F, S, base, ch, G, V)
<1> USE DEF Chooses, StepsIn
<1>0. \A T \in SUBSET S : FoldsOver(F[T], T, base, ch, G, V)
  BY DEF FoldsOverSubsets
<1>1. ASSUME NEW T \in SUBSET S
      PROVE  \A s \in SUBSET T : F[T][s] \in V /\ F[T][s] = F[S][s]
  <2> DEFINE P == {s \in SUBSET T : F[T][s] \in V /\ F[T][s] = F[S][s]}
             f == F[T]
             g == F[S]
  <2>1. FoldsOver(f, T, base, ch, G, V) /\ FoldsOver(g, S, base, ch, G, V)
    BY <1>0
  <2> HIDE DEF f, g
  <2>2. {} \in {s \in SUBSET T : f[s] \in V /\ f[s] = g[s]}
    BY <2>1 DEF FoldsOver
  <2>3. ASSUME NEW s \in SUBSET T, s # {}, f[s \ {ch[s]}] \in V, f[s \ {ch[s]}] = g[s \ {ch[s]}]
        PROVE  f[s] \in V /\ f[s] = g[s]
    <3>1. f[s] = G[<<ch[s], f[s \ {ch[s]}]>>] /\ g[s] = G[<<ch[s], g[s \ {ch[s]}]>>]
      BY <2>1, <2>3 DEF FoldsOver
    <3>2. ch[s] \in S
      BY <2>3
    <3> QED BY <2>3, <3>1, <3>2
  <2>4. \A s \in SUBSET T : s # {} => \E x \in s : s \ {x} \in P => s \in P
    <3>1. ASSUME NEW s \in SUBSET T, s # {} PROVE ch[s] \in s /\ (s \ {ch[s]} \in P => s \in P)
      <4>1. ch[s] \in s
        BY <3>1
      <4> QED BY <2>3, <3>1, <4>1 DEF f, g
    <3> QED BY <3>1
  <2>5. IsFiniteSet(T)
    BY FS_Subset
  <2>6. SUBSET T \subseteq P
    <3>1. {} \in P
      BY <2>2 DEF f, g
    <3> HIDE DEF P
    <3> QED BY <2>4, <2>5, <3>1, RemovalInduction
  <2> QED BY <2>6
<1>2. F[{}][{}] = base
  <2>1. FoldsOver(F[{}], {}, base, ch, G, V)
    BY <1>0
  <2> QED BY <2>1 DEF FoldsOver
<1>3. ASSUME NEW T \in SUBSET S
      PROVE  /\ F[T][T] \in V
             /\ T # {} => F[T][T] = G[<<ch[T], F[T \ {ch[T]}][T \ {ch[T]}]>>]
  <2>1. F[T][T] \in V
    BY <1>1
  <2>2. ASSUME T # {} PROVE F[T][T] = G[<<ch[T], F[T \ {ch[T]}][T \ {ch[T]}]>>]
    <3> DEFINE U == T \ {ch[T]}
    <3>1. U \in SUBSET T /\ U \in SUBSET S
      OBVIOUS
    <3>2. F[T][U] \in V /\ F[T][U] = F[U][U]
      BY <1>1, <3>1
    <3>3. FoldsOver(F[T], T, base, ch, G, V)
      BY <1>0
    <3>4. F[T][T] = G[<<ch[T], F[T][U]>>]
      BY <2>2, <3>2, <3>3 DEF FoldsOver
    <3> QED BY <3>2, <3>4
  <2> QED BY <2>1, <2>2
<1> QED BY <1>2, <1>3 DEF Unfolds
=============================================================================
