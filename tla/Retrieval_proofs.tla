-------------------------- MODULE Retrieval_proofs --------------------------
(***************************************************************************)
(* Theorems about Retrieval, for every set of memories, every content of   *)
(* the tables, every query, and any number of readers and calls.           *)
(***************************************************************************)
EXTENDS Retrieval, Orders_proofs

-----------------------------------------------------------------------------
(* Lists.                                                                  *)

LEMMA SeqEqualLists ==
  ASSUME NEW S, NEW s \in Seq(S), NEW t \in Seq(S), Len(s) = Len(t),
         \A k \in 1 .. Len(s) : s[k] = t[k]
  PROVE  s = t
OBVIOUS

(* The head of a list without repetition is not in its tail.                 *)
LEMMA HeadAndTail ==
  ASSUME NEW S, NEW s \in Seq(S), s # <<>>, IsInjective(s)
  PROVE  /\ Head(s) \in S /\ Tail(s) \in Seq(S) /\ IsInjective(Tail(s))
         /\ Head(s) \in ToSet(s)
         /\ ToSet(Tail(s)) = ToSet(s) \ {Head(s)}
<1>1. /\ Len(s) \in Nat \ {0}
      /\ Head(s) = s[1] /\ Head(s) \in S
      /\ Tail(s) \in Seq(S) /\ Len(Tail(s)) = Len(s) - 1
      /\ \A k \in 1 .. Len(s) - 1 : Tail(s)[k] = s[k + 1]
  OBVIOUS
<1>2. IsInjective(Tail(s))
  <2> SUFFICES ASSUME NEW a \in 1 .. Len(s) - 1, NEW b \in 1 .. Len(s) - 1,
                      Tail(s)[a] = Tail(s)[b]
               PROVE  a = b
    BY <1>1 DEF IsInjective
  <2>1. s[a + 1] = s[b + 1] /\ a + 1 \in 1 .. Len(s) /\ b + 1 \in 1 .. Len(s)
    BY <1>1
  <2>2. a + 1 = b + 1
    BY <2>1 DEF IsInjective
  <2> QED BY <2>2
<1>3. ASSUME NEW x \in ToSet(Tail(s)) PROVE x \in ToSet(s) \ {Head(s)}
  <2>1. PICK k \in 1 .. Len(s) - 1 : x = s[k + 1]
    BY <1>1 DEF ToSet
  <2>2. k + 1 \in 1 .. Len(s) /\ 1 \in 1 .. Len(s) /\ k + 1 # 1
    BY <1>1
  <2> QED BY <1>1, <2>1, <2>2 DEF ToSet, IsInjective
<1>4. ASSUME NEW x \in ToSet(s) \ {Head(s)} PROVE x \in ToSet(Tail(s))
  <2>1. PICK k \in 1 .. Len(s) : x = s[k]
    BY DEF ToSet
  <2>2. k # 1 /\ k - 1 \in 1 .. Len(s) - 1 /\ (k - 1) + 1 = k
    BY <1>1, <2>1
  <2>3. Tail(s)[k - 1] = x /\ k - 1 \in DOMAIN Tail(s)
    BY <1>1, <2>1, <2>2
  <2> QED BY <2>3 DEF ToSet
<1>5. Head(s) \in ToSet(s)
  BY <1>1 DEF ToSet
<1>6. ToSet(Tail(s)) = ToSet(s) \ {Head(s)}
  BY <1>3, <1>4
<1> QED BY <1>1, <1>2, <1>5, <1>6

(* Appending what is not there.                                              *)
LEMMA AppendedList ==
  ASSUME NEW S, NEW s \in Seq(S), NEW x \in S
  PROVE  /\ Append(s, x) \in Seq(S)
         /\ ToSet(Append(s, x)) = ToSet(s) \cup {x}
         /\ IsInjective(s) /\ x \notin ToSet(s) => IsInjective(Append(s, x))
<1> DEFINE t == Append(s, x)
<1>1. /\ t \in Seq(S) /\ Len(t) = Len(s) + 1 /\ t[Len(s) + 1] = x
      /\ \A k \in 1 .. Len(s) : t[k] = s[k]
      /\ Len(s) \in Nat
  OBVIOUS
<1> HIDE DEF t
<1>2. ToSet(t) = ToSet(s) \cup {x}
  <2>1. \A k \in 1 .. Len(s) + 1 : k \in 1 .. Len(s) \/ k = Len(s) + 1
    BY <1>1
  <2>2. DOMAIN t = 1 .. Len(s) + 1 /\ DOMAIN s = 1 .. Len(s)
    BY <1>1
  <2>3. ASSUME NEW y \in ToSet(t) PROVE y \in ToSet(s) \cup {x}
    BY <1>1, <2>1, <2>2 DEF ToSet
  <2>4. ASSUME NEW y \in ToSet(s) PROVE y \in ToSet(t)
    <3>1. PICK k \in 1 .. Len(s) : y = s[k]
      BY <2>2 DEF ToSet
    <3>2. k \in 1 .. Len(s) + 1 /\ t[k] = y
      BY <1>1, <3>1
    <3> QED BY <2>2, <3>2 DEF ToSet
  <2>5. x \in ToSet(t)
    BY <1>1, <2>2 DEF ToSet
  <2> QED BY <2>3, <2>4, <2>5
<1>3. ASSUME IsInjective(s), x \notin ToSet(s) PROVE IsInjective(t)
  <2> SUFFICES ASSUME NEW a \in 1 .. Len(s) + 1, NEW b \in 1 .. Len(s) + 1, t[a] = t[b]
               PROVE  a = b
    BY <1>1 DEF IsInjective
  <2>1. \A k \in 1 .. Len(s) : s[k] # x
    BY <1>3 DEF ToSet
  <2>2. (a \in 1 .. Len(s) \/ a = Len(s) + 1) /\ (b \in 1 .. Len(s) \/ b = Len(s) + 1)
    BY <1>1
  <2> QED BY <1>1, <1>3, <2>1, <2>2 DEF IsInjective
<1> QED BY <1>1, <1>2, <1>3 DEF t

(* A page: the first entries, at most limit.                                 *)
LEMMA Page ==
  ASSUME NEW S, NEW s \in Seq(S), NEW limit \in Nat
  PROVE  /\ UpTo(limit, s) \in Seq(S)
         /\ Len(UpTo(limit, s)) = (IF Len(s) < limit THEN Len(s) ELSE limit)
         /\ \A k \in 1 .. Len(UpTo(limit, s)) : k \in 1 .. Len(s) /\ UpTo(limit, s)[k] = s[k]
         /\ ToSet(UpTo(limit, s)) \subseteq ToSet(s)
         /\ IsInjective(s) => IsInjective(UpTo(limit, s))
         /\ Len(UpTo(limit, s)) < limit => UpTo(limit, s) = s
<1> DEFINE n == IF Len(s) < limit THEN Len(s) ELSE limit
           t == UpTo(limit, s)
<1>1. Len(s) \in Nat /\ n \in 0 .. Len(s)
  OBVIOUS
<1>2. t = SubSeq(s, 1, n)
  BY DEF UpTo
<1>3. t \in Seq(S) /\ Len(t) = n /\ \A k \in 1 .. n : k \in 1 .. Len(s) /\ t[k] = s[k]
  <2> HIDE DEF n, t
  <2> QED BY <1>1, <1>2
<1>4. ToSet(t) \subseteq ToSet(s)
  <2> HIDE DEF n, t
  <2> QED BY <1>3 DEF ToSet
<1>5. IsInjective(s) => IsInjective(t)
  <2> HIDE DEF n, t
  <2> QED BY <1>1, <1>3 DEF IsInjective
<1>6. Len(t) < limit => t = s
  <2>1. Len(t) < limit => n = Len(s)
    BY <1>1, <1>3
  <2> HIDE DEF n, t
  <2> QED BY <1>1, <1>3, <2>1
<1> QED BY <1>3, <1>4, <1>5, <1>6

LEMMA PositionOf ==
  ASSUME NEW S, NEW s \in Seq(S), NEW x \in ToSet(s)
  PROVE  Position(s, x) \in 1 .. Len(s) /\ s[Position(s, x)] = x
BY DEF Position, ToSet

(* Where a list without repetition has an entry.                             *)
LEMMA PositionIs ==
  ASSUME NEW S, NEW s \in Seq(S), IsInjective(s), NEW k \in 1 .. Len(s)
  PROVE  Position(s, s[k]) = k /\ s[k] \in ToSet(s)
<1>1. s[k] \in ToSet(s)
  BY DEF ToSet
<1>2. Position(s, s[k]) \in 1 .. Len(s) /\ s[Position(s, s[k])] = s[k]
  BY <1>1, PositionOf
<1> QED BY <1>1, <1>2 DEF IsInjective

(* What members of a set are, once the set is a sequence.                    *)
LEMMA MembersOfOrder ==
  ASSUME NEW S, IsFiniteSet(S), NEW R, StrictTotal(R, S),
         NEW s \in [1 .. Cardinality(S) -> S],
         \A a, b \in 1 .. Cardinality(S) : a < b => <<s[a], s[b]>> \in R
  PROVE  /\ s \in Seq(S) /\ Len(s) = Cardinality(S) /\ IsInjective(s)
         /\ ToSet(s) = S
<1>1. /\ s \in Seq(S) /\ Len(s) = Cardinality(S) /\ IsInjective(s)
      /\ \A x \in S : \E k \in 1 .. Len(s) : s[k] = x
  BY SortedSequence
<1>2. ToSet(s) = S
  BY <1>1 DEF ToSet
<1> QED BY <1>1, <1>2

LEMMA CosineOrder ==
  ASSUME QueryAssumption, NEW ids, ids \subseteq Ids, IsFiniteSet(ids)
  PROVE  /\ ByCosine(ids) \in Seq(Ids) /\ IsInjective(ByCosine(ids))
         /\ ToSet(ByCosine(ids)) = ids
<1> DEFINE R == {p \in ids \X ids : Similarity[p[1]] > Similarity[p[2]]}
           n == Cardinality(ids)
           s == ByCosine(ids)
<1>1. StrictTotal(R, ids)
  <2>1. ASSUME NEW x \in ids, NEW y \in ids PROVE <<x, y>> \in R <=> Similarity[x] > Similarity[y]
    OBVIOUS
  <2>2. \A x \in ids : Similarity[x] \in Nat
    BY DEF QueryAssumption
  <2>3. \A x, y \in ids : Similarity[x] = Similarity[y] => x = y
    BY DEF QueryAssumption, IsInjective
  <2> HIDE DEF R
  <2> QED BY <2>1, <2>2, <2>3 DEF StrictTotal
<1>2. PICK q \in [1 .. n -> ids] : \A a, b \in 1 .. n : a < b => <<q[a], q[b]>> \in R
  <2> HIDE DEF R
  <2> QED BY <1>1, SortingExists
<1>3. \A a, b \in 1 .. n : a < b => Similarity[q[a]] > Similarity[q[b]]
  BY <1>2
<1>4. /\ s \in [1 .. n -> ids]
      /\ \A a, b \in 1 .. n : a < b => Similarity[s[a]] > Similarity[s[b]]
  <2> HIDE DEF n, R
  <2> QED BY <1>3 DEF ByCosine, InOrder, n
<1>5. \A a, b \in 1 .. n : a < b => <<s[a], s[b]>> \in R
  <2> HIDE DEF s, n
  <2> QED BY <1>4
<1>6. s \in Seq(ids) /\ IsInjective(s) /\ ToSet(s) = ids
  <2> HIDE DEF s, R
  <2> QED BY <1>1, <1>4, <1>5, MembersOfOrder
<1> QED BY <1>6

(* A filtered list keeps its order.                                          *)
LEMMA FilteredList ==
  ASSUME NEW S, NEW list \in Seq(S), IsInjective(list), NEW T
  PROVE  /\ Only(list, T) \in Seq(S) /\ IsInjective(Only(list, T))
         /\ ToSet(Only(list, T)) = ToSet(list) \cap T
         /\ \A a, b \in 1 .. Len(Only(list, T)) :
              a < b => Position(list, Only(list, T)[a]) < Position(list, Only(list, T)[b])
<1> DEFINE kept == ToSet(list) \cap T
           R == {p \in kept \X kept : Position(list, p[1]) < Position(list, p[2])}
           n == Cardinality(kept)
           s == Only(list, T)
<1>1. IsFiniteSet(kept)
  <2>1. IsFiniteSet(ToSet(list))
    BY CardinalityOfSeq DEF ToSet
  <2> QED BY <2>1, FS_Subset
<1>2. \A x \in kept : Position(list, x) \in 1 .. Len(list) /\ list[Position(list, x)] = x
  BY PositionOf
<1>3. StrictTotal(R, kept)
  <2>1. ASSUME NEW x \in kept, NEW y \in kept
        PROVE  <<x, y>> \in R <=> Position(list, x) < Position(list, y)
    OBVIOUS
  <2>2. Len(list) \in Nat
    OBVIOUS
  <2> HIDE DEF R, kept
  <2> QED BY <1>2, <2>1, <2>2 DEF StrictTotal
<1>4. PICK q \in [1 .. n -> kept] : \A a, b \in 1 .. n : a < b => <<q[a], q[b]>> \in R
  <2> HIDE DEF R, kept
  <2> QED BY <1>1, <1>3, SortingExists
<1>5. \A a, b \in 1 .. n : a < b => Position(list, q[a]) < Position(list, q[b])
  BY <1>4
<1>6. /\ s \in [1 .. n -> kept]
      /\ \A a, b \in 1 .. n : a < b => Position(list, s[a]) < Position(list, s[b])
  <2> HIDE DEF n, R
  <2> QED BY <1>5 DEF Only, InOrder, n
<1>7. \A a, b \in 1 .. n : a < b => <<s[a], s[b]>> \in R
  <2> HIDE DEF s, n
  <2> QED BY <1>6
<1>8. s \in Seq(kept) /\ Len(s) = n /\ IsInjective(s) /\ ToSet(s) = kept
  <2> HIDE DEF s, R, kept
  <2> QED BY <1>1, <1>3, <1>6, <1>7, MembersOfOrder
<1>9. s \in Seq(S)
  <2>1. kept \subseteq S
    BY DEF ToSet
  <2> HIDE DEF kept, s
  <2> QED BY <1>8, <2>1
<1> QED BY <1>6, <1>8, <1>9

-----------------------------------------------------------------------------
(* Sorted lists of items.                                                  *)

(* a comes first: the higher key, or the same key and the lower index.       *)
First(key, a, b) == key[a] > key[b] \/ (key[a] = key[b] /\ a < b)

LEMMA KeyOrder ==
  ASSUME NEW n \in Nat, NEW key \in [1 .. n -> Nat]
  PROVE  /\ Cardinality(1 .. n) = n
         /\ \E s \in [1 .. n -> 1 .. n] :
              \A a, b \in 1 .. n : a < b => First(key, s[a], s[b])
         /\ \A s \in [1 .. n -> 1 .. n] :
              (\A a, b \in 1 .. n : a < b => First(key, s[a], s[b]))
                => IsInjective(s) /\ \A x \in 1 .. n : \E k \in 1 .. n : s[k] = x
<1> DEFINE D == 1 .. n
           R == {p \in D \X D : First(key, p[1], p[2])}
<1>1. IsFiniteSet(D) /\ Cardinality(D) = n
  BY FS_Interval
<1>2. \A a, b \in D : <<a, b>> \in R <=> First(key, a, b)
  OBVIOUS
<1>3. StrictTotal(R, D)
  <2>1. \A a \in D : key[a] \in Nat /\ a \in Int
    OBVIOUS
  <2> HIDE DEF R, D
  <2>2. \A a \in D : ~ First(key, a, a)
    BY <2>1 DEF First
  <2>3. ASSUME NEW a \in D, NEW b \in D, a # b
        PROVE  First(key, a, b) \/ First(key, b, a)
    <3>1. key[a] \in Nat /\ key[b] \in Nat /\ a \in Int /\ b \in Int
      BY <2>1
    <3>2. a < b \/ b < a
      BY <2>3, <3>1
    <3>3. key[a] > key[b] \/ key[b] > key[a] \/ key[a] = key[b]
      BY <3>1
    <3> QED BY <3>1, <3>2, <3>3 DEF First
  <2>4. ASSUME NEW a \in D, NEW b \in D, NEW c \in D, First(key, a, b), First(key, b, c)
        PROVE  First(key, a, c)
    BY <2>1, <2>4 DEF First
  <2> QED BY <1>2, <2>2, <2>3, <2>4 DEF StrictTotal
<1>4. \E s \in [1 .. n -> D] : \A a, b \in 1 .. n : a < b => First(key, s[a], s[b])
  <2>1. \E s \in [1 .. n -> D] : \A a, b \in 1 .. n : a < b => <<s[a], s[b]>> \in R
    <3> HIDE DEF R, D
    <3> QED BY <1>1, <1>3, SortingExists
  <2> QED BY <2>1
<1>5. ASSUME NEW s \in [1 .. n -> D],
             \A a, b \in 1 .. n : a < b => First(key, s[a], s[b])
      PROVE  IsInjective(s) /\ \A x \in D : \E k \in 1 .. n : s[k] = x
  <2>1. \A a, b \in 1 .. n : a < b => <<s[a], s[b]>> \in R
    <3>1. \A a \in 1 .. n : s[a] \in D
      OBVIOUS
    <3> HIDE DEF R, D
    <3> QED BY <1>2, <1>5, <3>1
  <2> HIDE DEF R, D
  <2>2. s \in [1 .. Cardinality(D) -> D]
    BY <1>1
  <2>3. Len(s) = n /\ IsInjective(s) /\ \A x \in D : \E k \in 1 .. Len(s) : s[k] = x
    BY <1>1, <1>3, <2>1, <2>2, SortedSequence
  <2> QED BY <2>3
<1> QED BY <1>1, <1>4, <1>5

(* result is items in the order of their keys.                               *)
SortedBy(key, items, result) ==
  \E order \in [1 .. Len(items) -> 1 .. Len(items)] :
    /\ IsInjective(order)
    /\ \A m \in 1 .. Len(items) : \E k \in 1 .. Len(items) : order[k] = m
    /\ \A a, b \in 1 .. Len(items) : a < b => First(key, order[a], order[b])
    /\ result = [k \in 1 .. Len(items) |-> items[order[k]]]

LEMMA DescendingSorts ==
  ASSUME NEW items \in Seq(Item), NEW key \in [1 .. Len(items) -> Nat]
  PROVE  SortedBy(key, items, Descending(items, key))
<1> DEFINE n == Len(items)
           result == Descending(items, key)
           Good(s) == \A a, b \in 1 .. n : a < b =>
                        key[s[a]] > key[s[b]] \/ (key[s[a]] = key[s[b]] /\ s[a] < s[b])
           order == CHOOSE s \in [1 .. n -> 1 .. n] : Good(s)
<1>1. n \in Nat /\ DOMAIN items = 1 .. n
  OBVIOUS
<1>2. Cardinality(1 .. n) = n
  BY <1>1, KeyOrder
<1>3. ASSUME NEW s \in [1 .. n -> 1 .. n]
      PROVE  Good(s) <=> \A a, b \in 1 .. n : a < b => First(key, s[a], s[b])
  BY DEF First
<1>4. result = [k \in 1 .. n |-> items[order[k]]]
  <2> DEFINE chosen(D, m) == CHOOSE s \in [1 .. m -> D] :
                               \A a, b \in 1 .. m : a < b =>
                                 key[s[a]] > key[s[b]] \/ (key[s[a]] = key[s[b]] /\ s[a] < s[b])
  <2>1. result = [k \in DOMAIN items |->
                    items[chosen(DOMAIN items, Cardinality(DOMAIN items))[k]]]
    BY DEF Descending, InOrder
  <2>2. order = chosen(1 .. n, n)
    OBVIOUS
  <2> HIDE DEF chosen, order, result, n
  <2> QED BY <1>1, <1>2, <2>1, <2>2
<1>5. \E s \in [1 .. n -> 1 .. n] : Good(s)
  <2> HIDE DEF Good, n
  <2>1. key \in [1 .. n -> Nat]
    BY DEF n
  <2> QED BY <1>1, <1>3, <2>1, KeyOrder
<1>6. order \in [1 .. n -> 1 .. n] /\ Good(order)
  <2> HIDE DEF Good, n
  <2> QED BY <1>5
<1>7. key \in [1 .. n -> Nat]
  OBVIOUS
<1> HIDE DEF order, Good, n, result
<1>8. \A a, b \in 1 .. n : a < b => First(key, order[a], order[b])
  BY <1>3, <1>6
<1>9. IsInjective(order) /\ \A m \in 1 .. n : \E k \in 1 .. n : order[k] = m
  BY <1>1, <1>6, <1>7, <1>8, KeyOrder
<1> QED BY <1>4, <1>6, <1>8, <1>9 DEF SortedBy, n, result

LEMMA KeysAreNaturals ==
  ASSUME NEW items \in Seq(Item)
  PROVE  /\ Scores(items) \in [1 .. Len(items) -> Nat]
         /\ WeightedScores(items) \in [1 .. Len(items) -> Nat]
<1>1. ASSUME NEW k \in 1 .. Len(items)
      PROVE  items[k].score \in Nat /\ items[k].score * items[k].weight \in Nat
  <2>1. items[k] \in Item
    OBVIOUS
  <2>2. items[k].score \in Nat /\ items[k].weight \in {1, 2}
    BY <2>1 DEF Item
  <2> QED BY <2>2
<1>2. DOMAIN items = 1 .. Len(items)
  OBVIOUS
<1>3. Scores(items) \in [1 .. Len(items) -> Nat]
  BY <1>1, <1>2 DEF Scores
<1>4. WeightedScores(items) \in [1 .. Len(items) -> Nat]
  BY <1>1, <1>2, Zenon DEF WeightedScores
<1> QED BY <1>3, <1>4

IdsOf(items) == [k \in DOMAIN items |-> items[k].id]

Members(items) == ToSet(IdsOf(items))

LEMMA IdsOfItems ==
  ASSUME NEW items \in Seq(Item)
  PROVE  /\ IdsOf(items) \in Seq(Ids) /\ Len(IdsOf(items)) = Len(items)
         /\ \A k \in 1 .. Len(items) : /\ IdsOf(items)[k] = items[k].id
                                       /\ items[k] \in Item /\ items[k].id \in Ids
         /\ Members(items) = {items[k].id : k \in 1 .. Len(items)}
<1>1. \A k \in 1 .. Len(items) : items[k] \in Item
  OBVIOUS
<1>2. \A k \in 1 .. Len(items) : items[k].id \in Ids
  BY <1>1 DEF Item
<1>3. DOMAIN items = 1 .. Len(items) /\ Len(items) \in Nat
  OBVIOUS
<1>4. IdsOf(items) \in Seq(Ids) /\ Len(IdsOf(items)) = Len(items)
  BY <1>2, <1>3 DEF IdsOf
<1>5. \A k \in 1 .. Len(items) : IdsOf(items)[k] = items[k].id
  BY <1>3 DEF IdsOf
<1>6. Members(items) = {items[k].id : k \in 1 .. Len(items)}
  BY <1>3 DEF Members, ToSet, IdsOf
<1> QED BY <1>1, <1>2, <1>4, <1>5, <1>6

(* Sorting loses, adds and changes nothing.                                  *)
LEMMA SortingPermutes ==
  ASSUME NEW items \in Seq(Item), NEW key, NEW result, SortedBy(key, items, result)
  PROVE  /\ result \in Seq(Item) /\ Len(result) = Len(items)
         /\ \A k \in 1 .. Len(result) : \E m \in 1 .. Len(items) : result[k] = items[m]
         /\ Members(result) = Members(items)
         /\ IsInjective(IdsOf(items)) => IsInjective(IdsOf(result))
<1> DEFINE n == Len(items)
<1>1. PICK order \in [1 .. n -> 1 .. n] :
        /\ IsInjective(order)
        /\ \A m \in 1 .. n : \E k \in 1 .. n : order[k] = m
        /\ result = [k \in 1 .. n |-> items[order[k]]]
  BY DEF SortedBy
<1>2. n \in Nat /\ \A m \in 1 .. n : items[m] \in Item
  OBVIOUS
<1>3. result \in Seq(Item) /\ Len(result) = n
  <2>1. \A k \in 1 .. n : items[order[k]] \in Item
    BY <1>2
  <2> HIDE DEF n
  <2> QED BY <1>1, <1>2, <2>1
<1>4. \A k \in 1 .. n : order[k] \in 1 .. n /\ result[k] = items[order[k]]
  BY <1>1
<1>5. Members(result) = Members(items)
  <2>1. Members(result) = {result[k].id : k \in 1 .. n}
    BY <1>3, IdsOfItems
  <2>2. Members(items) = {items[k].id : k \in 1 .. n}
    BY IdsOfItems
  <2> HIDE DEF n
  <2>3. \A k \in 1 .. n : result[k].id \in Members(items)
    BY <1>4, <2>2
  <2>4. \A m \in 1 .. n : \E k \in 1 .. n : result[k].id = items[m].id
    BY <1>1, <1>4
  <2> QED BY <2>1, <2>2, <2>3, <2>4
<1>6. ASSUME IsInjective(IdsOf(items)) PROVE IsInjective(IdsOf(result))
  <2> SUFFICES ASSUME NEW a \in 1 .. n, NEW b \in 1 .. n, result[a].id = result[b].id
               PROVE  a = b
    BY <1>3, IdsOfItems DEF IsInjective
  <2>1. items[order[a]].id = items[order[b]].id
    BY <1>4
  <2>2. order[a] = order[b]
    BY <1>4, <1>6, <2>1, IdsOfItems DEF IsInjective
  <2> QED BY <1>1, <2>2 DEF IsInjective
<1> QED BY <1>3, <1>4, <1>5, <1>6

(* A page of items with different ids.                                       *)
LEMMA InjectivePage ==
  ASSUME NEW items \in Seq(Item), IsInjective(IdsOf(items)), NEW limit \in Nat
  PROVE  IsInjective(IdsOf(UpTo(limit, items)))
<1> DEFINE page == UpTo(limit, items)
<1>1. /\ page \in Seq(Item)
      /\ \A k \in 1 .. Len(page) : k \in 1 .. Len(items) /\ page[k] = items[k]
  BY Page
<1> HIDE DEF page
<1>2. ASSUME NEW a \in 1 .. Len(page), NEW b \in 1 .. Len(page),
             IdsOf(page)[a] = IdsOf(page)[b]
      PROVE  a = b
  <2>1. /\ a \in 1 .. Len(items) /\ b \in 1 .. Len(items)
        /\ IdsOf(page)[a] = page[a].id /\ IdsOf(page)[b] = page[b].id
        /\ page[a] = items[a] /\ page[b] = items[b]
    BY <1>1, IdsOfItems
  <2>2. IdsOf(items)[a] = IdsOf(items)[b]
    <3>1. IdsOf(items)[a] = items[a].id /\ IdsOf(items)[b] = items[b].id
      BY <2>1, IdsOfItems
    <3> QED BY <1>2, <2>1, <3>1
  <2>3. DOMAIN IdsOf(items) = 1 .. Len(items)
    BY IdsOfItems
  <2> QED BY <2>1, <2>2, <2>3 DEF IsInjective
<1>3. DOMAIN IdsOf(page) = 1 .. Len(page)
  BY <1>1, IdsOfItems
<1>4. IsInjective(IdsOf(page))
  BY <1>2, <1>3 DEF IsInjective
<1> QED BY <1>4 DEF page

LEMMA AppendedItem ==
  ASSUME NEW items \in Seq(Item), NEW x \in Item
  PROVE  /\ Append(items, x) \in Seq(Item) /\ x.id \in Ids
         /\ IdsOf(Append(items, x)) = Append(IdsOf(items), x.id)
         /\ Members(Append(items, x)) = Members(items) \cup {x.id}
<1>1. Append(items, x) \in Seq(Item) /\ Len(Append(items, x)) = Len(items) + 1 /\ Len(items) \in Nat
  OBVIOUS
<1>2. /\ IdsOf(items) \in Seq(Ids) /\ Len(IdsOf(items)) = Len(items)
      /\ IdsOf(Append(items, x)) \in Seq(Ids)
      /\ Len(IdsOf(Append(items, x))) = Len(items) + 1
  BY <1>1, IdsOfItems
<1>3. x.id \in Ids
  BY DEF Item
<1>4. ASSUME NEW k \in 1 .. Len(items) + 1
      PROVE  IdsOf(Append(items, x))[k] = Append(IdsOf(items), x.id)[k]
  <2>1. IdsOf(Append(items, x))[k] = Append(items, x)[k].id
    BY <1>1, IdsOfItems
  <2>2. CASE k \in 1 .. Len(items)
    <3>1. Append(items, x)[k] = items[k] /\ Append(IdsOf(items), x.id)[k] = IdsOf(items)[k]
      BY <1>2, <1>3, <2>2
    <3>2. IdsOf(items)[k] = items[k].id
      BY <2>2, IdsOfItems
    <3> QED BY <2>1, <3>1, <3>2
  <2>3. CASE k = Len(items) + 1
    <3>1. Append(items, x)[k] = x /\ Append(IdsOf(items), x.id)[k] = x.id
      BY <1>2, <1>3, <2>3
    <3> QED BY <2>1, <3>1
  <2>4. k \in 1 .. Len(items) \/ k = Len(items) + 1
    BY <1>1
  <2> QED BY <2>2, <2>3, <2>4
<1>5. IdsOf(Append(items, x)) = Append(IdsOf(items), x.id)
  <2>1. /\ Append(IdsOf(items), x.id) \in Seq(Ids)
        /\ Len(Append(IdsOf(items), x.id)) = Len(items) + 1
    BY <1>2, <1>3
  <2> QED BY <1>2, <1>4, <2>1, SeqEqualLists
<1>6. Members(Append(items, x)) = Members(items) \cup {x.id}
  BY <1>2, <1>3, <1>5, AppendedList DEF Members
<1> QED BY <1>1, <1>3, <1>5, <1>6

-----------------------------------------------------------------------------
(* Types.                                                                  *)

(* What the tables do not decide of a recall in flight.                      *)
WellShaped(c) ==
  c \in Recall =>
    /\ IsInjective(c.fts) /\ IsInjective(c.vector) /\ IsInjective(IdsOf(c.items))
    /\ c.op \in {"fts", "vector", "hydrate"} => IsInjective(c.todo)
    /\ c.op = "fts" => IdsOf(c.items) = c.fts /\ ToSet(c.todo) \cap ToSet(c.fts) = {}
    /\ c.op = "vector" => ToSet(c.todo) \cap Members(c.items) = {}
    /\ c.op = "hydrate" =>
         /\ IdsOf(c.items) = ScoreMapKeys(c.fts, c.vector)
         /\ \A k \in 1 .. Len(c.items) :
              c.items[k].score = Fused(c.alpha, c.fts, c.vector, c.items[k].id)
    /\ c.op \in {"vector", "hydrate"} => c.kind # "keyword"
    /\ c.op \in {"lifecycle", "touch"} => c.kind = "ranked"
    /\ c.op = "touch" => c.todo # <<>>

CallsTypeOK ==
  /\ call \in [Readers -> {Idle} \cup Recall \cup Walk \cup Comparison]
  /\ \A r \in Readers : WellShaped(call[r])

TypeInv ==
  /\ RetrievalTypeOK
  /\ CallsTypeOK
  /\ IsFiniteSet(embeddings)
  /\ \A i \in Ids : content[i].id = i

LEMMA KindOfCall ==
  ASSUME NEW c \in {Idle} \cup Recall \cup Walk \cup Comparison
  PROVE  /\ c.op \in {"fts", "vector", "hydrate", "lifecycle", "touch", "recalled", "failed"}
              => c \in Recall
         /\ c.op \in {"walk", "walked"} => c \in Walk
         /\ c.op \in {"compare", "compared"} => c \in Comparison
         /\ c \in Walk => c.op \in {"walk", "walked"} /\ c \notin Recall /\ c \notin Comparison
         /\ c \in Comparison => c.op \in {"compare", "compared"} /\ c \notin Recall
         /\ c \in Recall => c \notin Walk /\ c \notin Comparison
         /\ c = Idle => c \notin Recall /\ c \notin Walk /\ c \notin Comparison
BY DEF Idle, Recall, Walk, Comparison

LEMMA RecallFields ==
  ASSUME NEW c \in Recall
  PROVE  /\ c.op \in {"fts", "vector", "hydrate", "lifecycle", "touch", "recalled", "failed"}
         /\ c.kind \in {"keyword", "hybrid", "ranked"}
         /\ c.limit \in Limits /\ c.offset \in Nat /\ c.alpha \in 0 .. 10
         /\ c.public \in BOOLEAN /\ c.caught \in BOOLEAN
         /\ c.todo \in Seq(Ids) /\ c.fts \in Seq(Ids) /\ c.vector \in Seq(Ids)
         /\ c.items \in Seq(Item)
BY DEF Recall

(* The step of a reader that goes on.                                        *)
LEMMA Continued ==
  ASSUME CallsTypeOK, NEW r \in Readers, NEW d, Continue(r, d)
  PROVE  /\ call' = [call EXCEPT ![r] = d] /\ call'[r] = d
         /\ UNCHANGED <<budget, changed>>
BY DEF Continue, CallsTypeOK

LEMMA SearchLimits ==
  ASSUME QueryAssumption, NEW c \in Recall
  PROVE  /\ c.limit \in Nat \ {0} /\ HybridLimit(c) \in Nat \ {0}
         /\ SearchLimit(c) \in Nat \ {0}
         /\ HybridLimit(c) = (IF c.kind = "ranked" THEN 2 * c.limit ELSE c.limit)
         /\ SearchLimit(c) = (IF c.kind = "keyword" THEN c.limit ELSE 2 * HybridLimit(c))
<1>1. c.limit \in Nat \ {0}
  BY RecallFields DEF QueryAssumption
<1> QED BY <1>1 DEF HybridLimit, SearchLimit

(* What a call asked for.                                                    *)
SameQuery(c, d) ==
  /\ d.kind = c.kind /\ d.limit = c.limit /\ d.offset = c.offset /\ d.alpha = c.alpha
  /\ d.public = c.public /\ d.caught = c.caught

LEMMA EmptyLists ==
  /\ IsInjective(<<>>) /\ ToSet(<<>>) = {} /\ IdsOf(<<>>) = <<>> /\ Members(<<>>) = {}
<1>1. IsInjective(<<>>) /\ ToSet(<<>>) = {}
  BY DEF IsInjective, ToSet
<1>2. IdsOf(<<>>) = <<>>
  BY DEF IdsOf
<1> QED BY <1>1, <1>2 DEF Members

LEMMA IndexedMatches ==
  ASSUME QueryAssumption
  PROVE  /\ IndexMatches \in Seq(Ids) /\ IsInjective(IndexMatches)
         /\ ToSet(IndexMatches) =
              {i \in ToSet(Matches) : stored[i] \notin {None, "restricted"}}
<1> DEFINE T == {i \in Ids : stored[i] \notin {None, "restricted"}}
<1>1. Matches \in Seq(Ids) /\ IsInjective(Matches)
  BY DEF QueryAssumption
<1>2. ToSet(Matches) \subseteq Ids
  BY <1>1 DEF ToSet
<1>3. /\ Only(Matches, T) \in Seq(Ids) /\ IsInjective(Only(Matches, T))
      /\ ToSet(Only(Matches, T)) = ToSet(Matches) \cap T
  <2> HIDE DEF T
  <2> QED BY <1>1, FilteredList
<1> QED BY <1>2, <1>3 DEF IndexMatches

(* What is left behind an offset.                                            *)
LEMMA RestOfMatches ==
  ASSUME QueryAssumption, NEW c, c.offset \in Nat
  PROVE  /\ Rest(c) \in Seq(Ids) /\ IsInjective(Rest(c))
         /\ ToSet(Rest(c)) \subseteq ToSet(IndexMatches)
<1> DEFINE s == IndexMatches
           m == c.offset + 1
           n == Len(s)
           t == SubSeq(s, m, n)
<1>1. s \in Seq(Ids) /\ IsInjective(s) /\ n \in Nat /\ m \in Nat \ {0} /\ DOMAIN s = 1 .. n
  BY IndexedMatches
<1>2. Rest(c) = t
  BY DEF Rest
<1> HIDE DEF s, m
<1>3. /\ t \in Seq(Ids) /\ Len(t) \in Nat /\ DOMAIN t = 1 .. Len(t)
      /\ \A k \in 1 .. Len(t) : t[k] = s[m + k - 1] /\ m + k - 1 \in 1 .. n
  BY <1>1
<1> HIDE DEF t, n
<1>4. IsInjective(t)
  <2> SUFFICES ASSUME NEW a \in 1 .. Len(t), NEW b \in 1 .. Len(t), t[a] = t[b]
               PROVE  a = b
    BY <1>3 DEF IsInjective
  <2>1. m + a - 1 = m + b - 1
    BY <1>1, <1>3 DEF IsInjective
  <2> QED BY <1>1, <1>3, <2>1
<1>5. ToSet(t) \subseteq ToSet(s)
  BY <1>1, <1>3 DEF ToSet
<1> QED BY <1>2, <1>3, <1>4, <1>5 DEF s

LEMMA BeginRecallResult ==
  ASSUME QueryAssumption, CallsTypeOK, NEW r \in Readers, BeginRecall(r)
  PROVE  LET d == call'[r]
         IN  /\ d \in Recall /\ WellShaped(d)
             /\ call' = [call EXCEPT ![r] = d]
             /\ changed' = [changed EXCEPT ![r] = {}]
             /\ d.op = "fts" /\ d.fts = <<>> /\ d.vector = <<>> /\ d.items = <<>>
             /\ d.todo = UpTo(SearchLimit(d), Rest(d))
<1>1. PICK kind \in {"keyword", "hybrid", "ranked"}, limit \in Limits, offset \in Offsets \cup {0},
           alpha \in Alphas \cup {5}, public \in BOOLEAN :
        LET c == [ op |-> "fts", kind |-> kind, limit |-> limit, offset |-> offset, alpha |-> alpha,
                   public |-> public, caught |-> FALSE, todo |-> <<>>, fts |-> <<>>,
                   vector |-> <<>>, items |-> <<>> ]
        IN  /\ kind = "keyword" => ~ public
            /\ kind # "keyword" => offset = 0
            /\ kind # "hybrid" => alpha = 5
            /\ Start(r, kind, [c EXCEPT !.todo = UpTo(SearchLimit(c), Rest(c))])
  BY Zenon DEF BeginRecall
<1> DEFINE c == [ op |-> "fts", kind |-> kind, limit |-> limit, offset |-> offset, alpha |-> alpha,
                  public |-> public, caught |-> FALSE, todo |-> <<>>, fts |-> <<>>,
                  vector |-> <<>>, items |-> <<>> ]
           d == [c EXCEPT !.todo = UpTo(SearchLimit(c), Rest(c))]
<1>2. c \in Recall
  <2>1. offset \in Nat /\ alpha \in 0 .. 10
    BY DEF QueryAssumption
  <2> QED BY <2>1 DEF Recall
<1>3. SearchLimit(c) \in Nat
  <2> HIDE DEF c
  <2> QED BY <1>2, SearchLimits
<1>4. UpTo(SearchLimit(c), Rest(c)) \in Seq(Ids)
      /\ IsInjective(UpTo(SearchLimit(c), Rest(c)))
  <2> HIDE DEF c
  <2> QED BY <1>2, <1>3, RecallFields, RestOfMatches, Page
<1>5. SearchLimit(d) = SearchLimit(c) /\ Rest(d) = Rest(c)
  BY DEF SearchLimit, HybridLimit, Rest
<1>6. /\ d.op = "fts" /\ d.fts = <<>> /\ d.vector = <<>> /\ d.items = <<>>
      /\ d.todo = UpTo(SearchLimit(c), Rest(c))
  OBVIOUS
<1>7. d \in Recall
  <2> HIDE DEF c
  <2> QED BY <1>2, <1>4 DEF Recall
<1>8. call' = [call EXCEPT ![r] = d] /\ changed' = [changed EXCEPT ![r] = {}]
  BY <1>1 DEF Start
<1>9. call'[r] = d
  BY <1>8 DEF CallsTypeOK
<1>10. WellShaped(d)
  <2> HIDE DEF d, c
  <2> QED BY <1>4, <1>6, EmptyLists DEF WellShaped
<1> QED
  <2> HIDE DEF d, c
  <2> QED BY <1>5, <1>6, <1>7, <1>8, <1>9, <1>10

LEMMA ReadFtsRowResult ==
  ASSUME RetrievalTypeOK, CallsTypeOK, NEW r \in Readers, ReadFtsRow(r)
  PROVE  LET c == call[r]
             d == call'[r]
             i == Head(c.todo)
         IN  /\ c \in Recall /\ c.op = "fts" /\ i \in ToSet(c.todo)
             /\ d \in Recall /\ WellShaped(d) /\ SameQuery(c, d)
             /\ d.op = "fts" /\ d.vector = c.vector
             /\ ToSet(d.todo) = ToSet(c.todo) \ {i}
             /\ Len(d.fts) + Len(d.todo) <= Len(c.fts) + Len(c.todo)
             /\ IF Visible(stored[i], c.public)
                THEN d.items = Append(c.items, Match(i)) /\ ToSet(d.fts) = ToSet(c.fts) \cup {i}
                ELSE d.items = c.items /\ d.fts = c.fts
<1> DEFINE c == call[r]
           d == call'[r]
           i == Head(c.todo)
           visible == Visible(stored[i], c.public)
<1>1. /\ c \in Recall /\ c.op = "fts" /\ c.todo # <<>>
      /\ WellShaped(c)
  BY KindOfCall DEF ReadFtsRow, CallsTypeOK
<1>2. d = [c EXCEPT !.todo = Tail(@),
                    !.fts = IF visible THEN Append(@, i) ELSE @,
                    !.items = IF visible THEN Append(@, Match(i)) ELSE @]
  BY Continued DEF ReadFtsRow
<1>3. i \in Ids /\ Tail(c.todo) \in Seq(Ids) /\ IsInjective(Tail(c.todo))
      /\ i \in ToSet(c.todo) /\ ToSet(Tail(c.todo)) = ToSet(c.todo) \ {i}
  BY <1>1, HeadAndTail, RecallFields DEF WellShaped
<1>4. Match(i) \in Item /\ Match(i).id = i
  BY <1>3 DEF Match, Item, RetrievalTypeOK
<1>5. CASE visible
  <2>1. /\ d.op = "fts" /\ d.todo = Tail(c.todo) /\ d.vector = c.vector
        /\ d.fts = Append(c.fts, i) /\ d.items = Append(c.items, Match(i))
        /\ SameQuery(c, d)
    BY <1>1, <1>2, <1>5 DEF Recall, SameQuery
  <2>2. /\ d.fts \in Seq(Ids) /\ IsInjective(d.fts)
        /\ ToSet(d.fts) = ToSet(c.fts) \cup {i}
    BY <1>1, <1>3, <2>1, AppendedList, RecallFields DEF WellShaped
  <2>3. d.items \in Seq(Item) /\ IdsOf(d.items) = d.fts
    BY <1>1, <1>4, <2>1, AppendedItem, RecallFields DEF WellShaped
  <2>4. d \in Recall
    BY <1>1, <1>2, <1>3, <1>5, <2>1, <2>2, <2>3 DEF Recall
  <2>5. WellShaped(d)
    BY <1>1, <1>3, <2>1, <2>2, <2>3 DEF WellShaped, SameQuery
  <2>6. Len(d.fts) + Len(d.todo) <= Len(c.fts) + Len(c.todo)
    <3> DEFINE fts == c.fts
               todo == c.todo
    <3>1. fts \in Seq(Ids) /\ todo \in Seq(Ids) /\ todo # <<>>
      BY <1>1, RecallFields
    <3>2. d.fts = Append(fts, i) /\ d.todo = Tail(todo)
      BY <2>1
    <3> HIDE DEF fts, todo, i
    <3>3. Len(Append(fts, i)) + Len(Tail(todo)) <= Len(fts) + Len(todo)
      BY <3>1
    <3> QED BY <3>2, <3>3 DEF fts, todo
  <2> QED BY <1>1, <1>3, <1>5, <2>1, <2>2, <2>4, <2>5, <2>6
<1>6. CASE ~ visible
  <2>1. /\ d.op = "fts" /\ d.todo = Tail(c.todo) /\ d.vector = c.vector
        /\ d.fts = c.fts /\ d.items = c.items
        /\ SameQuery(c, d)
    BY <1>1, <1>2, <1>6 DEF Recall, SameQuery
  <2>2. d \in Recall
    BY <1>1, <1>2, <1>3, <1>6 DEF Recall
  <2>3. WellShaped(d)
    BY <1>1, <1>3, <2>1 DEF WellShaped, SameQuery
  <2>4. Len(d.fts) + Len(d.todo) <= Len(c.fts) + Len(c.todo)
    <3>1. Len(d.todo) = Len(c.todo) - 1 /\ Len(c.fts) \in Nat /\ Len(c.todo) \in Nat
      BY <1>1, <2>1, RecallFields
    <3> QED BY <2>1, <3>1
  <2> QED BY <1>1, <1>3, <1>6, <2>1, <2>2, <2>3, <2>4
<1> QED BY <1>5, <1>6

LEMMA CatchFtsErrorResult ==
  ASSUME CallsTypeOK, NEW r \in Readers, CatchFtsError(r)
  PROVE  LET c == call[r]
             d == call'[r]
         IN  /\ c \in Recall /\ c.op = "fts"
             /\ d \in Recall /\ WellShaped(d)
             /\ d.op = "fts" /\ d.caught /\ d.public = c.public
             /\ d.todo = <<>> /\ d.fts = <<>> /\ d.vector = c.vector /\ d.items = <<>>
<1> DEFINE c == call[r]
           d == call'[r]
<1>1. c \in Recall /\ c.op = "fts" /\ WellShaped(c)
  BY KindOfCall DEF CatchFtsError, CallsTypeOK
<1>2. d = [c EXCEPT !.todo = <<>>, !.fts = <<>>, !.items = <<>>, !.caught = TRUE]
  BY Continued DEF CatchFtsError
<1> HIDE DEF c, d
<1>3. /\ d \in Recall /\ d.op = "fts" /\ d.caught /\ d.public = c.public
      /\ d.todo = <<>> /\ d.fts = <<>> /\ d.vector = c.vector /\ d.items = <<>>
  <2>1. <<>> \in Seq(Ids) /\ <<>> \in Seq(Item)
    OBVIOUS
  <2> QED BY <1>1, <1>2, <2>1 DEF Recall
<1>4. WellShaped(d)
  BY <1>1, <1>3, EmptyLists DEF WellShaped
<1> QED BY <1>1, <1>3, <1>4 DEF c, d

LEMMA ReturnKeywordResult ==
  ASSUME CallsTypeOK, NEW r \in Readers, ReturnKeyword(r)
  PROVE  LET c == call[r]
             d == call'[r]
         IN  /\ c \in Recall /\ c.op = "fts" /\ c.todo = <<>> /\ c.kind = "keyword"
             /\ d \in Recall /\ WellShaped(d) /\ SameQuery(c, d)
             /\ d.op = "recalled" /\ d.fts = c.fts /\ d.vector = c.vector /\ d.items = c.items
<1> DEFINE c == call[r]
           d == call'[r]
<1>1. /\ c \in Recall /\ c.op = "fts" /\ c.todo = <<>> /\ c.kind = "keyword"
      /\ WellShaped(c)
  BY KindOfCall DEF ReturnKeyword, CallsTypeOK
<1>2. d = [c EXCEPT !.op = "recalled"]
  BY Continued DEF ReturnKeyword
<1>3. d \in Recall /\ SameQuery(c, d) /\ d.op = "recalled"
      /\ d.fts = c.fts /\ d.vector = c.vector /\ d.items = c.items
  BY <1>1, <1>2 DEF Recall, SameQuery
<1>4. WellShaped(d)
  BY <1>1, <1>3 DEF WellShaped, SameQuery
<1> QED BY <1>1, <1>3, <1>4

LEMMA SelectVectorsResult ==
  ASSUME QueryAssumption, TypeInv, NEW r \in Readers, SelectVectors(r)
  PROVE  LET c == call[r]
             d == call'[r]
         IN  /\ c \in Recall /\ c.op = "fts" /\ c.todo = <<>>
             /\ d \in Recall /\ WellShaped(d) /\ SameQuery(c, d)
             /\ d.op = "vector" /\ d.fts = c.fts /\ d.vector = c.vector /\ d.items = <<>>
             /\ ToSet(d.todo) = embeddings
<1> DEFINE c == call[r]
           d == call'[r]
<1>1. /\ c \in Recall /\ c.op = "fts" /\ c.todo = <<>> /\ c.kind # "keyword"
      /\ WellShaped(c)
  BY KindOfCall DEF SelectVectors, CallsTypeOK, TypeInv
<1>2. d = [c EXCEPT !.op = "vector", !.todo = ByCosine(embeddings), !.items = <<>>]
  BY Continued DEF SelectVectors, VectorRows, TypeInv
<1>3. /\ ByCosine(embeddings) \in Seq(Ids) /\ IsInjective(ByCosine(embeddings))
      /\ ToSet(ByCosine(embeddings)) = embeddings
  BY CosineOrder DEF TypeInv, RetrievalTypeOK
<1>4. d \in Recall /\ SameQuery(c, d) /\ d.op = "vector"
      /\ d.fts = c.fts /\ d.vector = c.vector /\ d.items = <<>>
      /\ d.todo = ByCosine(embeddings)
  <2>1. <<>> \in Seq(Item)
    OBVIOUS
  <2>2. SameQuery(c, d) /\ d.op = "vector"
        /\ d.fts = c.fts /\ d.vector = c.vector /\ d.items = <<>>
        /\ d.todo = ByCosine(embeddings)
    BY <1>1, <1>2 DEF Recall, SameQuery
  <2> QED BY <1>1, <1>2, <1>3, <2>1, <2>2 DEF Recall
<1>5. WellShaped(d)
  BY <1>1, <1>3, <1>4, EmptyLists DEF WellShaped, SameQuery
<1> QED BY <1>1, <1>3, <1>4, <1>5

LEMMA ReadVectorRowResult ==
  ASSUME RetrievalTypeOK, CallsTypeOK, NEW r \in Readers, ReadVectorRow(r)
  PROVE  LET c == call[r]
             d == call'[r]
             i == Head(c.todo)
         IN  /\ c \in Recall /\ c.op = "vector" /\ i \in ToSet(c.todo)
             /\ d \in Recall /\ WellShaped(d) /\ SameQuery(c, d)
             /\ d.op = "vector" /\ d.fts = c.fts /\ d.vector = c.vector
             /\ ToSet(d.todo) = ToSet(c.todo) \ {i}
             /\ IF Visible(stored[i], c.public)
                THEN /\ d.items = Append(c.items, Match(i))
                     /\ Members(d.items) = Members(c.items) \cup {i}
                ELSE d.items = c.items
<1> DEFINE c == call[r]
           d == call'[r]
           i == Head(c.todo)
           visible == Visible(stored[i], c.public)
<1>1. /\ c \in Recall /\ c.op = "vector" /\ c.todo # <<>>
      /\ WellShaped(c)
  BY KindOfCall DEF ReadVectorRow, CallsTypeOK
<1>2. d = [c EXCEPT !.todo = Tail(@),
                    !.items = IF visible THEN Append(@, Match(i)) ELSE @]
  BY Continued DEF ReadVectorRow
<1>3. i \in Ids /\ Tail(c.todo) \in Seq(Ids) /\ IsInjective(Tail(c.todo))
      /\ i \in ToSet(c.todo) /\ ToSet(Tail(c.todo)) = ToSet(c.todo) \ {i}
  BY <1>1, HeadAndTail, RecallFields DEF WellShaped
<1>4. Match(i) \in Item /\ Match(i).id = i
  BY <1>3 DEF Match, Item, RetrievalTypeOK
<1>5. CASE visible
  <2>1. /\ d.op = "vector" /\ d.todo = Tail(c.todo) /\ d.vector = c.vector
        /\ d.fts = c.fts /\ d.items = Append(c.items, Match(i))
        /\ SameQuery(c, d)
    BY <1>1, <1>2, <1>5 DEF Recall, SameQuery
  <2>2. /\ d.items \in Seq(Item) /\ IdsOf(d.items) = Append(IdsOf(c.items), i)
        /\ Members(d.items) = Members(c.items) \cup {i}
    BY <1>1, <1>4, <2>1, AppendedItem, RecallFields
  <2>3. IsInjective(IdsOf(d.items))
    <3>1. IdsOf(c.items) \in Seq(Ids) /\ i \notin ToSet(IdsOf(c.items))
      BY <1>1, <1>3, IdsOfItems, RecallFields DEF WellShaped, Members
    <3> QED BY <1>1, <1>3, <2>2, <3>1, AppendedList DEF WellShaped
  <2>4. d \in Recall
    BY <1>1, <1>2, <1>3, <1>5, <2>1, <2>2 DEF Recall
  <2>5. WellShaped(d)
    BY <1>1, <1>3, <2>1, <2>2, <2>3 DEF WellShaped, SameQuery
  <2> QED BY <1>1, <1>3, <1>5, <2>1, <2>2, <2>4, <2>5
<1>6. CASE ~ visible
  <2>1. /\ d.op = "vector" /\ d.todo = Tail(c.todo) /\ d.vector = c.vector
        /\ d.fts = c.fts /\ d.items = c.items
        /\ SameQuery(c, d)
    BY <1>1, <1>2, <1>6 DEF Recall, SameQuery
  <2>2. d \in Recall
    BY <1>1, <1>2, <1>3, <1>6 DEF Recall
  <2>3. WellShaped(d)
    BY <1>1, <1>3, <2>1 DEF WellShaped, SameQuery
  <2> QED BY <1>1, <1>3, <1>6, <2>1, <2>2, <2>3
<1> QED BY <1>5, <1>6

(* scoreMap has every id of both lists once, the keyword matches first.      *)
LEMMA KeysOfBoth ==
  ASSUME NEW fts \in Seq(Ids), NEW vector \in Seq(Ids), IsInjective(fts), IsInjective(vector)
  PROVE  LET keys == ScoreMapKeys(fts, vector)
             rest == Only(vector, Ids \ ToSet(fts))
         IN  /\ keys \in Seq(Ids) /\ IsInjective(keys)
             /\ rest \in Seq(Ids) /\ IsInjective(rest)
             /\ Len(keys) = Len(fts) + Len(rest)
             /\ \A k \in 1 .. Len(fts) : keys[k] = fts[k]
             /\ \A k \in 1 .. Len(rest) : keys[k + Len(fts)] = rest[k]
             /\ ToSet(rest) = ToSet(vector) \ ToSet(fts)
             /\ ToSet(keys) = ToSet(fts) \cup ToSet(vector)
<1> DEFINE rest == Only(vector, Ids \ ToSet(fts))
           keys == ScoreMapKeys(fts, vector)
<1>1. rest \in Seq(Ids) /\ IsInjective(rest) /\ ToSet(rest) = ToSet(vector) \ ToSet(fts)
  <2>1. ToSet(vector) \subseteq Ids
    BY DEF ToSet
  <2>2. rest \in Seq(Ids) /\ IsInjective(rest)
        /\ ToSet(rest) = ToSet(vector) \cap (Ids \ ToSet(fts))
    BY FilteredList
  <2> HIDE DEF rest
  <2> QED BY <2>1, <2>2
<1>2. keys = fts \o rest
  BY DEF ScoreMapKeys
<1> HIDE DEF rest, keys
<1>3. /\ keys \in Seq(Ids) /\ Len(keys) = Len(fts) + Len(rest)
      /\ Len(fts) \in Nat /\ Len(rest) \in Nat
      /\ \A k \in 1 .. Len(fts) : keys[k] = fts[k]
  BY <1>1, <1>2
<1>4. ASSUME NEW k \in 1 .. Len(rest)
      PROVE  /\ k + Len(fts) \in 1 .. Len(fts) + Len(rest) /\ ~ (k + Len(fts) <= Len(fts))
             /\ keys[k + Len(fts)] = rest[k]
  BY <1>1, <1>2, <1>3
<1>5. ASSUME NEW m \in 1 .. Len(keys)
      PROVE  m \in 1 .. Len(fts) \/ \E k \in 1 .. Len(rest) : m = k + Len(fts)
  <2>1. CASE m > Len(fts)
    <3>1. m - Len(fts) \in 1 .. Len(rest) /\ m = (m - Len(fts)) + Len(fts)
      BY <1>3, <2>1
    <3> QED BY <3>1
  <2> QED BY <1>3, <2>1
<1>6. \A k \in 1 .. Len(rest) : rest[k] \in ToSet(vector) \ ToSet(fts)
  BY <1>1 DEF ToSet
<1>7. \A k \in 1 .. Len(fts) : fts[k] \in ToSet(fts)
  BY DEF ToSet
<1>8. ToSet(keys) = ToSet(fts) \cup ToSet(vector)
  <2>1. ASSUME NEW x \in ToSet(keys) PROVE x \in ToSet(fts) \cup ToSet(vector)
    <3>1. PICK m \in 1 .. Len(keys) : x = keys[m]
      BY <1>3 DEF ToSet
    <3> QED BY <1>3, <1>4, <1>5, <1>6, <1>7, <3>1
  <2>2. ASSUME NEW x \in ToSet(fts) PROVE x \in ToSet(keys)
    <3>1. PICK k \in 1 .. Len(fts) : x = fts[k]
      BY DEF ToSet
    <3>2. k \in 1 .. Len(keys) /\ keys[k] = x
      BY <1>3, <3>1
    <3> QED BY <1>3, <3>2 DEF ToSet
  <2>3. ASSUME NEW x \in ToSet(rest) PROVE x \in ToSet(keys)
    <3>1. PICK k \in 1 .. Len(rest) : x = rest[k]
      BY <1>1 DEF ToSet
    <3>2. k + Len(fts) \in 1 .. Len(keys) /\ keys[k + Len(fts)] = x
      BY <1>3, <1>4, <3>1
    <3> QED BY <1>3, <3>2 DEF ToSet
  <2> QED BY <1>1, <2>1, <2>2, <2>3
<1>9. IsInjective(keys)
  <2> SUFFICES ASSUME NEW a \in 1 .. Len(keys), NEW b \in 1 .. Len(keys), keys[a] = keys[b]
               PROVE  a = b
    BY <1>3 DEF IsInjective
  <2>1. CASE a \in 1 .. Len(fts) /\ b \in 1 .. Len(fts)
    <3>1. fts[a] = fts[b]
      BY <1>3, <2>1
    <3> QED BY <2>1, <3>1 DEF IsInjective
  <2>2. CASE \E k \in 1 .. Len(rest) : a = k + Len(fts)
    <3>1. PICK k \in 1 .. Len(rest) : a = k + Len(fts)
      BY <2>2
    <3>2. b \notin 1 .. Len(fts)
      BY <1>3, <1>4, <1>6, <1>7, <3>1
    <3>3. PICK m \in 1 .. Len(rest) : b = m + Len(fts)
      BY <1>5, <3>2
    <3>4. rest[k] = rest[m]
      BY <1>4, <3>1, <3>3
    <3>5. k = m
      BY <1>1, <3>4 DEF IsInjective
    <3> QED BY <3>1, <3>3, <3>5
  <2>3. CASE \E k \in 1 .. Len(rest) : b = k + Len(fts)
    <3>1. PICK k \in 1 .. Len(rest) : b = k + Len(fts)
      BY <2>3
    <3>2. a \notin 1 .. Len(fts)
      BY <1>3, <1>4, <1>6, <1>7, <3>1
    <3> QED BY <1>5, <2>2, <3>2
  <2> QED BY <1>5, <2>1, <2>2, <2>3
<1> QED BY <1>1, <1>3, <1>4, <1>8, <1>9 DEF rest, keys

(* The ten weights, one by one.                                              *)
LEMMA TenWeights ==
  ASSUME NEW alpha \in 0 .. 10
  PROVE  \/ alpha = 0 \/ alpha = 1 \/ alpha = 2 \/ alpha = 3 \/ alpha = 4 \/ alpha = 5
         \/ alpha = 6 \/ alpha = 7 \/ alpha = 8 \/ alpha = 9 \/ alpha = 10
OBVIOUS

LEMMA WeighedType ==
  ASSUME NEW alpha \in 0 .. 10, NEW k \in Nat
  PROVE  alpha * k \in Nat /\ (10 - alpha) * k \in Nat /\ alpha * k + (10 - alpha) * k = 10 * k
BY TenWeights

LEMMA ContributionType ==
  ASSUME NEW list \in Seq(Ids), NEW i
  PROVE  /\ Contribution(list, i) \in Nat
         /\ i \in ToSet(list) => /\ Position(list, i) \in 1 .. Len(list)
                                /\ Contribution(list, i) = Unit \div (60 + Position(list, i))
<1>1. CASE i \in ToSet(list)
  <2>1. Position(list, i) \in Nat \ {0} /\ Position(list, i) \in 1 .. Len(list)
    BY <1>1, PositionOf
  <2>2. Unit \div (60 + Position(list, i)) \in Nat
    BY <2>1 DEF Unit
  <2> QED BY <1>1, <2>1, <2>2 DEF Contribution
<1>2. CASE i \notin ToSet(list)
  BY <1>2 DEF Contribution
<1> QED BY <1>1, <1>2

LEMMA FusedType ==
  ASSUME NEW alpha \in 0 .. 10, NEW fts \in Seq(Ids), NEW vector \in Seq(Ids), NEW i
  PROVE  Fused(alpha, fts, vector, i) \in Nat
<1>1. Contribution(fts, i) \in Nat /\ Contribution(vector, i) \in Nat
  BY ContributionType
<1>2. alpha * Contribution(fts, i) \in Nat /\ (10 - alpha) * Contribution(vector, i) \in Nat
  BY <1>1, WeighedType
<1> QED BY <1>2 DEF Fused

LEMMA FuseResult ==
  ASSUME QueryAssumption, CallsTypeOK, NEW r \in Readers, Fuse(r)
  PROVE  LET c == call[r]
             d == call'[r]
             matches == UpTo(SearchLimit(c), c.items)
         IN  /\ c \in Recall /\ c.op = "vector" /\ c.todo = <<>>
             /\ d \in Recall /\ WellShaped(d) /\ SameQuery(c, d)
             /\ d.op = "hydrate" /\ d.fts = c.fts /\ d.vector = IdsOf(matches)
             /\ matches \in Seq(Item) /\ Len(d.vector) <= SearchLimit(c)
             /\ ToSet(d.todo) = ToSet(d.fts) \ ToSet(d.vector)
             /\ \A k \in 1 .. Len(d.items) : d.items[k].id \in ToSet(d.vector) =>
                  \E m \in 1 .. Len(matches) : /\ d.items[k].id = matches[m].id
                                               /\ d.items[k].primitive = matches[m].primitive
<1> DEFINE c == call[r]
           d == call'[r]
           matches == UpTo(SearchLimit(c), c.items)
           vector == [k \in DOMAIN matches |-> matches[k].id]
           ids == ScoreMapKeys(c.fts, vector)
           Entry(i) ==
             [ id |-> i, score |-> Fused(c.alpha, c.fts, vector, i), weight |-> 2, seen |-> 0,
               primitive |-> IF i \in ToSet(vector)
                             THEN matches[Position(vector, i)].primitive ELSE None ]
           todo == Only(c.fts, Ids \ ToSet(vector))
           entries == [k \in DOMAIN ids |-> Entry(ids[k])]
<1>1. /\ c \in Recall /\ c.op = "vector" /\ c.todo = <<>>
      /\ WellShaped(c)
  BY KindOfCall DEF Fuse, CallsTypeOK
<1>2. d = [c EXCEPT !.op = "hydrate", !.vector = vector, !.items = entries, !.todo = todo]
  BY Continued DEF Fuse
<1>3. SearchLimit(c) \in Nat /\ c.items \in Seq(Item) /\ c.fts \in Seq(Ids) /\ IsInjective(c.fts)
  BY <1>1, RecallFields, SearchLimits DEF WellShaped
<1>4. /\ matches \in Seq(Item) /\ Len(matches) \in Nat /\ DOMAIN matches = 1 .. Len(matches)
      /\ \A k \in 1 .. Len(matches) : k \in 1 .. Len(c.items) /\ matches[k] = c.items[k]
      /\ Len(matches) <= SearchLimit(c)
  <2> HIDE DEF c
  <2>1. /\ matches \in Seq(Item) /\ Len(matches) <= SearchLimit(c)
        /\ \A k \in 1 .. Len(matches) : k \in 1 .. Len(c.items) /\ matches[k] = c.items[k]
    BY <1>3, Page
  <2> HIDE DEF matches
  <2> QED BY <2>1
<1>5. vector = IdsOf(matches)
  BY DEF IdsOf
<1>6. vector \in Seq(Ids) /\ Len(vector) = Len(matches)
  <2> HIDE DEF vector, matches
  <2> QED BY <1>4, <1>5, IdsOfItems
<1>7. IsInjective(vector)
  BY <1>1, <1>3, <1>5, InjectivePage DEF WellShaped
<1>8. ids \in Seq(Ids) /\ IsInjective(ids) /\ DOMAIN ids = 1 .. Len(ids) /\ Len(ids) \in Nat
  <2> HIDE DEF vector, c
  <2>1. ids \in Seq(Ids) /\ IsInjective(ids)
    BY <1>3, <1>6, <1>7, KeysOfBoth
  <2> HIDE DEF ids
  <2> QED BY <2>1
<1>9. /\ todo \in Seq(Ids) /\ IsInjective(todo)
      /\ ToSet(todo) = ToSet(c.fts) \ ToSet(vector)
  <2> HIDE DEF vector, c
  <2>1. ToSet(c.fts) \subseteq Ids
    BY <1>3 DEF ToSet
  <2>2. /\ todo \in Seq(Ids) /\ IsInjective(todo)
        /\ ToSet(todo) = ToSet(c.fts) \cap (Ids \ ToSet(vector))
    BY <1>3, FilteredList
  <2> QED BY <2>1, <2>2
<1>10. ASSUME NEW i \in Ids
       PROVE  /\ Entry(i) \in Item /\ Entry(i).id = i
              /\ Entry(i).score = Fused(c.alpha, c.fts, vector, i)
              /\ i \in ToSet(vector) =>
                   \E m \in 1 .. Len(matches) : /\ i = matches[m].id
                                                /\ Entry(i).primitive = matches[m].primitive
  <2> HIDE DEF vector, c, matches
  <2>1. Fused(c.alpha, c.fts, vector, i) \in Nat
    <3>1. c.alpha \in 0 .. 10
      BY <1>1, RecallFields
    <3> QED BY <1>3, <1>6, <3>1, FusedType
  <2>2. i \in ToSet(vector) => /\ Position(vector, i) \in 1 .. Len(matches)
                               /\ i = matches[Position(vector, i)].id
    BY <1>4, <1>5, <1>6, PositionOf, IdsOfItems
  <2>3. \A m \in 1 .. Len(matches) : matches[m].primitive \in Tiers \cup {None}
    <3>1. \A m \in 1 .. Len(matches) : matches[m] \in Item
      BY <1>4
    <3> QED BY <3>1 DEF Item
  <2> QED BY <2>1, <2>2, <2>3 DEF Item
<1>11. /\ entries \in Seq(Item) /\ Len(entries) = Len(ids)
       /\ \A k \in 1 .. Len(ids) : ids[k] \in Ids /\ entries[k] = Entry(ids[k])
  <2> HIDE DEF ids, Entry
  <2>1. \A k \in 1 .. Len(ids) : ids[k] \in Ids
    BY <1>8
  <2>2. \A k \in 1 .. Len(ids) : Entry(ids[k]) \in Item
    BY <1>10, <2>1
  <2> QED BY <1>8, <2>1, <2>2
<1>12. IdsOf(entries) = ids
  <2> HIDE DEF ids, entries, Entry
  <2>1. IdsOf(entries) \in Seq(Ids) /\ Len(IdsOf(entries)) = Len(ids)
        /\ \A k \in 1 .. Len(ids) : IdsOf(entries)[k] = entries[k].id
    BY <1>11, IdsOfItems
  <2>2. \A k \in 1 .. Len(ids) : IdsOf(entries)[k] = ids[k]
    BY <1>10, <1>11, <2>1
  <2> QED BY <1>8, <2>1, <2>2, SeqEqualLists
<1>13. /\ SameQuery(c, d) /\ d.op = "hydrate" /\ d.fts = c.fts /\ d.vector = vector
       /\ d.items = entries /\ d.todo = todo /\ d \in Recall
  <2> HIDE DEF vector, entries, todo, d
  <2> QED BY <1>1, <1>2, <1>6, <1>9, <1>11 DEF Recall, SameQuery
<1> HIDE DEF vector, entries, todo, d, ids, Entry, matches, c
<1>14. \A k \in 1 .. Len(d.items) :
         d.items[k].score = Fused(d.alpha, d.fts, d.vector, d.items[k].id)
  <2>1. d.alpha = c.alpha
    BY <1>13 DEF SameQuery
  <2> QED BY <1>10, <1>11, <1>13, <2>1
<1>15. WellShaped(d)
  BY <1>1, <1>3, <1>7, <1>8, <1>9, <1>12, <1>13, <1>14 DEF WellShaped, SameQuery, ids
<1>16. \A k \in 1 .. Len(d.items) : d.items[k].id \in ToSet(d.vector) =>
         \E m \in 1 .. Len(matches) : /\ d.items[k].id = matches[m].id
                                      /\ d.items[k].primitive = matches[m].primitive
  <2> SUFFICES ASSUME NEW k \in 1 .. Len(ids), entries[k].id \in ToSet(vector)
               PROVE  \E m \in 1 .. Len(matches) : /\ entries[k].id = matches[m].id
                                                   /\ entries[k].primitive = matches[m].primitive
    BY <1>11, <1>13
  <2>1. ids[k] \in Ids /\ entries[k] = Entry(ids[k]) /\ ids[k] \in ToSet(vector)
    BY <1>10, <1>11
  <2> QED BY <1>10, <2>1
<1> QED BY <1>1, <1>4, <1>5, <1>6, <1>9, <1>13, <1>15, <1>16 DEF c, d, matches

(* Entries that change in place keep their ids.                              *)
LEMMA EditedItems ==
  ASSUME NEW items \in Seq(Item), NEW edited \in Seq(Item), Len(edited) = Len(items),
         \A k \in 1 .. Len(items) : edited[k].id = items[k].id
  PROVE  IdsOf(edited) = IdsOf(items) /\ Members(edited) = Members(items)
<1>1. \A k \in 1 .. Len(items) : IdsOf(edited)[k] = IdsOf(items)[k]
  BY IdsOfItems
<1>2. IdsOf(edited) = IdsOf(items)
  BY <1>1, IdsOfItems, SeqEqualLists
<1> QED BY <1>2 DEF Members

LEMMA HydrateResult ==
  ASSUME RetrievalTypeOK, CallsTypeOK, NEW r \in Readers, Hydrate(r)
  PROVE  LET c == call[r]
             d == call'[r]
             i == Head(c.todo)
         IN  /\ c \in Recall /\ c.op = "hydrate" /\ i \in ToSet(c.todo)
             /\ d \in Recall /\ WellShaped(d) /\ SameQuery(c, d)
             /\ d.op = "hydrate" /\ d.fts = c.fts /\ d.vector = c.vector
             /\ ToSet(d.todo) = ToSet(c.todo) \ {i}
             /\ Len(d.items) = Len(c.items) /\ Members(d.items) = Members(c.items)
             /\ \A k \in 1 .. Len(c.items) :
                  /\ d.items[k].id = c.items[k].id
                  /\ d.items[k].primitive =
                       IF c.items[k].id = i THEN stored[i] ELSE c.items[k].primitive
<1> DEFINE c == call[r]
           d == call'[r]
           i == Head(c.todo)
           edited == [k \in DOMAIN c.items |->
                        IF c.items[k].id = i THEN [c.items[k] EXCEPT !.primitive = stored[i]]
                        ELSE c.items[k]]
<1>1. /\ c \in Recall /\ c.op = "hydrate" /\ c.todo # <<>>
      /\ WellShaped(c)
  BY KindOfCall DEF Hydrate, CallsTypeOK
<1>2. d = [c EXCEPT !.todo = Tail(@), !.items = edited]
  <2>1. Continue(r, [c EXCEPT !.todo = Tail(@), !.items = edited])
    BY DEF Hydrate, InItems
  <2> HIDE DEF edited
  <2> QED BY <2>1, Continued
<1>3. i \in Ids /\ Tail(c.todo) \in Seq(Ids) /\ IsInjective(Tail(c.todo))
      /\ i \in ToSet(c.todo) /\ ToSet(Tail(c.todo)) = ToSet(c.todo) \ {i}
  BY <1>1, HeadAndTail, RecallFields DEF WellShaped
<1>4. c.items \in Seq(Item) /\ stored[i] \in Tiers \cup {None}
  BY <1>1, <1>3, RecallFields DEF RetrievalTypeOK
<1> HIDE DEF c, i
<1>5. ASSUME NEW k \in 1 .. Len(c.items)
      PROVE  /\ edited[k] \in Item /\ edited[k].id = c.items[k].id
             /\ edited[k].score = c.items[k].score
             /\ edited[k].primitive = IF c.items[k].id = i THEN stored[i] ELSE c.items[k].primitive
  <2>1. c.items[k] \in Item /\ k \in DOMAIN c.items
    BY <1>4
  <2>2. edited[k] = IF c.items[k].id = i THEN [c.items[k] EXCEPT !.primitive = stored[i]]
                    ELSE c.items[k]
    BY <2>1
  <2> HIDE DEF edited
  <2> QED BY <1>4, <2>1, <2>2 DEF Item
<1>6. edited \in Seq(Item) /\ Len(edited) = Len(c.items)
  <2>1. DOMAIN c.items = 1 .. Len(c.items) /\ Len(c.items) \in Nat
        /\ DOMAIN edited = DOMAIN c.items /\ edited = [k \in DOMAIN c.items |-> edited[k]]
    BY <1>4
  <2> HIDE DEF edited
  <2> QED BY <1>5, <2>1
<1> HIDE DEF edited
<1>7. IdsOf(edited) = IdsOf(c.items) /\ Members(edited) = Members(c.items)
  BY <1>4, <1>5, <1>6, EditedItems
<1>8. /\ SameQuery(c, d) /\ d.op = "hydrate" /\ d.fts = c.fts /\ d.vector = c.vector
      /\ d.items = edited /\ d.todo = Tail(c.todo) /\ d \in Recall
  <2> HIDE DEF d
  <2> QED BY <1>1, <1>2, <1>3, <1>6 DEF Recall, SameQuery
<1> HIDE DEF d
<1>9. WellShaped(d)
  BY <1>1, <1>3, <1>5, <1>6, <1>7, <1>8 DEF WellShaped, SameQuery
<1> QED BY <1>1, <1>3, <1>5, <1>6, <1>7, <1>8, <1>9 DEF c, d, i

LEMMA ReturnHybridResult ==
  ASSUME QueryAssumption, CallsTypeOK, NEW r \in Readers, ReturnHybrid(r)
  PROVE  LET c == call[r]
             d == call'[r]
             all == Descending(c.items, Scores(c.items))
         IN  /\ c \in Recall /\ c.op = "hydrate" /\ c.todo = <<>>
             /\ d \in Recall /\ WellShaped(d) /\ SameQuery(c, d)
             /\ d.op = (IF c.kind = "hybrid" THEN "recalled" ELSE "lifecycle")
             /\ d.fts = c.fts /\ d.vector = c.vector
             /\ SortedBy(Scores(c.items), c.items, all)
             /\ d.items = UpTo(HybridLimit(c), all)
             /\ \A k \in 1 .. Len(d.items) : \E m \in 1 .. Len(c.items) : d.items[k] = c.items[m]
             /\ Len(d.items) < HybridLimit(c) => Members(d.items) = Members(c.items)
<1> DEFINE c == call[r]
           d == call'[r]
           all == Descending(c.items, Scores(c.items))
           results == UpTo(HybridLimit(c), all)
           op == IF c.kind = "hybrid" THEN "recalled" ELSE "lifecycle"
           todo == IF c.kind = "hybrid" THEN <<>> ELSE [k \in DOMAIN results |-> results[k].id]
<1>1. /\ c \in Recall /\ c.op = "hydrate" /\ c.todo = <<>>
      /\ WellShaped(c)
  BY KindOfCall DEF ReturnHybrid, CallsTypeOK
<1>2. d = [c EXCEPT !.op = op, !.items = results, !.todo = todo]
  BY Continued DEF ReturnHybrid
<1>3. c.items \in Seq(Item) /\ HybridLimit(c) \in Nat
  BY <1>1, RecallFields, SearchLimits
<1>4. SortedBy(Scores(c.items), c.items, all)
  BY <1>3, DescendingSorts, KeysAreNaturals
<1> HIDE DEF all
<1>5. /\ all \in Seq(Item)
      /\ \A k \in 1 .. Len(all) : \E m \in 1 .. Len(c.items) : all[k] = c.items[m]
      /\ Members(all) = Members(c.items)
      /\ IsInjective(IdsOf(all))
  <2>1. IsInjective(IdsOf(c.items))
    BY <1>1 DEF WellShaped
  <2> DEFINE key == Scores(c.items)
             items == c.items
  <2>2. items \in Seq(Item) /\ SortedBy(key, items, all) /\ IsInjective(IdsOf(items))
    BY <1>3, <1>4, <2>1
  <2> HIDE DEF c, key, items
  <2>3. /\ all \in Seq(Item) /\ Len(all) = Len(items)
        /\ \A k \in 1 .. Len(all) : \E m \in 1 .. Len(items) : all[k] = items[m]
        /\ Members(all) = Members(items)
        /\ IsInjective(IdsOf(all))
    BY <2>2, SortingPermutes
  <2> QED BY <2>3 DEF items
<1>6. /\ results \in Seq(Item)
      /\ \A k \in 1 .. Len(results) : k \in 1 .. Len(all) /\ results[k] = all[k]
      /\ Len(results) < HybridLimit(c) => results = all
  BY <1>3, <1>5, Page
<1>7. IsInjective(IdsOf(results))
  BY <1>3, <1>5, InjectivePage
<1>8. todo \in Seq(Ids)
  <2>1. <<>> \in Seq(Ids)
    OBVIOUS
  <2> HIDE DEF results
  <2> QED BY <1>6, <2>1, IdsOfItems DEF IdsOf
<1>9. /\ SameQuery(c, d) /\ d.op = op /\ d.fts = c.fts /\ d.vector = c.vector
      /\ d.items = results /\ d.todo = todo
  <2> HIDE DEF d, results, todo, op
  <2> QED BY <1>1, <1>2 DEF Recall, SameQuery
<1>10. d \in Recall
  <2>1. op \in {"recalled", "lifecycle"}
    OBVIOUS
  <2> HIDE DEF d, results, todo, op
  <2> QED BY <1>1, <1>2, <1>6, <1>8, <2>1 DEF Recall
<1>11. /\ d.op \in {"recalled", "lifecycle"}
       /\ d.op = "lifecycle" => d.kind = "ranked"
  <2>1. c.kind \in {"hybrid", "ranked"}
    BY <1>1, RecallFields DEF WellShaped
  <2> QED BY <1>9, <2>1 DEF SameQuery
<1> HIDE DEF results, todo, d
<1>12. WellShaped(d)
  BY <1>1, <1>7, <1>9, <1>11 DEF WellShaped, SameQuery
<1>13. \A k \in 1 .. Len(results) : \E m \in 1 .. Len(c.items) : results[k] = c.items[m]
  BY <1>5, <1>6
<1> QED BY <1>1, <1>4, <1>5, <1>6, <1>9, <1>10, <1>12, <1>13 DEF all, d, results

LEMMA ReadLifecycleResult ==
  ASSUME RetrievalTypeOK, CallsTypeOK, NEW r \in Readers, ReadLifecycle(r)
  PROVE  LET c == call[r]
             d == call'[r]
         IN  /\ c \in Recall /\ c.op = "lifecycle"
             /\ d \in Recall /\ WellShaped(d) /\ SameQuery(c, d)
             /\ d.op = "touch" /\ d.fts = c.fts /\ d.vector = c.vector
             /\ Len(d.items) = Len(c.items) /\ Members(d.items) = Members(c.items)
             /\ \A k \in 1 .. Len(c.items) :
                  /\ d.items[k].id = c.items[k].id
                  /\ d.items[k].primitive = c.items[k].primitive
<1> DEFINE c == call[r]
           d == call'[r]
           i == Head(c.todo)
           row == lifecycle[i]
           weight == IF row # None /\ row.aged THEN 1 ELSE 2
           seen == IF row = None THEN 0 ELSE row.access_count
           edited == [k \in DOMAIN c.items |->
                        IF c.items[k].id = i THEN [c.items[k] EXCEPT !.weight = weight, !.seen = seen]
                        ELSE c.items[k]]
<1>1. /\ c \in Recall /\ c.op = "lifecycle" /\ c.todo # <<>>
      /\ WellShaped(c)
  BY KindOfCall DEF ReadLifecycle, CallsTypeOK
<1>2. d = [c EXCEPT !.op = "touch", !.items = edited]
  <2>1. Continue(r, [c EXCEPT !.op = "touch", !.items = edited])
    BY DEF ReadLifecycle, InItems
  <2> HIDE DEF edited
  <2> QED BY <2>1, Continued
<1>3. c.items \in Seq(Item) /\ i \in Ids
  BY <1>1, RecallFields
<1>4. weight \in {1, 2} /\ seen \in Nat
  <2>1. row \in Lifecycle \cup {None}
    BY <1>3 DEF RetrievalTypeOK
  <2> HIDE DEF row
  <2> QED BY <2>1 DEF Lifecycle
<1> HIDE DEF c, i, row, weight, seen
<1>5. ASSUME NEW k \in 1 .. Len(c.items)
      PROVE  /\ edited[k] \in Item /\ edited[k].id = c.items[k].id
             /\ edited[k].primitive = c.items[k].primitive
  <2>1. c.items[k] \in Item /\ k \in DOMAIN c.items
    BY <1>3
  <2>2. edited[k] = IF c.items[k].id = i
                    THEN [c.items[k] EXCEPT !.weight = weight, !.seen = seen]
                    ELSE c.items[k]
    BY <2>1
  <2> HIDE DEF edited
  <2> QED BY <1>4, <2>1, <2>2 DEF Item
<1>6. edited \in Seq(Item) /\ Len(edited) = Len(c.items)
  <2>1. DOMAIN c.items = 1 .. Len(c.items) /\ Len(c.items) \in Nat
    BY <1>3
  <2>2. edited = [k \in DOMAIN c.items |-> edited[k]]
    OBVIOUS
  <2> HIDE DEF edited
  <2> QED BY <1>5, <2>1, <2>2
<1> HIDE DEF edited
<1>7. IdsOf(edited) = IdsOf(c.items) /\ Members(edited) = Members(c.items)
  BY <1>3, <1>5, <1>6, EditedItems
<1>8. /\ SameQuery(c, d) /\ d.op = "touch" /\ d.fts = c.fts /\ d.vector = c.vector
      /\ d.items = edited /\ d.todo = c.todo /\ d \in Recall
  <2> HIDE DEF d
  <2> QED BY <1>1, <1>2, <1>6 DEF Recall, SameQuery
<1> HIDE DEF d
<1>9. WellShaped(d)
  BY <1>1, <1>7, <1>8 DEF WellShaped, SameQuery
<1> QED BY <1>1, <1>5, <1>6, <1>7, <1>8, <1>9 DEF c, d

LEMMA TouchResult ==
  ASSUME RetrievalTypeOK, CallsTypeOK, NEW r \in Readers, Touch(r)
  PROVE  LET c == call[r]
             d == call'[r]
             i == Head(c.todo)
         IN  /\ c \in Recall /\ c.op = "touch" /\ i \in Ids
             /\ d \in Recall /\ WellShaped(d) /\ SameQuery(c, d)
             /\ d.op \in {"lifecycle", "failed"} /\ d.fts = c.fts /\ d.vector = c.vector
             /\ d.items = c.items
<1> DEFINE c == call[r]
           d == call'[r]
<1>1. /\ c \in Recall /\ c.op = "touch" /\ WellShaped(c) /\ c.todo # <<>>
  BY KindOfCall DEF Touch, CallsTypeOK, WellShaped
<1>2. \/ d = [c EXCEPT !.op = "failed", !.todo = <<>>]
      \/ d = [c EXCEPT !.op = "lifecycle", !.todo = Tail(@)]
  BY Continued DEF Touch
<1>3. Head(c.todo) \in Ids /\ Tail(c.todo) \in Seq(Ids) /\ <<>> \in Seq(Ids)
  BY <1>1, RecallFields
<1> HIDE DEF c, d
<1>4. /\ d.op \in {"lifecycle", "failed"} /\ d.fts = c.fts /\ d.vector = c.vector
      /\ d.items = c.items /\ d \in Recall /\ SameQuery(c, d)
  BY <1>1, <1>2, <1>3 DEF Recall, SameQuery
<1>5. WellShaped(d)
  BY <1>1, <1>4 DEF WellShaped, SameQuery
<1> QED BY <1>1, <1>3, <1>4, <1>5 DEF c, d

LEMMA ReturnRankedResult ==
  ASSUME QueryAssumption, CallsTypeOK, NEW r \in Readers, ReturnRanked(r)
  PROVE  LET c == call[r]
             d == call'[r]
         IN  /\ c \in Recall /\ c.op = "lifecycle" /\ c.todo = <<>>
             /\ d \in Recall /\ WellShaped(d) /\ SameQuery(c, d)
             /\ d.op = "recalled" /\ d.fts = c.fts /\ d.vector = c.vector
             /\ \A k \in 1 .. Len(d.items) : \E m \in 1 .. Len(c.items) : d.items[k] = c.items[m]
             /\ Len(d.items) < c.limit =>
                  Members(d.items) = Members(c.items) /\ Len(d.items) = Len(c.items)
<1> DEFINE c == call[r]
           d == call'[r]
           all == Descending(c.items, WeightedScores(c.items))
           results == UpTo(c.limit, all)
<1>1. /\ c \in Recall /\ c.op = "lifecycle" /\ c.todo = <<>>
      /\ WellShaped(c)
  BY KindOfCall DEF ReturnRanked, CallsTypeOK
<1>2. d = [c EXCEPT !.op = "recalled", !.items = results]
  BY Continued DEF ReturnRanked
<1>3. c.items \in Seq(Item) /\ c.limit \in Nat
  BY <1>1, RecallFields, SearchLimits
<1>4. SortedBy(WeightedScores(c.items), c.items, all)
  BY <1>3, DescendingSorts, KeysAreNaturals
<1> HIDE DEF all
<1>5. /\ all \in Seq(Item) /\ Len(all) = Len(c.items)
      /\ \A k \in 1 .. Len(all) : \E m \in 1 .. Len(c.items) : all[k] = c.items[m]
      /\ Members(all) = Members(c.items)
      /\ IsInjective(IdsOf(all))
  <2>1. IsInjective(IdsOf(c.items))
    BY <1>1 DEF WellShaped
  <2> DEFINE key == WeightedScores(c.items)
             items == c.items
  <2>2. items \in Seq(Item) /\ SortedBy(key, items, all) /\ IsInjective(IdsOf(items))
    BY <1>3, <1>4, <2>1
  <2> HIDE DEF c, key, items
  <2>3. /\ all \in Seq(Item) /\ Len(all) = Len(items)
        /\ \A k \in 1 .. Len(all) : \E m \in 1 .. Len(items) : all[k] = items[m]
        /\ Members(all) = Members(items)
        /\ IsInjective(IdsOf(all))
    BY <2>2, SortingPermutes
  <2> QED BY <2>3 DEF items
<1>6. /\ results \in Seq(Item)
      /\ \A k \in 1 .. Len(results) : k \in 1 .. Len(all) /\ results[k] = all[k]
      /\ Len(results) < c.limit => results = all
  BY <1>3, <1>5, Page
<1>7. IsInjective(IdsOf(results))
  BY <1>3, <1>5, InjectivePage
<1> HIDE DEF results, d, c
<1>8. /\ SameQuery(c, d) /\ d.op = "recalled" /\ d.fts = c.fts /\ d.vector = c.vector
      /\ d.items = results /\ d \in Recall
  BY <1>1, <1>2, <1>6 DEF Recall, SameQuery
<1>9. WellShaped(d)
  BY <1>1, <1>7, <1>8 DEF WellShaped, SameQuery
<1>10. \A k \in 1 .. Len(results) : \E m \in 1 .. Len(c.items) : results[k] = c.items[m]
  BY <1>5, <1>6
<1> QED BY <1>1, <1>5, <1>6, <1>8, <1>9, <1>10 DEF c, d

-----------------------------------------------------------------------------
(* Traversals and comparisons.                                             *)

LEMMA PathRowTypes ==
  ASSUME NEW seed \in Ids, NEW depth \in Nat
  PROVE  /\ PathRows(seed, depth) \subseteq Ids \X Nat
         /\ \A row \in PathRows(seed, depth) : row[2] \in 0 .. depth
<1>1. ASSUME NEW n \in 0 .. depth, NEW p \in PathsFrom(seed, n) PROVE p[n] \in Ids /\ n \in Nat
  BY DEF PathsFrom
<1> QED BY <1>1 DEF PathRows

LEMMA BeginTraverseResult ==
  ASSUME QueryAssumption, CallsTypeOK, NEW r \in Readers, BeginTraverse(r)
  PROVE  LET d == call'[r]
         IN  /\ d \in Walk /\ d.op = "walk"
             /\ d.todo = PathRows(d.seed, d.depth) /\ d.nodes = {}
<1>1. PICK seed \in Ids, maxDepth \in Depths :
        LET depth == IF maxDepth < 3 THEN maxDepth ELSE 3
        IN  Start(r, "walk", [ op |-> "walk", seed |-> seed, depth |-> depth,
                               todo |-> PathRows(seed, depth), nodes |-> {}, edges |-> {} ])
  BY DEF BeginTraverse
<1> DEFINE depth == IF maxDepth < 3 THEN maxDepth ELSE 3
<1>2. depth \in Nat
  BY DEF QueryAssumption
<1>3. call'[r] = [ op |-> "walk", seed |-> seed, depth |-> depth,
                   todo |-> PathRows(seed, depth), nodes |-> {}, edges |-> {} ]
  BY <1>1 DEF Start, CallsTypeOK
<1> HIDE DEF depth
<1>4. PathRows(seed, depth) \subseteq Ids \X Nat
  BY <1>2, PathRowTypes
<1> QED BY <1>2, <1>3, <1>4 DEF Walk

LEMMA ReadNodeResult ==
  ASSUME CallsTypeOK, NEW r \in Readers, ReadNode(r)
  PROVE  LET c == call[r]
             d == call'[r]
         IN  /\ c \in Walk /\ c.op = "walk"
             /\ d \in Walk /\ d.op = "walk" /\ d.seed = c.seed /\ d.depth = c.depth
             /\ \E row \in c.todo :
                  /\ d.todo = c.todo \ {row}
                  /\ d.nodes = IF Visible(stored[row[1]], FALSE) THEN c.nodes \cup {row} ELSE c.nodes
<1> DEFINE c == call[r]
           d == call'[r]
<1>1. c \in Walk /\ c.op = "walk"
  BY KindOfCall DEF ReadNode, CallsTypeOK
<1>2. PICK row \in c.todo :
        Continue(r, [c EXCEPT !.todo = @ \ {row},
                              !.nodes = IF Visible(stored[row[1]], FALSE) THEN @ \cup {row} ELSE @])
  BY DEF ReadNode
<1>3. d = [c EXCEPT !.todo = @ \ {row},
                    !.nodes = IF Visible(stored[row[1]], FALSE) THEN @ \cup {row} ELSE @]
  BY <1>2, Continued
<1> HIDE DEF c, d
<1>4. row \in Ids \X Nat
  BY <1>1 DEF Walk
<1>5. /\ d \in Walk /\ d.op = "walk" /\ d.seed = c.seed /\ d.depth = c.depth
      /\ d.todo = c.todo \ {row}
      /\ d.nodes = IF Visible(stored[row[1]], FALSE) THEN c.nodes \cup {row} ELSE c.nodes
  BY <1>1, <1>3, <1>4 DEF Walk
<1> QED BY <1>1, <1>5 DEF c, d

LEMMA SelectEdgesResult ==
  ASSUME RetrievalTypeOK, CallsTypeOK, NEW r \in Readers, SelectEdges(r)
  PROVE  LET c == call[r]
             d == call'[r]
         IN  /\ c \in Walk /\ c.op = "walk" /\ c.todo = {}
             /\ d \in Walk /\ d.op = "walked" /\ d.seed = c.seed /\ d.depth = c.depth
             /\ d.nodes = c.nodes
             /\ d.edges = { e \in relations :
                              /\ e.sensitivity # "restricted"
                              /\ {e.source, e.target} \subseteq {row[1] : row \in c.nodes} }
<1> DEFINE c == call[r]
           d == call'[r]
           edges == { e \in relations : /\ e.sensitivity # "restricted"
                                        /\ {e.source, e.target} \subseteq {row[1] : row \in c.nodes} }
<1>1. c \in Walk /\ c.op = "walk" /\ c.todo = {}
  BY KindOfCall DEF SelectEdges, CallsTypeOK
<1>2. d = [c EXCEPT !.op = "walked", !.edges = edges]
  BY Continued DEF SelectEdges
<1>3. edges \subseteq Relation
  BY DEF RetrievalTypeOK
<1> HIDE DEF c, d, edges
<1>4. d \in Walk /\ d.op = "walked" /\ d.seed = c.seed /\ d.depth = c.depth
      /\ d.nodes = c.nodes /\ d.edges = edges
  BY <1>1, <1>2, <1>3 DEF Walk
<1> QED BY <1>1, <1>4 DEF c, d, edges

LEMMA VerdictTypes ==
  ASSUME NEW list \in Seq(Memory)
  PROVE  /\ FindContradictions(list) \subseteq Report
         /\ FindDuplicates(list, {}) \subseteq Duplicate
<1>1. \A pair \in PairsInOrder(list) : list[pair[1]] \in Memory /\ list[pair[2]] \in Memory
  BY DEF PairsInOrder
<1>2. ASSUME NEW p \in Memory, NEW q \in Memory
      PROVE  PairContradiction(p, q) \subseteq Report /\ PairDuplicate(p, q, {}) \subseteq Duplicate
  BY DEF PairContradiction, PairDuplicate, Conflict, Report, Duplicate
<1> QED BY <1>1, <1>2 DEF FindContradictions, FindDuplicates

LEMMA BeginCompareResult ==
  ASSUME CallsTypeOK, NEW r \in Readers, BeginCompare(r) \/ BeginScan(r)
  PROVE  LET d == call'[r]
         IN  d \in Comparison /\ d.op = "compare" /\ d.list = <<>>
<1>1. PICK ids \in SUBSET Ids : call'[r] = Comparing(ids)
  <2>1. \A ids : Start(r, "compare", Comparing(ids)) \/ Start(r, "scan", Comparing(ids))
                   => call'[r] = Comparing(ids)
    BY DEF Start, CallsTypeOK
  <2>2. CASE BeginCompare(r)
    BY <2>1, <2>2 DEF BeginCompare
  <2>3. CASE BeginScan(r)
    <3>1. {} \in SUBSET Ids
      OBVIOUS
    <3> QED BY <2>1, <2>3, <3>1 DEF BeginScan
  <2> QED BY <2>2, <2>3
<1>2. <<>> \in Seq(Memory)
  OBVIOUS
<1> QED BY <1>1, <1>2 DEF Comparing, Comparison

LEMMA ReadMemoryResult ==
  ASSUME RetrievalTypeOK, CallsTypeOK, NEW r \in Readers, ReadMemory(r)
  PROVE  LET c == call[r]
             d == call'[r]
         IN  /\ c \in Comparison /\ c.op = "compare"
             /\ d \in Comparison /\ d.op = "compare"
             /\ \E i \in c.todo :
                  /\ i \in Ids /\ d.todo = c.todo \ {i}
                  /\ d.list = IF Visible(stored[i], FALSE) THEN Append(c.list, content[i]) ELSE c.list
<1> DEFINE c == call[r]
           d == call'[r]
<1>1. c \in Comparison /\ c.op = "compare"
  BY KindOfCall DEF ReadMemory, CallsTypeOK
<1>2. PICK i \in c.todo :
        Continue(r, [c EXCEPT !.todo = @ \ {i},
                              !.list = IF Visible(stored[i], FALSE) THEN Append(@, content[i]) ELSE @])
  BY DEF ReadMemory
<1>3. d = [c EXCEPT !.todo = @ \ {i},
                    !.list = IF Visible(stored[i], FALSE) THEN Append(@, content[i]) ELSE @]
  BY <1>2, Continued
<1> HIDE DEF c, d
<1>4. i \in Ids /\ c.list \in Seq(Memory)
  BY <1>1 DEF Comparison
<1>5. Append(c.list, content[i]) \in Seq(Memory)
  BY <1>4 DEF RetrievalTypeOK
<1>6. /\ d \in Comparison /\ d.op = "compare" /\ d.todo = c.todo \ {i}
      /\ d.list = IF Visible(stored[i], FALSE) THEN Append(c.list, content[i]) ELSE c.list
  BY <1>1, <1>3, <1>5 DEF Comparison
<1> QED BY <1>1, <1>4, <1>6 DEF c, d

LEMMA CompareResult ==
  ASSUME CallsTypeOK, NEW r \in Readers, Compare(r)
  PROVE  LET c == call[r]
             d == call'[r]
         IN  /\ c \in Comparison /\ c.op = "compare"
             /\ d \in Comparison /\ d.op = "compared" /\ d.list = c.list /\ d.todo = c.todo
             /\ d.duplicates = FindDuplicates(c.list, {})
             /\ d.contradictions = FindContradictions(c.list)
<1> DEFINE c == call[r]
           d == call'[r]
<1>1. c \in Comparison /\ c.op = "compare"
  BY KindOfCall DEF Compare, CallsTypeOK
<1>2. d = [c EXCEPT !.op = "compared",
                    !.duplicates = FindDuplicates(c.list, {}),
                    !.contradictions = FindContradictions(c.list)]
  BY Continued DEF Compare
<1> HIDE DEF c, d
<1>3. c.list \in Seq(Memory)
  BY <1>1 DEF Comparison
<1>4. /\ FindContradictions(c.list) \subseteq Report
      /\ FindDuplicates(c.list, {}) \subseteq Duplicate
  BY <1>3, VerdictTypes
<1>5. /\ d \in Comparison /\ d.op = "compared" /\ d.list = c.list /\ d.todo = c.todo
      /\ d.duplicates = FindDuplicates(c.list, {})
      /\ d.contradictions = FindContradictions(c.list)
  BY <1>1, <1>2, <1>4 DEF Comparison
<1> QED BY <1>1, <1>5 DEF c, d

-----------------------------------------------------------------------------
(* What a step leaves alone.                                               *)

Reads(r) == RecallStep(r) \/ WalkStep(r) \/ CompareStep(r)

LEMMA ReaderFrame ==
  ASSUME QueryAssumption, RetrievalTypeOK, NEW r \in Readers, Reads(r)
  PROVE  /\ UNCHANGED <<stored, content, relations, embeddings>>
         /\ call' = [call EXCEPT ![r] = call'[r]]
         /\ \A q \in Readers \ {r} : call'[q] = call[q] /\ changed'[q] = changed[q]
         /\ Free(r) \/ changed' = changed
         /\ changed' \in [Readers -> SUBSET Ids]
         /\ budget' \in [calls : 0 .. MaxCalls, writes : 0 .. MaxWrites]
         /\ \/ lifecycle' = lifecycle /\ touches' = touches
            \/ Touch(r)
<1> DEFINE Frame ==
             /\ UNCHANGED <<stored, content, relations, embeddings>>
             /\ \E d : call' = [call EXCEPT ![r] = d]
             /\ \/ changed' = changed /\ budget' = budget
                \/ /\ Free(r) /\ changed' = [changed EXCEPT ![r] = {}]
                   /\ budget.calls > 0 /\ budget' = [budget EXCEPT !.calls = @ - 1]
             /\ \/ lifecycle' = lifecycle /\ touches' = touches
                \/ Touch(r)
<1>1. ASSUME NEW d, Continue(r, d), UNCHANGED <<tables, touches>> PROVE Frame
  BY <1>1 DEF Continue, tables
<1>2. ASSUME NEW op, NEW d, Start(r, op, d) PROVE Frame
  BY <1>2 DEF Start, tables
<1>3. ASSUME Touch(r) PROVE Frame
  <2>1. UNCHANGED <<stored, content, relations, embeddings>>
    BY <1>3 DEF Touch, tables
  <2>2. \E d : Continue(r, d)
    BY <1>3, Zenon DEF Touch
  <2> QED BY <1>3, <2>1, <2>2 DEF Continue
<1> HIDE DEF Frame
<1>4. ASSUME RecallStep(r) PROVE Frame
  <2>1. CASE BeginRecall(r)
    BY <1>2, <2>1, Zenon DEF BeginRecall
  <2>2. CASE ReadFtsRow(r)
    BY <1>1, <2>2, Zenon DEF ReadFtsRow
  <2>3. CASE ReturnKeyword(r)
    BY <1>1, <2>3, Zenon DEF ReturnKeyword
  <2>4. CASE SelectVectors(r)
    BY <1>1, <2>4, Zenon DEF SelectVectors
  <2>5. CASE ReadVectorRow(r)
    BY <1>1, <2>5, Zenon DEF ReadVectorRow
  <2>6. CASE Fuse(r)
    BY <1>1, <2>6, Zenon DEF Fuse
  <2>7. CASE Hydrate(r)
    BY <1>1, <2>7, Zenon DEF Hydrate
  <2>8. CASE ReturnHybrid(r)
    BY <1>1, <2>8, Zenon DEF ReturnHybrid
  <2>9. CASE ReadLifecycle(r)
    BY <1>1, <2>9, Zenon DEF ReadLifecycle
  <2>10. CASE ReturnRanked(r)
    BY <1>1, <2>10, Zenon DEF ReturnRanked
  <2>11. CASE CatchFtsError(r)
    BY <1>1, <2>11, Zenon DEF CatchFtsError
  <2> QED BY <1>3, <1>4, <2>1, <2>2, <2>3, <2>4, <2>5, <2>6, <2>7, <2>8, <2>9, <2>10, <2>11
          DEF RecallStep
<1>5. ASSUME WalkStep(r) PROVE Frame
  <2>1. CASE BeginTraverse(r)
    BY <1>2, <2>1, Zenon DEF BeginTraverse
  <2>2. CASE ReadNode(r)
    BY <1>1, <2>2, Zenon DEF ReadNode
  <2>3. CASE SelectEdges(r)
    BY <1>1, <2>3, Zenon DEF SelectEdges
  <2> QED BY <1>5, <2>1, <2>2, <2>3 DEF WalkStep
<1>6. ASSUME CompareStep(r) PROVE Frame
  <2>1. CASE BeginCompare(r) \/ BeginScan(r)
    BY <1>2, <2>1, Zenon DEF BeginCompare, BeginScan
  <2>2. CASE ReadMemory(r)
    BY <1>1, <2>2, Zenon DEF ReadMemory
  <2>3. CASE Compare(r)
    BY <1>1, <2>3, Zenon DEF Compare
  <2> QED BY <1>6, <2>1, <2>2, <2>3 DEF CompareStep
<1>7. Frame
  BY <1>4, <1>5, <1>6 DEF Reads
<1>8. PICK d : call' = [call EXCEPT ![r] = d]
  BY <1>7 DEF Frame
<1>9. /\ call' = [call EXCEPT ![r] = call'[r]]
      /\ \A q \in Readers \ {r} : call'[q] = call[q]
  BY <1>8 DEF RetrievalTypeOK
<1>10. /\ changed' \in [Readers -> SUBSET Ids]
       /\ \A q \in Readers \ {r} : changed'[q] = changed[q]
  BY <1>7 DEF Frame, RetrievalTypeOK
<1>11. budget' \in [calls : 0 .. MaxCalls, writes : 0 .. MaxWrites]
  <2>1. budget \in [calls : 0 .. MaxCalls, writes : 0 .. MaxWrites]
    BY DEF RetrievalTypeOK
  <2>2. \/ budget' = budget
        \/ budget.calls > 0 /\ budget' = [budget EXCEPT !.calls = @ - 1]
    BY <1>7 DEF Frame
  <2>3. budget.calls > 0 => budget.calls - 1 \in 0 .. MaxCalls
    BY <2>1 DEF QueryAssumption
  <2> QED BY <2>1, <2>2, <2>3
<1> QED BY <1>7, <1>9, <1>10, <1>11 DEF Frame

LEMMA WriterFrame ==
  ASSUME QueryAssumption, RetrievalTypeOK, Write
  PROVE  /\ call' = call /\ content' = content
         /\ budget' \in [calls : 0 .. MaxCalls, writes : 0 .. MaxWrites]
         /\ \E i \in Ids :
              /\ \A q \in Readers : changed'[q] = changed[q] \cup {i}
              /\ \A j \in Ids \ {i} : stored'[j] = stored[j]
         /\ changed' \in [Readers -> SUBSET Ids]
         /\ stored' \in [Ids -> Tiers \cup {None}]
         /\ lifecycle' \in [Ids -> Lifecycle \cup {None}]
         /\ touches' \in [Ids -> Nat]
         /\ relations' \subseteq Relation /\ embeddings' \subseteq Ids
         /\ IsFiniteSet(embeddings) => IsFiniteSet(embeddings')
<1>1. PICK i \in Ids :
        \/ \E sensitivity \in Tiers : Insert(i, sensitivity)
        \/ Delete(i)
        \/ Embed(i)
  BY DEF Write
<1>2. Writes(i)
  BY <1>1 DEF Insert, Delete, Embed
<1>3. /\ call' = call /\ \A q \in Readers : changed'[q] = changed[q] \cup {i}
      /\ changed' \in [Readers -> SUBSET Ids]
  BY <1>2 DEF Writes, RetrievalTypeOK
<1>4. budget' \in [calls : 0 .. MaxCalls, writes : 0 .. MaxWrites]
  <2>1. budget \in [calls : 0 .. MaxCalls, writes : 0 .. MaxWrites]
    BY DEF RetrievalTypeOK
  <2>2. \/ budget' = budget
        \/ budget.writes > 0 /\ budget' = [budget EXCEPT !.writes = @ - 1]
    BY <1>2 DEF Writes
  <2>3. budget.writes > 0 => budget.writes - 1 \in 0 .. MaxWrites
    BY <2>1 DEF QueryAssumption
  <2> QED BY <2>1, <2>2, <2>3
<1>5. IsFiniteSet(embeddings) =>
        IsFiniteSet(embeddings \ {i}) /\ IsFiniteSet(embeddings \cup {i})
  BY FS_RemoveElement, FS_AddElement
<1>6. [access_count |-> 0, aged |-> FALSE] \in Lifecycle
  BY DEF Lifecycle
<1> DEFINE Kept ==
             /\ content' = content
             /\ \A j \in Ids \ {i} : stored'[j] = stored[j]
             /\ stored' \in [Ids -> Tiers \cup {None}]
             /\ lifecycle' \in [Ids -> Lifecycle \cup {None}]
             /\ touches' \in [Ids -> Nat]
             /\ relations' \subseteq Relation /\ embeddings' \subseteq Ids
             /\ IsFiniteSet(embeddings) => IsFiniteSet(embeddings')
<1>7. Kept
  <2>1. ASSUME NEW sensitivity \in Tiers, Insert(i, sensitivity) PROVE Kept
    BY <1>6, <2>1 DEF Insert, RetrievalTypeOK
  <2>2. CASE Delete(i)
    BY <1>5, <2>2 DEF Delete, RetrievalTypeOK
  <2>3. CASE Embed(i)
    BY <1>5, <2>3 DEF Embed, RetrievalTypeOK
  <2> QED BY <1>1, <2>1, <2>2, <2>3
<1> QED BY <1>3, <1>4, <1>7

-----------------------------------------------------------------------------
(* Type correctness.                                                       *)

LEMMA RecallStays ==
  ASSUME QueryAssumption, TypeInv, NEW r \in Readers, RecallStep(r)
  PROVE  call'[r] \in Recall /\ WellShaped(call'[r])
<1> USE DEF TypeInv
<1>1. CASE BeginRecall(r)
  BY <1>1, BeginRecallResult
<1>2. CASE ReadFtsRow(r)
  BY <1>2, ReadFtsRowResult
<1>3. CASE ReturnKeyword(r)
  BY <1>3, ReturnKeywordResult
<1>4. CASE SelectVectors(r)
  BY <1>4, SelectVectorsResult
<1>5. CASE ReadVectorRow(r)
  BY <1>5, ReadVectorRowResult
<1>6. CASE Fuse(r)
  BY <1>6, FuseResult
<1>7. CASE Hydrate(r)
  BY <1>7, HydrateResult
<1>8. CASE ReturnHybrid(r)
  BY <1>8, ReturnHybridResult
<1>9. CASE ReadLifecycle(r)
  BY <1>9, ReadLifecycleResult
<1>10. CASE Touch(r)
  BY <1>10, TouchResult
<1>11. CASE ReturnRanked(r)
  BY <1>11, ReturnRankedResult
<1>12. CASE CatchFtsError(r)
  BY <1>12, CatchFtsErrorResult
<1> QED BY <1>1, <1>2, <1>3, <1>4, <1>5, <1>6, <1>7, <1>8, <1>9, <1>10, <1>11, <1>12 DEF RecallStep

LEMMA CallTypes ==
  ASSUME QueryAssumption, TypeInv, NEW r \in Readers, Reads(r)
  PROVE  call'[r] \in Recall \cup Walk \cup Comparison /\ WellShaped(call'[r])
<1> USE DEF TypeInv
<1>1. CASE RecallStep(r)
  BY <1>1, RecallStays
<1>2. CASE WalkStep(r)
  <2>1. call'[r] \in Walk
    BY <1>2, BeginTraverseResult, ReadNodeResult, SelectEdgesResult DEF WalkStep
  <2> QED BY <2>1, KindOfCall DEF WellShaped
<1>3. CASE CompareStep(r)
  <2>1. call'[r] \in Comparison
    BY <1>3, BeginCompareResult, ReadMemoryResult, CompareResult DEF CompareStep
  <2> QED BY <2>1, KindOfCall DEF WellShaped
<1> QED BY <1>1, <1>2, <1>3 DEF Reads

(* A touched row counts in the naturals.                                     *)
LEMMA TouchTypes ==
  ASSUME RetrievalTypeOK, CallsTypeOK, NEW r \in Readers, Touch(r)
  PROVE  lifecycle' \in [Ids -> Lifecycle \cup {None}] /\ touches' \in [Ids -> Nat]
<1> DEFINE i == Head(call[r].todo)
           row == lifecycle[i]
           count == IF row = None THEN 1 ELSE row.access_count + 1
<1>1. i \in Ids
  BY TouchResult
<1>2. row \in Lifecycle \cup {None}
  BY <1>1 DEF RetrievalTypeOK
<1>3. [aged |-> FALSE, access_count |-> count] \in Lifecycle
  <2> HIDE DEF row
  <2> QED BY <1>2 DEF Lifecycle
<1>4. \/ lifecycle' = lifecycle /\ touches' = touches
      \/ /\ lifecycle' = [lifecycle EXCEPT ![i] = [aged |-> FALSE, access_count |-> count]]
         /\ touches' = [touches EXCEPT ![i] = @ + 1]
  BY DEF Touch, Counted, tables
<1> HIDE DEF i, row, count
<1>5. touches \in [Ids -> Nat] /\ lifecycle \in [Ids -> Lifecycle \cup {None}]
  BY DEF RetrievalTypeOK
<1>6. touches[i] + 1 \in Nat
  BY <1>1, <1>5
<1> QED BY <1>3, <1>4, <1>5, <1>6

LEMMA TypeInvInit ==
  ASSUME QueryAssumption, WorldAssumption, Init
  PROVE  TypeInv
<1>1. PICK w \in Worlds :
        /\ stored = w.stored
        /\ content = w.content
        /\ relations = w.relations
        /\ embeddings = w.embeddings
        /\ lifecycle = [i \in Ids |-> IF w.stored[i] = None THEN None
                                      ELSE [access_count |-> 0, aged |-> i \in w.aged]]
  BY DEF Init
<1>2. /\ w \in [ stored : [Ids -> Tiers \cup {None}], content : [Ids -> Memory],
                 relations : SUBSET Relation, embeddings : SUBSET Ids, aged : SUBSET Ids ]
      /\ \A i \in Ids : w.content[i].id = i
      /\ IsFiniteSet(w.embeddings)
  BY DEF WorldAssumption
<1>3. \A b \in BOOLEAN : [access_count |-> 0, aged |-> b] \in Lifecycle
  BY DEF Lifecycle
<1>4. call = [r \in Readers |-> Idle] /\ \A r \in Readers : call[r] \notin Recall
  BY KindOfCall DEF Init
<1>5. CallsTypeOK
  BY <1>4 DEF CallsTypeOK, WellShaped
<1>6. budget \in [calls : 0 .. MaxCalls, writes : 0 .. MaxWrites]
  BY DEF Init, QueryAssumption
<1>7. lifecycle \in [Ids -> Lifecycle \cup {None}]
  <2>1. ASSUME NEW i \in Ids PROVE [access_count |-> 0, aged |-> i \in w.aged] \in Lifecycle
    <3>1. (i \in w.aged) \in BOOLEAN
      OBVIOUS
    <3> QED BY <1>3, <3>1, Zenon
  <2> QED BY <1>1, <2>1
<1>8. /\ stored \in [Ids -> Tiers \cup {None}] /\ content \in [Ids -> Memory]
      /\ relations \subseteq Relation /\ embeddings \subseteq Ids
      /\ IsFiniteSet(embeddings) /\ \A i \in Ids : content[i].id = i
  BY <1>1, <1>2
<1>9. changed \in [Readers -> SUBSET Ids] /\ touches \in [Ids -> Nat]
  BY DEF Init
<1> QED BY <1>4, <1>5, <1>6, <1>7, <1>8, <1>9 DEF TypeInv, RetrievalTypeOK, CallsTypeOK

LEMMA TypeInvNext ==
  ASSUME QueryAssumption, TypeInv, [Next]_vars
  PROVE  TypeInv'
<1>1. ASSUME NEW c, WellShaped(c), c \in Recall
      PROVE  IsInjective([k \in DOMAIN c.items |-> c.items[k].id])
  BY <1>1 DEF WellShaped, IdsOf
<1>2. ASSUME NEW r \in Readers, Reads(r) PROVE TypeInv'
  <2>1. /\ UNCHANGED <<stored, content, relations, embeddings>>
        /\ call' = [call EXCEPT ![r] = call'[r]]
        /\ \A q \in Readers \ {r} : call'[q] = call[q]
        /\ changed' \in [Readers -> SUBSET Ids]
        /\ budget' \in [calls : 0 .. MaxCalls, writes : 0 .. MaxWrites]
        /\ \/ lifecycle' = lifecycle /\ touches' = touches
           \/ Touch(r)
    BY <1>2, ReaderFrame DEF TypeInv
  <2>2. call'[r] \in Recall \cup Walk \cup Comparison /\ WellShaped(call'[r])
    BY <1>2, CallTypes
  <2>3. CallsTypeOK'
    <3>1. call' \in [Readers -> {Idle} \cup Recall \cup Walk \cup Comparison]
      BY <2>1, <2>2 DEF TypeInv, CallsTypeOK
    <3>2. \A q \in Readers : WellShaped(call'[q])
      BY <2>1, <2>2 DEF TypeInv, CallsTypeOK
    <3> QED BY <3>1, <3>2 DEF CallsTypeOK
  <2>4. lifecycle' \in [Ids -> Lifecycle \cup {None}] /\ touches' \in [Ids -> Nat]
    BY <2>1, TouchTypes DEF TypeInv, RetrievalTypeOK
  <2>5. \A q \in Readers : call'[q] \in Recall =>
          IsInjective([k \in DOMAIN call'[q].items |-> call'[q].items[k].id])
    BY <1>1, <2>3 DEF CallsTypeOK
  <2> QED BY <2>1, <2>3, <2>4, <2>5 DEF TypeInv, RetrievalTypeOK, CallsTypeOK
<1>3. ASSUME Write PROVE TypeInv'
  BY <1>3, WriterFrame DEF TypeInv, RetrievalTypeOK, CallsTypeOK
<1>4. ASSUME UNCHANGED vars PROVE TypeInv'
  BY <1>4 DEF vars, tables, TypeInv, RetrievalTypeOK, CallsTypeOK
<1> QED BY <1>2, <1>3, <1>4 DEF Next, Reads

THEOREM TypeInvHolds ==
  ASSUME QueryAssumption, WorldAssumption
  PROVE  Spec => []TypeInv
BY TypeInvInit, TypeInvNext, PTL DEF Spec

(* Types: what the calls and the tables hold, and that a combined list has   *)
(* an id once, although the two searches it fuses answer from two moments.   *)
THEOREM RetrievalTypes ==
  ASSUME QueryAssumption, WorldAssumption
  PROVE  Spec => []RetrievalTypeOK
<1>1. TypeInv => RetrievalTypeOK
  BY DEF TypeInv
<1> QED BY <1>1, TypeInvHolds, PTL

-----------------------------------------------------------------------------
(* Accesses.                                                               *)

LEMMA AccessesCountedNext ==
  ASSUME QueryAssumption, TypeInv, AccessesCounted, [Next]_vars
  PROVE  AccessesCounted'
<1>1. ASSUME NEW r \in Readers, Touch(r), UNCHANGED stored PROVE AccessesCounted'
  <2> DEFINE i == Head(call[r].todo)
             row == lifecycle[i]
  <2>1. i \in Ids
    BY <1>1, TouchResult DEF TypeInv
  <2>2. CASE stored[i] = None
    BY <1>1, <2>2 DEF Touch, tables, AccessesCounted
  <2>3. CASE stored[i] # None
    <3>1. row # None /\ row.access_count = touches[i]
      BY <2>1, <2>3 DEF AccessesCounted
    <3>2. /\ lifecycle' = [lifecycle EXCEPT ![i] =
                [aged |-> FALSE, access_count |-> row.access_count + 1]]
          /\ touches' = [touches EXCEPT ![i] = @ + 1]
      BY <1>1, <2>3, <3>1 DEF Touch, Counted
    <3>3. [aged |-> FALSE, access_count |-> row.access_count + 1] # None
      <4>1. row \in Lifecycle
        BY <2>1, <3>1 DEF TypeInv, RetrievalTypeOK
      <4>2. [aged |-> FALSE, access_count |-> row.access_count + 1] \in Lifecycle
        <5> HIDE DEF row
        <5> QED BY <4>1 DEF Lifecycle
      <4> QED BY <4>2 DEF QueryAssumption
    <3> HIDE DEF i, row
    <3> QED BY <1>1, <2>1, <2>3, <3>1, <3>2, <3>3 DEF AccessesCounted, TypeInv, RetrievalTypeOK
  <2> QED BY <2>2, <2>3
<1>2. ASSUME NEW r \in Readers, Reads(r) PROVE AccessesCounted'
  BY <1>1, <1>2, ReaderFrame DEF AccessesCounted, TypeInv
<1>3. ASSUME NEW i \in Ids, NEW sensitivity \in Tiers, Insert(i, sensitivity)
      PROVE  AccessesCounted'
  <2>1. [access_count |-> 0, aged |-> FALSE] # None /\ sensitivity # None
    <3>1. [access_count |-> 0, aged |-> FALSE] \in Lifecycle
      BY DEF Lifecycle
    <3> QED BY <3>1 DEF QueryAssumption
  <2> QED BY <1>3, <2>1 DEF Insert, AccessesCounted, TypeInv, RetrievalTypeOK
<1>4. ASSUME NEW i \in Ids, Delete(i) PROVE AccessesCounted'
  BY <1>4 DEF Delete, AccessesCounted, TypeInv, RetrievalTypeOK
<1>5. ASSUME NEW i \in Ids, Embed(i) PROVE AccessesCounted'
  BY <1>5 DEF Embed, AccessesCounted
<1>6. ASSUME UNCHANGED vars PROVE AccessesCounted'
  BY <1>6 DEF vars, tables, AccessesCounted
<1> QED BY <1>2, <1>3, <1>4, <1>5, <1>6 DEF Next, Reads, Write

(* No access is lost, however many recalls touch a primitive at a time:      *)
(* touchMemoryAccess counts in the statement, not from what it has read.     *)
THEOREM AccessesAreCounted ==
  ASSUME QueryAssumption, WorldAssumption
  PROVE  Spec => []AccessesCounted
<1>1. ASSUME Init PROVE AccessesCounted
  <2>1. PICK w \in Worlds :
          /\ stored = w.stored
          /\ lifecycle = [i \in Ids |-> IF w.stored[i] = None THEN None
                                        ELSE [access_count |-> 0, aged |-> i \in w.aged]]
    BY <1>1 DEF Init
  <2>2. touches = [i \in Ids |-> 0]
    BY <1>1 DEF Init
  <2>3. \A b \in BOOLEAN : [access_count |-> 0, aged |-> b] # None
    BY DEF QueryAssumption, Lifecycle
  <2>4. ASSUME NEW i \in Ids PROVE [access_count |-> 0, aged |-> i \in w.aged] # None
    <3>1. (i \in w.aged) \in BOOLEAN
      OBVIOUS
    <3> QED BY <2>3, <3>1, Zenon
  <2> QED BY <2>1, <2>2, <2>4 DEF AccessesCounted
<1>2. AccessesCounted /\ TypeInv /\ [Next]_vars => AccessesCounted'
  BY AccessesCountedNext
<1> QED BY <1>1, <1>2, TypeInvHolds, PTL DEF Spec

-----------------------------------------------------------------------------
(* What a caller may see.                                                  *)

(* An entry whose id nobody wrote since the call began is visible, unless    *)
(* its primitive is still to be read; what the keyword search found was      *)
(* visible, and still is unless somebody wrote it.                           *)
EntriesVisible(c, written) ==
  \A k \in 1 .. Len(c.items) : c.items[k].id \notin written =>
    \/ Visible(c.items[k].primitive, c.public)
    \/ c.op = "hydrate" /\ c.items[k].id \in ToSet(c.todo)

MatchesVisible(c, written) ==
  c.op \in {"fts", "vector", "hydrate"} =>
    /\ \A i \in ToSet(c.fts) \ written : Visible(stored[i], c.public)
    /\ c.op = "hydrate" => ToSet(c.todo) \subseteq ToSet(c.fts)

SeenVisible(c, written) ==
  c \in Recall => EntriesVisible(c, written) /\ MatchesVisible(c, written)

VisibleInv == \A r \in Readers : SeenVisible(call[r], changed[r])

LEMMA AppendedEntry ==
  ASSUME NEW items \in Seq(Item), NEW x \in Item, NEW k \in 1 .. Len(Append(items, x))
  PROVE  \/ k \in 1 .. Len(items) /\ Append(items, x)[k] = items[k]
         \/ Append(items, x)[k] = x
OBVIOUS

LEMMA MatchType ==
  ASSUME RetrievalTypeOK, NEW i \in Ids
  PROVE  Match(i) \in Item /\ Match(i).id = i /\ Match(i).primitive = stored[i]
BY DEF Match, Item, RetrievalTypeOK

(* The results of a recall step.                                             *)
LEMMA SeenVisibleStep ==
  ASSUME QueryAssumption, TypeInv, VisibleInv, NEW r \in Readers, RecallStep(r)
  PROVE  SeenVisible(call'[r], changed'[r])
<1> DEFINE c == call[r]
           d == call'[r]
           W == changed[r]
           i == Head(c.todo)
<1>1. RetrievalTypeOK /\ CallsTypeOK /\ SeenVisible(c, W)
  BY DEF TypeInv, VisibleInv
<1>2. c.op \notin {"idle", "recalled", "failed", "walked", "compared"} => changed'[r] = W
  <2>1. Free(r) \/ changed' = changed
    BY <1>1, ReaderFrame DEF Reads
  <2> QED BY <2>1 DEF Free
<1>3. CASE BeginRecall(r) \/ CatchFtsError(r)
  <2>1. d.op = "fts" /\ d.fts = <<>> /\ d.items = <<>>
    BY <1>1, <1>3, BeginRecallResult, CatchFtsErrorResult
  <2> HIDE DEF d
  <2>2. Len(d.items) = 0 /\ ToSet(d.fts) = {}
    BY <2>1, EmptyLists
  <2> QED BY <2>1, <2>2 DEF SeenVisible, EntriesVisible, MatchesVisible, d
<1>4. CASE ReadFtsRow(r) \/ ReadVectorRow(r)
  <2>1. /\ c \in Recall /\ c.op \in {"fts", "vector"} /\ i \in Ids
        /\ d \in Recall /\ d.op = c.op /\ d.public = c.public
        /\ \/ /\ Visible(stored[i], c.public) /\ d.items = Append(c.items, Match(i))
              /\ ToSet(d.fts) \subseteq ToSet(c.fts) \cup {i}
           \/ d.items = c.items /\ d.fts = c.fts
    <3>1. CASE ReadFtsRow(r)
      <4>1. c \in Recall /\ i \in ToSet(c.todo) /\ d \in Recall
        BY <1>1, <3>1, ReadFtsRowResult
      <4>2. i \in Ids
        BY <4>1, RecallFields DEF ToSet
      <4> QED BY <1>1, <3>1, <4>1, <4>2, ReadFtsRowResult DEF SameQuery
    <3>2. CASE ReadVectorRow(r)
      <4>1. c \in Recall /\ i \in ToSet(c.todo) /\ d \in Recall
        BY <1>1, <3>2, ReadVectorRowResult
      <4>2. i \in Ids
        BY <4>1, RecallFields DEF ToSet
      <4> QED BY <1>1, <3>2, <4>1, <4>2, ReadVectorRowResult DEF SameQuery
    <3> QED BY <1>4, <3>1, <3>2
  <2>2. changed'[r] = W
    BY <1>2, <2>1
  <2>3. EntriesVisible(c, W) /\ MatchesVisible(c, W) /\ c.items \in Seq(Item)
    BY <1>1, <2>1, RecallFields DEF SeenVisible
  <2>4. Match(i) \in Item /\ Match(i).id = i /\ Match(i).primitive = stored[i]
    BY <1>1, <2>1, MatchType
  <2> HIDE DEF c, d, W, i
  <2>5. EntriesVisible(d, W)
    <3>1. CASE d.items = c.items
      BY <2>1, <2>3, <3>1 DEF EntriesVisible
    <3>2. CASE Visible(stored[i], c.public) /\ d.items = Append(c.items, Match(i))
      <4> SUFFICES ASSUME NEW k \in 1 .. Len(d.items), d.items[k].id \notin W
                   PROVE  Visible(d.items[k].primitive, d.public)
        BY DEF EntriesVisible
      <4>1. CASE k \in 1 .. Len(c.items) /\ d.items[k] = c.items[k]
        BY <2>1, <2>3, <4>1 DEF EntriesVisible
      <4>2. CASE d.items[k] = Match(i)
        BY <2>1, <2>4, <3>2, <4>2
      <4> QED BY <2>3, <2>4, <3>2, <4>1, <4>2, AppendedEntry
    <3> QED BY <2>1, <3>1, <3>2
  <2>6. MatchesVisible(d, W)
    BY <2>1, <2>3 DEF MatchesVisible
  <2> QED BY <2>2, <2>5, <2>6 DEF SeenVisible, d, W
<1>5. CASE ReturnKeyword(r) \/ SelectVectors(r)
  <2>1. /\ c \in Recall /\ c.op = "fts" /\ d \in Recall /\ d.public = c.public
        /\ d.op \in {"recalled", "vector"} /\ d.fts = c.fts
        /\ d.items = c.items \/ d.items = <<>>
    BY <1>1, <1>5, ReturnKeywordResult, SelectVectorsResult DEF SameQuery, TypeInv
  <2>2. changed'[r] = W
    BY <1>2, <2>1
  <2>3. EntriesVisible(c, W) /\ MatchesVisible(c, W)
    BY <1>1, <2>1 DEF SeenVisible
  <2> HIDE DEF c, d, W
  <2>4. EntriesVisible(d, W)
    <3>1. CASE d.items = c.items
      BY <2>1, <2>3, <3>1 DEF EntriesVisible
    <3>2. CASE d.items = <<>>
      BY <3>2 DEF EntriesVisible
    <3> QED BY <2>1, <3>1, <3>2
  <2>5. MatchesVisible(d, W)
    BY <2>1, <2>3 DEF MatchesVisible
  <2> QED BY <2>2, <2>4, <2>5 DEF SeenVisible, d, W
<1>6. CASE Fuse(r)
  <2> DEFINE matches == UpTo(SearchLimit(c), c.items)
  <2>1. /\ c \in Recall /\ c.op = "vector"
        /\ d \in Recall /\ WellShaped(d) /\ d.public = c.public
        /\ d.op = "hydrate" /\ d.fts = c.fts
        /\ matches \in Seq(Item)
        /\ ToSet(d.todo) = ToSet(d.fts) \ ToSet(d.vector)
        /\ \A k \in 1 .. Len(d.items) : d.items[k].id \in ToSet(d.vector) =>
             \E m \in 1 .. Len(matches) : /\ d.items[k].id = matches[m].id
                                          /\ d.items[k].primitive = matches[m].primitive
    BY <1>1, <1>6, FuseResult DEF SameQuery
  <2>2. changed'[r] = W
    BY <1>2, <2>1
  <2>3. EntriesVisible(c, W) /\ MatchesVisible(c, W) /\ c.items \in Seq(Item)
        /\ SearchLimit(c) \in Nat
    BY <1>1, <2>1, RecallFields, SearchLimits DEF SeenVisible
  <2>4. \A m \in 1 .. Len(matches) : m \in 1 .. Len(c.items) /\ matches[m] = c.items[m]
    BY <2>3, Page
  <2> HIDE DEF c, d, W, matches
  <2>5. MatchesVisible(d, W)
    BY <2>1, <2>3 DEF MatchesVisible
  <2>6. \A k \in 1 .. Len(d.items) : d.items[k].id \in ToSet(d.fts) \cup ToSet(d.vector)
    <3>1. IdsOf(d.items) = ScoreMapKeys(d.fts, d.vector) /\ IsInjective(d.fts) /\ IsInjective(d.vector)
      BY <2>1 DEF WellShaped
    <3>2. ToSet(IdsOf(d.items)) = ToSet(d.fts) \cup ToSet(d.vector)
      <4>1. d.fts \in Seq(Ids) /\ d.vector \in Seq(Ids)
        BY <2>1, RecallFields
      <4>2. ToSet(ScoreMapKeys(d.fts, d.vector)) = ToSet(d.fts) \cup ToSet(d.vector)
        BY <3>1, <4>1, KeysOfBoth
      <4> QED BY <3>1, <4>2
    <3>3. Members(d.items) = {d.items[k].id : k \in 1 .. Len(d.items)}
      BY <2>1, IdsOfItems, RecallFields
    <3> QED BY <3>2, <3>3 DEF Members
  <2>7. EntriesVisible(d, W)
    <3> SUFFICES ASSUME NEW k \in 1 .. Len(d.items), d.items[k].id \notin W,
                        d.items[k].id \notin ToSet(d.todo)
                 PROVE  Visible(d.items[k].primitive, d.public)
      BY <2>1 DEF EntriesVisible
    <3>1. d.items[k].id \in ToSet(d.vector)
      BY <2>1, <2>6
    <3>2. PICK m \in 1 .. Len(matches) : /\ d.items[k].id = matches[m].id
                                         /\ d.items[k].primitive = matches[m].primitive
      BY <2>1, <3>1
    <3>3. m \in 1 .. Len(c.items) /\ matches[m] = c.items[m]
      BY <2>4
    <3> QED BY <2>1, <2>3, <3>2, <3>3 DEF EntriesVisible
  <2> QED BY <2>2, <2>5, <2>7 DEF SeenVisible, d, W
<1>7. CASE Hydrate(r)
  <2>1. /\ c \in Recall /\ c.op = "hydrate" /\ i \in ToSet(c.todo)
        /\ d \in Recall /\ d.public = c.public
        /\ d.op = "hydrate" /\ d.fts = c.fts
        /\ ToSet(d.todo) = ToSet(c.todo) \ {i}
        /\ Len(d.items) = Len(c.items)
        /\ \A k \in 1 .. Len(c.items) :
             /\ d.items[k].id = c.items[k].id
             /\ d.items[k].primitive =
                  IF c.items[k].id = i THEN stored[i] ELSE c.items[k].primitive
    BY <1>1, <1>7, HydrateResult DEF SameQuery
  <2>2. changed'[r] = W
    BY <1>2, <2>1
  <2>3. EntriesVisible(c, W) /\ MatchesVisible(c, W)
    BY <1>1, <2>1 DEF SeenVisible
  <2> HIDE DEF c, d, W, i
  <2>4. MatchesVisible(d, W)
    BY <2>1, <2>3 DEF MatchesVisible
  <2>5. i \notin W => Visible(stored[i], c.public)
    BY <2>1, <2>3 DEF MatchesVisible
  <2>6. EntriesVisible(d, W)
    BY <2>1, <2>3, <2>5 DEF EntriesVisible
  <2> QED BY <2>2, <2>4, <2>6 DEF SeenVisible, d, W
<1>8. CASE ReturnHybrid(r) \/ ReadLifecycle(r) \/ Touch(r) \/ ReturnRanked(r)
  <2>1. /\ c \in Recall /\ c.op \in {"hydrate", "lifecycle", "touch"}
        /\ c.op = "hydrate" => c.todo = <<>>
        /\ d \in Recall /\ d.public = c.public
        /\ d.op \in {"lifecycle", "touch", "recalled", "failed"}
        /\ \A k \in 1 .. Len(d.items) : \E m \in 1 .. Len(c.items) :
             /\ d.items[k].id = c.items[m].id /\ d.items[k].primitive = c.items[m].primitive
    <3>1. CASE ReturnHybrid(r)
      BY <1>1, <3>1, ReturnHybridResult DEF SameQuery
    <3>2. CASE ReadLifecycle(r)
      BY <1>1, <3>2, ReadLifecycleResult DEF SameQuery
    <3>3. CASE Touch(r)
      BY <1>1, <3>3, TouchResult DEF SameQuery
    <3>4. CASE ReturnRanked(r)
      BY <1>1, <3>4, ReturnRankedResult DEF SameQuery
    <3> QED BY <1>8, <3>1, <3>2, <3>3, <3>4
  <2>2. changed'[r] = W
    BY <1>2, <2>1
  <2>3. EntriesVisible(c, W)
    BY <1>1, <2>1 DEF SeenVisible
  <2> HIDE DEF c, d, W
  <2>4. \A k \in 1 .. Len(c.items) : c.items[k].id \notin W => Visible(c.items[k].primitive, c.public)
    BY <2>1, <2>3, EmptyLists DEF EntriesVisible
  <2>5. EntriesVisible(d, W) /\ MatchesVisible(d, W)
    BY <2>1, <2>4 DEF EntriesVisible, MatchesVisible
  <2> QED BY <2>2, <2>5 DEF SeenVisible, d, W
<1> QED BY <1>3, <1>4, <1>5, <1>6, <1>7, <1>8 DEF RecallStep

LEMMA VisibleInvNext ==
  ASSUME QueryAssumption, TypeInv, VisibleInv, [Next]_vars
  PROVE  VisibleInv'
<1>1. ASSUME NEW r \in Readers, Reads(r) PROVE VisibleInv'
  <2>1. stored' = stored /\ \A q \in Readers \ {r} : call'[q] = call[q] /\ changed'[q] = changed[q]
    BY <1>1, ReaderFrame DEF TypeInv
  <2>2. SeenVisible(call'[r], changed'[r])
    <3>1. CASE RecallStep(r)
      BY <3>1, SeenVisibleStep
    <3>2. CASE WalkStep(r)
      <4>1. call'[r] \in Walk
        BY <3>2, BeginTraverseResult, ReadNodeResult, SelectEdgesResult DEF WalkStep, TypeInv
      <4> QED BY <4>1, KindOfCall DEF SeenVisible
    <3>3. CASE CompareStep(r)
      <4>1. call'[r] \in Comparison
        BY <3>3, BeginCompareResult, ReadMemoryResult, CompareResult DEF CompareStep, TypeInv
      <4> QED BY <4>1, KindOfCall DEF SeenVisible
    <3> QED BY <1>1, <3>1, <3>2, <3>3 DEF Reads
  <2>3. \A q \in Readers : SeenVisible(call'[q], changed'[q])
    BY <2>1, <2>2 DEF VisibleInv
  <2> QED BY <2>1, <2>3 DEF VisibleInv, SeenVisible, EntriesVisible, MatchesVisible
<1>2. ASSUME Write PROVE VisibleInv'
  <2>1. PICK i \in Ids :
          /\ \A q \in Readers : changed'[q] = changed[q] \cup {i}
          /\ \A j \in Ids \ {i} : stored'[j] = stored[j]
    BY <1>2, WriterFrame DEF TypeInv
  <2>2. call' = call
    BY <1>2, WriterFrame DEF TypeInv
  <2>3. ASSUME NEW c \in Recall, NEW W, SeenVisible(c, W)
        PROVE  /\ EntriesVisible(c, W \cup {i})
               /\ c.op \in {"fts", "vector", "hydrate"} =>
                    /\ \A j \in ToSet(c.fts) \ (W \cup {i}) : Visible(stored'[j], c.public)
                    /\ c.op = "hydrate" => ToSet(c.todo) \subseteq ToSet(c.fts)
    <3>1. ToSet(c.fts) \subseteq Ids
      BY RecallFields DEF ToSet
    <3> QED BY <2>1, <2>3, <3>1 DEF SeenVisible, EntriesVisible, MatchesVisible
  <2> SUFFICES ASSUME NEW q \in Readers, call[q] \in Recall
               PROVE  EntriesVisible(call[q], changed[q])' /\ MatchesVisible(call[q], changed[q])'
    BY <2>2 DEF VisibleInv, SeenVisible
  <2>4. SeenVisible(call[q], changed[q]) /\ changed'[q] = changed[q] \cup {i}
    BY <2>1 DEF VisibleInv
  <2> QED BY <2>2, <2>3, <2>4 DEF EntriesVisible, MatchesVisible
<1>3. ASSUME UNCHANGED vars PROVE VisibleInv'
  BY <1>3 DEF vars, tables, VisibleInv, SeenVisible, EntriesVisible, MatchesVisible
<1> QED BY <1>1, <1>2, <1>3 DEF Next, Reads

(* Nobody gets a primitive it may not see, unless somebody wrote that        *)
(* primitive since the call began: getPrimitive, which searchHybrid calls    *)
(* for the keyword matches, filters nothing, and need not, because           *)
(* searchFTS5 let only visible ones through.                                 *)
THEOREM HitsVisible ==
  ASSUME QueryAssumption, WorldAssumption
  PROVE  Spec => []HitsAreVisible
<1>1. ASSUME Init PROVE VisibleInv
  <2>1. \A r \in Readers : call[r] \notin Recall
    BY <1>1, KindOfCall DEF Init
  <2> QED BY <2>1 DEF VisibleInv, SeenVisible
<1>2. VisibleInv /\ TypeInv /\ [Next]_vars => VisibleInv'
  BY VisibleInvNext
<1>3. VisibleInv /\ TypeInv => HitsAreVisible
  <2> SUFFICES ASSUME VisibleInv, TypeInv, NEW r \in Readers, call[r].op = "recalled",
                      NEW k \in DOMAIN call[r].items, call[r].items[k].id \notin changed[r]
               PROVE  Visible(call[r].items[k].primitive, call[r].public)
    BY DEF HitsAreVisible
  <2>1. call[r] \in Recall
    BY KindOfCall DEF TypeInv, CallsTypeOK
  <2>2. EntriesVisible(call[r], changed[r]) /\ DOMAIN call[r].items = 1 .. Len(call[r].items)
    BY <2>1, RecallFields DEF VisibleInv, SeenVisible
  <2> QED BY <2>2 DEF EntriesVisible
<1> QED BY <1>1, <1>2, <1>3, TypeInvHolds, PTL DEF Spec

-----------------------------------------------------------------------------
(* Fusion.                                                                 *)

(* A rank earns less the lower it is.                                        *)
LEMMA ContributionFalls ==
  ASSUME NEW list \in Seq(Ids), NEW i, NEW j, Ahead(list, i, j)
  PROVE  Contribution(list, j) <= Contribution(list, i)
<1>1. i \in ToSet(list) /\ (j \in ToSet(list) => Position(list, i) < Position(list, j))
  BY DEF Ahead
<1>2. CASE j \in ToSet(list)
  <2>1. /\ Position(list, i) \in Nat \ {0} /\ Position(list, j) \in Nat \ {0}
        /\ 60 + Position(list, i) <= 60 + Position(list, j)
    BY <1>1, <1>2, PositionOf
  <2>2. Unit \in Nat
    BY DEF Unit
  <2>3. Unit \div (60 + Position(list, j)) <= Unit \div (60 + Position(list, i))
    BY <2>1, <2>2, DivisionAntitone
  <2> QED BY <1>1, <1>2, <2>3 DEF Contribution
<1>3. CASE j \notin ToSet(list)
  <2>1. Contribution(list, j) = 0 /\ Contribution(list, i) \in Nat
    BY <1>3, ContributionType DEF Contribution
  <2> QED BY <2>1
<1> QED BY <1>2, <1>3

LEMMA ContributionRange ==
  ASSUME NEW list \in Seq(Ids), NEW i
  PROVE  /\ Contribution(list, i) \in Nat /\ Contribution(list, i) <= 3906
         /\ \A high \in Nat \ {0} : i \in ToSet(list) /\ 60 + Len(list) <= high =>
              Unit \div high <= Contribution(list, i)
<1> DEFINE k == Position(list, i)
<1>1. CASE i \in ToSet(list)
  <2>1. k \in Nat \ {0} /\ k <= Len(list) /\ Len(list) \in Nat
    BY <1>1, PositionOf
  <2>2. Unit \in Nat /\ Unit \div 61 = 3906
    BY DEF Unit
  <2> HIDE DEF k
  <2> DEFINE m == 60 + k
             low == 61
  <2>3. m \in Nat \ {0} /\ low <= m /\ m <= 60 + Len(list) /\ low \in Nat \ {0}
    BY <2>1
  <2>4. Unit \div low = 3906
    BY <2>2
  <2> HIDE DEF m, low
  <2>5. Unit \div m \in Nat /\ Unit \div m <= Unit \div low
    <3>1. Unit \in Nat
      BY <2>2
    <3> QED BY <2>3, <3>1, DivisionAntitone
  <2>6. ASSUME NEW high \in Nat \ {0}, 60 + Len(list) <= high PROVE Unit \div high <= Unit \div m
    <3>1. Unit \in Nat /\ m <= high
      BY <2>1, <2>2, <2>3, <2>6
    <3> QED BY <2>3, <3>1, DivisionAntitone
  <2>7. Contribution(list, i) = Unit \div m
    BY <1>1 DEF Contribution, k, m
  <2> QED BY <2>4, <2>5, <2>6, <2>7
<1>2. CASE i \notin ToSet(list)
  BY <1>2 DEF Contribution
<1> QED BY <1>1, <1>2

(* Weights do not turn what both parts agree on.                             *)
LEMMA WeightedSums ==
  ASSUME NEW alpha \in 0 .. 10, NEW a \in Nat, NEW b \in Nat, NEW x \in Nat, NEW y \in Nat,
         x <= a, y <= b
  PROVE  /\ alpha * x + (10 - alpha) * y \in Nat
         /\ alpha * x + (10 - alpha) * y <= alpha * a + (10 - alpha) * b
BY TenWeights

(* Lists so long that two last places outweigh one first place.              *)
EvenWeights(alpha, fts, vector) ==
  \A list \in {fts, vector} :
    /\ alpha * (60 + Len(list)) < 610
    /\ (10 - alpha) * (60 + Len(list)) < 610

LEMMA TwoOutweighOne ==
  ASSUME NEW alpha \in 0 .. 10, NEW fts \in Seq(Ids), NEW vector \in Seq(Ids),
         EvenWeights(alpha, fts, vector), NEW i \in ToSet(fts) \cap ToSet(vector)
  PROVE  \E low \in Nat :
           /\ low <= Contribution(fts, i) /\ low <= Contribution(vector, i)
           /\ 10 * low > alpha * 3906 /\ 10 * low > (10 - alpha) * 3906
<1> DEFINE m == Len(fts)
           n == Len(vector)
<1>1. /\ m \in Nat /\ n \in Nat
      /\ alpha * (60 + m) < 610 /\ (10 - alpha) * (60 + m) < 610
      /\ alpha * (60 + n) < 610 /\ (10 - alpha) * (60 + n) < 610
  BY DEF EvenWeights
<1>2. m > 0
  <2>1. Position(fts, i) \in 1 .. m
    BY PositionOf
  <2> QED BY <1>1, <2>1
<1>3. ASSUME NEW high \in Nat \ {0}, 60 + m <= high, 60 + n <= high
      PROVE  /\ Unit \div high <= Contribution(fts, i)
             /\ Unit \div high <= Contribution(vector, i)
  BY <1>3, ContributionRange
<1> HIDE DEF m, n
<1>4. CASE alpha \in {0, 10}
  BY <1>1, <1>2, <1>4
<1>5. CASE alpha \in {1, 9}
  <2>1. 60 + m <= 67 /\ 60 + n <= 67
    BY <1>1, <1>5
  <2>2. Unit \div 67 = 3556
    BY DEF Unit
  <2>3. 3556 <= Contribution(fts, i) /\ 3556 <= Contribution(vector, i)
    BY <1>3, <2>1, <2>2
  <2>4. 10 * 3556 > alpha * 3906 /\ 10 * 3556 > (10 - alpha) * 3906
    BY <1>5
  <2> QED BY <2>3, <2>4
<1>6. CASE alpha \in {2, 8}
  <2>1. 60 + m <= 76 /\ 60 + n <= 76
    BY <1>1, <1>6
  <2>2. Unit \div 76 = 3135
    BY DEF Unit
  <2>3. 3135 <= Contribution(fts, i) /\ 3135 <= Contribution(vector, i)
    BY <1>3, <2>1, <2>2
  <2>4. 10 * 3135 > alpha * 3906 /\ 10 * 3135 > (10 - alpha) * 3906
    BY <1>6
  <2> QED BY <2>3, <2>4
<1>7. CASE alpha \in {3, 7}
  <2>1. 60 + m <= 87 /\ 60 + n <= 87
    BY <1>1, <1>7
  <2>2. Unit \div 87 = 2738
    BY DEF Unit
  <2>3. 2738 <= Contribution(fts, i) /\ 2738 <= Contribution(vector, i)
    BY <1>3, <2>1, <2>2
  <2>4. 10 * 2738 > alpha * 3906 /\ 10 * 2738 > (10 - alpha) * 3906
    BY <1>7
  <2> QED BY <2>3, <2>4
<1>8. CASE alpha \in {4, 6}
  <2>1. 60 + m <= 101 /\ 60 + n <= 101
    BY <1>1, <1>8
  <2>2. Unit \div 101 = 2359
    BY DEF Unit
  <2>3. 2359 <= Contribution(fts, i) /\ 2359 <= Contribution(vector, i)
    BY <1>3, <2>1, <2>2
  <2>4. 10 * 2359 > alpha * 3906 /\ 10 * 2359 > (10 - alpha) * 3906
    BY <1>8
  <2> QED BY <2>3, <2>4
<1>9. CASE alpha = 5
  <2>1. 60 + m <= 121 /\ 60 + n <= 121
    BY <1>1, <1>9
  <2>2. Unit \div 121 = 1969
    BY DEF Unit
  <2>3. 1969 <= Contribution(fts, i) /\ 1969 <= Contribution(vector, i)
    BY <1>3, <2>1, <2>2
  <2>4. 10 * 1969 > alpha * 3906 /\ 10 * 1969 > (10 - alpha) * 3906
    BY <1>9
  <2> QED BY <2>3, <2>4
<1> QED BY <1>4, <1>5, <1>6, <1>7, <1>8, <1>9, TenWeights

(* What beats another has the higher fused score, or the same and an earlier *)
(* place in the map.                                                         *)
Outranks(alpha, fts, vector, i, j) ==
  \/ Ahead(fts, i, j) /\ Ahead(vector, i, j)
  \/ /\ EvenWeights(alpha, fts, vector)
     /\ i \in ToSet(fts) \cap ToSet(vector)
     /\ j \notin ToSet(fts) \cap ToSet(vector)

ScoresFollow(alpha, fts, vector, keys) ==
  \A x, y \in 1 .. Len(keys) : Outranks(alpha, fts, vector, keys[x], keys[y]) =>
    \/ Fused(alpha, fts, vector, keys[x]) > Fused(alpha, fts, vector, keys[y])
    \/ Fused(alpha, fts, vector, keys[x]) = Fused(alpha, fts, vector, keys[y]) /\ x < y

LEMMA BeatingScores ==
  ASSUME NEW alpha \in 0 .. 10, NEW fts \in Seq(Ids), NEW vector \in Seq(Ids),
         IsInjective(fts), IsInjective(vector), NEW keys, keys = ScoreMapKeys(fts, vector)
  PROVE  ScoresFollow(alpha, fts, vector, keys)
<1> SUFFICES ASSUME NEW x \in 1 .. Len(keys), NEW y \in 1 .. Len(keys),
                    NEW i, i = keys[x], NEW j, j = keys[y], Outranks(alpha, fts, vector, i, j)
             PROVE  \/ Fused(alpha, fts, vector, i) > Fused(alpha, fts, vector, j)
                    \/ Fused(alpha, fts, vector, i) = Fused(alpha, fts, vector, j) /\ x < y
  BY DEF ScoresFollow
<1>1. /\ keys \in Seq(Ids) /\ IsInjective(keys)
      /\ \A k \in 1 .. Len(fts) : keys[k] = fts[k] /\ k \in 1 .. Len(keys)
      /\ \A k \in 1 .. Len(keys) : keys[k] \in ToSet(fts) \cup ToSet(vector)
  <2>1. /\ keys \in Seq(Ids) /\ IsInjective(keys)
        /\ \A k \in 1 .. Len(fts) : keys[k] = fts[k]
        /\ ToSet(keys) = ToSet(fts) \cup ToSet(vector)
    <3> DEFINE map == ScoreMapKeys(fts, vector)
    <3>1. /\ map \in Seq(Ids) /\ IsInjective(map)
          /\ \A k \in 1 .. Len(fts) : map[k] = fts[k]
          /\ ToSet(map) = ToSet(fts) \cup ToSet(vector)
      BY KeysOfBoth
    <3> QED BY <3>1
  <2>2. Len(keys) >= Len(fts)
    <3>1. /\ Len(keys) = Len(fts) + Len(Only(vector, Ids \ ToSet(fts)))
          /\ Only(vector, Ids \ ToSet(fts)) \in Seq(Ids)
      BY KeysOfBoth
    <3> QED BY <3>1
  <2>3. Len(keys) \in Nat /\ Len(fts) \in Nat /\ DOMAIN keys = 1 .. Len(keys)
    BY <2>1
  <2>4. \A k \in 1 .. Len(keys) : keys[k] \in ToSet(keys)
    BY <2>3 DEF ToSet
  <2> QED BY <2>1, <2>2, <2>3, <2>4
<1>2. /\ Contribution(fts, i) \in Nat /\ Contribution(vector, i) \in Nat
      /\ Contribution(fts, j) \in Nat /\ Contribution(vector, j) \in Nat
      /\ Contribution(fts, j) <= 3906 /\ Contribution(vector, j) <= 3906
  BY ContributionRange
<1>3. CASE Ahead(fts, i, j) /\ Ahead(vector, i, j)
  <2>1. /\ Contribution(fts, j) <= Contribution(fts, i)
        /\ Contribution(vector, j) <= Contribution(vector, i)
    BY <1>3, ContributionFalls
  <2>2. x < y
    <3>1. /\ Position(fts, i) \in 1 .. Len(fts) /\ fts[Position(fts, i)] = i
          /\ j \in ToSet(fts) => /\ Position(fts, j) \in 1 .. Len(fts) /\ fts[Position(fts, j)] = j
                                /\ Position(fts, i) < Position(fts, j)
      BY <1>3, PositionOf DEF Ahead
    <3>2. x = Position(fts, i) /\ (j \in ToSet(fts) => y = Position(fts, j))
      <4>1. DOMAIN keys = 1 .. Len(keys) /\ x \in DOMAIN keys /\ y \in DOMAIN keys
        BY <1>1
      <4>2. keys[Position(fts, i)] = keys[x] /\ Position(fts, i) \in DOMAIN keys
        BY <1>1, <3>1, <4>1
      <4>3. j \in ToSet(fts) => keys[Position(fts, j)] = keys[y] /\ Position(fts, j) \in DOMAIN keys
        BY <1>1, <3>1, <4>1
      <4> QED BY <1>1, <4>1, <4>2, <4>3 DEF IsInjective
    <3>3. ASSUME j \notin ToSet(fts) PROVE y > Len(fts)
      <4>1. y \in 1 .. Len(fts) => keys[y] = fts[y]
        BY <1>1
      <4>2. y \notin 1 .. Len(fts)
        BY <3>3, <4>1 DEF ToSet
      <4> QED BY <1>1, <4>2
    <3> QED BY <3>1, <3>2, <3>3
  <2>3. /\ Fused(alpha, fts, vector, j) \in Nat /\ Fused(alpha, fts, vector, i) \in Nat
        /\ Fused(alpha, fts, vector, j) <= Fused(alpha, fts, vector, i)
    <3> DEFINE a == Contribution(fts, i)
               b == Contribution(vector, i)
               u == Contribution(fts, j)
               v == Contribution(vector, j)
    <3>1. a \in Nat /\ b \in Nat /\ u \in Nat /\ v \in Nat /\ u <= a /\ v <= b
      BY <1>2, <2>1
    <3> HIDE DEF a, b, u, v
    <3>2. alpha * u + (10 - alpha) * v <= alpha * a + (10 - alpha) * b
      BY <3>1, WeightedSums
    <3>3. Fused(alpha, fts, vector, j) <= Fused(alpha, fts, vector, i)
      BY <3>2 DEF Fused, a, b, u, v
    <3> QED BY <3>3, FusedType
  <2> QED BY <2>2, <2>3
<1>4. CASE /\ EvenWeights(alpha, fts, vector)
           /\ i \in ToSet(fts) \cap ToSet(vector)
           /\ j \notin ToSet(fts) \cap ToSet(vector)
  <2> DEFINE a == Contribution(fts, i)
             b == Contribution(vector, i)
             u == Contribution(fts, j)
             v == Contribution(vector, j)
  <2>1. PICK low \in Nat : /\ low <= a /\ low <= b
                           /\ 10 * low > alpha * 3906 /\ 10 * low > (10 - alpha) * 3906
    BY <1>4, TwoOutweighOne
  <2>2. u = 0 \/ v = 0
    BY <1>4 DEF Contribution
  <2>3. a \in Nat /\ b \in Nat /\ u \in Nat /\ v \in Nat /\ u <= 3906 /\ v <= 3906
    BY <1>2
  <2> HIDE DEF a, b, u, v
  <2>4. alpha * low + (10 - alpha) * low <= alpha * a + (10 - alpha) * b
    BY <2>1, <2>3, WeightedSums
  <2>5. alpha * low + (10 - alpha) * low = 10 * low
    BY WeighedType
  <2>6. alpha * u + (10 - alpha) * v < 10 * low
    <3>1. alpha * 3906 \in Nat /\ (10 - alpha) * 3906 \in Nat
      BY WeighedType
    <3>2. CASE v = 0
      <4>1. alpha * u + (10 - alpha) * 0 <= alpha * 3906 + (10 - alpha) * 0
        BY <2>3, WeightedSums
      <4>2. (10 - alpha) * 0 = 0
        BY TenWeights
      <4>3. alpha * u \in Nat
        BY <2>3, WeighedType
      <4> QED BY <2>1, <3>1, <3>2, <4>1, <4>2, <4>3
    <3>3. CASE u = 0
      <4>1. alpha * 0 + (10 - alpha) * v <= alpha * 0 + (10 - alpha) * 3906
        BY <2>3, WeightedSums
      <4>2. alpha * 0 = 0
        BY TenWeights
      <4>3. (10 - alpha) * v \in Nat
        BY <2>3, WeighedType
      <4> QED BY <2>1, <3>1, <3>3, <4>1, <4>2, <4>3
    <3> QED BY <2>2, <3>2, <3>3
  <2>7. Fused(alpha, fts, vector, i) = alpha * a + (10 - alpha) * b
        /\ Fused(alpha, fts, vector, j) = alpha * u + (10 - alpha) * v
    BY DEF Fused, a, b, u, v
  <2>8. Fused(alpha, fts, vector, i) \in Nat /\ Fused(alpha, fts, vector, j) \in Nat
    BY FusedType
  <2>9. Fused(alpha, fts, vector, j) < 10 * low /\ 10 * low <= Fused(alpha, fts, vector, i)
    BY <2>4, <2>5, <2>6, <2>7
  <2> QED BY <2>8, <2>9
<1> QED BY <1>3, <1>4 DEF Outranks

(* A hybrid recall has returned the first of its entries in the order of     *)
(* their scores.                                                             *)
FusedOrder(c) ==
  c \in Recall /\ c.op = "recalled" /\ c.kind = "hybrid" =>
    \E entries \in Seq(Item), all \in Seq(Item) :
      /\ IdsOf(entries) = ScoreMapKeys(c.fts, c.vector)
      /\ \A k \in 1 .. Len(entries) : entries[k].score = Fused(c.alpha, c.fts, c.vector, entries[k].id)
      /\ SortedBy(Scores(entries), entries, all)
      /\ c.items = UpTo(c.limit, all)

FusionInv == \A r \in Readers : FusedOrder(call[r])

LEMMA FusionStep ==
  ASSUME QueryAssumption, TypeInv, NEW r \in Readers, RecallStep(r)
  PROVE  FusedOrder(call'[r])
<1> DEFINE c == call[r]
           d == call'[r]
<1>1. RetrievalTypeOK /\ CallsTypeOK
  BY DEF TypeInv
<1>2. ASSUME d.op # "recalled" \/ d.kind # "hybrid" PROVE FusedOrder(d)
  BY <1>2 DEF FusedOrder
<1>3. CASE BeginRecall(r) \/ ReadFtsRow(r) \/ CatchFtsError(r)
  <2>1. d.op = "fts"
    BY <1>1, <1>3, BeginRecallResult, ReadFtsRowResult, CatchFtsErrorResult
  <2> QED BY <1>2, <2>1
<1>4. CASE ReturnKeyword(r)
  <2>1. d.kind = "keyword"
    BY <1>1, <1>4, ReturnKeywordResult DEF SameQuery
  <2> QED BY <1>2, <2>1
<1>5. CASE SelectVectors(r) \/ ReadVectorRow(r) \/ Fuse(r) \/ Hydrate(r)
  <2>1. d.op \in {"vector", "hydrate"}
    BY <1>1, <1>5, SelectVectorsResult, ReadVectorRowResult, FuseResult, HydrateResult DEF TypeInv
  <2> QED BY <1>2, <2>1
<1>6. CASE ReturnHybrid(r)
  <2> DEFINE all == Descending(c.items, Scores(c.items))
  <2>1. /\ c \in Recall /\ c.op = "hydrate" /\ WellShaped(c)
        /\ d \in Recall /\ SameQuery(c, d)
        /\ d.op \in {"recalled", "lifecycle"} /\ d.fts = c.fts /\ d.vector = c.vector
        /\ SortedBy(Scores(c.items), c.items, all)
        /\ d.items = UpTo(HybridLimit(c), all)
    BY <1>1, <1>6, ReturnHybridResult DEF CallsTypeOK
  <2>2. c.items \in Seq(Item)
    BY <2>1, RecallFields
  <2> HIDE DEF all, c, d
  <2>3. all \in Seq(Item)
    BY <2>1, <2>2, SortingPermutes
  <2>4. FusedOrder(d)
    BY <2>1, <2>2, <2>3 DEF FusedOrder, WellShaped, SameQuery, HybridLimit
  <2> QED BY <2>4 DEF c, d
<1>7. CASE ReadLifecycle(r) \/ Touch(r)
  <2>1. d.op # "recalled"
    BY <1>1, <1>7, ReadLifecycleResult, TouchResult
  <2> QED BY <1>2, <2>1
<1>8. CASE ReturnRanked(r)
  <2>1. c \in Recall /\ c.op = "lifecycle" /\ d.kind = c.kind /\ WellShaped(c)
    BY <1>1, <1>8, ReturnRankedResult DEF SameQuery, CallsTypeOK
  <2>2. d.kind # "hybrid"
    BY <2>1 DEF WellShaped
  <2> QED BY <1>2, <2>2
<1> QED BY <1>3, <1>4, <1>5, <1>6, <1>7, <1>8 DEF RecallStep

LEMMA FusionInvNext ==
  ASSUME QueryAssumption, TypeInv, FusionInv, [Next]_vars
  PROVE  FusionInv'
<1>1. ASSUME NEW r \in Readers, Reads(r) PROVE FusionInv'
  <2>1. \A q \in Readers \ {r} : call'[q] = call[q]
    BY <1>1, ReaderFrame DEF TypeInv
  <2>2. FusedOrder(call'[r])
    <3>1. CASE RecallStep(r)
      BY <3>1, FusionStep
    <3>2. CASE WalkStep(r)
      <4>1. call'[r] \in Walk
        BY <3>2, BeginTraverseResult, ReadNodeResult, SelectEdgesResult DEF WalkStep, TypeInv
      <4> QED BY <4>1, KindOfCall DEF FusedOrder
    <3>3. CASE CompareStep(r)
      <4>1. call'[r] \in Comparison
        BY <3>3, BeginCompareResult, ReadMemoryResult, CompareResult DEF CompareStep, TypeInv
      <4> QED BY <4>1, KindOfCall DEF FusedOrder
    <3> QED BY <1>1, <3>1, <3>2, <3>3 DEF Reads
  <2> QED BY <2>1, <2>2 DEF FusionInv
<1>2. ASSUME Write PROVE FusionInv'
  BY <1>2, WriterFrame DEF TypeInv, FusionInv
<1>3. ASSUME UNCHANGED vars PROVE FusionInv'
  BY <1>3 DEF vars, FusionInv
<1> QED BY <1>1, <1>2, <1>3 DEF Next, Reads

LEMMA FirstIsStrict ==
  ASSUME NEW n \in Nat, NEW key \in [1 .. n -> Nat], NEW u \in 1 .. n, NEW v \in 1 .. n,
         First(key, u, v)
  PROVE  ~ First(key, v, u) /\ u # v
<1>1. key[u] \in Nat /\ key[v] \in Nat
  OBVIOUS
<1> QED BY <1>1 DEF First

(* In a sorted list, what comes first in the order of the keys stands first. *)
LEMMA FirstStandsFirst ==
  ASSUME NEW n \in Nat, NEW key \in [1 .. n -> Nat], NEW order \in [1 .. n -> 1 .. n],
         \A a, b \in 1 .. n : a < b => First(key, order[a], order[b]),
         NEW p \in 1 .. n, NEW q \in 1 .. n, First(key, order[p], order[q])
  PROVE  p < q
<1>1. /\ order[p] \in 1 .. n /\ order[q] \in 1 .. n
      /\ key[order[p]] \in Nat /\ key[order[q]] \in Nat
  OBVIOUS
<1>2. ~ First(key, order[q], order[p]) /\ order[p] # order[q]
  BY <1>1, FirstIsStrict
<1>3. ~ (q < p) /\ p # q
  BY <1>2
<1> QED BY <1>3

LEMMA RewardedFirst ==
  ASSUME QueryAssumption, NEW c \in Recall, WellShaped(c), FusedOrder(c),
         c.op = "recalled", c.kind = "hybrid",
         NEW i, NEW j \in Members(c.items), Beats(c, i, j)
  PROVE  Ahead(IdsOf(c.items), i, j)
<1> DEFINE keys == ScoreMapKeys(c.fts, c.vector)
           fused(k) == Fused(c.alpha, c.fts, c.vector, k)
<1>1. /\ c.fts \in Seq(Ids) /\ c.vector \in Seq(Ids) /\ c.items \in Seq(Item)
      /\ IsInjective(c.fts) /\ IsInjective(c.vector) /\ IsInjective(IdsOf(c.items))
      /\ c.limit \in Nat
  BY RecallFields, SearchLimits DEF WellShaped
<1>2. c.alpha \in 0 .. 10
  BY RecallFields
<1>3. PICK entries \in Seq(Item), all \in Seq(Item) :
        /\ IdsOf(entries) = keys
        /\ \A k \in 1 .. Len(entries) : entries[k].score = fused(entries[k].id)
        /\ SortedBy(Scores(entries), entries, all)
        /\ c.items = UpTo(c.limit, all)
  BY DEF FusedOrder
<1> DEFINE n == Len(entries)
<1>4. PICK order \in [1 .. n -> 1 .. n] :
        /\ \A m \in 1 .. n : \E k \in 1 .. n : order[k] = m
        /\ \A a, b \in 1 .. n : a < b => First(Scores(entries), order[a], order[b])
        /\ all = [k \in 1 .. n |-> entries[order[k]]]
  BY <1>3 DEF SortedBy
<1>5. n \in Nat /\ Scores(entries) \in [1 .. n -> Nat]
  BY KeysAreNaturals
<1>6. /\ Len(keys) = n /\ keys \in Seq(Ids) /\ IsInjective(keys)
      /\ \A k \in 1 .. n : keys[k] = entries[k].id
      /\ ToSet(keys) = ToSet(c.fts) \cup ToSet(c.vector)
  <2>1. /\ keys \in Seq(Ids) /\ IsInjective(keys)
        /\ ToSet(keys) = ToSet(c.fts) \cup ToSet(c.vector)
    <3> DEFINE fts == c.fts
               vector == c.vector
    <3> HIDE DEF fts, vector
    <3>1. /\ fts \in Seq(Ids) /\ vector \in Seq(Ids) /\ IsInjective(fts) /\ IsInjective(vector)
      BY <1>1 DEF fts, vector
    <3>2. /\ ScoreMapKeys(fts, vector) \in Seq(Ids) /\ IsInjective(ScoreMapKeys(fts, vector))
          /\ ToSet(ScoreMapKeys(fts, vector)) = ToSet(fts) \cup ToSet(vector)
      BY <3>1, KeysOfBoth
    <3> QED BY <3>2 DEF fts, vector
  <2> HIDE DEF keys
  <2> QED BY <1>3, <2>1, IdsOfItems
<1>7. Len(all) = n /\ \A k \in 1 .. n : order[k] \in 1 .. n /\ all[k] = entries[order[k]]
  <2> HIDE DEF n
  <2> QED BY <1>4, <1>5
<1>8. \A k \in 1 .. Len(c.items) : k \in 1 .. n /\ c.items[k] = all[k]
  <2>1. \A k \in 1 .. Len(UpTo(c.limit, all)) : k \in 1 .. Len(all) /\ UpTo(c.limit, all)[k] = all[k]
    BY <1>1, Page
  <2> QED BY <1>3, <1>7, <2>1
<1>9. PICK q \in 1 .. Len(c.items) : c.items[q].id = j
  <2>1. Members(c.items) = {c.items[k].id : k \in 1 .. Len(c.items)}
    BY <1>1, IdsOfItems
  <2> QED BY <2>1
<1>10. q \in 1 .. n /\ order[q] \in 1 .. n /\ keys[order[q]] = j
  BY <1>6, <1>7, <1>8, <1>9
<1>11. PICK x \in 1 .. n : keys[x] = i
  <2>1. i \in ToSet(keys)
    BY <1>6 DEF Beats, Ahead
  <2>2. DOMAIN keys = 1 .. n
    <3> HIDE DEF keys, n
    <3> QED BY <1>6
  <2> QED BY <2>1, <2>2 DEF ToSet
<1>12. PICK p \in 1 .. n : order[p] = x
  BY <1>4, <1>11
<1>13. First(Scores(entries), x, order[q])
  <2> DEFINE y == order[q]
  <2>1. y \in 1 .. n /\ keys[y] = j
    BY <1>10
  <2>2. /\ Scores(entries)[x] = entries[x].score /\ entries[x].score = fused(i)
        /\ Scores(entries)[y] = entries[y].score /\ entries[y].score = fused(j)
    <3>1. DOMAIN entries = 1 .. n
      OBVIOUS
    <3> HIDE DEF fused, keys, n, y
    <3> QED BY <1>3, <1>6, <1>11, <2>1, <3>1 DEF Scores, n
  <2>3. fused(i) > fused(j) \/ (fused(i) = fused(j) /\ x < y)
    <3> DEFINE alpha == c.alpha
               fts == c.fts
               vector == c.vector
    <3>1. /\ fts \in Seq(Ids) /\ vector \in Seq(Ids) /\ IsInjective(fts) /\ IsInjective(vector)
          /\ keys = ScoreMapKeys(fts, vector) /\ alpha \in 0 .. 10
      BY <1>1, <1>2
    <3>2. x \in 1 .. Len(keys) /\ y \in 1 .. Len(keys) /\ keys[x] = i /\ keys[y] = j
      BY <1>6, <1>11, <2>1
    <3>3. Outranks(alpha, fts, vector, i, j)
      BY DEF Beats, Balanced, Outranks, EvenWeights
    <3> HIDE DEF alpha, fts, vector, y, n, keys, fused
    <3>4. ScoresFollow(alpha, fts, vector, keys)
      BY <3>1, BeatingScores
    <3>5. \/ Fused(alpha, fts, vector, i) > Fused(alpha, fts, vector, j)
          \/ Fused(alpha, fts, vector, i) = Fused(alpha, fts, vector, j) /\ x < y
      BY <3>2, <3>3, <3>4 DEF ScoresFollow
    <3> QED BY <3>5 DEF alpha, fts, vector, fused
  <2> QED BY <2>2, <2>3 DEF First
<1>14. p < q
  <2> HIDE DEF n
  <2> QED BY <1>4, <1>5, <1>10, <1>12, <1>13, FirstStandsFirst
<1>15. p \in 1 .. Len(c.items) /\ c.items[p].id = i
  <2>1. p \in 1 .. Len(c.items)
    BY <1>1, <1>9, <1>12, <1>14
  <2> QED BY <1>6, <1>7, <1>8, <1>11, <1>12, <2>1
<1> DEFINE ids == IdsOf(c.items)
<1>16. ids \in Seq(Ids) /\ IsInjective(ids) /\ Len(ids) = Len(c.items) /\ ids[p] = i /\ ids[q] = j
  BY <1>1, <1>9, <1>15, IdsOfItems
<1>17. /\ Position(ids, i) = p /\ i \in ToSet(ids)
       /\ Position(ids, j) = q
  <2> HIDE DEF ids
  <2> QED BY <1>9, <1>15, <1>16, PositionIs
<1> QED BY <1>14, <1>17 DEF Ahead

(* Reciprocal rank fusion rewards agreement: what is ahead of another in     *)
(* both rankings stays ahead, and what both searches found comes before what *)
(* only one found, as long as the weights are balanced for lists so long.    *)
(* Beyond, two low ranks earn less than one first.                           *)
THEOREM FusionAgrees ==
  ASSUME QueryAssumption, WorldAssumption
  PROVE  Spec => []FusionRewardsAgreement
<1>1. ASSUME Init PROVE FusionInv
  <2>1. \A r \in Readers : call[r] \notin Recall
    BY <1>1, KindOfCall DEF Init
  <2> QED BY <2>1 DEF FusionInv, FusedOrder
<1>2. FusionInv /\ TypeInv /\ [Next]_vars => FusionInv'
  BY FusionInvNext
<1>3. FusionInv /\ TypeInv => FusionRewardsAgreement
  <2> SUFFICES ASSUME FusionInv, TypeInv, NEW r \in Readers,
                      call[r].op = "recalled", call[r].kind = "hybrid",
                      NEW i, NEW j \in ToSet(IdsOf(call[r].items)), Beats(call[r], i, j)
               PROVE  Ahead(IdsOf(call[r].items), i, j)
    BY DEF FusionRewardsAgreement, IdsOf
  <2>1. call[r] \in Recall /\ WellShaped(call[r]) /\ FusedOrder(call[r])
    BY KindOfCall DEF TypeInv, CallsTypeOK, FusionInv
  <2> QED BY <2>1, RewardedFirst DEF Members
<1> QED BY <1>1, <1>2, <1>3, TypeInvHolds, PTL DEF Spec

-----------------------------------------------------------------------------
(* Verdicts.                                                               *)

(* The rules compare two memories the same way from either side.             *)
LEMMA ScopeIsMutual ==
  ASSUME NEW p \in Memory, NEW q \in Memory
  PROVE  SharedScope(p, q) <=> SharedScope(q, p)
BY DEF SharedScope

LEMMA RulesAreMutual ==
  ASSUME NEW p \in Memory, NEW q \in Memory
  PROVE  /\ PreferencesConflict(p, q) <=> PreferencesConflict(q, p)
         /\ UsagesConflict(p, q) <=> UsagesConflict(q, p)
         /\ Outdates(p, q) <=> Outdates(q, p)
<1>1. PreferencesConflict(p, q) <=> PreferencesConflict(q, p)
  BY ScopeIsMutual DEF PreferencesConflict
<1>2. UsagesConflict(p, q) <=> UsagesConflict(q, p)
  BY DEF UsagesConflict
<1>3. Outdates(p, q) <=> Outdates(q, p)
  <2>1. ExtractText(p).tokens \cap ExtractText(q).tokens = ExtractText(q).tokens \cap ExtractText(p).tokens
    OBVIOUS
  <2> QED BY <2>1 DEF Outdates
<1> QED BY <1>1, <1>2, <1>3

(* An outdated fact is older, by the rule that finds it.                     *)
LEMMA OutdatedIsOlder ==
  ASSUME TextAssumption, NEW p \in Memory, NEW q \in Memory, Outdates(p, q)
  PROVE  /\ p.created \in Nat /\ q.created \in Nat
         /\ p.created < q.created \/ q.created < p.created
<1> DEFINE s == p.created
           t == q.created
<1>1. s \in Nat /\ t \in Nat
  BY DEF Outdates, Memory, TextAssumption
<1>2. s - t > 30 \/ t - s > 30
  BY DEF Outdates
<1> HIDE DEF s, t
<1>3. s < t \/ t < s
  BY <1>1, <1>2
<1> QED BY <1>1, <1>3 DEF s, t

LEMMA PairIsMutual ==
  ASSUME TextAssumption, NEW p \in Memory, NEW q \in Memory
  PROVE  Unordered(PairContradiction(p, q)) = Unordered(PairContradiction(q, p))
<1>1. CASE p.id = q.id \/ ExtractText(p) = None \/ ExtractText(q) = None
  BY <1>1 DEF PairContradiction
<1>2. CASE ~ (p.id = q.id \/ ExtractText(p) = None \/ ExtractText(q) = None)
  <2>1. \A kind : Unordered({Conflict(kind, p, q)}) = Unordered({Conflict(kind, q, p)})
    <3>1. {p, q} = {q, p}
      OBVIOUS
    <3> QED BY <3>1 DEF Unordered, Conflict
  <2>2. CASE PreferencesConflict(p, q)
    BY <1>2, <2>1, <2>2, RulesAreMutual DEF PairContradiction
  <2>3. CASE ~ PreferencesConflict(p, q) /\ UsagesConflict(p, q)
    BY <1>2, <2>1, <2>3, RulesAreMutual DEF PairContradiction
  <2>4. CASE ~ PreferencesConflict(p, q) /\ ~ UsagesConflict(p, q) /\ ~ Outdates(p, q)
    BY <1>2, <2>4, RulesAreMutual DEF PairContradiction
  <2>5. CASE ~ PreferencesConflict(p, q) /\ ~ UsagesConflict(p, q) /\ Outdates(p, q)
    <3>1. PairContradiction(p, q) = IF p.created < q.created THEN {Conflict("OUTDATED_FACT", p, q)}
                                    ELSE {Conflict("OUTDATED_FACT", q, p)}
      BY <1>2, <2>5 DEF PairContradiction
    <3>2. PairContradiction(q, p) = IF q.created < p.created THEN {Conflict("OUTDATED_FACT", q, p)}
                                    ELSE {Conflict("OUTDATED_FACT", p, q)}
      BY <1>2, <2>5, RulesAreMutual DEF PairContradiction
    <3>3. PairContradiction(p, q) = PairContradiction(q, p)
      <4> DEFINE s == p.created
                 t == q.created
      <4>1. s \in Nat /\ t \in Nat /\ (s < t \/ t < s)
        BY <2>5, OutdatedIsOlder
      <4> HIDE DEF s, t
      <4>2. (s < t /\ ~ (t < s)) \/ (t < s /\ ~ (s < t))
        BY <4>1
      <4> QED BY <3>1, <3>2, <4>2 DEF s, t
    <3> QED BY <3>3
  <2> QED BY <2>2, <2>3, <2>4, <2>5
<1> QED BY <1>1, <1>2

(* What a report says of the pair it is about.                               *)
LEMMA ReportedPair ==
  ASSUME TextAssumption, NEW p \in Memory, NEW q \in Memory, NEW x \in PairContradiction(p, q)
  PROVE  /\ {x.a, x.b} = {p, q} /\ p.id # q.id
         /\ x.conflict = "OUTDATED_FACT" => x.a.created < x.b.created
<1>1. ~ (p.id = q.id \/ ExtractText(p) = None \/ ExtractText(q) = None)
  BY DEF PairContradiction
<1>2. CASE PreferencesConflict(p, q)
  <2>1. x = Conflict("PREFERENCE_CONFLICT", p, q)
    BY <1>1, <1>2 DEF PairContradiction
  <2> QED BY <1>1, <2>1 DEF Conflict
<1>3. CASE ~ PreferencesConflict(p, q) /\ UsagesConflict(p, q)
  <2>1. x = Conflict("CONTRADICTING_ASSERTION", p, q)
    BY <1>1, <1>3 DEF PairContradiction
  <2> QED BY <1>1, <2>1 DEF Conflict
<1>4. CASE ~ PreferencesConflict(p, q) /\ ~ UsagesConflict(p, q)
  <2>1. Outdates(p, q)
    BY <1>1, <1>4 DEF PairContradiction
  <2>2. CASE p.created < q.created
    <3>1. x = Conflict("OUTDATED_FACT", p, q)
      BY <1>1, <1>4, <2>1, <2>2 DEF PairContradiction
    <3> QED BY <1>1, <2>2, <3>1 DEF Conflict
  <2>3. CASE ~ (p.created < q.created)
    <3>1. x = Conflict("OUTDATED_FACT", q, p)
      BY <1>1, <1>4, <2>1, <2>3 DEF PairContradiction
    <3>2. q.created < p.created
      BY <2>1, <2>3, OutdatedIsOlder
    <3> QED BY <1>1, <3>1, <3>2 DEF Conflict
  <2> QED BY <2>2, <2>3
<1> QED BY <1>2, <1>3, <1>4

(* What is found in a list is what is found in any two of its members.       *)
Verdicts(S) == UNION { UNION { Unordered(PairContradiction(p, q)) : q \in S } : p \in S }

LEMMA VerdictsOfMembers ==
  ASSUME TextAssumption, NEW list \in Seq(Memory)
  PROVE  Unordered(FindContradictions(list)) = Verdicts(ToSet(list))
<1> DEFINE All == Verdicts(ToSet(list))
<1>1. DOMAIN list = 1 .. Len(list) /\ \A k \in 1 .. Len(list) : list[k] \in Memory
  OBVIOUS
<1>2. ASSUME NEW u \in Unordered(FindContradictions(list)) PROVE u \in All
  <2>1. PICK x \in FindContradictions(list) : u = [conflict |-> x.conflict, pair |-> {x.a, x.b}]
    BY DEF Unordered
  <2>2. PICK pair \in PairsInOrder(list) : x \in PairContradiction(list[pair[1]], list[pair[2]])
    BY DEF FindContradictions
  <2>3. list[pair[1]] \in ToSet(list) /\ list[pair[2]] \in ToSet(list)
    BY DEF PairsInOrder, ToSet
  <2>4. u \in Unordered(PairContradiction(list[pair[1]], list[pair[2]]))
    BY <2>1, <2>2 DEF Unordered
  <2> QED BY <2>3, <2>4 DEF Verdicts
<1>3. ASSUME NEW u \in All PROVE u \in Unordered(FindContradictions(list))
  <2>1. PICK p \in ToSet(list), q \in ToSet(list) : u \in Unordered(PairContradiction(p, q))
    BY DEF Verdicts
  <2>2. PICK a \in 1 .. Len(list), b \in 1 .. Len(list) : p = list[a] /\ q = list[b]
    BY <1>1 DEF ToSet
  <2>3. p \in Memory /\ q \in Memory
    BY <1>1, <2>2
  <2>4. a # b
    <3>1. PICK x \in PairContradiction(p, q) : TRUE
      BY <2>1 DEF Unordered
    <3>2. p.id # q.id
      BY <2>3, ReportedPair
    <3> QED BY <2>2, <3>2
  <2>5. CASE a < b
    <3>1. <<a, b>> \in PairsInOrder(list)
      BY <1>1, <2>5 DEF PairsInOrder
    <3>2. PairContradiction(p, q) \subseteq FindContradictions(list)
      BY <2>2, <3>1 DEF FindContradictions
    <3> QED BY <2>1, <3>2 DEF Unordered
  <2>6. CASE b < a
    <3>1. <<b, a>> \in PairsInOrder(list)
      BY <1>1, <2>6 DEF PairsInOrder
    <3>2. PairContradiction(q, p) \subseteq FindContradictions(list)
      BY <2>2, <3>1 DEF FindContradictions
    <3>3. u \in Unordered(PairContradiction(q, p))
      BY <2>1, <2>3, PairIsMutual
    <3> QED BY <3>2, <3>3 DEF Unordered
  <2> QED BY <2>4, <2>5, <2>6
<1> QED BY <1>2, <1>3

(* What a comparison returned is what the detectors make of its list.        *)
Judged(c) ==
  c \in Comparison /\ c.op = "compared" =>
    /\ c.duplicates = FindDuplicates(c.list, {})
    /\ c.contradictions = FindContradictions(c.list)

VerdictInv == \A r \in Readers : Judged(call[r])

LEMMA VerdictInvNext ==
  ASSUME QueryAssumption, TypeInv, VerdictInv, [Next]_vars
  PROVE  VerdictInv'
<1>1. ASSUME NEW r \in Readers, Reads(r) PROVE VerdictInv'
  <2>1. \A q \in Readers \ {r} : call'[q] = call[q]
    BY <1>1, ReaderFrame DEF TypeInv
  <2>2. Judged(call'[r])
    <3>1. CASE CompareStep(r)
      BY <3>1, BeginCompareResult, ReadMemoryResult, CompareResult DEF CompareStep, TypeInv, Judged
    <3>2. CASE RecallStep(r) \/ WalkStep(r)
      <4>1. CASE WalkStep(r)
        <5>1. call'[r] \in Walk
          BY <4>1, BeginTraverseResult, ReadNodeResult, SelectEdgesResult DEF WalkStep, TypeInv
        <5> QED BY <5>1, KindOfCall DEF Judged
      <4>2. CASE RecallStep(r)
        <5>1. call'[r] \in Recall
          BY <4>2, RecallStays
        <5> QED BY <5>1, KindOfCall DEF Judged
      <4> QED BY <3>2, <4>1, <4>2
    <3> QED BY <1>1, <3>1, <3>2 DEF Reads
  <2> QED BY <2>1, <2>2 DEF VerdictInv
<1>2. ASSUME Write PROVE VerdictInv'
  BY <1>2, WriterFrame DEF TypeInv, VerdictInv
<1>3. ASSUME UNCHANGED vars PROVE VerdictInv'
  BY <1>3 DEF vars, VerdictInv
<1> QED BY <1>1, <1>2, <1>3 DEF Next, Reads

LEMMA VerdictInvHolds ==
  ASSUME QueryAssumption, WorldAssumption
  PROVE  Spec => []VerdictInv
<1>1. ASSUME Init PROVE VerdictInv
  <2>1. \A r \in Readers : call[r] \notin Comparison
    BY <1>1, KindOfCall DEF Init
  <2> QED BY <2>1 DEF VerdictInv, Judged
<1>2. VerdictInv /\ TypeInv /\ [Next]_vars => VerdictInv'
  BY VerdictInvNext
<1> QED BY <1>1, <1>2, TypeInvHolds, PTL DEF Spec

LEMMA JudgedCall ==
  ASSUME TypeInv, VerdictInv, NEW r \in Readers, call[r].op = "compared"
  PROVE  /\ call[r].list \in Seq(Memory)
         /\ call[r].duplicates = FindDuplicates(call[r].list, {})
         /\ call[r].contradictions = FindContradictions(call[r].list)
<1>1. call[r] \in Comparison
  BY KindOfCall DEF TypeInv, CallsTypeOK
<1>2. call[r].list \in Seq(Memory)
  BY <1>1 DEF Comparison
<1> QED BY <1>1, <1>2 DEF VerdictInv, Judged

(* An order of the same memories lists all of them.                          *)
LEMMA ReorderedList ==
  ASSUME NEW list \in Seq(Memory), NEW order \in SetToSeqs(ToSet(list))
  PROVE  order \in Seq(Memory) /\ ToSet(order) = ToSet(list)
<1> DEFINE S == ToSet(list)
           n == Cardinality(S)
<1>1. IsFiniteSet(S) /\ n \in Nat /\ S \subseteq Memory
  <2>1. Len(list) \in Nat /\ DOMAIN list = 1 .. Len(list) /\ \A k \in 1 .. Len(list) : list[k] \in Memory
    OBVIOUS
  <2>2. IsFiniteSet(DOMAIN list)
    BY <2>1, FS_Interval
  <2>3. list \in Surjection(DOMAIN list, S)
    BY <2>1 DEF Surjection, ToSet
  <2>4. IsFiniteSet(S)
    <3> HIDE DEF S
    <3> QED BY <2>2, <2>3, FS_Surjection
  <2>5. n \in Nat
    BY <2>4, FS_CardinalityType
  <2> QED BY <2>1, <2>4, <2>5 DEF ToSet
<1>2. order \in [1 .. n -> S] /\ IsInjective(order)
  BY DEF SetToSeqs, IsInjective
<1> HIDE DEF S
<1>3. order \in Injection(1 .. n, S)
  BY <1>2 DEF Injection
<1>4. order \in Surjection(1 .. n, S)
  <2>1. IsFiniteSet(1 .. n) /\ Cardinality(1 .. n) = n
    BY <1>1, FS_Interval
  <2> QED BY <1>1, <1>3, <2>1, FS_Injection
<1>5. ToSet(order) = S
  BY <1>2, <1>4 DEF Surjection, ToSet
<1>6. order \in Seq(Memory)
  <2> HIDE DEF n
  <2> QED BY <1>1, <1>2
<1> QED BY <1>5, <1>6 DEF S

(* The verdicts do not depend on the order in which getPrimitives returned   *)
(* the memories, and an outdated fact is the older of the two.               *)
THEOREM VerdictsAreUnordered ==
  ASSUME TextAssumption, QueryAssumption, WorldAssumption
  PROVE  Spec => []VerdictsIgnoreOrder
<1>1. TypeInv /\ VerdictInv => VerdictsIgnoreOrder
  <2> SUFFICES ASSUME TypeInv, VerdictInv, NEW r \in Readers, call[r].op = "compared"
               PROVE  /\ \A order \in SetToSeqs(ToSet(call[r].list)) :
                           Unordered(FindContradictions(order)) = Unordered(call[r].contradictions)
                      /\ \A x \in call[r].contradictions :
                           x.conflict = "OUTDATED_FACT" => x.a.created < x.b.created
    BY DEF VerdictsIgnoreOrder
  <2>1. /\ call[r].list \in Seq(Memory)
        /\ call[r].contradictions = FindContradictions(call[r].list)
    BY JudgedCall
  <2> DEFINE list == call[r].list
  <2> HIDE DEF list
  <2>2. list \in Seq(Memory) /\ call[r].contradictions = FindContradictions(list)
    BY <2>1 DEF list
  <2>3. ASSUME NEW order \in SetToSeqs(ToSet(list))
        PROVE  Unordered(FindContradictions(order)) = Unordered(FindContradictions(list))
    <3>1. order \in Seq(Memory) /\ ToSet(order) = ToSet(list)
      BY <2>2, ReorderedList
    <3> QED BY <2>2, <3>1, VerdictsOfMembers
  <2>4. ASSUME NEW x \in FindContradictions(list), x.conflict = "OUTDATED_FACT"
        PROVE  x.a.created < x.b.created
    <3>1. PICK pair \in PairsInOrder(list) : x \in PairContradiction(list[pair[1]], list[pair[2]])
      BY DEF FindContradictions
    <3>2. list[pair[1]] \in Memory /\ list[pair[2]] \in Memory
      BY <2>2 DEF PairsInOrder
    <3> QED BY <2>4, <3>1, <3>2, ReportedPair
  <2> QED BY <2>2, <2>3, <2>4 DEF list
<1> QED BY <1>1, TypeInvHolds, VerdictInvHolds, PTL

-----------------------------------------------------------------------------
(* Traversal.                                                              *)

(* The nodes an unrestricted relation joins to one of R.                     *)
Neighbours(R) ==
  { i \in Ids : \E e \in relations, j \in R : e.sensitivity # "restricted" /\ Joins(e, i, j) }

LEMMA ReachUnfolds ==
  ASSUME NEW seed \in Ids
  PROVE  /\ Reach(seed, 0) = {seed}
         /\ \A n \in Nat : Reach(seed, n + 1) = Reach(seed, n) \cup Neighbours(Reach(seed, n))
         /\ \A n \in Nat : Reach(seed, n) \subseteq Ids
<1> DEFINE V == SUBSET Ids
           base == {seed}
           G == [R \in V |-> R \cup Neighbours(R)]
           Is(h) == h = [n \in Nat |->
                      IF n = 0 THEN {seed}
                      ELSE h[n - 1] \cup
                             { i \in Ids : \E e \in relations, j \in h[n - 1] :
                                 e.sensitivity # "restricted" /\ Joins(e, i, j) }]
           reach == CHOOSE h : Is(h)
<1>1. \E h : Is(h)
  <2>1. base \in V /\ G \in [V -> V]
    BY DEF Neighbours
  <2>2. PICK h \in [Nat -> V] : h = [n \in Nat |-> IF n = 0 THEN base ELSE G[h[n - 1]]]
    <3> HIDE DEF V, base, G
    <3> QED BY <2>1, RecursionOnNat
  <2>3. \A n \in Nat \ {0} : h[n - 1] \in V
    <3>1. \A n \in Nat \ {0} : n - 1 \in Nat
      OBVIOUS
    <3>2. h \in [Nat -> V]
      BY <2>2
    <3> HIDE DEF V
    <3> QED BY <3>1, <3>2
  <2>4. \A n \in Nat \ {0} : G[h[n - 1]] = h[n - 1] \cup Neighbours(h[n - 1])
    BY <2>3
  <2>5. h = [n \in Nat |-> IF n = 0 THEN {seed} ELSE h[n - 1] \cup Neighbours(h[n - 1])]
    <3> HIDE DEF G, V
    <3> QED BY <2>2, <2>4
  <2>6. Is(h)
    BY <2>5 DEF Neighbours
  <2> QED BY <2>6
<1>2. Is(reach)
  <2> HIDE DEF Is
  <2> QED BY <1>1
<1>3. \A n : Reach(seed, n) = reach[n]
  BY DEF Reach
<1>4. reach = [n \in Nat |->
                 IF n = 0 THEN {seed} ELSE reach[n - 1] \cup Neighbours(reach[n - 1])]
  <2> HIDE DEF reach
  <2> QED BY <1>2 DEF Neighbours
<1> HIDE DEF reach
<1>5. reach[0] = {seed}
  BY <1>4
<1>6. ASSUME NEW n \in Nat PROVE reach[n + 1] = reach[n] \cup Neighbours(reach[n])
  <2>1. n + 1 \in Nat /\ n + 1 # 0 /\ n + 1 - 1 = n
    OBVIOUS
  <2> DEFINE m == n + 1
  <2>2. m \in Nat /\ m # 0 /\ m - 1 = n
    BY <2>1
  <2> HIDE DEF m
  <2>3. reach[m] = reach[m - 1] \cup Neighbours(reach[m - 1])
    BY <1>4, <2>2
  <2> QED BY <2>2, <2>3 DEF m
<1>7. \A n \in Nat : reach[n] \subseteq Ids
  <2> DEFINE T == {n \in Nat : reach[n] \subseteq Ids}
  <2>1. 0 \in T
    BY <1>5
  <2>2. \A n \in T : n + 1 \in T
    BY <1>6 DEF Neighbours
  <2>3. Nat \subseteq T
    <3> HIDE DEF T
    <3> QED BY <2>1, <2>2, Induction
  <2> QED BY <2>3
<1> QED BY <1>3, <1>5, <1>6, <1>7

(* A path ends in what its length reaches, and what is reached ends a path:  *)
(* one that comes back to a node is cut there.                               *)
LEMMA PathEndsReached ==
  ASSUME NEW seed \in Ids, NEW n \in Nat, NEW p \in PathsFrom(seed, n)
  PROVE  p[n] \in Reach(seed, n)
<1> DEFINE T == {k \in Nat : k <= n => p[k] \in Reach(seed, k)}
<1>1. 0 \in T
  BY ReachUnfolds DEF PathsFrom
<1>2. ASSUME NEW k \in T PROVE k + 1 \in T
  <2> SUFFICES ASSUME k + 1 <= n PROVE p[k + 1] \in Reach(seed, k + 1)
    OBVIOUS
  <2> DEFINE m == k + 1
  <2>1. k \in Nat /\ k <= n /\ m \in 1 .. n /\ m \in 0 .. n /\ m - 1 = k
    OBVIOUS
  <2> HIDE DEF m
  <2>2. p[k] \in Reach(seed, k)
    BY <2>1
  <2>3. \E e \in relations : e.sensitivity # "restricted" /\ Joins(e, p[k], p[m])
    BY <2>1 DEF PathsFrom
  <2>4. p[m] \in Ids
    BY <2>1 DEF PathsFrom
  <2>5. p[m] \in Neighbours(Reach(seed, k))
    BY <2>2, <2>3, <2>4 DEF Neighbours, Joins
  <2>6. Reach(seed, m) = Reach(seed, k) \cup Neighbours(Reach(seed, k))
    BY <2>1, ReachUnfolds DEF m
  <2> QED BY <2>5, <2>6 DEF m
<1>3. Nat \subseteq T
  <2> HIDE DEF T
  <2> QED BY <1>1, <1>2, Induction
<1> QED BY <1>3

LEMMA ReachedByPath ==
  ASSUME NEW seed \in Ids
  PROVE  \A n \in Nat : \A i \in Reach(seed, n) :
           \E k \in 0 .. n : \E p \in PathsFrom(seed, k) : p[k] = i
<1> DEFINE Ended(i, n) == \E k \in 0 .. n : \E p \in PathsFrom(seed, k) : p[k] = i
           T == {n \in Nat : \A i \in Reach(seed, n) : Ended(i, n)}
<1>1. 0 \in T
  <2> DEFINE p == [k \in 0 .. 0 |-> seed]
  <2>1. p \in PathsFrom(seed, 0) /\ p[0] = seed
    BY DEF PathsFrom, IsInjective
  <2>2. Reach(seed, 0) = {seed}
    BY ReachUnfolds
  <2> HIDE DEF p
  <2> QED BY <2>1, <2>2
<1>2. ASSUME NEW n \in T PROVE n + 1 \in T
  <2> DEFINE m == n + 1
  <2>1. n \in Nat /\ m \in Nat /\ 0 .. n \subseteq 0 .. m
    OBVIOUS
  <2>2. Reach(seed, m) = Reach(seed, n) \cup Neighbours(Reach(seed, n))
    BY <2>1, ReachUnfolds
  <2>3. ASSUME NEW i \in Reach(seed, n) PROVE Ended(i, m)
    <3>1. Ended(i, n)
      OBVIOUS
    <3> QED BY <2>1, <3>1
  <2>4. ASSUME NEW i \in Neighbours(Reach(seed, n)) PROVE Ended(i, m)
    <3>1. PICK e \in relations, j \in Reach(seed, n) :
            i \in Ids /\ e.sensitivity # "restricted" /\ Joins(e, i, j)
      BY DEF Neighbours
    <3>2. PICK k \in 0 .. n : \E p \in PathsFrom(seed, k) : p[k] = j
      OBVIOUS
    <3>3. PICK p \in PathsFrom(seed, k) : p[k] = j
      BY <3>2
    <3>4. k \in Nat /\ k <= n /\ k + 1 \in 0 .. m
      BY <2>1
    <3>5. /\ p \in [0 .. k -> Ids] /\ p[0] = seed
          /\ \A a, b \in 0 .. k : p[a] = p[b] => a = b
          /\ \A a \in 1 .. k : \E x \in relations :
               x.sensitivity # "restricted" /\ Joins(x, p[a - 1], p[a])
      BY DEF PathsFrom, IsInjective
    <3>6. CASE \E a \in 0 .. k : p[a] = i
      <4>1. PICK a \in 0 .. k : p[a] = i
        BY <3>6
      <4> DEFINE q == [b \in 0 .. a |-> p[b]]
      <4>2. a \in Nat /\ 0 .. a \subseteq 0 .. k /\ 1 .. a \subseteq 1 .. k /\ a \in 0 .. m
            /\ 0 \in 0 .. a /\ a \in 0 .. a /\ \A b \in 1 .. a : b \in 0 .. a /\ b - 1 \in 0 .. a
        BY <3>4
      <4>3. q \in [0 .. a -> Ids] /\ \A b \in 0 .. a : q[b] = p[b]
        BY <3>5, <4>2
      <4> HIDE DEF q
      <4>4. q[0] = seed /\ IsInjective(q)
        BY <3>5, <4>2, <4>3 DEF IsInjective
      <4>5. \A b \in 1 .. a : \E x \in relations :
              x.sensitivity # "restricted" /\ Joins(x, q[b - 1], q[b])
        BY <3>5, <4>2, <4>3
      <4>6. q \in PathsFrom(seed, a) /\ q[a] = i
        BY <4>1, <4>2, <4>3, <4>4, <4>5 DEF PathsFrom
      <4> QED BY <4>2, <4>6
    <3>7. CASE ~ \E a \in 0 .. k : p[a] = i
      <4> DEFINE l == k + 1
                 q == [b \in 0 .. l |-> IF b = l THEN i ELSE p[b]]
      <4>1. /\ l \in Nat /\ l \in 0 .. l /\ l \in 0 .. m /\ l \notin 0 .. k /\ l # 0 /\ l - 1 = k /\ 0 \in 0 .. k
            /\ 0 \in 0 .. l /\ \A b \in 0 .. l : b = l \/ b \in 0 .. k
            /\ k \in 0 .. k
            /\ \A b \in 0 .. k : b \in 0 .. l
            /\ \A b \in 1 .. l : b = l \/ (b \in 1 .. k /\ b \in 0 .. k /\ b - 1 \in 0 .. k)
        BY <3>4
      <4> HIDE DEF l
      <4>2. /\ q \in [0 .. l -> Ids] /\ q[l] = i
            /\ \A b \in 0 .. k : q[b] = p[b]
        BY <3>1, <3>5, <4>1
      <4> HIDE DEF q
      <4>3. q[0] = seed
        BY <3>5, <4>1, <4>2
      <4>4. ASSUME NEW a \in 0 .. l, NEW b \in 0 .. l, q[a] = q[b] PROVE a = b
        BY <3>5, <3>7, <4>1, <4>2, <4>4
      <4>5. ASSUME NEW b \in 1 .. l
            PROVE  \E x \in relations : x.sensitivity # "restricted" /\ Joins(x, q[b - 1], q[b])
        <5>1. CASE b = l
          <6>1. q[b - 1] = j /\ q[b] = i
            BY <3>3, <4>1, <4>2, <5>1
          <6> QED BY <3>1, <6>1 DEF Joins
        <5>2. CASE b # l
          <6>1. b \in 1 .. k /\ q[b - 1] = p[b - 1] /\ q[b] = p[b]
            BY <4>1, <4>2, <5>2
          <6> QED BY <3>5, <6>1
        <5> QED BY <5>1, <5>2
      <4>6. q \in PathsFrom(seed, l)
        BY <4>2, <4>3, <4>4, <4>5 DEF PathsFrom, IsInjective
      <4> QED BY <4>1, <4>2, <4>6
    <3> QED BY <3>6, <3>7
  <2>5. \A i \in Reach(seed, m) : Ended(i, m)
    <3> HIDE DEF Ended, m
    <3> QED BY <2>2, <2>3, <2>4
  <2> HIDE DEF Ended
  <2> QED BY <2>1, <2>5
<1>3. Nat \subseteq T
  <2> HIDE DEF T
  <2> QED BY <1>1, <1>2, Induction
<1> QED BY <1>3

LEMMA RowsAreReach ==
  ASSUME NEW seed \in Ids, NEW depth \in Nat, NEW n \in 0 .. depth, NEW i
  PROVE  i \in Reach(seed, n) <=> \E row \in PathRows(seed, depth) : row[2] <= n /\ row[1] = i
<1>1. ASSUME i \in Reach(seed, n)
      PROVE  \E row \in PathRows(seed, depth) : row[2] <= n /\ row[1] = i
  <2>1. PICK k \in 0 .. n : \E p \in PathsFrom(seed, k) : p[k] = i
    BY <1>1, ReachedByPath
  <2>2. k \in 0 .. depth /\ k <= n
    OBVIOUS
  <2>3. PICK p \in PathsFrom(seed, k) : p[k] = i
    BY <2>1
  <2>4. <<p[k], k>> \in PathRows(seed, depth)
    BY <2>2 DEF PathRows
  <2> QED BY <2>2, <2>3, <2>4
<1>2. ASSUME NEW row \in PathRows(seed, depth), row[2] <= n, row[1] = i
      PROVE  i \in Reach(seed, n)
  <2>1. PICK k \in 0 .. depth : row \in {<<p[k], k>> : p \in PathsFrom(seed, k)}
    BY DEF PathRows
  <2>2. PICK p \in PathsFrom(seed, k) : row = <<p[k], k>>
    BY <2>1
  <2>3. k \in Nat /\ n \in Nat /\ k <= n /\ i = p[k]
    BY <1>2, <2>2
  <2>4. i \in Reach(seed, k)
    BY <2>3, PathEndsReached
  <2>5. Reach(seed, k) \subseteq Reach(seed, n)
    <3> DEFINE T == {m \in Nat : Reach(seed, k) \subseteq Reach(seed, k + m)}
    <3>1. 0 \in T
      <4>1. k + 0 = k
        BY <2>3
      <4> QED BY <4>1
    <3>2. ASSUME NEW m \in T PROVE m + 1 \in T
      <4>1. k + m \in Nat /\ k + (m + 1) = (k + m) + 1
        BY <2>3
      <4>2. Reach(seed, k + m) \subseteq Reach(seed, (k + m) + 1)
        BY <4>1, ReachUnfolds
      <4> QED BY <4>1, <4>2
    <3>3. Nat \subseteq T
      <4> HIDE DEF T
      <4> QED BY <3>1, <3>2, Induction
    <3>4. n - k \in Nat /\ k + (n - k) = n
      BY <2>3
    <3>5. n - k \in T
      BY <3>3, <3>4
    <3>6. Reach(seed, k) \subseteq Reach(seed, k + (n - k))
      BY <3>5
    <3> QED BY <3>4, <3>6
  <2> QED BY <2>4, <2>5
<1> QED BY <1>1, <1>2

(* What a traversal nobody disturbed has read so far, and what it returned.  *)
Seen(rows) == { row \in rows : Visible(stored[row[1]], FALSE) }

EdgesOf(nodes) ==
  { e \in relations : /\ e.sensitivity # "restricted"
                      /\ {e.source, e.target} \subseteq { row[1] : row \in nodes } }

Walked(c, written) ==
  c \in Walk /\ written = {} =>
    LET rows == PathRows(c.seed, c.depth)
    IN  /\ c.op = "walk" => c.todo \subseteq rows /\ c.nodes = Seen(rows \ c.todo)
        /\ c.op = "walked" => c.nodes = Seen(rows) /\ c.edges = EdgesOf(c.nodes)

WalkInv == \A r \in Readers : Walked(call[r], changed[r])

LEMMA WalkStays ==
  ASSUME QueryAssumption, TypeInv, WalkInv, NEW r \in Readers, WalkStep(r)
  PROVE  Walked(call'[r], changed'[r])
<1> DEFINE c == call[r]
           d == call'[r]
<1>1. RetrievalTypeOK /\ CallsTypeOK /\ Walked(c, changed[r])
  BY DEF TypeInv, WalkInv
<1>2. CASE BeginTraverse(r)
  <2>1. d \in Walk /\ d.op = "walk" /\ d.todo = PathRows(d.seed, d.depth) /\ d.nodes = {}
    BY <1>1, <1>2, BeginTraverseResult
  <2>2. Seen({}) = {}
    BY DEF Seen
  <2> HIDE DEF c, d
  <2>3. d.todo \subseteq PathRows(d.seed, d.depth)
        /\ d.nodes = Seen(PathRows(d.seed, d.depth) \ d.todo)
    BY <2>1, <2>2
  <2>4. Walked(d, changed'[r])
    BY <2>1, <2>3 DEF Walked
  <2> QED BY <2>4 DEF d
<1>3. CASE ReadNode(r)
  <2>1. /\ c \in Walk /\ c.op = "walk"
        /\ d \in Walk /\ d.op = "walk" /\ d.seed = c.seed /\ d.depth = c.depth
    BY <1>1, <1>3, ReadNodeResult
  <2>2. PICK row \in c.todo :
          /\ d.todo = c.todo \ {row}
          /\ d.nodes = IF Visible(stored[row[1]], FALSE) THEN c.nodes \cup {row} ELSE c.nodes
    BY <1>1, <1>3, ReadNodeResult
  <2>3. changed'[r] = changed[r]
    BY <1>1, <1>3, <2>1, ReaderFrame DEF Reads, WalkStep, Free
  <2> HIDE DEF c, d
  <2> DEFINE rows == PathRows(c.seed, c.depth)
  <2> HIDE DEF rows
  <2>4. ASSUME changed[r] = {} PROVE d.todo \subseteq rows /\ d.nodes = Seen(rows \ d.todo)
    <3>1. c.todo \subseteq rows /\ c.nodes = Seen(rows \ c.todo)
      BY <1>1, <2>1, <2>4 DEF Walked, rows
    <3>2. rows \ d.todo = (rows \ c.todo) \cup {row}
      BY <2>2, <3>1
    <3>3. Seen(rows \ d.todo) =
            IF Visible(stored[row[1]], FALSE) THEN Seen(rows \ c.todo) \cup {row}
            ELSE Seen(rows \ c.todo)
      BY <3>2 DEF Seen
    <3> QED BY <2>2, <3>1, <3>3
  <2>5. Walked(d, changed'[r])
    <3>1. rows = PathRows(d.seed, d.depth)
      BY <2>1 DEF rows
    <3> QED BY <2>1, <2>3, <2>4, <3>1 DEF Walked
  <2> QED BY <2>5 DEF d
<1>4. CASE SelectEdges(r)
  <2>1. /\ c \in Walk /\ c.op = "walk" /\ c.todo = {}
        /\ d \in Walk /\ d.op = "walked" /\ d.seed = c.seed /\ d.depth = c.depth
        /\ d.nodes = c.nodes /\ d.edges = EdgesOf(c.nodes)
    BY <1>1, <1>4, SelectEdgesResult DEF EdgesOf
  <2>2. changed'[r] = changed[r]
    BY <1>1, <1>4, <2>1, ReaderFrame DEF Reads, WalkStep, Free
  <2> HIDE DEF c, d
  <2>3. ASSUME changed[r] = {} PROVE c.nodes = Seen(PathRows(c.seed, c.depth))
    <3>1. c.nodes = Seen(PathRows(c.seed, c.depth) \ c.todo)
      BY <1>1, <2>1, <2>3 DEF Walked
    <3> QED BY <2>1, <3>1
  <2>4. Walked(d, changed'[r])
    BY <2>1, <2>2, <2>3 DEF Walked
  <2> QED BY <2>4 DEF d
<1> QED BY <1>2, <1>3, <1>4 DEF WalkStep

(* What a walk saw depends on the relations and on who may be seen.          *)
LEMMA WalkedUnchanged ==
  ASSUME stored' = stored, relations' = relations, \A r \in Readers : Walked(call'[r], changed'[r])
  PROVE  WalkInv'
<1>1. \A seed, n : PathsFrom(seed, n)' = PathsFrom(seed, n)
  BY DEF PathsFrom
<1>2. \A seed, depth : PathRows(seed, depth)' = PathRows(seed, depth)
  BY <1>1 DEF PathRows
<1>3. \A rows : Seen(rows)' = Seen(rows)
  BY DEF Seen
<1>4. \A nodes : EdgesOf(nodes)' = EdgesOf(nodes)
  BY DEF EdgesOf
<1> QED BY <1>2, <1>3, <1>4 DEF WalkInv, Walked

LEMMA WalkInvNext ==
  ASSUME QueryAssumption, TypeInv, WalkInv, [Next]_vars
  PROVE  WalkInv'
<1>1. ASSUME NEW r \in Readers, Reads(r) PROVE WalkInv'
  <2>1. \A q \in Readers \ {r} : call'[q] = call[q] /\ changed'[q] = changed[q]
    BY <1>1, ReaderFrame DEF TypeInv
  <2>2. Walked(call'[r], changed'[r])
    <3>1. CASE WalkStep(r)
      BY <3>1, WalkStays
    <3>2. CASE RecallStep(r)
      <4>1. call'[r] \in Recall
        BY <3>2, RecallStays
      <4> QED BY <4>1, KindOfCall DEF Walked
    <3>3. CASE CompareStep(r)
      <4>1. call'[r] \in Comparison
        BY <3>3, BeginCompareResult, ReadMemoryResult, CompareResult DEF CompareStep, TypeInv
      <4> QED BY <4>1, KindOfCall DEF Walked
    <3> QED BY <1>1, <3>1, <3>2, <3>3 DEF Reads
  <2>3. stored' = stored /\ relations' = relations
    BY <1>1, ReaderFrame DEF TypeInv
  <2>4. \A q \in Readers : Walked(call'[q], changed'[q])
    <3>1. \A q \in Readers \ {r} : Walked(call'[q], changed'[q])
      BY <2>1 DEF WalkInv
    <3> QED BY <2>2, <3>1
  <2> QED BY <2>3, <2>4, WalkedUnchanged
<1>2. ASSUME Write PROVE WalkInv'
  <2>1. \A q \in Readers : changed'[q] # {}
    BY <1>2, WriterFrame DEF TypeInv
  <2> QED BY <2>1 DEF WalkInv, Walked
<1>3. ASSUME UNCHANGED vars PROVE WalkInv'
  <2>1. stored' = stored /\ relations' = relations /\ call' = call /\ changed' = changed
    BY <1>3 DEF vars, tables
  <2>2. \A r \in Readers : Walked(call'[r], changed'[r])
    BY <2>1 DEF WalkInv
  <2> QED BY <2>1, <2>2, WalkedUnchanged
<1> QED BY <1>1, <1>2, <1>3 DEF Next, Reads

(* A traversal nobody disturbed returns the visible part of what the         *)
(* unrestricted relations reach, each node by its distance, and the          *)
(* relations between: the simple paths of the recursive query miss nothing   *)
(* that a breadth-first closure finds.                                       *)
THEOREM TraversalReaches ==
  ASSUME QueryAssumption, WorldAssumption
  PROVE  Spec => []TraversalIsReach
<1>1. ASSUME Init PROVE WalkInv
  <2>1. \A r \in Readers : call[r] \notin Walk
    BY <1>1, KindOfCall DEF Init
  <2> QED BY <2>1 DEF WalkInv, Walked
<1>2. WalkInv /\ TypeInv /\ [Next]_vars => WalkInv'
  BY WalkInvNext
<1>3. TypeInv /\ WalkInv => TraversalIsReach
  <2> SUFFICES ASSUME TypeInv, WalkInv, NEW r \in Readers,
                      call[r].op = "walked", changed[r] = {}
               PROVE  LET c == call[r]
                      IN  /\ \A n \in 0 .. c.depth :
                               { row[1] : row \in { m \in c.nodes : m[2] <= n } }
                                 = { i \in Reach(c.seed, n) : Visible(stored[i], FALSE) }
                          /\ \A row \in c.nodes : row[2] <= c.depth
                          /\ c.edges = { e \in relations :
                               /\ e.sensitivity # "restricted"
                               /\ \A i \in {e.source, e.target} :
                                    i \in Reach(c.seed, c.depth) /\ Visible(stored[i], FALSE) }
    BY DEF TraversalIsReach
  <2>1. call[r] \in Walk
    BY KindOfCall DEF TypeInv, CallsTypeOK
  <2>2. PICK c : c = call[r]
    OBVIOUS
  <2>3. /\ c.seed \in Ids /\ c.depth \in Nat
        /\ c.nodes = Seen(PathRows(c.seed, c.depth)) /\ c.edges = EdgesOf(c.nodes)
    BY <2>1, <2>2 DEF Walk, WalkInv, Walked
  <2>4. ASSUME NEW n \in 0 .. c.depth, NEW i
        PROVE  (\E row \in c.nodes : row[2] <= n /\ row[1] = i)
                 <=> i \in Reach(c.seed, n) /\ Visible(stored[i], FALSE)
    <3> DEFINE rows == PathRows(c.seed, c.depth)
    <3>1. \A row : row \in c.nodes <=> row \in rows /\ Visible(stored[row[1]], FALSE)
      BY <2>3 DEF Seen
    <3>2. i \in Reach(c.seed, n) <=> \E row \in rows : row[2] <= n /\ row[1] = i
      BY <2>3, RowsAreReach
    <3> HIDE DEF rows
    <3>3. ASSUME NEW row \in c.nodes, row[2] <= n, row[1] = i
          PROVE  i \in Reach(c.seed, n) /\ Visible(stored[i], FALSE)
      BY <3>1, <3>2, <3>3
    <3>4. ASSUME i \in Reach(c.seed, n), Visible(stored[i], FALSE)
          PROVE  \E row \in c.nodes : row[2] <= n /\ row[1] = i
      <4>1. PICK row \in rows : row[2] <= n /\ row[1] = i
        BY <3>2, <3>4
      <4>2. row \in c.nodes
        BY <3>1, <3>4, <4>1
      <4> QED BY <4>1, <4>2
    <3> QED BY <3>3, <3>4
  <2>5. \A row \in c.nodes : row[2] \in 0 .. c.depth
    BY <2>3, PathRowTypes DEF Seen
  <2>6. ASSUME NEW n \in 0 .. c.depth
        PROVE  { row[1] : row \in { m \in c.nodes : m[2] <= n } }
                 = { i \in Reach(c.seed, n) : Visible(stored[i], FALSE) }
    <3> DEFINE A == { row[1] : row \in { m \in c.nodes : m[2] <= n } }
               B == { i \in Reach(c.seed, n) : Visible(stored[i], FALSE) }
    <3>1. \A i : i \in A <=> \E row \in c.nodes : row[2] <= n /\ row[1] = i
      OBVIOUS
    <3>2. \A i : i \in B <=> i \in Reach(c.seed, n) /\ Visible(stored[i], FALSE)
      OBVIOUS
    <3>3. \A i : i \in A <=> i \in B
      <4> HIDE DEF A, B
      <4> QED BY <2>4, <3>1, <3>2
    <3> HIDE DEF A, B
    <3>4. A = B
      BY <3>3
    <3> QED BY <3>4 DEF A, B
  <2>7. \A row \in c.nodes : row[2] <= c.depth
    BY <2>3, <2>5
  <2>8. \A i : i \in {row[1] : row \in c.nodes}
                 <=> i \in Reach(c.seed, c.depth) /\ Visible(stored[i], FALSE)
    <3>1. c.depth \in 0 .. c.depth
      BY <2>3
    <3> DEFINE A == {row[1] : row \in c.nodes}
    <3>2. \A i : i \in A <=> \E row \in c.nodes : row[2] <= c.depth /\ row[1] = i
      BY <2>7
    <3>3. \A i : (\E row \in c.nodes : row[2] <= c.depth /\ row[1] = i)
                   <=> i \in Reach(c.seed, c.depth) /\ Visible(stored[i], FALSE)
      BY <2>4, <3>1
    <3> HIDE DEF A
    <3>4. \A i : i \in A <=> i \in Reach(c.seed, c.depth) /\ Visible(stored[i], FALSE)
      BY <3>2, <3>3
    <3> QED BY <3>4 DEF A
  <2>9. c.edges = { e \in relations :
                      /\ e.sensitivity # "restricted"
                      /\ \A i \in {e.source, e.target} :
                           i \in Reach(c.seed, c.depth) /\ Visible(stored[i], FALSE) }
    BY <2>3, <2>8 DEF EdgesOf
  <2> QED BY <2>2, <2>6, <2>7, <2>9
<1> QED BY <1>1, <1>2, <1>3, TypeInvHolds, PTL DEF Spec

-----------------------------------------------------------------------------
(* Completeness.                                                           *)

VisibleIn(S, c) == { i \in S : Visible(stored[i], c.public) }

(* What the keyword search finds: LIMIT comes before the filter.             *)
PageOf(c) == VisibleIn(ToSet(UpTo(SearchLimit(c), Rest(c))), c)

(* A recall nobody disturbed and no error cut short: what each of its lists  *)
(* holds by then.  A list that was cut is as long as its limit.              *)
Found(c, written) ==
  c \in Recall /\ written = {} /\ ~ c.caught =>
    /\ c.op = "fts" => ToSet(c.fts) \cup VisibleIn(ToSet(c.todo), c) = PageOf(c)
    /\ c.op # "fts" => ToSet(c.fts) = PageOf(c)
    /\ c.op = "vector" =>
         Members(c.items) \cup VisibleIn(ToSet(c.todo), c) = VisibleIn(embeddings, c)
    /\ c.op \in {"hydrate", "lifecycle", "touch", "recalled"} /\ c.kind # "keyword" =>
         ToSet(c.vector) = VisibleIn(embeddings, c) \/ Len(c.vector) = SearchLimit(c)
    /\ c.op = "hydrate" => Members(c.items) = ToSet(c.fts) \cup ToSet(c.vector)
    /\ c.op \in {"lifecycle", "touch"} /\ Len(c.items) < HybridLimit(c) =>
         Members(c.items) = ToSet(c.fts) \cup ToSet(c.vector)
    /\ c.op = "recalled" /\ Len(c.items) < c.limit =>
         Members(c.items) = ToSet(c.fts) \cup (IF c.kind = "keyword" THEN {} ELSE ToSet(c.vector))

FoundInv == \A r \in Readers : Found(call[r], changed[r])

LEMMA SameLimits ==
  ASSUME NEW c, NEW d, SameQuery(c, d)
  PROVE  /\ HybridLimit(d) = HybridLimit(c) /\ SearchLimit(d) = SearchLimit(c)
         /\ \A S : VisibleIn(S, d) = VisibleIn(S, c)
         /\ PageOf(d) = PageOf(c)
<1>1. HybridLimit(d) = HybridLimit(c) /\ SearchLimit(d) = SearchLimit(c)
  BY DEF SameQuery, HybridLimit, SearchLimit
<1>2. \A S : VisibleIn(S, d) = VisibleIn(S, c)
  BY DEF SameQuery, VisibleIn
<1>3. Rest(d) = Rest(c)
  BY DEF SameQuery, Rest
<1> QED BY <1>1, <1>2, <1>3 DEF PageOf

(* A step of a call in flight leaves what others wrote since as it is.       *)
LEMMA InFlight ==
  ASSUME QueryAssumption, TypeInv, NEW r \in Readers, RecallStep(r),
         call[r].op \notin {"idle", "recalled", "failed", "walked", "compared"}
  PROVE  changed'[r] = changed[r]
<1>1. Free(r) \/ changed' = changed
  BY ReaderFrame DEF TypeInv, Reads
<1> QED BY <1>1 DEF Free

LEMMA FoundByKeywords ==
  ASSUME QueryAssumption, TypeInv, FoundInv, NEW r \in Readers,
         \/ BeginRecall(r) \/ ReadFtsRow(r) \/ CatchFtsError(r)
         \/ ReturnKeyword(r) \/ SelectVectors(r)
  PROVE  Found(call'[r], changed'[r])
<1> DEFINE c == call[r]
           d == call'[r]
           W == changed[r]
           i == Head(c.todo)
<1>1. RetrievalTypeOK /\ CallsTypeOK /\ Found(c, W)
  BY DEF TypeInv, FoundInv
<1>2. RecallStep(r)
  BY DEF RecallStep
<1>3. CASE BeginRecall(r)
  <2>1. d \in Recall /\ d.op = "fts" /\ d.fts = <<>> /\ d.todo = UpTo(SearchLimit(d), Rest(d))
    BY <1>1, <1>3, BeginRecallResult
  <2> HIDE DEF c, d
  <2>2. ToSet(d.fts) \cup VisibleIn(ToSet(d.todo), d) = PageOf(d)
    BY <2>1, EmptyLists DEF PageOf
  <2> QED BY <2>1, <2>2 DEF Found, d
<1>4. CASE ReadFtsRow(r)
  <2>1. /\ c \in Recall /\ c.op = "fts" /\ i \in ToSet(c.todo)
        /\ d \in Recall /\ SameQuery(c, d) /\ d.op = "fts"
        /\ ToSet(d.todo) = ToSet(c.todo) \ {i}
        /\ ToSet(d.fts) = IF Visible(stored[i], c.public) THEN ToSet(c.fts) \cup {i} ELSE ToSet(c.fts)
    BY <1>1, <1>4, ReadFtsRowResult
  <2>2. changed'[r] = W
    BY <1>2, <2>1, InFlight
  <2> HIDE DEF c, d, W, i
  <2>3. ToSet(d.fts) \cup VisibleIn(ToSet(d.todo), c) = ToSet(c.fts) \cup VisibleIn(ToSet(c.todo), c)
    <3> DEFINE A == ToSet(c.fts)
               B == ToSet(d.fts)
               T == ToSet(c.todo)
               U == ToSet(d.todo)
    <3>1. /\ i \in T /\ U = T \ {i}
          /\ Visible(stored[i], c.public) => B = A \cup {i}
          /\ ~ Visible(stored[i], c.public) => B = A
      BY <2>1
    <3> HIDE DEF A, B, T, U
    <3>2. CASE Visible(stored[i], c.public)
      <4>1. VisibleIn(T, c) = VisibleIn(U, c) \cup {i}
        BY <3>1, <3>2 DEF VisibleIn
      <4> QED BY <3>1, <3>2, <4>1 DEF A, B, T, U
    <3>3. CASE ~ Visible(stored[i], c.public)
      <4>1. VisibleIn(T, c) = VisibleIn(U, c)
        BY <3>1, <3>3 DEF VisibleIn
      <4> QED BY <3>1, <3>3, <4>1 DEF A, B, T, U
    <3> QED BY <3>2, <3>3
  <2>4. Found(d, W)
    BY <1>1, <2>1, <2>3, SameLimits DEF Found, SameQuery
  <2> QED BY <2>2, <2>4 DEF d, W
<1>5. CASE ReturnKeyword(r)
  <2>1. /\ c \in Recall /\ c.op = "fts" /\ c.todo = <<>> /\ c.kind = "keyword" /\ WellShaped(c)
        /\ d \in Recall /\ SameQuery(c, d) /\ d.op = "recalled"
        /\ d.fts = c.fts /\ d.items = c.items
    BY <1>1, <1>5, ReturnKeywordResult DEF CallsTypeOK
  <2>2. changed'[r] = W
    BY <1>2, <2>1, InFlight
  <2> HIDE DEF c, d, W, i
  <2>3. Members(c.items) = ToSet(c.fts)
    BY <2>1 DEF WellShaped, Members
  <2>4. VisibleIn(ToSet(c.todo), c) = {}
    BY <2>1, EmptyLists DEF VisibleIn
  <2>5. d.kind = "keyword"
    BY <2>1 DEF SameQuery
  <2>6. Found(d, W)
    BY <1>1, <2>1, <2>3, <2>4, <2>5, SameLimits DEF Found, SameQuery
  <2> QED BY <2>2, <2>6 DEF d, W
<1>6. CASE SelectVectors(r)
  <2>1. /\ c \in Recall /\ c.op = "fts" /\ c.todo = <<>>
        /\ d \in Recall /\ SameQuery(c, d) /\ d.op = "vector"
        /\ d.fts = c.fts /\ d.items = <<>> /\ ToSet(d.todo) = embeddings
    BY <1>1, <1>6, SelectVectorsResult
  <2>2. changed'[r] = W
    BY <1>2, <2>1, InFlight
  <2> HIDE DEF c, d, W, i
  <2>3. VisibleIn(ToSet(c.todo), c) = {} /\ Members(d.items) = {}
    BY <2>1, EmptyLists DEF VisibleIn
  <2>4. Found(d, W)
    BY <1>1, <2>1, <2>3, SameLimits DEF Found, SameQuery
  <2> QED BY <2>2, <2>4 DEF d, W
<1>7. CASE CatchFtsError(r)
  <2>1. d.caught
    BY <1>1, <1>7, CatchFtsErrorResult
  <2> QED BY <2>1 DEF Found
<1> QED BY <1>3, <1>4, <1>5, <1>6, <1>7

LEMMA FoundByVectors ==
  ASSUME QueryAssumption, TypeInv, FoundInv, NEW r \in Readers,
         ReadVectorRow(r) \/ Fuse(r) \/ Hydrate(r)
  PROVE  Found(call'[r], changed'[r])
<1> DEFINE c == call[r]
           d == call'[r]
           W == changed[r]
           i == Head(c.todo)
<1>1. RetrievalTypeOK /\ CallsTypeOK /\ Found(c, W)
  BY DEF TypeInv, FoundInv
<1>2. RecallStep(r)
  BY DEF RecallStep
<1>3. CASE ReadVectorRow(r)
  <2>1. /\ c \in Recall /\ c.op = "vector" /\ i \in ToSet(c.todo)
        /\ d \in Recall /\ SameQuery(c, d) /\ d.op = "vector" /\ d.fts = c.fts
        /\ ToSet(d.todo) = ToSet(c.todo) \ {i}
        /\ Members(d.items) = IF Visible(stored[i], c.public) THEN Members(c.items) \cup {i}
                              ELSE Members(c.items)
    BY <1>1, <1>3, ReadVectorRowResult
  <2>2. changed'[r] = W
    BY <1>2, <2>1, InFlight
  <2> HIDE DEF c, d, W, i
  <2>3. Members(d.items) \cup VisibleIn(ToSet(d.todo), c)
          = Members(c.items) \cup VisibleIn(ToSet(c.todo), c)
    <3> DEFINE A == Members(c.items)
               B == Members(d.items)
               T == ToSet(c.todo)
               U == ToSet(d.todo)
    <3>1. /\ i \in T /\ U = T \ {i}
          /\ Visible(stored[i], c.public) => B = A \cup {i}
          /\ ~ Visible(stored[i], c.public) => B = A
      BY <2>1
    <3> HIDE DEF A, B, T, U
    <3>2. CASE Visible(stored[i], c.public)
      <4>1. VisibleIn(T, c) = VisibleIn(U, c) \cup {i}
        BY <3>1, <3>2 DEF VisibleIn
      <4> QED BY <3>1, <3>2, <4>1 DEF A, B, T, U
    <3>3. CASE ~ Visible(stored[i], c.public)
      <4>1. VisibleIn(T, c) = VisibleIn(U, c)
        BY <3>1, <3>3 DEF VisibleIn
      <4> QED BY <3>1, <3>3, <4>1 DEF A, B, T, U
    <3> QED BY <3>2, <3>3
  <2>4. Found(d, W)
    BY <1>1, <2>1, <2>3, SameLimits DEF Found, SameQuery
  <2> QED BY <2>2, <2>4 DEF d, W
<1>4. CASE Fuse(r)
  <2> DEFINE limit == SearchLimit(c)
             matches == UpTo(limit, c.items)
  <2>1. /\ c \in Recall /\ c.op = "vector" /\ c.todo = <<>>
        /\ d \in Recall /\ WellShaped(d) /\ SameQuery(c, d) /\ d.op = "hydrate"
        /\ d.fts = c.fts /\ d.vector = IdsOf(matches)
    BY <1>1, <1>4, FuseResult
  <2>2. changed'[r] = W
    BY <1>2, <2>1, InFlight
  <2>3. c.items \in Seq(Item) /\ limit \in Nat
    BY <2>1, RecallFields, SearchLimits
  <2> HIDE DEF c, d, W, i, limit
  <2>4. matches \in Seq(Item) /\ Len(matches) <= limit /\ (Len(matches) < limit => matches = c.items)
    <3>1. Len(c.items) \in Nat
      BY <2>3
    <3> QED BY <2>3, <3>1, Page
  <2> HIDE DEF matches
  <2>5. Len(d.vector) = Len(matches) /\ Len(matches) \in Nat
    BY <2>1, <2>4, IdsOfItems
  <2>6. ToSet(d.vector) = Members(c.items) \/ Len(d.vector) = limit
    BY <2>1, <2>3, <2>4, <2>5 DEF Members
  <2>7. VisibleIn(ToSet(c.todo), c) = {}
    BY <2>1, EmptyLists DEF VisibleIn
  <2>8. Members(d.items) = ToSet(d.fts) \cup ToSet(d.vector)
    <3>1. IdsOf(d.items) = ScoreMapKeys(d.fts, d.vector) /\ IsInjective(d.fts) /\ IsInjective(d.vector)
      BY <2>1 DEF WellShaped
    <3>2. d.fts \in Seq(Ids) /\ d.vector \in Seq(Ids)
      BY <2>1, RecallFields
    <3>3. ToSet(ScoreMapKeys(d.fts, d.vector)) = ToSet(d.fts) \cup ToSet(d.vector)
      BY <3>1, <3>2, KeysOfBoth
    <3> QED BY <3>1, <3>3 DEF Members
  <2>9. Found(d, W)
    <3>1. W = {} /\ ~ c.caught =>
            ToSet(c.fts) = PageOf(c) /\ Members(c.items) = VisibleIn(embeddings, c)
      BY <1>1, <2>1, <2>7 DEF Found
    <3>2. PageOf(d) = PageOf(c) /\ SearchLimit(d) = limit
          /\ VisibleIn(embeddings, d) = VisibleIn(embeddings, c)
      BY <2>1, SameLimits DEF limit
    <3> QED BY <2>1, <2>6, <2>8, <3>1, <3>2 DEF Found, SameQuery
  <2> QED BY <2>2, <2>9 DEF d, W
<1>5. CASE Hydrate(r)
  <2>1. /\ c \in Recall /\ c.op = "hydrate"
        /\ d \in Recall /\ SameQuery(c, d) /\ d.op = "hydrate"
        /\ d.fts = c.fts /\ d.vector = c.vector /\ Members(d.items) = Members(c.items)
    BY <1>1, <1>5, HydrateResult
  <2>2. changed'[r] = W
    BY <1>2, <2>1, InFlight
  <2> HIDE DEF c, d, W, i
  <2>3. d.kind = c.kind
    BY <2>1 DEF SameQuery
  <2>4. Found(d, W)
    BY <1>1, <2>1, <2>3, SameLimits DEF Found, SameQuery
  <2> QED BY <2>2, <2>4 DEF d, W
<1> QED BY <1>3, <1>4, <1>5

LEMMA FoundByAll ==
  ASSUME QueryAssumption, TypeInv, FoundInv, NEW r \in Readers,
         ReturnHybrid(r) \/ ReadLifecycle(r) \/ Touch(r) \/ ReturnRanked(r)
  PROVE  Found(call'[r], changed'[r])
<1> DEFINE c == call[r]
           d == call'[r]
           W == changed[r]
<1>1. RetrievalTypeOK /\ CallsTypeOK /\ Found(c, W)
  BY DEF TypeInv, FoundInv
<1>2. RecallStep(r)
  BY DEF RecallStep
<1>3. /\ c \in Recall /\ WellShaped(c) /\ d \in Recall /\ SameQuery(c, d)
      /\ c.op \in {"hydrate", "lifecycle", "touch"}
      /\ d.fts = c.fts /\ d.vector = c.vector
  <2>1. c \in Recall /\ d \in Recall /\ SameQuery(c, d)
        /\ c.op \in {"hydrate", "lifecycle", "touch"}
        /\ d.fts = c.fts /\ d.vector = c.vector
    BY <1>1, ReturnHybridResult, ReadLifecycleResult, TouchResult, ReturnRankedResult
  <2> QED BY <1>1, <2>1 DEF CallsTypeOK
<1>4. changed'[r] = W
  BY <1>2, <1>3, InFlight
<1>5. c.items \in Seq(Item) /\ Len(c.items) \in Nat /\ d.items \in Seq(Item) /\ Len(d.items) \in Nat
  BY <1>3, RecallFields
<1>6. /\ c.limit \in Nat \ {0}
      /\ HybridLimit(c) = IF c.kind = "ranked" THEN 2 * c.limit ELSE c.limit
  BY <1>3, SearchLimits
<1>7. c.kind # "keyword" /\ (c.op \in {"lifecycle", "touch"} => c.kind = "ranked")
  BY <1>3 DEF WellShaped
<1>8. /\ d.kind = c.kind /\ d.limit = c.limit /\ d.caught = c.caught
      /\ HybridLimit(d) = HybridLimit(c)
  BY <1>3, SameLimits DEF SameQuery
<1>9. ASSUME W = {}, ~ d.caught
      PROVE  /\ ToSet(d.fts) = PageOf(d)
             /\ ToSet(d.vector) = VisibleIn(embeddings, d) \/ Len(d.vector) = SearchLimit(d)
  <2> HIDE DEF c, d, W
  <2>1. ToSet(c.fts) = PageOf(c)
        /\ (ToSet(c.vector) = VisibleIn(embeddings, c) \/ Len(c.vector) = SearchLimit(c))
    BY <1>1, <1>3, <1>7, <1>8, <1>9 DEF Found
  <2> QED BY <1>3, <2>1, SameLimits
<1> DEFINE Both == ToSet(d.fts) \cup ToSet(d.vector)
<1>10. ASSUME W = {}, ~ d.caught
       PROVE  /\ d.op \in {"lifecycle", "touch"} /\ Len(d.items) < HybridLimit(d) =>
                   Members(d.items) = Both
              /\ d.op = "recalled" /\ Len(d.items) < d.limit => Members(d.items) = Both
              /\ d.op \in {"lifecycle", "touch", "recalled", "failed"}
  <2>1. CASE ReturnHybrid(r)
    <3>1. /\ c.op = "hydrate"
          /\ d.op = (IF c.kind = "hybrid" THEN "recalled" ELSE "lifecycle")
          /\ Len(d.items) < HybridLimit(c) => Members(d.items) = Members(c.items)
      BY <1>1, <2>1, ReturnHybridResult
    <3> HIDE DEF c, d, W
    <3>2. Members(c.items) = Both
      BY <1>1, <1>3, <1>8, <1>10, <3>1 DEF Found
    <3> QED BY <1>6, <1>7, <1>8, <3>1, <3>2
  <2>2. CASE ReadLifecycle(r)
    <3>1. /\ c.op = "lifecycle" /\ d.op = "touch"
          /\ Len(d.items) = Len(c.items) /\ Members(d.items) = Members(c.items)
      BY <1>1, <2>2, ReadLifecycleResult
    <3> HIDE DEF c, d, W
    <3>2. Len(c.items) < HybridLimit(c) => Members(c.items) = Both
      BY <1>1, <1>3, <1>8, <1>10, <3>1 DEF Found
    <3> QED BY <1>8, <3>1, <3>2
  <2>3. CASE Touch(r)
    <3>1. c.op = "touch" /\ d.op \in {"lifecycle", "failed"} /\ d.items = c.items
      BY <1>1, <2>3, TouchResult
    <3> HIDE DEF c, d, W
    <3>2. Len(c.items) < HybridLimit(c) => Members(c.items) = Both
      BY <1>1, <1>3, <1>8, <1>10, <3>1 DEF Found
    <3> QED BY <1>8, <3>1, <3>2
  <2>4. CASE ReturnRanked(r)
    <3>1. /\ c.op = "lifecycle" /\ d.op = "recalled"
          /\ Len(d.items) < c.limit =>
               Members(d.items) = Members(c.items) /\ Len(d.items) = Len(c.items)
      BY <1>1, <2>4, ReturnRankedResult
    <3> HIDE DEF c, d, W
    <3>2. Len(c.items) < HybridLimit(c) => Members(c.items) = Both
      BY <1>1, <1>3, <1>8, <1>10, <3>1 DEF Found
    <3>3. Len(d.items) < c.limit => Len(d.items) < HybridLimit(c)
      BY <1>5, <1>6
    <3> QED BY <1>8, <3>1, <3>2, <3>3
  <2> QED BY <2>1, <2>2, <2>3, <2>4
<1>11. Found(d, W)
  <2> HIDE DEF c, d, W
  <2> QED BY <1>3, <1>7, <1>8, <1>9, <1>10 DEF Found
<1> QED BY <1>4, <1>11

(* What was found depends on the index, the vectors and on who may be seen.  *)
LEMMA FoundUnchanged ==
  ASSUME stored' = stored, embeddings' = embeddings,
         \A r \in Readers : Found(call'[r], changed'[r])
  PROVE  FoundInv'
<1>1. \A c : Rest(c)' = Rest(c)
  <2>1. IndexMatches' = IndexMatches
    BY DEF IndexMatches
  <2> QED BY <2>1 DEF Rest
<1>2. \A S, c : VisibleIn(S, c)' = VisibleIn(S, c)
  BY DEF VisibleIn
<1>3. \A c : PageOf(c)' = PageOf(c)
  BY <1>1, <1>2 DEF PageOf
<1> QED BY <1>2, <1>3 DEF FoundInv, Found

LEMMA FoundInvNext ==
  ASSUME QueryAssumption, TypeInv, FoundInv, [Next]_vars
  PROVE  FoundInv'
<1>1. ASSUME NEW r \in Readers, Reads(r) PROVE FoundInv'
  <2>1. /\ \A q \in Readers \ {r} : call'[q] = call[q] /\ changed'[q] = changed[q]
        /\ stored' = stored /\ embeddings' = embeddings
    BY <1>1, ReaderFrame DEF TypeInv
  <2>2. Found(call'[r], changed'[r])
    <3>1. CASE RecallStep(r)
      BY <3>1, FoundByKeywords, FoundByVectors, FoundByAll DEF RecallStep
    <3>2. CASE WalkStep(r)
      <4>1. call'[r] \in Walk
        BY <3>2, BeginTraverseResult, ReadNodeResult, SelectEdgesResult DEF WalkStep, TypeInv
      <4> QED BY <4>1, KindOfCall DEF Found
    <3>3. CASE CompareStep(r)
      <4>1. call'[r] \in Comparison
        BY <3>3, BeginCompareResult, ReadMemoryResult, CompareResult DEF CompareStep, TypeInv
      <4> QED BY <4>1, KindOfCall DEF Found
    <3> QED BY <1>1, <3>1, <3>2, <3>3 DEF Reads
  <2>3. \A q \in Readers : Found(call'[q], changed'[q])
    <3>1. \A q \in Readers \ {r} : Found(call'[q], changed'[q])
      BY <2>1 DEF FoundInv
    <3> QED BY <2>2, <3>1
  <2> QED BY <2>1, <2>3, FoundUnchanged
<1>2. ASSUME Write PROVE FoundInv'
  <2>1. \A q \in Readers : changed'[q] # {}
    BY <1>2, WriterFrame DEF TypeInv
  <2> QED BY <2>1 DEF FoundInv, Found
<1>3. ASSUME UNCHANGED vars PROVE FoundInv'
  <2>1. stored' = stored /\ embeddings' = embeddings /\ call' = call /\ changed' = changed
    BY <1>3 DEF vars, tables
  <2>2. \A r \in Readers : Found(call'[r], changed'[r])
    BY <2>1 DEF FoundInv
  <2> QED BY <2>1, <2>2, FoundUnchanged
<1> QED BY <1>1, <1>2, <1>3 DEF Next, Reads

LEMMA MembersCounted ==
  ASSUME NEW list \in Seq(Ids), IsInjective(list)
  PROVE  IsFiniteSet(ToSet(list)) /\ Cardinality(ToSet(list)) = Len(list)
BY CardinalityOfSeq DEF ToSet

(* A page that was cut is full of what the recall returned and of what the   *)
(* caller may not see.                                                       *)
LEMMA CutPage ==
  ASSUME QueryAssumption, NEW c \in Recall, NEW R, IsFiniteSet(R), PageOf(c) \subseteq R,
         Cardinality(R) + Cardinality(Hidden(c)) < SearchLimit(c)
  PROVE  PageOf(c) = VisibleIn(ToSet(Rest(c)), c)
<1> DEFINE limit == SearchLimit(c)
           page == UpTo(limit, Rest(c))
           H == Hidden(c)
<1>1. Rest(c) \in Seq(Ids) /\ IsInjective(Rest(c))
  BY RecallFields, RestOfMatches
<1>2. limit \in Nat
  BY SearchLimits
<1>3. /\ page \in Seq(Ids) /\ IsInjective(page) /\ ToSet(page) \subseteq ToSet(Rest(c))
      /\ Len(page) < limit => page = Rest(c)
  <2> HIDE DEF limit
  <2> QED BY <1>1, <1>2, Page
<1>4. IsFiniteSet(H)
  <2>1. H \subseteq ToSet(Rest(c))
    BY DEF Hidden
  <2> QED BY <1>1, <2>1, MembersCounted, FS_Subset
<1>5. ToSet(page) \subseteq R \cup H
  BY <1>3 DEF PageOf, VisibleIn, Hidden
<1>6. Len(page) < limit
  <2> DEFINE m == Cardinality(R)
             h == Cardinality(H)
             l == Len(page)
  <2>1. m \in Nat /\ h \in Nat /\ l \in Nat
    BY <1>3, <1>4, FS_CardinalityType
  <2>2. Cardinality(ToSet(page)) = l
    BY <1>3, MembersCounted
  <2>3. IsFiniteSet(R \cup H) /\ Cardinality(R \cup H) = m + h - Cardinality(R \cap H)
    <3> HIDE DEF H
    <3> QED BY <1>4, FS_Union
  <2>4. Cardinality(R \cap H) \in Nat
    BY <1>4, FS_Intersection, FS_CardinalityType
  <2>5. l <= Cardinality(R \cup H)
    <3> HIDE DEF page, H, l
    <3> QED BY <1>5, <2>2, <2>3, FS_Subset
  <2>6. m + h < limit
    OBVIOUS
  <2> HIDE DEF m, h, l, limit
  <2>7. l < limit
    BY <1>2, <2>1, <2>3, <2>4, <2>5, <2>6
  <2> QED BY <2>7 DEF l
<1> QED BY <1>3, <1>6 DEF PageOf

(* A recall nobody disturbed that comes back short found everything behind   *)
(* its offset, unless rows the caller may not see filled the page of the     *)
(* keyword search, or that search swallowed an error.                        *)
THEOREM RecallCompletes ==
  ASSUME QueryAssumption, WorldAssumption
  PROVE  Spec => []RecallIsComplete
<1>1. ASSUME Init PROVE FoundInv
  <2>1. \A r \in Readers : call[r] \notin Recall
    BY <1>1, KindOfCall DEF Init
  <2> QED BY <2>1 DEF FoundInv, Found
<1>2. FoundInv /\ TypeInv /\ [Next]_vars => FoundInv'
  BY FoundInvNext
<1>3. TypeInv /\ FoundInv => RecallIsComplete
  <2> SUFFICES ASSUME TypeInv, FoundInv, NEW r \in Readers,
                      call[r].op = "recalled", changed[r] = {}, ~ call[r].caught,
                      Len(call[r].items) < call[r].limit,
                      Len(call[r].items) + Cardinality(Hidden(call[r])) < SearchLimit(call[r])
               PROVE  Returned(r) = { i \in Findable(call[r]) : Visible(stored[i], call[r].public) }
    BY DEF RecallIsComplete
  <2> DEFINE c == call[r]
             R == Members(c.items)
             n == Len(c.items)
  <2>1. c \in Recall /\ WellShaped(c) /\ Found(c, {}) /\ c.op = "recalled" /\ ~ c.caught
    BY KindOfCall DEF TypeInv, CallsTypeOK, FoundInv
  <2>2. n < c.limit /\ n + Cardinality(Hidden(c)) < SearchLimit(c)
    OBVIOUS
  <2>3. c.items \in Seq(Item) /\ n \in Nat /\ c.vector \in Seq(Ids)
    BY <2>1, RecallFields
  <2>4. Returned(r) = R
    <3>1. DOMAIN c.items = 1 .. n
      BY <2>3
    <3>2. R = {c.items[k].id : k \in 1 .. n}
      BY <2>3, IdsOfItems
    <3> QED BY <3>1, <3>2 DEF Returned
  <2> HIDE DEF c
  <2>5. IsFiniteSet(R) /\ Cardinality(R) = n
    <3>1. IdsOf(c.items) \in Seq(Ids) /\ Len(IdsOf(c.items)) = n /\ IsInjective(IdsOf(c.items))
      BY <2>1, <2>3, IdsOfItems DEF WellShaped
    <3> QED BY <3>1, MembersCounted DEF Members
  <2> HIDE DEF R, n
  <2>6. /\ ToSet(c.fts) = PageOf(c)
        /\ R = ToSet(c.fts) \cup (IF c.kind = "keyword" THEN {} ELSE ToSet(c.vector))
        /\ c.kind # "keyword" =>
             ToSet(c.vector) = VisibleIn(embeddings, c) \/ Len(c.vector) = SearchLimit(c)
    BY <2>1, <2>2 DEF Found, R, n
  <2>7. PageOf(c) = VisibleIn(ToSet(Rest(c)), c)
    BY <2>1, <2>2, <2>5, <2>6, CutPage
  <2>8. ASSUME c.kind # "keyword" PROVE ToSet(c.vector) = VisibleIn(embeddings, c)
    <3>1. Cardinality(ToSet(c.vector)) = Len(c.vector)
      BY <2>1, <2>3, MembersCounted DEF WellShaped
    <3>2. ToSet(c.vector) \subseteq R
      BY <2>6, <2>8
    <3>3. Len(c.vector) <= n
      <4> DEFINE V == ToSet(c.vector)
      <4>1. V \subseteq R /\ Cardinality(V) = Len(c.vector)
        BY <3>1, <3>2
      <4> HIDE DEF V
      <4> QED BY <2>5, <4>1, FS_Subset
    <3>4. Len(c.vector) \in Nat
      BY <2>3
    <3>5. c.limit <= SearchLimit(c) /\ c.limit \in Nat /\ SearchLimit(c) \in Nat
      BY <2>1, <2>8, SearchLimits
    <3>6. Len(c.vector) # SearchLimit(c)
      <4> DEFINE l == Len(c.vector)
                 s == SearchLimit(c)
                 m == c.limit
      <4>1. l <= n /\ n < m /\ m <= s /\ l \in Nat /\ n \in Nat /\ m \in Nat /\ s \in Nat
        BY <2>2, <2>3, <3>3, <3>4, <3>5 DEF n
      <4> HIDE DEF l, s, m
      <4>2. l # s
        BY <4>1
      <4> QED BY <4>2 DEF l, s
    <3> QED BY <2>6, <2>8, <3>6
  <2>9. R = {i \in Findable(c) : Visible(stored[i], c.public)}
    <3>1. CASE c.kind = "keyword"
      BY <2>6, <2>7, <3>1 DEF Findable, VisibleIn
    <3>2. CASE c.kind # "keyword"
      <4>1. R = VisibleIn(ToSet(Rest(c)), c) \cup VisibleIn(embeddings, c)
        BY <2>6, <2>7, <2>8, <3>2
      <4>2. Findable(c) = ToSet(Rest(c)) \cup embeddings
        BY <3>2 DEF Findable
      <4> QED BY <4>1, <4>2 DEF VisibleIn
    <3> QED BY <3>1, <3>2
  <2> QED BY <2>4, <2>9 DEF c
<1> QED BY <1>1, <1>2, <1>3, TypeInvHolds, PTL DEF Spec
=============================================================================
