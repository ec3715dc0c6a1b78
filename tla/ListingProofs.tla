---------------------------- MODULE ListingProofs ---------------------------
(***************************************************************************)
(* What the lists of module Listing hold, and how long they are, for any   *)
(* finite set, any order and any list.                                     *)
(***************************************************************************)
EXTENDS Listing, FiniteSetsExt, FiniteSetTheorems, WellFoundedInduction, TLAPS

(* A strict total order of a set.                                          *)
Puts(S, before) ==
  /\ \A p \in S : <<p, p>> \notin before
  /\ \A p, q \in S : p # q => <<p, q>> \in before \/ <<q, p>> \in before
  /\ \A p, q, r \in S : <<p, q>> \in before /\ <<q, r>> \in before => <<p, r>> \in before

(* What comes before a member; the number of them is its rank.             *)
Sooners(S, before, p) == { q \in S : <<q, p>> \in before }

(* A set of numbers has a least one.  Every induction over a list or a     *)
(* recursive function here is a search for the least number at which it    *)
(* fails.                                                                  *)
LEMMA Least ==
  ASSUME NEW S \in SUBSET Nat, S # {}
  PROVE  \E m \in S : \A k \in S : m <= k
<1> DEFINE R == OpToRel(<, Nat)
<1>1. IsWellFoundedOn(R, Nat)
  BY NatLessThanWellFounded
<1>2. PICK m \in S : \A k \in S : <<k, m>> \notin R
  BY <1>1, WFMin, Zenon
<1>3. R = { ss \in Nat \X Nat : ss[1] < ss[2] }
  BY DEF OpToRel
<1> HIDE DEF R
<1>4. ASSUME NEW k \in S
      PROVE  m <= k
  <2>1. k \in Nat /\ m \in Nat
    OBVIOUS
  <2>2. k < m => <<k, m>> \in R
    BY <2>1, <1>3
  <2> QED
    BY <2>1, <2>2, <1>2
<1> QED
  BY <1>4

(* A bounded one has a greatest.                                           *)
LEMMA Greatest ==
  ASSUME NEW n \in Nat, NEW S \in SUBSET (0..n), S # {}
  PROVE  \E m \in S : \A k \in S : k <= m
<1> DEFINE T == { n - k : k \in S }
<1>1. T \in SUBSET Nat /\ T # {}
  <2>1. \A k \in S : n - k \in Nat
    OBVIOUS
  <2>2. PICK k \in S : TRUE
    OBVIOUS
  <2> QED
    BY <2>1, <2>2
<1>2. PICK t \in T : \A u \in T : t <= u
  BY <1>1, Least, Zenon
<1>3. PICK m \in S : t = n - m
  OBVIOUS
<1>4. \A k \in S : k <= m
  BY <1>2, <1>3
<1> QED
  BY <1>4

(* What comes before has fewer before it.                                  *)
LEMMA RankGrows ==
  ASSUME NEW S, IsFiniteSet(S), NEW before, Puts(S, before), NEW p \in S, NEW q \in S, <<p, q>> \in before
  PROVE  Cardinality(Sooners(S, before, p)) < Cardinality(Sooners(S, before, q))
<1>1. Sooners(S, before, p) \subseteq Sooners(S, before, q)
  BY DEF Puts, Sooners
<1>2. p \in Sooners(S, before, q) /\ p \notin Sooners(S, before, p)
  BY DEF Puts, Sooners
<1>5. Sooners(S, before, q) \in SUBSET S
  BY DEF Sooners
<1>3. IsFiniteSet(Sooners(S, before, q))
  BY <1>5, FS_Subset, Zenon
<1>4. Sooners(S, before, p) # Sooners(S, before, q)
  BY <1>2
<1> QED
  BY <1>1, <1>3, <1>4, FS_Subset, FS_CardinalityType

(* The rank of a member is less than the number of members.                *)
LEMMA RankBelow ==
  ASSUME NEW S, IsFiniteSet(S), NEW before, Puts(S, before), NEW p \in S
  PROVE  Cardinality(Sooners(S, before, p)) \in 0..(Cardinality(S) - 1)
<1>1. Sooners(S, before, p) \subseteq S /\ p \notin Sooners(S, before, p)
  BY DEF Puts, Sooners
<1>3. Sooners(S, before, p) \in SUBSET S /\ Sooners(S, before, p) # S
  BY <1>1
<1>4. /\ IsFiniteSet(Sooners(S, before, p)) /\ Cardinality(Sooners(S, before, p)) <= Cardinality(S)
      /\ Cardinality(S) # Cardinality(Sooners(S, before, p))
  BY <1>3, FS_Subset, Zenon
<1>2. IsFiniteSet(Sooners(S, before, p)) /\ Cardinality(Sooners(S, before, p)) < Cardinality(S)
  BY <1>4, FS_CardinalityType
<1> QED
  BY <1>2, FS_CardinalityType

(* As many pigeons as holes, none shared: no hole is empty.                *)
LEMMA NoneEmpty ==
  ASSUME NEW S, IsFiniteSet(S), NEW f \in [S -> 1..Cardinality(S)],
         \A p, q \in S : p # q => f[p] # f[q],
         NEW n \in 1..Cardinality(S)
  PROVE  \E p \in S : f[p] = n
<1> DEFINE N == Cardinality(S)
           T == (1..N) \ {n}
<1>0. N \in Nat
  BY FS_CardinalityType
<1> SUFFICES ASSUME \A p \in S : f[p] # n PROVE FALSE
  OBVIOUS
<1>1. f \in [S -> T]
  OBVIOUS
<1>2. IsFiniteSet(1..N) /\ Cardinality(1..N) = N
  BY <1>0, FS_Interval
<1>3. IsFiniteSet(T) /\ Cardinality(T) = N - 1
  BY <1>2, FS_RemoveElement
<1>4. Cardinality(T) < Cardinality(S)
  BY <1>3, <1>0
<1> HIDE DEF T, N
<1>5. \E x, y \in S : x # y /\ f[x] = f[y]
  BY <1>1, <1>3, <1>4, FS_PigeonHole
<1> QED
  BY <1>5

(* What InOrder enumerates: every member once, in order.                   *)
Enumerates(order, S, before) ==
  /\ order \in [1..Cardinality(S) -> S]
  /\ \A p \in S : \E n \in 1..Cardinality(S) : order[n] = p
  /\ \A m, n \in 1..Cardinality(S) : m < n => <<order[m], order[n]>> \in before /\ order[m] # order[n]

(* InOrder is a list as long as its set is large.                          *)
LEMMA InOrderFills ==
  ASSUME NEW S, NEW before
  PROVE  InOrder(S, before) = [n \in 1..Cardinality(S) |-> InOrder(S, before)[n]]
<1> DEFINE Member(n) == CHOOSE p \in S : Cardinality({ q \in S : <<q, p>> \in before }) = n - 1
<1>1. InOrder(S, before) = [n \in 1..Cardinality(S) |-> Member(n)]
  BY DEF InOrder
<1> HIDE DEF Member
<1> QED
  BY <1>1

(* A relation that puts one of any two before the other has ranks without  *)
(* gaps: InOrder lists every member once, in that order.                   *)
LEMMA InOrderEnumerates ==
  ASSUME NEW S, IsFiniteSet(S), NEW before, Puts(S, before)
  PROVE  Enumerates(InOrder(S, before), S, before)
<1> DEFINE N == Cardinality(S)
           Rank(p) == Cardinality(Sooners(S, before, p))
           f == [p \in S |-> Rank(p) + 1]
           order == InOrder(S, before)
<1>0. N \in Nat
  BY FS_CardinalityType
<1>1. \A p \in S : Rank(p) \in 0..(N - 1)
  BY RankBelow
<1>2. f \in [S -> 1..N]
  BY <1>0, <1>1
<1>3. \A p, q \in S : <<p, q>> \in before => Rank(p) < Rank(q)
  BY RankGrows
<1>4. ASSUME NEW p \in S, NEW q \in S, p # q
      PROVE  Rank(p) # Rank(q)
  <2>1. <<p, q>> \in before \/ <<q, p>> \in before
    BY <1>4 DEF Puts
  <2>2. Rank(p) < Rank(q) \/ Rank(q) < Rank(p)
    BY <2>1, <1>3, Zenon
  <2>3. Rank(p) \in Nat /\ Rank(q) \in Nat
    BY <1>1, <1>0
  <2> HIDE DEF Rank
  <2> QED
    BY <2>2, <2>3
<1>5. \A p, q \in S : p # q => f[p] # f[q]
  BY <1>4, <1>1
<1>6. \A n \in 1..N : \E p \in S : f[p] = n
  BY <1>2, <1>5, NoneEmpty
<1>7. \A n \in 1..N : \E p \in S : Rank(p) = n - 1
  BY <1>6, <1>1, <1>0
<1>8. \A n \in 1..N : order[n] = CHOOSE p \in S : Rank(p) = n - 1
  BY DEF InOrder, Sooners
<1> HIDE DEF Rank
<1>9. \A n \in 1..N : order[n] \in S /\ Rank(order[n]) = n - 1
  BY <1>7, <1>8
<1>10. order \in [1..N -> S]
  <2>1. order = [n \in 1..N |-> order[n]]
    BY InOrderFills, Zenon
  <2> HIDE DEF order
  <2> QED
    BY <2>1, <1>9
<1> HIDE DEF order
<1>11. ASSUME NEW p \in S
       PROVE  \E n \in 1..N : order[n] = p
  <2>1. Rank(p) + 1 \in 1..N
    BY <1>1, <1>0
  <2>2. Rank(order[Rank(p) + 1]) = Rank(p) /\ order[Rank(p) + 1] \in S
    BY <2>1, <1>9, <1>1
  <2>3. order[Rank(p) + 1] = p
    BY <2>2, <1>4
  <2> QED
    BY <2>1, <2>3
<1>12. ASSUME NEW m \in 1..N, NEW n \in 1..N, m < n
       PROVE  <<order[m], order[n]>> \in before /\ order[m] # order[n]
  <2>1. Rank(order[m]) = m - 1 /\ Rank(order[n]) = n - 1 /\ order[m] \in S /\ order[n] \in S
    BY <1>9
  <2>2. Rank(order[m]) < Rank(order[n])
    BY <2>1, <1>0, <1>12
  <2>3. order[m] # order[n]
    BY <2>2, <1>0, <2>1
  <2>4. ~ (<<order[n], order[m]>> \in before)
    <3> SUFFICES ASSUME <<order[n], order[m]>> \in before PROVE FALSE
      OBVIOUS
    <3>1. Rank(order[n]) < Rank(order[m])
      BY <2>1, <1>3
    <3> QED
      BY <3>1, <2>1, <1>12, <1>0
  <2> QED
    BY <2>1, <2>3, <2>4 DEF Puts
<1> QED
  BY <1>10, <1>11, <1>12 DEF Enumerates, order

(* A list of the members of another at some places, each once.             *)
Picked(list, s, places) ==
  /\ list = [n \in 1..Cardinality(places) |-> list[n]]
  /\ \A n \in 1..Cardinality(places) : \E p \in places : list[n] = s[p]
  /\ \A p \in places : \E n \in 1..Cardinality(places) : list[n] = s[p]
  /\ \A m, n \in 1..Cardinality(places) : m # n =>
       \E p, q \in places : p # q /\ list[m] = s[p] /\ list[n] = s[q]

(* A list read off in an order of its places picks each of them once.      *)
LEMMA OrderPicks ==
  ASSUME NEW s, NEW places, IsFiniteSet(places), NEW order, NEW before, Enumerates(order, places, before)
  PROVE  Picked([n \in DOMAIN order |-> s[order[n]]], s, places)
<1> DEFINE N == Cardinality(places)
           list == [n \in DOMAIN order |-> s[order[n]]]
<1>0. N \in Nat
  BY FS_CardinalityType
<1> HIDE DEF N
<1>1. DOMAIN order = 1..N /\ \A n \in 1..N : order[n] \in places
  BY DEF Enumerates, N
<1>2. \A n \in 1..N : list[n] = s[order[n]]
  BY <1>1
<1>3. list = [n \in 1..N |-> list[n]]
  BY <1>1
<1> HIDE DEF list
<1>4. \A n \in 1..N : \E p \in places : list[n] = s[p]
  BY <1>1, <1>2
<1>5. \A p \in places : \E n \in 1..N : list[n] = s[p]
  BY <1>2 DEF Enumerates, N
<1>6. \A m, n \in 1..N : m # n => order[m] # order[n]
  <2>1. \A m, n \in 1..N : m < n => order[m] # order[n]
    BY DEF Enumerates, N
  <2>2. \A m, n \in 1..N : m # n => m < n \/ n < m
    BY <1>0
  <2> QED
    BY <2>1, <2>2
<1>7. \A m, n \in 1..N : m # n => \E p, q \in places : p # q /\ list[m] = s[p] /\ list[n] = s[q]
  BY <1>1, <1>2, <1>6
<1> QED
  BY <1>3, <1>4, <1>5, <1>7 DEF Picked, list, N

(* A filtered list holds what was chosen, in its order.                    *)
LEMMA ChosenPicks ==
  ASSUME NEW s, NEW places \in SUBSET Nat, IsFiniteSet(places)
  PROVE  Picked(Chosen(s, places), s, places)
<1> DEFINE before == { r \in places \X places : r[1] < r[2] }
<1>1. Puts(places, before)
  <2>1. \A p \in places : <<p, p>> \notin before
    OBVIOUS
  <2>2. \A p, q \in places : p # q => <<p, q>> \in before \/ <<q, p>> \in before
    OBVIOUS
  <2>3. \A p, q, r \in places : <<p, q>> \in before /\ <<q, r>> \in before => <<p, r>> \in before
    OBVIOUS
  <2> QED
    BY <2>1, <2>2, <2>3 DEF Puts
<1> HIDE DEF before
<1>2. Enumerates(InOrder(places, before), places, before)
  BY <1>1, InOrderEnumerates
<1>3. Chosen(s, places) = [n \in DOMAIN InOrder(places, before) |-> s[InOrder(places, before)[n]]]
  BY DEF Chosen, before
<1> QED
  BY <1>2, <1>3, OrderPicks

(* A sorted list holds the same elements.                                  *)
LEMMA InTimePicks ==
  ASSUME NEW s, DOMAIN s \in SUBSET Nat, IsFiniteSet(DOMAIN s), 
         \A i \in DOMAIN s : s[i].from \in Int /\ s[i].to \in Int
  PROVE  Picked(InTime(s), s, DOMAIN s)
<1> DEFINE places == DOMAIN s
           before == { r \in places \X places : Sooner(s, r[1], r[2]) }
<1>0. \A i \in places : i \in Nat
  OBVIOUS
<1>1. Puts(places, before)
  <2>1. \A p \in places : <<p, p>> \notin before
    BY <1>0 DEF Sooner
  <2>2. ASSUME NEW p \in places, NEW q \in places, p # q
        PROVE  <<p, q>> \in before \/ <<q, p>> \in before
    <3>1. Sooner(s, p, q) \/ Sooner(s, q, p)
      BY <1>0, <2>2 DEF Sooner
    <3> QED
      BY <3>1
  <2>3. ASSUME NEW p \in places, NEW q \in places, NEW r \in places,
               <<p, q>> \in before, <<q, r>> \in before
        PROVE  <<p, r>> \in before
    <3>1. Sooner(s, p, q) /\ Sooner(s, q, r)
      BY <2>3
    <3>2. Sooner(s, p, r)
      BY <3>1, <1>0 DEF Sooner
    <3> QED
      BY <3>2
  <2> QED
    BY <2>1, <2>2, <2>3 DEF Puts
<1>2. InTime(s) = [n \in DOMAIN InOrder(places, before) |-> s[InOrder(places, before)[n]]]
  BY DEF InTime
<1> HIDE DEF before, places
<1>3. IsFiniteSet(places)
  BY DEF places
<1>4. Enumerates(InOrder(places, before), places, before)
  BY <1>1, <1>3, InOrderEnumerates
<1>5. Picked([n \in DOMAIN InOrder(places, before) |-> s[InOrder(places, before)[n]]], s, places)
  BY <1>3, <1>4, OrderPicks
<1> QED
  BY <1>2, <1>5 DEF places

(* What such a list is long.                                               *)
LEMMA PickedLength ==
  ASSUME NEW list, NEW s, NEW places, IsFiniteSet(places), Picked(list, s, places)
  PROVE  /\ DOMAIN list = 1..Cardinality(places) /\ Len(list) = Cardinality(places)
         /\ Cardinality(places) \in Nat
         /\ (list = <<>>) <=> (places = {})
<1> DEFINE N == Cardinality(places)
<1>1. N \in Nat
  BY FS_CardinalityType
<1>2. N = 0 <=> places = {}
  BY FS_EmptySet
<1>3. list = [n \in 1..N |-> list[n]]
  BY DEF Picked
<1> HIDE DEF N
<1>4. DOMAIN list = 1..N
  BY <1>3
<1>5. Len(list) = N
  BY <1>1, <1>3, <1>4
<1>6. list = <<>> <=> N = 0
  <2>1. N = 0 => 1..N = {}
    BY <1>1
  <2>2. N = 0 => list = <<>>
    BY <1>3, <2>1
  <2>3. N # 0 => list # <<>>
    BY <1>5, <1>1
  <2> QED
    BY <2>2, <2>3
<1> QED
  BY <1>1, <1>2, <1>4, <1>5, <1>6 DEF N

(* What a list of no more than a few knows how long it is.                 *)
LEMMA ListPlaces ==
  ASSUME NEW X, NEW list \in Seq(X)
  PROVE  /\ DOMAIN list \in SUBSET Nat /\ IsFiniteSet(DOMAIN list)
         /\ \A i \in DOMAIN list : list[i] \in X
<1>1. DOMAIN list = 1..Len(list) /\ Len(list) \in Nat
  OBVIOUS
<1> QED
  BY <1>1, FS_Interval

(* Some of the places of a list are finitely many.                         *)
LEMMA SomePlaces ==
  ASSUME NEW S, IsFiniteSet(S), S \in SUBSET Nat, NEW T \in SUBSET S
  PROVE  T \in SUBSET Nat /\ IsFiniteSet(T)
BY FS_Subset

(* The lesser and the greater of two numbers.                              *)
LEMMA MinOfTwo ==
  ASSUME NEW a \in Int, NEW b \in Int
  PROVE  Min({a, b}) = IF a <= b THEN a ELSE b
BY DEF Min

LEMMA MaxOfTwo ==
  ASSUME NEW a \in Int, NEW b \in Int
  PROVE  Max({a, b}) = IF a >= b THEN a ELSE b
BY DEF Max

(* The image of a finite set is finite.                                    *)
LEMMA ImageFinite ==
  ASSUME NEW S, IsFiniteSet(S), NEW f, DOMAIN f = S
  PROVE  IsFiniteSet({ f[x] : x \in S })
<1> DEFINE T == { f[x] : x \in S }
           g == [x \in S |-> f[x]]
<1>1. g \in Surjection(S, T)
  BY DEF Surjection
<1> HIDE DEF g, T
<1>2. IsFiniteSet(T)
  BY <1>1, FS_Surjection, Zenon
<1> QED
  BY <1>2 DEF T

(* What joining lists gives: what they hold, in their order.               *)
Strung(list, lists) ==
  /\ \E N \in Nat : DOMAIN list = 1..N
  /\ \A m \in DOMAIN list : \E p \in Spots(lists) : list[m] = lists[p[1]][p[2]]
  /\ \A l, m \in DOMAIN list : l < m =>
       \E p, q \in Spots(lists) : EarlierSpot(p, q) /\ list[l] = lists[p[1]][p[2]] /\ list[m] = lists[q[1]][q[2]]

(* A spot is a place of one of the lists.                                  *)
LEMMA SpotIs ==
  ASSUME NEW lists, NEW p \in Spots(lists)
  PROVE  p[1] \in DOMAIN lists /\ p[2] \in DOMAIN lists[p[1]] /\ p = <<p[1], p[2]>>
BY DEF Spots

(* Finitely many finite lists have finitely many spots.                    *)
LEMMA SpotsFinite ==
  ASSUME NEW lists, IsFiniteSet(DOMAIN lists), \A i \in DOMAIN lists : IsFiniteSet(DOMAIN lists[i])
  PROVE  IsFiniteSet(Spots(lists))
<1> DEFINE f == [i \in DOMAIN lists |-> {i} \X (DOMAIN lists[i])]
           S == { f[i] : i \in DOMAIN lists }
<1>1. DOMAIN f = DOMAIN lists
  OBVIOUS
<1>2. \A i \in DOMAIN lists : IsFiniteSet(f[i])
  <2> SUFFICES ASSUME NEW i \in DOMAIN lists PROVE IsFiniteSet(f[i])
    OBVIOUS
  <2>1. f[i] = {i} \X (DOMAIN lists[i])
    OBVIOUS
  <2>2. IsFiniteSet({i})
    BY FS_Singleton
  <2>3. IsFiniteSet(DOMAIN lists[i])
    OBVIOUS
  <2> QED
    BY <2>1, <2>2, <2>3, FS_Product, Zenon
<1>3. Spots(lists) = UNION S
  BY DEF Spots
<1> HIDE DEF f
<1>4. IsFiniteSet(S)
  BY <1>1, ImageFinite, Zenon
<1>5. \A T \in S : IsFiniteSet(T)
  BY <1>2
<1> HIDE DEF S
<1> QED
  BY <1>3, <1>4, <1>5, FS_UNION

(* Lists that are joined hold what they held, one list after the other.    *)
LEMMA JoinedStrings ==
  ASSUME NEW lists, IsFiniteSet(DOMAIN lists), DOMAIN lists \in SUBSET Nat,
         \A i \in DOMAIN lists : IsFiniteSet(DOMAIN lists[i]) /\ DOMAIN lists[i] \in SUBSET Nat
  PROVE  Strung(Joined(lists), lists)
<1> DEFINE S == Spots(lists)
           before == { r \in S \X S : EarlierSpot(r[1], r[2]) }
           order == InOrder(S, before)
           list == Joined(lists)
           N == Cardinality(S)
<1>1. \A p \in S : p[1] \in Nat /\ p[2] \in Nat /\ p = <<p[1], p[2]>>
  BY SpotIs
<1>2. IsFiniteSet(S)
  BY SpotsFinite
<1>3. \A p, q \in S : <<p, q>> \in before <=> EarlierSpot(p, q)
  OBVIOUS
<1>4. list = [n \in DOMAIN order |-> lists[order[n][1]][order[n][2]]]
  BY DEF Joined
<1> HIDE DEF S, before
<1>5. Puts(S, before)
  <2>1. \A p \in S : <<p, p>> \notin before
    BY <1>1, <1>3 DEF EarlierSpot
  <2>2. ASSUME NEW p \in S, NEW q \in S, p # q
        PROVE  <<p, q>> \in before \/ <<q, p>> \in before
    <3>1. p[1] # q[1] \/ p[2] # q[2]
      BY <2>2, <1>1
    <3>2. EarlierSpot(p, q) \/ EarlierSpot(q, p)
      BY <3>1, <1>1 DEF EarlierSpot
    <3> QED
      BY <3>2, <1>3
  <2>3. ASSUME NEW p \in S, NEW q \in S, NEW r \in S, <<p, q>> \in before, <<q, r>> \in before
        PROVE  <<p, r>> \in before
    <3>1. EarlierSpot(p, q) /\ EarlierSpot(q, r)
      BY <2>3, <1>3
    <3>2. EarlierSpot(p, r)
      BY <3>1, <1>1 DEF EarlierSpot
    <3> QED
      BY <3>2, <1>3
  <2> QED
    BY <2>1, <2>2, <2>3 DEF Puts
<1>6. Enumerates(order, S, before)
  BY <1>2, <1>5, InOrderEnumerates
<1> HIDE DEF order, list
<1>7. N \in Nat /\ DOMAIN order = 1..N /\ \A n \in 1..N : order[n] \in S
  BY <1>2, <1>6, FS_CardinalityType DEF Enumerates
<1> HIDE DEF N
<1>8. DOMAIN list = 1..N /\ \A n \in 1..N : list[n] = lists[order[n][1]][order[n][2]]
  BY <1>4, <1>7
<1>9. \A l, m \in 1..N : l < m => EarlierSpot(order[l], order[m])
  BY <1>3, <1>6, <1>7 DEF Enumerates, N
<1>10. \A m \in DOMAIN list : \E p \in S : list[m] = lists[p[1]][p[2]]
  BY <1>7, <1>8
<1>11. \A l, m \in DOMAIN list : l < m =>
         \E p, q \in S : EarlierSpot(p, q) /\ list[l] = lists[p[1]][p[2]] /\ list[m] = lists[q[1]][q[2]]
  BY <1>7, <1>8, <1>9
<1> QED
  BY <1>7, <1>8, <1>10, <1>11 DEF Strung, S, list

(* As many as there are numbers for, if no two have the same.              *)
LEMMA NumberedSet ==
  ASSUME NEW K \in Nat, NEW f, \A k, l \in 1..K : f[k] = f[l] => k = l,
         NEW T, \A t : t \in T <=> \E k \in 1..K : t = f[k]
  PROVE  IsFiniteSet(T) /\ Cardinality(T) = K
<1> DEFINE h == [k \in 1..K |-> f[k]]
<1>1. h \in Bijection(1..K, T)
  <2>1. h \in [1..K -> T]
    OBVIOUS
  <2>2. \A t \in T : \E k \in 1..K : h[k] = t
    OBVIOUS
  <2>3. \A k, l \in 1..K : h[k] = h[l] => k = l
    OBVIOUS
  <2> HIDE DEF h
  <2> QED
    BY <2>1, <2>2, <2>3 DEF Bijection, Injection, Surjection, IsInjective
<1>2. IsFiniteSet(1..K) /\ Cardinality(1..K) = K
  BY FS_Interval
<1> HIDE DEF h
<1>3. ExistsBijection(1..K, T)
  BY <1>1 DEF ExistsBijection
<1> QED
  BY <1>2, <1>3, FS_Bijection

(* A recursion over 1..N whose step stays in a set has a value at each.    *)
RunIs(f, X, a, N, g) == f \in [0..N -> X] /\ f[0] = a /\ \A n \in 1..N : f[n] = g[n][f[n - 1]]
LEMMA RunsExist ==
  ASSUME NEW X, NEW a \in X, NEW N \in Nat, NEW g \in [1..N -> [X -> X]]
  PROVE  \E f : RunIs(f, X, a, N, g)
<1> DEFINE Runs(f, m) == f \in [0..m -> X] /\ f[0] = a /\ \A n \in 1..m : f[n] = g[n][f[n - 1]]
           Bad == { m \in Nat : m <= N /\ ~\E f : Runs(f, m) }
<1>1. Bad = {}
  <2> SUFFICES ASSUME Bad # {} PROVE FALSE
    OBVIOUS
  <2>1. PICK m \in Bad : \A k \in Bad : m <= k
    <3>1. Bad \in SUBSET Nat
      OBVIOUS
    <3> HIDE DEF Bad
    <3> QED
      BY <3>1, Least, Zenon
  <2>2. m \in Nat /\ m <= N /\ ~\E f : Runs(f, m)
    OBVIOUS
  <2>3. m # 0
    <3> SUFFICES ASSUME m = 0 PROVE FALSE
      OBVIOUS
    <3> DEFINE f == [k \in 0..0 |-> a]
    <3>1. Runs(f, 0)
      OBVIOUS
    <3> QED
      BY <3>1, <2>2
  <2>4. m - 1 \in Nat /\ m - 1 <= N /\ m - 1 \notin Bad
    <3>1. m - 1 \in Nat /\ m - 1 <= N /\ ~(m <= m - 1)
      BY <2>2, <2>3
    <3> HIDE DEF Bad
    <3> QED
      BY <2>1, <3>1
  <2>5. PICK f : Runs(f, m - 1)
    BY <2>4
  <2> DEFINE more == [k \in 0..m |-> IF k = m THEN g[m][f[m - 1]] ELSE f[k]]
  <2>6. f[m - 1] \in X /\ g[m][f[m - 1]] \in X
    <3>1. f \in [0..(m - 1) -> X] /\ m - 1 \in 0..(m - 1) /\ m \in 1..N
      BY <2>2, <2>3, <2>5
    <3> QED
      BY <3>1
  <2>7. more \in [0..m -> X]
    <3>1. \A k \in 0..m : k # m => k \in 0..(m - 1)
      BY <2>2
    <3> QED
      BY <3>1, <2>5, <2>6
  <2>8. more[0] = a
    BY <2>2, <2>3, <2>5
  <2>9. ASSUME NEW n \in 1..m PROVE more[n] = g[n][more[n - 1]]
    <3>1. n - 1 \in 0..m /\ n - 1 # m /\ n \in 0..m
      BY <2>2
    <3>2. more[n - 1] = f[n - 1]
      BY <3>1
    <3>3. CASE n = m
      BY <3>1, <3>2, <3>3
    <3>4. CASE n # m
      <4>1. n \in 1..(m - 1) /\ more[n] = f[n]
        BY <3>1, <3>4, <2>2
      <4> QED
        BY <4>1, <3>2, <2>5
    <3> QED
      BY <3>3, <3>4
  <2>10. Runs(more, m)
    <3> HIDE DEF more
    <3> QED
      BY <2>7, <2>8, <2>9
  <2> QED
    BY <2>2, <2>10
<1>2. \E f : Runs(f, N)
  BY <1>1
<1> QED
  BY <1>2 DEF RunIs
=============================================================================
