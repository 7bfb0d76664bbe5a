---------------------------- MODULE RankingProofs ---------------------------
(***************************************************************************)
(* Lemmas about how the code lists and ranks rows, for every set of        *)
(* numbers, list, distance (ties and NaNs included), order and k.          *)
(*                                                                         *)
(* A strict total order on a finite set gives every member a place of its  *)
(* own, so the stable sort is a permutation in that order.  The insertion  *)
(* loop of the oracles keeps a buffer of the best k: after n candidates it *)
(* is the sorted front of the first n, and the last buffer is what sorting *)
(* all of them and cutting at k returns.                                   *)
(***************************************************************************)
EXTENDS Ranking, Listing, FiniteSetTheorems, FunctionTheorems, SequenceTheorems,
        WellFoundedInduction, TLAPS

\* A nonempty set of numbers has a least member.
LEMMA LeastOfNats ==
    ASSUME NEW S \in SUBSET Nat, S # {}
    PROVE  \E m \in S : \A x \in S : m <= x
  <1> DEFINE R == {pair \in Nat \X Nat : pair[1] < pair[2]}
  <1>1. OpToRel(<, Nat) = R
    BY Zenon DEF OpToRel
  <1>2. IsWellFoundedOn(R, Nat)
    BY <1>1, NatLessThanWellFounded, Zenon
  <1> HIDE DEF R
  <1>3. PICK m \in S : \A y \in S : ~(<<y, m>> \in R)
    BY <1>2, WFMin, Zenon
  <1>4. ASSUME NEW y \in S PROVE m <= y
    <2>1. m \in Nat /\ y \in Nat
      OBVIOUS
    <2>2. ~(y < m)
      BY <1>3, <2>1 DEF R
    <2>3. QED BY <2>1, <2>2
  <1>5. QED BY <1>4

\* What may follow a value of V at each of N steps.
StepsIn(V, N) == [V \X (1..N) -> V]

\* A function that is a step further at every number exists.
LEMMA RecursionExists ==
    ASSUME NEW N \in Nat, NEW V, NEW start \in V, NEW F \in StepsIn(V, N)
    PROVE  \E f \in [0..N -> V] :
              /\ f[0] = start
              /\ \A n \in 1..N : f[n] = F[<<f[n - 1], n>>]
  <1> DEFINE UpTo(m) ==
                 \E f \in [0..m -> V] :
                    /\ f[0] = start
                    /\ \A n \in 1..m : f[n] = F[<<f[n - 1], n>>]
             Missed == {m \in 0..N : ~UpTo(m)}
  <1>1. ASSUME Missed # {} PROVE FALSE
    <2>1. PICK m \in Missed : \A x \in Missed : m <= x
      <3>1. Missed \in SUBSET Nat
        OBVIOUS
      <3> HIDE DEF Missed
      <3>2. QED BY <1>1, <3>1, LeastOfNats
    <2>2. m \in 0..N /\ ~UpTo(m)
      OBVIOUS
    <2>3. CASE m = 0
      <3> DEFINE f == [n \in 0..0 |-> start]
      <3>1. f \in [0..0 -> V] /\ f[0] = start /\ 1..0 = {}
        OBVIOUS
      <3>2. UpTo(0)
        <4> HIDE DEF f
        <4> QED BY <3>1
      <3> HIDE DEF UpTo
      <3>3. QED BY <2>2, <2>3, <3>2
    <2>4. CASE m # 0
      <3>1. m - 1 \in 0..N /\ m \in 1..N /\ ~(m <= m - 1)
        BY <2>2, <2>4
      <3>2. UpTo(m - 1)
        <4> HIDE DEF UpTo
        <4> QED BY <2>1, <3>1
      <3>3. PICK g \in [0..(m - 1) -> V] :
               /\ g[0] = start
               /\ \A n \in 1..(m - 1) : g[n] = F[<<g[n - 1], n>>]
        BY <3>2
      <3> DEFINE last == F[<<g[m - 1], m>>]
                 f == [n \in 0..m |-> IF n = m THEN last ELSE g[n]]
      <3>4. last \in V
        <4>1. <<g[m - 1], m>> \in V \X (1..N)
          BY <3>1, <3>3
        <4>2. QED BY <4>1 DEF StepsIn
      <3> HIDE DEF last
      <3>5. f \in [0..m -> V]
        BY <3>1, <3>3, <3>4
      <3>6. f[m] = last /\ \A n \in 0..(m - 1) : f[n] = g[n]
        BY <3>1
      <3> HIDE DEF f
      <3>7. f[0] = start
        BY <3>1, <3>3, <3>6
      <3>8. ASSUME NEW n \in 1..m
            PROVE  f[n] = F[<<f[n - 1], n>>]
        <4>1. f[n - 1] = g[n - 1]
          BY <3>1, <3>6
        <4>2. CASE n = m
          BY <3>6, <4>1, <4>2 DEF last
        <4>3. CASE n # m
          BY <3>1, <3>3, <3>6, <4>1, <4>3
        <4>4. QED BY <4>2, <4>3
      <3>9. UpTo(m)
        BY <3>5, <3>7, <3>8
      <3> HIDE DEF UpTo
      <3>10. QED BY <2>2, <3>9
    <2>5. QED BY <2>3, <2>4
  <1>2. UpTo(N)
    <2>1. N \in 0..N
      OBVIOUS
    <2> HIDE DEF UpTo
    <2>2. QED BY <1>1, <2>1
  <1>3. QED BY <1>2

-----------------------------------------------------------------------------
(* Ranks *)

\* The members of S that come before x.
Below(S, R, x) == {y \in S : <<y, x>> \in R}

\* How many they are.
Place(S, R, x) == Cardinality(Below(S, R, x))

\* A strict total order on a finite set gives each member a rank of its own,
\* and every rank below the size of the set is somebody's.
LEMMA TotalOrderRanks ==
    ASSUME NEW S, IsFiniteSet(S), NEW R,
           \A x \in S : <<x, x>> \notin R,
           \A x, y, z \in S : <<x, y>> \in R /\ <<y, z>> \in R => <<x, z>> \in R,
           \A x, y \in S : x = y \/ <<x, y>> \in R \/ <<y, x>> \in R
    PROVE  /\ \A x \in S : Place(S, R, x) \in 0..(Cardinality(S) - 1)
           /\ \A x, y \in S : <<x, y>> \in R => Place(S, R, x) < Place(S, R, y)
           /\ \A r \in 0..(Cardinality(S) - 1) : \E x \in S : Place(S, R, x) = r
  <1> DEFINE top == Cardinality(S) - 1
  <1>0. IsFiniteSet(S)
    OBVIOUS
  <1>1. Cardinality(S) \in Nat
    BY FS_CardinalityType
  <1>2. ASSUME NEW x \in S
        PROVE  /\ IsFiniteSet(Below(S, R, x)) /\ Cardinality(Below(S, R, x)) \in 0..top
               /\ Place(S, R, x) = Cardinality(Below(S, R, x))
    <2>1. Below(S, R, x) \in SUBSET S /\ Below(S, R, x) # S
      BY DEF Below
    <2>2. Place(S, R, x) = Cardinality(Below(S, R, x))
      BY DEF Place
    <2>3. /\ IsFiniteSet(Below(S, R, x))
          /\ Cardinality(Below(S, R, x)) <= Cardinality(S)
          /\ Cardinality(Below(S, R, x)) # Cardinality(S)
      BY <2>1, FS_Subset
    <2>4. Cardinality(Below(S, R, x)) \in Nat
      BY <2>3, FS_CardinalityType
    <2>5. QED BY <1>1, <2>2, <2>3, <2>4
  <1>3. ASSUME NEW x \in S, NEW y \in S, <<x, y>> \in R
        PROVE  Place(S, R, x) < Place(S, R, y)
    <2>1. Below(S, R, x) \subseteq Below(S, R, y)
      BY <1>3 DEF Below
    <2>2. x \in Below(S, R, y) /\ x \notin Below(S, R, x)
      BY <1>3 DEF Below
    <2>3. Below(S, R, x) \in SUBSET Below(S, R, y) /\ Below(S, R, x) # Below(S, R, y)
      BY <2>1, <2>2, Zenon
    <2>4. /\ IsFiniteSet(Below(S, R, x)) /\ Cardinality(Below(S, R, x)) \in 0..top
          /\ IsFiniteSet(Below(S, R, y)) /\ Cardinality(Below(S, R, y)) \in 0..top
          /\ Place(S, R, x) = Cardinality(Below(S, R, x)) /\ Place(S, R, y) = Cardinality(Below(S, R, y))
      BY <1>2, Zenon
    <2>5. /\ Cardinality(Below(S, R, x)) <= Cardinality(Below(S, R, y))
          /\ Cardinality(Below(S, R, x)) # Cardinality(Below(S, R, y))
      BY <2>3, <2>4, FS_Subset
    <2>6. QED BY <1>1, <2>4, <2>5
  <1>4. ASSUME NEW r \in 0..top, \A x \in S : Place(S, R, x) # r
        PROVE  FALSE
    <2> DEFINE Others == (0..top) \ {r}
    <2>1. r \in 0..top
      OBVIOUS
    <2>2. 0 <= top /\ top \in Int /\ 0 \in Int
      BY <1>1
    <2>3. IsFiniteSet(0..top) /\ Cardinality(0..top) = top + 1
      <3> HIDE DEF top
      <3> QED BY <2>2, FS_Interval
    <2>4. Cardinality(Others) = Cardinality(0..top) - 1 /\ IsFiniteSet(Others)
      <3> HIDE DEF top
      <3> QED BY <2>1, <2>3, FS_RemoveElement, Zenon
    <2>5. IsFiniteSet(Others) /\ Cardinality(Others) < Cardinality(S)
      <3> HIDE DEF Others
      <3> QED BY <1>1, <2>3, <2>4
    <2> DEFINE f == [x \in S |-> Place(S, R, x)]
    <2>6. f \in [S -> Others]
      <3>1. \A x \in S : Place(S, R, x) \in Others
        BY <1>2, <1>4
      <3> HIDE DEF Others
      <3>2. QED BY <3>1
    <2>7. PICK x, y \in S : x # y /\ Place(S, R, x) = Place(S, R, y)
      <3>1. \E x, y \in S : x # y /\ f[x] = f[y]
        <4> HIDE DEF Others, f
        <4> QED BY ONLY <1>0, <2>5, <2>6, FS_PigeonHole, Zenon
      <3>2. QED BY <3>1
    <2>8. <<x, y>> \in R \/ <<y, x>> \in R
      BY <2>7
    <2>9. Place(S, R, x) \in Int /\ Place(S, R, y) \in Int
      <3>1. Place(S, R, x) \in 0..top /\ Place(S, R, y) \in 0..top
        <4> HIDE DEF top
        <4> QED BY ONLY <1>2, Zenon
      <3>2. QED BY <3>1
    <2>10. ~(Place(S, R, x) < Place(S, R, y)) /\ ~(Place(S, R, y) < Place(S, R, x))
      BY ONLY <2>7, <2>9
    <2>11. QED BY <1>3, <2>8, <2>10, Zenon
  <1>5. \A r \in 0..top : \E x \in S : Place(S, R, x) = r
    BY <1>4, Zenon
  <1>6. QED
    BY <1>2, <1>3, <1>5

-----------------------------------------------------------------------------
(* Ascending order *)

\* How many numbers of S are below one of them.
Rank(S, id) == Cardinality({o \in S : o < id})

\* Each number of a finite set has a rank of its own, and every rank below the
\* size of the set is somebody's.
LEMMA NatRanks ==
    ASSUME NEW S \in SUBSET Nat, IsFiniteSet(S)
    PROVE  /\ \A x \in S : Rank(S, x) \in 0..(Cardinality(S) - 1)
           /\ \A x, y \in S : x < y => Rank(S, x) < Rank(S, y)
           /\ \A r \in 0..(Cardinality(S) - 1) : \E x \in S : Rank(S, x) = r
  <1> DEFINE R == {pair \in S \X S : pair[1] < pair[2]}
  <1>1. \A x, y \in S : <<x, y>> \in R <=> x < y
    OBVIOUS
  <1>2. \A x \in S : Place(S, R, x) = Rank(S, x)
    BY <1>1 DEF Place, Below, Rank
  <1>3. \A x \in S : x \in Int
    OBVIOUS
  <1> HIDE DEF R
  <1>4. \A x \in S : <<x, x>> \notin R
    BY <1>1, <1>3
  <1>5. \A x, y, z \in S : <<x, y>> \in R /\ <<y, z>> \in R => <<x, z>> \in R
    BY <1>1, <1>3
  <1>6. ASSUME NEW x \in S, NEW y \in S
        PROVE  x = y \/ <<x, y>> \in R \/ <<y, x>> \in R
    <2>1. x = y \/ x < y \/ y < x
      BY <1>3
    <2>2. QED BY <1>1, <2>1
  <1>7. /\ \A x \in S : Place(S, R, x) \in 0..(Cardinality(S) - 1)
        /\ \A x, y \in S : <<x, y>> \in R => Place(S, R, x) < Place(S, R, y)
        /\ \A r \in 0..(Cardinality(S) - 1) : \E x \in S : Place(S, R, x) = r
    BY <1>4, <1>5, <1>6, TotalOrderRanks
  <1>8. ASSUME NEW x \in S, NEW y \in S, x < y
        PROVE  Rank(S, x) < Rank(S, y)
    <2>1. Place(S, R, x) < Place(S, R, y)
      BY <1>1, <1>7, <1>8
    <2>2. QED BY <1>2, <2>1
  <1>9. QED BY <1>2, <1>7, <1>8

\* The i-th number listed has i - 1 below it.
LEMMA AscendingAt ==
    ASSUME NEW S \in SUBSET Nat, IsFiniteSet(S), NEW i \in 1..Cardinality(S)
    PROVE  Ascending(S)[i] \in S /\ Rank(S, Ascending(S)[i]) = i - 1
  <1>1. Cardinality(S) \in Nat
    BY FS_CardinalityType
  <1>2. i - 1 \in 0..(Cardinality(S) - 1)
    BY <1>1
  <1>3. \E id \in S : Rank(S, id) = i - 1
    BY <1>2, NatRanks
  <1>4. Ascending(S)[i] = CHOOSE id \in S : Rank(S, id) = i - 1
    BY DEF Ascending, Rank
  <1>5. QED BY <1>3, <1>4, Zenon

\* The list ascends.
LEMMA AscendingInOrder ==
    ASSUME NEW S \in SUBSET Nat, IsFiniteSet(S),
           NEW i \in 1..Cardinality(S), NEW j \in 1..Cardinality(S), i < j
    PROVE  Ascending(S)[i] < Ascending(S)[j]
  <1>1. Cardinality(S) \in Nat
    BY FS_CardinalityType
  <1>2. PICK a \in S : a = Ascending(S)[i] /\ Rank(S, a) = i - 1
    BY AscendingAt
  <1>3. PICK b \in S : b = Ascending(S)[j] /\ Rank(S, b) = j - 1
    BY AscendingAt
  <1>4. ~(b < a) /\ a # b
    <2>1. b < a => Rank(S, b) < Rank(S, a)
      BY NatRanks
    <2>2. QED BY <1>1, <1>2, <1>3, <2>1
  <1>5. a \in Nat /\ b \in Nat
    OBVIOUS
  <1>6. QED BY <1>2, <1>3, <1>4, <1>5

\* It lists every number once.
LEMMA AscendingDistinct ==
    ASSUME NEW S \in SUBSET Nat, IsFiniteSet(S),
           NEW i \in 1..Cardinality(S), NEW j \in 1..Cardinality(S),
           Ascending(S)[i] = Ascending(S)[j]
    PROVE  i = j
  <1>1. Cardinality(S) \in Nat
    BY FS_CardinalityType
  <1>2. Rank(S, Ascending(S)[i]) = i - 1 /\ Rank(S, Ascending(S)[j]) = j - 1
    BY AscendingAt
  <1>3. i - 1 = j - 1
    BY <1>2
  <1>4. QED BY <1>1, <1>3

\* It lists exactly the numbers of S.
LEMMA AscendingLists ==
    ASSUME NEW S \in SUBSET Nat, IsFiniteSet(S)
    PROVE  /\ Cardinality(S) \in Nat
           /\ Ascending(S) \in Seq(S)
           /\ Len(Ascending(S)) = Cardinality(S)
           /\ \A id \in S : \E i \in 1..Cardinality(S) : Ascending(S)[i] = id
  <1> DEFINE n == Cardinality(S)
  <1>1. n \in Nat
    BY FS_CardinalityType
  <1>2. Ascending(S) \in [1..n -> S]
    <2>1. \A i \in 1..n : Ascending(S)[i] \in S
      BY AscendingAt
    <2>2. QED BY <2>1 DEF Ascending
  <1>3. Ascending(S) \in Seq(S) /\ Len(Ascending(S)) = n
    <2> HIDE DEF n
    <2> QED BY <1>1, <1>2
  <1>4. ASSUME NEW id \in S
        PROVE  \E i \in 1..n : Ascending(S)[i] = id
    <2>1. Rank(S, id) \in 0..(n - 1)
      BY NatRanks
    <2>2. PICK i \in 1..n : i - 1 = Rank(S, id)
      <3> HIDE DEF n
      <3> QED BY <1>1, <2>1
    <2>3. PICK a \in S : a = Ascending(S)[i] /\ Rank(S, a) = Rank(S, id)
      BY <2>2, AscendingAt
    <2>4. ~(a < id) /\ ~(id < a)
      <3>1. /\ a < id => Rank(S, a) < Rank(S, id)
            /\ id < a => Rank(S, id) < Rank(S, a)
        BY NatRanks
      <3>2. Rank(S, id) \in Int
        BY <2>1
      <3>3. QED BY <2>3, <3>1, <3>2
    <2>5. a \in Nat /\ id \in Nat
      OBVIOUS
    <2>6. QED BY <2>3, <2>4, <2>5
  <1>5. QED
    BY <1>1, <1>3, <1>4

-----------------------------------------------------------------------------
(* Sorting *)

\* The order of a stable sort, position before position.
PrecedesBy(seq, fields, i, j) ==
    \/ Less(seq[i], seq[j], fields)
    \/ ~Less(seq[j], seq[i], fields) /\ i < j

\* It is a strict total order.
IsOrdered(seq, fields) ==
    /\ \A x \in DOMAIN seq : ~PrecedesBy(seq, fields, x, x)
    /\ \A x, y, z \in DOMAIN seq :
          PrecedesBy(seq, fields, x, y) /\ PrecedesBy(seq, fields, y, z)
              => PrecedesBy(seq, fields, x, z)
    /\ \A x, y \in DOMAIN seq :
          \/ x = y
          \/ PrecedesBy(seq, fields, x, y) \/ PrecedesBy(seq, fields, y, x)

\* p says where each element of the sorted list comes from: each position is
\* taken once, in order.
Sorts(p, seq, fields, N) ==
    /\ p \in [1..N -> 1..N]
    /\ SortBy(seq, fields) = [n \in 1..N |-> seq[p[n]]]
    /\ \A i \in 1..N : \E n \in 1..N : p[n] = i
    /\ \A m, n \in 1..N : p[m] = p[n] => m = n
    /\ \A m, n \in 1..N : m < n => PrecedesBy(seq, fields, p[m], p[n])

\* A stable sort by a strict total order returns the same elements in order.
LEMMA SortByOrder ==
    ASSUME NEW N \in Nat, NEW seq, DOMAIN seq = 1..N, NEW fields,
           IsOrdered(seq, fields)
    PROVE  \E p : Sorts(p, seq, fields, N)
  <1> DEFINE S == 1..N
             R == {pair \in S \X S : PrecedesBy(seq, fields, pair[1], pair[2])}
             rank == [i \in S |-> Cardinality({j \in S : <<j, i>> \in R})]
             p == [n \in S |-> CHOOSE i \in S : rank[i] = n - 1]
  <1>1. IsFiniteSet(S) /\ Cardinality(S) = N
    <2>1. N \in Int /\ 1 \in Int
      OBVIOUS
    <2>2. IsFiniteSet(1..N) /\ Cardinality(1..N) = IF 1 > N THEN 0 ELSE N - 1 + 1
      BY <2>1, FS_Interval
    <2>3. QED BY <2>2
  <1>2. \A i, j \in S : <<i, j>> \in R <=> PrecedesBy(seq, fields, i, j)
    OBVIOUS
  <1>3. /\ \A x \in S : ~PrecedesBy(seq, fields, x, x)
        /\ \A x, y, z \in S :
              PrecedesBy(seq, fields, x, y) /\ PrecedesBy(seq, fields, y, z)
                  => PrecedesBy(seq, fields, x, z)
        /\ \A x, y \in S :
              \/ x = y
              \/ PrecedesBy(seq, fields, x, y) \/ PrecedesBy(seq, fields, y, x)
    BY DEF IsOrdered
  <1> HIDE DEF R
  <1>5. \A x \in S : <<x, x>> \notin R
    BY ONLY <1>2, <1>3
  <1>6. \A x, y, z \in S : <<x, y>> \in R /\ <<y, z>> \in R => <<x, z>> \in R
    BY ONLY <1>2, <1>3
  <1>7. ASSUME NEW x \in S, NEW y \in S
        PROVE  x = y \/ <<x, y>> \in R \/ <<y, x>> \in R
    BY ONLY <1>2, <1>3, x \in S, y \in S
  <1>8. /\ \A x \in S : rank[x] \in 0..(N - 1)
        /\ \A x, y \in S : <<x, y>> \in R => rank[x] < rank[y]
        /\ \A r \in 0..(N - 1) : \E x \in S : rank[x] = r
    <2>1. \A x \in S : rank[x] = Place(S, R, x)
      BY DEF Place, Below
    <2> HIDE DEF S, rank
    <2>2. \A x, y \in S : x = y \/ <<x, y>> \in R \/ <<y, x>> \in R
      BY <1>7
    <2>3. /\ \A x \in S : Place(S, R, x) \in 0..(Cardinality(S) - 1)
          /\ \A x, y \in S : <<x, y>> \in R => Place(S, R, x) < Place(S, R, y)
          /\ \A r \in 0..(Cardinality(S) - 1) : \E x \in S : Place(S, R, x) = r
      BY ONLY <1>1, <1>5, <1>6, <2>2, TotalOrderRanks
    <2>4. QED BY <1>1, <2>1, <2>3
  <1>9. ASSUME NEW n \in S
        PROVE  p[n] \in S /\ rank[p[n]] = n - 1
    <2>1. n - 1 \in 0..(N - 1)
      OBVIOUS
    <2>2. \E i \in S : rank[i] = n - 1
      BY <1>8, <2>1
    <2>3. p[n] = CHOOSE i \in S : rank[i] = n - 1
      OBVIOUS
    <2> HIDE DEF rank, S, p
    <2>4. QED BY <2>2, <2>3, Zenon
  <1>10. \A x, y \in S : rank[x] = rank[y] => x = y
    <2> HIDE DEF rank
    <2>1. SUFFICES ASSUME NEW x \in S, NEW y \in S, rank[x] = rank[y], x # y
                   PROVE  FALSE
      OBVIOUS
    <2>2. rank[x] \in 0..(N - 1) /\ rank[y] \in 0..(N - 1)
      BY <1>8
    <2>3. ~(rank[x] < rank[y]) /\ ~(rank[y] < rank[x])
      BY <2>1, <2>2
    <2>4. QED BY <1>7, <1>8, <2>1, <2>3
  <1>11. SortBy(seq, fields) = [n \in S |-> seq[p[n]]]
    <2> DEFINE Rank1(i) == Cardinality({j \in DOMAIN seq : j # i /\ PrecedesBy(seq, fields, j, i)})
    <2>1. ASSUME NEW i \in S PROVE Rank1(i) = rank[i]
      <3>1. {j \in DOMAIN seq : j # i /\ PrecedesBy(seq, fields, j, i)}
               = {j \in S : <<j, i>> \in R}
        BY <1>2, <1>5
      <3>2. QED BY <3>1
    <2>2. SortBy(seq, fields)
             = [n \in S |-> seq[CHOOSE i \in S : Rank1(i) = n - 1]]
      BY DEF SortBy, PrecedesBy
    <2> HIDE DEF Rank1, rank, S
    <2>3. ASSUME NEW n \in S
          PROVE  (CHOOSE i \in S : Rank1(i) = n - 1) = p[n]
      <3>1. \A i \in S : Rank1(i) = n - 1 <=> rank[i] = n - 1
        BY <2>1
      <3>2. (CHOOSE i \in S : Rank1(i) = n - 1) = (CHOOSE i \in S : rank[i] = n - 1)
        BY <3>1
      <3>3. QED BY <3>2
    <2> HIDE DEF p
    <2>4. QED BY <2>2, <2>3
  <1>12. p \in [S -> S]
    <2> HIDE DEF rank
    <2>1. \A n \in S : (CHOOSE i \in S : rank[i] = n - 1) \in S
      BY <1>9
    <2>2. QED BY <2>1
  <1> HIDE DEF p, rank
  <1>13. ASSUME NEW i \in S PROVE \E n \in S : p[n] = i
    <2>1. rank[i] \in 0..(N - 1)
      BY <1>8
    <2>2. PICK n \in S : n = rank[i] + 1
      BY <2>1
    <2>3. rank[p[n]] = rank[i] /\ p[n] \in S
      BY <1>9, <2>1, <2>2
    <2>4. QED BY <1>10, <2>3
  <1>14. ASSUME NEW m \in S, NEW n \in S, m < n
         PROVE  PrecedesBy(seq, fields, p[m], p[n])
    <2>1. /\ p[m] \in S /\ p[n] \in S
          /\ rank[p[m]] = m - 1 /\ rank[p[n]] = n - 1
      BY <1>9
    <2>2. <<p[n], p[m]>> \in R => rank[p[n]] < rank[p[m]]
      BY ONLY <1>8, <2>1
    <2>3. m \in Int /\ n \in Int
      OBVIOUS
    <2>4. p[m] # p[n] /\ <<p[n], p[m]>> \notin R
      BY ONLY <1>14, <2>1, <2>2, <2>3
    <2>5. QED BY <1>2, <1>7, <2>1, <2>4
  <1>15. ASSUME NEW m \in S, NEW n \in S, p[m] = p[n]
         PROVE  m = n
    <2>1. m - 1 = n - 1
      BY <1>9, <1>15
    <2>2. QED BY <2>1
  <1>16. Sorts(p, seq, fields, N)
    BY <1>11, <1>12, <1>13, <1>14, <1>15 DEF Sorts
  <1>17. QED BY <1>16

\* It returns nothing that was not there.
LEMMA SortTakes ==
    ASSUME NEW N \in Nat, NEW seq, DOMAIN seq = 1..N, NEW fields,
           IsOrdered(seq, fields)
    PROVE  /\ SortBy(seq, fields) = [n \in 1..N |-> SortBy(seq, fields)[n]]
           /\ \A n \in 1..N : \E i \in 1..N : SortBy(seq, fields)[n] = seq[i]
  <1>1. PICK p : Sorts(p, seq, fields, N)
    BY SortByOrder
  <1>2. QED BY <1>1 DEF Sorts

\* The order of the sort by distance and id.
Precedes(seq, i, j) ==
    \/ Less(seq[i], seq[j], ByDistanceThenId)
    \/ ~Less(seq[j], seq[i], ByDistanceThenId) /\ i < j

\* By distance, then by id.
LEMMA LessIs ==
    ASSUME NEW a, NEW b
    PROVE  Less(a, b, ByDistanceThenId) <=>
              \/ a.distance < b.distance
              \/ a.distance = b.distance /\ a.id < b.id
  <1> DEFINE f == ByDistanceThenId
  <1>1. DOMAIN f = {1, 2} /\ f[1] = "distance" /\ f[2] = "id"
    BY DEF ByDistanceThenId
  <1>2. 1..(1 - 1) = {} /\ 1..(2 - 1) = {1}
    OBVIOUS
  <1> DEFINE Decides(n) == /\ a[f[n]] < b[f[n]]
                           /\ \A m \in 1..(n - 1) : a[f[m]] = b[f[m]]
  <1>3. Decides(1) <=> a.distance < b.distance
    BY <1>1, <1>2
  <1>4. Decides(2) <=> a.id < b.id /\ a.distance = b.distance
    BY <1>1, <1>2
  <1>5. Less(a, b, f) <=> \E n \in DOMAIN f : Decides(n)
    BY DEF Less
  <1> HIDE DEF Decides, f
  <1>6. QED BY <1>1, <1>3, <1>4, <1>5 DEF f

\* The stable sort by distance and id is an order.
LEMMA DistanceAndIdOrder ==
    ASSUME NEW N \in Nat, NEW seq, DOMAIN seq = 1..N,
           \A i \in 1..N : seq[i].distance \in Int /\ seq[i].id \in Int
    PROVE  /\ IsOrdered(seq, ByDistanceThenId)
           /\ \A i, j : PrecedesBy(seq, ByDistanceThenId, i, j) <=> Precedes(seq, i, j)
  <1> DEFINE S == 1..N
             Before(i, j) ==
                 \/ seq[i].distance < seq[j].distance
                 \/ seq[i].distance = seq[j].distance /\ seq[i].id < seq[j].id
                 \/ /\ ~(seq[j].distance < seq[i].distance)
                    /\ ~(seq[j].distance = seq[i].distance /\ seq[j].id < seq[i].id)
                    /\ i < j
  <1>1. \A i, j \in S : PrecedesBy(seq, ByDistanceThenId, i, j) <=> Before(i, j)
    BY LessIs DEF PrecedesBy
  <1>2. \A i, j : PrecedesBy(seq, ByDistanceThenId, i, j) <=> Precedes(seq, i, j)
    BY DEF PrecedesBy, Precedes
  <1>3. \A i \in S : seq[i].distance \in Int /\ seq[i].id \in Int /\ i \in Int
    OBVIOUS
  <1>4. \A x \in S : ~Before(x, x)
    BY ONLY <1>3
  <1>5. ASSUME NEW x \in S, NEW y \in S, NEW z \in S, Before(x, y), Before(y, z)
        PROVE  Before(x, z)
    <2>1. /\ seq[x].distance \in Int /\ seq[x].id \in Int /\ x \in Int
          /\ seq[y].distance \in Int /\ seq[y].id \in Int /\ y \in Int
          /\ seq[z].distance \in Int /\ seq[z].id \in Int /\ z \in Int
      BY <1>3
    <2>2. QED BY ONLY <1>5, <2>1
  <1>6. ASSUME NEW x \in S, NEW y \in S
        PROVE  x = y \/ Before(x, y) \/ Before(y, x)
    <2>1. /\ seq[x].distance \in Int /\ seq[x].id \in Int /\ x \in Int
          /\ seq[y].distance \in Int /\ seq[y].id \in Int /\ y \in Int
      BY <1>3
    <2>2. QED BY ONLY <2>1
  <1> HIDE DEF Before
  <1>7. IsOrdered(seq, ByDistanceThenId)
    BY <1>1, <1>4, <1>5, <1>6 DEF IsOrdered
  <1>8. QED BY <1>2, <1>7

\* What the sort returns: the same elements, each position taken once, in the
\* order of (distance, id) and, between equals, of their positions.
LEMMA SortByLists ==
    ASSUME NEW N \in Nat, NEW seq, DOMAIN seq = 1..N,
           \A i \in 1..N : seq[i].distance \in Int /\ seq[i].id \in Int
    PROVE  \E p \in [1..N -> 1..N] :
              /\ SortBy(seq, ByDistanceThenId) = [n \in 1..N |-> seq[p[n]]]
              /\ \A i \in 1..N : \E n \in 1..N : p[n] = i
              /\ \A m, n \in 1..N : p[m] = p[n] => m = n
              /\ \A m, n \in 1..N : m < n => Precedes(seq, p[m], p[n])
  <1>1. /\ IsOrdered(seq, ByDistanceThenId)
        /\ \A i, j : PrecedesBy(seq, ByDistanceThenId, i, j) <=> Precedes(seq, i, j)
    BY DistanceAndIdOrder
  <1>2. PICK p : Sorts(p, seq, ByDistanceThenId, N)
    BY <1>1, SortByOrder
  <1>3. QED BY <1>1, <1>2 DEF Sorts

\* By one field.
LEMMA LessByField ==
    ASSUME NEW a, NEW b, NEW field
    PROVE  Less(a, b, <<field>>) <=> a[field] < b[field]
  <1> DEFINE f == <<field>>
  <1>1. DOMAIN f = {1} /\ f[1] = field /\ 1..(1 - 1) = {}
    OBVIOUS
  <1> HIDE DEF f
  <1>2. Less(a, b, f) <=> a[field] < b[field]
    BY <1>1 DEF Less
  <1>3. QED BY <1>2 DEF f

\* The stable sort by a field of numbers is an order.
LEMMA FieldOrders ==
    ASSUME NEW N \in Nat, NEW seq, DOMAIN seq = 1..N, NEW field,
           \A i \in 1..N : seq[i][field] \in Int
    PROVE  /\ IsOrdered(seq, <<field>>)
           /\ \A i, j \in 1..N :
                 PrecedesBy(seq, <<field>>, i, j) <=>
                    \/ seq[i][field] < seq[j][field]
                    \/ seq[i][field] = seq[j][field] /\ i < j
  <1> DEFINE S == 1..N
             key(i) == seq[i][field]
             Before(i, j) == \/ key(i) < key(j)
                             \/ key(i) = key(j) /\ i < j
  <1>1. \A i \in S : key(i) \in Int /\ i \in Int
    OBVIOUS
  <1>2. ASSUME NEW i \in S, NEW j \in S
        PROVE  PrecedesBy(seq, <<field>>, i, j) <=> Before(i, j)
    <2>1. PrecedesBy(seq, <<field>>, i, j) <=>
             \/ key(i) < key(j)
             \/ ~(key(j) < key(i)) /\ i < j
      BY LessByField DEF PrecedesBy
    <2>2. key(i) \in Int /\ key(j) \in Int
      BY <1>1
    <2> HIDE DEF key
    <2>3. QED BY ONLY <2>1, <2>2
  <1> HIDE DEF key
  <1>3. \A x \in S : ~Before(x, x)
    BY ONLY <1>1
  <1>4. ASSUME NEW x \in S, NEW y \in S, NEW z \in S, Before(x, y), Before(y, z)
        PROVE  Before(x, z)
    <2>1. /\ key(x) \in Int /\ x \in Int
          /\ key(y) \in Int /\ y \in Int
          /\ key(z) \in Int /\ z \in Int
      BY <1>1
    <2>2. QED BY ONLY <1>4, <2>1
  <1>5. ASSUME NEW x \in S, NEW y \in S
        PROVE  x = y \/ Before(x, y) \/ Before(y, x)
    <2>1. /\ key(x) \in Int /\ x \in Int
          /\ key(y) \in Int /\ y \in Int
      BY <1>1
    <2>2. QED BY ONLY <2>1
  <1>6. IsOrdered(seq, <<field>>)
    <2> HIDE DEF Before
    <2> QED BY <1>2, <1>3, <1>4, <1>5 DEF IsOrdered
  <1>7. QED BY <1>2, <1>6 DEF key

\* The stable sort by distance is an order.
LEMMA DistanceOrders ==
    ASSUME NEW N \in Nat, NEW seq, DOMAIN seq = 1..N,
           \A i \in 1..N : seq[i].distance \in Int
    PROVE  /\ IsOrdered(seq, ByDistanceOnly)
           /\ \A i, j \in 1..N :
                 PrecedesBy(seq, ByDistanceOnly, i, j) <=>
                    \/ seq[i].distance < seq[j].distance
                    \/ seq[i].distance = seq[j].distance /\ i < j
  <1>1. \A i \in 1..N : seq[i]["distance"] \in Int
    OBVIOUS
  <1>2. QED BY <1>1, FieldOrders DEF ByDistanceOnly

\* The least of k and n.
AtMost(n, k) == IF n < k THEN n ELSE k

\* What the sort leaves of N candidates, cut at k.
LEMMA SortedAndCut ==
    ASSUME NEW N \in Nat, NEW seq, DOMAIN seq = 1..N, NEW k \in Nat, NEW fields
    PROVE  LET out == SortBy(seq, fields)
           IN  /\ DOMAIN Truncate(out, k) = 1..AtMost(N, k)
               /\ AtMost(N, k) \in 0..N
               /\ \A i \in 1..AtMost(N, k) : Truncate(out, k)[i] = out[i]
  <1> DEFINE out == SortBy(seq, fields)
  <1>1. DOMAIN out = 1..N /\ Len(out) = N
    <2>1. DOMAIN out = 1..N
      BY DEF SortBy
    <2> HIDE DEF out
    <2>2. Len(out) = N
      BY <2>1
    <2>3. QED BY <2>1, <2>2
  <1> HIDE DEF out
  <1>2. AtMost(N, k) \in 0..N
    BY DEF AtMost
  <1>3. Truncate(out, k) = SubSeq(out, 1, AtMost(N, k))
    BY <1>1 DEF Truncate, AtMost
  <1>4. SubSeq(out, 1, AtMost(N, k)) = [i \in 1..AtMost(N, k) |-> out[i]]
    <2> DEFINE m == AtMost(N, k)
    <2> HIDE DEF m
    <2>1. m \in Nat
      BY <1>2 DEF m
    <2>2. SubSeq(out, 1, m) = [i \in 1..(m - 1 + 1) |-> out[i + 1 - 1]]
      BY <2>1
    <2>3. m - 1 + 1 = m /\ \A i \in 1..m : i + 1 - 1 = i
      BY <2>1
    <2>4. QED BY <2>2, <2>3 DEF m
  <1>5. QED BY <1>2, <1>3, <1>4 DEF out

\* Truncation keeps the front.
LEMMA TruncateIs ==
    ASSUME NEW n \in Nat, NEW seq, DOMAIN seq = 1..n, NEW k \in Nat
    PROVE  /\ Truncate(seq, k) = [i \in 1..AtMost(n, k) |-> seq[i]]
           /\ AtMost(n, k) \in 0..n
  <1> DEFINE m == AtMost(n, k)
  <1>1. m \in 0..n
    BY DEF AtMost
  <1>2. Truncate(seq, k) = SubSeq(seq, 1, m)
    <2>1. Len(seq) = n
      OBVIOUS
    <2>2. QED BY <2>1 DEF Truncate, AtMost
  <1> HIDE DEF m
  <1>3. SubSeq(seq, 1, m) = [i \in 1..(m - 1 + 1) |-> seq[i + 1 - 1]]
    BY <1>1
  <1>4. m - 1 + 1 = m /\ \A i \in 1..m : i + 1 - 1 = i
    BY <1>1
  <1>5. QED BY <1>1, <1>2, <1>3, <1>4 DEF m

\* Cutting at k and then at no more than k is cutting once.
LEMMA CutTwice ==
    ASSUME NEW n \in Nat, NEW seq, DOMAIN seq = 1..n,
           NEW k \in Nat, NEW m \in Nat, m <= k
    PROVE  Truncate(Truncate(seq, k), m) = Truncate(seq, m)
  <1> DEFINE front == [i \in 1..AtMost(n, k) |-> seq[i]]
  <1>1. /\ Truncate(seq, k) = front /\ AtMost(n, k) \in Nat
        /\ Truncate(seq, m) = [i \in 1..AtMost(n, m) |-> seq[i]]
    <2> HIDE DEF front
    <2>1. /\ Truncate(seq, k) = [i \in 1..AtMost(n, k) |-> seq[i]]
          /\ AtMost(n, k) \in 0..n
      BY ONLY n \in Nat, k \in Nat, DOMAIN seq = 1..n, TruncateIs, Zenon
    <2>2. /\ Truncate(seq, m) = [i \in 1..AtMost(n, m) |-> seq[i]]
          /\ AtMost(n, m) \in 0..n
      BY ONLY n \in Nat, m \in Nat, DOMAIN seq = 1..n, TruncateIs, Zenon
    <2>3. AtMost(n, k) \in Nat
      BY <2>1
    <2>4. QED BY <2>1, <2>2, <2>3, Zenon DEF front
  <1>2. DOMAIN front = 1..AtMost(n, k)
    OBVIOUS
  <1>3. /\ AtMost(AtMost(n, k), m) = AtMost(n, m)
        /\ \A i \in 1..AtMost(n, m) : i \in 1..AtMost(n, k)
    BY DEF AtMost
  <1>4. \A i \in 1..AtMost(n, m) : front[i] = seq[i]
    BY <1>3
  <1> HIDE DEF front
  <1>5. Truncate(front, m) = [i \in 1..AtMost(AtMost(n, k), m) |-> front[i]]
    BY <1>1, <1>2, TruncateIs
  <1>6. QED BY <1>1, <1>3, <1>4, <1>5

\* The engine's answers are the ids at the front of the sorted candidates.
LEMMA IdsAre ==
    ASSUME NEW n \in Nat, NEW hits, DOMAIN hits = 1..n
    PROVE  /\ DOMAIN IdsOf(hits) = 1..n /\ Len(IdsOf(hits)) = n
           /\ \A i \in 1..n : IdsOf(hits)[i] = hits[i].id
  <1>1. IdsOf(hits) = [i \in 1..n |-> hits[i].id]
    BY DEF IdsOf
  <1>2. QED BY <1>1

-----------------------------------------------------------------------------
(* The oracles that keep a buffer of the best k *)

\* What the code sorts candidates by.
Orders == {ByDistanceOnly, ByDistanceThenId}

\* The sort keeps a list of candidates one of the same length.
LEMMA SortKeepsLength ==
    ASSUME NEW C, \A c \in C : c.id \in Int /\ c.distance \in Int,
           NEW fields \in Orders,
           NEW n \in Nat, NEW list \in [1..n -> C]
    PROVE  SortBy(list, fields) \in [1..n -> C]
  <1>1. DOMAIN list = 1..n /\ \A i \in 1..n : list[i] \in C
    OBVIOUS
  <1>2. \A i \in 1..n : list[i].distance \in Int /\ list[i].id \in Int
    BY <1>1
  <1>3. IsOrdered(list, fields)
    <2>1. IsOrdered(list, ByDistanceOnly)
      BY <1>1, <1>2, DistanceOrders
    <2>2. IsOrdered(list, ByDistanceThenId)
      BY <1>1, <1>2, DistanceAndIdOrder
    <2>3. QED BY <2>1, <2>2 DEF Orders
  <1>4. /\ SortBy(list, fields) = [i \in 1..n |-> SortBy(list, fields)[i]]
        /\ \A i \in 1..n : \E j \in 1..n : SortBy(list, fields)[i] = list[j]
    BY ONLY <1>1, <1>3, n \in Nat, SortTakes
  <1>5. QED BY <1>1, <1>4

\* A candidate that meets the buffer leaves it a list: one longer while there
\* is room, as long as before when it is full.
LEMMA ConsiderIsList ==
    ASSUME NEW C, \A c \in C : c.id \in Int /\ c.distance \in Int,
           NEW fields \in Orders,
           NEW k \in Nat \ {0}, NEW list \in Seq(C), Len(list) <= k, NEW c \in C
    PROVE  LET next == Consider(list, c, k, fields)
           IN  /\ next \in Seq(C)
               /\ Len(next) = IF Len(list) < k THEN Len(list) + 1 ELSE k
  <1> DEFINE next == Consider(list, c, k, fields)
             n == Len(list)
  <1>1. n \in Nat
    OBVIOUS
  <1>2. CASE n < k
    <2> DEFINE longer == Append(list, c)
    <2>1. longer \in Seq(C) /\ Len(longer) = n + 1
      OBVIOUS
    <2>2. next = SortBy(longer, fields)
      BY <1>2 DEF Consider
    <2> HIDE DEF next, longer, n
    <2>3. longer \in [1..(n + 1) -> C] /\ n + 1 \in Nat
      BY <1>1, <2>1
    <2>4. next \in [1..(n + 1) -> C]
      BY <2>2, <2>3, SortKeepsLength
    <2>5. next \in Seq(C) /\ Len(next) = n + 1
      BY <2>3, <2>4
    <2>6. QED BY <1>2, <2>5 DEF n, next
  <1>3. CASE ~(n < k)
    <2>1. n = k
      BY <1>1, <1>3
    <2> DEFINE changed == [list EXCEPT ![k] = c]
    <2>2. next \in {SortBy(changed, fields), list}
      BY <1>3 DEF Consider
    <2>3. list \in [1..k -> C]
      BY <2>1
    <2>4. changed \in [1..k -> C]
      BY <2>3
    <2> HIDE DEF changed, next, n
    <2>5. SortBy(changed, fields) \in [1..k -> C]
      BY <2>4, SortKeepsLength
    <2>6. next \in [1..k -> C]
      BY <2>2, <2>3, <2>5
    <2>7. next \in Seq(C) /\ Len(next) = k
      BY <2>6
    <2>8. QED BY <1>3, <2>7 DEF n, next
  <1>4. QED BY <1>2, <1>3

\* Even where distances are NaNs, the loop ends with k candidates, or as many
\* as there are.
LEMMA InsertionIsList ==
    ASSUME NEW C, \A c \in C : c.id \in Int /\ c.distance \in Int,
           NEW fields \in Orders,
           NEW seq \in Seq(C), NEW k \in Nat \ {0}
    PROVE  /\ InsertionTopK(seq, k, fields) \in Seq(C)
           /\ Len(InsertionTopK(seq, k, fields)) = AtMost(Len(seq), k)
  <1> DEFINE N == Len(seq)
             V == {list \in Seq(C) : Len(list) <= k}
             F == [p \in V \X (1..N) |-> Consider(p[1], seq[p[2]], k, fields)]
             Step(f) == [n \in 0..N |->
                           IF n = 0 THEN <<>>
                           ELSE Consider(f[n - 1], seq[n], k, fields)]
             best == CHOOSE f : f = Step(f)
  <1>1. N \in Nat /\ <<>> \in V
    OBVIOUS
  <1>2. ASSUME NEW list \in V, NEW n \in 1..N
        PROVE  /\ F[<<list, n>>] = Consider(list, seq[n], k, fields)
               /\ F[<<list, n>>] \in V
    <2>1. <<list, n>> \in V \X (1..N)
      OBVIOUS
    <2>2. F[<<list, n>>] = Consider(list, seq[n], k, fields)
      BY <2>1
    <2>3. list \in Seq(C) /\ Len(list) <= k /\ Len(list) \in Nat /\ seq[n] \in C
      OBVIOUS
    <2> DEFINE next == Consider(list, seq[n], k, fields)
    <2> HIDE DEF N, V, F, Step, best, next
    <2>4. next \in Seq(C) /\ Len(next) = IF Len(list) < k THEN Len(list) + 1 ELSE k
      BY <2>3, ConsiderIsList DEF next
    <2>5. next \in V
      BY <2>3, <2>4 DEF V
    <2>6. QED BY <2>2, <2>5 DEF next
  <1>3. F \in StepsIn(V, N)
    <2>1. \A p \in V \X (1..N) : F[p] \in V
      <3>1. ASSUME NEW p \in V \X (1..N) PROVE F[p] \in V
        <4>1. PICK list \in V, n \in 1..N : p = <<list, n>>
          OBVIOUS
        <4> HIDE DEF V, F
        <4>2. QED BY <1>2, <4>1
      <3>2. QED BY <3>1
    <2> HIDE DEF V
    <2>2. QED BY <2>1 DEF StepsIn
  <1>4. PICK g \in [0..N -> V] :
           /\ g[0] = <<>>
           /\ \A n \in 1..N : g[n] = F[<<g[n - 1], n>>]
    <2> DEFINE empty == <<>>
    <2>1. empty \in V /\ N \in Nat /\ F \in StepsIn(V, N)
      BY <1>1, <1>3
    <2> HIDE DEF V, F, N, Step, best, empty
    <2>2. \E g \in [0..N -> V] :
             /\ g[0] = empty
             /\ \A n \in 1..N : g[n] = F[<<g[n - 1], n>>]
      BY ONLY <2>1, RecursionExists
    <2>3. QED BY <2>2 DEF empty
  <1>5. g = Step(g)
    <2>1. \A n \in 1..N : F[<<g[n - 1], n>>]
                            = Consider(g[n - 1], seq[n], k, fields)
      <3>1. \A n \in 1..N : g[n - 1] \in V
        <4> HIDE DEF V
        <4> QED BY <1>1
      <3> HIDE DEF V, F, N
      <3>2. QED BY <1>2, <3>1
    <2> HIDE DEF V, F
    <2>2. \A n \in 0..N : g[n] = IF n = 0 THEN <<>>
                               ELSE Consider(g[n - 1], seq[n], k, fields)
      <3>1. \A n \in 0..N : n = 0 \/ n \in 1..N
        BY <1>1
      <3>2. \A n \in 1..N : n # 0
        OBVIOUS
      <3> HIDE DEF N
      <3>3. QED BY <1>4, <2>1, <3>1, <3>2, Zenon
    <2>3. g = [n \in 0..N |-> g[n]]
      OBVIOUS
    <2>4. QED BY <2>2, <2>3
  <1>6. best = Step(best)
    <2> HIDE DEF Step
    <2> QED BY <1>5
  <1>7. InsertionTopK(seq, k, fields) = best[N]
    BY DEF InsertionTopK
  <1> HIDE DEF best, V, F
  <1>8. /\ best[0] = <<>>
        /\ \A n \in 1..N :
              best[n] = Consider(best[n - 1], seq[n], k, fields)
    BY <1>1, <1>6
  <1> DEFINE Wrong == {n \in 0..N : ~(/\ best[n] \in Seq(C)
                                      /\ Len(best[n]) = AtMost(n, k))}
  <1>9. ASSUME Wrong # {} PROVE FALSE
    <2>1. PICK m \in Wrong : \A x \in Wrong : m <= x
      <3>1. Wrong \in SUBSET Nat
        OBVIOUS
      <3> HIDE DEF Wrong
      <3>2. QED BY <1>9, <3>1, LeastOfNats
    <2>2. m \in 0..N /\ ~(best[m] \in Seq(C) /\ Len(best[m]) = AtMost(m, k))
      OBVIOUS
    <2>3. m # 0
      <3>1. AtMost(0, k) = 0
        BY DEF AtMost
      <3>2. <<>> \in Seq(C) /\ Len(<<>>) = 0
        OBVIOUS
      <3>3. QED BY <1>8, <2>2, <3>1, <3>2
    <2>4. m - 1 \in 0..N /\ m \in 1..N /\ ~(m <= m - 1)
      BY <1>1, <2>2, <2>3
    <2>5. best[m - 1] \in Seq(C) /\ Len(best[m - 1]) = AtMost(m - 1, k)
      BY <2>1, <2>4
    <2> DEFINE list == best[m - 1]
               c == seq[m]
    <2>6. best[m] = Consider(list, c, k, fields) /\ c \in C
      BY <1>8, <2>4
    <2>7. /\ AtMost(m - 1, k) <= k
          /\ AtMost(m, k) = IF AtMost(m - 1, k) < k THEN AtMost(m - 1, k) + 1 ELSE k
      BY <1>1, <2>4 DEF AtMost
    <2> HIDE DEF list, c, Wrong
    <2>8. QED BY <2>2, <2>5, <2>6, <2>7, ConsiderIsList DEF list
  <1>10. N \in 0..N
    BY <1>1
  <1>11. QED BY <1>7, <1>9, <1>10

\* a is before b: a smaller distance, or the same and a smaller id.
Ahead(a, b) ==
    \/ a.distance < b.distance
    \/ a.distance = b.distance /\ a.id < b.id

\* Candidates: numbers for distances and ids, none of them a NaN.
AreCandidates(C) == \A c \in C : c.id \in Int /\ c.distance \in Int \ NaNs

\* Rows are scanned in the order of their ids.
InRowOrder(seq) == \A i, j \in DOMAIN seq : i < j => seq[i].id < seq[j].id

\* list is the best k of the first n of seq: drawn from them, in order, and
\* whatever is not in it is behind all of it.
IsBest(list, C, seq, n, k) ==
    /\ list \in [1..AtMost(n, k) -> C]
    /\ \A i \in 1..AtMost(n, k) : \E j \in 1..n : list[i] = seq[j]
    /\ \A i, j \in 1..AtMost(n, k) : i < j => Ahead(list[i], list[j])
    /\ \A j \in 1..n :
          \/ \E i \in 1..AtMost(n, k) : list[i] = seq[j]
          \/ ~(n < k) /\ \A i \in 1..k : Ahead(list[i], seq[j])

\* The sort puts candidates with different ids in a strict order.
LEMMA SortIsStrict ==
    ASSUME NEW C, AreCandidates(C), NEW N \in Nat, NEW seq \in [1..N -> C],
           \A i, j \in 1..N : i # j => seq[i].id # seq[j].id
    PROVE  LET out == SortBy(seq, ByDistanceThenId)
           IN  /\ out \in [1..N -> C]
               /\ \A n \in 1..N : \E i \in 1..N : out[n] = seq[i]
               /\ \A i \in 1..N : \E n \in 1..N : out[n] = seq[i]
               /\ \A m, n \in 1..N : m < n => Ahead(out[m], out[n])
  <1> DEFINE out == SortBy(seq, ByDistanceThenId)
  <1>1. DOMAIN seq = 1..N
    OBVIOUS
  <1>2. \A i \in 1..N : seq[i] \in C /\ seq[i].distance \in Int /\ seq[i].id \in Int
    BY DEF AreCandidates
  <1>3. PICK p \in [1..N -> 1..N] :
           /\ out = [n \in 1..N |-> seq[p[n]]]
           /\ \A i \in 1..N : \E n \in 1..N : p[n] = i
           /\ \A m, n \in 1..N : p[m] = p[n] => m = n
           /\ \A m, n \in 1..N : m < n => Precedes(seq, p[m], p[n])
    BY <1>1, <1>2, SortByLists
  <1> HIDE DEF out
  <1>4. \A n \in 1..N : p[n] \in 1..N /\ out[n] = seq[p[n]] /\ out[n] \in C
    BY <1>2, <1>3
  <1>5. out \in [1..N -> C]
    BY <1>2, <1>3
  <1>6. ASSUME NEW m \in 1..N, NEW n \in 1..N, m < n
        PROVE  Ahead(out[m], out[n])
    <2>1. p[m] # p[n] /\ Precedes(seq, p[m], p[n])
      BY <1>3, <1>6
    <2>2. /\ seq[p[m]].distance \in Int /\ seq[p[n]].distance \in Int
          /\ seq[p[m]].id \in Int /\ seq[p[n]].id \in Int
          /\ seq[p[m]].id # seq[p[n]].id
      BY <1>2, <1>4, <2>1
    <2> DEFINE a == seq[p[m]]
               b == seq[p[n]]
    <2>3. Ahead(a, b)
      <3>1. /\ Less(a, b, ByDistanceThenId) <=> Ahead(a, b)
            /\ Less(b, a, ByDistanceThenId) <=> Ahead(b, a)
        BY LessIs DEF Ahead
      <3>2. Ahead(a, b) \/ ~Ahead(b, a)
        BY <2>1, <3>1 DEF Precedes
      <3> HIDE DEF a, b
      <3>3. /\ a.distance \in Int /\ b.distance \in Int
            /\ a.id \in Int /\ b.id \in Int /\ a.id # b.id
        BY <2>2 DEF a, b
      <3>4. QED BY <3>2, <3>3 DEF Ahead
    <2>4. QED BY <1>4, <2>3
  <1>7. \A i \in 1..N : \E n \in 1..N : out[n] = seq[i]
    BY <1>3, <1>4
  <1>8. QED BY <1>4, <1>5, <1>6, <1>7 DEF out

\* The best k are determined by what they are drawn from.
LEMMA BestIsUnique ==
    ASSUME NEW C, AreCandidates(C), NEW n \in Nat, NEW k \in Nat, NEW seq,
           NEW a, IsBest(a, C, seq, n, k), NEW b, IsBest(b, C, seq, n, k)
    PROVE  a = b
  <1> DEFINE L == AtMost(n, k)
             Wrong == {i \in 1..L : a[i] # b[i]}
  <1>1. L \in Nat /\ (~(n < k) => L = k)
    BY DEF AtMost
  <1>2. /\ a \in [1..L -> C] /\ b \in [1..L -> C]
        /\ \A i, j \in 1..L : i < j => Ahead(a[i], a[j]) /\ Ahead(b[i], b[j])
    BY DEF IsBest
  <1>3. \A i \in 1..L : /\ a[i].distance \in Int /\ a[i].id \in Int
                        /\ b[i].distance \in Int /\ b[i].id \in Int
    BY <1>2 DEF AreCandidates
  <1>4. ASSUME NEW i \in 1..L, ~\E j \in 1..L : a[i] = b[j]
        PROVE  \A j \in 1..L : Ahead(b[j], a[i])
    <2>1. PICK j \in 1..n : a[i] = seq[j]
      BY DEF IsBest
    <2>2. ~\E m \in 1..L : b[m] = seq[j]
      BY <1>4, <2>1
    <2>3. ~(n < k) /\ \A m \in 1..k : Ahead(b[m], seq[j])
      BY <2>2 DEF IsBest
    <2>4. QED BY <1>1, <2>1, <2>3
  <1>5. ASSUME NEW i \in 1..L, ~\E j \in 1..L : b[i] = a[j]
        PROVE  \A j \in 1..L : Ahead(a[j], b[i])
    <2>1. PICK j \in 1..n : b[i] = seq[j]
      BY DEF IsBest
    <2>2. ~\E m \in 1..L : a[m] = seq[j]
      BY <1>5, <2>1
    <2>3. ~(n < k) /\ \A m \in 1..k : Ahead(a[m], seq[j])
      BY <2>2 DEF IsBest
    <2>4. QED BY <1>1, <2>1, <2>3
  <1>6. ASSUME Wrong # {} PROVE FALSE
    <2>1. Wrong \in SUBSET Nat
      BY <1>1
    <2>2. PICK m \in Wrong : \A x \in Wrong : m <= x
      <3> HIDE DEF Wrong
      <3> QED BY <1>6, <2>1, LeastOfNats
    <2>3. m \in 1..L /\ a[m] # b[m]
      OBVIOUS
    <2>4. \A x \in 1..L : x < m => a[x] = b[x]
      BY <1>1, <2>2, <2>3
    <2>5. Ahead(b[m], a[m])
      <3>1. CASE ~\E j \in 1..L : a[m] = b[j]
        BY <1>4, <2>3, <3>1
      <3>2. CASE \E j \in 1..L : a[m] = b[j]
        <4>1. PICK j \in 1..L : a[m] = b[j]
          BY <3>2
        <4>2. j < m => a[j] = a[m]
          BY <2>4, <4>1
        <4>3. ~(j < m)
          BY <1>2, <1>3, <2>3, <4>2 DEF Ahead
        <4>4. m < j
          BY <1>1, <2>3, <4>1, <4>3
        <4>5. QED BY <1>2, <2>3, <4>1, <4>4
      <3>3. QED BY <3>1, <3>2
    <2>6. Ahead(a[m], b[m])
      <3>1. CASE ~\E j \in 1..L : b[m] = a[j]
        BY <1>5, <2>3, <3>1
      <3>2. CASE \E j \in 1..L : b[m] = a[j]
        <4>1. PICK j \in 1..L : b[m] = a[j]
          BY <3>2
        <4>2. j < m => b[j] = b[m]
          BY <2>4, <4>1
        <4>3. ~(j < m)
          BY <1>2, <1>3, <2>3, <4>2 DEF Ahead
        <4>4. m < j
          BY <1>1, <2>3, <4>1, <4>3
        <4>5. QED BY <1>2, <2>3, <4>1, <4>4
      <3>3. QED BY <3>1, <3>2
    <2>7. QED BY <1>3, <2>3, <2>5, <2>6 DEF Ahead
  <1>7. QED
    <2>1. \A i \in 1..L : a[i] = b[i]
      BY <1>6
    <2>2. a \in [1..L -> C] /\ b \in [1..L -> C]
      BY <1>2
    <2> HIDE DEF L
    <2>3. a = [i \in 1..L |-> a[i]] /\ b = [i \in 1..L |-> b[i]]
      BY <2>2
    <2>4. [i \in 1..L |-> a[i]] = [i \in 1..L |-> b[i]]
      BY <2>1
    <2>5. QED BY ONLY <2>3, <2>4

\* Sorting the first n and cutting at k gives the best k of them.
LEMMA SortedIsBest ==
    ASSUME NEW C, AreCandidates(C), NEW seq \in Seq(C), InRowOrder(seq),
           NEW n \in 0..Len(seq), NEW k \in Nat
    PROVE  IsBest(Truncate(SortBy(SubSeq(seq, 1, n), ByDistanceThenId), k),
                  C, seq, n, k)
  <1> DEFINE prefix == SubSeq(seq, 1, n)
             out == SortBy(prefix, ByDistanceThenId)
             L == AtMost(n, k)
             list == Truncate(out, k)
  <1>1. n \in Nat /\ L \in 0..n /\ (L = n \/ (~(n < k) /\ L = k))
    BY DEF AtMost
  <1>2. prefix \in [1..n -> C] /\ \A i \in 1..n : prefix[i] = seq[i]
    <2>1. \A i \in 1..n : seq[i] \in C
      OBVIOUS
    <2>2. prefix = [i \in 1..(n - 1 + 1) |-> seq[i + 1 - 1]]
      BY <1>1
    <2>3. n - 1 + 1 = n /\ \A i \in 1..n : i + 1 - 1 = i
      BY <1>1
    <2> HIDE DEF prefix
    <2>4. prefix = [i \in 1..n |-> seq[i]]
      BY <2>2, <2>3
    <2>5. QED BY <2>1, <2>4
  <1>3. \A i, j \in 1..n : i # j => prefix[i].id # prefix[j].id
    <2>1. \A i \in 1..n : i \in DOMAIN seq /\ seq[i] \in C /\ seq[i].id \in Int
      BY <1>1 DEF AreCandidates
    <2>2. SUFFICES ASSUME NEW i \in 1..n, NEW j \in 1..n, i # j
                   PROVE  seq[i].id # seq[j].id
      BY <1>2
    <2>3. i < j \/ j < i
      BY <1>1, <2>2
    <2>4. seq[i].id < seq[j].id \/ seq[j].id < seq[i].id
      BY <2>1, <2>3 DEF InRowOrder
    <2>5. QED BY <2>1, <2>4
  <1> HIDE DEF prefix
  <1>4. /\ out \in [1..n -> C]
        /\ \A m \in 1..n : \E i \in 1..n : out[m] = prefix[i]
        /\ \A i \in 1..n : \E m \in 1..n : out[m] = prefix[i]
        /\ \A l, m \in 1..n : l < m => Ahead(out[l], out[m])
    BY <1>1, <1>2, <1>3, SortIsStrict
  <1> HIDE DEF out
  <1>5. list = [i \in 1..L |-> out[i]]
    <2>1. Len(out) = n
      BY <1>1, <1>4
    <2>2. list = SubSeq(out, 1, L)
      BY <1>1, <2>1 DEF Truncate, AtMost
    <2>3. SubSeq(out, 1, L) = [i \in 1..(L - 1 + 1) |-> out[i + 1 - 1]]
      BY <1>1, <1>4
    <2>4. QED BY <1>1, <2>2, <2>3
  <1> HIDE DEF list, L
  <1>6. list \in [1..L -> C] /\ \A i \in 1..L : i \in 1..n /\ list[i] = out[i]
    BY <1>1, <1>4, <1>5
  <1>7. ASSUME NEW i \in 1..L PROVE \E j \in 1..n : list[i] = seq[j]
    <2>1. i \in 1..n /\ list[i] = out[i]
      BY ONLY <1>6
    <2>2. PICK m \in 1..n : out[i] = prefix[m]
      BY ONLY <1>4, <2>1
    <2>3. QED BY ONLY <1>2, <2>1, <2>2, m \in 1..n
  <1>8. \A i, j \in 1..L : i < j => Ahead(list[i], list[j])
    BY <1>4, <1>6
  <1>9. ASSUME NEW j \in 1..n
        PROVE  \/ \E i \in 1..L : list[i] = seq[j]
               \/ ~(n < k) /\ \A i \in 1..k : Ahead(list[i], seq[j])
    <2>1. PICK m \in 1..n : out[m] = seq[j]
      BY <1>2, <1>4
    <2>2. CASE m <= L
      BY <1>1, <1>6, <2>1, <2>2
    <2>3. CASE ~(m <= L)
      <3>1. L = k /\ ~(n < k)
        BY <1>1, <2>3
      <3>2. \A i \in 1..k : i < m /\ i \in 1..n /\ list[i] = out[i]
        BY <1>1, <1>6, <2>3, <3>1
      <3>3. QED BY <1>4, <2>1, <3>1, <3>2
    <2>4. QED BY <2>2, <2>3
  <1>10. QED BY <1>6, <1>7, <1>8, <1>9 DEF IsBest, L, list, out, prefix

\* No two of the best have the same id, and later rows have larger ones.
LEMMA BestAreDistinct ==
    ASSUME NEW C, AreCandidates(C), NEW seq \in Seq(C), InRowOrder(seq),
           NEW n \in 1..Len(seq), NEW k \in Nat,
           NEW list, IsBest(list, C, seq, n - 1, k)
    PROVE  /\ \A i, j \in 1..AtMost(n - 1, k) : i # j => list[i].id # list[j].id
           /\ \A i \in 1..AtMost(n - 1, k) : list[i].id < seq[n].id
  <1> DEFINE L == AtMost(n - 1, k)
  <1>1. L \in Nat
    BY DEF AtMost
  <1>2. \A j \in 1..n : j \in DOMAIN seq /\ seq[j] \in C
    OBVIOUS
  <1>3. \A c \in C : c.id \in Int /\ c.distance \in Int
    BY DEF AreCandidates
  <1>4. \A i \in 1..L : \E j \in 1..(n - 1) : list[i] = seq[j]
    BY DEF IsBest
  <1>5. \A i, j \in 1..L : i < j => Ahead(list[i], list[j])
    BY DEF IsBest
  <1> HIDE DEF L
  <1>6. ASSUME NEW i \in 1..L, NEW j \in 1..L, i < j
        PROVE  list[i].id # list[j].id
    <2>1. PICK x \in 1..(n - 1), y \in 1..(n - 1) : list[i] = seq[x] /\ list[j] = seq[y]
      BY <1>4
    <2>2. Ahead(seq[x], seq[y])
      BY <1>5, <1>6, <2>1
    <2>3. x \in 1..n /\ y \in 1..n
      OBVIOUS
    <2>4. /\ seq[x].id \in Int /\ seq[x].distance \in Int
          /\ seq[y].id \in Int /\ seq[y].distance \in Int
      BY <1>2, <1>3, <2>3
    <2>5. x # y
      BY <2>2, <2>4 DEF Ahead
    <2>6. seq[x].id < seq[y].id \/ seq[y].id < seq[x].id
      BY <1>2, <2>3, <2>5 DEF InRowOrder
    <2>7. QED BY <2>1, <2>4, <2>6
  <1>7. ASSUME NEW i \in 1..L PROVE list[i].id < seq[n].id
    <2>1. PICK x \in 1..(n - 1) : list[i] = seq[x]
      BY <1>4
    <2>2. x \in 1..n /\ n \in 1..n /\ x < n
      OBVIOUS
    <2>3. QED BY <1>2, <2>1, <2>2 DEF InRowOrder
  <1>8. ASSUME NEW i \in 1..L, NEW j \in 1..L, i # j
        PROVE  list[i].id # list[j].id
    <2>1. i < j \/ j < i
      BY <1>1, <1>8
    <2>2. QED BY <1>6, <2>1
  <1>9. QED BY <1>7, <1>8 DEF L

\* Considering the next row keeps the buffer at the best k.
LEMMA ConsiderIsBest ==
    ASSUME NEW C, AreCandidates(C), NEW seq \in Seq(C), InRowOrder(seq),
           NEW n \in 1..Len(seq), NEW k \in Nat \ {0},
           NEW list, IsBest(list, C, seq, n - 1, k)
    PROVE  IsBest(Consider(list, seq[n], k, ByDistanceThenId), C, seq, n, k)
  <1> DEFINE L == AtMost(n - 1, k)
             c == seq[n]
             next == Consider(list, c, k, ByDistanceThenId)
  <1>1. /\ n \in Nat /\ L \in Nat /\ k \in Nat
        /\ n - 1 < k => L = n - 1 /\ AtMost(n, k) = n
        /\ ~(n - 1 < k) => L = k /\ AtMost(n, k) = k /\ ~(n < k)
    BY DEF AtMost
  <1>2. c \in C /\ \A x \in C : x.id \in Int /\ x.distance \in Int \ NaNs
    BY DEF AreCandidates
  <1>3. list \in [1..L -> C] /\ Len(list) = L /\ list \in Seq(C)
    <2>1. list \in [1..L -> C]
      BY DEF IsBest
    <2> HIDE DEF L
    <2>2. QED BY <1>1, <2>1
  <1>4. /\ \A i \in 1..L : \E j \in 1..(n - 1) : list[i] = seq[j]
        /\ \A i, j \in 1..L : i < j => Ahead(list[i], list[j])
        /\ \A j \in 1..(n - 1) :
              \/ \E i \in 1..L : list[i] = seq[j]
              \/ ~(n - 1 < k) /\ \A i \in 1..k : Ahead(list[i], seq[j])
    BY DEF IsBest
  <1>5. /\ \A i, j \in 1..L : i # j => list[i].id # list[j].id
        /\ \A i \in 1..L : list[i].id < c.id
    BY BestAreDistinct
  <1>6. \A i \in 1..L : \E j \in 1..n : list[i] = seq[j]
    <2>1. \A j \in 1..(n - 1) : j \in 1..n
      OBVIOUS
    <2> HIDE DEF L
    <2>2. QED BY <1>4, <2>1
  <1>7. \A j \in 1..n : j \in 1..(n - 1) \/ j = n
    BY <1>1
  <1>8. \A i \in 1..L : list[i] \in C /\ list[i].id \in Int /\ list[i].distance \in Int
    BY <1>2, <1>3
  <1> HIDE DEF L, c
  <1>9. CASE n - 1 < k
    <2> DEFINE app == Append(list, c)
    <2>1. next = SortBy(app, ByDistanceThenId)
      BY <1>1, <1>3, <1>9 DEF Consider
    <2>2. app \in [1..n -> C] /\ app[n] = c /\ \A i \in 1..(n - 1) : app[i] = list[i]
      <3>1. L = n - 1 /\ L + 1 = n
        BY <1>1, <1>9
      <3>2. app \in Seq(C) /\ Len(app) = L + 1
        BY <1>2, <1>3
      <3>3. app[L + 1] = c /\ \A i \in 1..L : app[i] = list[i]
        BY <1>1, <1>3
      <3> HIDE DEF app
      <3>4. app \in [1..n -> C]
        BY <3>1, <3>2
      <3>5. QED BY <3>1, <3>3, <3>4
    <2> HIDE DEF app
    <2>3. \A i, j \in 1..n : i # j => app[i].id # app[j].id
      <3>1. SUFFICES ASSUME NEW i \in 1..n, NEW j \in 1..n, i # j,
                            app[i].id = app[j].id
                     PROVE  FALSE
        OBVIOUS
      <3>2. CASE i \in 1..(n - 1) /\ j \in 1..(n - 1)
        BY <1>1, <1>5, <1>9, <2>2, <3>1, <3>2
      <3>3. CASE i = n /\ j \in 1..(n - 1)
        BY <1>1, <1>2, <1>5, <1>8, <1>9, <2>2, <3>1, <3>3
      <3>4. CASE j = n /\ i \in 1..(n - 1)
        BY <1>1, <1>2, <1>5, <1>8, <1>9, <2>2, <3>1, <3>4
      <3>5. QED BY <1>7, <3>1, <3>2, <3>3, <3>4
    <2>4. /\ next \in [1..n -> C]
          /\ \A m \in 1..n : \E i \in 1..n : next[m] = app[i]
          /\ \A i \in 1..n : \E m \in 1..n : next[m] = app[i]
          /\ \A l, m \in 1..n : l < m => Ahead(next[l], next[m])
      <3> DEFINE out == SortBy(app, ByDistanceThenId)
      <3>1. /\ out \in [1..n -> C]
            /\ \A m \in 1..n : \E i \in 1..n : out[m] = app[i]
            /\ \A i \in 1..n : \E m \in 1..n : out[m] = app[i]
            /\ \A l, m \in 1..n : l < m => Ahead(out[l], out[m])
        <4> HIDE DEF next
        <4> QED BY <1>1, <2>2, <2>3, SortIsStrict
      <3>2. next = out
        BY <2>1
      <3> HIDE DEF next, out
      <3>3. QED BY <3>1, <3>2
    <2> HIDE DEF next
    <2>5. \A i \in 1..n : \E j \in 1..n : app[i] = seq[j]
      <3>1. SUFFICES ASSUME NEW i \in 1..n PROVE \E j \in 1..n : app[i] = seq[j]
        OBVIOUS
      <3>2. CASE i \in 1..(n - 1)
        BY <1>1, <1>6, <1>9, <2>2, <3>2
      <3>3. CASE i = n
        BY <1>1, <2>2, <3>3 DEF c
      <3>4. QED BY <1>7, <3>2, <3>3
    <2>6. ASSUME NEW i \in 1..n PROVE \E j \in 1..n : next[i] = seq[j]
      <3>1. PICK m \in 1..n : next[i] = app[m]
        BY ONLY <2>4
      <3>2. QED BY ONLY <2>5, <3>1, m \in 1..n
    <2>7. \A j \in 1..n : \E i \in 1..n : app[i] = seq[j]
      <3>1. SUFFICES ASSUME NEW j \in 1..n PROVE \E i \in 1..n : app[i] = seq[j]
        OBVIOUS
      <3>2. CASE j \in 1..(n - 1)
        <4>1. PICK i \in 1..L : list[i] = seq[j]
          BY <1>4, <1>9, <3>2
        <4>2. i \in 1..(n - 1) /\ i \in 1..n
          BY <1>1, <1>9
        <4>3. QED BY <2>2, <4>1, <4>2
      <3>3. CASE j = n
        BY <1>1, <2>2, <3>3 DEF c
      <3>4. QED BY <1>7, <3>2, <3>3
    <2>8. ASSUME NEW j \in 1..n PROVE \E i \in 1..n : next[i] = seq[j]
      <3>1. PICK m \in 1..n : app[m] = seq[j]
        BY ONLY <2>7
      <3>2. QED BY ONLY <2>4, <3>1, m \in 1..n
    <2>9. AtMost(n, k) = n
      BY <1>1, <1>9
    <2>10. IsBest(next, C, seq, n, k)
      BY <2>4, <2>6, <2>8, <2>9 DEF IsBest
    <2>11. QED BY <2>10 DEF next, c
  <1>10. CASE ~(n - 1 < k) /\ c.distance < list[k].distance
    <2> DEFINE app == [list EXCEPT ![k] = c]
    <2>1. L = k /\ AtMost(n, k) = k /\ ~(n < k) /\ k \in 1..k
      BY <1>1, <1>10
    <2>2. Nearer(c, list[k])
      BY <1>2, <1>3, <1>10, <2>1 DEF Nearer
    <2>3. next = SortBy(app, ByDistanceThenId)
      BY <1>1, <1>3, <1>10, <2>1, <2>2 DEF Consider
    <2>4. /\ app \in [1..k -> C] /\ app[k] = c
          /\ \A i \in 1..k : i # k => app[i] = list[i]
      BY <1>2, <1>3, <2>1
    <2> HIDE DEF app
    <2>5. \A i, j \in 1..k : i # j => app[i].id # app[j].id
      <3>1. SUFFICES ASSUME NEW i \in 1..k, NEW j \in 1..k, i # j,
                            app[i].id = app[j].id
                     PROVE  FALSE
        OBVIOUS
      <3>2. CASE i # k /\ j # k
        <4>1. list[i].id # list[j].id
          BY <1>5, <2>1, <3>1
        <4>2. app[i] = list[i] /\ app[j] = list[j]
          BY <2>4, <3>2
        <4>3. QED BY <3>1, <4>1, <4>2
      <3>3. CASE i = k
        <4>1. j # k /\ app[i] = c /\ app[j] = list[j]
          BY <2>4, <3>1, <3>3
        <4>2. list[j].id < c.id /\ list[j].id \in Int /\ c.id \in Int
          BY <1>2, <1>5, <1>8, <2>1
        <4>3. QED BY <3>1, <4>1, <4>2
      <3>4. CASE j = k
        BY <1>2, <1>5, <1>8, <2>1, <2>4, <3>1, <3>4
      <3>5. QED BY <3>2, <3>3, <3>4
    <2>6. /\ next \in [1..k -> C]
          /\ \A m \in 1..k : \E i \in 1..k : next[m] = app[i]
          /\ \A i \in 1..k : \E m \in 1..k : next[m] = app[i]
          /\ \A l, m \in 1..k : l < m => Ahead(next[l], next[m])
      <3> DEFINE out == SortBy(app, ByDistanceThenId)
      <3>1. /\ out \in [1..k -> C]
            /\ \A m \in 1..k : \E i \in 1..k : out[m] = app[i]
            /\ \A i \in 1..k : \E m \in 1..k : out[m] = app[i]
            /\ \A l, m \in 1..k : l < m => Ahead(out[l], out[m])
        <4> HIDE DEF next
        <4> QED BY <1>1, <2>4, <2>5, SortIsStrict
      <3>2. next = out
        BY <2>3
      <3> HIDE DEF next, out
      <3>3. QED BY <3>1, <3>2
    <2> HIDE DEF next
    <2>7. \A i \in 1..k : \E j \in 1..n : app[i] = seq[j]
      <3>1. SUFFICES ASSUME NEW i \in 1..k PROVE \E j \in 1..n : app[i] = seq[j]
        OBVIOUS
      <3>2. CASE i # k
        BY <1>6, <2>1, <2>4, <3>2
      <3>3. CASE i = k
        BY <1>1, <2>4, <3>3 DEF c
      <3>4. QED BY <3>2, <3>3
    <2>8. ASSUME NEW i \in 1..k PROVE \E j \in 1..n : next[i] = seq[j]
      <3>1. PICK m \in 1..k : next[i] = app[m]
        BY ONLY <2>6
      <3>2. QED BY ONLY <2>7, <3>1, m \in 1..k
    <2>9. \A i \in 1..k : app[i] = c \/ (app[i] = list[i] /\ i < k)
      BY <1>1, <2>4
    <2>10. ASSUME NEW x \in C, x = list[k] \/ Ahead(list[k], x)
           PROVE  \A i \in 1..k : Ahead(app[i], x)
      <3>1. Ahead(c, x)
        BY <1>2, <1>8, <1>10, <2>1, <2>10 DEF Ahead
      <3>2. \A i \in 1..k : i < k => Ahead(list[i], x)
        <4>1. SUFFICES ASSUME NEW i \in 1..k, i < k PROVE Ahead(list[i], x)
          OBVIOUS
        <4>2. Ahead(list[i], list[k])
          BY <1>4, <2>1, <4>1
        <4>3. QED BY <1>2, <1>8, <2>1, <2>10, <4>2 DEF Ahead
      <3>3. QED BY <2>9, <3>1, <3>2
    <2>11. ASSUME NEW j \in 1..n
           PROVE  \/ \E i \in 1..k : next[i] = seq[j]
                  \/ \A i \in 1..k : Ahead(next[i], seq[j])
      <3>1. seq[j] \in C
        BY <1>1
      <3>2. CASE j = n
        BY <2>1, <2>4, <2>6, <3>2 DEF c
      <3>3. CASE j \in 1..(n - 1) /\ \E i \in 1..k : i # k /\ list[i] = seq[j]
        BY <2>4, <2>6, <3>3
      <3>4. CASE /\ j \in 1..(n - 1)
                 /\ ~\E i \in 1..k : i # k /\ list[i] = seq[j]
        <4>1. seq[j] = list[k] \/ Ahead(list[k], seq[j])
          BY <1>4, <2>1, <3>4
        <4>2. \A i \in 1..k : Ahead(app[i], seq[j])
          BY <2>10, <3>1, <4>1
        <4>3. QED BY <2>6, <4>2
      <3>5. QED BY <1>7, <3>2, <3>3, <3>4
    <2>12. IsBest(next, C, seq, n, k)
      BY <2>1, <2>6, <2>8, <2>11 DEF IsBest
    <2>13. QED BY <2>12 DEF next, c
  <1>11. CASE ~(n - 1 < k) /\ ~(c.distance < list[k].distance)
    <2>1. L = k /\ AtMost(n, k) = k /\ ~(n < k) /\ k \in 1..k
      BY <1>1, <1>11
    <2>2. next = list
      BY <1>1, <1>3, <1>11, <2>1 DEF Consider, Nearer
    <2>3. Ahead(list[k], c)
      BY <1>2, <1>5, <1>8, <1>11, <2>1 DEF Ahead
    <2>4. ASSUME NEW i \in 1..k PROVE Ahead(list[i], c)
      <3>1. i = k \/ Ahead(list[i], list[k])
        BY <1>1, <1>4, <2>1
      <3>2. QED BY <1>2, <1>8, <2>1, <2>3, <3>1 DEF Ahead
    <2>5. ASSUME NEW j \in 1..n
          PROVE  \/ \E i \in 1..k : list[i] = seq[j]
                 \/ \A i \in 1..k : Ahead(list[i], seq[j])
      <3>1. CASE j = n
        BY <2>4, <3>1 DEF c
      <3>2. CASE j \in 1..(n - 1)
        BY <1>4, <2>1, <3>2
      <3>3. QED BY <1>7, <3>1, <3>2
    <2>6. IsBest(list, C, seq, n, k)
      BY <1>3, <1>4, <1>6, <2>1, <2>5 DEF IsBest
    <2>7. QED BY <2>2, <2>6 DEF next, c
  <1>12. QED BY <1>9, <1>10, <1>11

\* The oracles of the generator and the harness, which let one row after the
\* other into a buffer of k, and the engine, which sorts everything and cuts at
\* k, answer the same rows in the same order for every corpus in row order:
\* ties at the k-th place are decided alike.
THEOREM OraclesAgree ==
    ASSUME NEW C, AreCandidates(C), NEW seq \in Seq(C), InRowOrder(seq),
           NEW k \in Nat \ {0}
    PROVE  InsertionTopK(seq, k, ByDistanceThenId)
              = Truncate(SortBy(seq, ByDistanceThenId), k)
  <1> DEFINE N == Len(seq)
             Step(f) == [n \in 0..N |->
                           IF n = 0 THEN <<>>
                           ELSE Consider(f[n - 1], seq[n], k, ByDistanceThenId)]
             best == CHOOSE f : f = Step(f)
             s == [n \in 0..N |->
                     Truncate(SortBy(SubSeq(seq, 1, n), ByDistanceThenId), k)]
  <1>1. InsertionTopK(seq, k, ByDistanceThenId) = best[N]
    BY DEF InsertionTopK
  <1>2. N \in Nat /\ k \in Nat
    OBVIOUS
  <1>3. \A n \in 0..N : IsBest(s[n], C, seq, n, k)
    BY SortedIsBest
  <1>4. s[0] = <<>>
    <2>1. AtMost(0, k) = 0 /\ 0 \in 0..N
      BY <1>2 DEF AtMost
    <2>2. s[0] \in [1..0 -> C]
      <3>1. IsBest(s[0], C, seq, 0, k)
        BY <1>3, <2>1
      <3> HIDE DEF s
      <3>2. QED BY <2>1, <3>1 DEF IsBest
    <2> HIDE DEF s
    <2>3. QED BY <2>2
  <1>5. ASSUME NEW n \in 1..N
        PROVE  s[n] = Consider(s[n - 1], seq[n], k, ByDistanceThenId)
    <2>1. n \in 0..N /\ n - 1 \in 0..N /\ n \in Nat
      OBVIOUS
    <2>2. IsBest(s[n], C, seq, n, k) /\ IsBest(s[n - 1], C, seq, n - 1, k)
      BY <1>3, <2>1
    <2> HIDE DEF s
    <2>3. IsBest(Consider(s[n - 1], seq[n], k, ByDistanceThenId), C, seq, n, k)
      BY <2>2, ConsiderIsBest
    <2>4. QED BY <1>2, <2>1, <2>2, <2>3, BestIsUnique
  <1>6. DOMAIN s = 0..N /\ s = [n \in 0..N |-> s[n]]
    OBVIOUS
  <1>7. s[N] = Truncate(SortBy(seq, ByDistanceThenId), k)
    <2>1. SubSeq(seq, 1, N) = seq
      OBVIOUS
    <2>2. s[N] = Truncate(SortBy(SubSeq(seq, 1, N), ByDistanceThenId), k)
      BY <1>2
    <2>3. QED BY <2>1, <2>2
  <1> HIDE DEF s
  <1>8. s = Step(s)
    <2>1. \A n \in 0..N :
             s[n] = IF n = 0 THEN <<>>
                    ELSE Consider(s[n - 1], seq[n], k, ByDistanceThenId)
      BY <1>2, <1>4, <1>5
    <2>2. QED BY <1>6, <2>1
  <1>9. best = Step(best)
    <2> HIDE DEF Step
    <2> QED BY <1>8
  <1> HIDE DEF best
  <1>10. \A n \in 0..N :
            best[n] = IF n = 0 THEN <<>>
                      ELSE Consider(best[n - 1], seq[n], k, ByDistanceThenId)
    BY <1>9
  <1> DEFINE Wrong == {n \in 0..N : best[n] # s[n]}
  <1>11. ASSUME Wrong # {} PROVE FALSE
    <2>1. Wrong \in SUBSET Nat
      BY <1>2
    <2>2. PICK m \in Wrong : \A x \in Wrong : m <= x
      <3> HIDE DEF Wrong
      <3> QED BY <1>11, <2>1, LeastOfNats
    <2>3. m \in 0..N /\ best[m] # s[m]
      OBVIOUS
    <2>4. m # 0
      BY <1>4, <1>10, <2>3
    <2>5. m \in 1..N /\ m - 1 \in 0..N /\ ~(m <= m - 1)
      BY <1>2, <2>3, <2>4
    <2>6. best[m - 1] = s[m - 1]
      BY <2>2, <2>5
    <2>7. QED BY <1>5, <1>10, <2>3, <2>4, <2>5, <2>6
  <1>12. best[N] = s[N]
    BY <1>2, <1>11
  <1>13. QED BY <1>1, <1>7, <1>12
=============================================================================
