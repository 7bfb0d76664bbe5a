------------------------------- MODULE Ranking ------------------------------
(***************************************************************************)
(* How the code orders candidates by distance and keeps the nearest k.     *)
(*                                                                         *)
(* An f32 distance is its rank in the order of f32::total_cmp, so that     *)
(* total_cmp is the order of the integers.  NaNs are the ranks that no     *)
(* comparison operator orders: below every number for a NaN with the sign  *)
(* bit set, above every number otherwise.                                  *)
(***************************************************************************)
EXTENDS Integers, Sequences, FiniteSets

CONSTANT NaNs  \* the ranks of NaN distances and of NaN metadata values

ASSUME NaNsAssumption == NaNs \subseteq Int

-----------------------------------------------------------------------------
(* Sorting *)

\* a comes before b by the first of the fields in which they differ.
Less(a, b, fields) ==
    \E n \in DOMAIN fields :
        /\ a[fields[n]] < b[fields[n]]
        /\ \A m \in 1..(n - 1) : a[fields[m]] = b[fields[m]]

\* Vec::sort_by is stable: positions decide between equals.
SortBy(seq, fields) ==
    LET Before(i, j) ==
            \/ Less(seq[i], seq[j], fields)
            \/ ~Less(seq[j], seq[i], fields) /\ i < j
    IN  [n \in DOMAIN seq |->
            seq[CHOOSE i \in DOMAIN seq :
                  Cardinality({j \in DOMAIN seq : j # i /\ Before(j, i)})
                      = n - 1]]

Truncate(seq, k) == SubSeq(seq, 1, IF Len(seq) < k THEN Len(seq) ELSE k)

\* Equal distances stay in the order they came.
ByDistanceOnly == <<"distance">>

\* total_cmp on the distance, then the id.
ByDistanceThenId == <<"distance", "id">>

-----------------------------------------------------------------------------
(* The insertion loop of the generators, the harness and the calibration *)

\* A bug a review must rule out: a candidate as near as the worst displaces it.
NotFarther(a, b) == a.distance <= b.distance

\* `<` on f32: false as soon as one side is NaN.
Nearer(a, b) ==
    /\ a.distance \notin NaNs
    /\ b.distance \notin NaNs
    /\ a.distance < b.distance

\* One candidate meets the best found so far: it is pushed while there is room,
\* it replaces the worst when it is strictly nearer, and the buffer is sorted.
Consider(best, candidate, k, fields) ==
    IF Len(best) < k THEN SortBy(Append(best, candidate), fields)
    ELSE IF Nearer(candidate, best[k])
    THEN SortBy([best EXCEPT ![k] = candidate], fields)
    ELSE best

\* The best k, after one candidate after the other has met them.
InsertionTopK(candidates, k, fields) ==
    LET Best[n \in 0..Len(candidates)] ==
            IF n = 0 THEN <<>>
            ELSE Consider(Best[n - 1], candidates[n], k, fields)
    IN  Best[Len(candidates)]

IdsOf(hits) == [i \in DOMAIN hits |-> hits[i].id]
=============================================================================
