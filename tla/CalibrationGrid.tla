--------------------------- MODULE CalibrationGrid --------------------------
(***************************************************************************)
(* The candidates of a calibration (index_substrate.rs) and the choice     *)
(* among them by what each of them found: no row, no index and no time.    *)
(***************************************************************************)
EXTENDS IndexParams

CONSTANTS EpsilonNum, EpsilonDen  \* CALIBRATION_PARITY_EPSILON: 1/100

ASSUME EpsilonAssumption == EpsilonNum \in Nat /\ EpsilonDen \in Nat \ {0}

-----------------------------------------------------------------------------
(* The candidate grid *)

Knobs(k, probes, ef) == [top_k |-> k, probes |-> probes, ef_search |-> ef]

Greater(a, b) == IF a > b THEN a ELSE b

\* A bug a review must rule out: the default's ef is not raised to top_k.
NaiveUnclamped(k) == Knobs(k, 4, 64)

\* naive_fixed_knobs
Naive(k) == Knobs(k, 4, Greater(64, k))

\* A bug a review must rule out: the default is scored last.
GridNaiveLast(k) ==
    LET ef == Greater(k, 16)
    IN  <<Knobs(k, 1, ef), Knobs(k, 1, 2 * ef), Knobs(k, 1, 4 * ef),
          Knobs(k, 2, ef), Knobs(k, 2, 2 * ef), Knobs(k, 2, 4 * ef),
          Knobs(k, 4, Greater(4 * k, 32)), Naive(k)>>

\* dedup drops equal neighbours only, of which there are none.
Grid(k) ==
    LET ef == Greater(k, 16)
    IN  <<Naive(k),
          Knobs(k, 1, ef), Knobs(k, 1, 2 * ef), Knobs(k, 1, 4 * ef),
          Knobs(k, 2, ef), Knobs(k, 2, 2 * ef), Knobs(k, 2, 4 * ef),
          Knobs(k, 4, Greater(4 * k, 32))>>

Candidates == 1..8

Cost(knobs) == knobs.probes * knobs.ef_search

\* The order of ranked: cost, probes, ef, and the grid's order among equals.
Cheaper(grid, i, j) ==
    \/ Cost(grid[i]) < Cost(grid[j])
    \/ /\ Cost(grid[i]) = Cost(grid[j])
       /\ \/ grid[i].probes < grid[j].probes
          \/ grid[i].probes = grid[j].probes /\ i < j

\* The first of the grid that equals the default.
NaiveAt(grid, k) ==
    CHOOSE i \in Candidates :
        grid[i] = Naive(k) /\ \A j \in 1..(i - 1) : grid[j] # Naive(k)

\* recall >= naive_recall - epsilon, over `out_of` expected answers.
MeetsParity(overlap, naive, out_of) ==
    EpsilonDen * overlap + EpsilonNum * out_of >= EpsilonDen * naive

\* calibrate: the cheapest candidate that meets parity.  The default meets its
\* own parity, so the fall-back to the best recall is never taken.
Select(k, overlaps, out_of) ==
    LET naive == overlaps[NaiveAt(Grid(k), k)]
        Meeting == {i \in Candidates : MeetsParity(overlaps[i], naive, out_of)}
    IN  Grid(k)[CHOOSE i \in Meeting :
                  \A j \in Meeting \ {i} : Cheaper(Grid(k), i, j)]
=============================================================================
