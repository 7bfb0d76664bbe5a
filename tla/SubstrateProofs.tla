-------------------------- MODULE SubstrateProofs ---------------------------
(***************************************************************************)
(* Proofs about the index substrate, index_substrate.rs.                   *)
(*                                                                         *)
(* The ladder, for every number of callers and every threshold: one        *)
(* background build at a time, a reason behind every failure, and no       *)
(* IVF-PQ index over too few rows.  The invariant adds what each step of a *)
(* call and of a job remembers: a claimable state behind a swap, a reason  *)
(* behind a failed job, and enough rows behind an IVF-PQ choice, which     *)
(* only grow.                                                              *)
(*                                                                         *)
(* Its parameters, for every dimension, top_k and count of hits: those     *)
(* FerriteDB chooses itself are accepted, every candidate of a calibration *)
(* has knobs a query accepts, and what calibrate selects is a candidate    *)
(* that costs no more than the default and meets its recall.  The sort of  *)
(* the candidates is lexicographic; its keys are packed into one natural   *)
(* number, so that the first candidate is the smallest number.             *)
(*                                                                         *)
(* And calibration, while rows are appended and indexes are built and      *)
(* removed between its queries: what it chose finds as much as the         *)
(* default, within epsilon, on the table as it was when the default had    *)
(* been scored.  The argument: sorting the rows a query reaches gives each *)
(* a place, so an overlap counts the expected rows with few enough in      *)
(* front of them; an appended row with a new id is not expected and can    *)
(* only push others back; so the default found no less than it would on    *)
(* that table and the other candidates, queried later, no more.            *)
(***************************************************************************)
EXTENDS SubstrateLadder, Calibration, RankingProofs

-----------------------------------------------------------------------------
(* The ladder *)

\* A build that holds the choice c made is bound to find enough rows.
Trained(c) ==
    Override = "Auto" /\ choice[c] = "IvfPq" =>
        /\ pc[c] \in {"inline", "claim", "swap", "spawn"} \/ job[c] = "spawned"
              => rows >= HnswMax
        /\ pc[c] = "building" \/ job[c] = "building" => covered[c] >= HnswMax

\* A caller with a job is between calls.
JobIsAlone == \A c \in Callers : job[c] # "none" => pc[c] = "idle"

IInv ==
    /\ TypeOK
    /\ OneBackgroundBuild
    /\ FailedHasReason
    /\ IvfPqIsTrained
    /\ JobIsAlone
    /\ \A c \in Callers : pc[c] = "swap" => current[c] \in {"Idle", "Completed"}
    /\ \A c \in Callers : job[c] = "failed" => error = "some"
    /\ \A c \in Callers : Trained(c)

-----------------------------------------------------------------------------

\* The ladder never answers outside its choices.
LEMMA ChoiceType ==
    ASSUME NEW n \in Nat
    PROVE  /\ ResolveLadder(n) \in Choices
           /\ Override = "Auto" /\ ResolveLadder(n) = "IvfPq" => n >= HnswMax
           /\ BuildDisposition(ResolveLadder(n), n) # "NotNeeded"
                => ResolveLadder(n) # "Exhaustive"
<1>. QED  BY LadderAssumption
          DEF ResolveLadder, LadderChoice, BuildDisposition, Choices

\* The initial states satisfy the invariant: nothing is claimed or built.
LEMMA InitIInv == Init => IInv
<1>. SUFFICES ASSUME Init PROVE IInv
  OBVIOUS
<1>1. TypeOK  BY LadderAssumption DEF Init, TypeOK, States, Choices
<1>2. Claimants = {}  BY DEF Init, Claimants
<1>. QED  BY <1>1, <1>2 DEF Init, IInv, OneBackgroundBuild, FailedHasReason,
                            IvfPqIsTrained, JobIsAlone, Trained

\* Every step preserves the invariant.
LEMMA NextKeepsIInv == IInv /\ [Next]_vars => IInv'
<1>. SUFFICES ASSUME IInv, [Next]_vars PROVE IInv'
  OBVIOUS
<1>. USE DEF IInv, TypeOK, OneBackgroundBuild, FailedHasReason, IvfPqIsTrained,
             JobIsAlone, Trained, Claimants, States, Choices, Index,
             callVars, buildVars, tableVars
<1>1. CASE Write
  BY <1>1, LadderAssumption DEF Write
<1>2. CASE RemoveIndexes
  BY <1>2, LadderAssumption DEF RemoveIndexes
<1>3. ASSUME NEW c \in Callers, Count(c) PROVE IInv'
  BY <1>3, LadderAssumption, ChoiceType DEF Count
<1>4. ASSUME NEW c \in Callers, InlineBegins(c) PROVE IInv'
  BY <1>4, LadderAssumption DEF InlineBegins, Covers
<1>5. ASSUME NEW c \in Callers, InlineEnds(c) PROVE IInv'
  BY <1>5, LadderAssumption DEF InlineEnds, Replaces
<1>6. ASSUME NEW c \in Callers, Claim(c) PROVE IInv'
  BY <1>6, LadderAssumption DEF Claim
<1>7. ASSUME NEW c \in Callers, Swap(c) PROVE IInv'
  BY <1>7, LadderAssumption DEF Swap
<1>8. ASSUME NEW c \in Callers, ReturnRefused(c) PROVE IInv'
  BY <1>8, LadderAssumption DEF ReturnRefused
<1>9. ASSUME NEW c \in Callers, Spawn(c) PROVE IInv'
  BY <1>9, LadderAssumption DEF Spawn
<1>10. ASSUME NEW c \in Callers, JobBegins(c) PROVE IInv'
  BY <1>10, LadderAssumption DEF JobBegins, Covers
<1>11. ASSUME NEW c \in Callers, JobBuilds(c) PROVE IInv'
  BY <1>11, LadderAssumption DEF JobBuilds, Replaces
<1>12. ASSUME NEW c \in Callers, JobFails(c) PROVE IInv'
  BY <1>12, LadderAssumption DEF JobFails
<1>13. ASSUME NEW c \in Callers, JobReports(c) PROVE IInv'
  BY <1>13, LadderAssumption DEF JobReports
<1>14. CASE UNCHANGED vars
  BY <1>14 DEF vars
<1>. QED  BY <1>1, <1>2, <1>3, <1>4, <1>5, <1>6, <1>7, <1>8, <1>9, <1>10, <1>11, <1>12, <1>13, <1>14 DEF Next, CallStep, JobStep

\* The invariant holds in every reachable state.
THEOREM Invariance == Spec => []IInv
<1>. QED  BY InitIInv, NextKeepsIInv, PTL DEF Spec

\* The call and the job of every caller, the build state and the index they
\* share keep their types, whatever the threads interleave.
THEOREM TypeCorrect == Spec => []TypeOK
<1>1. IInv => TypeOK  BY DEF IInv
<1>. QED  BY Invariance, <1>1, PTL

\* try_claim admits one background build at a time, however many callers race,
\* and the observable state says InProgress until that build reports.
THEOREM OneBuildAtATime == Spec => []OneBackgroundBuild
<1>1. IInv => OneBackgroundBuild  BY DEF IInv
<1>. QED  BY Invariance, <1>1, PTL

\* A failed background build always has its reason on record.
THEOREM FailureHasReason == Spec => []FailedHasReason
<1>1. IInv => FailedHasReason  BY DEF IInv
<1>. QED  BY Invariance, <1>1, PTL

\* Counting rows, choosing and building are three steps, and yet no unforced
\* IVF-PQ index covers fewer rows than the ladder's threshold.
THEOREM NoUntrainedIvfPq == Spec => []IvfPqIsTrained
<1>1. IInv => IvfPqIsTrained  BY DEF IInv
<1>. QED  BY Invariance, <1>1, PTL

-----------------------------------------------------------------------------
(* Build parameters *)

\* default_build_params never builds what validate refuses: the sub-vectors it
\* chooses divide the dimension, whatever the dimension is.
THEOREM DefaultsAreAccepted ==
    ASSUME NEW dimension \in Nat \ {0}, NEW family \in {"IvfPq", "IvfHnswFlat"}
    PROVE  ParamsAccepted(DefaultBuildParams(dimension, family), dimension)
<1>1. CASE family = "IvfPq"
  <2>1. SubVectors(dimension) > 0 /\ dimension % SubVectors(dimension) = 0
    BY DEF SubVectors
  <2>2. QED  BY <1>1, <2>1 DEF ParamsAccepted, DefaultBuildParams
<1>2. CASE family = "IvfHnswFlat"
  BY <1>2 DEF ParamsAccepted, DefaultBuildParams
<1>3. QED  BY <1>1, <1>2

-----------------------------------------------------------------------------
(* The grid *)

\* The knobs of the eight candidates.
LEMMA GridIsTyped ==
    ASSUME NEW k \in Nat \ {0}
    PROVE  /\ Grid(k) \in Seq([top_k : {k}, probes : 1..4, ef_search : Nat \ {0}])
           /\ Len(Grid(k)) = 8
           /\ \A i \in Candidates :
                 /\ Grid(k)[i] \in [top_k : {k}, probes : 1..4, ef_search : Nat \ {0}]
                 /\ Grid(k)[i].ef_search >= k
<1> DEFINE ef == Greater(k, 16)
           K == [top_k : {k}, probes : 1..4, ef_search : Nat \ {0}]
<1>1. /\ ef \in Nat \ {0} /\ ef >= k
      /\ 2 * ef \in Nat \ {0} /\ 2 * ef >= k /\ 4 * ef \in Nat \ {0} /\ 4 * ef >= k
      /\ Greater(64, k) \in Nat \ {0} /\ Greater(64, k) >= k
      /\ Greater(4 * k, 32) \in Nat \ {0} /\ Greater(4 * k, 32) >= k
  BY DEF Greater
<1> HIDE DEF ef
<1>2. /\ Naive(k) \in K /\ Naive(k).ef_search >= k
  BY <1>1 DEF Naive, Knobs
<1>3. \A p \in 1..4, e \in Nat \ {0} : Knobs(k, p, e) \in K /\ Knobs(k, p, e).ef_search = e
  BY DEF Knobs
<1>4. Grid(k) = <<Naive(k),
          Knobs(k, 1, ef), Knobs(k, 1, 2 * ef), Knobs(k, 1, 4 * ef),
          Knobs(k, 2, ef), Knobs(k, 2, 2 * ef), Knobs(k, 2, 4 * ef),
          Knobs(k, 4, Greater(4 * k, 32))>>
  BY DEF Grid, ef
<1>5. 1 \in 1..4 /\ 2 \in 1..4 /\ 4 \in 1..4
  OBVIOUS
<1>6. /\ Knobs(k, 1, ef) \in K /\ Knobs(k, 1, ef).ef_search >= k
      /\ Knobs(k, 1, 2 * ef) \in K /\ Knobs(k, 1, 2 * ef).ef_search >= k
      /\ Knobs(k, 1, 4 * ef) \in K /\ Knobs(k, 1, 4 * ef).ef_search >= k
      /\ Knobs(k, 2, ef) \in K /\ Knobs(k, 2, ef).ef_search >= k
      /\ Knobs(k, 2, 2 * ef) \in K /\ Knobs(k, 2, 2 * ef).ef_search >= k
      /\ Knobs(k, 2, 4 * ef) \in K /\ Knobs(k, 2, 4 * ef).ef_search >= k
      /\ Knobs(k, 4, Greater(4 * k, 32)) \in K
      /\ Knobs(k, 4, Greater(4 * k, 32)).ef_search >= k
  BY <1>1, <1>3, <1>5
<1> HIDE DEF K
<1>7. Grid(k) \in Seq(K) /\ Len(Grid(k)) = 8
  BY <1>2, <1>4, <1>6
<1>8. \A i \in Candidates : Grid(k)[i].ef_search >= k
  BY <1>2, <1>4, <1>6 DEF Candidates
<1>9. \A i \in Candidates : Grid(k)[i] \in K
  BY <1>2, <1>4, <1>6 DEF Candidates
<1>10. QED  BY <1>7, <1>8, <1>9 DEF K

\* Every candidate of every calibration has knobs a query accepts: none fails
\* for its knobs.
THEOREM CandidatesAreAccepted ==
    ASSUME NEW k \in 1..MaxTopK, NEW i \in Candidates
    PROVE  KnobsAccepted(Grid(k)[i])
<1>1. k \in Nat \ {0}
  BY MaxTopKAssumption
<1>2. /\ Grid(k)[i] \in [top_k : {k}, probes : 1..4, ef_search : Nat \ {0}]
      /\ Grid(k)[i].ef_search >= k
  BY <1>1, GridIsTyped
<1>3. QED  BY <1>2 DEF KnobsAccepted

-----------------------------------------------------------------------------
(* The selection *)

\* The keys of the sort, packed: cost, probes, position.
SortKey(k, i) == 100 * Cost(Grid(k)[i]) + 10 * Grid(k)[i].probes + i

LEMMA RankOrders ==
    ASSUME NEW k \in Nat \ {0}, NEW i \in Candidates, NEW j \in Candidates
    PROVE  /\ SortKey(k, i) \in Nat /\ Cost(Grid(k)[i]) \in Nat
           /\ Cheaper(Grid(k), i, j) <=> SortKey(k, i) < SortKey(k, j)
           /\ SortKey(k, i) = SortKey(k, j) => i = j
<1>1. ASSUME NEW c \in Candidates
      PROVE  Grid(k)[c].probes \in 1..4 /\ Cost(Grid(k)[c]) \in Nat
  <2>1. Grid(k)[c] \in [top_k : {k}, probes : 1..4, ef_search : Nat \ {0}]
    BY GridIsTyped
  <2>2. ASSUME NEW p \in 1..4, NEW e \in Nat PROVE p * e \in Nat
    OBVIOUS
  <2>3. QED  BY <2>1, <2>2 DEF Cost
<1> DEFINE a == Cost(Grid(k)[i])
           b == Cost(Grid(k)[j])
           p == Grid(k)[i].probes
           q == Grid(k)[j].probes
<1>2. a \in Nat /\ b \in Nat /\ p \in 1..4 /\ q \in 1..4 /\ i \in 1..8 /\ j \in 1..8
  BY <1>1 DEF Candidates
<1>3. Cheaper(Grid(k), i, j) <=> \/ a < b
                                 \/ a = b /\ (p < q \/ (p = q /\ i < j))
  BY DEF Cheaper
<1>4. SortKey(k, i) = 100 * a + 10 * p + i /\ SortKey(k, j) = 100 * b + 10 * q + j
  BY DEF SortKey
<1> HIDE DEF a, b, p, q
<1>5. /\ (100 * a + 10 * p + i < 100 * b + 10 * q + j) <=>
            \/ a < b
            \/ a = b /\ (p < q \/ (p = q /\ i < j))
      /\ 100 * a + 10 * p + i = 100 * b + 10 * q + j => i = j
      /\ 100 * a + 10 * p + i \in Nat
  BY <1>2
<1>6. QED  BY <1>2, <1>3, <1>4, <1>5 DEF a

\* The default is the first candidate: its overlap is the baseline.
LEMMA NaiveIsFirst ==
    ASSUME NEW k \in Nat \ {0}
    PROVE  Grid(k)[1] = Naive(k) /\ NaiveAt(Grid(k), k) = 1
<1>1. Grid(k)[1] = Naive(k)
  BY DEF Grid
<1> DEFINE First(i) == Grid(k)[i] = Naive(k) /\ \A j \in 1..(i - 1) : Grid(k)[j] # Naive(k)
<1>2. 1 \in Candidates /\ First(1)
  BY <1>1 DEF Candidates
<1>3. ASSUME NEW i \in Candidates, First(i) PROVE i = 1
  <2>1. 1 \in 1..(i - 1) => FALSE
    BY <1>1, <1>3
  <2>2. QED  BY <2>1 DEF Candidates
<1> HIDE DEF First
<1>4. (CHOOSE i \in Candidates : First(i)) = 1
  BY <1>2, <1>3
<1>5. QED  BY <1>1, <1>4 DEF NaiveAt, First

\* One of the candidates that meet parity comes first: the least of the first
\* n + 1 is the least of the first n or the candidate after them.
LeastUpTo(ranks, meeting, n) ==
    \/ \A j \in meeting : j > n
    \/ \E i \in meeting : i <= n /\ \A j \in meeting : j <= n => ranks[i] <= ranks[j]

LEMMA OneMore ==
    ASSUME NEW ranks \in [Candidates -> Nat], NEW meeting \in SUBSET Candidates,
           NEW n \in 0..7, LeastUpTo(ranks, meeting, n)
    PROVE  LeastUpTo(ranks, meeting, n + 1)
<1>0. /\ \A j \in meeting : j \in 1..8 /\ ranks[j] \in Nat
      /\ \A j \in meeting : j <= n + 1 <=> j <= n \/ j = n + 1
  BY DEF Candidates
<1>1. CASE \A j \in meeting : j > n
  <2>1. \A j \in meeting : j <= n + 1 => j = n + 1
    BY <1>0, <1>1
  <2>2. CASE n + 1 \in meeting
    BY <1>0, <2>1, <2>2 DEF LeastUpTo
  <2>3. CASE n + 1 \notin meeting
    BY <1>0, <2>1, <2>3 DEF LeastUpTo
  <2>4. QED  BY <2>2, <2>3
<1>2. CASE \E i \in meeting : i <= n /\ \A j \in meeting : j <= n => ranks[i] <= ranks[j]
  <2>1. PICK i \in meeting : i <= n /\ \A j \in meeting : j <= n => ranks[i] <= ranks[j]
    BY <1>2
  <2>2. CASE n + 1 \in meeting /\ ranks[n + 1] < ranks[i]
    <3>1. \A j \in meeting : j <= n + 1 => ranks[n + 1] <= ranks[j]
      BY <1>0, <2>1, <2>2
    <3>2. QED  BY <2>2, <3>1 DEF LeastUpTo
  <2>3. CASE ~(n + 1 \in meeting /\ ranks[n + 1] < ranks[i])
    <3>1. \A j \in meeting : j <= n + 1 => ranks[i] <= ranks[j]
      BY <1>0, <2>1, <2>3
    <3>2. QED  BY <1>0, <2>1, <3>1 DEF LeastUpTo
  <2>4. QED  BY <2>2, <2>3
<1>3. QED  BY <1>1, <1>2 DEF LeastUpTo

LEMMA OneIsFirst ==
    ASSUME NEW ranks \in [Candidates -> Nat], NEW meeting \in SUBSET Candidates,
           meeting # {}
    PROVE  \E i \in meeting : \A j \in meeting : ranks[i] <= ranks[j]
<1> DEFINE Least(n) == LeastUpTo(ranks, meeting, n)
<1>1. ASSUME NEW n \in 0..7, Least(n) PROVE Least(n + 1)
  BY <1>1, OneMore
<1>2. \A j \in meeting : j \in 1..8
  BY DEF Candidates
<1>3. Least(0)
  BY <1>2 DEF LeastUpTo
<1> HIDE DEF Least
<1>4. Least(8)
  <2>1. Least(1)
    BY <1>1, <1>3
  <2>2. Least(2)
    BY <1>1, <2>1
  <2>3. Least(3)
    BY <1>1, <2>2
  <2>4. Least(4)
    BY <1>1, <2>3
  <2>5. Least(5)
    BY <1>1, <2>4
  <2>6. Least(6)
    BY <1>1, <2>5
  <2>7. Least(7)
    BY <1>1, <2>6
  <2>8. QED  BY <1>1, <2>7
<1>5. QED  BY <1>2, <1>4 DEF Least, LeastUpTo

\* calibrate selects a candidate that meets the default's recall within epsilon
\* and is the cheapest that does; it costs no more than the default.  The
\* fall-back to the best recall is unreachable.
THEOREM SelectionIsCheapestAtParity ==
    ASSUME NEW k \in Nat \ {0}, NEW overlaps \in [Candidates -> Nat], NEW out_of \in Nat
    PROVE  /\ \E i \in Candidates :
                 /\ Select(k, overlaps, out_of) = Grid(k)[i]
                 /\ MeetsParity(overlaps[i], overlaps[1], out_of)
                 /\ \A j \in Candidates :
                       MeetsParity(overlaps[j], overlaps[1], out_of)
                       => Cost(Grid(k)[i]) <= Cost(Grid(k)[j])
           /\ Cost(Select(k, overlaps, out_of)) <= Cost(Naive(k))
<1> DEFINE Meeting == {i \in Candidates : MeetsParity(overlaps[i], overlaps[1], out_of)}
           IsFirst(i) == \A j \in Meeting \ {i} : Cheaper(Grid(k), i, j)
<1>1. 1 \in Meeting
  <2>1. 1 \in Candidates /\ overlaps[1] \in Nat
    BY DEF Candidates
  <2>2. \A n \in Nat, e \in Nat : n + e >= n
    OBVIOUS
  <2>3. EpsilonDen * overlaps[1] \in Nat /\ EpsilonNum * out_of \in Nat
    <3>1. \A a, b \in Nat : a * b \in Nat
      OBVIOUS
    <3>2. QED  BY <2>1, <3>1, EpsilonAssumption
  <2>4. MeetsParity(overlaps[1], overlaps[1], out_of)
    BY <2>2, <2>3 DEF MeetsParity
  <2>5. QED  BY <2>1, <2>4
<1>2. Meeting \subseteq Candidates
  OBVIOUS
<1> HIDE DEF Meeting
<1>3. \A j \in Meeting : SortKey(k, j) \in Nat
  <2>. SUFFICES ASSUME NEW j \in Meeting PROVE SortKey(k, j) \in Nat
    OBVIOUS
  <2>. QED  BY <1>2, RankOrders
<1>4. PICK i \in Meeting : \A j \in Meeting : SortKey(k, i) <= SortKey(k, j)
  <2> DEFINE ranks == [j \in Candidates |-> IF j \in Meeting THEN SortKey(k, j) ELSE 0]
  <2>1. ranks \in [Candidates -> Nat] /\ Meeting \in SUBSET Candidates
    BY <1>2, <1>3
  <2>2. \A j \in Meeting : ranks[j] = SortKey(k, j)
    BY <1>2
  <2> HIDE DEF ranks
  <2>3. PICK i \in Meeting : \A j \in Meeting : ranks[i] <= ranks[j]
    BY <1>1, <2>1, OneIsFirst
  <2>4. QED  BY <2>2, <2>3
<1>5. \A j \in Meeting : /\ SortKey(k, i) <= SortKey(k, j)
                         /\ Cost(Grid(k)[i]) <= Cost(Grid(k)[j])
  <2>. SUFFICES ASSUME NEW j \in Meeting
                PROVE  SortKey(k, i) <= SortKey(k, j) /\ Cost(Grid(k)[i]) <= Cost(Grid(k)[j])
    OBVIOUS
  <2>1. SortKey(k, i) <= SortKey(k, j)
    BY <1>4
  <2>2. ~ Cheaper(Grid(k), j, i)
    BY <1>2, <2>1, RankOrders
  <2>3. Cost(Grid(k)[i]) \in Nat /\ Cost(Grid(k)[j]) \in Nat
    BY <1>2, RankOrders
  <2>4. QED  BY <2>1, <2>2, <2>3 DEF Cheaper
<1>6. \A j \in Meeting : IsFirst(j) <=> j = i
  <2>1. IsFirst(i)
    <3>. SUFFICES ASSUME NEW j \in Meeting \ {i} PROVE Cheaper(Grid(k), i, j)
      OBVIOUS
    <3>1. SortKey(k, i) # SortKey(k, j) /\ SortKey(k, i) \in Nat /\ SortKey(k, j) \in Nat
      BY <1>2, RankOrders
    <3>2. SortKey(k, i) < SortKey(k, j)
      BY <1>5, <3>1
    <3>3. QED  BY <1>2, <3>2, RankOrders
  <2>2. ASSUME NEW j \in Meeting, IsFirst(j), j # i PROVE FALSE
    <3>1. Cheaper(Grid(k), j, i)
      BY <2>2
    <3>2. SortKey(k, j) < SortKey(k, i) /\ SortKey(k, i) \in Nat /\ SortKey(k, j) \in Nat
      BY <1>2, <3>1, RankOrders
    <3>3. QED  BY <1>5, <3>2
  <2>3. QED  BY <2>1, <2>2
<1> HIDE DEF IsFirst
<1>7. (CHOOSE j \in Meeting : IsFirst(j)) = i
  BY <1>6
<1>8. Select(k, overlaps, out_of) = Grid(k)[i]
  BY <1>7, NaiveIsFirst DEF Select, Meeting, IsFirst
<1>9. Cost(Grid(k)[i]) <= Cost(Naive(k))
  BY <1>1, <1>5, NaiveIsFirst
<1>10. QED  BY <1>2, <1>5, <1>8, <1>9 DEF Meeting

-----------------------------------------------------------------------------
(* What a query of a calibration finds *)

\* A row as a caller may append it.
StoredRow == [id : Nat, vector : Vectors]

\* One row of the table is found before another: it is nearer to the vector, or
\* as near and it was appended first.
Sooner(vector, table, i, j) ==
    LET a == Distance(vector, table[i].vector)
        b == Distance(vector, table[j].vector)
    IN  \/ a < b
        \/ a = b /\ i < j

\* The rows of K that are found before row i.
InFront(vector, table, K, i) == {j \in K : Sooner(vector, table, j, i)}

\* What a scored list of the rows of K is.
ScoredRows(vector, table, K) ==
    [n \in DOMAIN Ascending(K) |-> Scored(vector, table[Ascending(K)[n]])]

\* r says which row each of the best k answers is.
Ranks(r, vector, table, K, hits, k) ==
    /\ r \in [1..Cardinality(K) -> K]
    /\ \A i \in K : \E n \in 1..Cardinality(K) : r[n] = i
    /\ \A m, n \in 1..Cardinality(K) : m < n => Sooner(vector, table, r[m], r[n])
    /\ DOMAIN hits = 1..AtMost(Cardinality(K), k)
    /\ \A n \in 1..AtMost(Cardinality(K), k) : hits[n] = table[r[n]].id

\* The front of a list.
LEMMA FrontIs ==
    ASSUME NEW S, NEW list \in Seq(S), NEW n \in 0..Len(list)
    PROVE  /\ SubSeq(list, 1, n) \in Seq(S)
           /\ SubSeq(list, 1, n) = [i \in 1..n |-> list[i]]
           /\ Len(SubSeq(list, 1, n)) = n
  <1> DEFINE front == SubSeq(list, 1, n)
  <1>1. n \in Nat /\ n <= Len(list) /\ Len(list) \in Nat
    OBVIOUS
  <1>2. \A i \in 1..n : list[i] \in S
    BY <1>1
  <1>3. front = [i \in 1..n |-> list[i]]
    <2>1. front = [i \in 1..(n - 1 + 1) |-> list[i + 1 - 1]]
      BY <1>1
    <2>2. n - 1 + 1 = n /\ \A i \in 1..n : i + 1 - 1 = i
      BY <1>1
    <2> HIDE DEF front
    <2>3. QED BY <2>1, <2>2
  <1> HIDE DEF front
  <1>4. front \in [1..n -> S]
    BY <1>2, <1>3
  <1>5. front \in Seq(S) /\ Len(front) = n
    BY <1>1, <1>4
  <1>6. QED BY <1>3, <1>5 DEF front

\* The rows of a table are numbers, of finitely many rows.
LEMMA SomeRows ==
    ASSUME NEW table \in Seq(StoredRow), NEW K \in SUBSET DOMAIN table
    PROVE  /\ K \in SUBSET Nat /\ IsFiniteSet(K) /\ Cardinality(K) \in Nat
           /\ \A i \in K : table[i].id \in Nat /\ table[i].vector \in Vectors
  <1>1. Len(table) \in Nat /\ DOMAIN table = 1..Len(table)
    OBVIOUS
  <1>2. PICK l \in Nat : l = Len(table)
    BY <1>1
  <1>3. IsFiniteSet(1..l)
    <2>1. 1 \in Int /\ l \in Int
      BY <1>2
    <2>2. QED BY <2>1, FS_Interval
  <1>4. K \in SUBSET (1..l)
    BY <1>1, <1>2
  <1>5. IsFiniteSet(K) /\ Cardinality(K) \in Nat
    BY <1>3, <1>4, FS_Subset, FS_CardinalityType
  <1>6. \A i \in DOMAIN table : table[i] \in StoredRow
    OBVIOUS
  <1>7. QED BY <1>4, <1>5, <1>6 DEF StoredRow

\* Different rows are found one after the other.
LEMMA SoonerOrders ==
    ASSUME NEW table \in Seq(StoredRow), NEW vector \in Vectors,
           NEW i \in DOMAIN table, NEW j \in DOMAIN table
    PROVE  /\ ~(Sooner(vector, table, i, j) /\ Sooner(vector, table, j, i))
           /\ ~Sooner(vector, table, i, i)
  <1>1. table[i] \in StoredRow /\ table[j] \in StoredRow /\ i \in Int /\ j \in Int
    OBVIOUS
  <1>2. /\ Distance(vector, table[i].vector) \in Int
        /\ Distance(vector, table[j].vector) \in Int
    BY <1>1, CalibrationAssumption DEF StoredRow
  <1>3. QED BY <1>1, <1>2 DEF Sooner

\* Sorting the rows of K by distance and cutting at k finds the first k of them.
LEMMA SearchRanks ==
    ASSUME NEW table \in Seq(StoredRow), NEW vector \in Vectors,
           NEW K \in SUBSET DOMAIN table, NEW k \in Nat
    PROVE  \E r : Ranks(r, vector, table, K,
                        IdsOf(Truncate(SortBy(ScoredRows(vector, table, K),
                                              ByDistanceOnly), k)), k)
  <1> DEFINE M == Cardinality(K)
             order == Ascending(K)
             seq == ScoredRows(vector, table, K)
             out == SortBy(seq, ByDistanceOnly)
             hits == IdsOf(Truncate(out, k))
  <1>1. /\ K \in SUBSET Nat /\ IsFiniteSet(K) /\ M \in Nat
        /\ \A i \in K : table[i].id \in Nat /\ table[i].vector \in Vectors
    BY SomeRows
  <1>2. DOMAIN order = 1..M /\ \A n \in 1..M : order[n] \in K
    BY <1>1, AscendingAt DEF Ascending
  <1>3. /\ \A m, n \in 1..M : m < n => order[m] < order[n]
        /\ \A i \in K : \E n \in 1..M : order[n] = i
    BY <1>1, AscendingInOrder, AscendingLists
  <1>4. /\ DOMAIN seq = 1..M
        /\ \A n \in 1..M : /\ seq[n] = Scored(vector, table[order[n]])
                           /\ seq[n].id = table[order[n]].id
                           /\ seq[n].distance = Distance(vector, table[order[n]].vector)
    BY <1>2 DEF ScoredRows, Scored
  <1> HIDE DEF M, order, seq, out
  <1>5. ASSUME NEW n \in 1..M PROVE seq[n].distance \in Int
    <2>1. table[order[n]].vector \in Vectors
      BY <1>1, <1>2
    <2>2. seq[n].distance = Distance(vector, table[order[n]].vector)
      BY <1>4
    <2>3. QED BY <2>1, <2>2, CalibrationAssumption
  <1>6. /\ IsOrdered(seq, ByDistanceOnly)
        /\ \A i, j \in 1..M :
              PrecedesBy(seq, ByDistanceOnly, i, j) <=>
                 \/ seq[i].distance < seq[j].distance
                 \/ seq[i].distance = seq[j].distance /\ i < j
    BY <1>1, <1>4, <1>5, DistanceOrders
  <1>7. PICK p : Sorts(p, seq, ByDistanceOnly, M)
    BY <1>1, <1>4, <1>6, SortByOrder
  <1>8. /\ p \in [1..M -> 1..M]
        /\ out = [n \in 1..M |-> seq[p[n]]]
        /\ \A i \in 1..M : \E n \in 1..M : p[n] = i
        /\ \A m, n \in 1..M : m < n => PrecedesBy(seq, ByDistanceOnly, p[m], p[n])
    BY <1>7 DEF Sorts, out
  <1> DEFINE r == [n \in 1..M |-> order[p[n]]]
  <1>9. r \in [1..M -> K] /\ \A n \in 1..M : r[n] = order[p[n]] /\ p[n] \in 1..M
    BY <1>2, <1>8
  <1> HIDE DEF r
  <1>10. ASSUME NEW i \in K PROVE \E n \in 1..M : r[n] = i
    <2>1. PICK q \in 1..M : order[q] = i
      BY <1>3
    <2>2. PICK n \in 1..M : p[n] = q
      BY <1>8
    <2>3. QED BY <1>9, <2>1, <2>2
  <1>11. ASSUME NEW m \in 1..M, NEW n \in 1..M, m < n
         PROVE  Sooner(vector, table, r[m], r[n])
    <2>1. PrecedesBy(seq, ByDistanceOnly, p[m], p[n])
      BY <1>8, <1>11
    <2>2. \/ seq[p[m]].distance < seq[p[n]].distance
          \/ seq[p[m]].distance = seq[p[n]].distance /\ p[m] < p[n]
      BY <1>6, <1>9, <2>1
    <2>3. /\ seq[p[m]].distance = Distance(vector, table[r[m]].vector)
          /\ seq[p[n]].distance = Distance(vector, table[r[n]].vector)
      BY <1>4, <1>9
    <2>4. p[m] < p[n] => r[m] < r[n]
      BY <1>3, <1>9
    <2>5. \/ Distance(vector, table[r[m]].vector) < Distance(vector, table[r[n]].vector)
          \/ /\ Distance(vector, table[r[m]].vector) = Distance(vector, table[r[n]].vector)
             /\ r[m] < r[n]
      BY ONLY <2>2, <2>3, <2>4
    <2>6. QED BY <2>5 DEF Sooner
  <1>12. /\ DOMAIN Truncate(out, k) = 1..AtMost(M, k) /\ AtMost(M, k) \in 0..M
         /\ \A n \in 1..AtMost(M, k) : Truncate(out, k)[n] = out[n]
    BY <1>1, <1>4, SortedAndCut DEF out
  <1>13. /\ DOMAIN hits = 1..AtMost(M, k)
         /\ \A n \in 1..AtMost(M, k) : hits[n] = table[r[n]].id
    <2>1. hits = [n \in 1..AtMost(M, k) |-> Truncate(out, k)[n].id]
      BY <1>12 DEF IdsOf
    <2>2. ASSUME NEW n \in 1..AtMost(M, k) PROVE hits[n] = table[r[n]].id
      <3>1. n \in 1..M
        BY <1>1, <1>12
      <3>2. hits[n] = Truncate(out, k)[n].id /\ Truncate(out, k)[n] = out[n]
        BY <1>12, <2>1
      <3>3. out[n] = seq[p[n]] /\ p[n] \in 1..M
        BY <1>8, <3>1
      <3>4. seq[p[n]].id = table[r[n]].id
        BY <1>4, <1>9, <3>1, <3>3
      <3>5. QED BY <3>2, <3>3, <3>4
    <2>3. QED BY <2>1, <2>2
  <1>14. Ranks(r, vector, table, K, hits, k)
    BY <1>9, <1>10, <1>11, <1>13 DEF Ranks, M
  <1>15. QED BY <1>14 DEF out, seq

\* The n-th answer has n - 1 rows in front of it.
LEMMA RankIsPlace ==
    ASSUME NEW table \in Seq(StoredRow), NEW vector \in Vectors,
           NEW K \in SUBSET DOMAIN table, NEW hits, NEW k \in Nat,
           NEW r, Ranks(r, vector, table, K, hits, k), NEW n \in 1..Cardinality(K)
    PROVE  Cardinality(InFront(vector, table, K, r[n])) = n - 1
  <1> DEFINE M == Cardinality(K)
             S == 1..(n - 1)
             T == InFront(vector, table, K, r[n])
             f == [m \in S |-> r[m]]
  <1>1. M \in Nat
    BY SomeRows
  <1>2. /\ r \in [1..M -> K]
        /\ \A i \in K : \E m \in 1..M : r[m] = i
        /\ \A m, l \in 1..M : m < l => Sooner(vector, table, r[m], r[l])
    BY DEF Ranks
  <1> HIDE DEF M
  <1>3. n \in 1..M /\ S \subseteq 1..M /\ \A m \in S : m < n
    BY <1>1 DEF M
  <1>4. \A m \in 1..M : r[m] \in K /\ r[m] \in DOMAIN table
    BY <1>2
  <1>5. ASSUME NEW m \in 1..M, NEW l \in 1..M, Sooner(vector, table, r[m], r[l])
        PROVE  m < l
    <2>1. ~(l < m) /\ l # m
      BY <1>2, <1>4, <1>5, SoonerOrders
    <2>2. QED BY <2>1
  <1>6. \A m, l \in 1..M : r[m] = r[l] => m = l
    <2>1. SUFFICES ASSUME NEW m \in 1..M, NEW l \in 1..M, r[m] = r[l], m # l
                   PROVE  FALSE
      OBVIOUS
    <2>2. m < l \/ l < m
      BY <2>1
    <2>3. Sooner(vector, table, r[m], r[m])
      BY <1>2, <2>1, <2>2
    <2>4. QED BY <1>4, <2>3, SoonerOrders
  <1>7. f \in Injection(S, T)
    <2>1. \A m \in S : r[m] \in T
      BY <1>2, <1>3, <1>4 DEF InFront
    <2> HIDE DEF S, T
    <2>2. f \in [S -> T]
      BY <2>1
    <2>3. \A a, b \in S : f[a] = f[b] => a = b
      BY <1>3, <1>6
    <2> HIDE DEF f
    <2>4. QED BY <2>2, <2>3, Fun_IsInj
  <1>8. f \in Surjection(S, T)
    <2>1. ASSUME NEW i \in T PROVE \E m \in S : r[m] = i
      <3>1. i \in K /\ Sooner(vector, table, i, r[n])
        BY DEF InFront
      <3>2. PICK m \in 1..M : r[m] = i
        BY <1>2, <3>1
      <3>3. m < n
        BY <1>3, <1>5, <3>1, <3>2
      <3>4. QED BY <1>1, <1>3, <3>2, <3>3
    <2>2. \A m \in S : f[m] = r[m]
      OBVIOUS
    <2>3. f \in [S -> T]
      BY <1>7 DEF Injection
    <2> HIDE DEF S, T, f
    <2>4. \A i \in T : \E m \in S : f[m] = i
      BY <2>1, <2>2
    <2>5. QED BY <2>3, <2>4, Fun_IsSurj
  <1>9. IsFiniteSet(S) /\ Cardinality(S) = n - 1
    <2>1. n - 1 \in Nat /\ 1 \in Int
      BY <1>1, <1>3
    <2>2. PICK l \in Nat : l = n - 1
      BY <2>1
    <2>3. IsFiniteSet(1..l) /\ Cardinality(1..l) = IF 1 > l THEN 0 ELSE l - 1 + 1
      <3>1. l \in Int /\ 1 \in Int
        OBVIOUS
      <3>2. QED BY <3>1, FS_Interval
    <2>4. QED BY <2>2, <2>3
  <1> HIDE DEF S, T, f
  <1>10. Cardinality(T) = Cardinality(S)
    BY <1>7, <1>8, <1>9, FS_Surjection
  <1>11. QED BY <1>9, <1>10 DEF T

\* The rows of K that are expected and have fewer than m in front of them.
Hits(vector, table, K, m, expected) ==
    {i \in K : /\ Cardinality(InFront(vector, table, K, i)) < m
               /\ \E j \in DOMAIN expected : expected[j] = table[i].id}

\* The overlap counts rows, whatever their order among the answers.
LEMMA OverlapIsHits ==
    ASSUME NEW table \in Seq(StoredRow), NEW vector \in Vectors,
           NEW K \in SUBSET DOMAIN table, NEW hits, NEW k \in Nat,
           NEW r, Ranks(r, vector, table, K, hits, k),
           NEW expected, Len(expected) \in Nat
    PROVE  Overlap(hits, expected)
             = Cardinality(Hits(vector, table, K, AtMost(Len(expected), k), expected))
  <1> DEFINE M == Cardinality(K)
             e == Len(expected)
             T == Hits(vector, table, K, AtMost(e, k), expected)
             S == {n \in DOMAIN hits :
                     n <= e /\ \E j \in DOMAIN expected : expected[j] = hits[n]}
             f == [n \in S |-> r[n]]
  <1>1. M \in Nat /\ IsFiniteSet(K)
    BY SomeRows
  <1>2. /\ r \in [1..M -> K]
        /\ \A i \in K : \E n \in 1..M : r[n] = i
        /\ DOMAIN hits = 1..AtMost(M, k)
        /\ \A n \in 1..AtMost(M, k) : hits[n] = table[r[n]].id
    BY DEF Ranks
  <1>3. \A n \in 1..M : Cardinality(InFront(vector, table, K, r[n])) = n - 1
    BY RankIsPlace
  <1>4. /\ \A n \in 1..AtMost(M, k) : n \in 1..M /\ n <= k
        /\ \A n \in 1..M : n <= k => n \in 1..AtMost(M, k)
        /\ \A n \in 1..M : n - 1 < AtMost(e, k) <=> n <= k /\ n <= e
    BY <1>1 DEF AtMost
  <1> HIDE DEF M, e
  <1>5. \A n \in S : /\ n \in 1..M /\ n \in 1..AtMost(M, k) /\ n <= e
                     /\ hits[n] = table[r[n]].id
                     /\ r[n] \in K
    BY <1>2, <1>4
  <1>6. ASSUME NEW n \in S PROVE r[n] \in T
    <2>1. n - 1 < AtMost(e, k)
      BY <1>4, <1>5
    <2>2. Cardinality(InFront(vector, table, K, r[n])) < AtMost(e, k)
      BY <1>3, <1>5, <2>1
    <2>3. \E j \in DOMAIN expected : expected[j] = table[r[n]].id
      BY <1>5
    <2> HIDE DEF S
    <2>4. QED BY <1>5, <2>2, <2>3 DEF Hits
  <1>7. ASSUME NEW i \in T PROVE \E n \in S : r[n] = i
    <2>1. /\ i \in K
          /\ Cardinality(InFront(vector, table, K, i)) < AtMost(e, k)
          /\ \E j \in DOMAIN expected : expected[j] = table[i].id
      BY DEF Hits
    <2>2. PICK n \in 1..M : r[n] = i
      BY <1>2, <2>1
    <2>3. n <= k /\ n <= e
      BY <1>3, <1>4, <2>1, <2>2
    <2>4. n \in DOMAIN hits /\ hits[n] = table[i].id
      BY <1>2, <1>4, <2>2, <2>3
    <2>5. n \in S
      BY <2>1, <2>3, <2>4
    <2>6. QED BY <2>2, <2>5
  <1>8. \A a, b \in S : r[a] = r[b] => a = b
    <2>1. SUFFICES ASSUME NEW a \in S, NEW b \in S, r[a] = r[b] PROVE a = b
      BY Zenon
    <2>2. /\ a \in 1..M /\ b \in 1..M
          /\ Cardinality(InFront(vector, table, K, r[a])) = a - 1
          /\ Cardinality(InFront(vector, table, K, r[b])) = b - 1
      BY <1>3, <1>5
    <2>3. a - 1 = b - 1
      BY <2>1, <2>2
    <2>4. QED BY <2>2, <2>3
  <1>9. T \in SUBSET K
    BY DEF Hits
  <1>10. IsFiniteSet(T)
    <2> HIDE DEF T
    <2> QED BY <1>1, <1>9, FS_Subset
  <1>11. f \in Injection(S, T) /\ f \in Surjection(S, T)
    <2> HIDE DEF S, T
    <2>1. f \in [S -> T] /\ \A n \in S : f[n] = r[n]
      BY <1>6
    <2> HIDE DEF f
    <2>2. f \in Injection(S, T)
      BY <1>8, <2>1, Fun_IsInj
    <2>3. f \in Surjection(S, T)
      BY <1>7, <2>1, Fun_IsSurj
    <2>4. QED BY <2>2, <2>3
  <1>12. Cardinality(S) = Cardinality(T)
    <2> HIDE DEF S, T, f
    <2> QED BY <1>10, <1>11, FS_Injection
  <1>13. Overlap(hits, expected) = Cardinality(S)
    BY DEF Overlap, e
  <1>14. QED BY <1>12, <1>13 DEF e

\* Every expected hit is a row of the table.
LEMMA HitsAreRows ==
    ASSUME NEW table \in Seq(StoredRow), NEW vector, NEW K \in SUBSET DOMAIN table,
           NEW m, NEW expected
    PROVE  /\ IsFiniteSet(Hits(vector, table, K, m, expected))
           /\ Cardinality(Hits(vector, table, K, m, expected)) \in Nat
  <1>1. IsFiniteSet(K)
    BY SomeRows
  <1>2. Hits(vector, table, K, m, expected) \in SUBSET K
    BY DEF Hits
  <1>3. QED BY <1>1, <1>2, FS_Subset, FS_CardinalityType

\* Which rows a query keeps are rows of the table, and it answers with the
\* nearest of them.
LEMMA QueryRanks ==
    ASSUME NEW table \in Seq(StoredRow), NEW vector \in Vectors, NEW idx,
           NEW knobs, knobs.top_k \in Nat
    PROVE  /\ Reached(knobs, vector, table, idx) \in SUBSET DOMAIN table
           /\ \E r : Ranks(r, vector, table, Reached(knobs, vector, table, idx),
                           Query(knobs, vector, table, idx), knobs.top_k)
  <1> DEFINE K == Reached(knobs, vector, table, idx)
  <1>1. K \in SUBSET DOMAIN table
    BY DEF Reached
  <1>2. Query(knobs, vector, table, idx)
          = IdsOf(Truncate(SortBy(ScoredRows(vector, table, K), ByDistanceOnly),
                           knobs.top_k))
    BY DEF Query, ScoredRows
  <1> HIDE DEF K
  <1>3. \E r : Ranks(r, vector, table, K, Query(knobs, vector, table, idx), knobs.top_k)
    BY <1>1, <1>2, SearchRanks
  <1>4. QED BY <1>1, <1>3 DEF K

\* Rows that nobody expects, appended to a table, never add a hit: they only
\* push others out of the best k.
LEMMA AppendedRowsOnlyPush ==
    ASSUME NEW more \in Seq(StoredRow), NEW n \in 0..Len(more),
           NEW vector \in Vectors, NEW idx, NEW knobs, knobs.top_k \in Nat,
           NEW expected, Len(expected) \in Nat,
           \A i \in (n + 1)..Len(more), j \in DOMAIN expected :
               more[i].id # expected[j]
    PROVE  /\ Overlap(Query(knobs, vector, more, idx), expected) \in Nat
           /\ Overlap(Query(knobs, vector, SubSeq(more, 1, n), idx), expected) \in Nat
           /\ Overlap(Query(knobs, vector, more, idx), expected)
                <= Overlap(Query(knobs, vector, SubSeq(more, 1, n), idx), expected)
  <1> DEFINE table == SubSeq(more, 1, n)
             K == Reached(knobs, vector, table, idx)
             L == Reached(knobs, vector, more, idx)
             m == AtMost(Len(expected), knobs.top_k)
             A == Hits(vector, table, K, m, expected)
             B == Hits(vector, more, L, m, expected)
  <1>1. /\ table \in Seq(StoredRow) /\ DOMAIN table = 1..n
        /\ \A i \in 1..n : table[i] = more[i] /\ i \in DOMAIN more
    <2>1. table \in Seq(StoredRow) /\ table = [i \in 1..n |-> more[i]]
      BY FrontIs
    <2>2. \A i \in 1..n : i \in DOMAIN more
      OBVIOUS
    <2> HIDE DEF table
    <2>3. QED BY <2>1, <2>2
  <1>2. DOMAIN more = 1..Len(more) /\ Len(more) \in Nat /\ n \in Nat
    OBVIOUS
  <1> HIDE DEF table
  <1>3. /\ K \in SUBSET DOMAIN table
        /\ \E r : Ranks(r, vector, table, K, Query(knobs, vector, table, idx), knobs.top_k)
    BY <1>1, QueryRanks
  <1>4. /\ L \in SUBSET DOMAIN more
        /\ \E r : Ranks(r, vector, more, L, Query(knobs, vector, more, idx), knobs.top_k)
    BY QueryRanks
  <1>5. \A i \in 1..n : i \in K <=> i \in L
    BY <1>1 DEF Reached
  <1> HIDE DEF K, L, m
  <1>6. Overlap(Query(knobs, vector, table, idx), expected) = Cardinality(A)
    BY <1>1, <1>3, OverlapIsHits DEF m
  <1>7. Overlap(Query(knobs, vector, more, idx), expected) = Cardinality(B)
    BY <1>4, OverlapIsHits DEF m
  <1>8. IsFiniteSet(A) /\ Cardinality(A) \in Nat /\ Cardinality(B) \in Nat
    BY <1>1, <1>3, <1>4, HitsAreRows
  <1>9. B \in SUBSET A
    <2>1. ASSUME NEW i \in B PROVE i \in A
      <3>1. /\ i \in L
            /\ Cardinality(InFront(vector, more, L, i)) < m
            /\ \E j \in DOMAIN expected : expected[j] = more[i].id
        BY DEF Hits
      <3>2. i \in 1..n
        BY <1>2, <1>4, <3>1
      <3>3. i \in K /\ table[i] = more[i]
        BY <1>1, <1>5, <3>1, <3>2
      <3> DEFINE X == InFront(vector, table, K, i)
                 Y == InFront(vector, more, L, i)
      <3>4. X \in SUBSET Y
        <4>1. ASSUME NEW j \in X PROVE j \in Y
          <5>1. j \in K /\ Sooner(vector, table, j, i)
            BY DEF InFront
          <5>2. j \in 1..n /\ j \in L /\ table[j] = more[j]
            BY <1>1, <1>3, <1>5, <5>1
          <5>3. Sooner(vector, more, j, i)
            BY <3>3, <5>1, <5>2 DEF Sooner
          <5>4. QED BY <5>2, <5>3 DEF InFront
        <4>2. QED BY <4>1
      <3>5. X \in SUBSET K /\ Y \in SUBSET L
        BY DEF InFront
      <3>6. IsFiniteSet(K) /\ IsFiniteSet(L)
        BY <1>1, <1>3, <1>4, SomeRows
      <3> HIDE DEF X, Y
      <3>7. IsFiniteSet(Y) /\ Cardinality(X) <= Cardinality(Y)
        BY <3>4, <3>5, <3>6, FS_Subset
      <3>8. Cardinality(X) \in Nat /\ Cardinality(Y) \in Nat
        BY <3>4, <3>7, FS_Subset, FS_CardinalityType
      <3>9. m \in Nat
        BY DEF m, AtMost
      <3>10. Cardinality(X) < m
        BY <3>1, <3>7, <3>8, <3>9 DEF Y
      <3>11. QED BY <3>1, <3>3, <3>10 DEF X, Hits
    <2>2. QED BY <2>1
  <1> HIDE DEF A, B
  <1>10. Cardinality(B) <= Cardinality(A)
    BY <1>8, <1>9, FS_Subset
  <1>11. QED BY <1>6, <1>7, <1>8, <1>10 DEF table

-----------------------------------------------------------------------------
(* What a calibration measures *)

\* The oracle answers with ids of the snapshot, k of them or all.
LEMMA OracleAnswers ==
    ASSUME NEW snapshot \in Seq(StoredRow), NEW vector \in Vectors,
           NEW k \in Nat \ {0}
    PROVE  LET expected == ExactTopKIds(vector, snapshot, k)
           IN  /\ DOMAIN expected = 1..Expects(k, snapshot)
               /\ Len(expected) = Expects(k, snapshot)
               /\ Expects(k, snapshot) \in Nat
               /\ \A j \in DOMAIN expected :
                     \E i \in DOMAIN snapshot : expected[j] = snapshot[i].id
  <1> DEFINE n == Len(snapshot)
             seq == [i \in DOMAIN snapshot |-> Scored(vector, snapshot[i])]
             C == {Scored(vector, snapshot[i]) : i \in DOMAIN snapshot}
             list == InsertionTopK(seq, k, ByDistanceOnly)
             expected == IdsOf(list)
             e == Expects(k, snapshot)
  <1>1. n \in Nat /\ DOMAIN snapshot = 1..n
    OBVIOUS
  <1>2. \A i \in DOMAIN snapshot : snapshot[i].id \in Nat /\ snapshot[i].vector \in Vectors
    <2>1. \A i \in DOMAIN snapshot : snapshot[i] \in StoredRow
      OBVIOUS
    <2>2. QED BY <2>1 DEF StoredRow
  <1>3. \A i \in DOMAIN snapshot :
           /\ Scored(vector, snapshot[i]).id = snapshot[i].id
           /\ Scored(vector, snapshot[i]).distance \in Int
    BY <1>2, CalibrationAssumption DEF Scored
  <1>4. \A c \in C : c.id \in Int /\ c.distance \in Int
    BY <1>2, <1>3
  <1>5. seq \in Seq(C) /\ Len(seq) = n
    <2>1. seq \in [1..n -> C]
      BY <1>1
    <2> HIDE DEF seq, C, n
    <2>2. QED BY <1>1, <2>1
  <1>6. AtMost(n, k) = e /\ e \in Nat
    BY <1>1 DEF AtMost, Expects
  <1> HIDE DEF seq, n, list, e
  <1>7. list \in Seq(C) /\ Len(list) = e
    <2> HIDE DEF C
    <2>1. ByDistanceOnly \in Orders
      BY DEF Orders
    <2>2. QED BY <1>4, <1>5, <1>6, <2>1, InsertionIsList DEF list
  <1>8. DOMAIN list = 1..e
    <2> HIDE DEF C
    <2> QED BY <1>7
  <1>9. /\ DOMAIN expected = 1..e /\ Len(expected) = e
        /\ \A i \in 1..e : expected[i] = list[i].id
    BY <1>6, <1>8, IdsAre
  <1>10. \A j \in 1..e : \E i \in DOMAIN snapshot : list[j] = Scored(vector, snapshot[i])
    BY <1>7, <1>8
  <1> HIDE DEF expected
  <1>11. \A j \in DOMAIN expected :
            \E i \in DOMAIN snapshot : expected[j] = snapshot[i].id
    BY <1>3, <1>9, <1>10
  <1>12. ExactTopKIds(vector, snapshot, k) = expected
    BY DEF ExactTopKIds, expected, list, seq
  <1>13. QED BY <1>6, <1>9, <1>11, <1>12 DEF e

\* The stride stays inside the snapshot.
LEMMA StrideFits ==
    ASSUME NEW n \in Nat \ {0}, NEW c \in 1..n, NEW m \in 1..c
    PROVE  (m - 1) * (n \div c) + 1 \in 1..n
  <1> DEFINE q == n \div c
  <1>1. c \in Nat \ {0} /\ m - 1 \in Nat /\ m - 1 <= c - 1 /\ c - 1 \in Nat
    OBVIOUS
  <1>2. q \in Nat /\ c * q <= n
    BY <1>1
  <1>3. q >= 1
    <2>1. n - c * q < c
      BY <1>1
    <2> HIDE DEF q
    <2>2. q = 0 => c * q = 0
      BY <1>1
    <2>3. QED BY <1>2, <2>1, <2>2
  <1> HIDE DEF q
  <1>4. (m - 1) * q <= (c - 1) * q /\ (c - 1) * q = c * q - q /\ (m - 1) * q \in Nat
    <2>1. \A a, b, d \in Nat : a <= b => a * d <= b * d
      OBVIOUS
    <2>2. \A a, d \in Nat : (a - 1) * d = a * d - d /\ a * d \in Nat
      OBVIOUS
    <2>3. QED BY <1>1, <1>2, <2>1, <2>2
  <1>5. c * q \in Int
    BY <1>1, <1>2
  <1>6. QED BY <1>2, <1>3, <1>4, <1>5 DEF q

\* A snapshot that is not empty.
Snapshots == {s \in Seq(StoredRow) : s # <<>>}

\* A snapshot has at least one sample, and every sample is one of its vectors.
LEMMA SamplesAreVectors ==
    ASSUME NEW snapshot \in Snapshots
    PROVE  /\ Len(snapshot) \in Nat \ {0}
           /\ SampleCount(snapshot) \in 1..Len(snapshot)
           /\ \A n \in 1..SampleCount(snapshot) : Sample(snapshot, n) \in Vectors
  <1>1. Len(snapshot) \in Nat \ {0} /\ DOMAIN snapshot = 1..Len(snapshot)
    BY DEF Snapshots
  <1>2. SampleCount(snapshot) \in 1..Len(snapshot)
    BY <1>1, CalibrationAssumption DEF SampleCount
  <1>3. ASSUME NEW n \in 1..SampleCount(snapshot)
        PROVE  Sample(snapshot, n) \in Vectors
    <2> DEFINE at == (n - 1) * (Len(snapshot) \div SampleCount(snapshot)) + 1
    <2>1. at \in 1..Len(snapshot)
      BY <1>1, <1>2, StrideFits
    <2> HIDE DEF at
    <2>2. snapshot[at] \in StoredRow
      BY <1>1, <2>1 DEF Snapshots
    <2>3. QED BY <2>2 DEF Sample, StoredRow, at
  <1>4. QED BY <1>1, <1>2, <1>3

\* One sample counts a number of hits that is at most what is expected of it.
LEMMA SampleOverlapBounds ==
    ASSUME NEW k \in Nat \ {0}, NEW snapshot \in Snapshots,
           NEW n \in 1..SampleCount(snapshot),
           NEW knobs, knobs.top_k \in Nat, NEW table \in Seq(StoredRow), NEW idx
    PROVE  /\ SampleOverlap(k, snapshot, n, knobs, table, idx) \in Nat
           /\ Expects(k, snapshot) \in Nat
           /\ SampleOverlap(k, snapshot, n, knobs, table, idx) <= Expects(k, snapshot)
  <1> DEFINE vector == Sample(snapshot, n)
             expected == ExactTopKIds(vector, snapshot, k)
             hits == Query(knobs, vector, table, idx)
             e == Expects(k, snapshot)
             S == {i \in DOMAIN hits :
                     i <= Len(expected) /\ \E j \in DOMAIN expected : expected[j] = hits[i]}
  <1>1. vector \in Vectors /\ snapshot \in Seq(StoredRow)
    BY SamplesAreVectors DEF Snapshots
  <1> HIDE DEF vector
  <1>2. Len(expected) = e /\ e \in Nat
    BY <1>1, OracleAnswers
  <1>3. PICK r : Ranks(r, vector, table, Reached(knobs, vector, table, idx), hits, knobs.top_k)
    BY <1>1, QueryRanks
  <1>4. Cardinality(Reached(knobs, vector, table, idx)) \in Nat
    BY <1>1, QueryRanks, SomeRows
  <1>5. DOMAIN hits \subseteq Nat \ {0}
    BY <1>3, <1>4 DEF Ranks
  <1> HIDE DEF expected, hits, e
  <1>6. S \in SUBSET (1..e)
    BY <1>2, <1>5
  <1> HIDE DEF S
  <1>7. IsFiniteSet(1..e) /\ Cardinality(1..e) = e
    <2>1. 1 \in Int /\ e \in Int
      BY <1>2
    <2>2. IsFiniteSet(1..e) /\ Cardinality(1..e) = IF 1 > e THEN 0 ELSE e - 1 + 1
      BY <2>1, FS_Interval
    <2>3. QED BY <1>2, <2>2
  <1>8. Cardinality(S) \in Nat /\ Cardinality(S) <= e
    BY <1>6, <1>7, FS_Subset, FS_CardinalityType
  <1>9. SampleOverlap(k, snapshot, n, knobs, table, idx) = Cardinality(S)
    BY DEF SampleOverlap, Overlap, S, hits, expected, vector
  <1>10. QED BY <1>2, <1>8, <1>9 DEF e

\* The overlap of the first n samples of one candidate, on a table as it is.
Partial(k, snapshot, knobs, table, idx) ==
    CHOOSE f : f = [n \in 0..SampleCount(snapshot) |->
                      IF n = 0 THEN 0
                      ELSE f[n - 1] + SampleOverlap(k, snapshot, n, knobs, table, idx)]

\* A calibration of k with these knobs, on this table.
Measures(k, snapshot, knobs, table) ==
    /\ k \in Nat \ {0}
    /\ snapshot \in Snapshots
    /\ knobs.top_k \in Nat
    /\ table \in Seq(StoredRow)

\* The overlaps add up, sample by sample, to the total.
LEMMA PartialIs ==
    ASSUME NEW k, NEW snapshot, NEW knobs, NEW table, NEW idx,
           Measures(k, snapshot, knobs, table)
    PROVE  LET sums == Partial(k, snapshot, knobs, table, idx)
               N == SampleCount(snapshot)
           IN  /\ N \in Nat \ {0}
               /\ sums \in [0..N -> Nat]
               /\ sums[0] = 0
               /\ \A n \in 1..N :
                     sums[n] = sums[n - 1] + SampleOverlap(k, snapshot, n, knobs, table, idx)
               /\ TotalOverlap(k, snapshot, knobs, table, idx) = sums[N]
  <1> DEFINE N == SampleCount(snapshot)
             At(n) == SampleOverlap(k, snapshot, n, knobs, table, idx)
             F == [p \in Nat \X (1..N) |-> p[1] + At(p[2])]
             Step(f) == [n \in 0..N |-> IF n = 0 THEN 0 ELSE f[n - 1] + At(n)]
             sums == CHOOSE f : f = Step(f)
  <1>1. N \in Nat \ {0}
    BY SamplesAreVectors DEF Measures
  <1>2. \A n \in 1..N : At(n) \in Nat
    BY SampleOverlapBounds DEF Measures
  <1> HIDE DEF At, N
  <1>3. F \in StepsIn(Nat, N)
    <2>1. \A p \in Nat \X (1..N) : p[1] + At(p[2]) \in Nat
      BY <1>2
    <2>2. QED BY <2>1 DEF StepsIn
  <1>4. PICK g \in [0..N -> Nat] :
           /\ g[0] = 0
           /\ \A n \in 1..N : g[n] = F[<<g[n - 1], n>>]
    <2> DEFINE V == Nat
               zero == 0
    <2>1. zero \in V /\ N \in Nat
      BY <1>1
    <2>2. F \in StepsIn(V, N)
      BY <1>3
    <2> HIDE DEF F, Step, sums, V, zero
    <2>3. \E f \in [0..N -> V] :
             /\ f[0] = zero
             /\ \A n \in 1..N : f[n] = F[<<f[n - 1], n>>]
      BY ONLY <2>1, <2>2, RecursionExists
    <2>4. QED BY <2>3 DEF V, zero
  <1>5. g = Step(g)
    <2>1. \A n \in 1..N : g[n - 1] \in Nat
      BY <1>1
    <2>2. \A n \in 1..N : g[n] = g[n - 1] + At(n)
      BY <1>4, <2>1
    <2>3. \A n \in 0..N : g[n] = IF n = 0 THEN 0 ELSE g[n - 1] + At(n)
      <3>1. \A n \in 0..N : n = 0 \/ n \in 1..N
        BY <1>1
      <3> HIDE DEF F
      <3>2. QED BY <1>4, <2>2, <3>1
    <2>4. g = [n \in 0..N |-> g[n]]
      OBVIOUS
    <2>5. QED BY <2>3, <2>4
  <1>6. sums = Step(sums)
    <2> HIDE DEF Step
    <2> QED BY <1>5
  <1> HIDE DEF sums, F
  <1>7. /\ sums[0] = 0
        /\ \A n \in 1..N : sums[n] = sums[n - 1] + At(n)
        /\ sums = [n \in 0..N |-> sums[n]]
    <2>1. \A n \in 1..N : n \in 0..N /\ n # 0
      BY <1>1
    <2>2. 0 \in 0..N
      BY <1>1
    <2>3. sums = [n \in 0..N |-> IF n = 0 THEN 0 ELSE sums[n - 1] + At(n)]
      BY <1>6
    <2>4. \A n \in 0..N : sums[n] = IF n = 0 THEN 0 ELSE sums[n - 1] + At(n)
      BY <2>3
    <2>5. sums = [n \in 0..N |-> sums[n]]
      BY <2>3, <2>4
    <2>6. QED BY <2>1, <2>2, <2>4, <2>5
  <1> DEFINE Wrong == {n \in 0..N : sums[n] \notin Nat}
  <1>8. ASSUME Wrong # {} PROVE FALSE
    <2>1. PICK m \in Wrong : \A x \in Wrong : m <= x
      <3>1. Wrong \in SUBSET Nat
        OBVIOUS
      <3> HIDE DEF Wrong
      <3>2. QED BY <1>8, <3>1, LeastOfNats
    <2>2. m \in 0..N /\ sums[m] \notin Nat /\ m # 0
      BY <1>7
    <2>3. m \in 1..N /\ m - 1 \in 0..N /\ ~(m <= m - 1)
      BY <1>1, <2>2
    <2>4. sums[m - 1] \in Nat
      BY <2>1, <2>3
    <2>5. sums[m] = sums[m - 1] + At(m) /\ At(m) \in Nat
      BY <1>2, <1>7, <2>3
    <2> HIDE DEF Wrong
    <2>6. QED BY ONLY <2>2, <2>4, <2>5
  <1>9. sums \in [0..N -> Nat]
    BY <1>7, <1>8
  <1>10. /\ Partial(k, snapshot, knobs, table, idx) = sums
         /\ TotalOverlap(k, snapshot, knobs, table, idx) = sums[N]
    BY DEF Partial, TotalOverlap, sums, Step, At, N
  <1>11. QED BY <1>1, <1>7, <1>9, <1>10 DEF At, N

\* Sums of smaller steps are smaller.
LEMMA SumsCompare ==
    ASSUME NEW N \in Nat, NEW f \in [0..N -> Nat], NEW g \in [0..N -> Nat],
           f[0] = g[0],
           \A n \in 1..N : f[n] - f[n - 1] <= g[n] - g[n - 1]
    PROVE  \A n \in 0..N : f[n] <= g[n]
  <1> DEFINE Wrong == {n \in 0..N : ~(f[n] <= g[n])}
  <1>1. ASSUME Wrong # {} PROVE FALSE
    <2>1. PICK m \in Wrong : \A x \in Wrong : m <= x
      <3>1. Wrong \in SUBSET Nat
        OBVIOUS
      <3> HIDE DEF Wrong
      <3>2. QED BY <1>1, <3>1, LeastOfNats
    <2>2. m \in 0..N /\ ~(f[m] <= g[m])
      OBVIOUS
    <2>3. m # 0
      BY <2>2
    <2>4. m \in 1..N /\ m - 1 \in 0..N /\ ~(m <= m - 1)
      BY <2>2, <2>3
    <2>5. f[m - 1] <= g[m - 1]
      BY <2>1, <2>4
    <2>6. /\ f[m] \in Nat /\ g[m] \in Nat /\ f[m - 1] \in Nat /\ g[m - 1] \in Nat
      BY <2>4
    <2>7. QED BY <2>2, <2>4, <2>5, <2>6
  <1>2. QED BY <1>1

\* Where every sample finds no more, neither do the first n of them.
LEMMA PartialsCompare ==
    ASSUME NEW k, NEW snapshot, NEW idx,
           NEW knobs, NEW table, Measures(k, snapshot, knobs, table),
           NEW others, NEW more, Measures(k, snapshot, others, more),
           \A n \in 1..SampleCount(snapshot) :
              SampleOverlap(k, snapshot, n, knobs, table, idx)
                <= SampleOverlap(k, snapshot, n, others, more, idx)
    PROVE  \A n \in 0..SampleCount(snapshot) :
              Partial(k, snapshot, knobs, table, idx)[n]
                <= Partial(k, snapshot, others, more, idx)[n]
  <1> DEFINE N == SampleCount(snapshot)
             f == Partial(k, snapshot, knobs, table, idx)
             g == Partial(k, snapshot, others, more, idx)
             a(n) == SampleOverlap(k, snapshot, n, knobs, table, idx)
             b(n) == SampleOverlap(k, snapshot, n, others, more, idx)
  <1>1. /\ N \in Nat \ {0} /\ f \in [0..N -> Nat] /\ f[0] = 0
        /\ \A n \in 1..N : f[n] = f[n - 1] + a(n)
    BY PartialIs
  <1>2. /\ g \in [0..N -> Nat] /\ g[0] = 0
        /\ \A n \in 1..N : g[n] = g[n - 1] + b(n)
    BY PartialIs
  <1>3. \A n \in 1..N : a(n) \in Nat /\ b(n) \in Nat /\ a(n) <= b(n)
    BY SampleOverlapBounds DEF Measures
  <1> HIDE DEF N, f, g, a, b
  <1>4. \A n \in 1..N : f[n - 1] \in Nat /\ g[n - 1] \in Nat
    BY <1>1, <1>2
  <1>5. ASSUME NEW n \in 1..N PROVE f[n] - f[n - 1] <= g[n] - g[n - 1]
    <2>1. f[n] = f[n - 1] + a(n) /\ g[n] = g[n - 1] + b(n)
      BY <1>1, <1>2
    <2>2. /\ f[n - 1] \in Nat /\ g[n - 1] \in Nat
          /\ a(n) \in Nat /\ b(n) \in Nat /\ a(n) <= b(n)
      BY <1>3, <1>4
    <2>3. QED BY ONLY <2>1, <2>2
  <1>6. \A n \in 0..N : f[n] <= g[n]
    BY <1>1, <1>2, <1>5, SumsCompare
  <1>7. QED BY <1>6 DEF N, f, g

\* Rows beyond the snapshot with new ids only.
NewRows(snapshot, table, n) ==
    \A i \in (n + 1)..Len(table), j \in DOMAIN snapshot : table[i].id # snapshot[j].id

\* A candidate finds less, sample by sample, after new rows were appended.
LEMMA SamplesShrink ==
    ASSUME NEW k, NEW snapshot, NEW knobs, NEW more, NEW idx,
           Measures(k, snapshot, knobs, more),
           NEW m \in 0..Len(more), NewRows(snapshot, more, m),
           NEW n \in 1..SampleCount(snapshot)
    PROVE  SampleOverlap(k, snapshot, n, knobs, more, idx)
             <= SampleOverlap(k, snapshot, n, knobs, SubSeq(more, 1, m), idx)
  <1> DEFINE vector == Sample(snapshot, n)
             expected == ExactTopKIds(vector, snapshot, k)
  <1>1. vector \in Vectors /\ snapshot \in Seq(StoredRow)
    BY SamplesAreVectors DEF Snapshots, Measures
  <1> HIDE DEF vector
  <1>2. /\ Len(expected) \in Nat
        /\ \A j \in DOMAIN expected :
              \E i \in DOMAIN snapshot : expected[j] = snapshot[i].id
    BY <1>1, OracleAnswers DEF Measures
  <1> HIDE DEF expected
  <1>3. \A i \in (m + 1)..Len(more), j \in DOMAIN expected : more[i].id # expected[j]
    BY <1>2 DEF NewRows
  <1>4. Overlap(Query(knobs, vector, more, idx), expected)
           <= Overlap(Query(knobs, vector, SubSeq(more, 1, m), idx), expected)
    BY <1>1, <1>2, <1>3, AppendedRowsOnlyPush DEF Measures
  <1>5. QED BY <1>4 DEF SampleOverlap, vector, expected

\* Without an index all candidates find the same.
LEMMA AllFindTheSame ==
    ASSUME NEW k, NEW snapshot, NEW knobs, NEW others, NEW table,
           Measures(k, snapshot, knobs, table), Measures(k, snapshot, others, table),
           knobs.top_k = others.top_k
    PROVE  /\ TotalOverlap(k, snapshot, knobs, table, Nothing)
                = TotalOverlap(k, snapshot, others, table, Nothing)
           /\ TotalOverlap(k, snapshot, knobs, table, Nothing) \in Nat
  <1> DEFINE N == SampleCount(snapshot)
             f == Partial(k, snapshot, knobs, table, Nothing)
             g == Partial(k, snapshot, others, table, Nothing)
  <1>1. \A vector : Reached(knobs, vector, table, Nothing) = Reached(others, vector, table, Nothing)
    BY DEF Reached
  <1>2. \A vector : Query(knobs, vector, table, Nothing) = Query(others, vector, table, Nothing)
    BY <1>1 DEF Query
  <1>3. \A n \in 1..N : SampleOverlap(k, snapshot, n, knobs, table, Nothing)
                          = SampleOverlap(k, snapshot, n, others, table, Nothing)
    BY <1>2 DEF SampleOverlap
  <1>4. \A n \in 1..N : /\ SampleOverlap(k, snapshot, n, knobs, table, Nothing) \in Nat
                        /\ SampleOverlap(k, snapshot, n, others, table, Nothing) \in Nat
    BY SampleOverlapBounds DEF Measures
  <1>5. /\ \A n \in 1..N : SampleOverlap(k, snapshot, n, knobs, table, Nothing)
                             <= SampleOverlap(k, snapshot, n, others, table, Nothing)
        /\ \A n \in 1..N : SampleOverlap(k, snapshot, n, others, table, Nothing)
                             <= SampleOverlap(k, snapshot, n, knobs, table, Nothing)
    BY <1>3, <1>4
  <1>6. \A n \in 0..N : f[n] <= g[n]
    BY <1>5, PartialsCompare
  <1>7. \A n \in 0..N : g[n] <= f[n]
    BY <1>5, PartialsCompare
  <1>8. /\ N \in Nat \ {0} /\ f \in [0..N -> Nat] /\ g \in [0..N -> Nat]
        /\ TotalOverlap(k, snapshot, knobs, table, Nothing) = f[N]
        /\ TotalOverlap(k, snapshot, others, table, Nothing) = g[N]
    BY PartialIs
  <1> HIDE DEF N, f, g
  <1>9. N \in 0..N /\ f[N] \in Nat /\ g[N] \in Nat
    BY <1>8
  <1>10. QED BY <1>6, <1>7, <1>8, <1>9

-----------------------------------------------------------------------------
(* The invariant of a calibration *)

\* An index of the table, or none.
Indexes == {Nothing} \cup [build : Nat, covers : Nat]

\* The index is one of the builds so far: the next one is another.
Known(idx, last) ==
    idx \in Indexes /\ (idx # Nothing => idx.build \in 1..last)

\* The snapshot was no longer than the table was, which has only grown.
Window(snapshot, base, table) ==
    snapshot \in Snapshots /\ base \in Len(snapshot)..Len(table)

\* The index of the snapshot is the one there is, and appends brought new ids
\* only.
Stays(idx, snapshot, table, at) ==
    idx # Nothing /\ at = idx /\ NewRows(snapshot, table, Len(snapshot))

Runs ==
    [top_k : 1..MaxTopK, snapshot : Snapshots, candidate : 1..9, sample : Nat,
     overlaps : [Candidates -> Nat], index : Indexes, base : Nat]

\* How many samples of candidate c have been scored.
Done(run, c) ==
    IF c < run.candidate THEN SampleCount(run.snapshot)
    ELSE IF c = run.candidate THEN run.sample - 1
    ELSE 0

\* What these samples find in the table as it was when the default was scored.
FoundSoFar(run, table, c) ==
    Partial(run.top_k, run.snapshot, Grid(run.top_k)[c],
            SubSeq(table, 1, run.base), run.index)[Done(run, c)]

\* The default was scored on fewer rows than the others: while nothing else
\* changed it found no less than it would there, and they no more.
Favoured(run, table, at) ==
    Stays(run.index, run.snapshot, table, at) =>
        /\ FoundSoFar(run, table, 1) <= run.overlaps[1]
        /\ \A c \in 2..8 : run.overlaps[c] <= FoundSoFar(run, table, c)

Running(run, table, at, last) ==
    /\ run \in Runs
    /\ run.sample \in 1..SampleCount(run.snapshot)
    /\ Window(run.snapshot, run.base, table)
    /\ Known(run.index, last)
    /\ \A c \in Candidates :
          run.overlaps[c] <= Done(run, c) * Expects(run.top_k, run.snapshot)
    /\ Favoured(run, table, at)

\* The chosen knobs find, within epsilon, what the default does.
AtParity(result, table) ==
    LET k == result.knobs.top_k
        Found(knobs) == TotalOverlap(k, result.snapshot, knobs,
                                     SubSeq(table, 1, result.base), result.index)
    IN  MeetsParity(Found(result.knobs), Found(Naive(k)), OutOf(k, result.snapshot))

Settled(result, table, at, last) ==
    /\ result.knobs.top_k \in 1..MaxTopK
    /\ \E c \in Candidates : result.knobs = Grid(result.knobs.top_k)[c]
    /\ Cost(result.knobs) <= Cost(Naive(result.knobs.top_k))
    /\ Window(result.snapshot, result.base, table)
    /\ Known(result.index, last)
    /\ Stays(result.index, result.snapshot, table, at) => AtParity(result, table)

CalInvariant ==
    /\ stored \in Seq(StoredRow)
    /\ writes \in 0..MaxWrites /\ builds \in 0..MaxBuilds
    /\ Known(ann, builds)
    /\ ann # Nothing => ann.covers \in 1..Len(stored)
    /\ cal # Nothing => Running(cal, stored, ann, builds)
    /\ chosen \notin {Nothing, Refused} => Settled(chosen, stored, ann, builds)

-----------------------------------------------------------------------------
(* The table grows *)

\* The table has new rows at its end, or the index is another or none.
Grown(table, at, last, more, next, later) ==
    /\ table \in Seq(StoredRow) /\ more \in Seq(StoredRow)
    /\ Len(table) <= Len(more)
    /\ \A i \in DOMAIN table : more[i] = table[i]
    /\ last \in Nat /\ later \in Nat /\ last <= later
    /\ next = at \/ next = Nothing \/ next.build > last

\* What was true of the table before it grew.
LEMMA GrownKeeps ==
    ASSUME NEW table, NEW at, NEW last, NEW more, NEW next, NEW later,
           Grown(table, at, last, more, next, later),
           NEW idx, Known(idx, last),
           NEW snapshot, NEW base, Window(snapshot, base, table)
    PROVE  /\ Known(idx, later)
           /\ Window(snapshot, base, more)
           /\ SubSeq(more, 1, base) = SubSeq(table, 1, base)
           /\ Stays(idx, snapshot, more, next) => Stays(idx, snapshot, table, at)
  <1>1. /\ snapshot \in Snapshots /\ Len(snapshot) \in Nat \ {0}
        /\ base \in 0..Len(table) /\ base \in 0..Len(more)
        /\ Len(table) \in Nat /\ Len(more) \in Nat
        /\ Len(snapshot) <= base
    BY SamplesAreVectors DEF Window, Grown
  <1>2. Known(idx, later)
    BY DEF Known, Grown
  <1>3. Window(snapshot, base, more)
    BY <1>1 DEF Window
  <1>4. SubSeq(more, 1, base) = SubSeq(table, 1, base)
    <2>1. SubSeq(table, 1, base) = [i \in 1..base |-> table[i]]
      BY <1>1, FrontIs DEF Grown
    <2>2. SubSeq(more, 1, base) = [i \in 1..base |-> more[i]]
      BY <1>1, FrontIs DEF Grown
    <2>3. \A i \in 1..base : more[i] = table[i]
      BY <1>1 DEF Grown
    <2>4. QED BY <2>1, <2>2, <2>3
  <1>5. ASSUME Stays(idx, snapshot, more, next) PROVE Stays(idx, snapshot, table, at)
    <2>1. idx # Nothing /\ next = idx
      BY <1>5 DEF Stays
    <2>2. idx \in [build : Nat, covers : Nat] /\ idx.build <= last
      BY <2>1 DEF Known, Indexes, Grown
    <2>3. next = at
      BY <2>1, <2>2 DEF Grown
    <2>4. NewRows(snapshot, table, Len(snapshot))
      <3>1. NewRows(snapshot, more, Len(snapshot))
        BY <1>5 DEF Stays
      <3>2. \A i \in (Len(snapshot) + 1)..Len(table) :
               i \in (Len(snapshot) + 1)..Len(more) /\ more[i] = table[i]
        BY <1>1 DEF Grown
      <3>3. QED BY <3>1, <3>2 DEF NewRows
    <2>5. QED BY <2>1, <2>3, <2>4 DEF Stays
  <1>6. QED BY <1>2, <1>3, <1>4, <1>5

\* A calibration in progress keeps its invariant.
LEMMA RunningGrows ==
    ASSUME NEW table, NEW at, NEW last, NEW more, NEW next, NEW later,
           Grown(table, at, last, more, next, later),
           NEW run, Running(run, table, at, last)
    PROVE  Running(run, more, next, later)
  <1>1. Known(run.index, last) /\ Window(run.snapshot, run.base, table)
    BY DEF Running
  <1>2. /\ Known(run.index, later)
        /\ Window(run.snapshot, run.base, more)
        /\ SubSeq(more, 1, run.base) = SubSeq(table, 1, run.base)
        /\ Stays(run.index, run.snapshot, more, next)
              => Stays(run.index, run.snapshot, table, at)
    BY <1>1, GrownKeeps
  <1>3. \A c : FoundSoFar(run, more, c) = FoundSoFar(run, table, c)
    BY <1>2 DEF FoundSoFar
  <1>4. Favoured(run, more, next)
    BY <1>2, <1>3 DEF Running, Favoured
  <1>5. QED BY <1>2, <1>4 DEF Running

\* So does the result of one.
LEMMA SettledGrows ==
    ASSUME NEW table, NEW at, NEW last, NEW more, NEW next, NEW later,
           Grown(table, at, last, more, next, later),
           NEW result, Settled(result, table, at, last)
    PROVE  Settled(result, more, next, later)
  <1>1. Known(result.index, last) /\ Window(result.snapshot, result.base, table)
    BY DEF Settled
  <1>2. /\ Known(result.index, later)
        /\ Window(result.snapshot, result.base, more)
        /\ SubSeq(more, 1, result.base) = SubSeq(table, 1, result.base)
        /\ Stays(result.index, result.snapshot, more, next)
              => Stays(result.index, result.snapshot, table, at)
    BY <1>1, GrownKeeps
  <1>3. AtParity(result, more) <=> AtParity(result, table)
    BY <1>2 DEF AtParity
  <1>4. QED BY <1>2, <1>3 DEF Settled

-----------------------------------------------------------------------------
(* A calibration begins *)

\* The snapshot is a list of rows of the table, no longer than it.
LEMMA SnapshotIsTyped ==
    ASSUME stored \in Seq(StoredRow)
    PROVE  FetchRows \in Seq(StoredRow) /\ Len(FetchRows) \in 0..Len(stored)
  <1> DEFINE m == AtMost(Len(stored), MAX_ROWS)
             front == Truncate(stored, MAX_ROWS)
  <1>1. m \in 0..Len(stored) /\ Len(stored) \in Nat
    BY CalibrationAssumption DEF AtMost
  <1>2. front = SubSeq(stored, 1, m)
    BY DEF Truncate, AtMost
  <1> HIDE DEF m, front
  <1>3. front \in Seq(StoredRow) /\ Len(front) = m /\ DOMAIN front = 1..m
    BY <1>1, <1>2, FrontIs
  <1>4. \A i \in 1..m : front[i] \in StoredRow /\ front[i]["id"] \in Int
    <2>1. \A i \in 1..m : front[i] \in StoredRow
      BY <1>3
    <2>2. \A row \in StoredRow : row["id"] \in Int
      BY DEF StoredRow
    <2>3. QED BY <2>1, <2>2
  <1> DEFINE byId == <<"id">>
  <1>5. IsOrdered(front, byId)
    BY <1>1, <1>3, <1>4, FieldOrders
  <1>6. /\ FetchRows = [n \in 1..m |-> FetchRows[n]]
        /\ \A n \in 1..m : \E i \in 1..m : FetchRows[n] = front[i]
    <2>1. m \in Nat
      BY <1>1
    <2>2. FetchRows = SortBy(front, byId)
      BY DEF FetchRows, front
    <2> HIDE DEF byId
    <2>3. /\ SortBy(front, byId) = [n \in 1..m |-> SortBy(front, byId)[n]]
          /\ \A n \in 1..m : \E i \in 1..m : SortBy(front, byId)[n] = front[i]
      BY ONLY <1>3, <1>5, <2>1, SortTakes
    <2>4. QED BY ONLY <2>2, <2>3
  <1>7. FetchRows \in [1..m -> StoredRow]
    BY <1>4, <1>6
  <1>8. FetchRows \in Seq(StoredRow) /\ Len(FetchRows) = m
    <2>1. m \in Nat
      BY <1>1
    <2>2. QED BY <1>7, <2>1
  <1>9. QED BY <1>1, <1>8

\* The knobs of a candidate ask for the top_k that is calibrated.
LEMMA CandidateMeasures ==
    ASSUME NEW k \in 1..MaxTopK, NEW c \in Candidates,
           NEW snapshot \in Snapshots, NEW table \in Seq(StoredRow)
    PROVE  Measures(k, snapshot, Grid(k)[c], table)
  <1>1. k \in Nat \ {0}
    BY MaxTopKAssumption
  <1>2. Grid(k)[c].top_k = k
    BY <1>1, GridIsTyped
  <1>3. QED BY <1>1, <1>2 DEF Measures

\* No query yet: nothing is found and nothing is counted.
LEMMA BeginRuns ==
    ASSUME NEW table \in Seq(StoredRow), NEW at, NEW last \in Nat, Known(at, last),
           NEW k \in 1..MaxTopK, NEW snapshot \in Snapshots,
           Len(snapshot) \in 0..Len(table)
    PROVE  Running([top_k |-> k, snapshot |-> snapshot, candidate |-> 1,
                    sample |-> 1, overlaps |-> [i \in Candidates |-> 0],
                    index |-> at, base |-> Len(table)], table, at, last)
  <1> DEFINE none == [i \in Candidates |-> 0]
             run == [top_k |-> k, snapshot |-> snapshot, candidate |-> 1,
                     sample |-> 1, overlaps |-> none,
                     index |-> at, base |-> Len(table)]
  <1>1. Len(table) \in Nat /\ k \in Nat \ {0}
    BY MaxTopKAssumption
  <1>2. /\ run.top_k = k /\ run.snapshot = snapshot /\ run.candidate = 1
        /\ run.sample = 1 /\ run.index = at /\ run.base = Len(table)
        /\ \A c \in Candidates : run.overlaps[c] = 0
    OBVIOUS
  <1>3. run \in Runs
    <2>1. at \in Indexes /\ none \in [Candidates -> Nat]
      BY DEF Known
    <2> HIDE DEF none
    <2>2. QED BY <1>1, <2>1 DEF Runs
  <1> HIDE DEF run
  <1>4. SampleCount(snapshot) \in Nat \ {0} /\ 1 \in 1..SampleCount(snapshot)
    BY SamplesAreVectors
  <1>5. \A c \in Candidates : Done(run, c) = 0
    BY <1>2 DEF Done, Candidates
  <1>6. Expects(k, snapshot) \in Nat
    <2>1. Len(snapshot) \in Nat
      BY SamplesAreVectors
    <2>2. QED BY <1>1, <2>1 DEF Expects
  <1>7. \A c \in Candidates : FoundSoFar(run, table, c) = 0
    <2>1. ASSUME NEW c \in Candidates PROVE FoundSoFar(run, table, c) = 0
      <3>1. SubSeq(table, 1, Len(table)) \in Seq(StoredRow)
        BY <1>1, FrontIs
      <3>2. Measures(k, snapshot, Grid(k)[c], SubSeq(table, 1, Len(table)))
        BY <3>1, CandidateMeasures
      <3>3. Partial(k, snapshot, Grid(k)[c], SubSeq(table, 1, Len(table)), at)[0] = 0
        BY <3>2, PartialIs
      <3>4. QED BY <1>2, <1>5, <3>3 DEF FoundSoFar
    <2>2. QED BY <2>1
  <1>8. Window(run.snapshot, run.base, table)
    BY <1>1, <1>2 DEF Window
  <1>9. Known(run.index, last)
    BY <1>2
  <1>10. \A c \in Candidates :
            run.overlaps[c] <= Done(run, c) * Expects(run.top_k, run.snapshot)
    <2>1. \A e \in Nat : 0 <= 0 * e
      OBVIOUS
    <2>2. QED BY <1>2, <1>5, <1>6, <2>1
  <1>11. Favoured(run, table, at)
    <2>1. 1 \in Candidates /\ \A c \in 2..8 : c \in Candidates
      BY DEF Candidates
    <2>2. QED BY <1>2, <1>7, <2>1 DEF Favoured
  <1>12. Running(run, table, at, last)
    BY <1>2, <1>3, <1>4, <1>8, <1>9, <1>10, <1>11 DEF Running
  <1>13. QED BY <1>12 DEF run

-----------------------------------------------------------------------------
(* One query is scored *)

\* The calibration after a query that had `found` hits, on a table of this
\* length.
Scoring(run, found, length) ==
    LET last == run.sample = SampleCount(run.snapshot)
    IN  [run EXCEPT
            !.overlaps[run.candidate] = @ + found,
            !.base = IF run.candidate = 1 THEN length ELSE @,
            !.sample = IF last THEN 1 ELSE @ + 1,
            !.candidate = IF last THEN @ + 1 ELSE @]

\* It counts the hits for the candidate that was queried, and goes on to the
\* next sample or the next candidate.
LEMMA ScoringIs ==
    ASSUME NEW run \in Runs, run.candidate \in Candidates,
           run.sample \in 1..SampleCount(run.snapshot),
           NEW found \in Nat, NEW length \in Nat
    PROVE  LET next == Scoring(run, found, length)
           IN  /\ next \in Runs
               /\ next.top_k = run.top_k /\ next.snapshot = run.snapshot
               /\ next.index = run.index
               /\ next.base = IF run.candidate = 1 THEN length ELSE run.base
               /\ next.sample \in 1..SampleCount(next.snapshot)
               /\ \A c \in Candidates :
                     /\ next.overlaps[c] = IF c = run.candidate
                                           THEN run.overlaps[c] + found
                                           ELSE run.overlaps[c]
                     /\ Done(next, c) = IF c = run.candidate THEN run.sample
                                        ELSE Done(run, c)
               /\ Done(run, run.candidate) = run.sample - 1
  <1> DEFINE next == Scoring(run, found, length)
             N == SampleCount(run.snapshot)
             last == run.sample = N
             sums == [run.overlaps EXCEPT ![run.candidate] = @ + found]
  <1>1. /\ run.candidate \in 1..8 /\ run.overlaps \in [Candidates -> Nat]
        /\ run.top_k \in 1..MaxTopK /\ run.snapshot \in Snapshots
        /\ run.index \in Indexes /\ run.base \in Nat /\ run.sample \in Nat
    BY DEF Runs, Candidates
  <1>2. N \in Nat \ {0}
    BY <1>1, SamplesAreVectors
  <1>3. /\ sums \in [Candidates -> Nat]
        /\ \A c \in Candidates :
              sums[c] = IF c = run.candidate THEN run.overlaps[c] + found
                        ELSE run.overlaps[c]
    BY <1>1
  <1> DEFINE base == IF run.candidate = 1 THEN length ELSE run.base
             sample == IF last THEN 1 ELSE run.sample + 1
             candidate == IF last THEN run.candidate + 1 ELSE run.candidate
  <1>4. base \in Nat /\ sample \in Nat /\ sample \in 1..N /\ candidate \in 1..9
    BY <1>1, <1>2 DEF N
  <1>5. next = [run EXCEPT !.overlaps = sums, !.base = base, !.sample = sample,
                           !.candidate = candidate]
    BY DEF Scoring
  <1> HIDE DEF next, sums, N, base, sample, candidate
  <1>6. next \in Runs
    BY <1>3, <1>4, <1>5 DEF Runs
  <1>7. /\ next.top_k = run.top_k /\ next.snapshot = run.snapshot
        /\ next.index = run.index /\ next.base = base /\ next.overlaps = sums
        /\ next.candidate = candidate /\ next.sample = sample
    BY <1>5 DEF Runs
  <1>8. ASSUME NEW c \in Candidates
        PROVE  Done(next, c) = IF c = run.candidate THEN run.sample ELSE Done(run, c)
    <2>1. SampleCount(next.snapshot) = N /\ c \in 1..8
      BY <1>7 DEF N, Candidates
    <2>2. CASE last
      <3>1. /\ next.candidate = run.candidate + 1 /\ next.sample = 1
            /\ run.sample = N
        BY <1>7, <2>2 DEF candidate, sample
      <3>2. QED BY <1>1, <2>1, <3>1 DEF Done, N
    <2>3. CASE ~last
      <3>1. next.candidate = run.candidate /\ next.sample = run.sample + 1
        BY <1>7, <2>3 DEF candidate, sample
      <3>2. QED BY <1>1, <2>1, <3>1 DEF Done, N
    <2>4. QED BY <2>2, <2>3
  <1>9. Done(run, run.candidate) = run.sample - 1
    BY <1>1 DEF Done
  <1>10. next.sample \in 1..SampleCount(next.snapshot)
    BY <1>4, <1>7 DEF N
  <1>11. QED BY <1>3, <1>6, <1>7, <1>8, <1>9, <1>10 DEF next, base

\* What one more sample finds is added to what was found before.
LEMMA PartialSteps ==
    ASSUME NEW k, NEW snapshot, NEW knobs, NEW table, NEW idx,
           Measures(k, snapshot, knobs, table), NEW n \in 1..SampleCount(snapshot)
    PROVE  /\ Partial(k, snapshot, knobs, table, idx)[n]
                = Partial(k, snapshot, knobs, table, idx)[n - 1]
                    + SampleOverlap(k, snapshot, n, knobs, table, idx)
           /\ Partial(k, snapshot, knobs, table, idx)[n - 1] \in Nat
           /\ Partial(k, snapshot, knobs, table, idx)[n] \in Nat
           /\ SampleOverlap(k, snapshot, n, knobs, table, idx) \in Nat
  <1> DEFINE sums == Partial(k, snapshot, knobs, table, idx)
             N == SampleCount(snapshot)
  <1>1. /\ N \in Nat \ {0} /\ sums \in [0..N -> Nat]
        /\ sums[n] = sums[n - 1] + SampleOverlap(k, snapshot, n, knobs, table, idx)
    BY PartialIs
  <1>2. n \in 0..N /\ n - 1 \in 0..N
    BY <1>1
  <1>3. SampleOverlap(k, snapshot, n, knobs, table, idx) \in Nat
    BY SampleOverlapBounds DEF Measures
  <1> HIDE DEF sums, N
  <1>4. sums[n] \in Nat /\ sums[n - 1] \in Nat
    BY <1>1, <1>2
  <1>5. QED BY <1>1, <1>3, <1>4 DEF sums

\* On a longer table, with new ids only, a candidate finds less.
LEMMA PartialsShrink ==
    ASSUME NEW k, NEW snapshot, NEW knobs, NEW table, NEW idx,
           Measures(k, snapshot, knobs, table),
           NEW m \in Len(snapshot)..Len(table), NewRows(snapshot, table, Len(snapshot)),
           NEW n \in 1..SampleCount(snapshot)
    PROVE  /\ Measures(k, snapshot, knobs, SubSeq(table, 1, m))
           /\ SampleOverlap(k, snapshot, n, knobs, table, idx)
                <= SampleOverlap(k, snapshot, n, knobs, SubSeq(table, 1, m), idx)
           /\ Partial(k, snapshot, knobs, table, idx)[n - 1]
                <= Partial(k, snapshot, knobs, SubSeq(table, 1, m), idx)[n - 1]
  <1>1. Len(snapshot) \in Nat \ {0} /\ Len(table) \in Nat /\ table \in Seq(StoredRow)
    BY SamplesAreVectors DEF Measures
  <1>2. m \in 0..Len(table) /\ Len(snapshot) <= m
    BY <1>1
  <1>3. SubSeq(table, 1, m) \in Seq(StoredRow)
    BY <1>1, <1>2, FrontIs
  <1>4. Measures(k, snapshot, knobs, SubSeq(table, 1, m))
    BY <1>3 DEF Measures
  <1>5. NewRows(snapshot, table, m)
    <2>1. \A i \in (m + 1)..Len(table) : i \in (Len(snapshot) + 1)..Len(table)
      BY <1>1, <1>2
    <2>2. QED BY <2>1 DEF NewRows
  <1>6. \A l \in 1..SampleCount(snapshot) :
           SampleOverlap(k, snapshot, l, knobs, table, idx)
             <= SampleOverlap(k, snapshot, l, knobs, SubSeq(table, 1, m), idx)
    BY <1>2, <1>5, SamplesShrink
  <1>7. \A l \in 0..SampleCount(snapshot) :
           Partial(k, snapshot, knobs, table, idx)[l]
             <= Partial(k, snapshot, knobs, SubSeq(table, 1, m), idx)[l]
    BY <1>4, <1>6, PartialsCompare
  <1>8. n - 1 \in 0..SampleCount(snapshot)
    <2>1. SampleCount(snapshot) \in Nat
      BY SamplesAreVectors DEF Measures
    <2>2. QED BY <2>1
  <1>9. QED BY <1>4, <1>6, <1>7, <1>8

\* A calibration keeps its invariant when one of its queries is scored.
LEMMA ScoreRuns ==
    ASSUME NEW table \in Seq(StoredRow), NEW at, NEW last,
           NEW run, Running(run, table, at, last), run.candidate \in Candidates,
           NEW found,
           found = SampleOverlap(run.top_k, run.snapshot, run.sample,
                                 Grid(run.top_k)[run.candidate], table, at)
    PROVE  Running(Scoring(run, found, Len(table)), table, at, last)
  <1> DEFINE k == run.top_k
             snapshot == run.snapshot
             c == run.candidate
             s == run.sample
             e == Expects(k, snapshot)
             idx == run.index
             front == SubSeq(table, 1, run.base)
             next == Scoring(run, found, Len(table))
             P(d, t) == Partial(k, snapshot, Grid(k)[d], t, idx)
  <1>1. /\ run \in Runs /\ k \in 1..MaxTopK /\ k \in Nat \ {0}
        /\ snapshot \in Snapshots /\ c \in Candidates
        /\ s \in 1..SampleCount(snapshot) /\ s \in Nat
        /\ run.overlaps \in [Candidates -> Nat]
    BY MaxTopKAssumption DEF Running, Runs
  <1>2. /\ Len(table) \in Nat /\ Len(snapshot) \in Nat \ {0}
        /\ run.base \in Len(snapshot)..Len(table)
        /\ run.base \in 0..Len(table)
    BY <1>1, SamplesAreVectors DEF Running, Window
  <1>3. front \in Seq(StoredRow) /\ SubSeq(table, 1, Len(table)) = table
    <2>1. front \in Seq(StoredRow)
      BY <1>2, FrontIs
    <2>2. Len(table) \in 0..Len(table)
      BY <1>2
    <2>3. SubSeq(table, 1, Len(table)) = [i \in 1..Len(table) |-> table[i]]
      BY <2>2, FrontIs
    <2>4. table = [i \in 1..Len(table) |-> table[i]]
      OBVIOUS
    <2>5. QED BY <2>1, <2>3, <2>4
  <1>4. \A d \in Candidates : /\ Measures(k, snapshot, Grid(k)[d], table)
                              /\ Measures(k, snapshot, Grid(k)[d], front)
    BY <1>1, <1>3, CandidateMeasures
  <1>5. found \in Nat /\ e \in Nat /\ found <= e
    <2>1. Grid(k)[c].top_k \in Nat
      BY <1>1, <1>4 DEF Measures
    <2>2. QED BY <1>1, <2>1, SampleOverlapBounds
  <1>6. /\ next \in Runs
        /\ next.top_k = k /\ next.snapshot = snapshot /\ next.index = idx
        /\ next.base = IF c = 1 THEN Len(table) ELSE run.base
        /\ next.sample \in 1..SampleCount(next.snapshot)
        /\ \A d \in Candidates :
              /\ next.overlaps[d] = IF d = c THEN run.overlaps[d] + found
                                    ELSE run.overlaps[d]
              /\ Done(next, d) = IF d = c THEN s ELSE Done(run, d)
        /\ Done(run, c) = s - 1
    <2> DEFINE length == Len(table)
    <2>1. length \in Nat
      BY <1>2
    <2> HIDE DEF length
    <2>2. LET after == Scoring(run, found, length)
          IN  /\ after \in Runs
              /\ after.top_k = run.top_k /\ after.snapshot = run.snapshot
              /\ after.index = run.index
              /\ after.base = IF run.candidate = 1 THEN length ELSE run.base
              /\ after.sample \in 1..SampleCount(after.snapshot)
              /\ \A d \in Candidates :
                    /\ after.overlaps[d] = IF d = run.candidate
                                           THEN run.overlaps[d] + found
                                           ELSE run.overlaps[d]
                    /\ Done(after, d) = IF d = run.candidate THEN run.sample
                                        ELSE Done(run, d)
              /\ Done(run, run.candidate) = run.sample - 1
      <3>1. /\ run \in Runs /\ run.candidate \in Candidates
            /\ run.sample \in 1..SampleCount(run.snapshot)
        BY <1>1
      <3>2. found \in Nat
        BY <1>5
      <3>3. QED BY ONLY <2>1, <3>1, <3>2, ScoringIs
    <2>3. QED BY <2>2 DEF length
  <1> HIDE DEF next
  <1>7. Window(next.snapshot, next.base, table)
    BY <1>1, <1>2, <1>6 DEF Window
  <1>8. Known(next.index, last)
    BY <1>6 DEF Running
  <1>9. \A d \in Candidates : run.overlaps[d] <= Done(run, d) * e
    BY DEF Running
  <1>10. ASSUME NEW d \in Candidates
         PROVE  next.overlaps[d] <= Done(next, d) * e
    <2>1. CASE d = c
      <3>1. next.overlaps[d] = run.overlaps[c] + found /\ Done(next, d) = s
        BY <1>6, <2>1
      <3>2. run.overlaps[c] <= (s - 1) * e /\ run.overlaps[c] \in Nat
        BY <1>1, <1>6, <1>9
      <3> HIDE DEF s, e, c
      <3>3. (s - 1) * e = s * e - e /\ s * e \in Nat
        <4>1. \A x, y \in Nat : (x - 1) * y = x * y - y /\ x * y \in Nat
          OBVIOUS
        <4>2. QED BY <1>1, <1>5, <4>1
      <3>4. QED BY <1>5, <3>1, <3>2, <3>3
    <2>2. CASE d # c
      BY <1>6, <1>9, <2>2
    <2>3. QED BY <2>1, <2>2
  <1>11. ASSUME Stays(idx, snapshot, table, at)
         PROVE  /\ FoundSoFar(next, table, 1) <= next.overlaps[1]
                /\ \A d \in 2..8 : next.overlaps[d] <= FoundSoFar(next, table, d)
    <2>1. at = idx /\ NewRows(snapshot, table, Len(snapshot))
      BY <1>11 DEF Stays
    <2>2. /\ P(1, front)[Done(run, 1)] <= run.overlaps[1]
          /\ \A d \in 2..8 : run.overlaps[d] <= P(d, front)[Done(run, d)]
      BY <1>11 DEF Running, Favoured, FoundSoFar
    <2>3. 1 \in Candidates /\ \A d \in 2..8 : d \in Candidates /\ d # 1
      BY DEF Candidates
    <2>4. found = SampleOverlap(k, snapshot, s, Grid(k)[c], table, idx)
      BY <2>1
    <2>5. CASE c = 1
      <3>1. \A d : FoundSoFar(next, table, d) = P(d, table)[Done(next, d)]
        BY <1>3, <1>6, <2>5 DEF FoundSoFar
      <3>2. Done(next, 1) = s /\ next.overlaps[1] = run.overlaps[1] + found
        BY <1>6, <2>3, <2>5
      <3>3. /\ P(1, table)[s] = P(1, table)[s - 1] + found
            /\ P(1, table)[s - 1] \in Nat
        <4>1. Measures(k, snapshot, Grid(k)[1], table)
          BY <1>4, <2>3
        <4>2. /\ P(1, table)[s] = P(1, table)[s - 1]
                    + SampleOverlap(k, snapshot, s, Grid(k)[1], table, idx)
              /\ P(1, table)[s - 1] \in Nat
          BY ONLY <1>1, <4>1, PartialSteps
        <4>3. QED BY <2>4, <2>5, <4>2
      <3>4. P(1, table)[s - 1] <= P(1, front)[s - 1]
        BY <1>1, <1>2, <1>4, <2>1, <2>3, PartialsShrink
      <3>5. P(1, front)[s - 1] \in Nat
        BY <1>1, <1>4, <2>3, PartialSteps
      <3>6. P(1, front)[s - 1] <= run.overlaps[1] /\ run.overlaps[1] \in Nat
        BY <1>1, <1>6, <2>2, <2>3, <2>5
      <3>7. FoundSoFar(next, table, 1) <= next.overlaps[1]
        <4>1. FoundSoFar(next, table, 1) = P(1, table)[s - 1] + found
          BY <3>1, <3>2, <3>3
        <4> HIDE DEF P, s
        <4>2. QED BY <1>5, <3>2, <3>3, <3>4, <3>5, <3>6, <4>1
      <3>8. ASSUME NEW d \in 2..8
            PROVE  next.overlaps[d] <= FoundSoFar(next, table, d)
        <4>1. Done(next, d) = Done(run, d) /\ Done(run, d) = 0
          <5>1. d \in Candidates /\ d # c
            BY <2>3, <2>5
          <5>2. Done(next, d) = Done(run, d)
            BY <1>6, <5>1
          <5>3. Done(run, d) = 0
            BY <2>5 DEF Done
          <5>4. QED BY <5>2, <5>3
        <4>2. next.overlaps[d] = run.overlaps[d]
          BY <1>6, <2>3, <2>5
        <4>3. run.overlaps[d] <= 0 * e
          BY <1>9, <2>3, <4>1
        <4>4. 0 * e = 0
          BY <1>5
        <4>5. P(d, table)[0] = 0
          BY <1>4, <2>3, PartialIs
        <4>6. FoundSoFar(next, table, d) = 0
          BY <3>1, <4>1, <4>5
        <4>7. QED BY <4>2, <4>3, <4>4, <4>6
      <3>9. QED BY <3>7, <3>8
    <2>6. CASE c # 1
      <3>1. \A d : FoundSoFar(next, table, d) = P(d, front)[Done(next, d)]
        BY <1>6, <2>6 DEF FoundSoFar
      <3>2. FoundSoFar(next, table, 1) <= next.overlaps[1]
        BY <1>6, <2>2, <2>3, <2>6, <3>1
      <3>3. ASSUME NEW d \in 2..8
            PROVE  next.overlaps[d] <= FoundSoFar(next, table, d)
        <4>1. CASE d # c
          BY <1>6, <2>2, <2>3, <3>1, <4>1
        <4>2. CASE d = c
          <5>1. Done(next, d) = s /\ next.overlaps[d] = run.overlaps[d] + found
            BY <1>6, <2>3, <4>2
          <5>2. run.overlaps[d] <= P(d, front)[s - 1] /\ run.overlaps[d] \in Nat
            BY <1>1, <1>6, <2>2, <2>3, <4>2
          <5> DEFINE o == SampleOverlap(k, snapshot, s, Grid(k)[d], front, idx)
          <5>3. /\ P(d, front)[s] = P(d, front)[s - 1] + o
                /\ P(d, front)[s - 1] \in Nat /\ o \in Nat
            <6>1. Measures(k, snapshot, Grid(k)[d], front)
              BY <1>4, <2>3
            <6>2. QED BY ONLY <1>1, <6>1, PartialSteps
          <5>4. found <= o
            BY <1>1, <1>2, <1>4, <2>1, <2>3, <2>4, <4>2, PartialsShrink
          <5>5. FoundSoFar(next, table, d) = P(d, front)[s - 1] + o
            BY <3>1, <5>1, <5>3
          <5> HIDE DEF P, o, s, front
          <5>6. QED BY <1>5, <5>1, <5>2, <5>3, <5>4, <5>5
        <4>3. QED BY <4>1, <4>2
      <3>4. QED BY <3>2, <3>3
    <2>7. QED BY <2>5, <2>6
  <1>12. Favoured(next, table, at)
    BY <1>6, <1>11 DEF Favoured
  <1>13. \A d \in Candidates :
            next.overlaps[d] <= Done(next, d) * Expects(next.top_k, next.snapshot)
    BY <1>6, <1>10
  <1>14. Running(next, table, at, last)
    BY <1>6, <1>7, <1>8, <1>12, <1>13 DEF Running
  <1>15. QED BY <1>14 DEF next

-----------------------------------------------------------------------------
(* A calibration chooses *)

\* A candidate that finds more, or a default that finds less, meets parity too.
LEMMA ParityGrows ==
    ASSUME NEW found \in Nat, NEW naive \in Nat, NEW out_of \in Nat,
           MeetsParity(found, naive, out_of),
           NEW more \in Nat, found <= more, NEW less \in Nat, less <= naive
    PROVE  MeetsParity(more, less, out_of)
  <1>1. \A d, a, b \in Nat : a <= b => d * a <= d * b
    OBVIOUS
  <1>2. \A d, a \in Nat : d * a \in Nat
    OBVIOUS
  <1>3. /\ EpsilonDen * found <= EpsilonDen * more
        /\ EpsilonDen * less <= EpsilonDen * naive
    BY <1>1, EpsilonAssumption
  <1>4. /\ EpsilonDen * found \in Nat /\ EpsilonDen * more \in Nat
        /\ EpsilonDen * less \in Nat /\ EpsilonDen * naive \in Nat
        /\ EpsilonNum * out_of \in Nat
    BY <1>2, EpsilonAssumption
  <1>5. EpsilonDen * found + EpsilonNum * out_of >= EpsilonDen * naive
    BY DEF MeetsParity
  <1>6. EpsilonDen * more + EpsilonNum * out_of >= EpsilonDen * less
    BY <1>3, <1>4, <1>5
  <1>7. QED BY <1>6 DEF MeetsParity

\* The default meets its own parity.
LEMMA OwnParity ==
    ASSUME NEW found \in Nat, NEW out_of \in Nat
    PROVE  MeetsParity(found, found, out_of)
  <1>1. \A d, a \in Nat : d * a \in Nat
    OBVIOUS
  <1>2. EpsilonDen * found \in Nat /\ EpsilonNum * out_of \in Nat
    BY <1>1, EpsilonAssumption
  <1>3. QED BY <1>2 DEF MeetsParity

\* How many answers a calibration expects.
LEMMA OutOfIs ==
    ASSUME NEW k \in Nat \ {0}, NEW snapshot \in Snapshots
    PROVE  /\ OutOf(k, snapshot) \in Nat /\ Expects(k, snapshot) \in Nat
           /\ SampleCount(snapshot) \in Nat \ {0}
  <1>1. SampleCount(snapshot) \in Nat \ {0} /\ Len(snapshot) \in Nat
    BY SamplesAreVectors
  <1>2. Expects(k, snapshot) \in Nat
    BY <1>1 DEF Expects
  <1>3. \A a, b \in Nat : a * b \in Nat
    OBVIOUS
  <1>4. QED BY <1>1, <1>2, <1>3 DEF OutOf

\* What a calibration chooses is settled.
LEMMA ChooseSettles ==
    ASSUME NEW table \in Seq(StoredRow), NEW at, NEW last,
           NEW run, Running(run, table, at, last), run.candidate \notin Candidates,
           NEW result,
           result = [knobs |-> Select(run.top_k, run.overlaps,
                                      OutOf(run.top_k, run.snapshot)),
                     snapshot |-> run.snapshot, index |-> run.index,
                     base |-> run.base]
    PROVE  Settled(result, table, at, last)
  <1> DEFINE k == run.top_k
             snapshot == run.snapshot
             idx == run.index
             N == SampleCount(snapshot)
             out == OutOf(k, snapshot)
             front == SubSeq(table, 1, run.base)
             Found(knobs) == TotalOverlap(k, snapshot, knobs, front, idx)
             hits == run.overlaps
  <1>1. /\ run \in Runs /\ k \in 1..MaxTopK /\ k \in Nat \ {0}
        /\ snapshot \in Snapshots /\ run.candidate = 9
        /\ hits \in [Candidates -> Nat]
    <2>1. run \in Runs
      BY DEF Running
    <2>2. /\ k \in 1..MaxTopK /\ snapshot \in Snapshots /\ run.candidate \in 1..9
          /\ hits \in [Candidates -> Nat]
      BY <2>1 DEF Runs
    <2>3. run.candidate = 9
      BY <2>2 DEF Candidates
    <2>4. k \in Nat \ {0}
      BY <2>2, MaxTopKAssumption
    <2>5. QED BY <2>1, <2>2, <2>3, <2>4
  <1>2. out \in Nat /\ N \in Nat \ {0}
    BY <1>1, OutOfIs
  <1>3. PICK i \in Candidates :
           /\ Select(k, hits, out) = Grid(k)[i]
           /\ MeetsParity(hits[i], hits[1], out)
           /\ Cost(Select(k, hits, out)) <= Cost(Naive(k))
    BY <1>1, <1>2, SelectionIsCheapestAtParity
  <1>4. /\ result.knobs = Grid(k)[i] /\ result.knobs.top_k = k
        /\ result.snapshot = snapshot /\ result.index = idx
        /\ result.base = run.base
    <2>1. Grid(k)[i].top_k = k
      BY <1>1, GridIsTyped
    <2>2. QED BY <1>3, <2>1
  <1>5. Cost(result.knobs) <= Cost(Naive(k))
    BY <1>3, <1>4
  <1>6. front \in Seq(StoredRow)
    <2>1. Len(table) \in Nat /\ Len(snapshot) \in Nat \ {0}
      BY <1>1, SamplesAreVectors
    <2>2. run.base \in 0..Len(table)
      BY <2>1 DEF Running, Window
    <2>3. QED BY <2>2, FrontIs
  <1>7. ASSUME NEW d \in Candidates
        PROVE  Found(Grid(k)[d]) \in Nat /\ FoundSoFar(run, table, d) = Found(Grid(k)[d])
    <2>1. Measures(k, snapshot, Grid(k)[d], front)
      BY <1>1, <1>6, CandidateMeasures
    <2> DEFINE sums == Partial(k, snapshot, Grid(k)[d], front, idx)
    <2>2. sums \in [0..N -> Nat] /\ Found(Grid(k)[d]) = sums[N]
      BY <2>1, PartialIs
    <2>3. Done(run, d) = N
      <3>1. d < run.candidate
        BY <1>1 DEF Candidates
      <3>2. QED BY <3>1 DEF Done
    <2>4. FoundSoFar(run, table, d) = sums[N]
      BY <2>3 DEF FoundSoFar
    <2> HIDE DEF sums, N, Found
    <2>5. sums[N] \in Nat
      BY <1>2, <2>2
    <2>6. QED BY <2>2, <2>4, <2>5
  <1>8. ASSUME Stays(idx, snapshot, table, at)
        PROVE  MeetsParity(Found(Grid(k)[i]), Found(Naive(k)), out)
    <2>1. /\ FoundSoFar(run, table, 1) <= hits[1]
          /\ \A d \in 2..8 : hits[d] <= FoundSoFar(run, table, d)
      BY <1>8 DEF Running, Favoured
    <2>2. Naive(k) = Grid(k)[1] /\ 1 \in Candidates
      <3>1. k \in Nat \ {0} /\ 1 \in Candidates
        BY <1>1 DEF Candidates
      <3> HIDE DEF k
      <3>2. QED BY ONLY <3>1, NaiveIsFirst
    <2>3. hits[1] \in Nat /\ hits[i] \in Nat
      BY <1>1, <2>2
    <2>4. Found(Grid(k)[1]) \in Nat /\ Found(Grid(k)[1]) <= hits[1]
      BY <1>7, <2>1, <2>2
    <2>5. CASE i = 1
      BY <1>2, <2>2, <2>4, <2>5, OwnParity
    <2>6. CASE i # 1
      <3>1. i \in 2..8
        BY <2>6 DEF Candidates
      <3>2. Found(Grid(k)[i]) \in Nat /\ hits[i] <= Found(Grid(k)[i])
        BY <1>7, <2>1, <3>1
      <3> HIDE DEF Found, hits, out
      <3>3. MeetsParity(Found(Grid(k)[i]), Found(Grid(k)[1]), out)
        BY <1>2, <1>3, <2>3, <2>4, <3>2, ParityGrows
      <3>4. QED BY <2>2, <3>3
    <2>7. QED BY <2>5, <2>6
  <1>9. Stays(result.index, result.snapshot, table, at) => AtParity(result, table)
    BY <1>4, <1>8 DEF AtParity
  <1>10. /\ Window(result.snapshot, result.base, table)
         /\ Known(result.index, last)
    BY <1>4 DEF Running
  <1>11. QED BY <1>1, <1>4, <1>5, <1>9, <1>10 DEF Settled

-----------------------------------------------------------------------------
(* Every step *)

LEMMA CalibrationStarts == CalibrationInit => CalInvariant
  <1> SUFFICES ASSUME CalibrationInit PROVE CalInvariant
    OBVIOUS
  <1>1. /\ stored = <<>> /\ ann = Nothing /\ writes = 0 /\ builds = 0
        /\ cal = Nothing /\ chosen = Nothing
    BY DEF CalibrationInit
  <1>2. 0 \in 0..MaxWrites /\ 0 \in 0..MaxBuilds
    BY CalibrationAssumption
  <1>3. stored \in Seq(StoredRow)
    BY <1>1
  <1>4. Known(ann, builds)
    BY <1>1 DEF Known, Indexes
  <1>5. QED BY <1>1, <1>2, <1>3, <1>4 DEF CalInvariant

\* What happens to the table while a calibration runs leaves it and the last
\* result as they are.
LEMMA TableStepsKeep ==
    ASSUME CalInvariant, Grown(stored, ann, builds, stored', ann', builds'),
           writes' \in 0..MaxWrites, builds' \in 0..MaxBuilds,
           Known(ann', builds'), ann' # Nothing => ann'.covers \in 1..Len(stored'),
           UNCHANGED <<cal, chosen>>
    PROVE  CalInvariant'
  <1>1. stored' \in Seq(StoredRow)
    BY DEF Grown
  <1>2. cal' = cal /\ chosen' = chosen
    OBVIOUS
  <1>3. ASSUME cal # Nothing PROVE Running(cal, stored', ann', builds')
    <2>1. Running(cal, stored, ann, builds)
      BY <1>3 DEF CalInvariant
    <2>2. QED BY <2>1, RunningGrows
  <1>4. ASSUME chosen \notin {Nothing, Refused}
        PROVE  Settled(chosen, stored', ann', builds')
    <2>1. Settled(chosen, stored, ann, builds)
      BY <1>4 DEF CalInvariant
    <2>2. QED BY <2>1, SettledGrows
  <1>5. QED BY <1>1, <1>2, <1>3, <1>4 DEF CalInvariant

LEMMA CalibrationSteps ==
    CalInvariant /\ [CalibrationNext]_calibrationVars => CalInvariant'
  <1> SUFFICES ASSUME CalInvariant, [CalibrationNext]_calibrationVars
               PROVE  CalInvariant'
    OBVIOUS
  <1>1. /\ stored \in Seq(StoredRow) /\ Len(stored) \in Nat
        /\ writes \in 0..MaxWrites /\ builds \in 0..MaxBuilds
        /\ writes \in Nat /\ builds \in Nat
        /\ MaxWrites \in Nat /\ MaxBuilds \in Nat
        /\ Known(ann, builds)
        /\ ann # Nothing => ann.covers \in 1..Len(stored)
    BY CalibrationAssumption DEF CalInvariant
  <1>2. ASSUME NEW batch \in Batches, AppendRows(batch) PROVE CalInvariant'
    <2>1. /\ stored' = stored \o batch /\ writes' = writes + 1 /\ writes < MaxWrites
          /\ ann' = ann /\ builds' = builds /\ UNCHANGED <<cal, chosen>>
      BY <1>2 DEF AppendRows
    <2>2. batch \in Seq(StoredRow)
      BY CalibrationAssumption DEF StoredRow
    <2>3. /\ stored' \in Seq(StoredRow) /\ Len(stored') \in Nat
          /\ Len(stored) <= Len(stored')
          /\ \A i \in DOMAIN stored : stored'[i] = stored[i]
      BY <1>1, <2>1, <2>2
    <2>4. Grown(stored, ann, builds, stored', ann', builds')
      BY <1>1, <2>1, <2>3 DEF Grown
    <2>5. writes' \in 0..MaxWrites
      BY <1>1, <2>1
    <2>6. ann' # Nothing => ann'.covers \in 1..Len(stored')
      BY <1>1, <2>1, <2>3
    <2>7. QED BY <1>1, <2>1, <2>4, <2>5, <2>6, TableStepsKeep
  <1>3. ASSUME NEW params \in Params, Build(params) PROVE CalInvariant'
    <2>1. /\ builds < MaxBuilds /\ builds' = builds + 1
          /\ stored' = stored /\ writes' = writes /\ UNCHANGED <<cal, chosen>>
      BY <1>3 DEF Build
    <2>2. PICK n \in 1..Len(stored) : ann' = [build |-> builds', covers |-> n]
      BY <1>3 DEF Build
    <2>3. builds' \in 0..MaxBuilds /\ builds' \in 1..builds' /\ builds' \in Nat
      BY <1>1, <2>1
    <2>4. /\ ann'.build = builds' /\ ann'.covers = n
          /\ ann' \in [build : Nat, covers : Nat]
      BY <1>1, <2>2, <2>3
    <2>5. Known(ann', builds')
      BY <2>3, <2>4 DEF Known, Indexes
    <2>6. ann'.build > builds
      BY <1>1, <2>1, <2>4
    <2>7. Grown(stored, ann, builds, stored', ann', builds')
      BY <1>1, <2>1, <2>3, <2>6 DEF Grown
    <2>8. ann' # Nothing => ann'.covers \in 1..Len(stored')
      BY <2>1, <2>4
    <2>9. QED BY <1>1, <2>1, <2>3, <2>5, <2>7, <2>8, TableStepsKeep
  <1>4. ASSUME DropIndexes PROVE CalInvariant'
    <2>1. /\ builds < MaxBuilds /\ builds' = builds + 1 /\ ann' = Nothing
          /\ stored' = stored /\ writes' = writes /\ UNCHANGED <<cal, chosen>>
      BY <1>4 DEF DropIndexes
    <2>2. builds' \in 0..MaxBuilds /\ builds' \in Nat /\ builds <= builds'
      BY <1>1, <2>1
    <2>3. Known(ann', builds')
      BY <2>1 DEF Known, Indexes
    <2>4. Grown(stored, ann, builds, stored', ann', builds')
      BY <1>1, <2>1, <2>2 DEF Grown
    <2>5. QED BY <1>1, <2>1, <2>2, <2>3, <2>4, TableStepsKeep
  <1>5. ASSUME NEW k \in TopKs, Begin(k) PROVE CalInvariant'
    <2>1. UNCHANGED <<stored, ann, writes, builds>> /\ cal = Nothing
      BY <1>5 DEF Begin
    <2>2. CASE k \notin 1..MaxTopK \/ FetchRows = <<>>
      <3>1. chosen' = Refused /\ cal' = cal
        BY <1>5, <2>2 DEF Begin
      <3>2. QED BY <1>1, <2>1, <3>1 DEF CalInvariant
    <2>3. CASE ~(k \notin 1..MaxTopK \/ FetchRows = <<>>)
      <3>1. /\ chosen' = Nothing
            /\ cal' = [top_k |-> k, snapshot |-> FetchRows, candidate |-> 1,
                       sample |-> 1, overlaps |-> [i \in Candidates |-> 0],
                       index |-> ann, base |-> Len(stored)]
        BY <1>5, <2>3 DEF Begin
      <3>2. FetchRows \in Snapshots /\ Len(FetchRows) \in 0..Len(stored)
        BY <1>1, <2>3, SnapshotIsTyped DEF Snapshots
      <3>3. k \in 1..MaxTopK
        BY <2>3
      <3>4. Running(cal', stored, ann, builds)
        BY <1>1, <3>1, <3>2, <3>3, BeginRuns
      <3>5. QED BY <1>1, <2>1, <3>1, <3>4 DEF CalInvariant
    <2>4. QED BY <2>2, <2>3
  <1>6. ASSUME ScoreQuery PROVE CalInvariant'
    <2>1. /\ cal # Nothing /\ cal.candidate \in Candidates
          /\ UNCHANGED <<stored, ann, writes, builds, chosen>>
      BY <1>6 DEF ScoreQuery
    <2> DEFINE found == SampleOverlap(cal.top_k, cal.snapshot, cal.sample,
                                      Grid(cal.top_k)[cal.candidate], stored, ann)
    <2>2. cal' = Scoring(cal, found, Len(stored))
      BY <1>6 DEF ScoreQuery, Scoring, Current
    <2> HIDE DEF found
    <2>3. Running(cal, stored, ann, builds)
      BY <2>1 DEF CalInvariant
    <2>4. Running(cal', stored, ann, builds)
      BY <1>1, <2>1, <2>2, <2>3, ScoreRuns DEF found
    <2>5. QED BY <1>1, <2>1, <2>4 DEF CalInvariant
  <1>7. ASSUME QueryFails PROVE CalInvariant'
    <2>1. /\ cal' = Nothing /\ chosen' = Refused
          /\ UNCHANGED <<stored, ann, writes, builds>>
      BY <1>7 DEF QueryFails
    <2>2. QED BY <1>1, <2>1 DEF CalInvariant
  <1>8. ASSUME Choose PROVE CalInvariant'
    <2>1. /\ cal # Nothing /\ cal.candidate \notin Candidates /\ cal' = Nothing
          /\ UNCHANGED <<stored, ann, writes, builds>>
          /\ chosen' = [knobs |-> Select(cal.top_k, cal.overlaps,
                                         OutOf(cal.top_k, cal.snapshot)),
                        snapshot |-> cal.snapshot, index |-> cal.index,
                        base |-> cal.base]
      BY <1>8 DEF Choose
    <2>2. Running(cal, stored, ann, builds)
      BY <2>1 DEF CalInvariant
    <2>3. Settled(chosen', stored, ann, builds)
      BY <1>1, <2>1, <2>2, ChooseSettles
    <2>4. QED BY <1>1, <2>1, <2>3 DEF CalInvariant
  <1>9. CASE UNCHANGED calibrationVars
    BY <1>9 DEF CalInvariant, calibrationVars
  <1>10. QED
    BY <1>2, <1>3, <1>4, <1>5, <1>6, <1>7, <1>8, <1>9 DEF CalibrationNext

\* While rows are appended and indexes are built and removed, a calibration
\* counts its default on no more rows than the other candidates.
THEOREM CalibrationInvariant == CalibrationSpec => []CalInvariant
  <1>1. CalibrationInit => CalInvariant
    BY CalibrationStarts
  <1>2. CalInvariant /\ [CalibrationNext]_calibrationVars => CalInvariant'
    BY CalibrationSteps
  <1>3. QED BY <1>1, <1>2, PTL DEF CalibrationSpec

\* A calibration is at a sample of a candidate, no candidate has more hits than
\* answers were expected, and none of its queries is refused for its knobs.
THEOREM CalibrationTypes == CalibrationSpec => []CalibrationTypeOK
  <1>1. ASSUME CalInvariant PROVE CalibrationTypeOK
    <2>1. ASSUME cal # Nothing
          PROVE  /\ cal.top_k \in 1..MaxTopK
                 /\ cal.snapshot # <<>>
                 /\ cal.candidate \in 1..9
                 /\ cal.sample \in 1..SampleCount(cal.snapshot)
                 /\ \A i \in Candidates :
                       /\ cal.overlaps[i] <= OutOf(cal.top_k, cal.snapshot)
                       /\ KnobsAccepted(Grid(cal.top_k)[i])
      <3> DEFINE N == SampleCount(cal.snapshot)
                 e == Expects(cal.top_k, cal.snapshot)
      <3>1. /\ cal \in Runs /\ cal.sample \in 1..N
            /\ \A i \in Candidates : cal.overlaps[i] <= Done(cal, i) * e
        BY <1>1, <2>1 DEF CalInvariant, Running
      <3>2. /\ cal.top_k \in 1..MaxTopK /\ cal.top_k \in Nat \ {0}
            /\ cal.snapshot \in Snapshots /\ cal.candidate \in 1..9
            /\ cal.overlaps \in [Candidates -> Nat]
        BY <3>1, MaxTopKAssumption DEF Runs
      <3>3. OutOf(cal.top_k, cal.snapshot) = N * e /\ e \in Nat /\ N \in Nat
        BY <3>2, OutOfIs DEF OutOf
      <3>4. ASSUME NEW i \in Candidates
            PROVE  cal.overlaps[i] <= OutOf(cal.top_k, cal.snapshot)
        <4>1. Done(cal, i) \in Nat /\ Done(cal, i) <= N
          <5>1. cal.sample - 1 \in Nat /\ cal.sample - 1 <= N
            BY <3>1, <3>3
          <5> HIDE DEF N
          <5>2. QED BY <3>3, <5>1 DEF Done, N
        <4>2. \A a, b, d \in Nat : a <= b => a * d <= b * d /\ a * d \in Nat /\ b * d \in Nat
          OBVIOUS
        <4> HIDE DEF N, e
        <4>3. /\ Done(cal, i) * e <= N * e
              /\ Done(cal, i) * e \in Nat /\ N * e \in Nat
          BY <3>3, <4>1, <4>2
        <4>4. cal.overlaps[i] <= Done(cal, i) * e /\ cal.overlaps[i] \in Nat
          BY <3>1, <3>2
        <4>5. QED BY <3>3, <4>3, <4>4
      <3>5. \A i \in Candidates : KnobsAccepted(Grid(cal.top_k)[i])
        BY <3>2, CandidatesAreAccepted
      <3>6. QED BY <3>1, <3>2, <3>4, <3>5 DEF Snapshots
    <2>2. ann # Nothing => ann.build \in 1..builds /\ ann.covers \in 1..Len(stored)
      BY <1>1 DEF CalInvariant, Known
    <2>3. QED BY <1>1, <2>1, <2>2 DEF CalInvariant, CalibrationTypeOK
  <1>2. QED BY <1>1, CalibrationInvariant, PTL

\* On the table as it was when the default had been scored, what calibrate chose
\* costs no more than the default and finds as much, within epsilon, although
\* rows were appended between the queries; for every table, index and grid.
THEOREM SelectionKeepsParity == CalibrationSpec => []SelectedMeetsParity
  <1>1. ASSUME CalInvariant PROVE SelectedMeetsParity
    <2> SUFFICES ASSUME chosen \notin {Nothing, Refused}
                 PROVE  /\ Cost(chosen.knobs) <= Cost(Naive(chosen.knobs.top_k))
                        /\ ann = chosen.index /\ OnlyNewIds(chosen.snapshot)
                              => AtParity(chosen, stored)
      BY DEF SelectedMeetsParity, AtParity
    <2> DEFINE k == chosen.knobs.top_k
               snapshot == chosen.snapshot
               front == SubSeq(stored, 1, chosen.base)
               out == OutOf(k, snapshot)
               Found(knobs) == TotalOverlap(k, snapshot, knobs, front, chosen.index)
    <2>1. Settled(chosen, stored, ann, builds) /\ stored \in Seq(StoredRow)
      BY <1>1 DEF CalInvariant
    <2>2. /\ k \in 1..MaxTopK /\ k \in Nat \ {0} /\ snapshot \in Snapshots
          /\ Cost(chosen.knobs) <= Cost(Naive(k))
          /\ chosen.base \in Len(snapshot)..Len(stored)
          /\ Stays(chosen.index, snapshot, stored, ann) => AtParity(chosen, stored)
      BY <2>1, MaxTopKAssumption DEF Settled, Window
    <2>3. ASSUME ann = chosen.index, OnlyNewIds(snapshot)
          PROVE  AtParity(chosen, stored)
      <3>1. CASE chosen.index # Nothing
        <4>1. NewRows(snapshot, stored, Len(snapshot))
          BY <2>3 DEF OnlyNewIds, NewRows
        <4>2. QED BY <2>2, <2>3, <3>1, <4>1 DEF Stays
      <3>2. CASE chosen.index = Nothing
        <4>1. PICK c \in Candidates : chosen.knobs = Grid(k)[c]
          BY <2>1 DEF Settled
        <4>2. Naive(k) = Grid(k)[1] /\ 1 \in Candidates
          BY <2>2, NaiveIsFirst DEF Candidates
        <4>3. front \in Seq(StoredRow)
          <5>1. Len(stored) \in Nat /\ Len(snapshot) \in Nat
            BY <2>1, <2>2, SamplesAreVectors
          <5>2. chosen.base \in 0..Len(stored)
            BY <2>2, <5>1
          <5>3. QED BY <2>1, <5>2, FrontIs
        <4>4. /\ Measures(k, snapshot, Grid(k)[c], front)
              /\ Measures(k, snapshot, Grid(k)[1], front)
              /\ Grid(k)[c].top_k = Grid(k)[1].top_k
          <5>1. /\ Measures(k, snapshot, Grid(k)[c], front)
                /\ Measures(k, snapshot, Grid(k)[1], front)
            BY <2>2, <4>2, <4>3, CandidateMeasures
          <5> HIDE DEF k
          <5>2. Grid(k)[c].top_k = k /\ Grid(k)[1].top_k = k
            BY <2>2, <4>2, GridIsTyped
          <5>3. QED BY <5>1, <5>2 DEF k
        <4>5. Found(chosen.knobs) = Found(Naive(k)) /\ Found(Naive(k)) \in Nat
          BY <3>2, <4>1, <4>2, <4>4, AllFindTheSame
        <4>6. out \in Nat
          BY <2>2, OutOfIs
        <4> HIDE DEF Found, out
        <4>7. MeetsParity(Found(chosen.knobs), Found(Naive(k)), out)
          BY <4>5, <4>6, OwnParity
        <4>8. QED BY <4>7 DEF AtParity, Found, out
      <3>3. QED BY <3>1, <3>2
    <2>4. QED BY <2>2, <2>3
  <1>2. QED BY <1>1, CalibrationInvariant, PTL
=============================================================================
