----------------------------- MODULE Calibration ----------------------------
(***************************************************************************)
(* Knob calibration of the index substrate (index_substrate.rs): a window  *)
(* of the stored rows is copied once, a sample of it is queried with each  *)
(* candidate of a fixed grid, one query after the other, and the cheapest  *)
(* candidate that matches the naive default's recall is chosen.            *)
(*                                                                         *)
(* No lock is held: rows are appended, the index is rebuilt or removed     *)
(* while the queries run.  LanceDB is external: a query ranks the rows the *)
(* index does not cover and those of its rows the knobs reach.  Recalls    *)
(* are counts: every recall of a calibration has the same denominator.     *)
(***************************************************************************)
EXTENDS CalibrationGrid, Ranking, Listing

CONSTANTS
    Dimension,
    Distance(_, _),        \* Distance(vector, vector)
    Reaches(_, _, _, _),   \* does build g reach a row with these knobs?
    Vectors,               \* the vectors a caller may append
    Batches,               \* sequences of [id, vector] a caller may append
    Params,                \* build parameters a caller may ask for
    TopKs,                 \* top_k a caller may calibrate for
    SAMPLE_QUERIES,        \* 8
    MAX_ROWS,              \* 250000
    Nothing,               \* no index; no calibration running; none finished
    Refused,               \* an Err
    MaxWrites, MaxBuilds   \* bounds: appends, builds and removals

ASSUME CalibrationAssumption ==
    /\ SAMPLE_QUERIES \in Nat \ {0}
    /\ MAX_ROWS \in Nat \ {0}
    /\ MaxWrites \in Nat /\ MaxBuilds \in Nat
    /\ Batches \subseteq Seq([id : Nat, vector : Vectors])
    /\ \A a, b \in Vectors : Distance(a, b) \in Int

VARIABLES
    stored,  \* the substrate's rows, in the order they were appended
    ann,     \* its ANN index: [build, covers] or Nothing
    writes,  \* appends so far
    builds,  \* builds and removals so far
    cal,     \* the calibration in progress, or Nothing
    chosen   \* the result of the last one: [knobs, ...] or Refused

calibrationVars == <<stored, ann, writes, builds, cal, chosen>>

-----------------------------------------------------------------------------
(* Rows, samples and recall *)

\* fetch_rows: a window of the table, sorted by id.
FetchRows == SortBy(Truncate(stored, MAX_ROWS), <<"id">>)

SampleCount(snapshot) ==
    IF Len(snapshot) < SAMPLE_QUERIES THEN Len(snapshot) ELSE SAMPLE_QUERIES

\* Even stride over the snapshot.
Sample(snapshot, n) ==
    snapshot[(n - 1) * (Len(snapshot) \div SampleCount(snapshot)) + 1].vector

Scored(vector, row) ==
    [id |-> row.id, distance |-> Distance(vector, row.vector)]

\* exact_top_k_ids: no tie-break, the insertion order stays.
ExactTopKIds(vector, snapshot, k) ==
    IdsOf(InsertionTopK([i \in DOMAIN snapshot |-> Scored(vector, snapshot[i])],
                        k, ByDistanceOnly))

\* With an index, every row it does not cover and the covered rows the knobs
\* reach.
Reached(knobs, vector, table, idx) ==
    {i \in DOMAIN table :
        \/ idx = Nothing
        \/ idx # Nothing /\ (i > idx.covers \/ Reaches(idx.build, knobs, vector, i))}

\* SubstrateIndex::query: the nearest of them.
Query(knobs, vector, table, idx) ==
    LET kept == Ascending(Reached(knobs, vector, table, idx))
    IN  IdsOf(Truncate(SortBy([n \in DOMAIN kept |-> Scored(vector, table[kept[n]])],
                              ByDistanceOnly), knobs.top_k))

\* The hits at k that are expected.
Overlap(hits, expected) ==
    Cardinality({i \in DOMAIN hits :
        i <= Len(expected) /\ \E j \in DOMAIN expected : expected[j] = hits[i]})

\* The overlap of one sample with one candidate, on a table as it is.
SampleOverlap(k, snapshot, n, knobs, table, idx) ==
    Overlap(Query(knobs, Sample(snapshot, n), table, idx),
            ExactTopKIds(Sample(snapshot, n), snapshot, k))

\* What one sample expects; the same for all of them.
Expects(k, snapshot) == IF k < Len(snapshot) THEN k ELSE Len(snapshot)

OutOf(k, snapshot) == SampleCount(snapshot) * Expects(k, snapshot)

-----------------------------------------------------------------------------
(* Behaviour *)

CalibrationInit ==
    /\ stored = <<>>
    /\ ann = Nothing
    /\ writes = 0
    /\ builds = 0
    /\ cal = Nothing
    /\ chosen = Nothing

\* write appends; duplicate ids append duplicate rows.
AppendRows(batch) ==
    /\ writes < MaxWrites
    /\ writes' = writes + 1
    /\ stored' = stored \o batch
    /\ UNCHANGED <<ann, builds, cal, chosen>>

\* A build that is accepted covers the rows that were there when it began.
Build(params) ==
    /\ builds < MaxBuilds
    /\ ParamsAccepted(params, Dimension)
    /\ builds' = builds + 1
    /\ \E n \in 1..Len(stored) : ann' = [build |-> builds', covers |-> n]
    /\ UNCHANGED <<stored, writes, cal, chosen>>

DropIndexes ==
    /\ builds < MaxBuilds
    /\ ann # Nothing
    /\ builds' = builds + 1
    /\ ann' = Nothing
    /\ UNCHANGED <<stored, writes, cal, chosen>>

\* calibrate is called: refused for a bad top_k and for want of candidates.
\* `index` and `base` are history: the index at the snapshot, and how many rows
\* there were when the first candidate, the default, had been scored.
Begin(k) ==
    /\ cal = Nothing
    /\ IF k \notin 1..MaxTopK \/ FetchRows = <<>>
       THEN chosen' = Refused /\ UNCHANGED cal
       ELSE /\ cal' = [top_k |-> k, snapshot |-> FetchRows, candidate |-> 1,
                       sample |-> 1, overlaps |-> [i \in Candidates |-> 0],
                       index |-> ann, base |-> Len(stored)]
            /\ chosen' = Nothing
    /\ UNCHANGED <<stored, ann, writes, builds>>

Current == Grid(cal.top_k)[cal.candidate]

\* One query of one candidate is answered from the table as it is now.
ScoreQuery ==
    /\ cal # Nothing
    /\ cal.candidate \in Candidates
    /\ KnobsAccepted(Current)
    /\ LET last == cal.sample = SampleCount(cal.snapshot)
       IN  cal' = [cal EXCEPT
                !.overlaps[cal.candidate] =
                    @ + SampleOverlap(cal.top_k, cal.snapshot, cal.sample,
                                      Current, stored, ann),
                !.base = IF cal.candidate = 1 THEN Len(stored) ELSE @,
                !.sample = IF last THEN 1 ELSE @ + 1,
                !.candidate = IF last THEN @ + 1 ELSE @]
    /\ UNCHANGED <<stored, ann, writes, builds, chosen>>

\* A query fails, on its knobs or on I/O, and the calibration with it.
QueryFails ==
    /\ cal # Nothing
    /\ cal.candidate \in Candidates
    /\ cal' = Nothing
    /\ chosen' = Refused
    /\ UNCHANGED <<stored, ann, writes, builds>>

Choose ==
    /\ cal # Nothing
    /\ cal.candidate \notin Candidates
    /\ chosen' = [knobs |-> Select(cal.top_k, cal.overlaps,
                                   OutOf(cal.top_k, cal.snapshot)),
                  snapshot |-> cal.snapshot, index |-> cal.index,
                  base |-> cal.base]
    /\ cal' = Nothing
    /\ UNCHANGED <<stored, ann, writes, builds>>

CalibrationNext ==
    \/ \E batch \in Batches : AppendRows(batch)
    \/ \E params \in Params : Build(params)
    \/ DropIndexes
    \/ \E k \in TopKs : Begin(k)
    \/ ScoreQuery \/ QueryFails \/ Choose

CalibrationSpec == CalibrationInit /\ [][CalibrationNext]_calibrationVars

-----------------------------------------------------------------------------
(* Properties *)

\* A calibration in progress is at a sample of a candidate, no candidate has
\* more hits than answers were expected of it so far, and every candidate it
\* will query has knobs a query accepts.
CalibrationTypeOK ==
    /\ writes \in 0..MaxWrites
    /\ builds \in 0..MaxBuilds
    /\ ann # Nothing => ann.build \in 1..builds /\ ann.covers \in 1..Len(stored)
    /\ cal # Nothing =>
          /\ cal.top_k \in 1..MaxTopK
          /\ cal.snapshot # <<>>
          /\ cal.candidate \in 1..9
          /\ cal.sample \in 1..SampleCount(cal.snapshot)
          /\ \A i \in Candidates :
                /\ cal.overlaps[i] <= OutOf(cal.top_k, cal.snapshot)
                /\ KnobsAccepted(Grid(cal.top_k)[i])

\* Rows beyond the snapshot bring no id of the snapshot again.
OnlyNewIds(snapshot) ==
    \A i \in (Len(snapshot) + 1)..Len(stored), j \in DOMAIN snapshot :
        stored[i].id # snapshot[j].id

TotalOverlap(k, snapshot, knobs, table, idx) ==
    LET Total[n \in 0..SampleCount(snapshot)] ==
            IF n = 0 THEN 0
            ELSE Total[n - 1] + SampleOverlap(k, snapshot, n, knobs, table, idx)
    IN  Total[SampleCount(snapshot)]

\* "the CHEAPEST candidate whose sampled recall matches-or-beats the naive fixed
\* baseline" (index_substrate.rs:689-695), although rows are appended between
\* its queries: on the table as it was when the default had been scored, what
\* calibrate chose costs no more than the default and finds as much, within
\* epsilon.  It needs the index to have stayed, and appends to bring new ids
\* only: an appended duplicate of an expected id counts as found.
SelectedMeetsParity ==
    chosen \notin {Nothing, Refused} =>
        LET k == chosen.knobs.top_k
            table == SubSeq(stored, 1, chosen.base)
            Found(knobs) == TotalOverlap(k, chosen.snapshot, knobs, table, chosen.index)
        IN  /\ Cost(chosen.knobs) <= Cost(Naive(k))
            /\ ann = chosen.index /\ OnlyNewIds(chosen.snapshot)
                => MeetsParity(Found(chosen.knobs), Found(Naive(k)),
                               OutOf(k, chosen.snapshot))
=============================================================================
