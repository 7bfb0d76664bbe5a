------------------------------ MODULE Harness -------------------------------
(***************************************************************************)
(* The benchmark harness (harness/src/lib.rs) on what Fixture loads: the   *)
(* guards of a run, the ingest, the filter of a selectivity tier, the      *)
(* expected answers, recall, percentiles and the exit code.                *)
(*                                                                         *)
(* A run of a loaded corpus is sequential and changes nothing: it is an    *)
(* operator, and the invariants ask every run of everything that loads.    *)
(* The engine and the generators are taken to order rows alike: their L2   *)
(* distances are different sums (search.rs:367-395, corpus-gen             *)
(* lib.rs:38-53), and a zero vector under Cosine, at distance 1 for the    *)
(* engine and at infinity for the generators, is left out.                 *)
(***************************************************************************)
EXTENDS Fixture

CONSTANTS
    HarnessConfigs,  \* [top_k, measured_queries, selectivity, enforce, ...]
    Latencies,       \* latencies one measured loop may show, in milliseconds
    Panic,           \* an index past the end
    MaxRunTopK          \* the upper bound of a run's top_k (1000)

ASSUME HarnessAssumption ==
    /\ \A h \in HarnessConfigs :
          /\ h.top_k \in Nat /\ h.measured_queries \in Nat
          /\ h.selectivity \in Nat \X (Nat \ {0})
          /\ h.recall_min \in 0..100
    /\ MaxRunTopK \in Nat

\* A panic is no report.
ASSUME PanicAssumption ==
    /\ Panic # Err
    /\ Panic \notin [recalls : Seq([hit : Nat, of : Nat]),
                     keep : {None} \cup SUBSET Nat]

\* Rust's f64::round of (a / b) * c.
Rounded(a, b, c) == (2 * a * c + b) \div (2 * b)

\* keep_categories: None is an unfiltered run.
KeepCategories(selectivity, num_categories) ==
    LET k == Rounded(selectivity[1], selectivity[2], num_categories)
    IN  IF selectivity[1] >= selectivity[2] \/ num_categories = 0 THEN None
        ELSE 0..((IF k < 1 THEN 1 ELSE k) - 1)

Kept(keep, category) == keep = None \/ category \in keep

\* filtered_exact_top_k reads categories by row and panics past their end; a
\* row's own category, or 0, is what the ingest stores.
FilteredExactTopK(corpus, query, k, keep) ==
    IdsOf(InsertionTopK(
        Candidates(corpus.metric, query, corpus.corpus,
                   {i \in DOMAIN corpus.corpus : Kept(keep, corpus.categories[i])}),
        k, ByDistanceThenId))

Ingested(corpus, i) ==
    IF i \in DOMAIN corpus.categories THEN corpus.categories[i] ELSE 0

\* The engine's search over the ingested Delta.
Results(corpus, query, k, keep) ==
    IdsOf(Truncate(SortBy(Candidates(corpus.metric, query, corpus.corpus,
                                     {i \in DOMAIN corpus.corpus :
                                         Kept(keep, Ingested(corpus, i))}),
                          ByDistanceThenId), k))

\* The fixture's answers, or the filtered oracle's.
Expected(corpus, h, keep, q) ==
    IF keep = None THEN corpus.ground_truth[q]
    ELSE FilteredExactTopK(corpus, corpus.queries[q], h.top_k, keep)

Measured(corpus, h) ==
    IF h.measured_queries < Len(corpus.ground_truth)
    THEN h.measured_queries ELSE Len(corpus.ground_truth)

\* How many of one query's results its answers name, and how many they are.
Recall(expected, results) ==
    [hit |-> Cardinality({i \in DOMAIN results :
                             \E j \in DOMAIN expected : results[i] = expected[j]}),
     of |-> Len(expected)]

\* A query that expects nothing is not counted.
Recalls(corpus, h, keep) ==
    LET counted == Ascending({q \in 1..Measured(corpus, h) :
                                 Len(Expected(corpus, h, keep, q)) > 0})
    IN  [n \in 1..Len(counted) |->
            Recall(Expected(corpus, h, keep, counted[n]),
                   Results(corpus, corpus.queries[counted[n]], h.top_k, keep))]

\* recall_at_k is not below `percent`; the mean of nothing is 0.  The answers
\* of a run all have one length.
RecallReaches(recalls, percent) ==
    LET Hits[i \in 0..Len(recalls)] ==
            IF i = 0 THEN 0 ELSE Hits[i - 1] + recalls[i].hit
    IN  IF recalls = <<>> THEN percent <= 0
        ELSE 100 * Hits[Len(recalls)] >= percent * recalls[1].of * Len(recalls)

\* The latency at a percentile of the sorted samples.
Percentile(sorted, p) == sorted[(((Len(sorted) - 1) * p) \div 100) + 1]

\* run_loaded: Err, Panic, or what the report says of recall and filter.
RunLoaded(corpus, h) ==
    LET keep == KeepCategories(h.selectivity, corpus.num_categories)
        past == \/ Measured(corpus, h) > Len(corpus.queries)
                \/ keep # None /\ Len(corpus.corpus) > Len(corpus.categories)
    IN  IF \/ h.measured_queries = 0
           \/ h.top_k \notin 1..MaxRunTopK
           \/ Measured(corpus, h) = 0
        THEN Err
        ELSE IF past THEN Panic
        ELSE [recalls |-> Recalls(corpus, h, keep), keep |-> keep]

\* A bug a review must rule out: enforcement looks at p99 and recall only.
ExitIgnoringMedian(report, sorted, h) ==
    IF /\ h.enforce
       /\ \/ Percentile(sorted, 99) > h.p99_max
          \/ ~RecallReaches(report.recalls, h.recall_min)
    THEN 1 ELSE 0

\* The ceilings of a report and Report::exit_code.
ExitCode(report, sorted, h) ==
    IF /\ h.enforce
       /\ \/ Percentile(sorted, 50) > h.p50_max
          \/ Percentile(sorted, 99) > h.p99_max
          \/ ~RecallReaches(report.recalls, h.recall_min)
    THEN 1 ELSE 0

-----------------------------------------------------------------------------
(* Properties *)

\* The corpora the benchmark can have in its hands in this state.
Corpora == {LoadedAs(family) : family \in Families \cup {"sift"}} \ {Err}

\* The files in the benchmark's hands come from one configuration.
OneFixture ==
    /\ HasFixture
    /\ \A i, j \in DOMAIN reader.got : reader.got[i].of = reader.got[j].of

AllFound(recalls) == \A i \in DOMAIN recalls : recalls[i].hit = recalls[i].of

\* The mixtures load accepts are harmless to index: no run of them reads past
\* the end of a vector, a category or an answer (harness lib.rs:160-276).  A
\* SIFT directory (corpus-gen lib.rs:555-587) panics a run exactly when it has
\* more answers than queries and the run measures that far.
RunsStayInBounds ==
    \A corpus \in Corpora, h \in HarnessConfigs :
        RunLoaded(corpus, h) = Panic <=>
            /\ HasSift
            /\ h.measured_queries > Len(corpus.queries)
            /\ Len(corpus.ground_truth) > Len(corpus.queries)
            /\ h.top_k \in 1..MaxRunTopK

\* The filtered oracle and the engine agree row for row, ties included: a
\* filtered run of anything load accepts, a mixture of two fixtures included,
\* has full recall; it has none to report only if no row is kept.
FilteredRecallIsFull ==
    \A corpus \in Corpora, h \in HarnessConfigs :
        LET run == RunLoaded(corpus, h)
        IN  run \notin {Err, Panic} /\ run.keep # None =>
              /\ AllFound(run.recalls)
              /\ run.recalls = <<>> =>
                    \A i \in DOMAIN corpus.categories :
                        corpus.categories[i] \notin run.keep

\* On a fixture of one configuration, an unfiltered run that asks for at least
\* the neighbours the fixture holds fails under enforcement exactly when a
\* latency percentile is over its ceiling: recall is never the reason
\* (harness lib.rs:242-288, 323-340 and 90-96).
OnlySlowRunsFail ==
    OneFixture =>
        \A corpus \in Corpora, h \in HarnessConfigs, sorted \in Latencies :
            LET run == RunLoaded(corpus, h)
            IN  /\ run \notin {Err, Panic}
                /\ run.keep = None
                /\ h.top_k >= corpus.top_k
                => (ExitCode(run, sorted, h) = 1 <=>
                        /\ h.enforce
                        /\ \/ Percentile(sorted, 50) > h.p50_max
                           \/ Percentile(sorted, 99) > h.p99_max)
=============================================================================
