----------------------------- MODULE MCHarness ------------------------------
(***************************************************************************)
(* A small instance of Harness: ties in every distance table, two          *)
(* uniform configurations of one shape, one of another shape with more     *)
(* neighbours than rows, one clustered, one the generators refuse, and     *)
(* SIFT directories.                                                       *)
(***************************************************************************)
EXTENDS Harness

Uniform(seed, n, top_k, categories, metric) ==
    [family |-> "uniform", seed |-> seed, num_vectors |-> n, dimension |-> 2,
     num_queries |-> 2, top_k |-> top_k, num_categories |-> categories,
     metric |-> metric, num_clusters |-> 0, cluster_stddev |-> 0,
     center_mean |-> 0, center_stddev |-> 0]

MCConfigs ==
    { Uniform(1, 3, 2, 2, "L2"), Uniform(2, 3, 2, 3, "Dot"),
      [Uniform(1, 2, 3, 2, "L2") EXCEPT !.num_queries = 1],
      [Uniform(1, 3, 2, 2, "Cosine") EXCEPT !.family = "clustered",
          !.num_clusters = 1, !.cluster_stddev = 1, !.center_stddev = 1],
      Uniform(1, 3, 2, 0, "L2") }

\* Few values, so that equal distances occur; the metrics order differently.
MCDistance(metric, query, row) ==
    IF metric = "Dot" THEN (query.n + row.n) % 2
    ELSE ((query.n + 2 * row.n) % 3) % 2

MCDraw(family, seed, row) ==
    seed + row + (IF family = "clustered" THEN 1 ELSE 0)

MCSiftAnswer(q, n) == ((q + n) % 3) + 1

Run(top_k, queries, selectivity, enforce) ==
    [top_k |-> top_k, measured_queries |-> queries, selectivity |-> selectivity,
     enforce |-> enforce, p50_max |-> 2, p99_max |-> 8, recall_min |-> 94]

MCHarnessConfigs ==
    { Run(k, n, s, TRUE) : k \in {1, 2}, n \in {1, 3},
                           s \in {<<1, 1>>, <<1, 2>>, <<1, 1000>>} }
        \cup { Run(4, 2, <<1, 1>>, TRUE), Run(0, 1, <<1, 1>>, TRUE),
               Run(2, 2, <<1, 1>>, FALSE) }

MCLatencies == { <<1, 1, 9>>, <<1, 3, 3>>, <<9>>, <<1, 2>>, <<1, 9, 9>> }

MCSiftDirs ==
    { [base |-> <<2, 2, 2>>, query |-> <<2, 2>>, truth |-> <<2, 2>>],
      [base |-> <<2, 2>>, query |-> <<2>>, truth |-> <<1, 1>>],
      [base |-> <<2, 0>>, query |-> <<2>>, truth |-> <<1>>],
      [base |-> <<2>>, query |-> <<1>>, truth |-> <<1>>] }
=============================================================================
