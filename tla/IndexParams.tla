----------------------------- MODULE IndexParams ----------------------------
(***************************************************************************)
(* The parameters an ANN index is built with (index_substrate.rs) and the  *)
(* guards of a query's knobs.                                              *)
(***************************************************************************)
EXTENDS Integers, Sequences

CONSTANT MaxTopK  \* 1000

ASSUME MaxTopKAssumption == MaxTopK \in Nat \ {0}

Absent == 0  \* an Option that is None

\* IndexBuildParams::validate.  Zero sub-vectors and none are refused alike.
ParamsAccepted(params, dimension) ==
    /\ params.num_partitions > 0
    /\ params.family = "IvfPq" =>
          params.num_sub_vectors > 0 /\ dimension % params.num_sub_vectors = 0
    /\ params.family = "IvfHnswFlat" => params.num_sub_vectors = Absent

\* The largest of 16, 8, 4, 2, 1 that divides the dimension.
SubVectors(dimension) ==
    IF dimension % 16 = 0 THEN 16
    ELSE IF dimension % 8 = 0 THEN 8
    ELSE IF dimension % 4 = 0 THEN 4
    ELSE IF dimension % 2 = 0 THEN 2
    ELSE 1

\* default_build_params, for the two choices that build.
DefaultBuildParams(dimension, family) ==
    IF family = "IvfPq"
    THEN [family |-> family, num_partitions |-> 4,
          num_sub_vectors |-> SubVectors(dimension)]
    ELSE [family |-> family, num_partitions |-> 4, num_sub_vectors |-> Absent]

\* The parameters of the explorer's rebuild_index.
ExplorerBuildParams(dimension, family) ==
    IF family = "IvfPq"
    THEN [family |-> family, num_partitions |-> 4,
          num_sub_vectors |-> IF dimension < 16 THEN 1 ELSE dimension \div 16]
    ELSE [family |-> family, num_partitions |-> 4, num_sub_vectors |-> Absent]

\* SubstrateIndex::query accepts the knobs for a vector of its dimension.
KnobsAccepted(knobs) ==
    /\ knobs.top_k \in 1..MaxTopK
    /\ knobs.ef_search # Absent => knobs.ef_search >= knobs.top_k
=============================================================================
