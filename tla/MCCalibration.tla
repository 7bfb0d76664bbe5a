--------------------------- MODULE MCCalibration ----------------------------
(***************************************************************************)
(* Calibration over a handful of rows: vectors are points of a line, the   *)
(* first build has partitions of neighbours, the second reaches rows in no *)
(* particular order.                                                       *)
(***************************************************************************)
EXTENDS Calibration

\* The points of the line that are appended.
MCVectors == 0..3

MCDistance(a, b) == (a - b) * (a - b)

MCReaches(build, knobs, vector, i) ==
    IF build = 1 THEN knobs.probes = 4 \/ (i + vector) % 2 < knobs.probes - 1
    ELSE (i + vector + knobs.ef_search) % 3 # knobs.probes % 3

R(id, vector) == [id |-> id, vector |-> vector]

MCBatches ==
    { <<R(2, 3), R(1, 0), R(3, 1)>>, <<R(4, 2)>>, <<R(1, 2)>> }

MCParams ==
    { [family |-> "IvfPq", num_partitions |-> 4, num_sub_vectors |-> 2],
      [family |-> "IvfPq", num_partitions |-> 4, num_sub_vectors |-> 3] }
=============================================================================
