---------------------------- MODULE MCLifecycle -----------------------------
(***************************************************************************)
(* Small instances of Lifecycle: two ids, two payloads, chunks of two rows *)
(* and a handful of batches that cover an overwrite, a duplicate inside a  *)
(* batch, a batch that seals, and a batch with an invalid row.             *)
(***************************************************************************)
EXTENDS Lifecycle

CONSTANTS v1, v2

R(id, value) == [id |-> id, value |-> value]

MCBatches ==
    { <<R(1, v1)>>, <<R(1, v2)>>, <<R(2, v1)>>,
      <<R(2, v1), R(1, v1), R(1, v2)>>,
      <<R(1, v1), R(2, Malformed)>> }

MCValues == {v1, v2}
=============================================================================
