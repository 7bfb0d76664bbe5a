----------------------------- MODULE MCExplorer -----------------------------
(***************************************************************************)
(* Explorer with a few requests; one spec builds and two are refused.      *)
(***************************************************************************)
EXTENDS Explorer

MCSpecs ==
    { [num_vectors |-> 2000, dimension |-> 64, family |-> "IvfPq"],
      [num_vectors |-> 2000, dimension |-> 56, family |-> "IvfPq"],
      [num_vectors |-> 0, dimension |-> 64, family |-> "IvfHnswFlat"] }
=============================================================================
