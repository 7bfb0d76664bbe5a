------------------------------ MODULE Listing -------------------------------
(***************************************************************************)
(* How the code runs through a set of numbers in order: the keys of a      *)
(* BTreeMap, the rows a filter keeps, the queries a report counts.         *)
(***************************************************************************)
EXTENDS Integers, FiniteSets

\* The i-th member is the one with i - 1 smaller members.
Ascending(S) ==
    [i \in 1..Cardinality(S) |->
        CHOOSE id \in S : Cardinality({o \in S : o < id}) = i - 1]
=============================================================================
