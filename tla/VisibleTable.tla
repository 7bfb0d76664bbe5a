---------------------------- MODULE VisibleTable ----------------------------
(***************************************************************************)
(* What a Table promises its callers, with no Delta, no Tombstone and no   *)
(* Compaction: a map from id to its newest payload, in which every write   *)
(* takes effect exactly once, at one instant between its call and its      *)
(* answer, and in which nothing else changes what is visible.              *)
(***************************************************************************)
EXTENDS Rows

CONSTANT Callers   \* threads that write

VARIABLES
    latest,   \* [Ids -> Values \cup {Absent}]
    call      \* the write each caller waits for

Init ==
    /\ latest = [id \in Ids |-> Absent]
    /\ call = [c \in Callers |-> NoCall]

Invoke(c) ==
    /\ call[c] = NoCall
    /\ \E request \in Request : call' = [call EXCEPT ![c] = request]
    /\ UNCHANGED latest

Respond(c) ==
    /\ call[c] # NoCall
    /\ latest' = Put(Remove(latest, call[c].remove), call[c].batch)
    /\ call' = [call EXCEPT ![c] = NoCall]

Next == \E c \in Callers : Invoke(c) \/ Respond(c)

Spec == Init /\ [][Next]_<<latest, call>>
=============================================================================
