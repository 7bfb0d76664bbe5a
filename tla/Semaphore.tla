------------------------------ MODULE Semaphore ------------------------------
(***************************************************************************)
(* What search admission promises (ADR 0007): at most Capacity searches in *)
(* flight, a caller that is turned away was turned away by a full gate,    *)
(* and no queue: a caller is idle, in flight, or on its way out.           *)
(***************************************************************************)
EXTENDS Integers, FiniteSets

CONSTANTS Callers, Capacity

VARIABLE state   \* [Callers -> {"idle", "held", "busy"}]

Held == {c \in Callers : state[c] = "held"}

Init == state = [c \in Callers |-> "idle"]

Admit(c) ==
    /\ state[c] = "idle"
    /\ Cardinality(Held) < Capacity
    /\ state' = [state EXCEPT ![c] = "held"]

Shed(c) ==
    /\ state[c] = "idle"
    /\ Cardinality(Held) = Capacity
    /\ state' = [state EXCEPT ![c] = "busy"]

Leave(c) ==
    /\ state[c] # "idle"
    /\ state' = [state EXCEPT ![c] = "idle"]

Next == \E c \in Callers : Admit(c) \/ Shed(c) \/ Leave(c)

Spec == Init /\ [][Next]_state
=============================================================================
