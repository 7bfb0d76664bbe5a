------------------------------ MODULE Admission ------------------------------
(***************************************************************************)
(* The search-admission gate (crates/ferrite-db/src/admission.rs) and the  *)
(* search calls that pass through it (search.rs), at the granularity of    *)
(* the atomic counter: fetch_update is a load followed by compare-and-swap *)
(* attempts, and a failed attempt hands the current value to the next.     *)
(*                                                                         *)
(* A spurious failure of compare_exchange_weak re-reads the value it was   *)
(* given, which is a stuttering step here.  A call whose query fails       *)
(* validation returns before the gate and touches nothing.                 *)
(***************************************************************************)
EXTENDS Integers, FiniteSets

CONSTANTS
    Callers,    \* threads that call search
    Capacity    \* SearchAdmission.capacity

ASSUME AdmissionAssumption ==
    /\ IsFiniteSet(Callers)
    /\ Capacity \in Nat

VARIABLES
    in_flight,  \* SearchAdmission.in_flight
    pc,         \* where each caller is
    current     \* the value fetch_update's closure is given

admissionVars == <<in_flight, pc, current>>

Holders == {c \in Callers : pc[c] = "scan"}

AdmissionTypeOK ==
    /\ in_flight \in Nat
    /\ pc \in [Callers -> {"idle", "update", "scan", "busy"}]
    /\ current \in [Callers -> Nat]

AdmissionInit ==
    /\ in_flight = 0
    /\ pc = [c \in Callers |-> "idle"]
    /\ current = [c \in Callers |-> 0]

\* try_admit begins: the first load of fetch_update.
TryAdmit(c) ==
    /\ pc[c] = "idle"
    /\ pc' = [pc EXCEPT ![c] = "update"]
    /\ current' = [current EXCEPT ![c] = in_flight]
    /\ UNCHANGED in_flight

\* The closure answers None: Error::Busy, at once.
Shed(c) ==
    /\ pc[c] = "update"
    /\ current[c] >= Capacity
    /\ pc' = [pc EXCEPT ![c] = "busy"]
    /\ UNCHANGED <<in_flight, current>>

\* A bug a review must rule out: a load, a test and a store.
SwapBlindly(c) ==
    /\ pc[c] = "update"
    /\ current[c] < Capacity
    /\ in_flight' = current[c] + 1
    /\ pc' = [pc EXCEPT ![c] = "scan"]
    /\ UNCHANGED current

\* The closure answers current + 1 and the swap succeeds: the permit.
Swap(c) ==
    /\ pc[c] = "update"
    /\ current[c] < Capacity
    /\ in_flight = current[c]
    /\ in_flight' = current[c] + 1
    /\ pc' = [pc EXCEPT ![c] = "scan"]
    /\ UNCHANGED current

\* A bug a review must rule out: the loop retries with the value it had.
RetryStale(c) ==
    /\ pc[c] = "update"
    /\ current[c] < Capacity
    /\ in_flight # current[c]
    /\ UNCHANGED admissionVars

\* The swap fails and returns the value it found.
Retry(c) ==
    /\ pc[c] = "update"
    /\ current[c] < Capacity
    /\ in_flight # current[c]
    /\ current' = [current EXCEPT ![c] = in_flight]
    /\ UNCHANGED <<in_flight, pc>>

\* A bug a review must rule out: the permit is forgotten, not dropped.
FinishLeaking(c) ==
    /\ pc[c] = "scan"
    /\ pc' = [pc EXCEPT ![c] = "idle"]
    /\ UNCHANGED <<in_flight, current>>

\* The scan is over and the permit is dropped (fetch_sub).
Finish(c) ==
    /\ pc[c] = "scan"
    /\ in_flight' = in_flight - 1
    /\ pc' = [pc EXCEPT ![c] = "idle"]
    /\ UNCHANGED current

\* search returns Error::Busy to its caller.
ReturnBusy(c) ==
    /\ pc[c] = "busy"
    /\ pc' = [pc EXCEPT ![c] = "idle"]
    /\ UNCHANGED <<in_flight, current>>

Running(c) == Shed(c) \/ Swap(c) \/ Retry(c) \/ Finish(c) \/ ReturnBusy(c)

AdmissionNext == \E c \in Callers : TryAdmit(c) \/ Running(c)

AdmissionSpec == AdmissionInit /\ [][AdmissionNext]_admissionVars

\* A call that has begun keeps running; nobody has to begin one.
AdmissionFairness == \A c \in Callers : WF_admissionVars(Running(c))

FairAdmissionSpec == AdmissionSpec /\ AdmissionFairness

-----------------------------------------------------------------------------
(* Properties *)

\* The counter is the number of permits held, so it neither leaks a slot nor
\* lets a search in beyond the capacity, whatever the calls interleave.
InFlightIsHolders ==
    /\ in_flight = Cardinality(Holders)
    /\ in_flight <= Capacity

\* Seen from outside, try_admit is one indivisible step: a caller is on its way
\* out with Busy as soon as it has read a full counter, even if a permit comes
\* free before it returns.
Outside ==
    [c \in Callers |->
        CASE pc[c] = "scan" -> "held"
          [] pc[c] = "busy" -> "busy"
          [] pc[c] = "update" /\ current[c] >= Capacity -> "busy"
          [] OTHER -> "idle"]

Gate == INSTANCE Semaphore WITH state <- Outside

\* A search is shed only by a gate that was full at one instant of the call,
\* and admitted only by one that was not.
ImplementsSemaphore == Gate!Spec

Answer == \E c \in Callers : pc[c] = "update" /\ pc'[c] # "update"

\* The gate is lock-free: while somebody is asking, somebody gets an answer.
\* (A single caller may lose every swap to others.)
LockFree ==
    \/ []<><<Answer>>_admissionVars
    \/ <>[](\A c \in Callers : pc[c] # "update")
=============================================================================
