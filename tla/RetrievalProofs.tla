--------------------------- MODULE RetrievalProofs --------------------------
(***************************************************************************)
(* What every way of searching a Delta answers, for every Table, history   *)
(* of writes and merges, query, predicate and k.                           *)
(*                                                                         *)
(* The inductive invariant is that the Delta is a well-formed lineage      *)
(* (Lineage, with HiddenIsPrefix, which merge() relies on): each write and *)
(* the merge keep it, by the lemmas of CompactionProofs.  The answers are  *)
(* functions of the Delta, so the rest is about the operators: the filter  *)
(* lists the positions it keeps once each, the sort is a permutation that  *)
(* puts them in the order of (distance, id), and truncation keeps a prefix.*)
(*                                                                         *)
(* The permit such a search takes: the counter is the number of permits    *)
(* held, which implements a semaphore.                                     *)
(*                                                                         *)
(* The harness that measures it: the files on disk are prefixes of those   *)
(* that generated them, the writer is between two of them, and a reader's  *)
(* contents are prefixes too, so a directory that loads is whole.  Its     *)
(* oracle answers what the engine's sort and cut do, hence full recall.    *)
(***************************************************************************)
EXTENDS Retrieval, CompactionProofs, Harness, Admission, RankingProofs

-----------------------------------------------------------------------------
(* The gate a search passes: try_admit is atomic *)

\* The inductive invariant of the gate.
GateInv == AdmissionTypeOK /\ InFlightIsHolders

\* The permits held can be counted.
LEMMA HoldersFinite == IsFiniteSet(Holders) /\ Cardinality(Holders) \in Nat
  <1>1. Holders \in SUBSET Callers
    BY DEF Holders
  <1>2. IsFiniteSet(Holders)
    BY <1>1, AdmissionAssumption, FS_Subset
  <1>3. QED BY <1>2, FS_CardinalityType

\* The gate starts empty.
LEMMA GateStarts == AdmissionInit => GateInv
  <1> SUFFICES ASSUME AdmissionInit PROVE GateInv
    OBVIOUS
  <1>1. AdmissionTypeOK
    BY DEF AdmissionInit, AdmissionTypeOK
  <1>2. Holders = {}
    BY DEF AdmissionInit, Holders
  <1>3. QED
    BY <1>1, <1>2, FS_EmptySet, AdmissionAssumption
       DEF AdmissionInit, GateInv, InFlightIsHolders

\* A step that leaves the counter and the set of permit holders alone.
LEMMA SamePermits ==
    ASSUME GateInv, AdmissionTypeOK', in_flight' = in_flight, Holders' = Holders
    PROVE  GateInv'
  BY DEF GateInv, InFlightIsHolders

\* Every load, swap, retry and drop keeps the counter equal to the permits held.
LEMMA StepsKeepGate == GateInv /\ [AdmissionNext]_admissionVars => GateInv'
  <1> SUFFICES ASSUME GateInv, [AdmissionNext]_admissionVars PROVE GateInv'
    OBVIOUS
  <1>1. /\ AdmissionTypeOK /\ in_flight = Cardinality(Holders) /\ in_flight <= Capacity
        /\ Capacity \in Nat
    BY AdmissionAssumption DEF GateInv, InFlightIsHolders
  <1>2. ASSUME NEW c \in Callers, TryAdmit(c) \/ Shed(c) \/ Retry(c) \/ ReturnBusy(c)
        PROVE  GateInv'
    <2>1. AdmissionTypeOK'
      BY <1>1, <1>2 DEF TryAdmit, Shed, Retry, ReturnBusy, AdmissionTypeOK
    <2>2. in_flight' = in_flight /\ Holders' = Holders
      BY <1>1, <1>2 DEF TryAdmit, Shed, Retry, ReturnBusy, AdmissionTypeOK, Holders
    <2>3. QED BY <2>1, <2>2, SamePermits
  <1>3. ASSUME NEW c \in Callers, Swap(c)
        PROVE  GateInv'
    <2>1. AdmissionTypeOK'
      BY <1>1, <1>3 DEF Swap, AdmissionTypeOK
    <2>2. Holders' = Holders \cup {c} /\ c \notin Holders
      BY <1>1, <1>3 DEF Swap, AdmissionTypeOK, Holders
    <2>3. Cardinality(Holders') = Cardinality(Holders) + 1
      BY <2>2, HoldersFinite, FS_AddElement
    <2>4. in_flight' = in_flight + 1 /\ in_flight < Capacity
      BY <1>1, <1>3 DEF Swap, AdmissionTypeOK
    <2>5. QED
      BY <1>1, <2>1, <2>3, <2>4, HoldersFinite DEF GateInv, InFlightIsHolders
  <1>4. ASSUME NEW c \in Callers, Finish(c)
        PROVE  GateInv'
    <2>1. Holders' = Holders \ {c} /\ c \in Holders
      BY <1>1, <1>4 DEF Finish, AdmissionTypeOK, Holders
    <2>2. Cardinality(Holders') = Cardinality(Holders) - 1 /\ Holders # {}
      BY <2>1, HoldersFinite, FS_RemoveElement
    <2>3. Cardinality(Holders) # 0
      BY <2>2, HoldersFinite, FS_EmptySet
    <2>4. in_flight' = in_flight - 1 /\ in_flight' \in Nat
      BY <1>1, <1>4, <2>3, HoldersFinite DEF Finish
    <2>5. AdmissionTypeOK'
      BY <1>1, <1>4, <2>4 DEF Finish, AdmissionTypeOK
    <2>6. QED
      BY <1>1, <2>2, <2>4, <2>5, HoldersFinite DEF GateInv, InFlightIsHolders
  <1>5. CASE UNCHANGED admissionVars
    <2>1. AdmissionTypeOK'
      BY <1>1, <1>5 DEF admissionVars, AdmissionTypeOK
    <2>2. in_flight' = in_flight /\ Holders' = Holders
      BY <1>5 DEF admissionVars, Holders
    <2>3. QED BY <2>1, <2>2, SamePermits
  <1>6. QED
    BY <1>2, <1>3, <1>4, <1>5 DEF AdmissionNext, Running

\* The invariant holds in every reachable state of the gate.
THEOREM GateInvariant == AdmissionSpec => []GateInv
  BY GateStarts, StepsKeepGate, PTL DEF AdmissionSpec

\* Every caller stays in a phase of the loop, and the counter never goes below
\* zero: a permit is dropped once.
THEOREM GateTypes == AdmissionSpec => []AdmissionTypeOK
  <1>1. GateInv => AdmissionTypeOK
    BY DEF GateInv
  <1>2. QED BY <1>1, GateInvariant, PTL

\* The counter is exactly the number of permits held and never exceeds the
\* capacity: no interleaving of loads, swaps and drops leaks a slot.
THEOREM PermitsNeverLeak == AdmissionSpec => []InFlightIsHolders
  <1>1. GateInv => InFlightIsHolders
    BY DEF GateInv
  <1>2. QED BY <1>1, GateInvariant, PTL

\* What a caller looks like from outside, by its program counter.
LEMMA OutsideValues ==
    ASSUME AdmissionTypeOK, NEW c \in Callers
    PROVE  /\ pc[c] = "scan" => Outside[c] = "held"
           /\ pc[c] = "busy" => Outside[c] = "busy"
           /\ pc[c] = "idle" => Outside[c] = "idle"
           /\ pc[c] = "update" /\ current[c] >= Capacity => Outside[c] = "busy"
           /\ pc[c] = "update" /\ ~(current[c] >= Capacity) => Outside[c] = "idle"
  BY DEF Outside

\* The callers in flight from outside are the holders of a permit.
LEMMA HeldIsHolders ==
    ASSUME AdmissionTypeOK
    PROVE  {c \in Callers : Outside[c] = "held"} = Holders
  BY OutsideValues DEF AdmissionTypeOK, Holders

\* A step of one caller changes only what that caller looks like from outside.
LEMMA OutsideChanges ==
    ASSUME NEW c \in Callers,
           \A o \in Callers \ {c} : pc'[o] = pc[o] /\ current'[o] = current[o]
    PROVE  Outside' = [Outside EXCEPT ![c] = Outside'[c]]
  <1>1. \A o \in Callers \ {c} : Outside'[o] = Outside[o]
    BY DEF Outside
  <1>2. DOMAIN Outside = Callers /\ DOMAIN Outside' = Callers
    BY DEF Outside
  <1>3. Outside = [o \in Callers |-> Outside[o]] /\ Outside' = [o \in Callers |-> Outside'[o]]
    BY DEF Outside
  <1>4. QED BY <1>1, <1>2, <1>3

\* The initial gate is the initial semaphore.
LEMMA GateStartsAsSemaphore == AdmissionInit => Gate!Init
  BY DEF AdmissionInit, Gate!Init, Outside

\* The two instances of FiniteSets agree on what a cardinality is.
LEMMA SameCardinality == Gate!Cardinality(Gate!Held) = Cardinality(Gate!Held)
  BY DEF Gate!Cardinality, Cardinality

\* Every step of the gate is one step of the semaphore, or none.
LEMMA StepRefinesSemaphore ==
    ASSUME GateInv, AdmissionTypeOK', [AdmissionNext]_admissionVars
    PROVE  Gate!Next \/ Outside' = Outside
  <1>1. /\ AdmissionTypeOK /\ in_flight = Cardinality(Gate!Held) /\ in_flight <= Capacity
        /\ in_flight \in Nat /\ Capacity \in Nat
    BY AdmissionAssumption, HeldIsHolders
       DEF GateInv, InFlightIsHolders, Gate!Held, AdmissionTypeOK
  <1>2. ASSUME NEW c \in Callers, TryAdmit(c) \/ Retry(c)
        PROVE  Gate!Next \/ Outside' = Outside
    <2>1. /\ Outside[c] = "idle"
          /\ pc'[c] = "update" /\ current'[c] = in_flight
          /\ \A o \in Callers \ {c} : pc'[o] = pc[o] /\ current'[o] = current[o]
      BY <1>1, <1>2, OutsideValues DEF TryAdmit, Retry, AdmissionTypeOK
    <2>2. Outside' = [Outside EXCEPT ![c] = Outside'[c]]
      BY <2>1, OutsideChanges
    <2>3. CASE in_flight >= Capacity
      <3>1. Outside'[c] = "busy"
        BY <2>1, <2>3 DEF Outside
      <3>2. Cardinality(Gate!Held) = Capacity
        BY <1>1, <2>3
      <3>3. QED
        BY <2>1, <2>2, <3>1, <3>2, SameCardinality DEF Gate!Next, Gate!Shed
    <2>4. CASE ~(in_flight >= Capacity)
      <3>1. Outside'[c] = "idle"
        BY <2>1, <2>4 DEF Outside
      <3>2. Outside = [o \in Callers |-> Outside[o]]
        BY DEF Outside
      <3>3. QED
        BY <2>1, <2>2, <3>1, <3>2
    <2>5. QED BY <2>3, <2>4
  <1>3. ASSUME NEW c \in Callers, Swap(c)
        PROVE  Gate!Next
    <2>1. /\ Outside[c] = "idle" /\ in_flight < Capacity
          /\ pc'[c] = "scan"
          /\ \A o \in Callers \ {c} : pc'[o] = pc[o] /\ current'[o] = current[o]
      BY <1>1, <1>3, OutsideValues DEF Swap, AdmissionTypeOK
    <2>2. Outside' = [Outside EXCEPT ![c] = "held"]
      <3>1. Outside'[c] = "held"
        BY <2>1 DEF Outside
      <3>2. QED BY <2>1, <3>1, OutsideChanges
    <2>3. QED
      BY <1>1, <2>1, <2>2, SameCardinality DEF Gate!Next, Gate!Admit
  <1>4. ASSUME NEW c \in Callers, Finish(c) \/ ReturnBusy(c)
        PROVE  Gate!Next
    <2>1. /\ Outside[c] # "idle"
          /\ pc'[c] = "idle"
          /\ \A o \in Callers \ {c} : pc'[o] = pc[o] /\ current'[o] = current[o]
      BY <1>1, <1>4, OutsideValues DEF Finish, ReturnBusy, AdmissionTypeOK
    <2>2. Outside' = [Outside EXCEPT ![c] = "idle"]
      <3>1. Outside'[c] = "idle"
        BY <2>1 DEF Outside
      <3>2. QED BY <2>1, <3>1, OutsideChanges
    <2>3. QED
      BY <2>1, <2>2 DEF Gate!Next, Gate!Leave
  <1>5. ASSUME NEW c \in Callers, Shed(c)
        PROVE  Outside' = Outside
    <2>1. /\ Outside[c] = "busy" /\ pc'[c] = "busy"
          /\ \A o \in Callers \ {c} : pc'[o] = pc[o] /\ current'[o] = current[o]
      BY <1>1, <1>5, OutsideValues DEF Shed, AdmissionTypeOK
    <2>2. Outside'[c] = "busy"
      BY <2>1 DEF Outside
    <2>3. Outside = [o \in Callers |-> Outside[o]]
      BY DEF Outside
    <2>4. QED
      BY <2>1, <2>2, <2>3, OutsideChanges
  <1>6. CASE UNCHANGED admissionVars
    BY <1>6 DEF admissionVars, Outside
  <1>7. QED
    BY <1>2, <1>3, <1>4, <1>5, <1>6 DEF AdmissionNext, Running

\* try_admit implements an atomic, queueless semaphore: Busy is the answer of
\* a gate that was full, and a permit the answer of one that was not.
THEOREM AdmissionIsSemaphore == AdmissionSpec => ImplementsSemaphore
  <1>1. GateInv /\ GateInv' /\ [AdmissionNext]_admissionVars => [Gate!Next]_Outside
    BY StepRefinesSemaphore DEF GateInv
  <1>2. QED
    BY GateStartsAsSemaphore, GateInvariant, <1>1, PTL
       DEF AdmissionSpec, ImplementsSemaphore, Gate!Spec

-----------------------------------------------------------------------------
(* The Delta stays a lineage *)

\* The inductive invariant.
DeltaInv == TypeOK /\ Lineage(delta)

\* Update keeps a lineage, whether it accepts its batch or not.
LEMMA UpdateLineage ==
    ASSUME NEW d \in DeltaType, Lineage(d), NEW batch \in Seq(InputRow)
    PROVE  Update(d, batch) \in DeltaType /\ Lineage(Update(d, batch))
  <1> DEFINE ids == {batch[i].id : i \in DOMAIN batch}
             e == Delete(d, ids)
  <1>1. ids \in SUBSET Ids
    <2>1. \A i \in DOMAIN batch : batch[i] \in InputRow
      OBVIOUS
    <2>2. QED BY <2>1 DEF InputRow
  <1>2. e \in DeltaType /\ Lineage(e)
    <2> HIDE DEF ids
    <2> QED BY <1>1, DeleteShape, DeleteLineage
  <1>3. CASE Accepts(batch)
    <2>1. Update(d, batch) = Insert(e, batch)
      BY <1>3 DEF Update
    <2> HIDE DEF e
    <2>2. Insert(e, batch) \in DeltaType /\ Lineage(Insert(e, batch))
      BY <1>2, <1>3, InsertShape, InsertLineage DEF Lineage
    <2>3. QED BY <2>1, <2>2
  <1>4. CASE ~Accepts(batch)
    BY <1>4 DEF Update
  <1>5. QED BY <1>3, <1>4

\* The state is well typed in every behaviour, and the Delta is a well-formed
\* lineage, whatever is inserted, deleted, updated and merged, in any order.
THEOREM DeltaInvariant == Spec => []DeltaInv
  <1>1. Init => DeltaInv
    <2> SUFFICES ASSUME Init PROVE DeltaInv
      OBVIOUS
    <2>1. delta \in DeltaType /\ Lineage(delta)
      BY NewDeltaLineage DEF Init
    <2>2. calls \in 0..MaxCalls
      BY RetrievalAssumption DEF Init
    <2>3. QED BY <2>1, <2>2 DEF DeltaInv, TypeOK
  <1>2. DeltaInv /\ [Next]_vars => DeltaInv'
    <2> SUFFICES ASSUME DeltaInv, [Next]_vars PROVE DeltaInv'
      OBVIOUS
    <2> USE DEF DeltaInv, TypeOK
    <2>1. CASE Next
      <3>1. calls' \in 0..MaxCalls
        BY <2>1, RetrievalAssumption DEF Next
      <3>2. ASSUME NEW batch \in Batches, InsertBatch(batch)
            PROVE  delta' \in DeltaType /\ Lineage(delta')
        BY <3>2, BatchesAssumption, InsertShape, InsertLineage
           DEF InsertBatch, Lineage
      <3>3. ASSUME NEW batch \in Batches, UpdateBatch(batch)
            PROVE  delta' \in DeltaType /\ Lineage(delta')
        BY <3>3, BatchesAssumption, UpdateLineage DEF UpdateBatch
      <3>4. ASSUME NEW ids \in SUBSET Ids, DeleteIds(ids)
            PROVE  delta' \in DeltaType /\ Lineage(delta')
        BY <3>4, DeleteShape, DeleteLineage DEF DeleteIds
      <3>5. ASSUME Compact
            PROVE  delta' \in DeltaType /\ Lineage(delta')
        BY <3>5, MergeIsSound DEF Compact
      <3>6. QED BY <2>1, <3>1, <3>2, <3>3, <3>4, <3>5 DEF Next
    <2>2. CASE UNCHANGED vars
      BY <2>2 DEF vars
    <2>3. QED BY <2>1, <2>2
  <1>3. QED BY <1>1, <1>2, PTL DEF Spec

-----------------------------------------------------------------------------
(* Filtering *)

\* A filter lists the rows at the positions it keeps, each once.
LEMMA RowsAtLists ==
    ASSUME NEW d \in DeltaType, NEW S \in SUBSET DOMAIN d.rows
    PROVE  /\ IsFiniteSet(S) /\ Cardinality(S) \in Nat
           /\ DOMAIN RowsAt(d, S) = 1..Cardinality(S)
           /\ Len(RowsAt(d, S)) = Cardinality(S)
           /\ \A n \in 1..Cardinality(S) :
                 /\ Ascending(S)[n] \in S
                 /\ RowsAt(d, S)[n] = d.rows[Ascending(S)[n]]
           /\ \A i \in S : \E n \in 1..Cardinality(S) : Ascending(S)[n] = i
           /\ \A m, n \in 1..Cardinality(S) :
                 Ascending(S)[m] = Ascending(S)[n] => m = n
  <1> DEFINE N == Cardinality(S)
             order == Ascending(S)
             rows == [i \in 1..Len(order) |-> d.rows[order[i]]]
  <1>1. S \in SUBSET Nat /\ IsFiniteSet(S)
    <2>1. S \subseteq 1..Len(d.rows) /\ Len(d.rows) \in Nat
      BY DeltaFields
    <2>2. IsFiniteSet(1..Len(d.rows))
      <3>1. PICK l \in Nat : l = Len(d.rows)
        BY <2>1
      <3>2. l \in Int /\ 1 \in Int
        OBVIOUS
      <3>3. IsFiniteSet(1..l)
        BY <3>2, FS_Interval
      <3>4. QED BY <3>1, <3>3
    <2>3. QED BY <2>1, <2>2, FS_Subset
  <1>2. /\ N \in Nat
        /\ order \in Seq(S)
        /\ Len(order) = N
        /\ \A i \in S : \E n \in 1..N : order[n] = i
    BY <1>1, AscendingLists
  <1>3. \A m, n \in 1..N : order[m] = order[n] => m = n
    BY <1>1, AscendingDistinct
  <1>4. RowsAt(d, S) = rows
    BY DEF RowsAt
  <1> HIDE DEF order, N
  <1>5. \A n \in 1..N : order[n] \in S
    BY <1>2
  <1>6. DOMAIN rows = 1..N /\ Len(rows) = N /\ \A n \in 1..N : rows[n] = d.rows[order[n]]
    BY <1>2
  <1> HIDE DEF rows
  <1>7. QED
    BY <1>1, <1>2, <1>3, <1>4, <1>5, <1>6 DEF N, order

-----------------------------------------------------------------------------
(* What a search answers *)

\* Min of k and a length is what truncation keeps.
LEMMA MinIs ==
    ASSUME NEW k \in Nat, NEW n \in Nat
    PROVE  Min({k, n}) = IF n < k THEN n ELSE k
  <1> DEFINE l == IF n < k THEN n ELSE k
  <1>1. l \in {k, n} /\ \A x \in {k, n} : l <= x
    OBVIOUS
  <1>2. \A y \in {k, n} : (\A x \in {k, n} : y <= x) => y = l
    OBVIOUS
  <1> HIDE DEF l
  <1>3. Min({k, n}) = l
    BY <1>1, <1>2 DEF Min
  <1>4. QED BY <1>3 DEF l

\* pos lists S, each position once, in the order of (distance from q, id).
Listing(d, S, q, pos) ==
    LET N == Cardinality(S)
    IN  /\ pos \in [1..N -> S]
        /\ \A i \in S : \E n \in 1..N : pos[n] = i
        /\ \A m, n \in 1..N : pos[m] = pos[n] => m = n
        /\ \A m, n \in 1..N : m < n =>
              LET a == d.rows[pos[m]]
                  b == d.rows[pos[n]]
              IN  \/ Score[q][a.value] < Score[q][b.value]
                  \/ /\ Score[q][a.value] = Score[q][b.value]
                     /\ a.id <= b.id

\* The nearest k of the rows at kept positions: pos lists the positions of the
\* filtered rows in the order of the sort, and the hits are the first of them.
LEMMA NearestLists ==
    ASSUME NEW d \in DeltaType, NEW S \in SUBSET DOMAIN d.rows,
           NEW q \in Queries, NEW k \in Nat
    PROVE  LET N == Cardinality(S)
               L == IF N < k THEN N ELSE k
               hits == Nearest(q, RowsAt(d, S), k)
           IN  /\ IsFiniteSet(S) /\ N \in Nat /\ L \in 0..N
               /\ hits \in Seq(Hit) /\ Len(hits) = L
               /\ \E pos : /\ Listing(d, S, q, pos)
                           /\ \A n \in 1..L :
                                 /\ hits[n].id = d.rows[pos[n]].id
                                 /\ hits[n].value = d.rows[pos[n]].value
  <1> DEFINE N == Cardinality(S)
             L == IF N < k THEN N ELSE k
             rows == RowsAt(d, S)
             order == Ascending(S)
             sc == Scored(q, rows)
             out == SortBy(sc, ByDistanceThenId)
             hits == Nearest(q, RowsAt(d, S), k)
  <1>1. /\ IsFiniteSet(S) /\ N \in Nat
        /\ DOMAIN rows = 1..N /\ Len(rows) = N
        /\ \A n \in 1..N : order[n] \in S /\ rows[n] = d.rows[order[n]]
        /\ \A i \in S : \E n \in 1..N : order[n] = i
        /\ \A m, n \in 1..N : order[m] = order[n] => m = n
    BY RowsAtLists
  <1>2. hits = Truncate(out, k)
    BY DEF Nearest
  <1>3. \A i \in S : /\ d.rows[i].id \in Ids /\ d.rows[i].id \in Int
                     /\ d.rows[i].value \in Values
                     /\ Score[q][d.rows[i].value] \in Int
    <2>1. \A i \in S : d.rows[i].id \in Ids /\ d.rows[i].value \in Values
      BY DeltaFields
    <2>2. \A id \in Ids : id \in Int
      BY RowsAssumption
    <2>3. \A v \in Values : Score[q][v] \in Int
      BY RetrievalAssumption
    <2>4. QED BY <2>1, <2>2, <2>3
  <1>4. sc = [n \in 1..N |-> [id |-> rows[n].id, distance |-> Score[q][rows[n].value],
                              value |-> rows[n].value]]
    <2> HIDE DEF rows, N
    <2> QED BY <1>1 DEF Scored
  <1> HIDE DEF N, rows, order, sc, out, hits
  <1>5. DOMAIN sc = 1..N
        /\ \A n \in 1..N : /\ sc[n].id = d.rows[order[n]].id
                           /\ sc[n].value = d.rows[order[n]].value
                           /\ sc[n].distance = Score[q][d.rows[order[n]].value]
                           /\ sc[n] \in Hit
                           /\ sc[n].distance \in Int /\ sc[n].id \in Int
    <2>1. ASSUME NEW n \in 1..N
          PROVE  /\ sc[n].id = d.rows[order[n]].id
                 /\ sc[n].value = d.rows[order[n]].value
                 /\ sc[n].distance = Score[q][d.rows[order[n]].value]
                 /\ sc[n] \in Hit
                 /\ sc[n].distance \in Int /\ sc[n].id \in Int
      <3>1. PICK i \in S : i = order[n] /\ rows[n] = d.rows[i]
        BY <1>1
      <3>2. sc[n] = [id |-> d.rows[i].id, distance |-> Score[q][d.rows[i].value],
                     value |-> d.rows[i].value]
        BY <1>4, <3>1
      <3>3. QED BY <1>3, <3>1, <3>2 DEF Hit
    <2>2. QED BY <1>4, <2>1
  <1>6. PICK p \in [1..N -> 1..N] :
           /\ out = [n \in 1..N |-> sc[p[n]]]
           /\ \A i \in 1..N : \E n \in 1..N : p[n] = i
           /\ \A m, n \in 1..N : p[m] = p[n] => m = n
           /\ \A m, n \in 1..N : m < n => Precedes(sc, p[m], p[n])
    <2>1. N \in Nat /\ DOMAIN sc = 1..N
      BY <1>1, <1>5
    <2>2. \A i \in 1..N : sc[i].distance \in Int /\ sc[i].id \in Int
      BY <1>5
    <2>3. \E p \in [1..N -> 1..N] :
             /\ SortBy(sc, ByDistanceThenId) = [n \in 1..N |-> sc[p[n]]]
             /\ \A i \in 1..N : \E n \in 1..N : p[n] = i
             /\ \A m, n \in 1..N : p[m] = p[n] => m = n
             /\ \A m, n \in 1..N : m < n => Precedes(sc, p[m], p[n])
      BY ONLY <2>1, <2>2, SortByLists, Zenon
    <2>4. QED BY <2>3 DEF out
  <1>7. out \in Seq(Hit) /\ Len(out) = N
    <2>1. \A n \in 1..N : sc[p[n]] \in Hit
      BY <1>5
    <2>2. out \in [1..N -> Hit]
      BY <1>6, <2>1
    <2>3. QED BY <1>1, <2>2
  <1>8. L \in 0..N /\ hits = SubSeq(out, 1, L)
    BY <1>1, <1>2, <1>7 DEF Truncate
  <1> HIDE DEF L
  <1>9. hits \in Seq(Hit) /\ Len(hits) = L /\ \A n \in 1..L : hits[n] = out[n]
    BY <1>1, <1>7, <1>8
  <1> DEFINE pos == [n \in 1..N |-> order[p[n]]]
  <1>10. pos \in [1..N -> S]
    BY <1>1
  <1>11. ASSUME NEW n \in 1..L
         PROVE  /\ hits[n].id = d.rows[pos[n]].id
                /\ hits[n].value = d.rows[pos[n]].value
    <2>1. n \in 1..N
      BY <1>1, <1>8
    <2>2. hits[n] = sc[p[n]] /\ p[n] \in 1..N
      BY <1>6, <1>9, <2>1
    <2>3. QED BY <1>5, <2>1, <2>2
  <1>12. ASSUME NEW i \in S PROVE \E n \in 1..N : pos[n] = i
    <2>1. PICK j \in 1..N : order[j] = i
      BY <1>1
    <2>2. PICK n \in 1..N : p[n] = j
      BY <1>6
    <2>3. QED BY <2>1, <2>2
  <1>13. ASSUME NEW m \in 1..N, NEW n \in 1..N, m < n
         PROVE  LET a == d.rows[pos[m]]
                    b == d.rows[pos[n]]
                IN  \/ Score[q][a.value] < Score[q][b.value]
                    \/ /\ Score[q][a.value] = Score[q][b.value]
                       /\ a.id <= b.id
    <2> DEFINE i == p[m]
               j == p[n]
    <2>1. i \in 1..N /\ j \in 1..N /\ Precedes(sc, i, j)
      BY <1>6, <1>13
    <2>2. pos[m] = order[i] /\ pos[n] = order[j]
      OBVIOUS
    <2> HIDE DEF i, j, pos
    <2>3. \/ sc[i].distance < sc[j].distance
          \/ sc[i].distance = sc[j].distance /\ sc[i].id < sc[j].id
          \/ /\ ~(sc[j].distance < sc[i].distance)
             /\ ~(sc[j].distance = sc[i].distance /\ sc[j].id < sc[i].id)
      BY <2>1, LessIs DEF Precedes
    <2>4. /\ sc[i].distance \in Int /\ sc[i].id \in Int
          /\ sc[j].distance \in Int /\ sc[j].id \in Int
      BY <1>5, <2>1
    <2>5. \/ sc[i].distance < sc[j].distance
          \/ sc[i].distance = sc[j].distance /\ sc[i].id <= sc[j].id
      BY <2>3, <2>4
    <2>6. QED BY <1>5, <2>1, <2>2, <2>5
  <1>14. ASSUME NEW m \in 1..N, NEW n \in 1..N, pos[m] = pos[n]
         PROVE  m = n
    <2>1. p[m] \in 1..N /\ p[n] \in 1..N /\ order[p[m]] = order[p[n]]
      BY <1>14
    <2> HIDE DEF pos
    <2>2. p[m] = p[n]
      <3>1. \A i, j \in 1..N : order[i] = order[j] => i = j
        BY ONLY <1>1
      <3>2. QED BY ONLY <2>1, <3>1
    <2>3. QED BY <1>6, <2>2
  <1>15. QED
    <2> HIDE DEF pos
    <2>1. Listing(d, S, q, pos)
      BY <1>10, <1>12, <1>13, <1>14 DEF Listing, N
    <2>2. \E f : /\ Listing(d, S, q, f)
                 /\ \A n \in 1..L : /\ hits[n].id = d.rows[f[n]].id
                                    /\ hits[n].value = d.rows[f[n]].value
      BY <1>11, <2>1
    <2>3. QED
      BY <1>1, <1>8, <1>9, <2>2, Zenon DEF N, L, hits

\* A finite set of at most one member has no two members.
LEMMA AtMostOne ==
    ASSUME NEW S, IsFiniteSet(S), Cardinality(S) <= 1, NEW x \in S, NEW y \in S
    PROVE  x = y
  <1> SUFFICES ASSUME x # y PROVE FALSE
    OBVIOUS
  <1>1. IsFiniteSet({x}) /\ Cardinality({x}) = 1
    BY FS_Singleton
  <1>2. Cardinality({x} \cup {y}) = 2
    <2>1. y \notin {x}
      OBVIOUS
    <2>2. Cardinality({x} \cup {y}) = Cardinality({x}) + 1
      BY ONLY <1>1, <2>1, FS_AddElement, Zenon
    <2>3. QED BY ONLY <1>1, <2>2
  <1>3. Cardinality({x} \cup {y}) <= Cardinality(S)
    <2>1. {x} \cup {y} \in SUBSET S
      OBVIOUS
    <2>2. QED BY <2>1, FS_Subset
  <1>4. Cardinality(S) \in Nat
    BY FS_CardinalityType
  <1>5. QED BY <1>2, <1>3, <1>4

\* The positions of an id's visible rows.
LEMMA VisibleFinite ==
    ASSUME NEW d \in DeltaType, NEW id
    PROVE  /\ VisiblePositions(d, id) \in SUBSET DOMAIN d.rows
           /\ VisiblePositions(d, id) \in SUBSET (0..Len(d.rows))
           /\ IsFiniteSet(VisiblePositions(d, id))
           /\ Len(d.rows) \in Nat
  <1>1. VisiblePositions(d, id) \in SUBSET DOMAIN d.rows
    BY DEF VisiblePositions
  <1>2. DOMAIN d.rows = 1..Len(d.rows) /\ Len(d.rows) \in Nat
    BY DeltaFields
  <1>3. VisiblePositions(d, id) \in SUBSET (0..Len(d.rows))
    BY <1>1, <1>2
  <1>4. IsFiniteSet(VisiblePositions(d, id))
    BY <1>1, RowsAtLists
  <1>5. QED BY <1>1, <1>2, <1>3, <1>4

\* The newest visible payload of an id, from its positions.
LEMMA NewestIs ==
    ASSUME NEW d, NEW id \in Ids
    PROVE  /\ VisiblePositions(d, id) = {} => NewestVisible(d)[id] = Absent
           /\ VisiblePositions(d, id) # {} =>
                 NewestVisible(d)[id] = d.rows[Max(VisiblePositions(d, id))].value
  <1>1. NewestVisible(d)[id] =
           IF VisiblePositions(d, id) = {} THEN Absent
           ELSE d.rows[Max(VisiblePositions(d, id))].value
    BY Zenon DEF NewestVisible
  <1>2. QED BY <1>1, Zenon

\* When no id is visible twice, a visible row is its id's newest payload.
LEMMA VisibleIsNewest ==
    ASSUME NEW d \in DeltaType, OneVersionEach(d), NEW i \in DOMAIN d.rows,
           ~IsRecordTombstoned(d, d.rows[i])
    PROVE  /\ d.rows[i].id \in Ids /\ d.rows[i].value \in Values
           /\ NewestVisible(d)[d.rows[i].id] = d.rows[i].value
           /\ \A j \in VisiblePositions(d, d.rows[i].id) : j = i
  <1> DEFINE id == d.rows[i].id
             P == VisiblePositions(d, id)
  <1>1. id \in Ids /\ d.rows[i].value \in Values
    BY DeltaFields
  <1>2. i \in P
    BY DEF VisiblePositions
  <1>3. P \in SUBSET (0..Len(d.rows)) /\ IsFiniteSet(P) /\ Len(d.rows) \in Nat
    BY VisibleFinite
  <1>4. Cardinality(P) <= 1
    BY <1>1 DEF OneVersionEach
  <1> HIDE DEF P, id
  <1>5. \A j \in P : j = i
    BY <1>2, <1>3, <1>4, AtMostOne
  <1>6. Max(P) = i
    <2>1. P # {}
      BY <1>2
    <2>2. Max(P) \in P
      BY <1>3, <2>1, MaxOfBounded
    <2>3. QED BY <1>5, <2>2
  <1>7. NewestVisible(d)[id] = d.rows[Max(P)].value
    <2>1. P # {} /\ P = VisiblePositions(d, id)
      BY <1>2 DEF P
    <2>2. QED BY <1>1, <2>1, NewestIs
  <1>8. QED BY <1>1, <1>5, <1>6, <1>7 DEF P, id

\* The ids whose newest visible payload passes are the ids of the rows found.
LEMMA FoundArePassing ==
    ASSUME NEW d \in DeltaType, OneVersionEach(d), NEW predicate, NEW id \in Ids
    PROVE  /\ NewestVisible(d)[id] # Absent
           /\ Passes(predicate, [value |-> NewestVisible(d)[id]])
           <=> \E i \in Found(d, predicate) : d.rows[i].id = id
  <1>1. ASSUME NEW i \in Found(d, predicate), d.rows[i].id = id
        PROVE  /\ NewestVisible(d)[id] # Absent
               /\ Passes(predicate, [value |-> NewestVisible(d)[id]])
    <2>1. /\ i \in DOMAIN d.rows /\ ~IsRecordTombstoned(d, d.rows[i])
          /\ Passes(predicate, d.rows[i])
      BY DEF Found
    <2>2. NewestVisible(d)[id] = d.rows[i].value /\ d.rows[i].value \in Values
      BY <1>1, <2>1, VisibleIsNewest
    <2>3. QED BY <2>1, <2>2, RowsAssumption DEF Passes
  <1>2. ASSUME NewestVisible(d)[id] # Absent,
               Passes(predicate, [value |-> NewestVisible(d)[id]])
        PROVE  \E i \in Found(d, predicate) : d.rows[i].id = id
    <2> DEFINE P == VisiblePositions(d, id)
               m == Max(P)
    <2>1. P # {} /\ NewestVisible(d)[id] = d.rows[m].value
      BY <1>2, NewestIs
    <2>2. P \in SUBSET (0..Len(d.rows)) /\ Len(d.rows) \in Nat
      BY VisibleFinite
    <2>3. m \in P
      <3> HIDE DEF P
      <3> QED BY <2>1, <2>2, MaxOfBounded
    <2>4. /\ m \in DOMAIN d.rows /\ d.rows[m].id = id
          /\ ~IsRecordTombstoned(d, d.rows[m])
      <3> HIDE DEF m
      <3> QED BY <2>3 DEF VisiblePositions
    <2> HIDE DEF m, P
    <2>5. Passes(predicate, d.rows[m])
      BY <1>2, <2>1 DEF Passes
    <2>6. m \in Found(d, predicate)
      BY <2>4, <2>5 DEF Found
    <2>7. QED BY <2>4, <2>6
  <1>3. QED BY <1>1, <1>2

\* The nearest k of the rows found are the nearest k of the abstract Table.
LEMMA NearestIsTopK ==
    ASSUME NEW d \in DeltaType, OneVersionEach(d), NEW q \in Queries,
           NEW k \in Nat, NEW predicate
    PROVE  IsTopK(Nearest(q, RowsAt(d, Found(d, predicate)), k),
                  NewestVisible(d), q, predicate, k)
  <1> DEFINE S == Found(d, predicate)
             N == Cardinality(S)
             L == IF N < k THEN N ELSE k
             hits == Nearest(q, RowsAt(d, S), k)
             table == NewestVisible(d)
             passing == {id \in Ids :
                            /\ table[id] # Absent
                            /\ Passes(predicate, [value |-> table[id]])}
             found == {hits[i].id : i \in DOMAIN hits}
             Before(a, b) ==
                 \/ Score[q][table[a]] < Score[q][table[b]]
                 \/ Score[q][table[a]] = Score[q][table[b]] /\ a < b
  <1>1. S \in SUBSET DOMAIN d.rows
    BY DEF Found
  <1>2. /\ IsFiniteSet(S) /\ N \in Nat /\ L \in 0..N
        /\ hits \in Seq(Hit) /\ Len(hits) = L
        /\ \E pos : /\ Listing(d, S, q, pos)
                    /\ \A n \in 1..L : /\ hits[n].id = d.rows[pos[n]].id
                                       /\ hits[n].value = d.rows[pos[n]].value
    <2>1. d \in DeltaType /\ q \in Queries /\ k \in Nat
      OBVIOUS
    <2> HIDE DEF S
    <2>2. QED BY ONLY <1>1, <2>1, NearestLists, Zenon
  <1>3. PICK pos : /\ Listing(d, S, q, pos)
                   /\ \A n \in 1..L : /\ hits[n].id = d.rows[pos[n]].id
                                      /\ hits[n].value = d.rows[pos[n]].value
    BY <1>2, Zenon
  <1>3a. /\ pos \in [1..N -> S]
         /\ \A i \in S : \E n \in 1..N : pos[n] = i
         /\ \A m, n \in 1..N : pos[m] = pos[n] => m = n
         /\ \A m, n \in 1..N : m < n =>
               LET a == d.rows[pos[m]]
                   b == d.rows[pos[n]]
               IN  \/ Score[q][a.value] < Score[q][b.value]
                   \/ /\ Score[q][a.value] = Score[q][b.value]
                      /\ a.id <= b.id
    <2> HIDE DEF S
    <2> QED BY <1>3 DEF Listing
  <1>4. ASSUME NEW i \in S
        PROVE  /\ d.rows[i].id \in Ids /\ d.rows[i].value \in Values
               /\ table[d.rows[i].id] = d.rows[i].value
               /\ \A j \in S : d.rows[j].id = d.rows[i].id => j = i
    <2>1. i \in DOMAIN d.rows /\ ~IsRecordTombstoned(d, d.rows[i])
      BY DEF Found
    <2>2. \A j \in S : d.rows[j].id = d.rows[i].id
                           => j \in VisiblePositions(d, d.rows[i].id)
      BY DEF Found, VisiblePositions
    <2> HIDE DEF S
    <2>3. QED BY <2>1, <2>2, VisibleIsNewest
  <1>5. \A id : id \in passing <=> id \in Ids /\ \E i \in S : d.rows[i].id = id
    BY FoundArePassing
  <1> HIDE DEF S, hits, passing, table
  <1>6. Cardinality(passing) = N
    <2> DEFINE f == [i \in S |-> d.rows[i].id]
    <2>1. f \in [S -> passing]
      BY <1>4, <1>5
    <2>2. \A id \in passing : \E i \in S : f[i] = id
      BY <1>5
    <2>3. \A i, j \in S : f[i] = f[j] => i = j
      BY <1>4
    <2> HIDE DEF f
    <2>4. f \in Bijection(S, passing)
      BY <2>1, <2>2, <2>3, Fun_IsBij
    <2>5. ExistsBijection(S, passing)
      BY <2>4 DEF ExistsBijection
    <2>6. QED BY <1>2, <2>5, FS_Bijection
  <1>7. Len(hits) = Min({k, Cardinality(passing)})
    BY <1>2, <1>6, MinIs
  <1>8. DOMAIN hits = 1..L /\ \A n \in 1..L : n \in 1..N
    BY <1>2
  <1> HIDE DEF N, L
  <1>9. \A n \in 1..N : /\ pos[n] \in S
                        /\ d.rows[pos[n]].id \in Ids
                        /\ d.rows[pos[n]].id \in passing
                        /\ table[d.rows[pos[n]].id] = d.rows[pos[n]].value
    BY <1>3a, <1>4, <1>5
  <1>10. found \subseteq passing
    BY <1>3, <1>3a, <1>8, <1>9
  <1>11. \A i \in DOMAIN hits : hits[i].value = table[hits[i].id]
    BY <1>3, <1>3a, <1>8, <1>9
  <1>12. ASSUME NEW m \in 1..N, NEW n \in 1..N, m < n,
                d.rows[pos[m]].id # d.rows[pos[n]].id
         PROVE  Before(d.rows[pos[m]].id, d.rows[pos[n]].id)
    <2> DEFINE a == d.rows[pos[m]]
               b == d.rows[pos[n]]
    <2>1. \/ Score[q][a.value] < Score[q][b.value]
          \/ Score[q][a.value] = Score[q][b.value] /\ a.id <= b.id
      BY <1>3, <1>3a, <1>12
    <2>2. a.id \in Nat /\ b.id \in Nat /\ a.id # b.id
      BY <1>9, <1>12, RowsAssumption
    <2>3. table[a.id] = a.value /\ table[b.id] = b.value
      BY <1>9
    <2> HIDE DEF a, b
    <2>4. Before(a.id, b.id)
      BY <2>1, <2>2, <2>3
    <2>5. QED BY <2>4 DEF a, b
  <1>13. ASSUME NEW m \in 1..N, NEW n \in 1..N,
                d.rows[pos[m]].id = d.rows[pos[n]].id
         PROVE  m = n
    <2>1. pos[m] = pos[n]
      BY <1>4, <1>9, <1>13
    <2>2. QED BY <1>3, <1>3a, <2>1
  <1>14. ASSUME NEW i \in DOMAIN hits, NEW j \in DOMAIN hits, i < j
         PROVE  Before(hits[i].id, hits[j].id)
    <2>1. i \in 1..L /\ j \in 1..L /\ i \in 1..N /\ j \in 1..N
      BY <1>8
    <2>2. hits[i].id = d.rows[pos[i]].id /\ hits[j].id = d.rows[pos[j]].id
      BY <1>3, <1>3a, <2>1
    <2>3. d.rows[pos[i]].id # d.rows[pos[j]].id
      BY <1>13, <1>14, <2>1
    <2>4. Before(d.rows[pos[i]].id, d.rows[pos[j]].id)
      BY <1>12, <1>14, <2>1, <2>3
    <2>5. QED BY <2>2, <2>4
  <1>15. ASSUME NEW out \in passing \ found, NEW in \in found
         PROVE  Before(in, out)
    <2>1. PICK m \in 1..L : in = hits[m].id
      BY <1>8
    <2>2. m \in 1..N /\ in = d.rows[pos[m]].id
      BY <1>3, <1>3a, <1>8, <2>1
    <2>3. PICK n \in 1..N : out = d.rows[pos[n]].id
      BY <1>3, <1>3a, <1>5
    <2>4. n \notin 1..L
      <3>1. ASSUME n \in 1..L PROVE out \in found
        BY <1>3, <1>3a, <1>8, <2>3, <3>1
      <3>2. QED BY <3>1
    <2>5. m < n
      BY <1>2, <2>1, <2>2, <2>4
    <2>6. in # out
      OBVIOUS
    <2>7. QED BY <1>12, <2>2, <2>3, <2>5, <2>6
  <1> HIDE DEF found, Before
  <1>16. /\ Len(hits) = Min({k, Cardinality(passing)})
         /\ found \subseteq passing
         /\ \A i \in DOMAIN hits : hits[i].value = table[hits[i].id]
         /\ \A i, j \in DOMAIN hits : i < j => Before(hits[i].id, hits[j].id)
         /\ \A out \in passing \ found, in \in found : Before(in, out)
    BY <1>7, <1>10, <1>11, <1>14, <1>15
  <1>17. IsTopK(hits, table, q, predicate, k)
    BY <1>16, Zenon DEF IsTopK, passing, found, Before
  <1>18. QED
    BY <1>17 DEF hits, table, S

\* The session's search refuses a request or answers the nearest k it finds.
LEMMA SearchAnswers ==
    ASSUME NEW d, NEW q, NEW node, NEW k
    PROVE  LET predicate == ParseOptional(node)
           IN  SearchAdvanced(d, q, node, k) =
                  IF \/ ~TopKAccepted(k) \/ predicate = Refused
                     \/ q = Misfit \/ ~Valid(predicate)
                  THEN Refused
                  ELSE Nearest(q, RowsAt(d, Found(d, predicate)), k)
  BY Zenon DEF SearchAdvanced, Search

\* Whatever was inserted, deleted, updated and merged before, an answered
\* search is the k nearest of the Table's newest visible payloads, in the order
\* of (distance, id), ties and NaN distances included: it does not depend on
\* where the rows are in the Delta, so a compaction does not change it.
THEOREM SearchesAnswerNewest == Spec => []SearchIsNewestVisible
  <1>1. DeltaInv => SearchIsNewestVisible
    <2> SUFFICES ASSUME DeltaInv, OneVersionEach(delta),
                        NEW q \in Queries, NEW node \in Nodes \cup {NoPredicate},
                        NEW k \in 1..MaxTopK,
                        SearchAdvanced(delta, q, node, k) # Refused
                 PROVE  IsTopK(SearchAdvanced(delta, q, node, k),
                               NewestVisible(delta), q, ParseOptional(node), k)
      BY DEF SearchIsNewestVisible
    <2>1. delta \in DeltaType /\ k \in Nat
      BY RetrievalAssumption DEF DeltaInv, TypeOK
    <2>2. SearchAdvanced(delta, q, node, k)
             = Nearest(q, RowsAt(delta, Found(delta, ParseOptional(node))), k)
      BY SearchAnswers, Zenon
    <2>3. IsTopK(Nearest(q, RowsAt(delta, Found(delta, ParseOptional(node))), k),
                 NewestVisible(delta), q, ParseOptional(node), k)
      BY <2>1, NearestIsTopK
    <2>4. QED BY <2>2, <2>3
  <1>2. QED BY <1>1, DeltaInvariant, PTL

\* Without Tombstones the rows stored are the rows found.
LEMMA StoredAreFound ==
    ASSUME NEW d, d.tombstones = {}, NEW predicate
    PROVE  Stored(d, predicate) = Found(d, predicate)
  BY DEF Stored, Found, IsRecordTombstoned

\* What the oracle answers, whatever k.
LEMMA OracleIs ==
    ASSUME NEW d, d.tombstones = {}, NEW q, NEW node, NEW k
    PROVE  LET predicate == ParseOptional(node)
           IN  ExactSearchAdvanced(d, q, node, k) =
                  IF \/ q = Misfit \/ k = 0 \/ predicate = Refused
                     \/ ~Valid(predicate)
                  THEN Refused
                  ELSE Nearest(q, RowsAt(d, Found(d, predicate)), k)
  <1> DEFINE predicate == ParseOptional(node)
  <1>1. Stored(d, predicate) = Found(d, predicate)
    BY StoredAreFound
  <1>2. ExactSearchAdvanced(d, q, node, k) =
           IF \/ q = Misfit \/ k = 0 \/ predicate = Refused \/ ~Valid(predicate)
           THEN Refused
           ELSE Nearest(q, RowsAt(d, Stored(d, predicate)), k)
    BY Zenon DEF ExactSearchAdvanced
  <1>3. QED BY <1>1, <1>2, Zenon

\* Asked for more than m, the nearest begin with the nearest m.
LEMMA NearestGoOn ==
    ASSUME NEW d \in DeltaType, NEW S \in SUBSET DOMAIN d.rows, NEW q,
           NEW k \in Nat, NEW m \in Nat, m <= k
    PROVE  Truncate(Nearest(q, RowsAt(d, S), k), m) = Nearest(q, RowsAt(d, S), m)
  <1> DEFINE N == Cardinality(S)
             rows == RowsAt(d, S)
             out == SortBy(Scored(q, rows), ByDistanceThenId)
  <1>1. N \in Nat /\ DOMAIN rows = 1..N
    BY RowsAtLists
  <1>2. DOMAIN out = 1..N
    <2> HIDE DEF N, rows
    <2>1. DOMAIN Scored(q, rows) = 1..N
      BY <1>1 DEF Scored
    <2>2. QED BY <2>1 DEF SortBy
  <1>3. Nearest(q, rows, k) = Truncate(out, k) /\ Nearest(q, rows, m) = Truncate(out, m)
    BY DEF Nearest
  <1> HIDE DEF N, rows, out
  <1>4. Truncate(Truncate(out, k), m) = Truncate(out, m)
    BY <1>1, <1>2, CutTwice
  <1>5. QED BY <1>3, <1>4 DEF rows

\* For every k: up to the limit the oracle and the search answer alike; beyond
\* it the search refuses and the oracle goes on where it would have ended.
LEMMA OracleFollows ==
    ASSUME NEW d \in DeltaType, d.tombstones = {}, NEW node,
           NEW q \in Queries \cup {Misfit}, NEW k \in Nat
    PROVE  LET exact == ExactSearchAdvanced(d, q, node, k)
               hits == SearchAdvanced(d, q, node, k)
               most == SearchAdvanced(d, q, node, MaxTopK)
           IN  IF k <= MaxTopK THEN exact = hits
               ELSE /\ hits = Refused
                    /\ IF most = Refused THEN exact = Refused
                       ELSE exact # Refused /\ Truncate(exact, MaxTopK) = most
  <1> DEFINE predicate == ParseOptional(node)
             refuses == q = Misfit \/ predicate = Refused \/ ~Valid(predicate)
             S == Found(d, predicate)
             near(n) == Nearest(q, RowsAt(d, S), n)
             exact == ExactSearchAdvanced(d, q, node, k)
             hits == SearchAdvanced(d, q, node, k)
             most == SearchAdvanced(d, q, node, MaxTopK)
  <1>1. exact = IF k = 0 \/ refuses THEN Refused ELSE near(k)
    BY OracleIs, Zenon
  <1>2. hits = IF ~TopKAccepted(k) \/ refuses THEN Refused ELSE near(k)
    BY SearchAnswers, Zenon
  <1>3. most = IF ~TopKAccepted(MaxTopK) \/ refuses THEN Refused ELSE near(MaxTopK)
    BY SearchAnswers, Zenon
  <1>4. /\ MaxTopK \in Nat \ {0}
        /\ TopKAccepted(k) <=> k # 0 /\ k <= MaxTopK
        /\ TopKAccepted(MaxTopK)
    BY RetrievalAssumption DEF TopKAccepted
  <1>5. S \in SUBSET DOMAIN d.rows
    BY DEF Found
  <1>6. ~refuses => near(k) # Refused /\ near(MaxTopK) # Refused
    <2>1. ~refuses => q \in Queries
      OBVIOUS
    <2> HIDE DEF refuses, S
    <2>2. q \in Queries => near(k) \in Seq(Hit) /\ near(MaxTopK) \in Seq(Hit)
      BY <1>4, <1>5, NearestLists
    <2> HIDE DEF near
    <2>3. QED BY <2>1, <2>2, DistinctAssumption
  <1>7. MaxTopK <= k => Truncate(near(k), MaxTopK) = near(MaxTopK)
    <2> HIDE DEF S
    <2>1. QED BY <1>4, <1>5, NearestGoOn
  <1> HIDE DEF refuses, near, exact, hits, most
  <1>8. CASE k <= MaxTopK
    BY <1>1, <1>2, <1>4, <1>8 DEF exact, hits, most
  <1>9. CASE ~(k <= MaxTopK)
    <2>1. /\ k # 0 /\ MaxTopK <= k /\ hits = Refused
          /\ exact = IF refuses THEN Refused ELSE near(k)
          /\ most = IF refuses THEN Refused ELSE near(MaxTopK)
      BY <1>1, <1>2, <1>3, <1>4, <1>9
    <2>2. IF most = Refused THEN exact = Refused
          ELSE exact # Refused /\ Truncate(exact, MaxTopK) = most
      BY <1>6, <1>7, <2>1
    <2>3. QED BY <1>9, <2>1, <2>2 DEF exact, hits, most
  <1>10. QED BY <1>8, <1>9

\* Until the first delete or update of a lineage the exact oracle answers as
\* search_advanced does up to the limit of top_k; beyond it search refuses, and
\* the oracle, which has no limit, answers the same and then more.
THEOREM OracleIsLikeForLike == Spec => []OracleAgreesUntilDelete
  <1>1. DeltaInv => OracleAgreesUntilDelete
    <2>1. MaxTopK \in Nat /\ \A k \in 0..(MaxTopK + 1) : k \in Nat
      BY RetrievalAssumption
    <2>2. DeltaInv => delta \in DeltaType
      BY DEF DeltaInv, TypeOK
    <2>3. QED BY <2>1, <2>2, OracleFollows DEF OracleAgreesUntilDelete
  <1>2. QED BY <1>1, DeltaInvariant, PTL

\* A row whose id has no Tombstone is not hidden.
LEMMA UnmarkedIsVisible ==
    ASSUME NEW d \in DeltaType, Lineage(d), NEW i \in DOMAIN d.rows,
           d.rows[i].id \notin d.tombstoned_ids
    PROVE  ~IsRecordTombstoned(d, d.rows[i])
  <1>1. d.tombstoned_ids = {key[1] : key \in d.tombstones}
    BY DEF Lineage, TombstonesOwned
  <1>2. Key(d.rows[i])[1] = d.rows[i].id
    BY DEF Key
  <1>3. QED BY <1>1, <1>2 DEF IsRecordTombstoned

\* The profile refuses exactly the requests search refuses; it never counts
\* more returned rows than search returns, and as many when no id with a
\* Tombstone is visible again.
THEOREM ProfilesCountSearches == Spec => []ProfileCountsSearch
  <1>1. DeltaInv => ProfileCountsSearch
    <2> SUFFICES ASSUME DeltaInv,
                        NEW q \in Queries \cup {Misfit},
                        NEW node \in Nodes \cup {NoPredicate},
                        NEW k \in 0..(MaxTopK + 1)
                 PROVE  LET profile == ProfileSearch(delta, q, node, k)
                            hits == SearchAdvanced(delta, q, node, k)
                        IN  /\ profile = Refused <=> hits = Refused
                            /\ profile # Refused =>
                                  /\ profile.returned_rows <= Len(hits)
                                  /\ (\A id \in delta.tombstoned_ids :
                                          VisiblePositions(delta, id) = {})
                                        => profile.returned_rows = Len(hits)
      BY DEF ProfileCountsSearch
    <2> DEFINE predicate == ParseOptional(node)
               refuses == \/ q = Misfit \/ ~TopKAccepted(k)
                          \/ predicate = Refused \/ ~Valid(predicate)
               S == {i \in Stored(delta, predicate) :
                        delta.rows[i].id \notin delta.tombstoned_ids}
               F == Found(delta, predicate)
               matched == RowsAt(delta, S)
               profile == ProfileSearch(delta, q, node, k)
               hits == SearchAdvanced(delta, q, node, k)
               counts == [total_rows |-> Len(delta.rows),
                          matched_rows |-> Len(matched),
                          returned_rows |-> Len(Nearest(q, matched, k))]
    <2>1. delta \in DeltaType /\ Lineage(delta) /\ k \in Nat
      BY RetrievalAssumption DEF DeltaInv, TypeOK
    <2>2. profile = IF refuses THEN Refused ELSE counts
      BY Zenon DEF ProfileSearch
    <2>3. hits = IF refuses THEN Refused ELSE Nearest(q, RowsAt(delta, F), k)
      <3>1. hits = IF \/ ~TopKAccepted(k) \/ predicate = Refused
                      \/ q = Misfit \/ ~Valid(predicate)
                   THEN Refused
                   ELSE Nearest(q, RowsAt(delta, F), k)
        BY SearchAnswers
      <3> HIDE DEF predicate, F, hits
      <3>2. QED BY <3>1, Zenon
    <2>4. CASE refuses
      BY <2>2, <2>3, <2>4
    <2>5. CASE ~refuses
      <3>1. q \in Queries
        BY <2>5
      <3>2. S \in SUBSET DOMAIN delta.rows /\ F \in SUBSET DOMAIN delta.rows
        BY DEF Stored, Found
      <3>3. \A i \in S : i \in F
        BY <2>1, UnmarkedIsVisible DEF Stored, Found
      <3>4. (\A id \in delta.tombstoned_ids : VisiblePositions(delta, id) = {})
               => S = F
        <4>1. \A i \in F : i \in VisiblePositions(delta, delta.rows[i].id)
          BY DEF Found, VisiblePositions
        <4>2. \A i \in F : i \in Stored(delta, predicate)
          BY DEF Found, Stored
        <4>3. QED BY <3>3, <4>1, <4>2
      <3> HIDE DEF S, F
      <3>5. /\ IsFiniteSet(S) /\ Cardinality(S) \in Nat
            /\ Nearest(q, RowsAt(delta, S), k) \in Seq(Hit)
            /\ Len(Nearest(q, RowsAt(delta, S), k))
                  = IF Cardinality(S) < k THEN Cardinality(S) ELSE k
            /\ Len(RowsAt(delta, S)) = Cardinality(S)
        BY <2>1, <3>1, <3>2, NearestLists, RowsAtLists
      <3>6. /\ IsFiniteSet(F) /\ Cardinality(F) \in Nat
            /\ Nearest(q, RowsAt(delta, F), k) \in Seq(Hit)
            /\ Len(Nearest(q, RowsAt(delta, F), k))
                  = IF Cardinality(F) < k THEN Cardinality(F) ELSE k
        BY <2>1, <3>1, <3>2, NearestLists, RowsAtLists
      <3>7. Cardinality(S) <= Cardinality(F)
        <4>1. S \in SUBSET F
          BY <3>3
        <4>2. QED BY <3>6, <4>1, FS_Subset
      <3>8. Len(delta.rows) \in Nat
        BY <2>1, DeltaFields
      <3>9. /\ counts.returned_rows = Len(Nearest(q, RowsAt(delta, S), k))
            /\ counts \in Counts
        BY <2>1, <3>5, <3>8 DEF Counts
      <3>10. profile = counts /\ hits = Nearest(q, RowsAt(delta, F), k)
        <4> HIDE DEF profile, hits, counts, refuses
        <4> QED BY <2>2, <2>3, <2>5
      <3>11. profile # Refused /\ hits # Refused
        <4> HIDE DEF profile, hits, counts
        <4> QED BY <3>6, <3>9, <3>10, DistinctAssumption
      <3> HIDE DEF profile, hits, counts
      <3>12. profile.returned_rows <= Len(hits)
        BY <2>1, <3>5, <3>6, <3>7, <3>9, <3>10
      <3>13. S = F => profile.returned_rows = Len(hits)
        BY <3>9, <3>10
      <3>14. QED
        BY <3>4, <3>11, <3>12, <3>13 DEF profile, hits
    <2>6. QED BY <2>4, <2>5
  <1>2. QED BY <1>1, DeltaInvariant, PTL

-----------------------------------------------------------------------------
(* What an update leaves visible *)

\* After an accepted update an old row of an id in the batch is hidden, every
\* other old row is as visible as it was, and the rows of the batch are visible.
LEMMA UpdateRows ==
    ASSUME NEW d \in DeltaType, Lineage(d), NEW batch \in Seq(InputRow),
           Accepts(batch), NEW after, after = Update(d, batch)
    PROVE  /\ after \in DeltaType
           /\ DOMAIN after.rows = 1..(Len(d.rows) + Len(batch))
           /\ \A j \in 1..Len(d.rows) :
                 /\ after.rows[j] = d.rows[j]
                 /\ IsRecordTombstoned(after, after.rows[j]) <=>
                       \/ At(batch, d.rows[j].id) # {}
                       \/ IsRecordTombstoned(d, d.rows[j])
           /\ \A j \in (Len(d.rows) + 1)..(Len(d.rows) + Len(batch)) :
                 /\ after.rows[j].id = batch[j - Len(d.rows)].id
                 /\ ~IsRecordTombstoned(after, after.rows[j])
  <1> DEFINE ids == {batch[i].id : i \in DOMAIN batch}
             e == Delete(d, ids)
             l == Len(d.rows)
  <1>1. ids \in SUBSET Ids
    <2>1. \A i \in DOMAIN batch : batch[i] \in InputRow
      OBVIOUS
    <2>2. QED BY <2>1 DEF InputRow
  <1>2. \A id : id \in ids <=> At(batch, id) # {}
    BY DEF At
  <1>3. after = Insert(e, batch)
    BY DEF Update
  <1>4. l \in Nat /\ DOMAIN d.rows = 1..l /\ Len(batch) \in Nat
    BY DeltaFields
  <1> HIDE DEF ids
  <1>5. e \in DeltaType /\ Lineage(e) /\ e.rows = d.rows
    BY <1>1, DeleteShape, DeleteLineage
  <1>6. \A j \in DOMAIN d.rows : IsRecordTombstoned(e, d.rows[j]) <=>
           At(batch, d.rows[j].id) # {} \/ IsRecordTombstoned(d, d.rows[j])
    BY <1>1, <1>2, DeleteHides
  <1> HIDE DEF e, l
  <1>7. after \in DeltaType /\ Len(after.rows) = l + Len(batch)
    <2>1. Accepts(batch) /\ batch \in Seq(InputRow) /\ ActiveIsPartial(e)
      BY <1>5 DEF Lineage
    <2>2. /\ Insert(e, batch) \in DeltaType
          /\ Len(Insert(e, batch).rows) = Len(e.rows) + Len(batch)
      BY ONLY <1>5, <2>1, InsertShape, Zenon
    <2>3. QED BY <1>3, <1>5, <2>2 DEF l
  <1>8. DOMAIN after.rows = 1..(l + Len(batch))
    BY <1>7, DeltaFields
  <1>9. ASSUME NEW j \in DOMAIN after.rows
        PROVE  \/ /\ j \in DOMAIN d.rows
                  /\ after.rows[j] = d.rows[j]
                  /\ IsRecordTombstoned(after, after.rows[j])
                        <=> IsRecordTombstoned(e, d.rows[j])
               \/ /\ j > l
                  /\ after.rows[j].id = batch[j - l].id
                  /\ ~IsRecordTombstoned(after, after.rows[j])
    <2>1. j \in DOMAIN Insert(e, batch).rows
      BY <1>3
    <2>2. QED BY <1>3, <1>5, <2>1, InsertRows DEF l
  <1>10. ASSUME NEW j \in 1..l
         PROVE  /\ after.rows[j] = d.rows[j]
                /\ IsRecordTombstoned(after, after.rows[j]) <=>
                      \/ At(batch, d.rows[j].id) # {}
                      \/ IsRecordTombstoned(d, d.rows[j])
    <2>1. j \in DOMAIN after.rows /\ j \in DOMAIN d.rows /\ ~(j > l)
      BY <1>4, <1>8
    <2>2. QED BY <1>6, <1>9, <2>1
  <1>11. ASSUME NEW j \in (l + 1)..(l + Len(batch))
         PROVE  /\ after.rows[j].id = batch[j - l].id
                /\ ~IsRecordTombstoned(after, after.rows[j])
    <2>1. j \in DOMAIN after.rows /\ j \notin DOMAIN d.rows
      BY <1>4, <1>8
    <2>2. QED BY <1>9, <2>1
  <1>12. QED BY <1>7, <1>8, <1>10, <1>11 DEF l

\* An update either leaves the Delta as it is or makes the rows of its batch,
\* and no older row, the visible rows of their ids; other ids keep what they
\* had.  So no id is visible twice after an update without repeated ids.
THEOREM UpdatesReplace == Spec => []UpdateReplaces
  <1>1. DeltaInv => UpdateReplaces
    <2> DEFINE Shown(d, id) == [i \in VisiblePositions(d, id) |-> d.rows[i].value]
    <2> SUFFICES ASSUME DeltaInv, NEW batch \in Batches
                 PROVE  LET after == Update(delta, batch)
                        IN  IF Accepts(batch)
                            THEN \A id \in Ids :
                                    IF At(batch, id) = {}
                                    THEN Shown(after, id) = Shown(delta, id)
                                    ELSE /\ Cardinality(VisiblePositions(after, id))
                                                = Cardinality(At(batch, id))
                                         /\ NewestVisible(after)[id]
                                                = batch[Max(At(batch, id))].value
                            ELSE after = delta
      BY DEF UpdateReplaces
    <2> DEFINE after == Update(delta, batch)
               l == Len(delta.rows)
    <2>1. delta \in DeltaType /\ Lineage(delta) /\ batch \in Seq(InputRow)
      BY BatchesAssumption DEF DeltaInv, TypeOK
    <2>2. l \in Nat /\ DOMAIN delta.rows = 1..l
          /\ Len(batch) \in Nat /\ DOMAIN batch = 1..Len(batch)
      BY <2>1, DeltaFields
    <2>3. CASE ~Accepts(batch)
      BY <2>3 DEF Update
    <2>4. CASE Accepts(batch)
      <3>1. /\ after \in DeltaType
            /\ DOMAIN after.rows = 1..(l + Len(batch))
            /\ \A j \in 1..l :
                  /\ after.rows[j] = delta.rows[j]
                  /\ IsRecordTombstoned(after, after.rows[j]) <=>
                        \/ At(batch, delta.rows[j].id) # {}
                        \/ IsRecordTombstoned(delta, delta.rows[j])
            /\ \A j \in (l + 1)..(l + Len(batch)) :
                  /\ after.rows[j].id = batch[j - l].id
                  /\ ~IsRecordTombstoned(after, after.rows[j])
        BY <2>1, <2>4, UpdateRows
      <3>2. NewestVisible(after) = Put(NewestVisible(Delete(delta,
                                {batch[i].id : i \in DOMAIN batch})), batch)
        <4> DEFINE ids == {batch[i].id : i \in DOMAIN batch}
        <4>1. ids \in SUBSET Ids
          <5>1. \A i \in DOMAIN batch : batch[i] \in InputRow
            BY <2>1
          <5>2. QED BY <5>1 DEF InputRow
        <4>2. after = Insert(Delete(delta, ids), batch)
          BY <2>4 DEF Update
        <4> HIDE DEF ids, after
        <4>3. Delete(delta, ids) \in DeltaType /\ Lineage(Delete(delta, ids))
          BY <2>1, <4>1, DeleteShape, DeleteLineage
        <4>4. NewestVisible(after) = Put(NewestVisible(Delete(delta, ids)), batch)
          BY <2>1, <2>4, <4>2, <4>3, InsertIsPut
        <4>5. QED BY <4>4 DEF ids
      <3> HIDE DEF after, l
      <3>3. ASSUME NEW id \in Ids, At(batch, id) = {}
            PROVE  Shown(after, id) = Shown(delta, id)
        <4>1. ASSUME NEW j \in VisiblePositions(after, id)
              PROVE  j \in VisiblePositions(delta, id) /\ j \in 1..l
          <5>1. /\ j \in 1..(l + Len(batch)) /\ after.rows[j].id = id
                /\ ~IsRecordTombstoned(after, after.rows[j])
            BY <3>1 DEF VisiblePositions
          <5>2. CASE j \in 1..l
            BY <2>2, <3>1, <5>1, <5>2 DEF VisiblePositions
          <5>3. CASE j \in (l + 1)..(l + Len(batch))
            <6>1. batch[j - l].id = id /\ j - l \in DOMAIN batch
              BY <2>2, <3>1, <5>1, <5>3
            <6>2. QED BY <3>3, <6>1 DEF At
          <5>4. QED BY <2>2, <5>1, <5>2, <5>3
        <4>2. ASSUME NEW j \in VisiblePositions(delta, id)
              PROVE  j \in VisiblePositions(after, id) /\ j \in 1..l
          <5>1. /\ j \in 1..l /\ delta.rows[j].id = id
                /\ ~IsRecordTombstoned(delta, delta.rows[j])
            BY <2>2 DEF VisiblePositions
          <5>2. j \in DOMAIN after.rows
            BY <2>2, <3>1, <5>1
          <5>3. QED BY <3>1, <3>3, <5>1, <5>2 DEF VisiblePositions
        <4>3. VisiblePositions(after, id) = VisiblePositions(delta, id)
          BY <4>1, <4>2
        <4>4. \A j \in VisiblePositions(delta, id) :
                 after.rows[j].value = delta.rows[j].value
          BY <3>1, <4>2
        <4>5. QED BY <4>3, <4>4
      <3>4. ASSUME NEW id \in Ids, At(batch, id) # {}
            PROVE  Cardinality(VisiblePositions(after, id))
                      = Cardinality(At(batch, id))
        <4> DEFINE A == At(batch, id)
                   P == VisiblePositions(after, id)
                   f == [i \in A |-> l + i]
        <4>1. \A i \in A : i \in 1..Len(batch) /\ batch[i].id = id
          BY <2>2 DEF At
        <4>2. ASSUME NEW i \in A PROVE l + i \in P
          <5>1. /\ l + i \in (l + 1)..(l + Len(batch)) /\ (l + i) - l = i
                /\ l + i \in DOMAIN after.rows
            BY <2>2, <3>1, <4>1
          <5>2. after.rows[l + i].id = id
                /\ ~IsRecordTombstoned(after, after.rows[l + i])
            BY <3>1, <4>1, <5>1
          <5>3. QED BY <5>1, <5>2 DEF VisiblePositions
        <4>3. ASSUME NEW j \in P PROVE \E i \in A : l + i = j
          <5>1. /\ j \in 1..(l + Len(batch)) /\ after.rows[j].id = id
                /\ ~IsRecordTombstoned(after, after.rows[j])
            BY <3>1 DEF VisiblePositions
          <5>2. j \notin 1..l
            BY <3>1, <3>4, <5>1
          <5>3. /\ j \in (l + 1)..(l + Len(batch)) /\ j - l \in DOMAIN batch
                /\ l + (j - l) = j
            BY <2>2, <5>1, <5>2
          <5>4. j - l \in A
            BY <3>1, <5>1, <5>3 DEF At
          <5>5. QED BY <5>3, <5>4
        <4>4. IsFiniteSet(A)
          <5>1. Len(batch) \in Int /\ 1 \in Int
            BY <2>2
          <5>2. IsFiniteSet(1..Len(batch))
            BY <5>1, FS_Interval
          <5>3. A \in SUBSET (1..Len(batch))
            BY <4>1
          <5>4. QED BY <5>2, <5>3, FS_Subset
        <4>5. \A i, j \in A : l + i = l + j => i = j
          BY <2>2, <4>1
        <4> HIDE DEF A, P
        <4>6. f \in [A -> P] /\ (\A j \in P : \E i \in A : f[i] = j)
              /\ (\A i, j \in A : f[i] = f[j] => i = j)
          BY <4>2, <4>3, <4>5
        <4> HIDE DEF f
        <4>7. ExistsBijection(A, P)
          <5>1. f \in Bijection(A, P)
            BY <4>6, Fun_IsBij
          <5>2. QED BY <5>1 DEF ExistsBijection
        <4>8. QED BY <4>4, <4>7, FS_Bijection DEF A, P
      <3>5. ASSUME NEW id \in Ids, At(batch, id) # {}
            PROVE  NewestVisible(after)[id] = batch[Max(At(batch, id))].value
        BY <3>2, <3>5 DEF Put
      <3> HIDE DEF Shown
      <3>6. \A id \in Ids :
               IF At(batch, id) = {}
               THEN Shown(after, id) = Shown(delta, id)
               ELSE /\ Cardinality(VisiblePositions(after, id))
                          = Cardinality(At(batch, id))
                    /\ NewestVisible(after)[id]
                          = batch[Max(At(batch, id))].value
        BY <3>3, <3>4, <3>5
      <3>7. QED BY <2>4, <3>6 DEF after
    <2>5. QED BY <2>3, <2>4
  <1>2. QED BY <1>1, DeltaInvariant, PTL

-----------------------------------------------------------------------------
(* Comparisons *)

\* A tree of one leaf matches a row when the row has the column and the leaf
\* holds of its value.
LEMMA LeafMatches ==
    ASSUME NEW node, node.op \in LeafOps, NEW metadata
    PROVE  MatchesRow(<<node>>, metadata) <=>
              /\ node.column \in DOMAIN metadata
              /\ LeafHolds(node.op, metadata[node.column], node.value)
  <1> DEFINE holds == CHOOSE h : h = [i \in DOMAIN <<node>> |->
                                        NodeHolds(<<node>>[i], h, metadata)]
             answer == /\ node.column \in DOMAIN metadata
                       /\ LeafHolds(node.op, metadata[node.column], node.value)
  <1>1. MatchesRow(<<node>>, metadata) <=> holds[Len(<<node>>)]
    BY DEF MatchesRow
  <1>2. DOMAIN <<node>> = {1} /\ <<node>>[1] = node /\ Len(<<node>>) = 1
    OBVIOUS
  <1>3. ASSUME NEW h PROVE NodeHolds(node, h, metadata) = answer
    BY DEF NodeHolds, LeafOps, OrderingOps
  <1> DEFINE g == [i \in {1} |-> answer]
  <1>4. g = [i \in DOMAIN <<node>> |-> NodeHolds(<<node>>[i], g, metadata)]
    BY <1>2, <1>3
  <1>5. holds = [i \in DOMAIN <<node>> |-> NodeHolds(<<node>>[i], holds, metadata)]
    BY <1>4
  <1> HIDE DEF holds, answer, g
  <1>6. holds[1] = NodeHolds(node, holds, metadata)
    BY <1>2, <1>5
  <1>7. QED BY <1>1, <1>2, <1>3, <1>6 DEF answer

\* Between two numbers of one type the six comparisons are related as their
\* names say, and a NaN on either side makes all but `ne` false.
LEMMA ComparisonsSplit ==
    ASSUME NEW a, NEW b, a.type = b.type, a.v \in Int, b.v \in Int,
           NEW nan, nan <=> IsNaN(a) \/ IsNaN(b)
    PROVE  /\ LeafHolds("ne", a, b) <=> ~LeafHolds("eq", a, b)
           /\ LeafHolds("eq", a, b) => ~nan
           /\ a.type # "String" =>
                 /\ LeafHolds("lte", a, b) <=> LeafHolds("lt", a, b) \/ LeafHolds("eq", a, b)
                 /\ LeafHolds("gte", a, b) <=> LeafHolds("gt", a, b) \/ LeafHolds("eq", a, b)
                 /\ LeafHolds("lt", a, b) <=> ~nan /\ a.v < b.v
                 /\ LeafHolds("gt", a, b) <=> ~nan /\ a.v > b.v
                 /\ LeafHolds("eq", a, b) <=> ~nan /\ a.v = b.v
  <1>1. /\ LeafHolds("eq", a, b) <=> Equal(a, b)
        /\ LeafHolds("ne", a, b) <=> ~Equal(a, b)
        /\ LeafHolds("lt", a, b) <=> Comparable(a, b) /\ a.v < b.v
        /\ LeafHolds("lte", a, b) <=> Comparable(a, b) /\ a.v <= b.v
        /\ LeafHolds("gt", a, b) <=> Comparable(a, b) /\ a.v > b.v
        /\ LeafHolds("gte", a, b) <=> Comparable(a, b) /\ a.v >= b.v
    BY DEF LeafHolds
  <1>2. Equal(a, b) <=> a.v = b.v /\ ~nan
    BY DEF Equal, IsNaN
  <1>3. Comparable(a, b) <=> a.type # "String" /\ ~nan
    BY DEF Comparable
  <1>4. QED
    BY <1>1, <1>2, <1>3

\* How many of lt, eq and gt hold.
LEMMA CountOfThree ==
    ASSUME NEW lt, NEW eq, NEW gt,
           lt \in BOOLEAN, eq \in BOOLEAN, gt \in BOOLEAN,
           ~(lt /\ eq), ~(lt /\ gt), ~(eq /\ gt),
           NEW T, \A op : op \in T <=> \/ op = "lt" /\ lt
                                       \/ op = "eq" /\ eq
                                       \/ op = "gt" /\ gt
    PROVE  Cardinality(T) = IF lt \/ eq \/ gt THEN 1 ELSE 0
  <1>1. CASE lt
    <2>1. T = {"lt"}
      BY <1>1
    <2>2. QED BY <1>1, <2>1, FS_Singleton
  <1>2. CASE eq
    <2>1. T = {"eq"}
      BY <1>2
    <2>2. QED BY <1>2, <2>1, FS_Singleton
  <1>3. CASE gt
    <2>1. T = {"gt"}
      BY <1>3
    <2>2. QED BY <1>3, <2>1, FS_Singleton
  <1>4. CASE ~lt /\ ~eq /\ ~gt
    <2>1. T = {}
      BY <1>4
    <2>2. QED BY <1>4, <2>1, FS_EmptySet
  <1>5. QED BY <1>1, <1>2, <1>3, <1>4

\* On every stored row a validated comparison and its complement split the
\* rows, and exactly one of lt, eq and gt holds unless a NaN takes part.
THEOREM ComparisonsPartition == Spec => []PredicatesPartition
  <1>1. DeltaInv => PredicatesPartition
    <2> SUFFICES ASSUME DeltaInv, NEW i \in DOMAIN delta.rows, NEW n \in DOMAIN Schema,
                        NEW literal \in Literals(Schema[n].name)
                 PROVE
        LET column == Schema[n].name
            meta == Meta[delta.rows[i].value]
            Leaf(op) == <<[op |-> op, column |-> column, value |-> literal]>>
            Holds(op) == MatchesRow(Leaf(op), meta)
            nan == IsNaN(literal) \/ IsNaN(meta[column])
        IN  /\ Valid(Leaf("eq")) => (Holds("ne") <=> ~Holds("eq"))
            /\ Valid(Leaf("lt")) =>
                  /\ Holds("lte") <=> (Holds("lt") \/ Holds("eq"))
                  /\ Holds("gte") <=> (Holds("gt") \/ Holds("eq"))
                  /\ Cardinality({op \in {"lt", "eq", "gt"} : Holds(op)})
                        = IF nan THEN 0 ELSE 1
      BY DEF PredicatesPartition
    <2> DEFINE column == Schema[n].name
               meta == Meta[delta.rows[i].value]
               node(op) == [op |-> op, column |-> column, value |-> literal]
               Leaf(op) == <<node(op)>>
               Holds(op) == MatchesRow(Leaf(op), meta)
               nan == IsNaN(literal) \/ IsNaN(meta[column])
               a == meta[column]
    <2>1. delta.rows[i].value \in Values
      BY DeltaFields DEF DeltaInv, TypeOK
    <2>2. PICK v \in Values : literal = Meta[v][column]
      BY DEF Literals
    <2>3. \A w \in Values : /\ column \in DOMAIN Meta[w]
                            /\ Meta[w][column].type = Schema[n].type
                            /\ Meta[w][column].v \in Int
      BY RetrievalAssumption DEF MetadataFits
    <2>4. /\ column \in DOMAIN meta
          /\ a.type = literal.type /\ a.v \in Int /\ literal.v \in Int
      BY <2>1, <2>2, <2>3
    <2>5. nan <=> IsNaN(a) \/ IsNaN(literal)
      OBVIOUS
    <2>6. ASSUME NEW op \in LeafOps
          PROVE  Holds(op) <=> LeafHolds(op, a, literal)
      <3>1. /\ node(op).op = op /\ node(op).column = column
            /\ node(op).value = literal
        OBVIOUS
      <3>2. node(op).op \in LeafOps
        BY <3>1
      <3> HIDE DEF node, meta, column
      <3>3. MatchesRow(<<node(op)>>, meta) <=>
               /\ node(op).column \in DOMAIN meta
               /\ LeafHolds(node(op).op, meta[node(op).column], node(op).value)
        BY <3>2, LeafMatches
      <3>4. QED BY <2>4, <3>1, <3>3
    <2>7. Valid(Leaf("lt")) => literal.type # "String"
      <3>1. node("lt") \in Comparison
        <4>1. literal \in UNION {{Meta[w][name] : name \in DOMAIN Meta[w]} : w \in Values}
          BY <2>2, <2>3
        <4>2. column \in {Schema[m].name : m \in DOMAIN Schema}
          OBVIOUS
        <4>3. "lt" \in LeafOps
          BY DEF LeafOps, OrderingOps
        <4>4. QED BY <4>1, <4>2, <4>3 DEF Comparison
      <3>2. Leaf("lt") # NoPredicate
        <4> HIDE DEF node
        <4>1. Leaf("lt") \in Seq(Comparison)
          BY <3>1
        <4>2. QED BY <4>1, DistinctAssumption
      <3>3. Valid(Leaf("lt")) => NodeIsValid(Schema, node("lt"))
        <4> HIDE DEF node
        <4>1. 1 \in DOMAIN Leaf("lt") /\ Leaf("lt")[1] = node("lt")
          OBVIOUS
        <4> HIDE DEF Leaf
        <4>2. QED BY <3>2, <4>1 DEF Valid, Validate
      <3>4. NodeIsValid(Schema, node("lt")) <=> LeafIsValid(Schema, node("lt"))
        <4>1. node("lt").op = "lt" /\ "lt" \in LeafOps /\ "lt" # "in"
          BY DEF LeafOps, OrderingOps
        <4> HIDE DEF node
        <4>2. QED BY <4>1 DEF NodeIsValid
      <3>5. LeafIsValid(Schema, node("lt")) => literal.type # "String"
        BY DEF LeafIsValid
      <3>6. QED BY <3>3, <3>4, <3>5
    <2>8. /\ "eq" \in LeafOps /\ "ne" \in LeafOps /\ "lt" \in LeafOps
          /\ "lte" \in LeafOps /\ "gt" \in LeafOps /\ "gte" \in LeafOps
      BY DEF LeafOps, OrderingOps
    <2> DEFINE three == {op \in {"lt", "eq", "gt"} : Holds(op)}
    <2>9. \A op : op \in three <=> \/ op = "lt" /\ Holds("lt")
                                   \/ op = "eq" /\ Holds("eq")
                                   \/ op = "gt" /\ Holds("gt")
      <3> HIDE DEF Holds
      <3> QED OBVIOUS
    <2> HIDE DEF Holds, Leaf, nan, a, node, column, meta, three
    <2>10. /\ LeafHolds("ne", a, literal) <=> ~LeafHolds("eq", a, literal)
           /\ literal.type # "String" =>
                 /\ LeafHolds("lte", a, literal)
                       <=> LeafHolds("lt", a, literal) \/ LeafHolds("eq", a, literal)
                 /\ LeafHolds("gte", a, literal)
                       <=> LeafHolds("gt", a, literal) \/ LeafHolds("eq", a, literal)
                 /\ LeafHolds("lt", a, literal) <=> ~nan /\ a.v < literal.v
                 /\ LeafHolds("gt", a, literal) <=> ~nan /\ a.v > literal.v
                 /\ LeafHolds("eq", a, literal) <=> ~nan /\ a.v = literal.v
      BY <2>4, <2>5, ComparisonsSplit
    <2>11. Holds("ne") <=> ~Holds("eq")
      BY <2>6, <2>8, <2>10
    <2>12. ASSUME literal.type # "String"
           PROVE  /\ Holds("lte") <=> (Holds("lt") \/ Holds("eq"))
                  /\ Holds("gte") <=> (Holds("gt") \/ Holds("eq"))
                  /\ Cardinality(three) = IF nan THEN 0 ELSE 1
      <3>1. /\ Holds("lt") <=> ~nan /\ a.v < literal.v
            /\ Holds("gt") <=> ~nan /\ a.v > literal.v
            /\ Holds("eq") <=> ~nan /\ a.v = literal.v
        BY <2>6, <2>8, <2>10, <2>12
      <3>2. /\ Holds("lte") <=> (Holds("lt") \/ Holds("eq"))
            /\ Holds("gte") <=> (Holds("gt") \/ Holds("eq"))
        BY <2>6, <2>8, <2>10, <2>12
      <3>3. /\ ~(Holds("lt") /\ Holds("eq")) /\ ~(Holds("lt") /\ Holds("gt"))
            /\ ~(Holds("eq") /\ Holds("gt"))
            /\ Holds("lt") \/ Holds("eq") \/ Holds("gt") <=> ~nan
        BY <2>4, <3>1
      <3> DEFINE l == Holds("lt") <=> TRUE
                 e == Holds("eq") <=> TRUE
                 g == Holds("gt") <=> TRUE
      <3>4. l \in BOOLEAN /\ e \in BOOLEAN /\ g \in BOOLEAN
        OBVIOUS
      <3>5. /\ ~(l /\ e) /\ ~(l /\ g) /\ ~(e /\ g)
            /\ (l \/ e \/ g <=> ~nan)
            /\ \A op : op \in three <=> \/ op = "lt" /\ l
                                        \/ op = "eq" /\ e
                                        \/ op = "gt" /\ g
        BY <2>9, <3>3
      <3> HIDE DEF l, e, g
      <3>6. Cardinality(three) = IF l \/ e \/ g THEN 1 ELSE 0
        BY <3>4, <3>5, CountOfThree
      <3>7. QED BY <3>2, <3>5, <3>6
    <2>13. QED
      BY <2>7, <2>11, <2>12 DEF Holds, Leaf, nan, a, node, column, meta, three
  <1>2. QED BY <1>1, DeltaInvariant, PTL

-----------------------------------------------------------------------------
(* Counting rows chunk by chunk *)

\* A function that starts at 0 and grows by the counts ends at their total.
LEMMA TotalIs ==
    ASSUME NEW N \in Nat, NEW counts, Len(counts) = N,
           NEW s \in [0..N -> Int], s[0] = 0,
           \A n \in 1..N : s[n] = s[n - 1] + counts[n]
    PROVE  Total(counts) = s[N]
  <1> DEFINE Step(f) == [n \in 0..N |-> IF n = 0 THEN 0 ELSE f[n - 1] + counts[n]]
             upTo == CHOOSE f : f = Step(f)
  <1>1. Total(counts) = upTo[N]
    BY DEF Total
  <1>2. s = Step(s)
    <2>1. \A n \in 0..N : s[n] = IF n = 0 THEN 0 ELSE s[n - 1] + counts[n]
      OBVIOUS
    <2>2. QED BY <2>1
  <1>3. upTo = Step(upTo)
    <2> HIDE DEF Step
    <2> QED BY <1>2
  <1> HIDE DEF upTo
  <1>4. /\ upTo[0] = 0
        /\ \A n \in 1..N : upTo[n] = upTo[n - 1] + counts[n]
    <2>1. \A n \in 0..N : upTo[n] = IF n = 0 THEN 0 ELSE upTo[n - 1] + counts[n]
      BY <1>3
    <2>2. QED BY <2>1
  <1> DEFINE Wrong == {n \in 0..N : upTo[n] # s[n]}
  <1>5. ASSUME Wrong # {} PROVE FALSE
    <2>1. Wrong \in SUBSET Nat
      OBVIOUS
    <2>2. PICK m \in Wrong : \A x \in Wrong : m <= x
      <3> HIDE DEF Wrong
      <3> QED BY <1>5, <2>1, LeastOfNats
    <2>3. m \in 1..N /\ upTo[m] # s[m]
      BY <1>4
    <2>4. m - 1 \in 0..N /\ ~(m <= m - 1)
      BY <2>3
    <2>5. m - 1 \notin Wrong
      BY <2>2, <2>4
    <2>6. upTo[m - 1] = s[m - 1]
      BY <2>4, <2>5
    <2>7. QED BY <1>4, <2>3, <2>6
  <1>6. upTo[N] = s[N]
    BY <1>5
  <1>7. QED BY <1>1, <1>6

\* The dead rows of a prefix and of the stretch after it add up.
LEMMA DeadSplits ==
    ASSUME NEW d, NEW b \in Nat, NEW c \in Nat, b <= c
    PROVE  /\ DeadAmong(d, 1..b) \in Nat
           /\ DeadAmong(d, (b + 1)..c) \in Nat
           /\ DeadAmong(d, 1..c)
                 = DeadAmong(d, 1..b) + DeadAmong(d, (b + 1)..c)
  <1> DEFINE Dead(S) == {i \in S : d.rows[i].id \in d.tombstoned_ids}
             A == Dead(1..b)
             B == Dead((b + 1)..c)
  <1>1. IsFiniteSet(1..b) /\ IsFiniteSet((b + 1)..c)
    <2>1. 1 \in Int /\ b + 1 \in Int /\ b \in Int /\ c \in Int
      OBVIOUS
    <2>2. QED BY <2>1, FS_Interval
  <1>2. IsFiniteSet(A) /\ IsFiniteSet(B)
    <2>1. A \in SUBSET (1..b) /\ B \in SUBSET ((b + 1)..c)
      OBVIOUS
    <2>2. QED BY <1>1, <2>1, FS_Subset
  <1>3. Dead(1..c) = A \cup B
    <2>1. \A i : i \in 1..c <=> i \in 1..b \/ i \in (b + 1)..c
      OBVIOUS
    <2>2. QED BY <2>1
  <1>4. A \cap B = {}
    OBVIOUS
  <1> HIDE DEF A, B
  <1>5. Cardinality(A \cup B) = Cardinality(A) + Cardinality(B) - Cardinality(A \cap B)
    BY <1>2, FS_Union
  <1>6. Cardinality(A) \in Nat /\ Cardinality(B) \in Nat /\ Cardinality(A \cap B) = 0
    BY <1>2, <1>4, FS_CardinalityType, FS_EmptySet
  <1>7. Cardinality(A \cup B) = Cardinality(A) + Cardinality(B)
    BY <1>5, <1>6
  <1>8. QED BY <1>3, <1>6, <1>7 DEF DeadAmong, A, B

\* The n-th chunk ends one chunk after the one before it.
LEMMA ChunkEnds ==
    ASSUME NEW n \in Nat \ {0}
    PROVE  /\ n * TARGET_SEGMENT_ROWS \in Nat
           /\ (n - 1) * TARGET_SEGMENT_ROWS \in Nat
           /\ n * TARGET_SEGMENT_ROWS
                 = (n - 1) * TARGET_SEGMENT_ROWS + TARGET_SEGMENT_ROWS
  BY DeltaAssumption

\* The live rows and the dead rows are all the rows.
LEMMA LiveAndDead ==
    ASSUME NEW d \in DeltaType
    PROVE  LET live == {i \in DOMAIN d.rows : d.rows[i].id \notin d.tombstoned_ids}
           IN  /\ Cardinality(live) \in Nat
               /\ DeadAmong(d, 1..Len(d.rows)) \in Nat
               /\ DeadAmong(d, 1..Len(d.rows)) + Cardinality(live) = Len(d.rows)
  <1> DEFINE live == {i \in DOMAIN d.rows : d.rows[i].id \notin d.tombstoned_ids}
             dead == {i \in DOMAIN d.rows : d.rows[i].id \in d.tombstoned_ids}
  <1>1. DOMAIN d.rows = 1..Len(d.rows) /\ Len(d.rows) \in Nat
    BY DeltaFields
  <1>2. IsFiniteSet(DOMAIN d.rows) /\ Cardinality(DOMAIN d.rows) = Len(d.rows)
    <2>1. PICK l \in Nat : l = Len(d.rows)
      BY <1>1
    <2>2. l \in Int /\ 1 \in Int
      OBVIOUS
    <2>3. IsFiniteSet(1..l) /\ Cardinality(1..l) = IF 1 > l THEN 0 ELSE l - 1 + 1
      BY <2>2, FS_Interval
    <2>4. QED BY <1>1, <2>1, <2>3
  <1>3. live \in SUBSET DOMAIN d.rows /\ dead \in SUBSET DOMAIN d.rows
        /\ live \cup dead = DOMAIN d.rows /\ live \cap dead = {}
    OBVIOUS
  <1>4. DeadAmong(d, 1..Len(d.rows)) = Cardinality(dead)
    BY <1>1 DEF DeadAmong
  <1> HIDE DEF live, dead
  <1>5. IsFiniteSet(live) /\ IsFiniteSet(dead)
    BY <1>2, <1>3, FS_Subset
  <1>6. Cardinality(live \cup dead)
           = Cardinality(live) + Cardinality(dead) - Cardinality(live \cap dead)
    BY <1>5, FS_Union
  <1>7. /\ Cardinality(live) \in Nat /\ Cardinality(dead) \in Nat
        /\ Cardinality(live \cap dead) = 0
    BY <1>3, <1>5, FS_CardinalityType, FS_EmptySet
  <1>8. Cardinality(live) + Cardinality(dead) = Len(d.rows)
    <2>1. Cardinality(live \cup dead) = Len(d.rows)
      BY <1>2, <1>3
    <2>2. Cardinality(live) + Cardinality(dead) = Cardinality(live \cup dead)
      BY <1>6, <1>7
    <2>3. QED BY <2>1, <2>2
  <1>9. QED BY <1>4, <1>7, <1>8 DEF live

\* The inspector's chunk by chunk count of dead rows and the profile's scan
\* account for every row of the Delta exactly once, across every chunk boundary.
THEOREM InspectorsMatchProfiles == Spec => []InspectorMatchesProfile
  <1>1. DeltaInv => InspectorMatchesProfile
    <2> SUFFICES ASSUME DeltaInv PROVE InspectorMatchesProfile
      OBVIOUS
    <2> DEFINE export == ExportLifecycle(delta)
               T == TARGET_SEGMENT_ROWS
               k == delta.sealed
               l == Len(delta.rows)
               ends == [n \in 0..k |-> n * T]
               dead == [n \in 0..k |-> DeadAmong(delta, 1..(n * T))]
               live == {i \in DOMAIN delta.rows :
                           delta.rows[i].id \notin delta.tombstoned_ids}
    <2>1. delta \in DeltaType /\ Lineage(delta)
      BY DEF DeltaInv, TypeOK
    <2>2. k \in Nat /\ l \in Nat /\ T \in Nat
      BY <2>1, DeltaFields, DeltaAssumption
    <2>3. k * T \in Nat /\ k * T <= l /\ ActiveRows(delta) = l - k * T
      <3>1. ActiveRows(delta) = l - k * T
        BY DEF ActiveRows
      <3>2. ActiveRows(delta) \in Nat
        BY <2>1, DeltaAssumption DEF Lineage, ActiveIsPartial
      <3>3. k * T \in Nat
        BY <2>2
      <3> HIDE DEF k, T, l
      <3>4. QED BY <2>2, <3>1, <3>2, <3>3
    <2>4. /\ export.sealed_counts = [n \in 1..k |-> T]
          /\ export.sealed_dead = [n \in 1..k |-> DeadAmong(delta, ChunkPositions(n))]
          /\ export.active_total = ActiveRows(delta)
          /\ export.active_dead = DeadAmong(delta, ActivePositions(delta))
          /\ export.total_rows = l
      BY DEF ExportLifecycle
    <2> HIDE DEF export
    <2>5. Total(export.sealed_counts) = k * T
      <3>1. ends \in [0..k -> Int] /\ ends[0] = 0 /\ ends[k] = k * T
        BY <2>2
      <3>2. Len(export.sealed_counts) = k
        <4> HIDE DEF k, T
        <4> QED BY <2>2, <2>4
      <3>3. ASSUME NEW n \in 1..k
            PROVE  ends[n] = ends[n - 1] + export.sealed_counts[n]
        <4>1. n \in Nat \ {0} /\ n \in 0..k /\ n - 1 \in 0..k
          BY <2>2
        <4>2. n * T = (n - 1) * T + T
          BY <4>1, ChunkEnds
        <4>3. ends[n] = n * T /\ ends[n - 1] = (n - 1) * T
          BY <4>1
        <4>4. export.sealed_counts[n] = T
          BY <2>4
        <4>5. QED BY <4>2, <4>3, <4>4
      <3> HIDE DEF ends, k, T
      <3>4. Total(export.sealed_counts) = ends[k]
        BY <2>2, <3>1, <3>2, <3>3, TotalIs
      <3>5. QED BY <3>1, <3>4
    <2>6. Total(export.sealed_dead) = DeadAmong(delta, 1..(k * T))
      <3>1. ASSUME NEW n \in 0..k PROVE DeadAmong(delta, 1..(n * T)) \in Nat
        <4>1. n * T \in Nat
          BY <2>2
        <4>2. PICK e \in Nat : e = n * T
          BY <4>1
        <4>3. DeadAmong(delta, 1..e) \in Nat
          BY <4>2, DeadSplits
        <4>4. QED BY <4>2, <4>3
      <3>2. dead \in [0..k -> Int]
        BY <3>1
      <3>3. dead[0] = 0 /\ dead[k] = DeadAmong(delta, 1..(k * T))
        <4>1. 0 \in 0..k /\ k \in 0..k /\ 1..(0 * T) = {}
          BY <2>2
        <4>2. DeadAmong(delta, {}) = 0
          <5>1. {i \in {} : delta.rows[i].id \in delta.tombstoned_ids} = {}
            OBVIOUS
          <5>2. QED BY <5>1, FS_EmptySet DEF DeadAmong
        <4>3. QED BY <4>1, <4>2
      <3>4. Len(export.sealed_dead) = k
        <4> HIDE DEF k
        <4> QED BY <2>2, <2>4
      <3>5. ASSUME NEW n \in 1..k
            PROVE  dead[n] = dead[n - 1] + export.sealed_dead[n]
        <4>1. n \in Nat \ {0} /\ n \in 0..k /\ n - 1 \in 0..k
          BY <2>2
        <4>2. n * T = (n - 1) * T + T /\ n * T \in Nat /\ (n - 1) * T \in Nat
          BY <4>1, ChunkEnds
        <4>3. PICK a \in Nat, b \in Nat : a = (n - 1) * T /\ b = n * T
          BY <4>2
        <4>4. a <= b
          BY <2>2, <4>2, <4>3
        <4>5. DeadAmong(delta, 1..b)
                 = DeadAmong(delta, 1..a) + DeadAmong(delta, (a + 1)..b)
          BY <4>4, DeadSplits
        <4>6. ChunkPositions(n) = (a + 1)..b
          BY <4>3 DEF ChunkPositions
        <4>7. export.sealed_dead[n] = DeadAmong(delta, (a + 1)..b)
          BY <2>4, <4>6
        <4>8. dead[n] = DeadAmong(delta, 1..b) /\ dead[n - 1] = DeadAmong(delta, 1..a)
          BY <4>1, <4>3
        <4>9. QED BY <4>5, <4>7, <4>8
      <3> HIDE DEF dead, k, T
      <3>6. Total(export.sealed_dead) = dead[k]
        BY <2>2, <3>2, <3>3, <3>4, <3>5, TotalIs
      <3>7. QED BY <3>3, <3>6
    <2>7. export.active_dead + Total(export.sealed_dead) = DeadAmong(delta, 1..l)
          /\ DeadAmong(delta, 1..l) \in Nat
      <3>1. PICK e \in Nat : e = k * T /\ e <= l
        BY <2>3
      <3>2. ActivePositions(delta) = (e + 1)..l
        BY <3>1 DEF ActivePositions
      <3> HIDE DEF k, T, l
      <3>3. /\ DeadAmong(delta, 1..e) \in Nat
            /\ DeadAmong(delta, (e + 1)..l) \in Nat
            /\ DeadAmong(delta, 1..l)
                  = DeadAmong(delta, 1..e) + DeadAmong(delta, (e + 1)..l)
        BY <2>2, <3>1, DeadSplits
      <3>4. QED BY <2>4, <2>6, <3>1, <3>2, <3>3
    <2>8. ASSUME NEW q \in Queries
          PROVE  ProfileSearch(delta, q, NoPredicate, 1).matched_rows
                    = Cardinality(live)
      <3>1. ParseOptional(NoPredicate) = NoPredicate /\ Valid(NoPredicate)
        BY DEF ParseOptional, Valid
      <3>2. TopKAccepted(1) /\ q # Misfit /\ NoPredicate # Refused
        BY RetrievalAssumption, DistinctAssumption DEF TopKAccepted
      <3>3. {i \in Stored(delta, NoPredicate) :
               delta.rows[i].id \notin delta.tombstoned_ids} = live
        BY DEF Stored, Passes
      <3>4. ProfileSearch(delta, q, NoPredicate, 1).matched_rows
               = Len(RowsAt(delta, live))
        <4> HIDE DEF live
        <4>1. ProfileSearch(delta, q, NoPredicate, 1) =
                 [total_rows |-> Len(delta.rows),
                  matched_rows |-> Len(RowsAt(delta, live)),
                  returned_rows |-> Len(Nearest(q, RowsAt(delta, live), 1))]
          BY <3>1, <3>2, <3>3, Zenon DEF ProfileSearch
        <4>2. QED BY <4>1
      <3>5. live \in SUBSET DOMAIN delta.rows
        OBVIOUS
      <3> HIDE DEF live
      <3>6. QED BY <2>1, <3>4, <3>5, RowsAtLists
    <2>9. /\ Cardinality(live) \in Nat
          /\ DeadAmong(delta, 1..l) + Cardinality(live) = l
      BY <2>1, LiveAndDead
    <2> HIDE DEF live, k, T, l
    <2>10. export.active_total + Total(export.sealed_counts) = l
      BY <2>2, <2>3, <2>4, <2>5
    <2>11. \A q \in Queries :
              (export.active_dead + Total(export.sealed_dead))
                 + ProfileSearch(delta, q, NoPredicate, 1).matched_rows = l
      BY <2>7, <2>8, <2>9
    <2>12. QED
      BY <2>4, <2>10, <2>11, Zenon DEF InspectorMatchesProfile, export
  <1>2. QED BY <1>1, DeltaInvariant, PTL

-----------------------------------------------------------------------------
(* Benchmark fixtures: what the generators leave and load accepts *)

FileNames == {Files[i] : i \in DOMAIN Files}

\* Whoever wrote what is on the disk got past the guards of generate.
DiskIsGenerated ==
    /\ DOMAIN disk = FileNames
    /\ \A f \in FileNames : disk[f] # Missing => GenerateAccepts(disk[f].of)

\* The files before the writer's are whole, and its own is there once created.
WriterIsBetween ==
    writer # Idle =>
        /\ written = None
        /\ GenerateAccepts(writer.of)
        /\ \A i \in 1..(writer.at - 1) :
              disk[Files[i]] = Whole(writer.of, Files[i])
        /\ writer.created =>
              /\ disk[Files[writer.at]] # Missing
              /\ disk[Files[writer.at]].of = writer.of

\* What the last generator finished is still whole.
WrittenIsWhole ==
    written # None =>
        /\ GenerateAccepts(written)
        /\ \A f \in FileNames : disk[f] = Whole(written, f)

\* What the benchmark read was a prefix of a generated file when it was read.
ReaderHasPrefixes ==
    /\ reader \in {Idle} \cup [kind : {"fixture"}, got : Seq(FileType)]
                         \cup [kind : {"sift"}, got : SiftDirs]
    /\ reader # Idle /\ reader.kind = "fixture" =>
          \A i \in DOMAIN reader.got : reader.got[i] # Missing =>
              /\ GenerateAccepts(reader.got[i].of)
              /\ reader.got[i].len <= FullLength(reader.got[i].of, Files[i])

FixtureInv ==
    /\ FixtureTypeOK
    /\ DiskIsGenerated
    /\ WriterIsBetween
    /\ WrittenIsWhole
    /\ ReaderHasPrefixes

\* The five names, each in its place.
LEMMA FilesListed ==
    /\ DOMAIN Files = 1..5 /\ Len(Files) = 5
    /\ Files[1] = "corpus" /\ Files[2] = "meta" /\ Files[3] = "queries"
    /\ Files[4] = "ground_truth" /\ Files[5] = "manifest"
    /\ FileNames = DataFiles \cup {"manifest"}
    /\ \A i \in 1..5 : Files[i] \in FileNames
    /\ \A i, j \in 1..5 : Files[i] = Files[j] => i = j
  <1>1. /\ DOMAIN Files = 1..5 /\ Len(Files) = 5
        /\ Files[1] = "corpus" /\ Files[2] = "meta" /\ Files[3] = "queries"
        /\ Files[4] = "ground_truth" /\ Files[5] = "manifest"
    BY DEF Files
  <1>2. FileNames = {Files[1], Files[2], Files[3], Files[4], Files[5]}
    BY <1>1 DEF FileNames
  <1>3. FileNames = DataFiles \cup {"manifest"}
    BY <1>1, <1>2 DEF DataFiles
  <1>4. \A i \in 1..5 : Files[i] \in FileNames
    BY <1>1 DEF FileNames
  <1>5. \A i, j \in 1..5 : Files[i] = Files[j] => i = j
    BY <1>1
  <1>6. QED BY <1>1, <1>3, <1>4, <1>5

\* How long a file is, and how much of it load reads: all of it, unless the
\* header of the ground truth asks for more neighbours than there are rows.
LEMMA FileLengths ==
    ASSUME NEW c \in Configs, NEW f \in FileNames
    PROVE  /\ HeaderLength(f) \in Nat \ {0, 1}
           /\ BodyLength(c, f) \in Nat /\ BodyRead(c, f) \in Nat
           /\ FullLength(c, f) = HeaderLength(f) + BodyLength(c, f)
           /\ f \in DataFiles => BodyLength(c, f) <= BodyRead(c, f)
           /\ f # "ground_truth" \/ c.top_k <= c.num_vectors =>
                 BodyRead(c, f) <= BodyLength(c, f)
           /\ /\ f = "ground_truth" /\ c.top_k > c.num_vectors
              /\ c.num_queries > 0
              => BodyLength(c, f) < BodyRead(c, f)
  <1>1. /\ c.num_vectors \in Nat /\ c.dimension \in Nat
        /\ c.num_queries \in Nat /\ c.top_k \in Nat
    BY ConfigsAssumption
  <1>2. /\ c.num_vectors * c.dimension \in Nat
        /\ c.num_queries * c.dimension \in Nat
    BY <1>1
  <1>3. f \in {"corpus", "meta", "queries", "ground_truth", "manifest"}
    BY FilesListed DEF DataFiles
  <1>4. HeaderLength(f) \in Nat \ {0, 1}
    BY <1>3 DEF HeaderLength
  <1>5. FullLength(c, f) = HeaderLength(f) + BodyLength(c, f)
    BY DEF FullLength
  <1>6. CASE f = "ground_truth"
    <2> DEFINE twice == c.num_queries * 2
               held == IF c.top_k < c.num_vectors THEN c.top_k ELSE c.num_vectors
    <2>1. BodyLength(c, f) = twice * held /\ BodyRead(c, f) = twice * c.top_k
      BY <1>6 DEF BodyLength, BodyRead
    <2>2. /\ twice \in Nat /\ held \in Nat /\ held <= c.top_k
          /\ c.num_queries > 0 => twice > 0
          /\ c.top_k > c.num_vectors => held < c.top_k
          /\ c.top_k <= c.num_vectors => held = c.top_k
      BY <1>1
    <2> HIDE DEF twice, held
    <2>3. twice * held \in Nat /\ twice * c.top_k \in Nat
      BY <1>1, <2>2
    <2>4. twice * held <= twice * c.top_k
      BY <1>1, <2>2
    <2>5. twice > 0 /\ held < c.top_k => twice * held < twice * c.top_k
      BY <1>1, <2>2
    <2>6. QED BY <1>4, <1>5, <1>6, <2>1, <2>2, <2>3, <2>4, <2>5
  <1>7. CASE f = "manifest"
    <2>1. BodyLength(c, f) = 1 /\ BodyRead(c, f) = 0 /\ f \notin DataFiles
      BY <1>7 DEF BodyLength, BodyRead, DataFiles
    <2>2. QED BY <1>4, <1>5, <1>7, <2>1
  <1>8. CASE f \in {"corpus", "meta", "queries"}
    <2>1. BodyRead(c, f) = BodyLength(c, f) /\ BodyLength(c, f) \in Nat
      BY <1>1, <1>2, <1>8 DEF BodyLength, BodyRead
    <2>2. QED BY <1>4, <1>5, <1>8, <2>1
  <1>9. QED BY <1>3, <1>6, <1>7, <1>8

\* A file of a configuration, no longer than what it writes.
LEMMA FileIs ==
    ASSUME NEW file \in FileType, file # Missing
    PROVE  /\ file.of \in Configs /\ file.len \in Nat
           /\ file = [of |-> file.of, len |-> file.len]
  BY DEF FileType

\* What File::create, a prefix and the whole of a file are.
LEMMA WrittenFiles ==
    ASSUME NEW c \in Configs, NEW f \in FileNames, NEW n \in 0..FullLength(c, f)
    PROVE  /\ [of |-> c, len |-> n] \in FileType
           /\ [of |-> c, len |-> n] # Missing
  <1>1. FullLength(c, f) \in Nat
    BY FileLengths
  <1>2. [of |-> c, len |-> n] \in [of : Configs, len : Nat]
    BY <1>1
  <1>3. QED BY <1>2, ConfigsAssumption DEF FileType

\* The file the writer is at, seen by whoever opens the directory.
LEMMA WriterFile ==
    ASSUME FixtureInv, writer # Idle
    PROVE  /\ writer \in [of : Configs, at : 1..5, created : BOOLEAN]
           /\ writer.of \in Configs /\ writer.at \in 1..5
           /\ Files[writer.at] \in FileNames
           /\ DOMAIN disk = FileNames
           /\ Files[writer.at] \in DOMAIN disk
           /\ FullLength(writer.of, Files[writer.at]) \in Nat \ {0, 1}
  <1>1. writer \in [of : Configs, at : 1..5, created : BOOLEAN]
    BY FilesListed DEF FixtureInv, FixtureTypeOK
  <1>2. DOMAIN disk = FileNames
    BY DEF FixtureInv, DiskIsGenerated
  <1>3. Files[writer.at] \in FileNames
    BY <1>1, FilesListed
  <1>4. FullLength(writer.of, Files[writer.at]) \in Nat \ {0, 1}
    BY <1>1, <1>3, FileLengths
  <1>5. QED BY <1>1, <1>2, <1>3, <1>4

\* A generator leaves the file at the place it has reached as a prefix of what
\* it writes, and every other file as it was.
LEMMA DiskAfter ==
    ASSUME FixtureInv, writer # Idle, NEW n \in 0..FullLength(writer.of, Files[writer.at]),
           disk' = [disk EXCEPT ![Files[writer.at]] = [of |-> writer.of, len |-> n]]
    PROVE  /\ DiskIsGenerated'
           /\ \A f \in DOMAIN disk' :
                 /\ disk'[f] \in FileType
                 /\ disk'[f] # Missing => disk'[f].len <= FullLength(disk'[f].of, f)
           /\ disk'[Files[writer.at]] = [of |-> writer.of, len |-> n]
           /\ disk'[Files[writer.at]] # Missing
           /\ \A i \in 1..(writer.at - 1) : disk'[Files[i]] = disk[Files[i]]
  <1> DEFINE g == Files[writer.at]
             file == [of |-> writer.of, len |-> n]
  <1>1. /\ writer.of \in Configs /\ writer.at \in 1..5 /\ g \in FileNames
        /\ DOMAIN disk = FileNames
    BY WriterFile
  <1>2. file \in FileType /\ file # Missing
    BY <1>1, WrittenFiles
  <1>3. GenerateAccepts(writer.of)
    BY DEF FixtureInv, WriterIsBetween
  <1>4. /\ DOMAIN disk' = FileNames
        /\ \A f \in FileNames : disk'[f] = IF f = g THEN file ELSE disk[f]
    BY <1>1
  <1>5. \A f \in FileNames : disk[f] # Missing => GenerateAccepts(disk[f].of)
    BY DEF FixtureInv, DiskIsGenerated
  <1>6. \A f \in FileNames :
           /\ disk[f] \in FileType
           /\ disk[f] # Missing => disk[f].len <= FullLength(disk[f].of, f)
    BY <1>1 DEF FixtureInv, FixtureTypeOK
  <1>7. file.of = writer.of /\ file.len = n /\ n <= FullLength(writer.of, g)
    BY <1>1, WriterFile
  <1>8. \A f \in FileNames :
           /\ disk'[f] \in FileType
           /\ disk'[f] # Missing =>
                 /\ GenerateAccepts(disk'[f].of)
                 /\ disk'[f].len <= FullLength(disk'[f].of, f)
    <2> SUFFICES ASSUME NEW f \in FileNames
                 PROVE  /\ disk'[f] \in FileType
                        /\ disk'[f] # Missing =>
                              /\ GenerateAccepts(disk'[f].of)
                              /\ disk'[f].len <= FullLength(disk'[f].of, f)
      OBVIOUS
    <2> HIDE DEF file, g
    <2>1. CASE f = g
      BY <2>1, <1>2, <1>3, <1>4, <1>7
    <2>2. CASE f # g
      BY <2>2, <1>4, <1>5, <1>6
    <2>3. QED BY <2>1, <2>2
  <1>9. DiskIsGenerated'
    BY <1>4, <1>8 DEF DiskIsGenerated, FileNames
  <1>10. \A i \in 1..(writer.at - 1) : disk'[Files[i]] = disk[Files[i]]
    <2> SUFFICES ASSUME NEW i \in 1..(writer.at - 1) PROVE disk'[Files[i]] = disk[Files[i]]
      OBVIOUS
    <2>1. i \in 1..5 /\ i # writer.at
      BY <1>1
    <2>2. Files[i] \in FileNames /\ Files[i] # g
      BY <1>1, <2>1, FilesListed
    <2>3. QED BY <2>2, <1>4
  <1>11. disk'[g] = file
    BY <1>1, <1>4
  <1>12. QED BY <1>2, <1>4, <1>8, <1>9, <1>10, <1>11

\* A generator's step keeps the invariant if it leaves the reader alone and
\* keeps what WriterIsBetween and WrittenIsWhole say.
LEMMA WriterKeeps ==
    ASSUME FixtureInv, writer # Idle, NEW n \in 0..FullLength(writer.of, Files[writer.at]),
           disk' = [disk EXCEPT ![Files[writer.at]] = [of |-> writer.of, len |-> n]],
           UNCHANGED <<writes, reader>>,
           writer' \in {Idle} \cup [of : Configs, at : 1..5, created : BOOLEAN],
           written' \in {None} \cup Configs,
           WriterIsBetween', WrittenIsWhole'
    PROVE  FixtureInv'
  <1>1. /\ DiskIsGenerated'
        /\ \A f \in DOMAIN disk' :
              /\ disk'[f] \in FileType
              /\ disk'[f] # Missing => disk'[f].len <= FullLength(disk'[f].of, f)
    BY DiskAfter
  <1>2. ReaderHasPrefixes'
    BY DEF FixtureInv, ReaderHasPrefixes
  <1>3. FixtureTypeOK'
    BY <1>1, FilesListed DEF FixtureInv, FixtureTypeOK
  <1>4. QED BY <1>1, <1>2, <1>3 DEF FixtureInv

\* File::create leaves an empty file of the writer's, which is a prefix.
LEMMA CreateKeeps == FixtureInv /\ CreateFile => FixtureInv'
  <1> SUFFICES ASSUME FixtureInv, CreateFile PROVE FixtureInv'
    OBVIOUS
  <1> DEFINE g == Files[writer.at]
  <1>1. /\ writer # Idle /\ ~writer.created
        /\ disk' = [disk EXCEPT ![g] = [of |-> writer.of, len |-> 0]]
        /\ writer' = [writer EXCEPT !.created = TRUE]
        /\ UNCHANGED <<written, writes, reader>>
    BY DEF CreateFile
  <1>2. /\ writer \in [of : Configs, at : 1..5, created : BOOLEAN]
        /\ 0 \in 0..FullLength(writer.of, g)
    BY <1>1, WriterFile
  <1>3. /\ disk'[g] = [of |-> writer.of, len |-> 0]
        /\ disk'[g] # Missing
        /\ \A i \in 1..(writer.at - 1) : disk'[Files[i]] = disk[Files[i]]
    BY <1>1, <1>2, DiskAfter
  <1>4. /\ writer' \in [of : Configs, at : 1..5, created : BOOLEAN]
        /\ writer'.of = writer.of /\ writer'.at = writer.at
    BY <1>1, <1>2
  <1>5. /\ written = None /\ GenerateAccepts(writer.of)
        /\ \A i \in 1..(writer.at - 1) : disk[Files[i]] = Whole(writer.of, Files[i])
    BY <1>1 DEF FixtureInv, WriterIsBetween
  <1>6. WriterIsBetween'
    <2> HIDE DEF g
    <2>1. written' = None /\ GenerateAccepts(writer'.of)
      BY <1>1, <1>4, <1>5
    <2>2. \A i \in 1..(writer'.at - 1) : disk'[Files[i]] = Whole(writer'.of, Files[i])
      BY <1>3, <1>4, <1>5
    <2>3. disk'[Files[writer'.at]] # Missing /\ disk'[Files[writer'.at]].of = writer'.of
      BY <1>3, <1>4 DEF g
    <2>4. QED BY <2>1, <2>2, <2>3 DEF WriterIsBetween
  <1>7. WrittenIsWhole' /\ written' \in {None} \cup Configs
    BY <1>1, <1>5 DEF WrittenIsWhole
  <1>8. QED BY <1>1, <1>2, <1>4, <1>6, <1>7, WriterKeeps

\* Part of a file is a prefix of it.
LEMMA PartKeeps == FixtureInv /\ WritePart => FixtureInv'
  <1> SUFFICES ASSUME FixtureInv, WritePart PROVE FixtureInv'
    OBVIOUS
  <1> DEFINE g == Files[writer.at]
             n == FullLength(writer.of, g) - 1
  <1>1. /\ writer # Idle /\ writer.created
        /\ disk' = [disk EXCEPT ![g].len = n]
        /\ UNCHANGED <<writer, written, writes, reader>>
    BY DEF WritePart
  <1>2. /\ writer \in [of : Configs, at : 1..5, created : BOOLEAN]
        /\ n \in 0..FullLength(writer.of, g)
        /\ g \in DOMAIN disk
    BY <1>1, WriterFile
  <1>3. /\ written = None /\ GenerateAccepts(writer.of)
        /\ \A i \in 1..(writer.at - 1) : disk[Files[i]] = Whole(writer.of, Files[i])
        /\ disk[g] # Missing /\ disk[g].of = writer.of
    BY <1>1 DEF FixtureInv, WriterIsBetween
  <1>4. disk' = [disk EXCEPT ![g] = [of |-> writer.of, len |-> n]]
    <2>1. disk[g] \in FileType
      BY <1>2 DEF FixtureInv, FixtureTypeOK
    <2>2. disk[g] = [of |-> writer.of, len |-> disk[g].len]
      BY <1>3, <2>1, FileIs
    <2> HIDE DEF n, g
    <2>3. [disk[g] EXCEPT !.len = n] = [of |-> writer.of, len |-> n]
      BY <2>2
    <2>4. QED BY <1>1, <2>3
  <1>5. /\ disk'[g] = [of |-> writer.of, len |-> n]
        /\ disk'[g] # Missing
        /\ \A i \in 1..(writer.at - 1) : disk'[Files[i]] = disk[Files[i]]
    BY <1>1, <1>2, <1>4, DiskAfter
  <1>6. WriterIsBetween'
    <2> HIDE DEF g, n
    <2>1. written' = None /\ GenerateAccepts(writer'.of)
      BY <1>1, <1>3
    <2>2. \A i \in 1..(writer'.at - 1) : disk'[Files[i]] = Whole(writer'.of, Files[i])
      BY <1>1, <1>3, <1>5
    <2>3. disk'[Files[writer'.at]] # Missing /\ disk'[Files[writer'.at]].of = writer'.of
      BY <1>1, <1>5 DEF g
    <2>4. QED BY <2>1, <2>2, <2>3 DEF WriterIsBetween
  <1>7. WrittenIsWhole' /\ written' \in {None} \cup Configs
    BY <1>1, <1>3 DEF WrittenIsWhole
  <1>8. writer' \in [of : Configs, at : 1..5, created : BOOLEAN]
    BY <1>1, <1>2
  <1>9. QED BY <1>1, <1>2, <1>4, <1>6, <1>7, <1>8, WriterKeeps

\* The file the writer finishes is whole, and the next one is next.
LEMMA FinishKeeps == FixtureInv /\ FinishFile => FixtureInv'
  <1> SUFFICES ASSUME FixtureInv, FinishFile PROVE FixtureInv'
    OBVIOUS
  <1> DEFINE g == Files[writer.at]
             n == FullLength(writer.of, g)
  <1>1. /\ writer # Idle /\ writer.created
        /\ disk' = [disk EXCEPT ![g] = [of |-> writer.of, len |-> n]]
        /\ IF writer.at = Len(Files)
           THEN writer' = Idle /\ written' = writer.of
           ELSE /\ writer' = [writer EXCEPT !.at = @ + 1, !.created = FALSE]
                /\ UNCHANGED written
        /\ UNCHANGED <<writes, reader>>
    BY DEF FinishFile, Whole
  <1>2. /\ writer \in [of : Configs, at : 1..5, created : BOOLEAN]
        /\ n \in 0..FullLength(writer.of, g)
    BY <1>1, WriterFile
  <1>3. /\ written = None /\ GenerateAccepts(writer.of)
        /\ \A i \in 1..(writer.at - 1) : disk[Files[i]] = Whole(writer.of, Files[i])
    BY <1>1 DEF FixtureInv, WriterIsBetween
  <1>4. /\ disk'[g] = [of |-> writer.of, len |-> n]
        /\ \A i \in 1..(writer.at - 1) : disk'[Files[i]] = disk[Files[i]]
    BY <1>1, <1>2, DiskAfter
  <1>5. \A i \in 1..writer.at : disk'[Files[i]] = Whole(writer.of, Files[i])
    <2> SUFFICES ASSUME NEW i \in 1..writer.at
                 PROVE  disk'[Files[i]] = Whole(writer.of, Files[i])
      OBVIOUS
    <2>1. CASE i = writer.at
      BY <2>1, <1>4 DEF Whole
    <2>2. CASE i # writer.at
      <3>1. i \in 1..(writer.at - 1)
        BY <2>2, <1>2
      <3> HIDE DEF g, n
      <3>2. QED BY <3>1, <1>3, <1>4
    <2>3. QED BY <2>1, <2>2
  <1>6. CASE writer.at = 5
    <2>1. writer' = Idle /\ written' = writer.of
      BY <1>1, <1>6, FilesListed
    <2>2. \A f \in FileNames : disk'[f] = Whole(writer.of, f)
      <3>1. \A f \in FileNames : \E i \in 1..5 : f = Files[i]
        BY FilesListed DEF FileNames
      <3> HIDE DEF g, n
      <3>2. QED BY <1>5, <1>6, <3>1
    <2>3. WriterIsBetween' /\ WrittenIsWhole'
      <3> HIDE DEF g, n
      <3>1. FileNames' = FileNames
        BY DEF FileNames
      <3>2. QED BY <1>3, <2>1, <2>2, <3>1 DEF WriterIsBetween, WrittenIsWhole
    <2>4. QED BY <1>1, <1>2, <2>1, <2>3, WriterKeeps
  <1>7. CASE writer.at # 5
    <2>1. /\ writer' = [writer EXCEPT !.at = @ + 1, !.created = FALSE]
          /\ written' = written
      BY <1>1, <1>7, FilesListed
    <2>2. /\ writer' \in [of : Configs, at : 1..5, created : BOOLEAN]
          /\ writer'.of = writer.of /\ writer'.at = writer.at + 1
          /\ ~writer'.created
      <3> HIDE DEF g, n
      <3>1. writer.at + 1 \in 1..5
        BY <1>2, <1>7
      <3>2. QED BY <1>2, <2>1, <3>1
    <2>3. WriterIsBetween'
      <3> HIDE DEF g, n
      <3>1. writer'.at - 1 = writer.at
        BY <1>2, <2>2
      <3>2. \A i \in 1..(writer'.at - 1) : disk'[Files[i]] = Whole(writer'.of, Files[i])
        BY <1>5, <2>2, <3>1
      <3>3. written' = None /\ GenerateAccepts(writer'.of)
        BY <1>3, <2>1, <2>2
      <3>4. QED BY <2>2, <3>2, <3>3 DEF WriterIsBetween
    <2>4. WrittenIsWhole' /\ written' \in {None} \cup Configs
      BY <1>3, <2>1 DEF WrittenIsWhole
    <2>5. QED BY <1>1, <1>2, <2>2, <2>3, <2>4, WriterKeeps
  <1>8. QED BY <1>6, <1>7

\* The steps that leave the directory alone.
LEMMA OthersKeep ==
    ASSUME FixtureInv, UNCHANGED disk,
           \/ \E c \in Configs : Start(c)
           \/ Fail \/ BeginLoad \/ ReadFile
           \/ \E dir \in SiftDirs : ReadSift(dir)
           \/ UNCHANGED fixtureVars
    PROVE  FixtureInv'
  <1>1. DiskIsGenerated'
    BY DEF FixtureInv, DiskIsGenerated, FileNames
  <1>2. \A f \in DOMAIN disk' :
           /\ disk'[f] \in FileType
           /\ disk'[f] # Missing => disk'[f].len <= FullLength(disk'[f].of, f)
    BY DEF FixtureInv, FixtureTypeOK
  <1>3. /\ writer \in {Idle} \cup [of : Configs, at : DOMAIN Files, created : BOOLEAN]
        /\ written \in {None} \cup Configs
        /\ writes \in 0..MaxWrites
        /\ reader # Idle /\ reader.kind = "fixture" =>
              /\ reader.got \in Seq(FileType)
              /\ Len(reader.got) <= Len(Files)
    BY DEF FixtureInv, FixtureTypeOK
  <1>4. CASE \E c \in Configs : Start(c)
    <2>1. PICK c \in Configs : Start(c)
      BY <1>4
    <2>2. /\ GenerateAccepts(c) /\ written' = None /\ reader' = reader
          /\ writes < MaxWrites /\ writes' = writes + 1
          /\ writer' = [of |-> c, at |-> 1, created |-> FALSE]
      BY <2>1 DEF Start
    <2>3. /\ writer' \in [of : Configs, at : DOMAIN Files, created : BOOLEAN]
          /\ writer'.of = c /\ writer'.at = 1 /\ ~writer'.created
      BY <2>2, FilesListed
    <2>4. writes' \in 0..MaxWrites
      BY <2>2, <1>3, FixtureAssumption
    <2>5. FixtureTypeOK'
      BY <1>2, <1>3, <2>2, <2>3, <2>4 DEF FixtureTypeOK
    <2>6. WriterIsBetween'
      BY <2>2, <2>3 DEF WriterIsBetween
    <2>7. WrittenIsWhole' /\ ReaderHasPrefixes'
      BY <2>2 DEF WrittenIsWhole, FixtureInv, ReaderHasPrefixes
    <2>8. QED BY <1>1, <2>5, <2>6, <2>7 DEF FixtureInv
  <1>5. CASE Fail
    <2>1. writer' = Idle /\ UNCHANGED <<written, writes, reader>>
      BY <1>5 DEF Fail
    <2>2. FixtureTypeOK'
      BY <1>2, <1>3, <2>1 DEF FixtureTypeOK
    <2>3. WriterIsBetween' /\ WrittenIsWhole' /\ ReaderHasPrefixes'
      BY <2>1 DEF FixtureInv, WriterIsBetween, WrittenIsWhole, ReaderHasPrefixes, FileNames
    <2>4. QED BY <1>1, <2>2, <2>3 DEF FixtureInv
  <1>6. CASE BeginLoad \/ ReadFile \/ \E dir \in SiftDirs : ReadSift(dir)
    <2>1. UNCHANGED <<disk, writer, written, writes>>
      BY <1>6 DEF BeginLoad, ReadFile, ReadSift
    <2>2. WriterIsBetween' /\ WrittenIsWhole'
      BY <2>1 DEF FixtureInv, WriterIsBetween, WrittenIsWhole, FileNames
    <2>3. ReaderHasPrefixes' /\ (reader' # Idle /\ reader'.kind = "fixture" =>
                                    /\ reader'.got \in Seq(FileType)
                                    /\ Len(reader'.got) <= Len(Files))
      <3>1. CASE BeginLoad
        <4>1. reader' = [kind |-> "fixture", got |-> <<>>]
          BY <3>1 DEF BeginLoad
        <4>2. <<>> \in Seq(FileType) /\ DOMAIN <<>> = {} /\ Len(<<>>) = 0
          OBVIOUS
        <4>3. reader' \in [kind : {"fixture"}, got : Seq(FileType)] /\ reader'.got = <<>>
          BY <4>1, <4>2
        <4>4. QED BY <4>2, <4>3, FilesListed DEF ReaderHasPrefixes
      <3>2. CASE ReadFile
        <4> DEFINE got == reader.got
                   i == Len(got) + 1
                   file == disk[Files[i]]
        <4>1. /\ reader # Idle /\ reader.kind = "fixture" /\ Len(got) < Len(Files)
              /\ reader' = [reader EXCEPT !.got = Append(got, file)]
          BY <3>2 DEF ReadFile
        <4>2. got \in Seq(FileType) /\ Len(got) \in Nat /\ i \in 1..5
          BY <4>1, <1>3, FilesListed
        <4>3. Files[i] \in FileNames /\ DOMAIN disk = FileNames
          BY <4>2, FilesListed DEF FixtureInv, DiskIsGenerated
        <4>4. /\ file \in FileType
              /\ file # Missing => /\ GenerateAccepts(file.of)
                                   /\ file.len <= FullLength(file.of, Files[i])
          BY <4>3 DEF FixtureInv, FixtureTypeOK, DiskIsGenerated
        <4>5. reader \in [kind : {"fixture"}, got : Seq(FileType)]
          BY <4>1 DEF FixtureInv, ReaderHasPrefixes
        <4>6. \A j \in DOMAIN got : got[j] # Missing =>
                 /\ GenerateAccepts(got[j].of)
                 /\ got[j].len <= FullLength(got[j].of, Files[j])
          BY <4>1 DEF FixtureInv, ReaderHasPrefixes
        <4> DEFINE next == Append(got, file)
        <4> HIDE DEF file
        <4>7. /\ next \in Seq(FileType) /\ Len(next) = i /\ DOMAIN next = 1..i
              /\ next[i] = file
              /\ \A j \in 1..Len(got) : next[j] = got[j]
              /\ DOMAIN got = 1..Len(got)
          BY <4>2, <4>4
        <4> HIDE DEF next, got, i
        <4>8. reader' \in [kind : {"fixture"}, got : Seq(FileType)] /\ reader'.got = next
          BY <4>1, <4>5, <4>7 DEF next
        <4>9. \A j \in 1..i : next[j] # Missing =>
                 /\ GenerateAccepts(next[j].of)
                 /\ next[j].len <= FullLength(next[j].of, Files[j])
          <5> SUFFICES ASSUME NEW j \in 1..i, next[j] # Missing
                       PROVE  /\ GenerateAccepts(next[j].of)
                              /\ next[j].len <= FullLength(next[j].of, Files[j])
            OBVIOUS
          <5>1. CASE j = i
            BY <5>1, <4>4, <4>7 DEF file
          <5>2. CASE j # i
            <6>1. j \in 1..Len(got)
              BY <5>2, <4>2 DEF i
            <6>2. QED BY <6>1, <4>6, <4>7
          <5>3. QED BY <5>1, <5>2
        <4>10. Len(next) <= Len(Files)
          BY <4>2, <4>7, FilesListed
        <4>11. ReaderHasPrefixes'
          BY <4>7, <4>8, <4>9 DEF ReaderHasPrefixes
        <4>12. QED BY <4>7, <4>8, <4>10, <4>11
      <3>3. CASE \E dir \in SiftDirs : ReadSift(dir)
        <4>1. PICK dir \in SiftDirs : reader' = [kind |-> "sift", got |-> dir]
          BY <3>3 DEF ReadSift
        <4>2. reader'.kind # "fixture" /\ reader' \in [kind : {"sift"}, got : SiftDirs]
          BY <4>1
        <4>3. QED BY <4>2 DEF ReaderHasPrefixes
      <3>4. QED BY <1>6, <3>1, <3>2, <3>3
    <2>4. FixtureTypeOK'
      BY <1>2, <1>3, <2>1, <2>3 DEF FixtureTypeOK
    <2>5. QED BY <1>1, <2>2, <2>3, <2>4 DEF FixtureInv
  <1>7. CASE UNCHANGED fixtureVars
    BY <1>7 DEF FixtureInv, FixtureTypeOK, DiskIsGenerated, WriterIsBetween,
                WrittenIsWhole, ReaderHasPrefixes, fixtureVars, FileNames
  <1>8. QED BY <1>4, <1>5, <1>6, <1>7

\* In every state the directory holds prefixes of what accepted configurations
\* write, whole ones behind the writer, and so does what the benchmark has read,
\* whatever generators die and whoever reads meanwhile.
THEOREM FixtureInvariant == FixtureSpec => []FixtureInv
  <1>1. FixtureInit => FixtureInv
    <2> SUFFICES ASSUME FixtureInit PROVE FixtureInv
      OBVIOUS
    <2>1. /\ disk = [f \in FileNames |-> Missing] /\ writer = Idle
          /\ written = None /\ writes = 0 /\ reader = Idle
      BY DEF FixtureInit, FileNames
    <2>2. FixtureTypeOK
      BY <2>1, FixtureAssumption DEF FixtureTypeOK, FileType
    <2>3. DiskIsGenerated /\ WriterIsBetween /\ WrittenIsWhole /\ ReaderHasPrefixes
      BY <2>1 DEF DiskIsGenerated, WriterIsBetween, WrittenIsWhole, ReaderHasPrefixes
    <2>4. QED BY <2>2, <2>3 DEF FixtureInv
  <1>2. FixtureInv /\ [FixtureNext]_fixtureVars => FixtureInv'
    <2> SUFFICES ASSUME FixtureInv, [FixtureNext]_fixtureVars PROVE FixtureInv'
      OBVIOUS
    <2>1. CASE CreateFile \/ WritePart \/ FinishFile
      BY <2>1, CreateKeeps, PartKeeps, FinishKeeps
    <2>2. CASE UNCHANGED disk
      <3>1. CASE CreateFile \/ WritePart \/ FinishFile
        BY <2>1, <3>1
      <3>2. QED BY <2>2, <3>1, OthersKeep DEF FixtureNext
    <2>3. QED BY <2>1, <2>2
            DEF FixtureNext, Start, Fail, BeginLoad, ReadFile, ReadSift, fixtureVars
  <1>3. QED BY <1>1, <1>2, PTL DEF FixtureSpec

\* Whoever writes and whoever dies, files stay prefixes of what configurations
\* write, and the writer stays inside write_to_dir.
THEOREM FixtureTypes == FixtureSpec => []FixtureTypeOK
  <1>1. FixtureInv => FixtureTypeOK
    BY DEF FixtureInv
  <1>2. QED BY <1>1, FixtureInvariant, PTL

-----------------------------------------------------------------------------
(* What load makes of them *)

\* Everything in FileNames is listed once, so that a name finds its contents.
LEMMA ContentsIs ==
    ASSUME NEW got
    PROVE  /\ DOMAIN Contents(got) = FileNames
           /\ \A i \in 1..5 : Contents(got)[Files[i]] = got[i]
  <1>1. Contents(got) =
           [f \in FileNames |-> got[CHOOSE i \in 1..5 : Files[i] = f]]
    BY FilesListed DEF Contents, FileNames
  <1>2. ASSUME NEW i \in 1..5
        PROVE  Contents(got)[Files[i]] = got[i]
    <2> DEFINE f == Files[i]
               j == CHOOSE n \in 1..5 : Files[n] = f
    <2>1. f \in FileNames
      BY FilesListed
    <2>2. j \in 1..5 /\ Files[j] = f
      OBVIOUS
    <2>3. j = i
      BY <2>2, FilesListed
    <2>4. Contents(got)[f] = got[j]
      BY <1>1, <2>1
    <2>5. QED BY <2>3, <2>4
  <1>3. QED BY <1>1, <1>2

\* A whole file is readable, except for a ground truth whose header asks for
\* more neighbours than it has.
LEMMA WholeIsReadable ==
    ASSUME NEW c \in Configs, NEW f \in FileNames, NEW family,
           f \in DataFiles => c.family = family
    PROVE  /\ f # "ground_truth" \/ c.top_k <= c.num_vectors =>
                 Readable(family, f, Whole(c, f))
           /\ /\ f = "ground_truth" /\ c.top_k > c.num_vectors
              /\ c.num_queries > 0
              => ~Readable(family, f, Whole(c, f))
  <1>1. Whole(c, f).of = c /\ Whole(c, f).len = FullLength(c, f)
    BY DEF Whole
  <1>2. Whole(c, f) # Missing
    <2>1. FullLength(c, f) \in 0..FullLength(c, f)
      BY FileLengths
    <2>2. QED BY <2>1, WrittenFiles DEF Whole
  <1>3. Readable(family, f, Whole(c, f)) <=>
           /\ FullLength(c, f) >= HeaderLength(f)
           /\ FullLength(c, f) >= HeaderLength(f) + BodyRead(c, f)
    BY <1>1, <1>2 DEF Readable
  <1>4. QED BY <1>3, FileLengths

\* load of the other family stops at the magic of the first file.
LEMMA WrongFamilyRefused ==
    ASSUME NEW got, DOMAIN got = FileNames, NEW family,
           NEW f \in DataFiles, got[f].of.family # family
    PROVE  Load(family, got) = Err
  <1>1. f \in FileNames
    BY FilesListed
  <1>2. ~Readable(family, f, got[f])
    BY DEF Readable
  <1>3. QED BY <1>1, <1>2 DEF Load

\* Once a generator has finished, load of its family returns what it generated
\* and the other family's refuses; a fixture with more neighbours than rows is
\* refused by its own load.
THEOREM WholeFixturesLoad == FixtureSpec => []WholeFixtureLoads
  <1>1. FixtureInv => WholeFixtureLoads
    <2> SUFFICES ASSUME FixtureInv, written # None
                 PROVE  LET generated == Generate(written)
                        IN  /\ \A other \in Families \ {written.family} :
                                  Load(other, disk) = Err
                            /\ IF written.top_k > written.num_vectors
                               THEN Load(written.family, disk) = Err
                               ELSE Load(written.family, disk) =
                                      [dimension |-> written.dimension,
                                       metric |-> written.metric,
                                       num_categories |-> written.num_categories,
                                       corpus |-> generated.corpus,
                                       categories |-> generated.categories,
                                       queries |-> generated.queries,
                                       ground_truth |-> generated.ground_truth,
                                       top_k |-> written.top_k]
      BY DEF WholeFixtureLoads
    <2>1. /\ written \in Configs /\ GenerateAccepts(written)
          /\ DOMAIN disk = FileNames
          /\ \A f \in FileNames : disk[f] = Whole(written, f)
      BY DEF FixtureInv, FixtureTypeOK, DiskIsGenerated, WrittenIsWhole
    <2>2. \A f \in FileNames : disk[f].of = written
      BY <2>1 DEF Whole
    <2>3. /\ "corpus" \in FileNames /\ "meta" \in FileNames
          /\ "queries" \in FileNames /\ "ground_truth" \in FileNames
          /\ "manifest" \in FileNames /\ "corpus" \in DataFiles
      BY FilesListed DEF DataFiles
    <2>4. ASSUME NEW other \in Families \ {written.family}
          PROVE  Load(other, disk) = Err
      <3>1. disk["corpus"].of.family # other
        BY <2>2, <2>3
      <3>2. QED BY <2>1, <2>3, <3>1, WrongFamilyRefused
    <2>5. /\ written.num_queries > 0 /\ written.num_categories > 0
          /\ written.num_categories \in Nat
          /\ written.top_k \in Nat /\ written.num_vectors \in Nat
      BY <2>1, ConfigsAssumption DEF GenerateAccepts, UniformAccepts, ClusteredAccepts
    <2>6. CASE written.top_k > written.num_vectors
      <3>1. ~Readable(written.family, "ground_truth", disk["ground_truth"])
        BY <2>1, <2>3, <2>5, <2>6, WholeIsReadable
      <3>2. Load(written.family, disk) = Err
        BY <2>1, <2>3, <3>1 DEF Load
      <3>3. QED BY <2>4, <2>6, <3>2
    <2>7. CASE ~(written.top_k > written.num_vectors)
      <3>1. written.top_k <= written.num_vectors
        BY <2>5, <2>7
      <3>2. \A f \in DOMAIN disk : Readable(written.family, f, disk[f])
        BY <2>1, <3>1, WholeIsReadable
      <3>3. CountsAgree(disk)
        BY <2>2, <2>3 DEF CountsAgree
      <3>4. disk["manifest"].of.num_categories # 0
        BY <2>2, <2>3, <2>5
      <3>5. Load(written.family, disk) =
               [dimension |-> disk.corpus.of.dimension,
                metric |-> disk.manifest.of.metric,
                num_categories |-> disk.manifest.of.num_categories,
                corpus |-> Generate(disk.corpus.of).corpus,
                categories |-> Generate(disk.meta.of).categories,
                queries |-> Generate(disk.queries.of).queries,
                ground_truth |-> Generate(disk.ground_truth.of).ground_truth,
                top_k |-> disk.ground_truth.of.top_k]
        BY <3>2, <3>3, <3>4, Zenon DEF Load
      <3>6. /\ disk.corpus.of = written /\ disk.meta.of = written
            /\ disk.queries.of = written /\ disk.ground_truth.of = written
            /\ disk.manifest.of = written
        BY <2>2, <2>3
      <3>7. QED BY <2>4, <2>7, <3>5, <3>6, Zenon
    <2>8. QED BY <2>4, <2>6, <2>7
  <1>2. QED BY <1>1, FixtureInvariant, PTL

\* What a load that does not refuse has read: five files of accepted
\* configurations, the data files whole and of its family, with equal counts.
LEMMA LoadedIs ==
    ASSUME FixtureInv, NEW family \in Families, LoadedAs(family) # Err
    PROVE  LET got == Contents(reader.got)
           IN  /\ HasFixture
               /\ reader.got \in Seq(FileType) /\ DOMAIN reader.got = 1..5
               /\ LoadedAs(family) = Load(family, got)
               /\ DOMAIN got = FileNames
               /\ \A f \in FileNames :
                     /\ got[f] \in FileType /\ got[f] # Missing
                     /\ got[f].of \in Configs
                     /\ GenerateAccepts(got[f].of)
                     /\ got[f].len <= FullLength(got[f].of, f)
                     /\ Readable(family, f, got[f])
               /\ CountsAgree(got)
               /\ got.manifest.of.num_categories # 0
  <1> DEFINE got == Contents(reader.got)
  <1>1. HasFixture /\ LoadedAs(family) = Load(family, got)
    <2>1. family = "uniform" \/ family = "clustered"
      BY DEF Families
    <2>2. family # "sift"
      BY <2>1
    <2>3. QED BY <2>1, <2>2 DEF LoadedAs, LoadClustered
  <1>2. /\ reader # Idle /\ reader.kind = "fixture" /\ Len(reader.got) = 5
        /\ \A i \in DOMAIN reader.got : reader.got[i] # Missing
    BY <1>1, FilesListed DEF HasFixture
  <1>3. reader.got \in Seq(FileType) /\ DOMAIN reader.got = 1..5
    BY <1>2 DEF FixtureInv, FixtureTypeOK
  <1>4. DOMAIN got = FileNames /\ \A i \in 1..5 : got[Files[i]] = reader.got[i]
    BY ContentsIs
  <1>5. /\ \A f \in DOMAIN got : Readable(family, f, got[f])
        /\ CountsAgree(got)
        /\ got.manifest.of.num_categories # 0
    <2> HIDE DEF got
    <2>1. QED BY <1>1, Zenon DEF Load
  <1>6. ASSUME NEW f \in FileNames
        PROVE  /\ got[f] \in FileType /\ got[f] # Missing
               /\ got[f].of \in Configs
               /\ GenerateAccepts(got[f].of)
               /\ got[f].len <= FullLength(got[f].of, f)
    <2>1. PICK i \in 1..5 : f = Files[i]
      BY FilesListed DEF FileNames
    <2>2. got[f] = reader.got[i]
      BY <1>4, <2>1
    <2>3. /\ reader.got[i] \in FileType /\ reader.got[i] # Missing
      BY <1>2, <1>3
    <2>4. /\ GenerateAccepts(reader.got[i].of)
          /\ reader.got[i].len <= FullLength(reader.got[i].of, Files[i])
      BY <1>2, <1>3, <2>3 DEF FixtureInv, ReaderHasPrefixes
    <2>5. reader.got[i].of \in Configs
      BY <2>3, FileIs
    <2> HIDE DEF got
    <2>6. QED BY <2>1, <2>2, <2>3, <2>4, <2>5
  <1>7. QED BY <1>1, <1>3, <1>4, <1>5, <1>6

\* load accepts no data file cut short, whatever writers did before and during
\* its five reads.
THEOREM OnlyWholeFiles == FixtureSpec => []OnlyWholeFilesLoad
  <1>1. FixtureInv => OnlyWholeFilesLoad
    <2> SUFFICES ASSUME FixtureInv, NEW family \in Families,
                        LoadedAs(family) # Err, NEW f \in DataFiles
                 PROVE  LET file == Contents(reader.got)[f]
                        IN  file = Whole(file.of, f) /\ file.of.family = family
      BY DEF OnlyWholeFilesLoad
    <2> DEFINE file == Contents(reader.got)[f]
    <2>1. f \in FileNames
      BY FilesListed
    <2>2. /\ file \in FileType /\ file # Missing /\ file.of \in Configs
          /\ file.len <= FullLength(file.of, f)
          /\ Readable(family, f, file)
      BY <2>1, LoadedIs
    <2> HIDE DEF file
    <2>3. /\ file.of.family = family
          /\ file.len >= HeaderLength(f) + BodyRead(file.of, f)
      BY <2>2 DEF Readable
    <2>4. /\ FullLength(file.of, f) = HeaderLength(f) + BodyLength(file.of, f)
          /\ BodyLength(file.of, f) <= BodyRead(file.of, f)
          /\ HeaderLength(f) \in Nat /\ BodyLength(file.of, f) \in Nat
          /\ BodyRead(file.of, f) \in Nat
      BY <2>1, <2>2, FileLengths
    <2>5. file.len \in Nat /\ file = [of |-> file.of, len |-> file.len]
      BY <2>2, FileIs
    <2>6. file.len = FullLength(file.of, f)
      BY <2>2, <2>3, <2>4, <2>5
    <2>7. file = Whole(file.of, f)
      BY <2>5, <2>6 DEF Whole
    <2>8. QED BY <2>3, <2>7 DEF file
  <1>2. QED BY <1>1, FixtureInvariant, PTL

-----------------------------------------------------------------------------
(* The answers of the oracles and of the engine *)

\* Candidates lists the rows at the positions kept, once each, in row order.
LEMMA CandidatesAre ==
    ASSUME NEW metric, NEW query, NEW rows, NEW K \in SUBSET Nat, IsFiniteSet(K),
           NEW D \in SUBSET Int,
           \A i \in K : Distance(metric, query, rows[i]) \in D
    PROVE  LET seq == Candidates(metric, query, rows, K)
           IN  /\ Cardinality(K) \in Nat
               /\ seq \in Seq([id : Nat, distance : D])
               /\ Len(seq) = Cardinality(K) /\ DOMAIN seq = 1..Cardinality(K)
               /\ InRowOrder(seq)
  <1> DEFINE n == Cardinality(K)
             order == Ascending(K)
             C == [id : Nat, distance : D]
             seq == Candidates(metric, query, rows, K)
  <1>1. IsFiniteSet(K) /\ n \in Nat /\ K \in SUBSET Nat
    BY FS_CardinalityType
  <1>2. order \in Seq(K) /\ Len(order) = n
    BY <1>1, AscendingLists
  <1>3. \A i \in 1..n : order[i] \in K /\ order[i] \in Nat
    <2> HIDE DEF n, order
    <2>1. \A i \in 1..n : order[i] \in K
      BY <1>2
    <2>2. \A x \in K : x \in Nat
      BY <1>1
    <2>3. QED BY <2>1, <2>2
  <1>4. \A i, j \in 1..n : i < j => order[i] < order[j]
    BY <1>1, AscendingInOrder
  <1>5. seq = [i \in 1..n |->
                  [id |-> order[i],
                   distance |-> Distance(metric, query, rows[order[i]])]]
    BY <1>2 DEF Candidates
  <1> HIDE DEF n, order, seq
  <1>6. \A i \in 1..n : seq[i] \in C /\ seq[i].id = order[i]
    BY <1>3, <1>5
  <1>7. seq \in [1..n -> C]
    BY <1>5, <1>6
  <1>8. seq \in Seq(C) /\ Len(seq) = n /\ DOMAIN seq = 1..n
    <2> HIDE DEF C
    <2> QED BY <1>1, <1>7
  <1>9. InRowOrder(seq)
    BY <1>4, <1>6, <1>8 DEF InRowOrder
  <1>10. QED BY <1>1, <1>8, <1>9 DEF n, seq

\* Finitely many rows.
AreRows(K) == K \in SUBSET Nat /\ IsFiniteSet(K)

\* The distance of the query from each of them is a number.
NoNaNs(metric, query, rows, K) ==
    \A i \in K : Distance(metric, query, rows[i]) \in Int \ NaNs

\* Where no distance is a NaN, the generators' oracle answers what the engine
\* does: k rows, or as many as there are.
LEMMA OracleAnswers ==
    ASSUME NEW metric, NEW query, NEW rows, NEW K, AreRows(K),
           NoNaNs(metric, query, rows, K), NEW k \in Nat \ {0}
    PROVE  LET seq == Candidates(metric, query, rows, K)
               ids == IdsOf(InsertionTopK(seq, k, ByDistanceThenId))
           IN  /\ Cardinality(K) \in Nat
               /\ DOMAIN seq = 1..Cardinality(K)
               /\ ids = IdsOf(Truncate(SortBy(seq, ByDistanceThenId), k))
               /\ DOMAIN ids = 1..AtMost(Cardinality(K), k)
               /\ Len(ids) = AtMost(Cardinality(K), k)
  <1> DEFINE C == [id : Nat, distance : Int \ NaNs]
             seq == Candidates(metric, query, rows, K)
             cut == Truncate(SortBy(seq, ByDistanceThenId), k)
  <1>1. /\ Cardinality(K) \in Nat
        /\ seq \in Seq(C) /\ DOMAIN seq = 1..Cardinality(K) /\ InRowOrder(seq)
    <2> DEFINE D == Int \ NaNs
    <2>1. D \in SUBSET Int
      OBVIOUS
    <2>2. \A i \in K : Distance(metric, query, rows[i]) \in D
      BY DEF NoNaNs
    <2> HIDE DEF D
    <2>3. K \in SUBSET Nat /\ IsFiniteSet(K)
      BY DEF AreRows
    <2>4. /\ Cardinality(K) \in Nat
          /\ seq \in Seq([id : Nat, distance : D])
          /\ DOMAIN seq = 1..Cardinality(K) /\ InRowOrder(seq)
      BY <2>1, <2>2, <2>3, CandidatesAre
    <2>5. QED BY <2>4 DEF D
  <1> HIDE DEF seq
  <1>2. AreCandidates(C)
    BY DEF AreCandidates
  <1>3. InsertionTopK(seq, k, ByDistanceThenId) = cut
    <2> HIDE DEF C
    <2> QED BY <1>1, <1>2, OraclesAgree
  <1>4. DOMAIN cut = 1..AtMost(Cardinality(K), k) /\ AtMost(Cardinality(K), k) \in Nat
    <2> DEFINE n == Cardinality(K)
    <2>1. n \in Nat /\ DOMAIN seq = 1..n /\ k \in Nat
      BY <1>1
    <2> HIDE DEF n
    <2>2. DOMAIN cut = 1..AtMost(n, k) /\ AtMost(n, k) \in 0..n
      BY <2>1, SortedAndCut
    <2>3. QED BY <2>1, <2>2 DEF n
  <1> HIDE DEF cut
  <1>5. DOMAIN IdsOf(cut) = 1..AtMost(Cardinality(K), k)
        /\ Len(IdsOf(cut)) = AtMost(Cardinality(K), k)
    BY <1>4, IdsAre
  <1>6. QED BY <1>1, <1>3, <1>5 DEF seq, cut

\* Reports that each find at least M reach at least M times their number.
LEMMA HitsAddUp ==
    ASSUME NEW L \in Nat \ {0}, NEW recalls, Len(recalls) = L, NEW M \in Nat,
           \A n \in 1..L : recalls[n].hit \in Nat /\ recalls[n].hit >= M,
           recalls[1].of = M, NEW percent \in 0..100
    PROVE  RecallReaches(recalls, percent)
  <1> DEFINE F == [p \in Nat \X (1..L) |-> p[1] + recalls[p[2]].hit]
             Step(f) == [n \in 0..L |-> IF n = 0 THEN 0
                                        ELSE f[n - 1] + recalls[n].hit]
             Hits == CHOOSE f : f = Step(f)
  <1>1. F \in StepsIn(Nat, L)
    BY DEF StepsIn
  <1>2. \A sum \in Nat, n \in 1..L : F[<<sum, n>>] = sum + recalls[n].hit
    OBVIOUS
  <1>3. PICK g \in [0..L -> Nat] :
           /\ g[0] = 0
           /\ \A n \in 1..L : g[n] = F[<<g[n - 1], n>>]
    <2> DEFINE zero == 0
               V == Nat
    <2>1. zero \in V /\ L \in Nat /\ F \in StepsIn(V, L)
      BY <1>1
    <2> HIDE DEF F, zero, V
    <2>2. \E g \in [0..L -> V] :
             /\ g[0] = zero
             /\ \A n \in 1..L : g[n] = F[<<g[n - 1], n>>]
      BY ONLY <2>1, RecursionExists
    <2>3. QED BY <2>2 DEF zero, V
  <1> HIDE DEF F
  <1>4. g = Step(g)
    <2>1. \A n \in 1..L : g[n - 1] \in Nat
      OBVIOUS
    <2>2. \A n \in 1..L : F[<<g[n - 1], n>>] = g[n - 1] + recalls[n].hit
      BY <1>2, <2>1
    <2>3. \A n \in 0..L : g[n] = IF n = 0 THEN 0 ELSE g[n - 1] + recalls[n].hit
      <3>1. \A n \in 0..L : n = 0 \/ n \in 1..L
        OBVIOUS
      <3>2. \A n \in 1..L : n # 0
        OBVIOUS
      <3>3. QED BY <1>3, <2>2, <3>1, <3>2, Zenon
    <2>4. g = [n \in 0..L |-> g[n]]
      OBVIOUS
    <2>5. QED BY <2>3, <2>4
  <1>5. Hits = Step(Hits)
    <2> HIDE DEF Step
    <2> QED BY <1>4
  <1>6. RecallReaches(recalls, percent) <=>
           100 * Hits[L] >= percent * recalls[1].of * L
    BY DEF RecallReaches
  <1> HIDE DEF Hits
  <1>7. Hits[0] = 0 /\ \A n \in 1..L : Hits[n] = Hits[n - 1] + recalls[n].hit
    <2>1. \A n \in 0..L :
             Hits[n] = IF n = 0 THEN 0 ELSE Hits[n - 1] + recalls[n].hit
      BY <1>5
    <2>2. QED BY <2>1
  <1> DEFINE Short == {n \in 0..L : ~(Hits[n] \in Nat /\ Hits[n] >= n * M)}
  <1>8. ASSUME Short # {} PROVE FALSE
    <2>1. PICK m \in Short : \A x \in Short : m <= x
      <3>1. Short \in SUBSET Nat
        OBVIOUS
      <3> HIDE DEF Short
      <3>2. QED BY <1>8, <3>1, LeastOfNats
    <2>2. m \in 0..L /\ ~(Hits[m] \in Nat /\ Hits[m] >= m * M)
      OBVIOUS
    <2>3. m # 0
      BY <1>7, <2>2
    <2>4. m - 1 \in 0..L /\ m \in 1..L /\ ~(m <= m - 1)
      BY <2>2, <2>3
    <2>5. Hits[m - 1] \in Nat /\ Hits[m - 1] >= (m - 1) * M
      BY <2>1, <2>4
    <2>6. Hits[m] = Hits[m - 1] + recalls[m].hit
      BY <1>7, <2>4
    <2>7. recalls[m].hit \in Nat /\ recalls[m].hit >= M
      BY <2>4
    <2>8. (m - 1) * M + M = m * M /\ (m - 1) * M \in Nat
      BY <2>4
    <2> DEFINE before == (m - 1) * M
               all == m * M
               sum == Hits[m - 1]
               hit == recalls[m].hit
    <2> HIDE DEF Short, before, all
    <2>9. /\ sum \in Nat /\ sum >= before /\ hit \in Nat /\ hit >= M
          /\ before \in Nat /\ before + M = all
      BY <2>5, <2>7, <2>8 DEF before, all
    <2>10. Hits[m] = sum + hit
      BY <2>6
    <2> HIDE DEF sum, hit
    <2>11. sum + hit \in Nat /\ sum + hit >= all
      BY ONLY <2>9, M \in Nat
    <2>12. QED BY <2>2, <2>10, <2>11 DEF all
  <1>9. Hits[L] \in Nat /\ Hits[L] >= L * M
    <2>1. L \in 0..L
      OBVIOUS
    <2>2. QED BY <1>8, <2>1
  <1>10. percent * M * L <= 100 * (L * M)
    <2> DEFINE all == L * M
    <2>1. all \in Nat /\ percent * M * L = percent * all
      OBVIOUS
    <2> HIDE DEF all
    <2>2. percent * all <= 100 * all
      BY <2>1
    <2>3. QED BY <2>1, <2>2 DEF all
  <1>11. 100 * (L * M) <= 100 * Hits[L]
    <2>1. L * M \in Nat
      OBVIOUS
    <2>2. QED BY <1>9, <2>1
  <1>12. percent * M * L \in Nat /\ L * M \in Nat
    OBVIOUS
  <1>13. percent * recalls[1].of * L = percent * M * L
    OBVIOUS
  <1>14. 100 * Hits[L] >= percent * M * L
    <2>1. 100 * Hits[L] \in Nat /\ 100 * (L * M) \in Nat
      BY <1>9, <1>12
    <2> DEFINE a == percent * M * L
               b == 100 * (L * M)
               c == 100 * Hits[L]
    <2>2. a \in Nat /\ b \in Nat /\ c \in Nat /\ a <= b /\ b <= c
      BY <1>10, <1>11, <1>12, <2>1
    <2> HIDE DEF a, b, c
    <2>3. c >= a
      BY <2>2
    <2>4. QED BY <2>3 DEF a, c
  <1>15. QED BY <1>6, <1>13, <1>14

-----------------------------------------------------------------------------
(* What a run makes of what load returns *)

\* A corpus load returned: rows, queries, answers and manifest of four
\* configurations whose counts agree.
IsFixture(corpus, rows, asked, truth, shown) ==
    /\ rows \in Configs /\ asked \in Configs /\ truth \in Configs /\ shown \in Configs
    /\ GenerateAccepts(rows) /\ GenerateAccepts(asked) /\ GenerateAccepts(truth)
    /\ asked.dimension = rows.dimension
    /\ truth.num_queries = asked.num_queries
    /\ truth.top_k <= truth.num_vectors
    /\ corpus.metric = shown.metric
    /\ corpus.top_k = truth.top_k
    /\ corpus.num_categories = shown.num_categories
    /\ corpus.corpus = Vectors(rows, rows.num_vectors)
    /\ corpus.queries = Vectors(asked, asked.num_queries)
    /\ Len(corpus.categories) = rows.num_vectors
    /\ DOMAIN corpus.categories = 1..rows.num_vectors
    /\ Len(corpus.ground_truth) = asked.num_queries
    /\ \A q \in 1..asked.num_queries :
          corpus.ground_truth[q] =
              ExactTopK(truth.metric, Vectors(truth, truth.num_queries)[q],
                        Vectors(truth, truth.num_vectors), truth.top_k)

\* The vectors a configuration draws.
LEMMA VectorsAre ==
    ASSUME NEW c, NEW n \in Nat
    PROVE  /\ DOMAIN Vectors(c, n) = 1..n /\ Len(Vectors(c, n)) = n
  <1>1. Vectors(c, n) = [i \in 1..n |-> [stream |-> Stream(c), n |-> i]]
    BY DEF Vectors
  <1>2. QED BY <1>1

\* What an accepted configuration counts is there.
LEMMA AcceptedCounts ==
    ASSUME NEW c \in Configs, GenerateAccepts(c)
    PROVE  /\ c.num_vectors \in Nat \ {0} /\ c.num_queries \in Nat \ {0}
           /\ c.top_k \in Nat \ {0} /\ c.num_categories \in Nat \ {0}
           /\ c.family \in Families
  BY ConfigsAssumption DEF GenerateAccepts, UniformAccepts, ClusteredAccepts

\* load returns a corpus of that shape.
LEMMA LoadedFixture ==
    ASSUME FixtureInv, NEW family \in Families, LoadedAs(family) # Err
    PROVE  LET got == Contents(reader.got)
           IN  IsFixture(LoadedAs(family), got.corpus.of, got.queries.of,
                         got.ground_truth.of, got.manifest.of)
  <1> DEFINE got == Contents(reader.got)
             corpus == LoadedAs(family)
             rows == got.corpus.of
             asked == got.queries.of
             truth == got.ground_truth.of
             shown == got.manifest.of
             held == got.meta.of
  <1>1. /\ corpus = Load(family, got)
        /\ DOMAIN got = FileNames
        /\ \A f \in FileNames :
              /\ got[f] \in FileType /\ got[f] # Missing
              /\ got[f].of \in Configs
              /\ GenerateAccepts(got[f].of)
              /\ got[f].len <= FullLength(got[f].of, f)
              /\ Readable(family, f, got[f])
        /\ CountsAgree(got)
        /\ got.manifest.of.num_categories # 0
    BY LoadedIs
  <1>2. /\ "corpus" \in FileNames /\ "meta" \in FileNames
        /\ "queries" \in FileNames /\ "ground_truth" \in FileNames
        /\ "manifest" \in FileNames
    BY FilesListed DEF DataFiles
  <1>3. corpus = [dimension |-> rows.dimension, metric |-> shown.metric,
                  num_categories |-> shown.num_categories,
                  corpus |-> Generate(rows).corpus,
                  categories |-> Generate(held).categories,
                  queries |-> Generate(asked).queries,
                  ground_truth |-> Generate(truth).ground_truth,
                  top_k |-> truth.top_k]
    <2> HIDE DEF got, corpus
    <2>1. QED BY <1>1, Zenon DEF Load, corpus
  <1>4. /\ asked.dimension = rows.dimension
        /\ held.num_vectors = rows.num_vectors
        /\ truth.num_queries = asked.num_queries
    BY <1>1 DEF CountsAgree
  <1>5. /\ rows \in Configs /\ asked \in Configs /\ truth \in Configs
        /\ shown \in Configs /\ held \in Configs
        /\ GenerateAccepts(rows) /\ GenerateAccepts(asked) /\ GenerateAccepts(truth)
    <2> HIDE DEF got
    <2> QED BY <1>1, <1>2
  <1>6. truth.top_k <= truth.num_vectors
    <2> DEFINE file == got["ground_truth"]
               f == "ground_truth"
    <2>1. /\ file \in FileType /\ file # Missing /\ file.of = truth
          /\ file.len <= FullLength(truth, f)
          /\ Readable(family, f, file)
      <3> HIDE DEF got
      <3> QED BY <1>1, <1>2
    <2> HIDE DEF got, file, truth
    <2>2. file.len >= HeaderLength(f) + BodyRead(truth, f) /\ file.len \in Nat
      BY <2>1, FileIs DEF Readable
    <2>3. /\ truth.top_k \in Nat /\ truth.num_vectors \in Nat
          /\ truth.num_queries > 0
      BY <1>5, AcceptedCounts
    <2>4. /\ HeaderLength(f) \in Nat /\ BodyRead(truth, f) \in Nat
          /\ BodyLength(truth, f) \in Nat
          /\ FullLength(truth, f) = HeaderLength(f) + BodyLength(truth, f)
          /\ truth.top_k > truth.num_vectors =>
                BodyLength(truth, f) < BodyRead(truth, f)
      BY <1>2, <1>5, <2>3, FileLengths
    <2>5. QED BY <2>1, <2>2, <2>3, <2>4
  <1> HIDE DEF got, rows, asked, truth, shown, held, corpus
  <1>7. /\ rows.num_vectors \in Nat /\ asked.num_queries \in Nat
        /\ truth.num_queries \in Nat /\ truth.num_vectors \in Nat
    BY <1>5, AcceptedCounts
  <1>8. /\ Generate(rows).corpus = Vectors(rows, rows.num_vectors)
        /\ Generate(asked).queries = Vectors(asked, asked.num_queries)
        /\ Generate(held).categories = Categories(held)
        /\ Generate(truth).ground_truth =
              [q \in DOMAIN Vectors(truth, truth.num_queries) |->
                  ExactTopK(truth.metric, Vectors(truth, truth.num_queries)[q],
                            Vectors(truth, truth.num_vectors), truth.top_k)]
    BY DEF Generate
  <1>9. /\ DOMAIN Categories(held) = 1..rows.num_vectors
        /\ Len(Categories(held)) = rows.num_vectors
    <2>1. Categories(held) =
             [i \in 1..rows.num_vectors |->
                 (Draw(held.family, held.seed, i) % held.num_categories)
                     % CategoryWidth]
      BY <1>4 DEF Categories
    <2>2. QED BY <1>7, <2>1
  <1>10. DOMAIN Vectors(truth, truth.num_queries) = 1..asked.num_queries
    BY <1>4, <1>7, VectorsAre
  <1>11. Len(Generate(truth).ground_truth) = asked.num_queries
    BY <1>7, <1>8, <1>10
  <1>12. \A q \in 1..asked.num_queries :
            Generate(truth).ground_truth[q] =
                ExactTopK(truth.metric, Vectors(truth, truth.num_queries)[q],
                          Vectors(truth, truth.num_vectors), truth.top_k)
    BY <1>8, <1>10
  <1>13. IsFixture(corpus, rows, asked, truth, shown)
    BY <1>3, <1>4, <1>5, <1>6, <1>8, <1>9, <1>11, <1>12 DEF IsFixture
  <1>14. QED BY <1>13 DEF got, rows, asked, truth, shown, corpus

\* A list of answers in the ground truth: the sorted rows, cut at top_k.
LEMMA TruthIsSorted ==
    ASSUME NEW c \in Configs, GenerateAccepts(c), NEW q \in 1..c.num_queries
    PROVE  LET rows == Vectors(c, c.num_vectors)
               query == Vectors(c, c.num_queries)[q]
               seq == Candidates(c.metric, query, rows, 1..c.num_vectors)
               ids == ExactTopK(c.metric, query, rows, c.top_k)
           IN  /\ DOMAIN seq = 1..c.num_vectors
               /\ ids = IdsOf(Truncate(SortBy(seq, ByDistanceThenId), c.top_k))
               /\ DOMAIN ids = 1..AtMost(c.num_vectors, c.top_k)
               /\ Len(ids) = AtMost(c.num_vectors, c.top_k)
  <1> DEFINE k == c.top_k
             metric == c.metric
             rows == Vectors(c, c.num_vectors)
             query == Vectors(c, c.num_queries)[q]
             N == c.num_vectors
             K == 1..N
             seq == Candidates(metric, query, rows, K)
             ids == ExactTopK(metric, query, rows, k)
  <1>1. N \in Nat \ {0} /\ k \in Nat \ {0}
    BY AcceptedCounts
  <1>2. DOMAIN rows = 1..N
    BY <1>1, VectorsAre
  <1>3. \A i \in 1..N : Distance(metric, query, rows[i]) \in Int \ NaNs
    BY DistanceAssumption
  <1>4. ids = IdsOf(InsertionTopK(seq, k, ByDistanceThenId))
    BY <1>2 DEF ExactTopK
  <1>5. Cardinality(1..N) = N
    BY <1>1, FS_Interval
  <1>6. AreRows(K)
    <2>1. N \in Int /\ 1 \in Int
      BY <1>1
    <2> HIDE DEF N
    <2>2. IsFiniteSet(1..N)
      BY <2>1, FS_Interval
    <2>3. QED BY <2>2 DEF AreRows
  <1>7. NoNaNs(metric, query, rows, K)
    BY <1>3 DEF NoNaNs
  <1> HIDE DEF k, metric, rows, query, ids, N, K
  <1>8. /\ DOMAIN seq = 1..Cardinality(K)
        /\ IdsOf(InsertionTopK(seq, k, ByDistanceThenId))
              = IdsOf(Truncate(SortBy(seq, ByDistanceThenId), k))
        /\ DOMAIN IdsOf(InsertionTopK(seq, k, ByDistanceThenId))
              = 1..AtMost(Cardinality(K), k)
        /\ Len(IdsOf(InsertionTopK(seq, k, ByDistanceThenId)))
              = AtMost(Cardinality(K), k)
    BY <1>1, <1>6, <1>7, OracleAnswers
  <1>9. QED BY <1>4, <1>5, <1>8 DEF k, metric, rows, query, ids, N, K

\* keep_categories is no filter or a set of categories; without categories it
\* is no filter.
LEMMA KeptCategories ==
    ASSUME NEW h \in HarnessConfigs, NEW m \in Nat
    PROVE  /\ KeepCategories(h.selectivity, m) \in {None} \cup SUBSET Nat
           /\ m = 0 => KeepCategories(h.selectivity, m) = None
  <1> DEFINE k == Rounded(h.selectivity[1], h.selectivity[2], m)
  <1>1. h.selectivity[1] \in Nat /\ h.selectivity[2] \in Nat \ {0}
    BY HarnessAssumption
  <1>2. 0..((IF k < 1 THEN 1 ELSE k) - 1) \in SUBSET Nat
    BY <1>1 DEF Rounded
  <1>3. QED BY <1>2 DEF KeepCategories

\* What Recalls reports, when every query's answers and results are lists.
LEMMA RecallsAre ==
    ASSUME NEW corpus, NEW h, NEW keep, Measured(corpus, h) \in Nat,
           \A q \in 1..Measured(corpus, h) :
              /\ Len(Expected(corpus, h, keep, q)) \in Nat
              /\ IsFiniteSet(DOMAIN Results(corpus, corpus.queries[q], h.top_k, keep))
    PROVE  LET counted == {q \in 1..Measured(corpus, h) :
                              Len(Expected(corpus, h, keep, q)) > 0}
               recalls == Recalls(corpus, h, keep)
           IN  /\ IsFiniteSet(counted) /\ Cardinality(counted) \in Nat
               /\ recalls \in Seq([hit : Nat, of : Nat])
               /\ Len(recalls) = Cardinality(counted)
               /\ DOMAIN recalls = 1..Cardinality(counted)
               /\ \A n \in 1..Cardinality(counted) :
                     \E q \in counted :
                        recalls[n] = Recall(Expected(corpus, h, keep, q),
                                            Results(corpus, corpus.queries[q],
                                                    h.top_k, keep))
  <1> DEFINE M == Measured(corpus, h)
             counted == {q \in 1..M : Len(Expected(corpus, h, keep, q)) > 0}
             order == Ascending(counted)
             N == Cardinality(counted)
             One(q) == Recall(Expected(corpus, h, keep, q),
                              Results(corpus, corpus.queries[q], h.top_k, keep))
             recalls == Recalls(corpus, h, keep)
  <1>1. IsFiniteSet(counted) /\ N \in Nat /\ counted \in SUBSET Nat
    <2>1. IsFiniteSet(1..M) /\ counted \in SUBSET (1..M) /\ counted \in SUBSET Nat
      BY FS_Interval
    <2> HIDE DEF counted
    <2>2. IsFiniteSet(counted)
      BY <2>1, FS_Subset
    <2>3. QED BY <2>1, <2>2, FS_CardinalityType
  <1>2. \A q \in counted : One(q) \in [hit : Nat, of : Nat]
    <2> SUFFICES ASSUME NEW q \in counted PROVE One(q) \in [hit : Nat, of : Nat]
      OBVIOUS
    <2> DEFINE expected == Expected(corpus, h, keep, q)
               results == Results(corpus, corpus.queries[q], h.top_k, keep)
               hits == {i \in DOMAIN results :
                           \E j \in DOMAIN expected : results[i] = expected[j]}
    <2>1. Len(expected) \in Nat /\ IsFiniteSet(DOMAIN results)
      OBVIOUS
    <2> HIDE DEF expected, results
    <2>2. hits \in SUBSET DOMAIN results
      OBVIOUS
    <2> HIDE DEF hits
    <2>3. Cardinality(hits) \in Nat
      BY <2>1, <2>2, FS_Subset, FS_CardinalityType
    <2>4. [hit |-> Cardinality(hits), of |-> Len(expected)] \in [hit : Nat, of : Nat]
      BY <2>1, <2>3
    <2>5. QED BY <2>4 DEF Recall, hits, expected, results
  <1> HIDE DEF One
  <1>3. order \in Seq(counted) /\ Len(order) = N
    <2> HIDE DEF counted
    <2> QED BY <1>1, AscendingLists
  <1>4. recalls = [n \in 1..N |-> One(order[n])]
    BY <1>3 DEF Recalls, One
  <1> HIDE DEF order, counted, N, recalls
  <1>5. \A n \in 1..N : order[n] \in counted
    BY <1>3
  <1>6. \A n \in 1..N : recalls[n] = One(order[n]) /\ One(order[n]) \in [hit : Nat, of : Nat]
    BY <1>2, <1>4, <1>5
  <1> DEFINE R == [hit : Nat, of : Nat]
  <1>7. recalls \in [1..N -> R]
    BY <1>4, <1>6
  <1>8. recalls \in Seq(R) /\ Len(recalls) = N /\ DOMAIN recalls = 1..N
    <2> HIDE DEF R
    <2> QED BY <1>1, <1>7
  <1>9. \A n \in 1..N : \E q \in counted : recalls[n] = One(q)
    BY <1>5, <1>6
  <1>10. QED BY <1>1, <1>8, <1>9 DEF counted, N, recalls, One

\* The rows a filter keeps.
KeptRows(corpus, rows, keep) ==
    {i \in 1..rows.num_vectors : Kept(keep, corpus.categories[i])}

\* A query of the corpus, in a run of the harness.
IsAsked(asked, h, q) ==
    /\ h \in HarnessConfigs /\ h.top_k \in Nat \ {0}
    /\ q \in 1..asked.num_queries

\* How many answers there are.
FoundCount(corpus, rows, h, keep) ==
    AtMost(Cardinality(KeptRows(corpus, rows, keep)), h.top_k)

\* The engine ranks the rows a filter keeps.
LEMMA ResultsAre ==
    ASSUME NEW corpus, NEW rows, NEW asked, NEW truth, NEW shown,
           IsFixture(corpus, rows, asked, truth, shown), NEW query, NEW k, NEW keep
    PROVE  Results(corpus, query, k, keep) =
              IdsOf(Truncate(SortBy(Candidates(corpus.metric, query, corpus.corpus,
                                               KeptRows(corpus, rows, keep)),
                                    ByDistanceThenId), k))
  <1>1. rows.num_vectors \in Nat
    BY AcceptedCounts DEF IsFixture
  <1>2. DOMAIN corpus.corpus = 1..rows.num_vectors
        /\ DOMAIN corpus.categories = 1..rows.num_vectors
    BY <1>1, VectorsAre DEF IsFixture
  <1>3. {i \in DOMAIN corpus.corpus : Kept(keep, Ingested(corpus, i))}
           = KeptRows(corpus, rows, keep)
    BY <1>2 DEF Ingested, KeptRows
  <1>4. QED BY <1>3, Zenon DEF Results

\* What the engine returns on a corpus load returned: a list, and with a filter
\* the very list the filtered oracle expects.
LEMMA AnswersAre ==
    ASSUME NEW corpus, NEW rows, NEW asked, NEW truth, NEW shown,
           IsFixture(corpus, rows, asked, truth, shown),
           NEW h, NEW keep, NEW q, IsAsked(asked, h, q)
    PROVE  LET K == KeptRows(corpus, rows, keep)
               L == FoundCount(corpus, rows, h, keep)
               results == Results(corpus, corpus.queries[q], h.top_k, keep)
           IN  /\ IsFiniteSet(K) /\ Cardinality(K) \in Nat
               /\ L \in Nat /\ DOMAIN results = 1..L
               /\ keep # None => /\ Expected(corpus, h, keep, q) = results
                                 /\ Len(Expected(corpus, h, keep, q)) = L
  <1> DEFINE K == KeptRows(corpus, rows, keep)
             k == h.top_k
             metric == corpus.metric
             query == corpus.queries[q]
             vectors == corpus.corpus
             seq == Candidates(metric, query, vectors, K)
             L == AtMost(Cardinality(K), k)
             results == Results(corpus, query, k, keep)
  <1>0. /\ h \in HarnessConfigs /\ h.top_k \in Nat \ {0}
        /\ q \in 1..asked.num_queries
    BY DEF IsAsked
  <1>1. /\ rows \in Configs /\ asked \in Configs /\ shown \in Configs
        /\ rows.num_vectors \in Nat /\ asked.num_queries \in Nat
    BY AcceptedCounts DEF IsFixture
  <1>2. AreRows(K) /\ IsFiniteSet(K)
    <2>1. rows.num_vectors \in Int /\ 1 \in Int
      BY <1>1
    <2>2. IsFiniteSet(1..rows.num_vectors)
      BY <2>1, FS_Interval
    <2>3. K \in SUBSET (1..rows.num_vectors) /\ K \in SUBSET Nat
      BY DEF KeptRows
    <2> HIDE DEF K
    <2>4. QED BY <2>2, <2>3, FS_Subset DEF AreRows
  <1>3. NoNaNs(metric, query, vectors, K)
    <2> SUFFICES ASSUME NEW i \in K
                 PROVE  Distance(metric, query, vectors[i]) \in Int \ NaNs
      BY DEF NoNaNs
    <2>1. i \in 1..rows.num_vectors
      BY DEF KeptRows
    <2>2. /\ metric = shown.metric /\ asked.dimension = rows.dimension
          /\ query = Vectors(asked, asked.num_queries)[q]
          /\ vectors = Vectors(rows, rows.num_vectors)
      BY DEF IsFixture
    <2> HIDE DEF metric, query, vectors, K
    <2>3. Distance(shown.metric, Vectors(asked, asked.num_queries)[q],
                   Vectors(rows, rows.num_vectors)[i]) \in Int \ NaNs
      BY <1>0, <1>1, <2>1, <2>2, DistanceAssumption
    <2>4. QED BY <2>2, <2>3
  <1>4. DOMAIN vectors = 1..rows.num_vectors
        /\ DOMAIN corpus.categories = 1..rows.num_vectors
    BY <1>1, VectorsAre DEF IsFixture
  <1>5. {i \in DOMAIN vectors : Kept(keep, corpus.categories[i])} = K
    BY <1>4 DEF KeptRows
  <1>6. results = IdsOf(Truncate(SortBy(seq, ByDistanceThenId), k))
    BY ResultsAre
  <1>7. keep # None =>
           Expected(corpus, h, keep, q)
              = IdsOf(InsertionTopK(seq, k, ByDistanceThenId))
    BY <1>5, Zenon DEF Expected, FilteredExactTopK
  <1>8. k \in Nat \ {0}
    BY <1>0
  <1> HIDE DEF K, k, metric, query, vectors, results
  <1>9. /\ Cardinality(K) \in Nat
        /\ IdsOf(InsertionTopK(seq, k, ByDistanceThenId))
              = IdsOf(Truncate(SortBy(seq, ByDistanceThenId), k))
        /\ DOMAIN IdsOf(InsertionTopK(seq, k, ByDistanceThenId)) = 1..L
        /\ Len(IdsOf(InsertionTopK(seq, k, ByDistanceThenId))) = L
    BY ONLY <1>2, <1>3, <1>8, OracleAnswers
  <1>10. L \in Nat
    BY <1>8, <1>9 DEF AtMost
  <1> HIDE DEF seq, L
  <1>11. results = IdsOf(InsertionTopK(seq, k, ByDistanceThenId)) /\ DOMAIN results = 1..L
    BY <1>6, <1>9
  <1>12. keep # None => /\ Expected(corpus, h, keep, q) = results
                        /\ Len(Expected(corpus, h, keep, q)) = L
    BY <1>7, <1>9, <1>11
  <1>13. L = FoundCount(corpus, rows, h, keep)
    BY DEF L, FoundCount, K, k
  <1>14. QED BY <1>2, <1>9, <1>10, <1>11, <1>12, <1>13
             DEF K, k, query, results

\* With or without a filter, every query's answers are a list too.
LEMMA ExpectedAre ==
    ASSUME NEW corpus, NEW rows, NEW asked, NEW truth, NEW shown,
           IsFixture(corpus, rows, asked, truth, shown),
           NEW h, NEW keep, NEW q, IsAsked(asked, h, q)
    PROVE  /\ Len(Expected(corpus, h, keep, q)) \in Nat
           /\ IsFiniteSet(DOMAIN Results(corpus, corpus.queries[q], h.top_k, keep))
  <1> DEFINE K == KeptRows(corpus, rows, keep)
             L == FoundCount(corpus, rows, h, keep)
             results == Results(corpus, corpus.queries[q], h.top_k, keep)
  <1>1. /\ L \in Nat /\ DOMAIN results = 1..L
        /\ keep # None => Len(Expected(corpus, h, keep, q)) = L
    BY AnswersAre
  <1>2. IsFiniteSet(DOMAIN results)
    <2> HIDE DEF L, results
    <2>1. 1 \in Int /\ L \in Int
      BY <1>1
    <2>2. IsFiniteSet(1..L)
      BY <2>1, FS_Interval
    <2>3. QED BY <1>1, <2>2
  <1>3. CASE keep = None
    <2>1. Expected(corpus, h, keep, q) = corpus.ground_truth[q]
      BY <1>3 DEF Expected
    <2>2. truth \in Configs /\ GenerateAccepts(truth) /\ q \in 1..truth.num_queries
      BY DEF IsFixture, IsAsked
    <2>3. corpus.ground_truth[q] =
             ExactTopK(truth.metric, Vectors(truth, truth.num_queries)[q],
                       Vectors(truth, truth.num_vectors), truth.top_k)
      BY DEF IsFixture, IsAsked
    <2>4. Len(corpus.ground_truth[q]) = AtMost(truth.num_vectors, truth.top_k)
      BY <2>2, <2>3, TruthIsSorted
    <2>5. AtMost(truth.num_vectors, truth.top_k) \in Nat
      BY <2>2, AcceptedCounts DEF AtMost
    <2>6. QED BY <1>2, <2>1, <2>4, <2>5
  <1>4. QED BY <1>1, <1>2, <1>3

\* How many queries a run measures, on a corpus with n answers.
LEMMA MeasuredIs ==
    ASSUME NEW corpus, NEW h \in HarnessConfigs, Len(corpus.ground_truth) \in Nat
    PROVE  /\ Measured(corpus, h) \in Nat
           /\ Measured(corpus, h) <= Len(corpus.ground_truth)
           /\ Measured(corpus, h) <= h.measured_queries
           /\ Measured(corpus, h) \in {h.measured_queries, Len(corpus.ground_truth)}
           /\ h.measured_queries \in Nat /\ h.top_k \in Nat
  BY HarnessAssumption DEF Measured

\* A report is not a panic.
LEMMA ReportIsNoPanic ==
    ASSUME NEW recalls \in Seq([hit : Nat, of : Nat]), NEW keep \in {None} \cup SUBSET Nat
    PROVE  [recalls |-> recalls, keep |-> keep] # Panic
  <1>1. [recalls |-> recalls, keep |-> keep]
           \in [recalls : Seq([hit : Nat, of : Nat]), keep : {None} \cup SUBSET Nat]
    OBVIOUS
  <1>2. QED BY <1>1, PanicAssumption

\* A run of a corpus load returned refuses or reports; it never panics.
LEMMA FixtureRuns ==
    ASSUME NEW corpus, NEW rows, NEW asked, NEW truth, NEW shown,
           IsFixture(corpus, rows, asked, truth, shown), NEW h \in HarnessConfigs
    PROVE  LET keep == KeepCategories(h.selectivity, corpus.num_categories)
               run == RunLoaded(corpus, h)
           IN  /\ run # Panic
               /\ run # Err =>
                     /\ run = [recalls |-> Recalls(corpus, h, keep), keep |-> keep]
                     /\ h.top_k \in Nat \ {0}
                     /\ Measured(corpus, h) \in 1..asked.num_queries
  <1> DEFINE keep == KeepCategories(h.selectivity, corpus.num_categories)
             run == RunLoaded(corpus, h)
             M == Measured(corpus, h)
             report == [recalls |-> Recalls(corpus, h, keep), keep |-> keep]
  <1>1. /\ asked \in Configs /\ rows \in Configs /\ shown \in Configs
        /\ asked.num_queries \in Nat /\ rows.num_vectors \in Nat
        /\ shown.num_categories \in Nat
    BY ConfigsAssumption DEF IsFixture
  <1>2. /\ Len(corpus.ground_truth) = asked.num_queries
        /\ Len(corpus.queries) = asked.num_queries
        /\ Len(corpus.corpus) = rows.num_vectors
        /\ Len(corpus.categories) = rows.num_vectors
        /\ corpus.num_categories = shown.num_categories
    BY <1>1, VectorsAre DEF IsFixture
  <1>3. /\ M \in Nat /\ M <= asked.num_queries /\ h.top_k \in Nat
        /\ h.measured_queries \in Nat
    BY <1>1, <1>2, MeasuredIs
  <1>4. keep \in {None} \cup SUBSET Nat
    BY <1>1, <1>2, KeptCategories
  <1>5. ~(\/ M > Len(corpus.queries)
          \/ keep # None /\ Len(corpus.corpus) > Len(corpus.categories))
    <2> HIDE DEF M, keep
    <2> QED BY <1>1, <1>2, <1>3
  <1>6. run = IF \/ h.measured_queries = 0 \/ h.top_k \notin 1..MaxRunTopK \/ M = 0
              THEN Err ELSE report
    <2> HIDE DEF M, keep
    <2> QED BY <1>5, Zenon DEF RunLoaded, M, keep
  <1>7. CASE run = Err
    BY <1>7, PanicAssumption
  <1>8. CASE run # Err
    <2>1. /\ run = report /\ h.top_k \in 1..MaxRunTopK /\ M # 0
      <3> HIDE DEF run, M, report
      <3> QED BY <1>6, <1>8
    <2>2. h.top_k \in Nat \ {0} /\ M \in 1..asked.num_queries
      <3> HIDE DEF M
      <3> QED BY <1>1, <1>3, <2>1
    <2>3. M \in Nat /\ \A q \in 1..M : IsAsked(asked, h, q)
      <3> HIDE DEF M
      <3> QED BY <1>1, <1>3, <2>2 DEF IsAsked
    <2>4. \A q \in 1..M :
             /\ Len(Expected(corpus, h, keep, q)) \in Nat
             /\ IsFiniteSet(DOMAIN Results(corpus, corpus.queries[q], h.top_k, keep))
      <3> HIDE DEF M, keep
      <3> QED BY <2>3, ExpectedAre
    <2>5. Recalls(corpus, h, keep) \in Seq([hit : Nat, of : Nat])
      <3> HIDE DEF keep
      <3> QED BY <2>3, <2>4, RecallsAre
    <2>6. report # Panic
      <3> HIDE DEF keep
      <3> QED BY <1>4, <2>5, ReportIsNoPanic
    <2>7. QED BY <2>1, <2>2, <2>6
  <1>9. QED BY <1>7, <1>8

\* A corpus in the benchmark's hands is a fixture's or a SIFT directory's.
LEMMA CorporaAre ==
    ASSUME NEW corpus \in Corpora
    PROVE  /\ corpus # Err
           /\ \/ /\ HasFixture /\ ~HasSift
                 /\ \E family \in Families : corpus = LoadedAs(family)
              \/ /\ HasSift /\ ~HasFixture
                 /\ corpus = LoadSift(reader.got)
  <1>1. corpus # Err /\ \E family \in Families \cup {"sift"} : corpus = LoadedAs(family)
    BY DEF Corpora
  <1>2. ~(HasFixture /\ HasSift)
    BY DEF HasFixture, HasSift
  <1>3. CASE \E family \in Families : corpus = LoadedAs(family)
    <2>1. HasFixture
      BY <1>1, <1>3 DEF LoadedAs, Families
    <2>2. QED BY <1>1, <1>2, <1>3, <2>1
  <1>4. CASE corpus = LoadedAs("sift")
    <2>1. HasSift /\ corpus = LoadSift(reader.got)
      BY <1>1, <1>4 DEF LoadedAs
    <2>2. QED BY <1>1, <1>2, <2>1
  <1>5. QED BY <1>1, <1>3, <1>4

\* The candidates of a search have as many places as there are rows kept.
LEMMA CandidatesListed ==
    ASSUME NEW metric, NEW query, NEW rows, NEW K, AreRows(K)
    PROVE  /\ Cardinality(K) \in Nat
           /\ DOMAIN Candidates(metric, query, rows, K) = 1..Cardinality(K)
  <1> DEFINE n == Cardinality(K)
             order == Ascending(K)
  <1>1. K \in SUBSET Nat /\ IsFiniteSet(K)
    BY DEF AreRows
  <1>2. n \in Nat /\ Len(order) = n
    BY <1>1, AscendingLists
  <1>3. Candidates(metric, query, rows, K) =
           [i \in 1..Len(order) |->
               [id |-> order[i],
                distance |-> Distance(metric, query, rows[order[i]])]]
    BY DEF Candidates
  <1> HIDE DEF n, order
  <1>4. DOMAIN Candidates(metric, query, rows, K) = 1..n
    BY <1>2, <1>3
  <1>5. QED BY <1>2, <1>4 DEF n

\* The widths of records a file of a SIFT directory is accepted with.
LEMMA WidthIs ==
    ASSUME NEW widths \in Seq(Nat), RecordWidth(widths) # Err
    PROVE  RecordWidth(widths) \in Nat \ {0}
  <1>1. /\ widths # <<>> /\ RecordWidth(widths) = widths[1]
        /\ \A i \in DOMAIN widths : widths[i] > 0
    BY DEF RecordWidth
  <1>2. 1 \in DOMAIN widths /\ widths[1] \in Nat
    BY <1>1
  <1>3. QED BY <1>1, <1>2

\* A SIFT directory that loads: its base and its answers.
IsSift(corpus, dir, neighbours) ==
    /\ dir \in SiftDirs
    /\ neighbours \in Nat \ {0}
    /\ corpus.metric = "L2" /\ corpus.num_categories = 0
    /\ corpus.corpus = SiftRecords("base", dir.base)
    /\ DOMAIN corpus.corpus = 1..Len(dir.base)
    /\ Len(corpus.corpus) = Len(dir.base)
    /\ DOMAIN corpus.categories = 1..Len(dir.base)
    /\ Len(corpus.categories) = Len(dir.base)
    /\ Len(corpus.queries) \in Nat
    /\ Len(corpus.ground_truth) = Len(dir.truth)
    /\ Len(dir.base) \in Nat /\ Len(dir.truth) \in Nat
    /\ \A q \in 1..Len(dir.truth) :
          corpus.ground_truth[q] =
              [n \in 1..neighbours |-> SiftAnswer(q, n)]

\* load_sift returns a corpus of that shape.
LEMMA SiftLoaded ==
    ASSUME NEW dir \in SiftDirs, LoadSift(dir) # Err
    PROVE  IsSift(LoadSift(dir), dir, RecordWidth(dir.truth))
  <1> DEFINE corpus == LoadSift(dir)
             neighbours == RecordWidth(dir.truth)
             base == SiftRecords("base", dir.base)
             queries == SiftRecords("query", dir.query)
             categories == [i \in DOMAIN dir.base |-> 0]
             answers == [q \in DOMAIN dir.truth |->
                           [n \in 1..neighbours |-> SiftAnswer(q, n)]]
  <1>1. dir.base \in Seq(Nat) /\ dir.query \in Seq(Nat) /\ dir.truth \in Seq(Nat)
    BY ConfigsAssumption
  <1>2. /\ neighbours # Err
        /\ corpus = [dimension |-> RecordWidth(dir.base), metric |-> "L2",
                     num_categories |-> 0, corpus |-> base,
                     categories |-> categories, queries |-> queries,
                     ground_truth |-> answers, top_k |-> neighbours]
    <2> HIDE DEF base, categories, queries, answers
    <2>1. corpus = IF \/ RecordWidth(dir.base) = Err \/ neighbours = Err
                      \/ RecordWidth(dir.query) # RecordWidth(dir.base)
                   THEN Err
                   ELSE [dimension |-> RecordWidth(dir.base), metric |-> "L2",
                         num_categories |-> 0, corpus |-> base,
                         categories |-> categories, queries |-> queries,
                         ground_truth |-> answers, top_k |-> neighbours]
      BY Zenon DEF LoadSift, base, categories, queries, answers
    <2> HIDE DEF corpus, neighbours
    <2>2. corpus # Err
      BY DEF corpus
    <2>3. QED BY <2>1, <2>2
  <1>3. neighbours \in Nat \ {0}
    BY <1>1, <1>2, WidthIs
  <1>4. /\ Len(dir.base) \in Nat /\ Len(dir.truth) \in Nat /\ Len(dir.query) \in Nat
        /\ DOMAIN dir.base = 1..Len(dir.base) /\ DOMAIN dir.truth = 1..Len(dir.truth)
        /\ DOMAIN dir.query = 1..Len(dir.query)
    BY <1>1
  <1>5. /\ DOMAIN base = 1..Len(dir.base) /\ Len(base) = Len(dir.base)
        /\ Len(queries) = Len(dir.query)
    BY <1>4 DEF SiftRecords
  <1>6. DOMAIN categories = 1..Len(dir.base) /\ Len(categories) = Len(dir.base)
    BY <1>4
  <1>7. /\ Len(answers) = Len(dir.truth)
        /\ \A q \in 1..Len(dir.truth) :
              answers[q] = [n \in 1..neighbours |-> SiftAnswer(q, n)]
    <2> HIDE DEF base, neighbours
    <2> QED BY <1>4
  <1> HIDE DEF corpus, neighbours, categories, queries, answers
  <1>8. IsSift(corpus, dir, neighbours)
    BY <1>2, <1>3, <1>4, <1>5, <1>6, <1>7 DEF IsSift
  <1>9. QED BY <1>8 DEF corpus, neighbours

\* Every query of a SIFT directory has a list of answers and finds a list.
LEMMA SiftAnswers ==
    ASSUME NEW corpus, NEW dir, NEW neighbours, IsSift(corpus, dir, neighbours),
           NEW h \in HarnessConfigs, NEW q \in 1..Len(corpus.ground_truth)
    PROVE  /\ Len(Expected(corpus, h, None, q)) \in Nat
           /\ IsFiniteSet(DOMAIN Results(corpus, corpus.queries[q], h.top_k, None))
  <1> DEFINE N == Len(dir.base)
             K == 1..N
  <1>1. N \in Nat /\ DOMAIN corpus.corpus = K
    BY DEF IsSift
  <1>2. AreRows(K)
    <2>1. N \in Int /\ 1 \in Int
      BY <1>1
    <2> HIDE DEF N
    <2>2. IsFiniteSet(1..N)
      BY <2>1, FS_Interval
    <2>3. QED BY <2>2 DEF AreRows
  <1>3. Len(Expected(corpus, h, None, q)) \in Nat
    <2>1. /\ Len(corpus.ground_truth) = Len(dir.truth) /\ neighbours \in Nat
          /\ \A p \in 1..Len(dir.truth) :
                corpus.ground_truth[p] = [n \in 1..neighbours |-> SiftAnswer(p, n)]
      BY DEF IsSift
    <2>2. Expected(corpus, h, None, q) = [n \in 1..neighbours |-> SiftAnswer(q, n)]
      BY <2>1 DEF Expected
    <2>3. Len(Expected(corpus, h, None, q)) = neighbours
      BY <2>1, <2>2
    <2>4. QED BY <2>1, <2>3
  <1> HIDE DEF K
  <1>4. IsFiniteSet(DOMAIN Results(corpus, corpus.queries[q], h.top_k, None))
    <2> DEFINE found == Candidates(corpus.metric, corpus.queries[q], corpus.corpus, K)
               cut == Truncate(SortBy(found, ByDistanceThenId), h.top_k)
               n == Cardinality(K)
               m == AtMost(n, h.top_k)
    <2>1. n \in Nat /\ DOMAIN found = 1..n
      BY <1>2, CandidatesListed
    <2>2. h.top_k \in Nat
      BY HarnessAssumption
    <2>3. {i \in DOMAIN corpus.corpus : Kept(None, Ingested(corpus, i))} = K
      BY <1>1 DEF Kept
    <2>4. Results(corpus, corpus.queries[q], h.top_k, None) = IdsOf(cut)
      BY <2>3, Zenon DEF Results
    <2> HIDE DEF found, n
    <2>5. DOMAIN cut = 1..m /\ m \in 0..n
      BY <2>1, <2>2, SortedAndCut
    <2>6. m \in Nat /\ m \in Int /\ 1 \in Int
      BY <2>1, <2>5
    <2> HIDE DEF cut, m
    <2>7. DOMAIN IdsOf(cut) = 1..m
      BY <2>5, <2>6, IdsAre
    <2>8. IsFiniteSet(1..m)
      BY <2>6, FS_Interval
    <2>9. QED BY <2>4, <2>7, <2>8
  <1>5. QED BY <1>3, <1>4

\* A run of a SIFT directory is never filtered, and panics exactly when the
\* queries run out.
LEMMA SiftRuns ==
    ASSUME NEW corpus, NEW dir, NEW neighbours, IsSift(corpus, dir, neighbours),
           NEW h \in HarnessConfigs
    PROVE  LET run == RunLoaded(corpus, h)
           IN  /\ run = Panic <=>
                     /\ h.measured_queries > Len(corpus.queries)
                     /\ Len(corpus.ground_truth) > Len(corpus.queries)
                     /\ h.top_k \in 1..MaxRunTopK
               /\ run \notin {Err, Panic} => run.keep = None
  <1> DEFINE keep == KeepCategories(h.selectivity, corpus.num_categories)
             run == RunLoaded(corpus, h)
             M == Measured(corpus, h)
             Q == Len(corpus.queries)
             report == [recalls |-> Recalls(corpus, h, keep), keep |-> keep]
  <1>1. /\ corpus.num_categories = 0 /\ Q \in Nat
        /\ Len(corpus.ground_truth) \in Nat
        /\ Len(corpus.corpus) = Len(corpus.categories)
        /\ Len(corpus.categories) \in Nat
    BY DEF IsSift
  <1>2. keep = None
    BY <1>1, KeptCategories
  <1>3. /\ M \in Nat /\ M <= Len(corpus.ground_truth) /\ M <= h.measured_queries
        /\ M \in {h.measured_queries, Len(corpus.ground_truth)}
        /\ h.measured_queries \in Nat /\ h.top_k \in Nat
    BY <1>1, MeasuredIs
  <1>4. run = IF \/ h.measured_queries = 0 \/ h.top_k \notin 1..MaxRunTopK \/ M = 0
              THEN Err
              ELSE IF \/ M > Q
                      \/ keep # None /\ Len(corpus.corpus) > Len(corpus.categories)
              THEN Panic ELSE report
    <2> HIDE DEF M, keep, Q
    <2> QED BY Zenon DEF RunLoaded, M, keep, Q
  <1>5. report # Panic
    <2>1. \A q \in 1..M : /\ Len(Expected(corpus, h, None, q)) \in Nat
                          /\ IsFiniteSet(DOMAIN Results(corpus, corpus.queries[q],
                                                        h.top_k, None))
      <3>1. \A q \in 1..M : q \in 1..Len(corpus.ground_truth)
        <4> HIDE DEF M
        <4> QED BY <1>1, <1>3
      <3> HIDE DEF M
      <3>2. QED BY <3>1, SiftAnswers
    <2>2. Recalls(corpus, h, None) \in Seq([hit : Nat, of : Nat])
      BY <1>3, <2>1, RecallsAre
    <2> HIDE DEF keep
    <2>3. keep \in {None} \cup SUBSET Nat
      BY <1>2
    <2>4. QED BY <1>2, <2>2, <2>3, ReportIsNoPanic
  <1> HIDE DEF keep, run, M, Q
  <1>6. /\ M > Q <=> h.measured_queries > Q /\ Len(corpus.ground_truth) > Q
        /\ M > Q => M # 0 /\ h.measured_queries # 0
    BY <1>1, <1>3
  <1>7. run # Err /\ run # Panic => run = report
    BY <1>4
  <1> DEFINE stays == M > Q
             refused == \/ h.measured_queries = 0 \/ h.top_k \notin 1..MaxRunTopK
                        \/ M = 0
  <1>8. run = IF refused THEN Err ELSE IF stays THEN Panic ELSE report
    <2> HIDE DEF report
    <2> QED BY <1>2, <1>4
  <1>9. /\ run = Panic <=> ~refused /\ stays
        /\ run # Err /\ run # Panic => run.keep = None
    <2>1. report.keep = None
      BY <1>2
    <2> HIDE DEF refused, stays, report
    <2>2. Panic # Err
      BY PanicAssumption
    <2>3. QED BY <1>5, <1>8, <2>1, <2>2
  <1>10. QED BY <1>6, <1>9 DEF run, Q

\* No run of anything load accepts reads past the end of anything; a SIFT
\* directory panics a run exactly when it holds more answers than queries and
\* the run measures that far.
THEOREM RunsInBounds == FixtureSpec => []RunsStayInBounds
  <1>1. FixtureInv => RunsStayInBounds
    <2> SUFFICES ASSUME FixtureInv, NEW corpus \in Corpora, NEW h \in HarnessConfigs
                 PROVE  RunLoaded(corpus, h) = Panic <=>
                          /\ HasSift
                          /\ h.measured_queries > Len(corpus.queries)
                          /\ Len(corpus.ground_truth) > Len(corpus.queries)
                          /\ h.top_k \in 1..MaxRunTopK
      BY DEF RunsStayInBounds
    <2>1. CASE HasFixture
      <3>1. corpus # Err /\ ~HasSift /\ \E family \in Families : corpus = LoadedAs(family)
        BY <2>1, CorporaAre
      <3>2. PICK family \in Families : corpus = LoadedAs(family)
        BY <3>1
      <3>3. PICK rows, asked, truth, shown :
               IsFixture(corpus, rows, asked, truth, shown)
        BY <3>1, <3>2, LoadedFixture
      <3>4. RunLoaded(corpus, h) # Panic
        BY <3>3, FixtureRuns
      <3>5. QED BY <3>1, <3>4
    <2>2. CASE ~HasFixture
      <3>1. corpus # Err /\ HasSift /\ corpus = LoadSift(reader.got)
        BY <2>2, CorporaAre
      <3>2. reader.got \in SiftDirs
        BY <3>1 DEF FixtureInv, ReaderHasPrefixes, HasSift
      <3>3. IsSift(corpus, reader.got, RecordWidth(reader.got.truth))
        BY <3>1, <3>2, SiftLoaded
      <3>4. QED BY <3>1, <3>3, SiftRuns
    <2>3. QED BY <2>1, <2>2
  <1>2. QED BY <1>1, FixtureInvariant, PTL

\* Each recall of a report is that of a query that was measured and expects
\* answers.
IsReport(corpus, asked, h, keep, recalls) ==
    LET counted == {q \in 1..Measured(corpus, h) :
                       Len(Expected(corpus, h, keep, q)) > 0}
    IN  /\ Measured(corpus, h) \in Nat \ {0}
        /\ \A q \in 1..Measured(corpus, h) : IsAsked(asked, h, q)
        /\ IsFiniteSet(counted) /\ Cardinality(counted) \in Nat
        /\ Len(recalls) = Cardinality(counted)
        /\ DOMAIN recalls = 1..Cardinality(counted)
        /\ \A n \in 1..Cardinality(counted) :
              \E q \in counted :
                 recalls[n] = Recall(Expected(corpus, h, keep, q),
                                     Results(corpus, corpus.queries[q], h.top_k, keep))

\* What a run of a fixture reports.
LEMMA ReportIs ==
    ASSUME NEW corpus, NEW rows, NEW asked, NEW truth, NEW shown,
           IsFixture(corpus, rows, asked, truth, shown), NEW h \in HarnessConfigs,
           RunLoaded(corpus, h) # Err, RunLoaded(corpus, h) # Panic
    PROVE  IsReport(corpus, asked, h, RunLoaded(corpus, h).keep,
                    RunLoaded(corpus, h).recalls)
  <1> DEFINE keep == KeepCategories(h.selectivity, corpus.num_categories)
             run == RunLoaded(corpus, h)
             M == Measured(corpus, h)
  <1>1. /\ run = [recalls |-> Recalls(corpus, h, keep), keep |-> keep]
        /\ h.top_k \in Nat \ {0} /\ M \in 1..asked.num_queries
    BY FixtureRuns
  <1>2. asked.num_queries \in Nat
    BY ConfigsAssumption DEF IsFixture
  <1>3. run.keep = keep /\ run.recalls = Recalls(corpus, h, keep)
    <2> HIDE DEF run, keep
    <2> QED BY <1>1
  <1> HIDE DEF M, keep
  <1>4. M \in Nat \ {0} /\ \A q \in 1..M : IsAsked(asked, h, q)
    BY <1>1, <1>2 DEF IsAsked
  <1>5. \A q \in 1..M : /\ Len(Expected(corpus, h, keep, q)) \in Nat
                        /\ IsFiniteSet(DOMAIN Results(corpus, corpus.queries[q],
                                                      h.top_k, keep))
    BY <1>4, ExpectedAre
  <1> HIDE DEF run
  <1>6. M \in Nat
    BY <1>4
  <1>7. LET counted == {q \in 1..M : Len(Expected(corpus, h, keep, q)) > 0}
            recalls == Recalls(corpus, h, keep)
        IN  /\ IsFiniteSet(counted) /\ Cardinality(counted) \in Nat
            /\ Len(recalls) = Cardinality(counted)
            /\ DOMAIN recalls = 1..Cardinality(counted)
            /\ \A n \in 1..Cardinality(counted) :
                  \E q \in counted :
                     recalls[n] = Recall(Expected(corpus, h, keep, q),
                                         Results(corpus, corpus.queries[q],
                                                 h.top_k, keep))
    BY <1>5, <1>6, RecallsAre DEF M
  <1>8. QED BY <1>3, <1>4, <1>7 DEF run, M, IsReport

\* An answer that is the expected list itself is a full hit.
LEMMA SameListIsFound ==
    ASSUME NEW list, NEW L \in Nat, DOMAIN list = 1..L, Len(list) = L
    PROVE  Recall(list, list) = [hit |-> L, of |-> L]
  <1>1. {i \in DOMAIN list : \E j \in DOMAIN list : list[i] = list[j]} = 1..L
    OBVIOUS
  <1>2. Cardinality(1..L) = L
    BY FS_Interval
  <1>3. QED BY <1>1, <1>2 DEF Recall

\* A filtered run of anything load accepts has full recall, and nothing to
\* report only if no row is kept.
LEMMA FilteredRunIsFull ==
    ASSUME NEW corpus, NEW rows, NEW asked, NEW truth, NEW shown,
           IsFixture(corpus, rows, asked, truth, shown), NEW h \in HarnessConfigs,
           RunLoaded(corpus, h) \notin {Err, Panic},
           RunLoaded(corpus, h).keep # None
    PROVE  LET run == RunLoaded(corpus, h)
           IN  /\ AllFound(run.recalls)
               /\ run.recalls = <<>> =>
                     \A i \in DOMAIN corpus.categories :
                        corpus.categories[i] \notin run.keep
  <1> DEFINE run == RunLoaded(corpus, h)
             keep == run.keep
             M == Measured(corpus, h)
             L == FoundCount(corpus, rows, h, keep)
             K == KeptRows(corpus, rows, keep)
             counted == {q \in 1..M : Len(Expected(corpus, h, keep, q)) > 0}
             N == Cardinality(counted)
             Answers(q) == Expected(corpus, h, keep, q)
             Given(q) == Results(corpus, corpus.queries[q], h.top_k, keep)
  <1>1. /\ M \in Nat \ {0}
        /\ \A q \in 1..M : IsAsked(asked, h, q)
        /\ IsFiniteSet(counted) /\ N \in Nat
        /\ Len(run.recalls) = N /\ DOMAIN run.recalls = 1..N
        /\ \A n \in 1..N : \E q \in counted :
              run.recalls[n] = Recall(Answers(q), Given(q))
    <2>1. IsReport(corpus, asked, h, keep, run.recalls)
      BY ReportIs
    <2> HIDE DEF run, keep, M
    <2>2. QED BY <2>1 DEF IsReport, M
  <1>2. counted \in SUBSET (1..M)
    OBVIOUS
  <1>3. keep # None
    OBVIOUS
  <1> HIDE DEF run, keep, M
  <1>4. ASSUME NEW q \in 1..M
        PROVE  /\ Answers(q) = Given(q) /\ Len(Answers(q)) = L
               /\ DOMAIN Answers(q) = 1..L /\ L \in Nat
               /\ IsFiniteSet(K) /\ Cardinality(K) \in Nat
    <2>1. IsAsked(asked, h, q)
      BY <1>1
    <2>2. /\ IsFiniteSet(K) /\ Cardinality(K) \in Nat
          /\ L \in Nat /\ DOMAIN Given(q) = 1..L
          /\ Answers(q) = Given(q) /\ Len(Answers(q)) = L
      BY <1>3, <2>1, AnswersAre
    <2>3. QED BY <2>2
  <1> HIDE DEF Answers, Given, L, K
  <1>5. AllFound(run.recalls)
    <2> SUFFICES ASSUME NEW n \in 1..N
                 PROVE  run.recalls[n].hit = run.recalls[n].of
      <3> HIDE DEF N
      <3> QED BY <1>1 DEF AllFound
    <2>1. PICK q \in counted : run.recalls[n] = Recall(Answers(q), Given(q))
      BY <1>1
    <2>2. q \in 1..M
      BY <1>2
    <2> HIDE DEF counted, N
    <2>3. /\ Answers(q) = Given(q) /\ Len(Answers(q)) = L
          /\ DOMAIN Answers(q) = 1..L /\ L \in Nat
      BY <1>4, <2>2
    <2>4. Recall(Answers(q), Answers(q)) = [hit |-> L, of |-> L]
      BY <2>3, SameListIsFound
    <2>5. QED BY <2>1, <2>3, <2>4
  <1>6. ASSUME run.recalls = <<>>, NEW i \in DOMAIN corpus.categories
        PROVE  corpus.categories[i] \notin keep
    <2>1. N = 0
      <3> HIDE DEF N
      <3> QED BY <1>1, <1>6
    <2>2. counted = {}
      <3> HIDE DEF counted
      <3> QED BY <1>1, <2>1, FS_EmptySet
    <2>3. 1 \in 1..M
      BY <1>1
    <2>4. ~(Len(Answers(1)) > 0)
      BY <2>2, <2>3 DEF Answers
    <2>5. /\ Len(Answers(1)) = L /\ L \in Nat
          /\ IsFiniteSet(K) /\ Cardinality(K) \in Nat
      BY <1>4, <2>3
    <2>6. L = 0
      BY <2>4, <2>5
    <2>7. h.top_k \in Nat \ {0}
      BY <1>1, <2>3 DEF IsAsked
    <2>8. Cardinality(K) = 0
      BY <2>5, <2>6, <2>7 DEF L, K, FoundCount, AtMost
    <2>9. K = {}
      BY <2>5, <2>8, FS_EmptySet
    <2>10. DOMAIN corpus.categories = 1..rows.num_vectors
      BY DEF IsFixture
    <2>11. ~Kept(keep, corpus.categories[i])
      BY <1>6, <2>9, <2>10 DEF K, KeptRows
    <2>12. QED BY <2>11 DEF Kept
  <1>7. QED BY <1>5, <1>6 DEF run, keep

\* Every filtered run of anything load accepts has full recall.
THEOREM FilteredRunsFull == FixtureSpec => []FilteredRecallIsFull
  <1>1. FixtureInv => FilteredRecallIsFull
    <2> SUFFICES ASSUME FixtureInv, NEW corpus \in Corpora, NEW h \in HarnessConfigs,
                        RunLoaded(corpus, h) \notin {Err, Panic},
                        RunLoaded(corpus, h).keep # None
                 PROVE  LET run == RunLoaded(corpus, h)
                        IN  /\ AllFound(run.recalls)
                            /\ run.recalls = <<>> =>
                                  \A i \in DOMAIN corpus.categories :
                                     corpus.categories[i] \notin run.keep
      BY DEF FilteredRecallIsFull
    <2>1. CASE HasFixture
      <3>1. corpus # Err /\ \E family \in Families : corpus = LoadedAs(family)
        BY <2>1, CorporaAre
      <3>2. PICK family \in Families : corpus = LoadedAs(family)
        BY <3>1
      <3>3. PICK rows, asked, truth, shown :
               IsFixture(corpus, rows, asked, truth, shown)
        BY <3>1, <3>2, LoadedFixture
      <3>4. QED BY <3>3, FilteredRunIsFull
    <2>2. CASE ~HasFixture
      <3>1. corpus # Err /\ HasSift /\ corpus = LoadSift(reader.got)
        BY <2>2, CorporaAre
      <3>2. reader.got \in SiftDirs
        BY <3>1 DEF FixtureInv, ReaderHasPrefixes, HasSift
      <3>3. IsSift(corpus, reader.got, RecordWidth(reader.got.truth))
        BY <3>1, <3>2, SiftLoaded
      <3>4. RunLoaded(corpus, h).keep = None
        BY <3>3, SiftRuns
      <3>5. QED BY <3>4
    <2>3. QED BY <2>1, <2>2
  <1>2. QED BY <1>1, FixtureInvariant, PTL

\* On a fixture of one configuration, every query of an unfiltered run that
\* asks for enough finds all its answers.
LEMMA UnfilteredFinds ==
    ASSUME NEW corpus, NEW c, IsFixture(corpus, c, c, c, c), NEW h, NEW q,
           IsAsked(c, h, q), h.top_k >= c.top_k
    PROVE  LET recall == Recall(Expected(corpus, h, None, q),
                                Results(corpus, corpus.queries[q], h.top_k, None))
           IN  /\ recall.of = c.top_k
               /\ recall.hit \in Nat /\ recall.hit >= c.top_k
  <1> DEFINE N == c.num_vectors
             k == c.top_k
             m == h.top_k
             seq == Candidates(c.metric, Vectors(c, c.num_queries)[q], Vectors(c, N), 1..N)
             out == SortBy(seq, ByDistanceThenId)
             expected == Expected(corpus, h, None, q)
             results == Results(corpus, corpus.queries[q], h.top_k, None)
             n == AtMost(N, m)
  <1>1. /\ c \in Configs /\ GenerateAccepts(c) /\ q \in 1..c.num_queries
        /\ N \in Nat \ {0} /\ k \in Nat \ {0} /\ m \in Nat \ {0} /\ k <= N /\ k <= m
    BY AcceptedCounts, HarnessAssumption DEF IsFixture, IsAsked
  <1>2. AtMost(N, k) = k /\ n \in Nat /\ k <= n
    BY <1>1 DEF AtMost
  <1>3. /\ DOMAIN seq = 1..N
        /\ expected = IdsOf(Truncate(out, k))
        /\ Len(expected) = k /\ DOMAIN expected = 1..k
    <2>1. expected = ExactTopK(c.metric, Vectors(c, c.num_queries)[q], Vectors(c, N), k)
      BY <1>1 DEF Expected, IsFixture
    <2> HIDE DEF expected
    <2>2. QED BY <1>1, <1>2, <2>1, TruthIsSorted
  <1>4. results = IdsOf(Truncate(out, m))
    <2>1. KeptRows(corpus, c, None) = 1..N
      BY DEF KeptRows, Kept
    <2>2. results = IdsOf(Truncate(SortBy(Candidates(corpus.metric, corpus.queries[q],
                              corpus.corpus, KeptRows(corpus, c, None)),
                              ByDistanceThenId), h.top_k))
      BY ONLY IsFixture(corpus, c, c, c, c), ResultsAre
    <2>3. /\ corpus.metric = c.metric /\ corpus.corpus = Vectors(c, N)
          /\ corpus.queries = Vectors(c, c.num_queries)
      BY DEF IsFixture
    <2> HIDE DEF results
    <2>4. QED BY <2>1, <2>2, <2>3
  <1> HIDE DEF seq, expected, results, N, k, m, n
  <1>5. /\ DOMAIN Truncate(out, k) = 1..k
        /\ \A i \in 1..k : Truncate(out, k)[i] = out[i]
    <2>1. N \in Nat /\ k \in Nat /\ DOMAIN seq = 1..N
      BY <1>1, <1>3
    <2>2. QED BY ONLY <1>2, <2>1, SortedAndCut
  <1>6. /\ DOMAIN Truncate(out, m) = 1..n
        /\ \A i \in 1..n : Truncate(out, m)[i] = out[i]
    <2>1. N \in Nat /\ m \in Nat /\ DOMAIN seq = 1..N
      BY <1>1, <1>3
    <2>2. QED BY ONLY <2>1, SortedAndCut DEF n
  <1> HIDE DEF out
  <1>7. \A i \in 1..k : expected[i] = out[i].id
    <2>1. k \in Nat
      BY <1>1
    <2>2. QED BY <1>3, <1>5, <2>1, IdsAre
  <1>8. DOMAIN results = 1..n /\ \A i \in 1..n : results[i] = out[i].id
    BY <1>2, <1>4, <1>6, IdsAre
  <1> DEFINE hits == {i \in DOMAIN results :
                         \E j \in DOMAIN expected : results[i] = expected[j]}
  <1>9. 1..k \in SUBSET hits /\ hits \in SUBSET (1..n)
    <2>1. \A i \in 1..k : i \in 1..n /\ results[i] = expected[i]
      BY <1>1, <1>2, <1>7, <1>8
    <2>2. QED BY <1>3, <1>8, <2>1
  <1>10. IsFiniteSet(1..n) /\ Cardinality(1..k) = k
    BY <1>1, <1>2, FS_Interval
  <1>11. Recall(expected, results) = [hit |-> Cardinality(hits), of |-> k]
    BY <1>3 DEF Recall
  <1> HIDE DEF hits
  <1>12. IsFiniteSet(hits)
    BY <1>9, <1>10, FS_Subset
  <1>13. Cardinality(hits) \in Nat /\ k <= Cardinality(hits)
    <2> DEFINE A == 1..k
    <2>1. A \in SUBSET hits /\ Cardinality(A) = k
      BY <1>9, <1>10
    <2> HIDE DEF A
    <2>2. Cardinality(A) <= Cardinality(hits)
      BY <1>12, <2>1, FS_Subset
    <2>3. Cardinality(hits) \in Nat
      BY <1>12, FS_CardinalityType
    <2>4. QED BY <2>1, <2>2, <2>3
  <1>14. QED BY <1>1, <1>11, <1>13 DEF expected, results, k, m

\* The recall of such a run reaches any percentage.
LEMMA UnfilteredReaches ==
    ASSUME NEW corpus, NEW c, IsFixture(corpus, c, c, c, c), NEW h \in HarnessConfigs,
           RunLoaded(corpus, h) \notin {Err, Panic},
           RunLoaded(corpus, h).keep = None, h.top_k >= c.top_k
    PROVE  RecallReaches(RunLoaded(corpus, h).recalls, h.recall_min)
  <1> DEFINE run == RunLoaded(corpus, h)
             recalls == run.recalls
             keep == run.keep
             M == Measured(corpus, h)
             counted == {q \in 1..M : Len(Expected(corpus, h, keep, q)) > 0}
             N == Cardinality(counted)
             Given(q) == Recall(Expected(corpus, h, keep, q),
                                Results(corpus, corpus.queries[q], h.top_k, keep))
  <1>1. /\ M \in Nat \ {0}
        /\ \A q \in 1..M : IsAsked(c, h, q)
        /\ IsFiniteSet(counted) /\ N \in Nat
        /\ Len(recalls) = N /\ DOMAIN recalls = 1..N
        /\ \A n \in 1..N : \E q \in counted : recalls[n] = Given(q)
    <2>1. IsReport(corpus, c, h, keep, recalls)
      BY ReportIs
    <2> HIDE DEF recalls, keep, M
    <2>2. QED BY <2>1 DEF IsReport, M
  <1>0. keep = None
    OBVIOUS
  <1>2. \A q \in 1..M : /\ Given(q).of = c.top_k
                        /\ Given(q).hit \in Nat /\ Given(q).hit >= c.top_k
    <2> HIDE DEF M, keep
    <2> QED BY <1>1, <1>0, UnfilteredFinds
  <1>3. c.top_k \in Nat \ {0}
    BY AcceptedCounts DEF IsFixture
  <1>4. N \in Nat \ {0}
    <2>1. 1 \in 1..M
      BY <1>1
    <2>2. Given(1).of = Len(Expected(corpus, h, keep, 1))
      BY DEF Recall
    <2>3. Len(Expected(corpus, h, keep, 1)) = c.top_k
      BY <1>2, <2>1, <2>2
    <2> HIDE DEF M
    <2>4. 1 \in counted
      BY <1>3, <2>1, <2>3
    <2> HIDE DEF counted
    <2>5. N # 0
      BY <1>1, <2>4, FS_EmptySet
    <2>6. QED BY <1>1, <2>5
  <1>5. \A q \in counted : q \in 1..M
    OBVIOUS
  <1> HIDE DEF M, counted, N, Given, recalls, keep
  <1>6. \A n \in 1..N : /\ recalls[n].of = c.top_k
                        /\ recalls[n].hit \in Nat /\ recalls[n].hit >= c.top_k
    BY <1>1, <1>2, <1>5
  <1>7. recalls[1].of = c.top_k
    BY <1>4, <1>6
  <1>8. h.recall_min \in 0..100
    BY HarnessAssumption
  <1>9. RecallReaches(recalls, h.recall_min)
    <2> DEFINE m == c.top_k
    <2>1. m \in Nat /\ Len(recalls) = N
      BY <1>1, <1>3
    <2>2. \A n \in 1..N : recalls[n].hit \in Nat /\ recalls[n].hit >= m
      BY <1>6
    <2>3. recalls[1].of = m
      BY <1>7
    <2> HIDE DEF m
    <2>4. QED BY <1>4, <1>8, <2>1, <2>2, <2>3, HitsAddUp
  <1>10. QED BY <1>9 DEF recalls

\* An unfiltered run of one configuration's fixture fails only for latency.
THEOREM SlowRunsFail == FixtureSpec => []OnlySlowRunsFail
  <1>1. FixtureInv => OnlySlowRunsFail
    <2> SUFFICES ASSUME FixtureInv, OneFixture, NEW corpus \in Corpora,
                        NEW h \in HarnessConfigs, NEW sorted \in Latencies,
                        RunLoaded(corpus, h) \notin {Err, Panic},
                        RunLoaded(corpus, h).keep = None,
                        h.top_k >= corpus.top_k
                 PROVE  ExitCode(RunLoaded(corpus, h), sorted, h) = 1 <=>
                          /\ h.enforce
                          /\ \/ Percentile(sorted, 50) > h.p50_max
                             \/ Percentile(sorted, 99) > h.p99_max
      BY DEF OnlySlowRunsFail
    <2>1. corpus # Err /\ \E family \in Families : corpus = LoadedAs(family)
      BY CorporaAre DEF OneFixture
    <2>2. PICK family \in Families : corpus = LoadedAs(family)
      BY <2>1
    <2> DEFINE got == Contents(reader.got)
               c == got.corpus.of
    <2>3. IsFixture(corpus, c, got.queries.of, got.ground_truth.of, got.manifest.of)
      BY <2>1, <2>2, LoadedFixture
    <2>4. /\ got.queries.of = c /\ got.ground_truth.of = c /\ got.manifest.of = c
      <3>1. DOMAIN reader.got = 1..5
        BY <2>1, <2>2, LoadedIs
      <3>2. \A i, j \in 1..5 : reader.got[i].of = reader.got[j].of
        BY <3>1 DEF OneFixture
      <3>3. /\ got["corpus"] = reader.got[1] /\ got["queries"] = reader.got[3]
            /\ got["ground_truth"] = reader.got[4] /\ got["manifest"] = reader.got[5]
        BY ContentsIs, FilesListed
      <3> HIDE DEF got
      <3>4. QED BY <3>2, <3>3
    <2>5. IsFixture(corpus, c, c, c, c)
      BY <2>3, <2>4
    <2> HIDE DEF got, c
    <2>6. h.top_k >= c.top_k
      BY <2>5 DEF IsFixture
    <2>7. RecallReaches(RunLoaded(corpus, h).recalls, h.recall_min)
      BY <2>5, <2>6, UnfilteredReaches
    <2>8. QED BY <2>7 DEF ExitCode
  <1>2. QED BY <1>1, FixtureInvariant, PTL
=============================================================================
