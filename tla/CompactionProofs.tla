-------------------------- MODULE CompactionProofs --------------------------
(***************************************************************************)
(* What Insert, Delete and merge() do to a Delta, for every chunk size,    *)
(* batch and history.                                                      *)
(*                                                                         *)
(* Insert and Delete keep a lineage well formed, and on the newest visible *)
(* payloads they are Put and Remove of the abstract Table.  merge()        *)
(* returns a well-formed lineage that shows the same newest payload of     *)
(* every id: it is two Inserts, a Delete and an Insert into an empty       *)
(* Delta, so this follows once the batches it builds are known to be well  *)
(* formed.                                                                 *)
(***************************************************************************)
EXTENDS Compaction, RankingProofs

-----------------------------------------------------------------------------
(* Numbers *)

\* Integer division leaves a remainder below the divisor.
LEMMA DivMod ==
    ASSUME NEW a \in Nat, NEW t \in Nat \ {0}
    PROVE  /\ a \div t \in Nat
           /\ a - (a \div t) * t \in 0..(t - 1)
  OBVIOUS

\* A nonempty bounded set of numbers contains its maximum.
LEMMA MaxOfBounded ==
    ASSUME NEW n \in Nat, NEW S \in SUBSET (0..n), S # {}
    PROVE  /\ Max(S) \in S
           /\ \A x \in S : x <= Max(S)
  <1> DEFINE T == {n - x : x \in S}
  <1>1. T \in SUBSET Nat /\ T # {}
    <2>1. \A x \in S : n - x \in Nat
      OBVIOUS
    <2>2. QED BY <2>1, Zenon
  <1>2. PICK m \in T : \A y \in T : m <= y
    <2> HIDE DEF T
    <2> QED BY <1>1, LeastOfNats
  <1>3. PICK x \in S : m = n - x
    BY <1>2
  <1>4. \A y \in S : n - y \in T
    OBVIOUS
  <1>5. \A y \in S : x >= y
    BY <1>2, <1>3, <1>4
  <1>6. QED
    BY <1>5 DEF Max

\* The maximum is the member that no member exceeds.
LEMMA MaxIs ==
    ASSUME NEW n \in Nat, NEW S \in SUBSET (0..n), NEW m \in S,
           \A x \in S : x <= m
    PROVE  Max(S) = m
  <1>1. Max(S) \in S /\ \A x \in S : x <= Max(S)
    BY MaxOfBounded
  <1>2. m <= Max(S) /\ Max(S) <= m
    BY <1>1
  <1>3. m \in Int /\ Max(S) \in Int
    <2>1. \A x \in S : x \in Int
      OBVIOUS
    <2>2. QED BY <1>1, <2>1, Zenon
  <1>4. QED
    BY <1>2, <1>3

\* The types of the fields of a Delta.
LEMMA DeltaFields ==
    ASSUME NEW d \in DeltaType
    PROVE  /\ d.rows \in Seq(Record)
           /\ Len(d.rows) \in Nat
           /\ DOMAIN d.rows = 1..Len(d.rows)
           /\ d.sealed \in Nat
           /\ d.next_generation \in Nat
           /\ d.tombstones \in SUBSET (Ids \X Nat)
           /\ d.tombstoned_ids \in SUBSET Ids
           /\ \A i \in DOMAIN d.rows : /\ d.rows[i].id \in Ids
                                       /\ d.rows[i].value \in Values
                                       /\ d.rows[i].generation \in Nat
  <1>1. d.rows \in Seq(Record)
    BY DEF DeltaType
  <1>2. \A i \in DOMAIN d.rows : d.rows[i] \in Record
    BY <1>1
  <1>3. \A i \in DOMAIN d.rows : /\ d.rows[i].id \in Ids
                                 /\ d.rows[i].value \in Values
                                 /\ d.rows[i].generation \in Nat
    BY <1>2 DEF Record
  <1>4. QED
    BY <1>1, <1>3 DEF DeltaType

-----------------------------------------------------------------------------
(* Insert *)

\* The sealing loop leaves the active chunk short of a full chunk.
LEMMA SealingLeavesPartial ==
    ASSUME NEW active \in Nat, NEW n \in Nat, NEW sealed,
           sealed = (active + n) \div TARGET_SEGMENT_ROWS
    PROVE  /\ sealed \in Nat
           /\ active + n - sealed * TARGET_SEGMENT_ROWS \in 0..(TARGET_SEGMENT_ROWS - 1)
  <1>1. PICK a \in Nat : a = active + n
    OBVIOUS
  <1>2. sealed = a \div TARGET_SEGMENT_ROWS
    BY <1>1
  <1>3. /\ sealed \in Nat
        /\ a - sealed * TARGET_SEGMENT_ROWS \in 0..(TARGET_SEGMENT_ROWS - 1)
    BY <1>2, DivMod, DeltaAssumption, Zenon
  <1>4. QED
    BY <1>1, <1>3, DeltaAssumption

\* n more rows, k more chunks of them sealed.
LEMMA ActiveAfterSealing ==
    ASSUME NEW d, NEW e, NEW n \in Int, NEW k \in Int,
           d.sealed \in Int, Len(d.rows) \in Int,
           Len(e.rows) = Len(d.rows) + n, e.sealed = d.sealed + k
    PROVE  ActiveRows(e) = ActiveRows(d) + n - k * TARGET_SEGMENT_ROWS
  <1>1. PICK w \in Int : w = TARGET_SEGMENT_ROWS
    BY DeltaAssumption
  <1>2. PICK s \in Int : s = d.sealed
    OBVIOUS
  <1>3. PICK a \in Int : a = s * w
    BY ONLY s \in Int, w \in Int
  <1>4. PICK b \in Int : b = k * w
    BY ONLY k \in Int, w \in Int
  <1>5. (s + k) * w = s * w + k * w
    BY ONLY s \in Int, k \in Int, w \in Int
  <1>6. (s + k) * w = a + b
    BY ONLY <1>3, <1>4, <1>5, Zenon
  <1>7. ActiveRows(d) = Len(d.rows) - a
    BY ONLY <1>1, <1>2, <1>3, Zenon DEF ActiveRows
  <1>8. ActiveRows(e) = Len(d.rows) + n - (a + b)
    <2>1. ActiveRows(e) = Len(e.rows) - e.sealed * w
      BY ONLY <1>1, Zenon DEF ActiveRows
    <2>2. e.sealed = s + k
      BY <1>2, Zenon
    <2>3. e.sealed * w = a + b
      BY ONLY <1>6, <2>2, Zenon
    <2>4. Len(e.rows) = Len(d.rows) + n
      OBVIOUS
    <2>5. QED BY ONLY <2>1, <2>3, <2>4
  <1>9. Len(d.rows) + n - (a + b) = Len(d.rows) - a + n - b
    BY ONLY Len(d.rows) \in Int, n \in Int, a \in Int, b \in Int
  <1>10. QED BY ONLY <1>1, <1>4, <1>7, <1>8, <1>9, Zenon

\* An insert yields a Delta whose fields are as the code assigns them.
LEMMA InsertShape ==
    ASSUME NEW d \in DeltaType, NEW batch \in Seq(InputRow),
           Accepts(batch), ActiveIsPartial(d)
    PROVE  /\ Insert(d, batch) \in DeltaType
           /\ ActiveIsPartial(Insert(d, batch))
           /\ Len(Insert(d, batch).rows) = Len(d.rows) + Len(batch)
           /\ Insert(d, batch).next_generation = d.next_generation + Len(batch)
           /\ Insert(d, batch).tombstones = d.tombstones
           /\ Insert(d, batch).tombstoned_ids = d.tombstoned_ids
           /\ \A i \in 1..Len(d.rows) : Insert(d, batch).rows[i] = d.rows[i]
           /\ \A i \in 1..Len(batch) :
                 Insert(d, batch).rows[Len(d.rows) + i] =
                     [id |-> batch[i].id, value |-> batch[i].value,
                      generation |-> d.next_generation + i - 1]
  <1> DEFINE e == Insert(d, batch)
             n == Len(batch)
             k == NewlySealed(d, n)
  <1>1. d.rows \in Seq(Record) /\ d.sealed \in Nat /\ d.next_generation \in Nat
    BY DEF DeltaType
  <1>2. n \in Nat /\ Len(d.rows) \in Nat
    BY <1>1
  <1>3. ActiveRows(d) \in Nat
    BY DeltaAssumption DEF ActiveIsPartial
  <1>4. /\ k \in Nat
        /\ ActiveRows(d) + n - k * TARGET_SEGMENT_ROWS \in 0..(TARGET_SEGMENT_ROWS - 1)
    <2>1. k = (ActiveRows(d) + n) \div TARGET_SEGMENT_ROWS
      BY DEF NewlySealed
    <2> HIDE DEF k, n
    <2>2. QED
      BY <1>2, <1>3, <2>1, SealingLeavesPartial, Zenon
  <1>5. \A i \in 1..n : /\ batch[i] \in InputRow
                        /\ batch[i].value # Malformed
    BY DEF Accepts
  <1>6. Stamp(d, batch) \in Seq(Record)
    <2>1. \A i \in 1..n : [id |-> batch[i].id, value |-> batch[i].value,
                           generation |-> d.next_generation + i - 1] \in Record
      BY <1>1, <1>2, <1>5 DEF InputRow, Record
    <2>2. Stamp(d, batch) \in [1..n -> Record]
      BY <2>1 DEF Stamp
    <2>3. QED BY <1>2, <2>2, IsASeq
  <1>7. Len(Stamp(d, batch)) = n
    BY <1>2 DEF Stamp
  <1>8. /\ e.rows = d.rows \o Stamp(d, batch)
        /\ e.sealed = d.sealed + k
        /\ e.next_generation = d.next_generation + n
        /\ e.tombstones = d.tombstones
        /\ e.tombstoned_ids = d.tombstoned_ids
        /\ e \in DeltaType
    <2> DEFINE rows == d.rows \o Stamp(d, batch)
    <2>1. rows \in Seq(Record)
      BY <1>1, <1>6, ConcatProperties
    <2>2. e = [d EXCEPT !.rows = rows, !.sealed = d.sealed + k,
                        !.next_generation = d.next_generation + n]
      BY DEF Insert
    <2>3. d.sealed + k \in Nat /\ d.next_generation + n \in Nat
      BY <1>1, <1>2, <1>4
    <2> HIDE DEF e, rows, k, n
    <2>4. /\ e.rows = rows
          /\ e.sealed = d.sealed + k
          /\ e.next_generation = d.next_generation + n
          /\ e.tombstones = d.tombstones
          /\ e.tombstoned_ids = d.tombstoned_ids
      BY <2>2 DEF DeltaType
    <2>5. e \in DeltaType
      BY <2>1, <2>2, <2>3 DEF DeltaType
    <2> QED BY <2>4, <2>5 DEF rows
  <1>9. /\ Len(e.rows) = Len(d.rows) + n
        /\ \A i \in 1..Len(d.rows) : e.rows[i] = d.rows[i]
        /\ \A i \in 1..n : e.rows[Len(d.rows) + i] = Stamp(d, batch)[i]
    <2> DEFINE s == Stamp(d, batch)
    <2>1. /\ Len(d.rows \o s) = Len(d.rows) + Len(s)
          /\ \A i \in 1..(Len(d.rows) + Len(s)) :
                (d.rows \o s)[i] = IF i <= Len(d.rows) THEN d.rows[i]
                                  ELSE s[i - Len(d.rows)]
      BY <1>1, <1>6, ConcatProperties
    <2> HIDE DEF s, e, n
    <2> QED BY <1>2, <1>7, <1>8, <2>1 DEF s
  <1>10. ActiveIsPartial(e)
    <2>1. ActiveRows(e) = ActiveRows(d) + n - k * TARGET_SEGMENT_ROWS
      <3>1. d.sealed \in Int /\ k \in Int /\ Len(d.rows) \in Int /\ n \in Int
        <4> HIDE DEF k, n
        <4> QED BY <1>1, <1>2, <1>4
      <3> HIDE DEF e, k, n
      <3>2. Len(e.rows) = Len(d.rows) + n /\ e.sealed = d.sealed + k
        BY ONLY <1>8, <1>9, Zenon
      <3>3. QED BY ONLY <3>1, <3>2, ActiveAfterSealing
    <2>2. QED BY <2>1, <1>4 DEF ActiveIsPartial
  <1>11. QED
    BY <1>8, <1>9, <1>10 DEF Stamp

\* The rows of an Insert are the old rows at their old positions, then fresh
\* rows, and a fresh row carries a generation no Tombstone names.
LEMMA InsertRows ==
    ASSUME NEW d \in DeltaType, NEW batch \in Seq(InputRow),
           Accepts(batch), Lineage(d),
           NEW j \in DOMAIN Insert(d, batch).rows
    PROVE  \/ /\ j \in DOMAIN d.rows
              /\ j <= Len(d.rows)
              /\ Insert(d, batch).rows[j] = d.rows[j]
              /\ IsRecordTombstoned(Insert(d, batch), Insert(d, batch).rows[j])
                    <=> IsRecordTombstoned(d, d.rows[j])
           \/ /\ j > Len(d.rows)
              /\ j - Len(d.rows) \in DOMAIN batch
              /\ Insert(d, batch).rows[j].id = batch[j - Len(d.rows)].id
              /\ Insert(d, batch).rows[j].value = batch[j - Len(d.rows)].value
              /\ Insert(d, batch).rows[j].generation
                    = d.next_generation + (j - Len(d.rows)) - 1
              /\ ~IsRecordTombstoned(Insert(d, batch), Insert(d, batch).rows[j])
  <1> DEFINE e == Insert(d, batch)
             l == Len(d.rows)
  <1>1. /\ e \in DeltaType
        /\ Len(e.rows) = l + Len(batch)
        /\ e.tombstones = d.tombstones
        /\ \A i \in 1..l : e.rows[i] = d.rows[i]
        /\ \A i \in 1..Len(batch) :
              e.rows[l + i] = [id |-> batch[i].id, value |-> batch[i].value,
                               generation |-> d.next_generation + i - 1]
    BY InsertShape DEF Lineage
  <1> HIDE DEF e
  <1>2. /\ l \in Nat /\ Len(batch) \in Nat
        /\ DOMAIN d.rows = 1..l /\ DOMAIN batch = 1..Len(batch)
        /\ DOMAIN e.rows = 1..Len(e.rows)
        /\ d.rows \in Seq(Record) /\ d.next_generation \in Nat
    BY <1>1 DEF DeltaType
  <1>3. CASE j <= l
    <2>1. j \in 1..l
      BY <1>1, <1>2, <1>3 DEF e
    <2>2. e.rows[j] = d.rows[j]
      BY <1>1, <2>1
    <2>3. QED
      BY <1>1, <1>2, <1>3, <2>1, <2>2 DEF e, IsRecordTombstoned
  <1>4. CASE j > l
    <2> DEFINE i == j - l
    <2>1. i \in 1..Len(batch) /\ j = l + i
      BY <1>1, <1>2, <1>4 DEF e
    <2>2. e.rows[j] = [id |-> batch[i].id, value |-> batch[i].value,
                       generation |-> d.next_generation + i - 1]
      <3> HIDE DEF i
      <3> QED BY <1>1, <2>1
    <2>3. ~IsRecordTombstoned(e, e.rows[j])
      <3>1. ASSUME IsRecordTombstoned(e, e.rows[j]) PROVE FALSE
        <4>1. Key(e.rows[j]) \in d.tombstones
          BY <3>1, <1>1 DEF IsRecordTombstoned
        <4>2. PICK k \in DOMAIN d.rows : Key(e.rows[j]) = Key(d.rows[k])
          BY <4>1 DEF Lineage, TombstonesOwned
        <4>3. e.rows[j].generation = d.rows[k].generation
          BY <4>2 DEF Key
        <4>4. d.rows[k].generation < d.next_generation
          BY DEF Lineage, GenerationsIncrease
        <4>5. d.rows[k].generation \in Nat
          BY DeltaFields
        <4>6. e.rows[j].generation = d.next_generation + i - 1
          <5> HIDE DEF i
          <5> QED BY <2>2
        <4>7. QED
          BY <1>2, <2>1, <4>3, <4>4, <4>5, <4>6
      <3>2. QED BY <3>1
    <2>4. /\ e.rows[j].id = batch[i].id
          /\ e.rows[j].value = batch[i].value
          /\ e.rows[j].generation = d.next_generation + i - 1
      <3> HIDE DEF i
      <3> QED BY <2>2
    <2>5. QED
      BY <1>2, <1>4, <2>1, <2>3, <2>4 DEF e
  <1>5. j \in Nat
    BY <1>1, <1>2 DEF e
  <1>6. QED
    BY <1>2, <1>3, <1>4, <1>5

\* Insert preserves what a lineage promises.
LEMMA InsertLineage ==
    ASSUME NEW d \in DeltaType, NEW batch \in Seq(InputRow),
           Accepts(batch), Lineage(d)
    PROVE  Lineage(Insert(d, batch))
  <1> DEFINE e == Insert(d, batch)
             l == Len(d.rows)
             Old(j) == /\ j \in DOMAIN d.rows
                       /\ j <= l
                       /\ e.rows[j] = d.rows[j]
                       /\ IsRecordTombstoned(e, e.rows[j])
                             <=> IsRecordTombstoned(d, d.rows[j])
             New(j) == /\ j > l
                       /\ j - l \in DOMAIN batch
                       /\ e.rows[j].generation = d.next_generation + (j - l) - 1
                       /\ ~IsRecordTombstoned(e, e.rows[j])
  <1>1. \A j \in DOMAIN e.rows : Old(j) \/ New(j)
    BY InsertRows, Zenon
  <1>2. /\ e \in DeltaType
        /\ ActiveIsPartial(e)
        /\ Len(e.rows) = l + Len(batch)
        /\ e.next_generation = d.next_generation + Len(batch)
        /\ e.tombstones = d.tombstones
        /\ e.tombstoned_ids = d.tombstoned_ids
        /\ \A i \in 1..l : e.rows[i] = d.rows[i]
    BY InsertShape DEF Lineage
  <1>3. /\ GenerationsIncrease(d) /\ TombstonesOwned(d) /\ HiddenIsPrefix(d)
    BY DEF Lineage
  <1> HIDE DEF e
  <1>4. /\ l \in Nat /\ Len(batch) \in Nat
        /\ DOMAIN d.rows = 1..l /\ DOMAIN batch = 1..Len(batch)
        /\ DOMAIN e.rows = 1..Len(e.rows)
        /\ d.next_generation \in Nat
        /\ \A i \in 1..l : d.rows[i].generation \in Nat
    <2>1. /\ l \in Nat /\ DOMAIN d.rows = 1..l /\ d.next_generation \in Nat
          /\ \A i \in 1..l : d.rows[i].generation \in Nat
      BY DeltaFields
    <2>2. DOMAIN e.rows = 1..Len(e.rows)
      BY <1>2, DeltaFields
    <2>3. Len(batch) \in Nat /\ DOMAIN batch = 1..Len(batch)
      OBVIOUS
    <2>4. QED BY <2>1, <2>2, <2>3
  <1>5. GenerationsIncrease(e)
    <2>1. ASSUME NEW i \in DOMAIN e.rows, NEW j \in DOMAIN e.rows, i < j
          PROVE  e.rows[i].generation < e.rows[j].generation
      <3>1. CASE Old(i) /\ Old(j)
        BY <3>1, <2>1, <1>3 DEF GenerationsIncrease
      <3>2. CASE Old(i) /\ New(j)
        <4>1. d.rows[i].generation < d.next_generation
          BY <3>2, <1>3 DEF GenerationsIncrease
        <4>2. j \in Nat
          BY <1>2, <1>4
        <4>3. i \in 1..l
          BY <3>2, <1>4
        <4>4. d.rows[i].generation \in Nat
          BY <4>3, <1>4
        <4>5. e.rows[i].generation = d.rows[i].generation
          BY <3>2
        <4>6. /\ j > l
              /\ e.rows[j].generation = d.next_generation + (j - l) - 1
          BY <3>2
        <4> HIDE DEF l, Old, New
        <4>7. d.next_generation \in Int /\ l \in Int
          BY <1>4
        <4>8. QED BY ONLY <4>1, <4>2, <4>4, <4>5, <4>6, <4>7
      <3>3. CASE New(i) /\ New(j)
        <4>1. /\ e.rows[i].generation = d.next_generation + (i - l) - 1
              /\ e.rows[j].generation = d.next_generation + (j - l) - 1
          BY <3>3
        <4>2. /\ i \in Int /\ j \in Int /\ l \in Int /\ d.next_generation \in Int
              /\ i < j
          BY <2>1, <1>2, <1>4
        <4> HIDE DEF l
        <4>3. QED BY ONLY <4>1, <4>2
      <3>4. CASE New(i) /\ Old(j)
        BY <3>4, <2>1, <1>2, <1>4
      <3>5. QED BY <1>1, <3>1, <3>2, <3>3, <3>4
    <2>2. ASSUME NEW i \in DOMAIN e.rows
          PROVE  e.rows[i].generation < e.next_generation
      <3>1. CASE Old(i)
        <4>1. d.rows[i].generation < d.next_generation
          BY <3>1, <1>3 DEF GenerationsIncrease
        <4>2. QED BY <3>1, <4>1, <1>2, <1>4
      <3>2. CASE New(i)
        BY <3>2, <1>2, <1>4
      <3>3. QED BY <1>1, <3>1, <3>2
    <2>3. QED BY <2>1, <2>2 DEF GenerationsIncrease
  <1>6. TombstonesOwned(e)
    <2>1. ASSUME NEW i \in DOMAIN d.rows
          PROVE  i \in DOMAIN e.rows /\ Key(d.rows[i]) = Key(e.rows[i])
      BY <1>2, <1>4 DEF Key
    <2>2. {Key(d.rows[i]) : i \in DOMAIN d.rows}
              \subseteq {Key(e.rows[i]) : i \in DOMAIN e.rows}
      BY <2>1
    <2>3. QED BY <2>2, <1>2, <1>3 DEF TombstonesOwned
  <1>7. HiddenIsPrefix(e)
    <2>1. ASSUME NEW i \in DOMAIN e.rows, NEW j \in DOMAIN e.rows,
                 i < j, e.rows[i].id = e.rows[j].id,
                 IsRecordTombstoned(e, e.rows[j])
          PROVE  IsRecordTombstoned(e, e.rows[i])
      <3>1. Old(j)
        BY <2>1, <1>1
      <3>2. Old(i)
        <4>1. j <= l /\ i \in Int /\ j \in Int /\ l \in Int
          BY <3>1, <1>2, <1>4
        <4>2. New(i) => i > l
          OBVIOUS
        <4> HIDE DEF Old, New, l
        <4>3. ~New(i)
          BY ONLY <2>1, <4>1, <4>2
        <4>4. QED BY <1>1, <4>3
      <3>3. QED
        BY <2>1, <3>1, <3>2, <1>3 DEF HiddenIsPrefix
    <2>2. QED BY <2>1 DEF HiddenIsPrefix
  <1>8. QED
    BY <1>2, <1>5, <1>6, <1>7 DEF Lineage, e

\* Inserting a batch overwrites the newest visible payload of every id in it,
\* and of no other id.
LEMMA InsertIsPut ==
    ASSUME NEW d \in DeltaType, NEW batch \in Seq(InputRow),
           Accepts(batch), Lineage(d)
    PROVE  NewestVisible(Insert(d, batch)) = Put(NewestVisible(d), batch)
  <1> DEFINE e == Insert(d, batch)
             l == Len(d.rows)
  <1>1. /\ Len(e.rows) = l + Len(batch) /\ e \in DeltaType
        /\ e.tombstones = d.tombstones
        /\ \A i \in 1..l : e.rows[i] = d.rows[i]
    BY InsertShape DEF Lineage
  <1>2. /\ l \in Nat /\ Len(batch) \in Nat
        /\ DOMAIN d.rows = 1..l /\ DOMAIN batch = 1..Len(batch)
        /\ DOMAIN e.rows = 1..(l + Len(batch))
    <2>1. Len(batch) \in Nat /\ DOMAIN batch = 1..Len(batch)
      OBVIOUS
    <2>2. QED BY <2>1, <1>1, DeltaFields
  <1>3. ASSUME NEW j \in DOMAIN e.rows
        PROVE  \/ /\ j \in DOMAIN d.rows
                  /\ j <= l
                  /\ e.rows[j] = d.rows[j]
                  /\ IsRecordTombstoned(e, e.rows[j])
                        <=> IsRecordTombstoned(d, d.rows[j])
               \/ /\ j > l
                  /\ j - l \in DOMAIN batch
                  /\ e.rows[j].id = batch[j - l].id
                  /\ e.rows[j].value = batch[j - l].value
                  /\ ~IsRecordTombstoned(e, e.rows[j])
    BY InsertRows, Zenon
  <1> HIDE DEF e
  <1>4. ASSUME NEW id \in Ids
        PROVE  NewestVisible(e)[id] = Put(NewestVisible(d), batch)[id]
    <2> DEFINE Before == VisiblePositions(d, id)
               After == VisiblePositions(e, id)
               Fresh == At(batch, id)
    <2>1. /\ Before \in SUBSET (0..l)
          /\ After \in SUBSET (0..(l + Len(batch)))
          /\ Fresh \in SUBSET (0..Len(batch))
      BY <1>2 DEF VisiblePositions, At
    <2>2. Before \subseteq After
      BY <1>1, <1>2 DEF VisiblePositions, IsRecordTombstoned
    <2>3. \A j \in After : j \in Before \/ (j > l /\ j - l \in Fresh)
      <3>1. ASSUME NEW j \in After
            PROVE  j \in Before \/ (j > l /\ j - l \in Fresh)
        <4>1. j \in DOMAIN e.rows /\ e.rows[j].id = id /\ ~IsRecordTombstoned(e, e.rows[j])
          BY DEF VisiblePositions
        <4>2. QED
          BY <4>1, <1>3 DEF VisiblePositions, At
      <3>2. QED BY <3>1
    <2>4. \A i \in Fresh : l + i \in After
      <3>1. ASSUME NEW i \in Fresh PROVE l + i \in After
        <4>1. i \in 1..Len(batch) /\ batch[i].id = id
          BY <1>2 DEF At
        <4>2. l + i \in DOMAIN e.rows /\ (l + i) - l = i /\ l + i > l
          BY <4>1, <1>2
        <4>3. ~(l + i <= l)
          BY <4>1, <1>2
        <4>4. /\ e.rows[l + i].id = batch[(l + i) - l].id
              /\ ~IsRecordTombstoned(e, e.rows[l + i])
          BY <4>2, <4>3, <1>3
        <4>5. e.rows[l + i].id = id
          BY <4>1, <4>2, <4>4
        <4> HIDE DEF l
        <4>6. QED
          BY <4>2, <4>4, <4>5 DEF VisiblePositions
      <3>2. QED BY <3>1
    <2>5. CASE Fresh = {}
      <3>1. After = Before
        BY <2>2, <2>3, <2>5
      <3>2. CASE Before = {}
        BY <2>5, <3>1, <3>2 DEF NewestVisible, Put
      <3>3. CASE Before # {}
        <4>1. Max(Before) \in Before
          BY <3>3, <2>1, <1>2, MaxOfBounded
        <4>2. e.rows[Max(Before)] = d.rows[Max(Before)]
          BY <4>1, <1>1, <1>2 DEF VisiblePositions
        <4>3. QED
          BY <2>5, <3>1, <3>3, <4>2 DEF NewestVisible, Put
      <3>4. QED BY <3>2, <3>3
    <2>6. CASE Fresh # {}
      <3> DEFINE m == Max(Fresh)
      <3>1. m \in Fresh /\ \A i \in Fresh : i <= m
        BY <2>6, <2>1, <1>2, MaxOfBounded
      <3>2. m \in 1..Len(batch) /\ batch[m].id = id
        BY <3>1, <1>2 DEF At
      <3>3. l + m \in After
        BY <3>1, <2>4
      <3> HIDE DEF m
      <3>4. \A j \in After : j <= l + m
        <4>1. ASSUME NEW j \in After PROVE j <= l + m
          <5>1. CASE j \in Before
            BY <5>1, <2>1, <3>2, <1>2
          <5>2. CASE j > l /\ j - l \in Fresh
            <6>1. j - l <= m /\ j \in Int
              BY <5>2, <3>1, <2>1
            <6>2. QED BY <6>1, <3>2, <1>2
          <5>3. QED BY <2>3, <5>1, <5>2
        <4>2. QED BY <4>1
      <3>5. Max(After) = l + m
        <4>1. l + Len(batch) \in Nat
          BY <1>2
        <4> HIDE DEF After, l
        <4>2. QED BY <2>1, <3>3, <3>4, <4>1, MaxIs
      <3>6. e.rows[l + m].value = batch[m].value
        <4>1. /\ l + m \in DOMAIN e.rows /\ ~(l + m <= l) /\ (l + m) - l = m
          BY <3>2, <1>2
        <4>2. e.rows[l + m].value = batch[(l + m) - l].value
          BY <4>1, <1>3
        <4>3. QED BY <4>1, <4>2
      <3>7. After # {}
        BY <3>3
      <3>8. QED
        BY <2>6, <3>5, <3>6, <3>7 DEF NewestVisible, Put, m
    <2>7. QED BY <2>5, <2>6
  <1>5. QED
    BY <1>4 DEF NewestVisible, Put, e

-----------------------------------------------------------------------------
(* Delete *)

\* A delete yields a Delta that differs only in its Tombstones.
LEMMA DeleteShape ==
    ASSUME NEW d \in DeltaType, NEW ids \in SUBSET Ids
    PROVE  /\ Delete(d, ids) \in DeltaType
           /\ Delete(d, ids).rows = d.rows
           /\ Delete(d, ids).sealed = d.sealed
           /\ Delete(d, ids).next_generation = d.next_generation
           /\ Delete(d, ids).tombstones =
                 d.tombstones \cup {Key(d.rows[i]) : i \in Matches(d, ids)}
           /\ Delete(d, ids).tombstoned_ids =
                 d.tombstoned_ids \cup {d.rows[i].id : i \in Matches(d, ids)}
  <1> DEFINE e == Delete(d, ids)
             keys == d.tombstones \cup {Key(d.rows[i]) : i \in Matches(d, ids)}
             hidden == d.tombstoned_ids \cup {d.rows[i].id : i \in Matches(d, ids)}
  <1>1. keys \in SUBSET (Ids \X Nat)
    BY DeltaFields DEF Matches, Key
  <1>2. hidden \in SUBSET Ids
    BY DeltaFields DEF Matches
  <1>3. e = [d EXCEPT !.tombstones = keys, !.tombstoned_ids = hidden]
    BY DEF Delete
  <1> HIDE DEF e, keys, hidden
  <1>4. /\ e \in DeltaType /\ e.rows = d.rows /\ e.sealed = d.sealed
        /\ e.next_generation = d.next_generation
        /\ e.tombstones = keys /\ e.tombstoned_ids = hidden
    BY <1>1, <1>2, <1>3 DEF DeltaType
  <1>5. QED
    BY <1>4 DEF e, keys, hidden

\* The rows a Delete hides: those hidden before, and every row of its ids.
LEMMA DeleteHides ==
    ASSUME NEW d \in DeltaType, NEW ids \in SUBSET Ids, Lineage(d),
           NEW i \in DOMAIN d.rows
    PROVE  IsRecordTombstoned(Delete(d, ids), d.rows[i])
              <=> d.rows[i].id \in ids \/ IsRecordTombstoned(d, d.rows[i])
  <1>1. Delete(d, ids).tombstones =
           d.tombstones \cup {Key(d.rows[k]) : k \in Matches(d, ids)}
    BY DeleteShape
  <1>2. ASSUME NEW k \in Matches(d, ids), Key(d.rows[i]) = Key(d.rows[k])
        PROVE  d.rows[i].id \in ids
    BY <1>2 DEF Key, Matches
  <1>3. ASSUME d.rows[i].id \in ids
        PROVE  i \in Matches(d, ids)
    BY <1>3 DEF Matches
  <1>4. QED
    BY <1>1, <1>2, <1>3 DEF IsRecordTombstoned

\* Delete preserves what a lineage promises.
LEMMA DeleteLineage ==
    ASSUME NEW d \in DeltaType, NEW ids \in SUBSET Ids, Lineage(d)
    PROVE  Lineage(Delete(d, ids))
  <1> DEFINE e == Delete(d, ids)
  <1>1. /\ e.rows = d.rows /\ e.sealed = d.sealed
        /\ e.next_generation = d.next_generation
        /\ e.tombstones = d.tombstones \cup {Key(d.rows[i]) : i \in Matches(d, ids)}
        /\ e.tombstoned_ids = d.tombstoned_ids \cup {d.rows[i].id : i \in Matches(d, ids)}
    BY DeleteShape
  <1>2. \A i \in DOMAIN d.rows :
           IsRecordTombstoned(e, d.rows[i])
              <=> d.rows[i].id \in ids \/ IsRecordTombstoned(d, d.rows[i])
    BY DeleteHides
  <1> HIDE DEF e
  <1>3. GenerationsIncrease(e)
    BY <1>1 DEF Lineage, GenerationsIncrease
  <1>4. ActiveIsPartial(e)
    BY <1>1 DEF Lineage, ActiveIsPartial, ActiveRows
  <1>5. TombstonesOwned(e)
    <2>1. Matches(d, ids) \subseteq DOMAIN d.rows
      BY DEF Matches
    <2>2. \A i \in Matches(d, ids) : Key(d.rows[i])[1] = d.rows[i].id
      BY DEF Key
    <2>3. {key[1] : key \in {Key(d.rows[i]) : i \in Matches(d, ids)}}
             = {d.rows[i].id : i \in Matches(d, ids)}
      <3> DEFINE keys == {Key(d.rows[i]) : i \in Matches(d, ids)}
      <3>1. ASSUME NEW i \in Matches(d, ids)
            PROVE  d.rows[i].id \in {key[1] : key \in keys}
        <4>1. Key(d.rows[i]) \in keys
          OBVIOUS
        <4>2. QED BY <4>1, <2>2
      <3>2. ASSUME NEW key \in keys
            PROVE  key[1] \in {d.rows[i].id : i \in Matches(d, ids)}
        <4>1. PICK i \in Matches(d, ids) : key = Key(d.rows[i])
          OBVIOUS
        <4>2. QED BY <4>1, <2>2
      <3> HIDE DEF keys
      <3>3. {key[1] : key \in keys} = {d.rows[i].id : i \in Matches(d, ids)}
        BY <3>1, <3>2
      <3>4. QED BY <3>3 DEF keys
    <2>4. e.tombstoned_ids = {key[1] : key \in e.tombstones}
      BY <1>1, <2>3, Zenon DEF Lineage, TombstonesOwned
    <2>5. e.tombstones \subseteq {Key(e.rows[i]) : i \in DOMAIN e.rows}
      BY <1>1, <2>1 DEF Lineage, TombstonesOwned
    <2>6. QED BY <2>4, <2>5 DEF TombstonesOwned
  <1>6. HiddenIsPrefix(e)
    BY <1>1, <1>2 DEF Lineage, HiddenIsPrefix
  <1>7. QED
    BY <1>3, <1>4, <1>5, <1>6 DEF Lineage, e

\* Deleting ids removes exactly them from the view.
LEMMA DeleteIsRemove ==
    ASSUME NEW d \in DeltaType, NEW ids \in SUBSET Ids, Lineage(d)
    PROVE  NewestVisible(Delete(d, ids)) = Remove(NewestVisible(d), ids)
  <1> DEFINE e == Delete(d, ids)
  <1>1. e.rows = d.rows
    BY DeleteShape
  <1>2. \A i \in DOMAIN d.rows :
           IsRecordTombstoned(e, d.rows[i])
              <=> d.rows[i].id \in ids \/ IsRecordTombstoned(d, d.rows[i])
    BY DeleteHides
  <1> HIDE DEF e
  <1>3. \A id \in Ids :
           VisiblePositions(e, id) = IF id \in ids THEN {} ELSE VisiblePositions(d, id)
    BY <1>1, <1>2 DEF VisiblePositions
  <1>4. \A id \in Ids : NewestVisible(e)[id] = Remove(NewestVisible(d), ids)[id]
    BY <1>1, <1>3 DEF NewestVisible, Remove
  <1>5. QED
    BY <1>4 DEF NewestVisible, Remove, e

-----------------------------------------------------------------------------
(* Delta::new *)

\* A new Delta is a well-formed lineage with nothing visible.
LEMMA NewDeltaLineage ==
    /\ NewDelta \in DeltaType
    /\ Lineage(NewDelta)
    /\ NewestVisible(NewDelta) = [id \in Ids |-> Absent]
  <1>1. NewDelta \in DeltaType
    BY DEF NewDelta, DeltaType
  <1>2. Len(NewDelta.rows) = 0 /\ DOMAIN NewDelta.rows = {}
    BY DEF NewDelta
  <1>3. GenerationsIncrease(NewDelta) /\ HiddenIsPrefix(NewDelta)
    BY <1>2 DEF GenerationsIncrease, HiddenIsPrefix
  <1>4. TombstonesOwned(NewDelta)
    BY DEF NewDelta, TombstonesOwned
  <1>5. ActiveIsPartial(NewDelta)
    BY <1>2, DeltaAssumption DEF NewDelta, ActiveIsPartial, ActiveRows
  <1>6. \A id \in Ids : VisiblePositions(NewDelta, id) = {}
    BY <1>2 DEF VisiblePositions
  <1>7. QED
    BY <1>1, <1>3, <1>4, <1>5, <1>6 DEF Lineage, NewestVisible

-----------------------------------------------------------------------------
(* The batches merge() builds *)

\* merge() never sends more ids in full batches than it carries.
LEMMA FullBatchesBounded ==
    ASSUME NEW n \in Nat
    PROVE  FullBatches(n) \in 0..n
  <1>1. MergeBatch \in Nat \ {0}
    BY CompactionAssumption
  <1>2. PICK q \in Nat : q = n \div MergeBatch /\ n - q * MergeBatch \in 0..(MergeBatch - 1)
    BY <1>1, DivMod
  <1>3. q * MergeBatch \in Nat
    BY <1>1
  <1>4. QED
    BY <1>1, <1>2, <1>3 DEF FullBatches

\* Every set of ids is a finite set of numbers, so it has an ascending order.
LEMMA IdsFinite ==
    ASSUME NEW S \in SUBSET Ids
    PROVE  S \in SUBSET Nat /\ IsFiniteSet(S)
  BY RowsAssumption, FS_Subset

\* The carried rows: every visible id, with its newest visible payload.
LEMMA CarriedShape ==
    ASSUME NEW d \in DeltaType
    PROVE  /\ Carried(d) \in Seq(InputRow)
           /\ \A i \in 1..Len(Carried(d)) :
                 /\ Carried(d)[i].id \in VisibleIds(d)
                 /\ Carried(d)[i].value # Malformed
                 /\ Carried(d)[i].value = NewestVisible(d)[Carried(d)[i].id]
           /\ \A id \in VisibleIds(d) :
                 \E i \in 1..Len(Carried(d)) : Carried(d)[i].id = id
  <1> DEFINE V == VisibleIds(d)
             ids == Ascending(V)
             n == Len(ids)
             rows == [i \in 1..n |-> VisibleRow(d, ids[i])]
  <1>1. V \in SUBSET Ids
    BY DEF VisibleIds
  <1>2. /\ ids \in Seq(V) /\ n \in Nat
        /\ \A id \in V : \E i \in 1..n : ids[i] = id
    <2>1. V \in SUBSET Nat /\ IsFiniteSet(V)
      BY <1>1, IdsFinite
    <2> HIDE DEF V
    <2>2. QED BY <2>1, AscendingLists
  <1>3. ASSUME NEW id \in V
        PROVE  /\ VisibleRow(d, id) \in InputRow
               /\ VisibleRow(d, id).id = id
               /\ VisibleRow(d, id).value # Malformed
               /\ VisibleRow(d, id).value = NewestVisible(d)[id]
    <2> DEFINE P == VisiblePositions(d, id)
               m == Max(P)
    <2>1. P # {} /\ id \in Ids
      BY DEF VisibleIds
    <2>2. P \in SUBSET (0..Len(d.rows)) /\ P \subseteq DOMAIN d.rows
      BY DeltaFields DEF VisiblePositions
    <2>3. m \in P
      <3> HIDE DEF P
      <3> QED BY <2>1, <2>2, MaxOfBounded, DeltaFields
    <2>4. m \in DOMAIN d.rows
      BY <2>2, <2>3
    <2>5. d.rows[m].value \in Values
      <3> HIDE DEF m
      <3> QED BY <2>4, DeltaFields
    <2>6. VisibleRow(d, id) = [id |-> id, value |-> d.rows[m].value]
      BY DEF VisibleRow
    <2>7. NewestVisible(d)[id] = d.rows[m].value
      BY <2>1 DEF NewestVisible
    <2> HIDE DEF m, P
    <2>8. QED
      BY <2>1, <2>5, <2>6, <2>7, RowsAssumption DEF InputRow
  <1>4. ASSUME NEW i \in 1..n
        PROVE  /\ rows[i] \in InputRow
               /\ rows[i].id = ids[i] /\ ids[i] \in V
               /\ rows[i].value # Malformed
               /\ rows[i].value = NewestVisible(d)[ids[i]]
    <2> HIDE DEF V
    <2>1. ids[i] \in V
      BY <1>2
    <2>2. rows[i] = VisibleRow(d, ids[i])
      OBVIOUS
    <2> HIDE DEF ids, rows
    <2>3. QED BY <1>3, <2>1, <2>2
  <1>5. rows \in Seq(InputRow) /\ Len(rows) = n
    <2> HIDE DEF ids
    <2>1. rows \in [1..n -> InputRow]
      BY <1>4
    <2> HIDE DEF rows, n
    <2>2. QED BY <1>2, <2>1
  <1>6. Carried(d) = rows
    BY DEF Carried
  <1> HIDE DEF rows, n, ids
  <1>7. \A id \in V : \E i \in 1..n : rows[i].id = id
    BY <1>2, <1>4
  <1>8. QED
    BY <1>4, <1>5, <1>6, <1>7

\* The retained rows are acceptable, and every id of them is hidden again.
LEMMA RetainedShape ==
    ASSUME NEW d \in DeltaType
    PROVE  /\ Retained(d) \in Seq(InputRow)
           /\ RetainedIds(d) \in SUBSET Ids
           /\ \A i \in 1..Len(Retained(d)) :
                 /\ Retained(d)[i].id \in RetainedIds(d)
                 /\ Retained(d)[i].value # Malformed
  <1>1. CASE Purges(d)
    BY <1>1 DEF Retained, RetainedIds
  <1>2. CASE ~Purges(d)
    <2> DEFINE H == HiddenIds(d)
               ids == Ascending(H)
               n == Len(ids)
               rows == [i \in 1..n |-> HiddenRow(d, ids[i])]
    <2>1. H \in SUBSET Ids
      BY DEF HiddenIds
    <2>2. ids \in Seq(H) /\ n \in Nat
      <3>1. H \in SUBSET Nat /\ IsFiniteSet(H)
        BY <2>1, IdsFinite
      <3> HIDE DEF H
      <3>2. QED BY <3>1, AscendingLists
    <2>3. ASSUME NEW id \in H
          PROVE  /\ HiddenRow(d, id) \in InputRow
                 /\ HiddenRow(d, id).id = id
                 /\ HiddenRow(d, id).value # Malformed
      <3> DEFINE P == At(d.rows, id)
                 m == Max(P)
      <3>1. P # {} /\ id \in Ids
        BY DEF HiddenIds
      <3>2. P \in SUBSET (0..Len(d.rows)) /\ P \subseteq DOMAIN d.rows
        BY DeltaFields DEF At
      <3>3. m \in P
        <4> HIDE DEF P
        <4> QED BY <3>1, <3>2, MaxOfBounded, DeltaFields
      <3>4. m \in DOMAIN d.rows
        BY <3>2, <3>3
      <3>5. d.rows[m].value \in Values
        <4> HIDE DEF m
        <4> QED BY <3>4, DeltaFields
      <3>6. HiddenRow(d, id) = [id |-> id, value |-> d.rows[m].value]
        BY DEF HiddenRow
      <3> HIDE DEF m, P
      <3>7. QED
        BY <3>1, <3>5, <3>6, RowsAssumption DEF InputRow
    <2>4. ASSUME NEW i \in 1..n
          PROVE  /\ rows[i] \in InputRow
                 /\ rows[i].id \in H
                 /\ rows[i].value # Malformed
      <3> HIDE DEF H
      <3>1. ids[i] \in H
        BY <2>2
      <3>2. rows[i] = HiddenRow(d, ids[i])
        OBVIOUS
      <3> HIDE DEF ids, rows
      <3>3. QED BY <2>3, <3>1, <3>2
    <2>5. rows \in Seq(InputRow) /\ Len(rows) = n
      <3> HIDE DEF ids
      <3>1. rows \in [1..n -> InputRow]
        BY <2>4
      <3> HIDE DEF rows, n
      <3>2. QED BY <2>2, <3>1
    <2>6. Retained(d) = rows /\ RetainedIds(d) = H
      BY <1>2 DEF Retained, RetainedIds
    <2> HIDE DEF rows, n, H
    <2>7. QED
      BY <2>1, <2>4, <2>5, <2>6 DEF H
  <1>3. QED BY <1>1, <1>2

\* A retained id has no visible row, so hiding it again hides nothing a
\* reader could see.
LEMMA RetainedIsInvisible ==
    ASSUME NEW d \in DeltaType, Lineage(d), NEW id \in RetainedIds(d)
    PROVE  VisiblePositions(d, id) = {}
  <1> DEFINE P == At(d.rows, id)
             m == Max(P)
  <1>1. /\ P # {}
        /\ IsRecordTombstoned(d, d.rows[m])
    BY DEF RetainedIds, HiddenIds
  <1>2. P \in SUBSET (0..Len(d.rows))
    BY DeltaFields DEF At
  <1>3. m \in P /\ \A i \in P : i <= m
    <2> HIDE DEF P
    <2> QED BY <1>1, <1>2, MaxOfBounded, DeltaFields
  <1> HIDE DEF m
  <1>4. ASSUME NEW i \in P
        PROVE  IsRecordTombstoned(d, d.rows[i])
    <2>1. /\ i \in DOMAIN d.rows /\ d.rows[i].id = id
          /\ m \in DOMAIN d.rows /\ d.rows[m].id = id
      BY <1>3 DEF At
    <2>2. i = m \/ i < m
      BY <1>2, <1>3
    <2>3. QED
      BY <1>1, <2>1, <2>2 DEF Lineage, HiddenIsPrefix
  <1>5. QED
    BY <1>4 DEF VisiblePositions, At

-----------------------------------------------------------------------------
(* merge() *)

\* A batch leaves the ids it does not name alone.
LEMMA PutOther ==
    ASSUME NEW map, NEW batch, NEW id \in Ids, At(batch, id) = {}
    PROVE  Put(map, batch)[id] = map[id]
  BY DEF Put

\* A batch whose rows of an id all carry one payload leaves that payload.
LEMMA PutSame ==
    ASSUME NEW map, NEW batch \in Seq(InputRow), NEW id \in Ids, NEW v,
           At(batch, id) # {}, \A i \in At(batch, id) : batch[i].value = v
    PROVE  Put(map, batch)[id] = v
  <1> DEFINE P == At(batch, id)
  <1>1. P \in SUBSET (0..Len(batch)) /\ Len(batch) \in Nat
    BY DEF At
  <1>2. Max(P) \in P
    <2> HIDE DEF P
    <2> QED BY <1>1, MaxOfBounded DEF P
  <1>3. QED
    BY <1>2 DEF Put

\* The two parts of the carried rows hold the carried rows and no other.
LEMMA CarriedSplit ==
    ASSUME NEW d \in DeltaType
    PROVE  LET c == Carried(d)
               n == FullBatches(Len(c))
               full == SubSeq(c, 1, n)
               rest == SubSeq(c, n + 1, Len(c))
           IN  /\ full \in Seq(InputRow) /\ Accepts(full)
               /\ rest \in Seq(InputRow) /\ Accepts(rest)
               /\ \A i \in DOMAIN full :
                     /\ full[i].id \in VisibleIds(d)
                     /\ full[i].value = NewestVisible(d)[full[i].id]
               /\ \A i \in DOMAIN rest :
                     /\ rest[i].id \in VisibleIds(d)
                     /\ rest[i].value = NewestVisible(d)[rest[i].id]
               /\ \A id \in VisibleIds(d) : At(full, id) # {} \/ At(rest, id) # {}
  <1> DEFINE c == Carried(d)
             l == Len(c)
             n == FullBatches(l)
             full == SubSeq(c, 1, n)
             rest == SubSeq(c, n + 1, l)
             Row(r) == /\ r.id \in VisibleIds(d)
                       /\ r.value # Malformed
                       /\ r.value = NewestVisible(d)[r.id]
  <1>1. c \in Seq(InputRow) /\ l \in Nat
    BY CarriedShape
  <1>2. \A i \in 1..l : Row(c[i])
    <2> HIDE DEF c
    <2> QED BY CarriedShape DEF c
  <1>3. \A id \in VisibleIds(d) : \E i \in 1..l : c[i].id = id
    BY CarriedShape
  <1>4. n \in 0..l
    <2> HIDE DEF l
    <2> QED BY <1>1, FullBatchesBounded
  <1>5. \A i \in 1..l : c[i] \in InputRow
    BY <1>1
  <1> HIDE DEF c, l, n, Row
  <1>6. /\ full \in Seq(InputRow) /\ Len(full) = n
        /\ \A i \in 1..n : full[i] = c[i]
    <2>1. 1 \in Int /\ n \in Int /\ \A i \in 1..n : c[i] \in InputRow
      BY <1>1, <1>4, <1>5
    <2>2. /\ full \in Seq(InputRow)
          /\ Len(full) = IF 1 <= n THEN n - 1 + 1 ELSE 0
          /\ \A i \in 1..(n - 1 + 1) : full[i] = c[1 + i - 1]
      BY <2>1, SubSeqProperties
    <2> HIDE DEF full
    <2>3. \A i \in 1..n : 1 + i - 1 = i /\ i \in 1..(n - 1 + 1)
      BY <1>1, <1>4
    <2>4. QED BY <2>2, <2>3, <1>1, <1>4
  <1>7. /\ rest \in Seq(InputRow) /\ Len(rest) = l - n
        /\ \A i \in 1..(l - n) : rest[i] = c[n + i]
    <2>1. n + 1 \in Int /\ l \in Int /\ \A i \in (n + 1)..l : c[i] \in InputRow
      BY <1>1, <1>4, <1>5
    <2>2. /\ rest \in Seq(InputRow)
          /\ Len(rest) = IF n + 1 <= l THEN l - (n + 1) + 1 ELSE 0
          /\ \A i \in 1..(l - (n + 1) + 1) : rest[i] = c[(n + 1) + i - 1]
      BY <2>1, SubSeqProperties
    <2> HIDE DEF rest
    <2>3. \A i \in 1..(l - n) : (n + 1) + i - 1 = n + i /\ i \in 1..(l - (n + 1) + 1)
      BY <1>1, <1>4
    <2>4. QED BY <2>2, <2>3, <1>1, <1>4
  <1>8. DOMAIN full = 1..n /\ DOMAIN rest = 1..(l - n)
    <2> HIDE DEF full, rest
    <2> QED BY <1>6, <1>7
  <1> HIDE DEF full, rest
  <1>9. \A i \in DOMAIN full : Row(full[i])
    <2>1. \A i \in 1..n : i \in 1..l
      BY <1>1, <1>4
    <2>2. QED BY <1>2, <1>6, <1>8, <2>1
  <1>10. \A i \in DOMAIN rest : Row(rest[i])
    <2>1. \A i \in 1..(l - n) : n + i \in 1..l
      BY <1>1, <1>4
    <2>2. QED BY <1>2, <1>7, <1>8, <2>1
  <1>11. ASSUME NEW id \in VisibleIds(d)
         PROVE  At(full, id) # {} \/ At(rest, id) # {}
    <2>1. PICK i \in 1..l : c[i].id = id
      BY <1>3
    <2>2. CASE i <= n
      <3>1. i \in 1..n
        BY <2>2, <1>4
      <3>2. i \in At(full, id)
        BY <2>1, <3>1, <1>6, <1>8 DEF At
      <3>3. QED BY <3>2
    <2>3. CASE i > n
      <3>1. i - n \in 1..(l - n) /\ n + (i - n) = i
        BY <2>3, <1>1, <1>4
      <3>2. rest[i - n] = c[i]
        BY <3>1, <1>7
      <3>3. i - n \in At(rest, id)
        BY <2>1, <3>1, <3>2, <1>8 DEF At
      <3>4. QED BY <3>3
    <2>4. QED BY <2>2, <2>3, <1>1, <1>4
  <1>12. Accepts(full) /\ Accepts(rest)
    BY <1>9, <1>10 DEF Accepts, Row
  <1>13. QED
    BY <1>6, <1>7, <1>9, <1>10, <1>11, <1>12 DEF Row, full, rest, n, l, c

\* merge() turns a well-formed lineage into a well-formed lineage, and the
\* newest visible payload of every id is the same before and after: the
\* clone-mutate-commit of compact_with_trigger publishes no visible change.
THEOREM MergeIsSound ==
    ASSUME NEW d \in DeltaType, Lineage(d)
    PROVE  /\ Merge(d) \in DeltaType
           /\ Lineage(Merge(d))
           /\ NewestVisible(Merge(d)) = NewestVisible(d)
  <1> DEFINE c == Carried(d)
             n == FullBatches(Len(c))
             full == SubSeq(c, 1, n)
             rest == SubSeq(c, n + 1, Len(c))
             ret == Retained(d)
             ids == RetainedIds(d)
             d1 == Insert(NewDelta, full)
             d2 == Insert(d1, ret)
             d3 == Delete(d2, ids)
             d4 == Insert(d3, rest)
             view == NewestVisible(d)
  <1>1. /\ full \in Seq(InputRow) /\ Accepts(full)
        /\ rest \in Seq(InputRow) /\ Accepts(rest)
        /\ \A i \in DOMAIN full : /\ full[i].id \in VisibleIds(d)
                                  /\ full[i].value = view[full[i].id]
        /\ \A i \in DOMAIN rest : /\ rest[i].id \in VisibleIds(d)
                                  /\ rest[i].value = view[rest[i].id]
        /\ \A id \in VisibleIds(d) : At(full, id) # {} \/ At(rest, id) # {}
    BY CarriedSplit
  <1>2. /\ ret \in Seq(InputRow) /\ Accepts(ret) /\ ids \in SUBSET Ids
        /\ \A i \in DOMAIN ret : ret[i].id \in ids
    BY RetainedShape DEF Accepts
  <1>3. Merge(d) = d4
    BY DEF Merge
  <1>4. \A id \in ids : id \notin VisibleIds(d)
    BY RetainedIsInvisible DEF VisibleIds
  <1> HIDE DEF full, rest, ret, ids, c, n
  <1>5. /\ NewDelta \in DeltaType /\ Lineage(NewDelta)
        /\ NewestVisible(NewDelta) = [id \in Ids |-> Absent]
    BY NewDeltaLineage
  <1>6. /\ d1 \in DeltaType /\ Lineage(d1)
        /\ NewestVisible(d1) = Put(NewestVisible(NewDelta), full)
    BY <1>1, <1>5, InsertShape, InsertLineage, InsertIsPut DEF Lineage
  <1> HIDE DEF d1
  <1>7. /\ d2 \in DeltaType /\ Lineage(d2)
        /\ NewestVisible(d2) = Put(NewestVisible(d1), ret)
    BY <1>2, <1>6, InsertShape, InsertLineage, InsertIsPut DEF Lineage
  <1> HIDE DEF d2
  <1>8. /\ d3 \in DeltaType /\ Lineage(d3)
        /\ NewestVisible(d3) = Remove(NewestVisible(d2), ids)
    BY <1>2, <1>7, DeleteShape, DeleteLineage, DeleteIsRemove
  <1> HIDE DEF d3
  <1>9. /\ d4 \in DeltaType /\ Lineage(d4)
        /\ NewestVisible(d4) = Put(NewestVisible(d3), rest)
    BY <1>1, <1>8, InsertShape, InsertLineage, InsertIsPut DEF Lineage
  <1> HIDE DEF d4
  <1>10. ASSUME NEW id \in Ids
         PROVE  NewestVisible(d4)[id] = view[id]
    <2>1. CASE id \in VisibleIds(d)
      <3>1. id \notin ids
        BY <2>1, <1>4
      <3>2. At(ret, id) = {}
        BY <3>1, <1>2 DEF At
      <3>3. CASE At(rest, id) # {}
        <4>1. \A i \in At(rest, id) : rest[i].value = view[id]
          BY <1>1 DEF At
        <4> HIDE DEF view
        <4>2. rest \in Seq(InputRow)
          BY <1>1
        <4>3. Put(NewestVisible(d3), rest)[id] = view[id]
          BY <3>3, <4>1, <4>2, PutSame
        <4>4. QED
          BY <4>3, <1>9
      <3>4. CASE At(rest, id) = {}
        <4>1. At(full, id) # {}
          BY <2>1, <3>4, <1>1
        <4>2. \A i \in At(full, id) : full[i].value = view[id]
          BY <1>1 DEF At
        <4> HIDE DEF view
        <4>3. NewestVisible(d1)[id] = view[id]
          BY <4>1, <4>2, <1>1, <1>6, PutSame
        <4>4. NewestVisible(d2)[id] = view[id]
          BY <4>3, <3>2, <1>7, PutOther
        <4>5. NewestVisible(d3)[id] = view[id]
          BY <4>4, <3>1, <1>8 DEF Remove
        <4>6. QED
          BY <4>5, <3>4, <1>9, PutOther
      <3>5. QED BY <3>3, <3>4
    <2>2. CASE id \notin VisibleIds(d)
      <3>1. view[id] = Absent
        BY <2>2 DEF NewestVisible, VisibleIds
      <3>2. At(full, id) = {} /\ At(rest, id) = {}
        BY <2>2, <1>1 DEF At
      <3> HIDE DEF view
      <3>3. NewestVisible(d1)[id] = Absent
        BY <3>2, <1>5, <1>6, PutOther
      <3>4. NewestVisible(d3)[id] = Absent
        <4>1. CASE id \in ids
          BY <4>1, <1>8 DEF Remove
        <4>2. CASE id \notin ids
          <5>1. At(ret, id) = {}
            BY <4>2, <1>2 DEF At
          <5>2. NewestVisible(d2)[id] = Absent
            BY <5>1, <3>3, <1>7, PutOther
          <5>3. QED
            BY <5>2, <4>2, <1>8 DEF Remove
        <4>3. QED BY <4>1, <4>2
      <3>5. QED
        BY <3>1, <3>2, <3>4, <1>9, PutOther
    <2>3. QED BY <2>1, <2>2
  <1>11. NewestVisible(d4) = view
    BY <1>10 DEF NewestVisible
  <1>12. QED
    BY <1>3, <1>9, <1>11

-----------------------------------------------------------------------------
(* Which rows merge() keeps *)

\* merge() carries one row of each visible id.
LEMMA CarriedDistinct ==
    ASSUME NEW d \in DeltaType,
           NEW i \in 1..Len(Carried(d)), NEW j \in 1..Len(Carried(d)),
           Carried(d)[i].id = Carried(d)[j].id
    PROVE  i = j
  <1> DEFINE V == VisibleIds(d)
             ids == Ascending(V)
  <1>1. V \in SUBSET Nat /\ IsFiniteSet(V)
    BY IdsFinite DEF VisibleIds
  <1>2. Len(ids) = Cardinality(V) /\ Cardinality(V) \in Nat
    <2> HIDE DEF V
    <2> QED BY <1>1, AscendingLists
  <1>3. Carried(d) = [k \in 1..Len(ids) |-> VisibleRow(d, ids[k])]
    BY DEF Carried
  <1>4. Len(Carried(d)) = Len(ids)
    <2> HIDE DEF ids
    <2> QED BY <1>2, <1>3
  <1>5. \A k \in 1..Len(ids) : Carried(d)[k].id = ids[k]
    <2> HIDE DEF ids
    <2> QED BY <1>3 DEF VisibleRow
  <1>6. ids[i] = ids[j]
    <2> HIDE DEF ids
    <2> QED BY <1>4, <1>5
  <1>7. i \in 1..Cardinality(V) /\ j \in 1..Cardinality(V)
    BY <1>2, <1>4
  <1> HIDE DEF V
  <1>8. QED BY <1>1, <1>6, <1>7, AscendingDistinct

\* merge() retains one row of each id it hides again.
LEMMA RetainedLists ==
    ASSUME NEW d \in DeltaType
    PROVE  /\ \A i, j \in 1..Len(Retained(d)) :
                 Retained(d)[i].id = Retained(d)[j].id => i = j
           /\ \A id \in RetainedIds(d) :
                 \E i \in 1..Len(Retained(d)) : Retained(d)[i].id = id
  <1>1. CASE Purges(d)
    BY <1>1 DEF Retained, RetainedIds
  <1>2. CASE ~Purges(d)
    <2> DEFINE H == HiddenIds(d)
               ids == Ascending(H)
    <2>1. H \in SUBSET Nat /\ IsFiniteSet(H)
      BY IdsFinite DEF HiddenIds
    <2>2. /\ Len(ids) = Cardinality(H) /\ Cardinality(H) \in Nat
          /\ \A id \in H : \E i \in 1..Cardinality(H) : ids[i] = id
          /\ \A i, j \in 1..Cardinality(H) : ids[i] = ids[j] => i = j
      <3> HIDE DEF H
      <3> QED BY <2>1, AscendingLists, AscendingDistinct
    <2>3. /\ Retained(d) = [k \in 1..Len(ids) |-> HiddenRow(d, ids[k])]
          /\ RetainedIds(d) = H
      BY <1>2 DEF Retained, RetainedIds
    <2>4. Len(Retained(d)) = Len(ids)
      <3> HIDE DEF ids, H
      <3> QED BY <2>2, <2>3
    <2>5. \A k \in 1..Len(ids) : Retained(d)[k].id = ids[k]
      <3> HIDE DEF ids, H
      <3> QED BY <2>3 DEF HiddenRow
    <2> HIDE DEF ids, H
    <2>6. QED BY <2>2, <2>3, <2>4, <2>5
  <1>3. QED BY <1>1, <1>2

\* The ids of the rows of an Insert: the old ones, then those of the batch.
LEMMA InsertIds ==
    ASSUME NEW d \in DeltaType, Lineage(d),
           NEW batch \in Seq(InputRow), Accepts(batch)
    PROVE  /\ Insert(d, batch) \in DeltaType /\ Lineage(Insert(d, batch))
           /\ Len(Insert(d, batch).rows) = Len(d.rows) + Len(batch)
           /\ Insert(d, batch).tombstoned_ids = d.tombstoned_ids
           /\ \A i \in 1..Len(d.rows) : Insert(d, batch).rows[i] = d.rows[i]
           /\ \A i \in 1..Len(batch) :
                 Insert(d, batch).rows[Len(d.rows) + i].id = batch[i].id
  <1>1. ActiveIsPartial(d)
    BY DEF Lineage
  <1>2. ASSUME NEW i \in 1..Len(batch)
        PROVE  Insert(d, batch).rows[Len(d.rows) + i].id = batch[i].id
    <2>1. Insert(d, batch).rows[Len(d.rows) + i] =
             [id |-> batch[i].id, value |-> batch[i].value,
              generation |-> d.next_generation + i - 1]
      BY <1>1, InsertShape
    <2>2. QED BY <2>1
  <1>3. QED
    BY <1>1, <1>2, InsertShape, InsertLineage

\* The rows of a merge, in order: the full batches, the retained rows, the
\* rest; and the ids it leaves hidden are the retained ones.
LEMMA MergeRows ==
    ASSUME NEW d \in DeltaType, Lineage(d)
    PROVE  LET c == Carried(d)
               r == Retained(d)
               n == FullBatches(Len(c))
               rows == Merge(d).rows
           IN  /\ n \in 0..Len(c) /\ Len(c) \in Nat /\ Len(r) \in Nat
               /\ DOMAIN rows = 1..(Len(c) + Len(r))
               /\ \A i \in 1..n : rows[i].id = c[i].id
               /\ \A i \in 1..Len(r) : rows[n + i].id = r[i].id
               /\ \A i \in 1..(Len(c) - n) : rows[n + Len(r) + i].id = c[n + i].id
               /\ Merge(d).tombstoned_ids = RetainedIds(d)
  <1> DEFINE c == Carried(d)
             l == Len(c)
             n == FullBatches(l)
             full == SubSeq(c, 1, n)
             rest == SubSeq(c, n + 1, l)
             r == Retained(d)
             k == Len(r)
             ids == RetainedIds(d)
             d1 == Insert(NewDelta, full)
             d2 == Insert(d1, r)
             d3 == Delete(d2, ids)
             d4 == Insert(d3, rest)
  <1>1. /\ full \in Seq(InputRow) /\ Accepts(full)
        /\ rest \in Seq(InputRow) /\ Accepts(rest)
    BY CarriedSplit
  <1>2. /\ r \in Seq(InputRow) /\ Accepts(r) /\ ids \in SUBSET Ids /\ k \in Nat
        /\ \A i \in 1..k : r[i].id \in ids
        /\ \A id \in ids : \E i \in 1..k : r[i].id = id
    BY RetainedShape, RetainedLists DEF Accepts
  <1>3. c \in Seq(InputRow) /\ l \in Nat
    BY CarriedShape
  <1>4. n \in 0..l
    <2> HIDE DEF l
    <2> QED BY <1>3, FullBatchesBounded
  <1>5. Merge(d) = d4
    BY DEF Merge
  <1> HIDE DEF c, l, n, r, k, ids
  <1>6. /\ Len(full) = n /\ \A i \in 1..n : full[i] = c[i]
        /\ Len(rest) = l - n /\ \A i \in 1..(l - n) : rest[i] = c[n + i]
    <2>1. \A i \in 1..l : c[i] \in InputRow
      BY <1>3 DEF l
    <2>2. /\ Len(full) = IF 1 <= n THEN n - 1 + 1 ELSE 0
          /\ \A i \in 1..(n - 1 + 1) : full[i] = c[1 + i - 1]
      BY <1>3, <1>4, <2>1, SubSeqProperties
    <2>3. /\ Len(rest) = IF n + 1 <= l THEN l - (n + 1) + 1 ELSE 0
          /\ \A i \in 1..(l - (n + 1) + 1) : rest[i] = c[(n + 1) + i - 1]
      BY <1>3, <1>4, <2>1, SubSeqProperties
    <2> HIDE DEF full, rest
    <2>4. \A i \in 1..n : 1 + i - 1 = i /\ i \in 1..(n - 1 + 1)
      BY <1>3, <1>4
    <2>5. \A i \in 1..(l - n) : (n + 1) + i - 1 = n + i /\ i \in 1..(l - (n + 1) + 1)
      BY <1>3, <1>4
    <2>6. Len(full) = n /\ Len(rest) = l - n
      BY <1>3, <1>4, <2>2, <2>3
    <2>7. QED BY <2>2, <2>3, <2>4, <2>5, <2>6
  <1> HIDE DEF full, rest
  <1>7. /\ d1 \in DeltaType /\ Lineage(d1) /\ Len(d1.rows) = n
        /\ d1.tombstoned_ids = {}
        /\ \A i \in 1..n : d1.rows[i].id = c[i].id
    <2>1. /\ NewDelta \in DeltaType /\ Lineage(NewDelta)
          /\ Len(NewDelta.rows) = 0 /\ NewDelta.tombstoned_ids = {}
      BY NewDeltaLineage DEF NewDelta
    <2>2. /\ d1 \in DeltaType /\ Lineage(d1)
          /\ Len(d1.rows) = 0 + Len(full)
          /\ d1.tombstoned_ids = {}
          /\ \A i \in 1..Len(full) : d1.rows[0 + i].id = full[i].id
      <3>1. /\ d1 \in DeltaType /\ Lineage(d1)
            /\ Len(d1.rows) = Len(NewDelta.rows) + Len(full)
            /\ d1.tombstoned_ids = NewDelta.tombstoned_ids
            /\ \A i \in 1..Len(full) : d1.rows[Len(NewDelta.rows) + i].id = full[i].id
        BY ONLY <1>1, <2>1, InsertIds, Zenon
      <3>2. QED BY ONLY <2>1, <3>1, Zenon
    <2> HIDE DEF d1
    <2>3. \A i \in 1..n : 0 + i = i
      BY <1>3, <1>4
    <2>4. QED BY <1>3, <1>4, <1>6, <2>2, <2>3
  <1> HIDE DEF d1
  <1>8. /\ d2 \in DeltaType /\ Lineage(d2) /\ Len(d2.rows) = n + k
        /\ d2.tombstoned_ids = {}
        /\ \A i \in 1..n : d2.rows[i].id = c[i].id
        /\ \A i \in 1..k : d2.rows[n + i].id = r[i].id
    <2>1. /\ d2 \in DeltaType /\ Lineage(d2)
          /\ Len(d2.rows) = Len(d1.rows) + Len(r)
          /\ d2.tombstoned_ids = d1.tombstoned_ids
          /\ \A i \in 1..Len(d1.rows) : d2.rows[i] = d1.rows[i]
          /\ \A i \in 1..Len(r) : d2.rows[Len(d1.rows) + i].id = r[i].id
      BY <1>2, <1>7, InsertIds
    <2> HIDE DEF d2
    <2>2. QED BY <1>7, <2>1 DEF k
  <1> HIDE DEF d2
  <1>9. /\ d3 \in DeltaType /\ Lineage(d3) /\ d3.rows = d2.rows
        /\ d3.tombstoned_ids = ids
    <2>1. /\ d3 \in DeltaType /\ Lineage(d3) /\ d3.rows = d2.rows
          /\ d3.tombstoned_ids = {d2.rows[i].id : i \in Matches(d2, ids)}
      BY <1>2, <1>8, DeleteShape, DeleteLineage
    <2> HIDE DEF d3
    <2>2. ASSUME NEW id \in ids
          PROVE  \E i \in Matches(d2, ids) : d2.rows[i].id = id
      <3>1. PICK i \in 1..k : r[i].id = id
        BY <1>2
      <3>2. n + i \in DOMAIN d2.rows
        <4>1. DOMAIN d2.rows = 1..(n + k)
          BY <1>8, DeltaFields
        <4>2. QED BY <4>1, <1>2, <1>3, <1>4
      <3>3. d2.rows[n + i].id = id
        BY <1>8, <3>1
      <3>4. QED BY <3>2, <3>3 DEF Matches
    <2>3. \A i \in Matches(d2, ids) : d2.rows[i].id \in ids
      BY DEF Matches
    <2>4. QED BY <2>1, <2>2, <2>3
  <1> HIDE DEF d3
  <1>10. /\ d4 \in DeltaType /\ Len(d4.rows) = n + k + (l - n)
         /\ d4.tombstoned_ids = ids
         /\ \A i \in 1..(n + k) : d4.rows[i] = d2.rows[i]
         /\ \A i \in 1..(l - n) : d4.rows[n + k + i].id = c[n + i].id
    <2>1. /\ d4 \in DeltaType
          /\ Len(d4.rows) = Len(d3.rows) + Len(rest)
          /\ d4.tombstoned_ids = d3.tombstoned_ids
          /\ \A i \in 1..Len(d3.rows) : d4.rows[i] = d3.rows[i]
          /\ \A i \in 1..Len(rest) : d4.rows[Len(d3.rows) + i].id = rest[i].id
      BY <1>1, <1>9, InsertIds
    <2> HIDE DEF d4
    <2>2. Len(d3.rows) = n + k /\ Len(rest) = l - n
      BY <1>6, <1>8, <1>9
    <2>3. QED BY ONLY <1>6, <1>9, <2>1, <2>2
  <1> HIDE DEF d4
  <1>11. n + k + (l - n) = l + k
    BY <1>2, <1>3, <1>4
  <1>12. DOMAIN d4.rows = 1..(l + k)
    BY <1>10, <1>11, DeltaFields
  <1>13. \A i \in 1..n : d4.rows[i].id = c[i].id
    <2>1. \A i \in 1..n : i \in 1..(n + k)
      BY <1>2, <1>3, <1>4
    <2>2. QED BY <2>1, <1>8, <1>10
  <1>14. \A i \in 1..k : d4.rows[n + i].id = r[i].id
    <2>1. \A i \in 1..k : n + i \in 1..(n + k)
      BY <1>2, <1>3, <1>4
    <2>2. QED BY <2>1, <1>8, <1>10
  <1>15. QED
    BY <1>2, <1>3, <1>4, <1>5, <1>10, <1>12, <1>13, <1>14 DEF c, l, n, r, k, ids

\* merge() keeps one row of each visible id and of each id it retains, and no
\* other row.
LEMMA MergeKeeps ==
    ASSUME NEW d \in DeltaType, Lineage(d)
    PROVE  /\ \A i, j \in DOMAIN Merge(d).rows :
                 Merge(d).rows[i].id = Merge(d).rows[j].id => i = j
           /\ {Merge(d).rows[i].id : i \in DOMAIN Merge(d).rows}
                 = VisibleIds(d) \cup RetainedIds(d)
           /\ Merge(d).tombstoned_ids = RetainedIds(d)
  <1> DEFINE c == Carried(d)
             l == Len(c)
             n == FullBatches(l)
             r == Retained(d)
             k == Len(r)
             rows == Merge(d).rows
             V == VisibleIds(d)
             R == RetainedIds(d)
  <1>1. /\ n \in 0..l /\ l \in Nat /\ k \in Nat
        /\ DOMAIN rows = 1..(l + k)
        /\ \A i \in 1..n : rows[i].id = c[i].id
        /\ \A i \in 1..k : rows[n + i].id = r[i].id
        /\ \A i \in 1..(l - n) : rows[n + k + i].id = c[n + i].id
    BY MergeRows
  <1>2. /\ \A i \in 1..l : c[i].id \in V
        /\ \A i, j \in 1..l : c[i].id = c[j].id => i = j
        /\ \A id \in V : \E i \in 1..l : c[i].id = id
    BY CarriedShape, CarriedDistinct
  <1>3. /\ \A i \in 1..k : r[i].id \in R
        /\ \A i, j \in 1..k : r[i].id = r[j].id => i = j
        /\ \A id \in R : \E i \in 1..k : r[i].id = id
    BY RetainedShape, RetainedLists
  <1>4. \A id \in R : id \notin V
    BY RetainedIsInvisible DEF VisibleIds
  <1>5. Merge(d).tombstoned_ids = R
    BY MergeRows
  <1> HIDE DEF c, l, n, r, k, rows, V, R
  <1>6. ASSUME NEW i \in DOMAIN rows
        PROVE  \/ i <= n /\ i \in 1..l /\ rows[i].id = c[i].id
               \/ i > n /\ i <= n + k /\ i - n \in 1..k /\ rows[i].id = r[i - n].id
               \/ i > n + k /\ i - k \in 1..l /\ rows[i].id = c[i - k].id
    <2>1. CASE i <= n
      <3>1. i \in 1..n /\ i \in 1..l
        BY <1>1, <2>1
      <3>2. QED BY <1>1, <2>1, <3>1
    <2>2. CASE i > n /\ i <= n + k
      <3>1. i - n \in 1..k /\ n + (i - n) = i
        BY <1>1, <2>2
      <3>2. rows[n + (i - n)].id = r[i - n].id
        BY <1>1, <3>1
      <3>3. QED BY <2>2, <3>1, <3>2
    <2>3. CASE i > n + k
      <3>1. /\ i - n - k \in 1..(l - n)
            /\ n + k + (i - n - k) = i
            /\ n + (i - n - k) = i - k
            /\ i - k \in 1..l
        BY <1>1, <2>3
      <3>2. rows[n + k + (i - n - k)].id = c[n + (i - n - k)].id
        BY <1>1, <3>1
      <3>3. QED BY <2>3, <3>1, <3>2
    <2>4. QED BY <1>1, <2>1, <2>2, <2>3
  <1>7. ASSUME NEW i \in DOMAIN rows, NEW j \in DOMAIN rows,
               rows[i].id = rows[j].id
        PROVE  i = j
    <2> DEFINE carried(x) == x <= n \/ x > n + k
               at(x) == IF x <= n THEN x ELSE x - k
    <2>1. i \in Int /\ j \in Int /\ n \in Int /\ k \in Nat
      BY <1>1
    <2>2. ASSUME NEW x \in DOMAIN rows, carried(x)
          PROVE  at(x) \in 1..l /\ rows[x].id = c[at(x)].id
      <3>1. x \in Int
        BY <1>1
      <3>2. QED BY <1>6, <2>1, <2>2, <3>1
    <2>3. ASSUME NEW x \in DOMAIN rows, ~carried(x)
          PROVE  x - n \in 1..k /\ rows[x].id = r[x - n].id
      <3>1. x \in Int
        BY <1>1
      <3>2. QED BY <1>6, <2>1, <2>3, <3>1
    <2> HIDE DEF at, carried
    <2>4. \A x \in DOMAIN rows : rows[x].id \in V <=> carried(x)
      BY <1>2, <1>3, <1>4, <2>2, <2>3
    <2>5. CASE carried(i)
      <3>1. carried(j)
        BY <1>7, <2>4, <2>5
      <3>2. /\ at(i) \in 1..l /\ rows[i].id = c[at(i)].id
            /\ at(j) \in 1..l /\ rows[j].id = c[at(j)].id
        BY <2>2, <2>5, <3>1
      <3>3. at(i) = at(j)
        BY <1>2, <1>7, <3>2
      <3>4. QED BY <2>1, <2>5, <3>1, <3>3 DEF at, carried
    <2>6. CASE ~carried(i)
      <3>1. ~carried(j)
        BY <1>7, <2>4, <2>6
      <3>2. /\ i - n \in 1..k /\ rows[i].id = r[i - n].id
            /\ j - n \in 1..k /\ rows[j].id = r[j - n].id
        BY <2>3, <2>6, <3>1
      <3>3. i - n = j - n
        BY <1>3, <1>7, <3>2
      <3>4. QED BY <2>1, <3>3
    <2>7. QED BY <2>5, <2>6
  <1>8. \A i \in DOMAIN rows : rows[i].id \in V \cup R
    BY <1>2, <1>3, <1>6
  <1>9. ASSUME NEW id \in V
        PROVE  \E i \in DOMAIN rows : rows[i].id = id
    <2>1. PICK i \in 1..l : c[i].id = id
      BY <1>2
    <2>2. CASE i <= n
      <3>1. i \in 1..n /\ i \in DOMAIN rows
        BY <1>1, <2>2
      <3>2. QED BY <1>1, <2>1, <3>1
    <2>3. CASE i > n
      <3>1. /\ i - n \in 1..(l - n)
            /\ n + (i - n) = i
            /\ n + k + (i - n) \in DOMAIN rows
        BY <1>1, <2>3
      <3>2. rows[n + k + (i - n)].id = c[n + (i - n)].id
        BY <1>1, <3>1
      <3>3. QED BY <2>1, <3>1, <3>2
    <2>4. QED BY <1>1, <2>2, <2>3
  <1>10. ASSUME NEW id \in R
         PROVE  \E i \in DOMAIN rows : rows[i].id = id
    <2>1. PICK i \in 1..k : r[i].id = id
      BY <1>3
    <2>2. n + i \in DOMAIN rows
      BY <1>1
    <2>3. QED BY <1>1, <2>1, <2>2
  <1>11. {rows[i].id : i \in DOMAIN rows} = V \cup R
    BY <1>8, <1>9, <1>10
  <1>12. QED
    BY <1>5, <1>7, <1>11 DEF rows, V, R
=============================================================================
