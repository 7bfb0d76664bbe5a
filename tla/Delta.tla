------------------------------- MODULE Delta --------------------------------
(***************************************************************************)
(* The Delta of one Table: the lineage of recently written rows, its       *)
(* Tombstones and its sealed chunks (crates/ferrite-db/src/write_path.rs). *)
(*                                                                         *)
(* records() is the only way the code walks a Delta, so the sealed chunks  *)
(* and the active chunk are one sequence `rows` in insertion order plus    *)
(* the number of sealed chunks, each cut at exactly TARGET_SEGMENT_ROWS.   *)
(* Generations are natural numbers: the u64 counter restarts at every      *)
(* merge and 2^64 inserts into one lineage do not fit in memory.           *)
(***************************************************************************)
EXTENDS Rows

CONSTANT TARGET_SEGMENT_ROWS  \* rows per sealed chunk (96 Ki in the code)

ASSUME DeltaAssumption == TARGET_SEGMENT_ROWS \in Nat \ {0}

Record == [id : Ids, value : Values, generation : Nat]

DeltaType ==
    [rows : Seq(Record), sealed : Nat, tombstones : SUBSET (Ids \X Nat),
     tombstoned_ids : SUBSET Ids, next_generation : Nat]

NewDelta ==
    [rows |-> <<>>, sealed |-> 0, tombstones |-> {},
     tombstoned_ids |-> {}, next_generation |-> 0]

-----------------------------------------------------------------------------
(* Reading a Delta *)

Key(record) == <<record.id, record.generation>>

IsRecordTombstoned(d, record) == Key(record) \in d.tombstones

ActiveRows(d) == Len(d.rows) - d.sealed * TARGET_SEGMENT_ROWS

\* The positions of id's rows that no Tombstone hides.
VisiblePositions(d, id) ==
    {i \in DOMAIN d.rows : /\ d.rows[i].id = id
                           /\ ~IsRecordTombstoned(d, d.rows[i])}

-----------------------------------------------------------------------------
(* Changing a Delta *)

\* A bug a review must rule out: every row of a batch gets one generation.
StampOnce(d, batch) ==
    [i \in 1..Len(batch) |->
        [id |-> batch[i].id, value |-> batch[i].value,
         generation |-> d.next_generation]]

\* The batch with its fresh, increasing generations.
Stamp(d, batch) ==
    [i \in 1..Len(batch) |->
        [id |-> batch[i].id, value |-> batch[i].value,
         generation |-> d.next_generation + i - 1]]

\* How many chunks the `while active.len() >= TARGET` loop seals.
NewlySealed(d, n) == (ActiveRows(d) + n) \div TARGET_SEGMENT_ROWS

Insert(d, batch) ==
    [d EXCEPT !.rows = @ \o Stamp(d, batch),
              !.sealed = @ + NewlySealed(d, Len(batch)),
              !.next_generation = @ + Len(batch)]

\* A bug a review must rule out: only the active chunk is searched for matches.
MatchesActive(d, ids) ==
    {i \in DOMAIN d.rows : /\ i > d.sealed * TARGET_SEGMENT_ROWS
                           /\ d.rows[i].id \in ids}

\* The rows a delete of `ids` matches; unknown ids match nothing.
Matches(d, ids) == {i \in DOMAIN d.rows : d.rows[i].id \in ids}

Delete(d, ids) ==
    [d EXCEPT !.tombstones = @ \cup {Key(d.rows[i]) : i \in Matches(d, ids)},
              !.tombstoned_ids = @ \cup {d.rows[i].id : i \in Matches(d, ids)}]

\* A bug a review must rule out: the old rows go before the batch is validated.
DeleteFirst(d, batch) ==
    LET hidden == Delete(d, {batch[i].id : i \in DOMAIN batch})
    IN  IF Accepts(batch) THEN Insert(hidden, batch) ELSE hidden

\* Delta::update validates the batch, deletes its ids and inserts it.
Update(d, batch) ==
    IF Accepts(batch)
    THEN Insert(Delete(d, {batch[i].id : i \in DOMAIN batch}), batch)
    ELSE d

-----------------------------------------------------------------------------
(* What a lineage promises *)

\* "Generations only ever increase within one Delta lineage."
GenerationsIncrease(d) ==
    /\ \A i, j \in DOMAIN d.rows :
          i < j => d.rows[i].generation < d.rows[j].generation
    /\ \A i \in DOMAIN d.rows : d.rows[i].generation < d.next_generation

\* The active chunk is always short of a full chunk.
ActiveIsPartial(d) == ActiveRows(d) \in 0..(TARGET_SEGMENT_ROWS - 1)

\* Every Tombstone hides a row of this lineage, and the id set agrees.
TombstonesOwned(d) ==
    /\ d.tombstones \subseteq {Key(d.rows[i]) : i \in DOMAIN d.rows}
    /\ d.tombstoned_ids = {key[1] : key \in d.tombstones}

\* A hidden row has no older visible version.  merge() relies on it: it drops
\* every hidden id's rows and re-deletes the id, which would take a visible
\* version of the same id along.
HiddenIsPrefix(d) ==
    \A i, j \in DOMAIN d.rows :
        /\ i < j
        /\ d.rows[i].id = d.rows[j].id
        /\ IsRecordTombstoned(d, d.rows[j])
        => IsRecordTombstoned(d, d.rows[i])

Lineage(d) ==
    /\ GenerationsIncrease(d)
    /\ ActiveIsPartial(d)
    /\ TombstonesOwned(d)
    /\ HiddenIsPrefix(d)

-----------------------------------------------------------------------------
(* The view a reader cares about: each id's newest visible payload. *)

NewestVisible(d) ==
    [id \in Ids |->
        IF VisiblePositions(d, id) = {}
        THEN Absent
        ELSE d.rows[Max(VisiblePositions(d, id))].value]
=============================================================================
