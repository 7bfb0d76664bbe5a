----------------------------- MODULE Compaction -----------------------------
(***************************************************************************)
(* The pure half of compaction.rs: evaluate_trigger and merge, as          *)
(* operators on a Delta value.                                             *)
(*                                                                         *)
(* f64 ratios are exact fractions: change_fraction is ChangeNum/ChangeDen  *)
(* and TOMBSTONE_PURGE_RATIO is PurgeNum/PurgeDen.                         *)
(***************************************************************************)
EXTENDS Delta, Listing

CONSTANTS
    ChangeNum, ChangeDen,  \* config.change_fraction
    MinChangedRows,        \* config.min_changed_rows
    DeltaCountTrigger,     \* config.delta_count_trigger
    PurgeNum, PurgeDen,    \* TOMBSTONE_PURGE_RATIO
    MergeBatch             \* merge()'s batch_size (4096 in the code)

ASSUME CompactionAssumption ==
    /\ ChangeNum \in Nat /\ ChangeDen \in Nat \ {0}
    /\ MinChangedRows \in Nat /\ DeltaCountTrigger \in Nat
    /\ PurgeNum \in Nat /\ PurgeDen \in Nat \ {0}
    /\ MergeBatch \in Nat \ {0}

TriggerKind == {"Manual", "ChangeThreshold", "DeltaCount", "None"}

-----------------------------------------------------------------------------
(* evaluate_trigger *)

ChangedRows(d) ==
    d.sealed * TARGET_SEGMENT_ROWS + Cardinality(d.tombstoned_ids)

\* A bug a review must rule out: the fraction is rounded up.
ChangeLimitRoundedUp(d) ==
    Max({(Len(d.rows) * ChangeNum + ChangeDen - 1) \div ChangeDen, MinChangedRows})

ChangeLimit(d) ==
    Max({(Len(d.rows) * ChangeNum) \div ChangeDen, MinChangedRows})

EvaluateTrigger(d) ==
    IF ChangedRows(d) >= ChangeLimit(d) THEN "ChangeThreshold"
    ELSE IF d.sealed >= DeltaCountTrigger THEN "DeltaCount"
    ELSE "None"

-----------------------------------------------------------------------------
(* merge *)

\* The keys of latest_visible after the classification loop.
VisibleIds(d) == {id \in Ids : VisiblePositions(d, id) # {}}

\* A bug a review must rule out: a hidden row is remembered even when a newer
\* visible row of its id follows (the loop's `latest_hidden.remove` is lost).
AnyHiddenIds(d) ==
    {id \in Ids : \E i \in At(d.rows, id) :
                      IsRecordTombstoned(d, d.rows[i])}

\* The keys of latest_hidden: ids whose last row is hidden.
HiddenIds(d) ==
    {id \in Ids : /\ At(d.rows, id) # {}
                  /\ IsRecordTombstoned(d, d.rows[Max(At(d.rows, id))])}

\* A bug a review must rule out: the first visible version is kept.
OldestVisibleRow(d, id) ==
    [id |-> id, value |-> d.rows[Min(VisiblePositions(d, id))].value]

VisibleRow(d, id) ==
    [id |-> id, value |-> d.rows[Max(VisiblePositions(d, id))].value]

HiddenRow(d, id) ==
    [id |-> id, value |-> d.rows[Max(At(d.rows, id))].value]

DeadRows(d) ==
    Cardinality({i \in DOMAIN d.rows : IsRecordTombstoned(d, d.rows[i])})

\* ratio > TOMBSTONE_PURGE_RATIO; the ratio of an empty Delta is 0.
Purges(d) == DeadRows(d) * PurgeDen > Len(d.rows) * PurgeNum

\* How many ids leave in full batches, before the hidden rows are carried.
FullBatches(n) == (n \div MergeBatch) * MergeBatch

Carried(d) ==
    LET ids == Ascending(VisibleIds(d))
    IN  [i \in 1..Len(ids) |-> VisibleRow(d, ids[i])]

Retained(d) ==
    LET ids == Ascending(HiddenIds(d))
    IN  IF Purges(d) THEN <<>>
        ELSE [i \in 1..Len(ids) |-> HiddenRow(d, ids[i])]

RetainedIds(d) == IF Purges(d) THEN {} ELSE HiddenIds(d)

\* Sealing depends only on how many rows were inserted, so the inserts of
\* consecutive batches are one Insert of their concatenation: the full batches
\* of visible rows, the retained hidden rows and their re-deletion, and last
\* the partial batch of visible rows.
Merge(d) ==
    LET n == FullBatches(Len(Carried(d)))
        full == SubSeq(Carried(d), 1, n)
        rest == SubSeq(Carried(d), n + 1, Len(Carried(d)))
        hidden == Insert(Insert(NewDelta, full), Retained(d))
    IN  Insert(Delete(hidden, RetainedIds(d)), rest)

Report(d, trigger) ==
    [trigger |-> trigger,
     segments_before |-> d.sealed, segments_after |-> Merge(d).sealed,
     rows_before |-> Len(d.rows), rows_after |-> Len(Merge(d).rows),
     tombstones_purged |-> IF Purges(d) THEN DeadRows(d) ELSE 0,
     tombstones_retained |-> Cardinality(RetainedIds(d))]

ReportType ==
    [trigger : TriggerKind, segments_before : Nat, segments_after : Nat,
     rows_before : Nat, rows_after : Nat, tombstones_purged : Nat,
     tombstones_retained : Nat]
=============================================================================
