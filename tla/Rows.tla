-------------------------------- MODULE Rows --------------------------------
(***************************************************************************)
(* The vocabulary shared by the Delta and by the abstract Table: rows,     *)
(* batches, and what a batch or a delete does to a map from ids to         *)
(* payloads.  A vector and its metadata are one abstract payload; a row    *)
(* that validate_record rejects carries the payload Malformed.             *)
(***************************************************************************)
EXTENDS Integers, Sequences, FiniteSets, FiniteSetsExt

CONSTANTS
    Ids,        \* caller-supplied vector ids (u64)
    Values,     \* (vector, metadata) payloads that fit the Table
    Malformed,  \* a payload validate_record rejects
    Absent,     \* "no visible row", in a map from ids to payloads
    Batches,    \* the batches a caller may insert
    NoCall      \* "no write in progress"

ASSUME RowsAssumption ==
    /\ Ids \subseteq Nat
    /\ IsFiniteSet(Ids)
    /\ Absent \notin Values
    /\ Malformed \notin Values

InputRow == [id : Ids, value : Values \cup {Malformed}]

ASSUME BatchesAssumption == Batches \subseteq Seq(InputRow)

\* A bug a review must rule out: only the first row of a batch is validated.
AcceptsFirst(batch) == batch = <<>> \/ batch[1].value # Malformed

\* validate_record accepts every row of the batch.
Accepts(batch) == \A i \in DOMAIN batch : batch[i].value # Malformed

\* The positions of an id in a batch.
At(batch, id) == {i \in DOMAIN batch : batch[i].id = id}

\* The map after a batch: the last row of an id in the batch wins.
Put(map, batch) ==
    [id \in Ids |-> IF At(batch, id) = {} THEN map[id]
                    ELSE batch[Max(At(batch, id))].value]

Remove(map, ids) == [id \in Ids |-> IF id \in ids THEN Absent ELSE map[id]]

\* A write: the ids it removes, then the batch it puts.
InsertCall(batch) == [remove |-> {}, batch |-> batch]
DeleteCall(ids) == [remove |-> ids, batch |-> <<>>]

Request ==
    {InsertCall(batch) : batch \in {b \in Batches : Accepts(b)}}
        \cup {DeleteCall(ids) : ids \in SUBSET Ids}

ASSUME NoCallAssumption == NoCall \notin Request
=============================================================================
