---------------------------- MODULE SegmentStore ----------------------------
(***************************************************************************)
(* SegmentWriter and SegmentReader (crates/ferrite-db/src/storage.rs) over *)
(* a directory that forgets what was not forced to storage.                *)
(*                                                                         *)
(* A file is its header and its body.  The body is one unit per row, Torn  *)
(* for the fragment a failed write leaves, and one unit for the bitmap.    *)
(* The header is what the code puts there: the row count and the checksum, *)
(* here the checksummed rows themselves.  Rows are counted from one.       *)
(***************************************************************************)
EXTENDS Integers, Sequences, FiniteSets

CONSTANTS
    Ids,       \* Segment ids
    Vectors,   \* abstract vectors
    MaxRows,   \* bound: units the rows of one file may take
    Careful,   \* BOOLEAN: callers drop a writer whose append failed, append
               \* before they tombstone, and never reuse a committed id
    Torn, NoFile, NoWriter, NoHeader, Garbage, NoSegment

VARIABLES
    tmp,        \* <id>.fseg.tmp
    final,      \* <id>.fseg
    writer,     \* the live SegmentWriter of an id
    unsynced,   \* ids whose tmp holds bytes that may not be on storage
    unsettled,  \* ids whose directory entry was made since the last crash:
                \* nobody syncs the directory
    committed   \* history: what commit() acknowledged, per id

vars == <<tmp, final, writer, unsynced, unsettled, committed>>

-----------------------------------------------------------------------------
(* Files *)

Rows == UNION {[1..n -> Vectors] : n \in 0..MaxRows}

Bitmap(bits) == [bitmap |-> bits]

Unit == Vectors \cup {Torn} \cup [bitmap : SUBSET (1..MaxRows)]

Header == [row_count : 0..MaxRows, payload : Rows]

File == [header : Header \cup {NoHeader}, body : Seq(Unit)]

\* validate_header and open: structure, length and payload checksum.
Opens(file) ==
    /\ file \notin {NoFile, Garbage}
    /\ file.header # NoHeader
    /\ LET n == file.header.row_count
       IN  /\ Len(file.body) = n + (IF n = 0 THEN 0 ELSE 1)
           /\ SubSeq(file.body, 1, n) = file.header.payload

\* The Segment open returns; a file it rejects as CorruptSegment is Garbage.
Read(file) ==
    IF file = NoFile THEN NoSegment
    ELSE IF ~Opens(file) THEN Garbage
    ELSE LET n == file.header.row_count
         IN  [rows |-> SubSeq(file.body, 1, n),
              dead |-> IF n = 0 THEN {} ELSE file.body[n + 1].bitmap]

Segment == [rows : Rows, dead : SUBSET (1..MaxRows)]

-----------------------------------------------------------------------------
(* Writers *)

\* create: `hidden` is a history variable, the Tombstones acknowledged.
NewWriter ==
    [payload |-> <<>>, tombstones |-> {}, hidden |-> {},
     step |-> "open", failed |-> FALSE]

Steps == {"open", "bitmap", "header", "synced"}

Writer == [payload : Rows, tombstones : SUBSET (1..MaxRows),
           hidden : SUBSET (1..MaxRows), step : Steps, failed : BOOLEAN]

ASSUME SegmentAssumption ==
    /\ MaxRows \in Nat
    /\ Careful \in BOOLEAN
    /\ Torn \notin Vectors
    /\ NoFile \notin File /\ Garbage \notin File /\ NoFile # Garbage
    /\ NoHeader \notin Header
    /\ NoWriter \notin Writer
    /\ NoSegment \notin Segment

\* A writer has a file of its own, and hides no row it has not written.
TypeOK ==
    /\ tmp \in [Ids -> File \cup {NoFile, Garbage}]
    /\ final \in [Ids -> File \cup {NoFile, Garbage}]
    /\ writer \in [Ids -> Writer \cup {NoWriter}]
    /\ \A id \in Ids : writer[id] # NoWriter =>
          /\ tmp[id] \in File
          /\ writer[id].tombstones \subseteq DOMAIN writer[id].payload
    /\ unsynced \subseteq Ids /\ unsettled \subseteq Ids
    /\ committed \in [Ids -> Segment \cup {NoSegment}]

Init ==
    /\ tmp = [id \in Ids |-> NoFile]
    /\ final = [id \in Ids |-> NoFile]
    /\ writer = [id \in Ids |-> NoWriter]
    /\ unsynced = {}
    /\ unsettled = {}
    /\ committed = [id \in Ids |-> NoSegment]

\* SegmentWriter::create: create_new fails while a tmp of this id exists.
\* If the placeholder header cannot be written, the tmp stays and no writer is
\* returned.
Create(id) ==
    /\ tmp[id] = NoFile
    /\ Careful => committed[id] = NoSegment
    /\ \/ /\ tmp' = [tmp EXCEPT ![id] = [header |-> NoHeader, body |-> <<>>]]
          /\ writer' = [writer EXCEPT ![id] = NewWriter]
       \/ /\ tmp' = [tmp EXCEPT ![id] = Garbage]
          /\ UNCHANGED writer
    /\ unsynced' = unsynced \cup {id}
    /\ unsettled' = IF final[id] = NoFile THEN unsettled \cup {id} ELSE unsettled
    /\ UNCHANGED <<final, committed>>

Open(id) == writer[id] # NoWriter /\ writer[id].step = "open"

Body(id, units) == [tmp EXCEPT ![id].body = @ \o units]

\* append_vectors: the new rows get a fresh, empty bitmap.
AppendVectors(id, vectors) ==
    /\ Open(id)
    /\ Careful => ~writer[id].failed /\ writer[id].tombstones = {}
    /\ Len(tmp[id].body) + Len(vectors) <= MaxRows
    /\ tmp' = Body(id, vectors)
    /\ writer' = [writer EXCEPT ![id].payload = @ \o vectors,
                                ![id].tombstones = {}]
    /\ UNCHANGED <<final, unsynced, unsettled, committed>>

\* append_vectors when write_all fails after `n` whole rows and perhaps a
\* fragment of the next: `?` leaves before the row count moves.
AppendVectorsFails(id, vectors, n) ==
    /\ Open(id)
    /\ Careful => ~writer[id].failed /\ writer[id].tombstones = {}
    /\ Len(tmp[id].body) + n + 1 <= MaxRows
    /\ \E fragment \in {<<>>, <<Torn>>} :
          tmp' = Body(id, SubSeq(vectors, 1, n) \o fragment)
    /\ writer' = [writer EXCEPT ![id].failed = TRUE]
    /\ UNCHANGED <<final, unsynced, unsettled, committed>>

\* A bug a review must rule out: the row is not checked against the rows
\* written so far.
TombstoneAnyRow(id, row) ==
    /\ Open(id)
    /\ writer' = [writer EXCEPT ![id].tombstones = @ \cup {row},
                                ![id].hidden = @ \cup {row}]
    /\ UNCHANGED <<tmp, final, unsynced, unsettled, committed>>

\* tombstone: a row beyond the written rows is refused.
Tombstone(id, row) ==
    /\ Open(id)
    /\ row \in DOMAIN writer[id].payload
    /\ writer' = [writer EXCEPT ![id].tombstones = @ \cup {row},
                                ![id].hidden = @ \cup {row}]
    /\ UNCHANGED <<tmp, final, unsynced, unsettled, committed>>

-----------------------------------------------------------------------------
(* commit, step by step *)

Step(id, from, to) ==
    /\ writer[id] # NoWriter
    /\ writer[id].step = from
    /\ writer' = [writer EXCEPT ![id].step = to]

\* The bitmap goes after the rows; no rows, no bitmap bytes.
WriteBitmap(id) ==
    /\ Careful => writer[id] # NoWriter /\ ~writer[id].failed
    /\ Step(id, "open", "bitmap")
    /\ tmp' = Body(id, IF writer[id].payload = <<>> THEN <<>>
                       ELSE <<Bitmap(writer[id].tombstones)>>)
    /\ UNCHANGED <<final, unsynced, unsettled, committed>>

\* The real header replaces the placeholder.
WriteHeader(id) ==
    /\ Step(id, "bitmap", "header")
    /\ tmp' = [tmp EXCEPT ![id].header =
                 [row_count |-> Len(writer[id].payload),
                  payload |-> writer[id].payload]]
    /\ UNCHANGED <<final, unsynced, unsettled, committed>>

\* A bug a review must rule out: the file is unsettled without being forced.
SkipSync(id) ==
    /\ Step(id, "header", "synced")
    /\ UNCHANGED <<tmp, final, unsynced, unsettled, committed>>

\* sync_all.
Sync(id) ==
    /\ Step(id, "header", "synced")
    /\ unsynced' = unsynced \ {id}
    /\ UNCHANGED <<tmp, final, unsettled, committed>>

\* rename, and commit returns Ok.
Rename(id) ==
    /\ writer[id] # NoWriter
    /\ writer[id].step = "synced"
    /\ final' = [final EXCEPT ![id] = tmp[id]]
    /\ tmp' = [tmp EXCEPT ![id] = NoFile]
    /\ writer' = [writer EXCEPT ![id] = NoWriter]
    /\ committed' = [committed EXCEPT ![id] =
                       [rows |-> writer[id].payload, dead |-> writer[id].hidden]]
    /\ UNCHANGED <<unsynced, unsettled>>

\* The writer is dropped, or a step of commit fails and consumes it: the tmp
\* stays behind and keeps blocking the id.
Drop(id) ==
    /\ writer[id] # NoWriter
    /\ writer' = [writer EXCEPT ![id] = NoWriter]
    /\ UNCHANGED <<tmp, final, unsynced, unsettled, committed>>

-----------------------------------------------------------------------------
(* The machine stops: writers vanish, unforced bytes may be lost, and an id  *)
(* that is new to the directory may be found without its rename or not at    *)
(* all.  (A rename onto an existing file is taken to survive.)               *)
Crash ==
    \E gone, undone \in SUBSET unsettled, lost \in SUBSET unsynced :
        LET Stored(id, file) == IF id \in lost /\ file # NoFile THEN Garbage ELSE file
            Unrenamed(id) == id \in undone /\ tmp[id] = NoFile
        IN  /\ tmp' = [id \in Ids |->
                         IF id \in gone THEN NoFile
                         ELSE Stored(id, IF Unrenamed(id) THEN final[id] ELSE tmp[id])]
            /\ final' = [id \in Ids |->
                           IF id \in gone \/ Unrenamed(id) THEN NoFile
                           ELSE IF tmp[id] = NoFile THEN Stored(id, final[id])
                           ELSE final[id]]
            /\ writer' = [id \in Ids |-> NoWriter]
            /\ unsynced' = {}
            /\ unsettled' = {}
            /\ UNCHANGED committed

\* Bound: a call appends one or two vectors (appending none changes nothing).
Appends == [1..1 -> Vectors] \cup [1..2 -> Vectors]

Write(id) ==
    \/ Create(id)
    \/ \E vectors \in Appends : AppendVectors(id, vectors)
    \/ \E vectors \in Appends : \E n \in 0..(Len(vectors) - 1) :
          AppendVectorsFails(id, vectors, n)
    \/ \E row \in 1..MaxRows : Tombstone(id, row)
    \/ WriteBitmap(id)
    \/ WriteHeader(id)
    \/ Sync(id)
    \/ Rename(id)
    \/ Drop(id)

Next == (\E id \in Ids : Write(id)) \/ Crash

Spec == Init /\ [][Next]_vars

-----------------------------------------------------------------------------
(* Properties *)

\* A Segment file is absent, or it opens and holds exactly the rows and the
\* Tombstones whose calls returned Ok before commit did: crashes, failed
\* writes and dropped writers never leave part of a Segment at a final path.
CommittedOrAbsent ==
    \A id \in Ids : final[id] # NoFile => Read(final[id]) = committed[id]

Catalog == INSTANCE SegmentCatalog WITH catalog <- [id \in Ids |-> Read(final[id])]

\* What a reader can open appears in one step and never changes afterwards.
ImplementsCatalog == Catalog!Spec
=============================================================================
