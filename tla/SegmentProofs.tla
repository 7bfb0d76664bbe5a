---------------------------- MODULE SegmentProofs ----------------------------
(***************************************************************************)
(* For any set of ids, vectors and any bound: every file and every writer  *)
(* keeps its type whatever its callers do, and when they are careful a     *)
(* Segment file is absent or whole, also after crashes.                    *)
(*                                                                         *)
(* The invariant follows one writer through commit: the rows of an open    *)
(* writer are the body of its tmp, then the bitmap follows them, then the  *)
(* header describes them, and only a forced file is renamed.               *)
(***************************************************************************)
EXTENDS SegmentStore, SequenceTheorems, TLAPS

-----------------------------------------------------------------------------
(* Rows and files *)

\* The rows of a Segment are a short sequence of vectors.
LEMMA RowsAreSequences ==
    /\ \A rows \in Rows : /\ rows \in Seq(Vectors)
                          /\ Len(rows) \in 0..MaxRows
                          /\ DOMAIN rows = 1..Len(rows)
    /\ \A rows \in Seq(Vectors) : Len(rows) <= MaxRows => rows \in Rows
<1>1. ASSUME NEW rows \in Rows
      PROVE  /\ rows \in Seq(Vectors)
             /\ Len(rows) \in 0..MaxRows
             /\ DOMAIN rows = 1..Len(rows)
  <2>1. PICK n \in 0..MaxRows : rows \in [1..n -> Vectors]
    BY DEF Rows
  <2>2. n \in Nat
    BY <2>1
  <2>3. QED  BY <2>1, <2>2
<1>2. ASSUME NEW rows \in Seq(Vectors), Len(rows) <= MaxRows
      PROVE  rows \in Rows
  <2>1. Len(rows) \in 0..MaxRows /\ rows \in [1..Len(rows) -> Vectors]
    BY <1>2, SegmentAssumption
  <2>2. QED  BY <2>1 DEF Rows
<1>. QED  BY <1>1, <1>2

\* A concatenation holds its two parts.
LEMMA ConcatParts ==
    ASSUME NEW S, NEW s \in Seq(S), NEW t \in Seq(S)
    PROVE  /\ s \o t \in Seq(S)
           /\ Len(s \o t) = Len(s) + Len(t)
           /\ \A i \in 1..Len(s) : (s \o t)[i] = s[i]
           /\ \A i \in 1..Len(t) : (s \o t)[Len(s) + i] = t[i]
<1>1. Len(s) \in Nat /\ Len(t) \in Nat
  OBVIOUS
<1>2. /\ s \o t \in Seq(S)
      /\ Len(s \o t) = Len(s) + Len(t)
      /\ \A i \in 1..(Len(s) + Len(t)) :
            (s \o t)[i] = IF i <= Len(s) THEN s[i] ELSE t[i - Len(s)]
  BY ConcatProperties
<1>3. ASSUME NEW i \in 1..Len(s)
      PROVE  (s \o t)[i] = s[i]
  <2>1. i \in 1..(Len(s) + Len(t)) /\ i <= Len(s)
    BY <1>1
  <2>2. QED  BY <1>2, <2>1
<1>4. ASSUME NEW i \in 1..Len(t)
      PROVE  (s \o t)[Len(s) + i] = t[i]
  <2>1. /\ Len(s) + i \in 1..(Len(s) + Len(t))
        /\ ~(Len(s) + i <= Len(s))
        /\ Len(s) + i - Len(s) = i
    BY <1>1
  <2>2. QED  BY <1>2, <2>1
<1>. QED  BY <1>2, <1>3, <1>4

\* The bitmap unit that follows the rows, if there are rows.
Bits(rows, dead) == IF rows = <<>> THEN <<>> ELSE <<Bitmap(dead)>>

WholeFile(rows, dead) ==
    [header |-> [row_count |-> Len(rows), payload |-> rows],
     body |-> rows \o Bits(rows, dead)]

\* A whole file opens and holds what was written.
LEMMA WholeFileReadsBack ==
    ASSUME NEW rows \in Rows, NEW dead \in SUBSET (DOMAIN rows),
           WholeFile(rows, dead) \in File
    PROVE  /\ Read(WholeFile(rows, dead)) = [rows |-> rows, dead |-> dead]
           /\ [rows |-> rows, dead |-> dead] \in Segment
<1> DEFINE file == WholeFile(rows, dead)
           n == Len(rows)
           bits == Bits(rows, dead)
<1>1. rows \in Seq(Vectors) /\ n \in 0..MaxRows /\ DOMAIN rows = 1..n /\ n \in Nat
  BY RowsAreSequences, SegmentAssumption
<1>2. file.header = [row_count |-> n, payload |-> rows] /\ file.body = rows \o bits
  BY DEF WholeFile
<1>3. file \notin {NoFile, Garbage}
  BY SegmentAssumption
<1>4. file.header # NoHeader
  BY <1>1, <1>2, SegmentAssumption DEF Header
<1>5. n = 0 <=> rows = <<>>
  BY <1>1
<1> DEFINE U == Vectors \cup {Bitmap(dead)}
<1>6. rows \in Seq(U) /\ bits \in Seq(U) /\ Len(bits) = IF n = 0 THEN 0 ELSE 1
  <2>1. rows \in Seq(U)
    BY <1>1
  <2>2. CASE rows = <<>>
    BY <2>1, <2>2, <1>5 DEF Bits
  <2>3. CASE rows # <<>>
    <3>1. bits = <<Bitmap(dead)>>
      BY <2>3 DEF Bits
    <3>2. bits \in Seq(U) /\ Len(bits) = 1
      BY <3>1
    <3>3. QED  BY <2>1, <2>3, <1>5, <3>2
  <2>4. QED  BY <2>2, <2>3
<1> HIDE DEF bits, U
<1>7. /\ Len(file.body) = n + Len(bits)
      /\ \A i \in 1..n : file.body[i] = rows[i]
      /\ \A i \in 1..Len(bits) : file.body[n + i] = bits[i]
      /\ file.body \in Seq(U)
  <2>1. rows \in Seq(U) /\ bits \in Seq(U)
    BY <1>6
  <2>2. /\ rows \o bits \in Seq(U)
        /\ Len(rows \o bits) = Len(rows) + Len(bits)
        /\ \A i \in 1..Len(rows) : (rows \o bits)[i] = rows[i]
        /\ \A i \in 1..Len(bits) : (rows \o bits)[Len(rows) + i] = bits[i]
    BY <2>1, ConcatParts
  <2>3. QED  BY <1>2, <2>2
<1>8. SubSeq(file.body, 1, n) = rows
  <2> DEFINE body == file.body
  <2>1. /\ body \in Seq(U) /\ n <= Len(body) /\ Len(body) \in Nat
        /\ \A i \in 1..n : body[i] = rows[i]
    BY <1>1, <1>6, <1>7
  <2> HIDE DEF body, n
  <2>2. \A i \in 1..n : body[i] \in U
    BY <1>1, <2>1
  <2>3. /\ SubSeq(body, 1, n) \in Seq(U)
        /\ Len(SubSeq(body, 1, n)) = n
        /\ \A i \in 1..n : SubSeq(body, 1, n)[i] = body[i]
    BY <1>1, <2>1, <2>2, SubSeqProperties
  <2>4. rows \in Seq(U) /\ Len(rows) = n
    BY <1>6 DEF n
  <2>5. QED  BY <1>1, <2>1, <2>3, <2>4, SeqEqual DEF body
<1>9. Opens(file)
  BY <1>2, <1>3, <1>4, <1>6, <1>7, <1>8 DEF Opens
<1>10. n # 0 => file.body[n + 1] = Bitmap(dead)
  <2>1. ASSUME n # 0
        PROVE  file.body[n + 1] = Bitmap(dead)
    <3>1. bits = <<Bitmap(dead)>> /\ 1 \in 1..Len(bits)
      BY <2>1, <1>5, <1>6 DEF bits, Bits
    <3>2. QED  BY <3>1, <1>7
  <2>2. QED  BY <2>1
<1>11. n = 0 => dead = {}
  BY <1>1
<1> HIDE DEF file, n
<1>12. Read(file) = [rows |-> rows, dead |-> dead]
  <2>1. file.header.row_count = n
    BY <1>2
  <2>2. Read(file) = [rows |-> SubSeq(file.body, 1, n),
                      dead |-> IF n = 0 THEN {} ELSE file.body[n + 1].bitmap]
    BY <1>3, <1>9, <2>1 DEF Read
  <2>3. (IF n = 0 THEN {} ELSE file.body[n + 1].bitmap) = dead
    BY <1>10, <1>11 DEF Bitmap
  <2>4. QED  BY <1>8, <2>2, <2>3
<1>13. dead \in SUBSET (1..MaxRows)
  BY <1>1, SegmentAssumption
<1>14. QED  BY <1>12, <1>13 DEF Segment, file

\* Writing to a file extends its body.
LEMMA Extends ==
    ASSUME NEW f \in File, NEW units \in Seq(Unit)
    PROVE  LET g == [f EXCEPT !.body = @ \o units]
           IN  /\ g \in File
               /\ g.header = f.header
               /\ g.body = f.body \o units
               /\ Len(g.body) = Len(f.body) + Len(units)
<1>1. f.body \in Seq(Unit) /\ f.header \in Header \cup {NoHeader}
  BY DEF File
<1>2. f.body \o units \in Seq(Unit) /\ Len(f.body \o units) = Len(f.body) + Len(units)
  BY <1>1, ConcatParts
<1> DEFINE body == f.body \o units
           g == [f EXCEPT !.body = body]
<1> HIDE DEF body
<1>3. /\ g \in File /\ g.header = f.header /\ g.body = body
  BY <1>1, <1>2 DEF File, body
<1>4. QED  BY <1>2, <1>3 DEF body

\* What a caller appends fits in a body and in the rows.
LEMMA AppendsAreUnits ==
    \A vectors \in Appends :
        /\ vectors \in Seq(Vectors) /\ vectors \in Seq(Unit)
        /\ Len(vectors) \in 1..2
<1>. SUFFICES ASSUME NEW vectors \in Appends
              PROVE  /\ vectors \in Seq(Vectors) /\ Len(vectors) \in 1..2
                     /\ vectors \in Seq(Unit)
  OBVIOUS
<1>1. PICK n \in 1..2 : vectors \in [1..n -> Vectors]
  BY DEF Appends
<1>2. n \in Nat /\ vectors \in Seq(Vectors) /\ Len(vectors) = n
  BY <1>1
<1>3. \A i \in 1..n : vectors[i] \in Unit
  BY <1>1 DEF Unit
<1>4. vectors \in [1..n -> Unit]
  BY <1>1, <1>3
<1>5. vectors \in Seq(Unit)
  BY <1>2, <1>4
<1>. QED  BY <1>2, <1>5

-----------------------------------------------------------------------------
(* Types, for every caller *)

\* While a writer is open its file holds at least its rows, so that they
\* respect the bound.
Fits(file, w) ==
    w # NoWriter =>
        /\ file \in File
        /\ w.tombstones \subseteq DOMAIN w.payload
        /\ w.step = "open" => Len(w.payload) <= Len(file.body)

TypeInv == TypeOK /\ \A id \in Ids : Fits(tmp[id], writer[id])

\* A step that gives one id a new tmp and a new writer.
LEMMA OneIdTyped ==
    ASSUME TypeInv, NEW id \in Ids,
           NEW f \in File \cup {NoFile, Garbage}, NEW w \in Writer \cup {NoWriter},
           tmp' = [tmp EXCEPT ![id] = f], writer' = [writer EXCEPT ![id] = w],
           Fits(f, w),
           final' \in [Ids -> File \cup {NoFile, Garbage}],
           committed' \in [Ids -> Segment \cup {NoSegment}],
           unsynced' \subseteq Ids, unsettled' \subseteq Ids
    PROVE  TypeInv'
<1>1. /\ tmp' \in [Ids -> File \cup {NoFile, Garbage}]
      /\ writer' \in [Ids -> Writer \cup {NoWriter}]
  BY DEF TypeInv, TypeOK
<1>2. ASSUME NEW o \in Ids PROVE Fits(tmp'[o], writer'[o])
  <2>1. CASE o = id
    BY <2>1 DEF TypeInv, TypeOK
  <2>2. CASE o # id
    BY <2>2 DEF TypeInv, TypeOK
  <2>3. QED  BY <2>1, <2>2
<1>3. TypeOK'
  BY <1>1, <1>2 DEF TypeOK, Fits
<1>4. QED  BY <1>2, <1>3 DEF TypeInv

LEMMA InitTypeInv == Init => TypeInv
<1>. SUFFICES ASSUME Init PROVE TypeInv
  OBVIOUS
<1>1. \A id \in Ids : tmp[id] = NoFile /\ writer[id] = NoWriter /\ final[id] = NoFile
  BY DEF Init
<1>2. TypeOK
  BY <1>1 DEF Init, TypeOK
<1>. QED  BY <1>1, <1>2 DEF TypeInv, Fits

\* The steps of a writer keep the types.
LEMMA WriteKeepsTypes ==
    ASSUME TypeInv, NEW id \in Ids, Write(id)
    PROVE  TypeInv'
<1> DEFINE f == tmp[id]
           w == writer[id]
<1>1. /\ tmp \in [Ids -> File \cup {NoFile, Garbage}]
      /\ final \in [Ids -> File \cup {NoFile, Garbage}]
      /\ writer \in [Ids -> Writer \cup {NoWriter}]
      /\ committed \in [Ids -> Segment \cup {NoSegment}]
      /\ unsynced \subseteq Ids /\ unsettled \subseteq Ids
      /\ Fits(f, w)
  BY DEF TypeInv, TypeOK
<1>2. ASSUME w # NoWriter
      PROVE  /\ w \in Writer /\ f \in File
             /\ w.payload \in Rows /\ w.tombstones \in SUBSET (1..MaxRows)
             /\ w.hidden \in SUBSET (1..MaxRows) /\ w.step \in Steps
             /\ w.failed \in BOOLEAN /\ w.tombstones \subseteq DOMAIN w.payload
             /\ f.body \in Seq(Unit) /\ Len(f.body) \in Nat
             /\ w.payload \in Seq(Vectors) /\ Len(w.payload) \in Nat
             /\ w.step = "open" => Len(w.payload) <= Len(f.body)
  <2>1. w \in Writer /\ f \in File
    BY <1>1, <1>2 DEF Fits
  <2>2. f.body \in Seq(Unit)
    BY <2>1 DEF File
  <2>3. w.payload \in Rows
    BY <2>1 DEF Writer
  <2>4. w.payload \in Seq(Vectors) /\ Len(w.payload) \in Nat
    BY <2>3, RowsAreSequences, SegmentAssumption
  <2>. QED  BY <1>1, <1>2, <2>1, <2>2, <2>3, <2>4 DEF Writer, Fits
<1>3. CASE Create(id)
  <2>1. /\ final' = final /\ committed' = committed
        /\ unsynced' \subseteq Ids /\ unsettled' \subseteq Ids
    BY <1>1, <1>3 DEF Create
  <2>2. CASE tmp' = [tmp EXCEPT ![id] = Garbage] /\ writer' = writer
    <3>1. w = NoWriter
      BY <1>2, <1>3, SegmentAssumption DEF Create
    <3>2. writer' = [writer EXCEPT ![id] = w] /\ w \in Writer \cup {NoWriter}
      BY <1>1, <2>2
    <3>3. Fits(Garbage, w)
      BY <3>1 DEF Fits
    <3> HIDE DEF f, w
    <3>. QED  BY <1>1, <2>1, <2>2, <3>2, <3>3, OneIdTyped
  <2>3. CASE /\ tmp' = [tmp EXCEPT ![id] = [header |-> NoHeader, body |-> <<>>]]
             /\ writer' = [writer EXCEPT ![id] = NewWriter]
    <3> DEFINE new == [header |-> NoHeader, body |-> <<>>]
    <3>1. new \in File
      BY DEF File
    <3>2. <<>> \in Rows
      <4>1. <<>> \in Seq(Vectors) /\ Len(<<>>) = 0 /\ 0 <= MaxRows
        BY SegmentAssumption
      <4>2. QED  BY <4>1, RowsAreSequences
    <3>3. NewWriter \in Writer
      BY <3>2 DEF NewWriter, Writer, Steps
    <3>4. Fits(new, NewWriter)
      <4>1. NewWriter.tombstones = {} /\ NewWriter.payload = <<>>
        BY DEF NewWriter
      <4>2. new.body = <<>> /\ Len(<<>>) <= Len(<<>>)
        OBVIOUS
      <4>. QED  BY <3>1, <4>1, <4>2 DEF Fits
    <3>5. tmp' = [tmp EXCEPT ![id] = new] /\ writer' = [writer EXCEPT ![id] = NewWriter]
      BY <2>3
    <3> HIDE DEF new
    <3>. QED  BY <1>1, <2>1, <3>1, <3>3, <3>4, <3>5, OneIdTyped
  <2>4. QED  BY <1>3, <2>2, <2>3 DEF Create
<1>4. ASSUME NEW vectors \in Appends, AppendVectors(id, vectors)
      PROVE  TypeInv'
  <2> DEFINE g == [f EXCEPT !.body = @ \o vectors]
             rows == w.payload \o vectors
             v == [w EXCEPT !.payload = rows, !.tombstones = {}]
  <2>1. w # NoWriter /\ w.step = "open"
    BY <1>4 DEF AppendVectors, Open
  <2>2. /\ g \in File /\ Len(g.body) = Len(f.body) + Len(vectors)
    BY <1>2, <2>1, AppendsAreUnits, Extends
  <2>3. rows \in Seq(Vectors) /\ Len(rows) = Len(w.payload) + Len(vectors)
    BY <1>2, <2>1, AppendsAreUnits, ConcatParts
  <2>4. Len(f.body) + Len(vectors) <= MaxRows
    BY <1>4 DEF AppendVectors
  <2>5. Len(vectors) \in Nat
    BY AppendsAreUnits
  <2>6. Len(rows) <= Len(g.body) /\ Len(rows) <= MaxRows
    <3> HIDE DEF g, rows, f, w
    <3> QED  BY <1>2, <2>1, <2>2, <2>3, <2>4, <2>5, SegmentAssumption
  <2>7. rows \in Rows
    BY <2>3, <2>6, RowsAreSequences
  <2>8. tmp' = [tmp EXCEPT ![id] = g] /\ writer' = [writer EXCEPT ![id] = v]
    BY <1>1, <1>4 DEF AppendVectors, Body
  <2> HIDE DEF g, rows
  <2>9. v \in Writer /\ Fits(g, v)
    BY <1>2, <2>1, <2>2, <2>6, <2>7 DEF Writer, Fits
  <2>10. QED
    <3> HIDE DEF v
    <3> QED  BY <1>1, <1>4, <2>2, <2>8, <2>9, OneIdTyped DEF AppendVectors
<1>5. ASSUME NEW vectors \in Appends, NEW n \in 0..(Len(vectors) - 1),
             AppendVectorsFails(id, vectors, n)
      PROVE  TypeInv'
  <2> DEFINE v == [w EXCEPT !.failed = TRUE]
  <2>1. w # NoWriter /\ w.step = "open"
    BY <1>5 DEF AppendVectorsFails, Open
  <2>2. PICK fragment \in {<<>>, <<Torn>>} : tmp' = Body(id, SubSeq(vectors, 1, n) \o fragment)
    BY <1>5 DEF AppendVectorsFails
  <2> DEFINE units == SubSeq(vectors, 1, n) \o fragment
             g == [f EXCEPT !.body = @ \o units]
  <2>3. units \in Seq(Unit) /\ Len(units) \in Nat
    <3>1. vectors \in Seq(Unit) /\ n \in 0..Len(vectors) /\ n \in Nat
      BY AppendsAreUnits
    <3>2. \A i \in 1..n : vectors[i] \in Unit
      BY <3>1
    <3>3. SubSeq(vectors, 1, n) \in Seq(Unit)
      BY <3>1, <3>2, SubSeqProperties
    <3>4. fragment \in Seq(Unit)
      <4>1. Torn \in Unit
        BY DEF Unit
      <4>2. <<>> \in Seq(Unit) /\ <<Torn>> \in Seq(Unit)
        BY <4>1
      <4>3. QED  BY <4>2
    <3>5. QED  BY <3>3, <3>4, ConcatParts
  <2> HIDE DEF units
  <2>4. /\ g \in File /\ Len(g.body) = Len(f.body) + Len(units)
    BY <1>2, <2>1, <2>3, Extends
  <2>5. tmp' = [tmp EXCEPT ![id] = g] /\ writer' = [writer EXCEPT ![id] = v]
    BY <1>1, <1>5, <2>2 DEF AppendVectorsFails, Body, units
  <2>6. Len(w.payload) <= Len(g.body)
    <3> HIDE DEF g, f, w
    <3> QED  BY <1>2, <2>1, <2>3, <2>4
  <2> HIDE DEF g
  <2>7. v \in Writer /\ Fits(g, v)
    BY <1>2, <2>1, <2>4, <2>6 DEF Writer, Fits
  <2>8. QED
    <3> HIDE DEF v
    <3> QED  BY <1>1, <1>5, <2>4, <2>5, <2>7, OneIdTyped DEF AppendVectorsFails
<1>6. ASSUME NEW row \in 1..MaxRows, Tombstone(id, row)
      PROVE  TypeInv'
  <2> DEFINE v == [w EXCEPT !.tombstones = @ \cup {row}, !.hidden = @ \cup {row}]
  <2>1. w # NoWriter /\ w.step = "open" /\ row \in DOMAIN w.payload
    BY <1>6 DEF Tombstone, Open
  <2>2. /\ tmp' = [tmp EXCEPT ![id] = f] /\ writer' = [writer EXCEPT ![id] = v]
        /\ final' = final /\ committed' = committed
        /\ unsynced' = unsynced /\ unsettled' = unsettled
    BY <1>1, <1>6 DEF Tombstone
  <2>3. v \in Writer /\ Fits(f, v)
    BY <1>2, <2>1 DEF Writer, Fits
  <2>4. QED
    <3> HIDE DEF v, f
    <3> QED  BY <1>1, <1>2, <2>1, <2>2, <2>3, OneIdTyped
<1>7. CASE WriteBitmap(id)
  <2> DEFINE units == IF w.payload = <<>> THEN <<>> ELSE <<Bitmap(w.tombstones)>>
             g == [f EXCEPT !.body = @ \o units]
             v == [w EXCEPT !.step = "bitmap"]
  <2>1. w # NoWriter /\ w.step = "open"
    BY <1>7 DEF WriteBitmap, Step
  <2>2. units \in Seq(Unit)
    <3>1. Bitmap(w.tombstones) \in Unit
      BY <1>2, <2>1 DEF Unit, Bitmap
    <3>2. <<>> \in Seq(Unit) /\ <<Bitmap(w.tombstones)>> \in Seq(Unit)
      BY <3>1
    <3>3. QED  BY <3>2
  <2>3. tmp' = [tmp EXCEPT ![id] = g] /\ writer' = [writer EXCEPT ![id] = v]
    BY <1>1, <1>7 DEF WriteBitmap, Step, Body
  <2> HIDE DEF units
  <2>4. g \in File
    BY <1>2, <2>1, <2>2, Extends
  <2> HIDE DEF g
  <2>5. v \in Writer /\ Fits(g, v)
    BY <1>2, <2>1, <2>4 DEF Writer, Fits, Steps
  <2>6. QED
    <3> HIDE DEF v
    <3> QED  BY <1>1, <1>7, <2>3, <2>4, <2>5, OneIdTyped DEF WriteBitmap
<1>8. CASE WriteHeader(id)
  <2> DEFINE header == [row_count |-> Len(w.payload), payload |-> w.payload]
             g == [f EXCEPT !.header = header]
             v == [w EXCEPT !.step = "header"]
  <2>1. w # NoWriter /\ w.step = "bitmap"
    BY <1>8 DEF WriteHeader, Step
  <2>2. header \in Header
    BY <1>2, <2>1, RowsAreSequences DEF Header
  <2>3. tmp' = [tmp EXCEPT ![id] = g] /\ writer' = [writer EXCEPT ![id] = v]
    BY <1>1, <1>8 DEF WriteHeader, Step
  <2> HIDE DEF header
  <2>4. g \in File
    BY <1>2, <2>1, <2>2 DEF File
  <2> HIDE DEF g
  <2>5. v \in Writer /\ Fits(g, v)
    BY <1>2, <2>1, <2>4 DEF Writer, Fits, Steps
  <2>6. QED
    <3> HIDE DEF v
    <3> QED  BY <1>1, <1>8, <2>3, <2>4, <2>5, OneIdTyped DEF WriteHeader
<1>9. CASE Sync(id)
  <2> DEFINE v == [w EXCEPT !.step = "synced"]
  <2>1. w # NoWriter
    BY <1>9 DEF Sync, Step
  <2>2. /\ tmp' = [tmp EXCEPT ![id] = f] /\ writer' = [writer EXCEPT ![id] = v]
        /\ final' = final /\ committed' = committed
        /\ unsynced' \subseteq Ids /\ unsettled' = unsettled
    BY <1>1, <1>9 DEF Sync, Step
  <2>3. v \in Writer /\ Fits(f, v)
    BY <1>2, <2>1 DEF Writer, Fits, Steps
  <2>4. QED
    <3> HIDE DEF v, f
    <3> QED  BY <1>1, <1>2, <2>1, <2>2, <2>3, OneIdTyped
<1>10. CASE Rename(id)
  <2>1. w # NoWriter
    BY <1>10 DEF Rename
  <2>2. [rows |-> w.payload, dead |-> w.hidden] \in Segment
    BY <1>2, <2>1 DEF Segment
  <2>3. /\ tmp' = [tmp EXCEPT ![id] = NoFile] /\ writer' = [writer EXCEPT ![id] = NoWriter]
        /\ final' \in [Ids -> File \cup {NoFile, Garbage}]
        /\ committed' \in [Ids -> Segment \cup {NoSegment}]
        /\ unsynced' = unsynced /\ unsettled' = unsettled
    BY <1>1, <1>2, <2>1, <2>2, <1>10 DEF Rename
  <2>4. Fits(NoFile, NoWriter)
    BY DEF Fits
  <2>5. QED  BY <1>1, <2>3, <2>4, OneIdTyped
<1>11. CASE Drop(id)
  <2>1. /\ tmp' = [tmp EXCEPT ![id] = f] /\ writer' = [writer EXCEPT ![id] = NoWriter]
        /\ final' = final /\ committed' = committed
        /\ unsynced' = unsynced /\ unsettled' = unsettled
        /\ f \in File \cup {NoFile, Garbage}
    BY <1>1, <1>11 DEF Drop
  <2>2. Fits(f, NoWriter)
    BY DEF Fits
  <2>3. QED
    <3> HIDE DEF f
    <3> QED  BY <1>1, <2>1, <2>2, OneIdTyped
<1>. QED
  BY <1>3, <1>4, <1>5, <1>6, <1>7, <1>8, <1>9, <1>10, <1>11 DEF Write

\* A file after a crash is one that was there, nothing or garbage.
LEMMA CrashKeepsTypes ==
    ASSUME TypeInv, Crash
    PROVE  TypeInv'
<1>1. /\ tmp \in [Ids -> File \cup {NoFile, Garbage}]
      /\ final \in [Ids -> File \cup {NoFile, Garbage}]
      /\ committed \in [Ids -> Segment \cup {NoSegment}]
  BY DEF TypeInv, TypeOK
<1>2. /\ writer' = [id \in Ids |-> NoWriter]
      /\ unsynced' = {} /\ unsettled' = {} /\ committed' = committed
  BY DEF Crash
<1>3. /\ tmp' \in [Ids -> File \cup {NoFile, Garbage}]
      /\ final' \in [Ids -> File \cup {NoFile, Garbage}]
  BY <1>1 DEF Crash
<1>4. TypeOK'
  BY <1>1, <1>2, <1>3 DEF TypeOK
<1>5. \A id \in Ids : Fits(tmp'[id], writer'[id])
  BY <1>2 DEF Fits
<1>6. QED  BY <1>4, <1>5 DEF TypeInv

LEMMA SpecTypeInv == Spec => []TypeInv
<1>1. TypeInv /\ [Next]_vars => TypeInv'
  <2>. SUFFICES ASSUME TypeInv, [Next]_vars PROVE TypeInv'
    OBVIOUS
  <2>1. CASE UNCHANGED vars
    BY <2>1 DEF TypeInv, TypeOK, vars
  <2>2. ASSUME NEW id \in Ids, Write(id) PROVE TypeInv'
    BY <2>2, WriteKeepsTypes
  <2>3. CASE Crash
    BY <2>3, CrashKeepsTypes
  <2>4. QED  BY <2>1, <2>2, <2>3 DEF Next
<1>2. QED  BY <1>1, InitTypeInv, PTL DEF Spec

\* Whatever its callers do, a live writer has a tmp of its own that no other
\* writer can create, and its bitmap hides rows of its payload only.
THEOREM TypeCorrect == Spec => []TypeOK
<1>1. TypeInv => TypeOK
  BY DEF TypeInv
<1>2. QED  BY <1>1, SpecTypeInv, PTL

-----------------------------------------------------------------------------
(* Careful callers: a Segment is absent or whole *)

\* How far commit has brought a writer: what its tmp holds at every step.
Written(file, w, pending) ==
    /\ w.hidden = w.tombstones
    /\ w.step = "open" /\ ~w.failed => file.body = w.payload
    /\ w.step # "open" => file.body = w.payload \o Bits(w.payload, w.tombstones)
    /\ w.step \in {"header", "synced"} =>
          file.header = [row_count |-> Len(w.payload), payload |-> w.payload]
    /\ w.step = "synced" => ~pending

\* One id: its tmp, its final file, its writer, whether bytes of it are
\* unforced, and what commit acknowledged.
Track(file, whole, w, pending, segment) ==
    /\ w # NoWriter => segment = NoSegment /\ Written(file, w, pending)
    /\ file = NoFile => ~pending
    /\ whole # NoFile =>
          whole \in File /\ segment \in Segment /\ Read(whole) = segment

Tracked(id) == Track(tmp[id], final[id], writer[id], id \in unsynced, committed[id])

CareInv == \A id \in Ids : Tracked(id)

\* A step of one id leaves the others alone.
LEMMA OthersKept ==
    ASSUME TypeInv, NEW id \in Ids, Write(id), NEW o \in Ids, o # id
    PROVE  /\ tmp'[o] = tmp[o] /\ final'[o] = final[o] /\ writer'[o] = writer[o]
           /\ (o \in unsynced') = (o \in unsynced) /\ committed'[o] = committed[o]
<1> DEFINE Kept == /\ tmp'[o] = tmp[o] /\ final'[o] = final[o] /\ writer'[o] = writer[o]
                   /\ (o \in unsynced') = (o \in unsynced) /\ committed'[o] = committed[o]
<1>1. /\ tmp \in [Ids -> File \cup {NoFile, Garbage}]
      /\ final \in [Ids -> File \cup {NoFile, Garbage}]
      /\ writer \in [Ids -> Writer \cup {NoWriter}]
      /\ committed \in [Ids -> Segment \cup {NoSegment}]
  BY DEF TypeInv, TypeOK
<1>2. CASE Create(id)
  BY <1>1, <1>2 DEF Create
<1>3. ASSUME NEW vectors \in Appends, AppendVectors(id, vectors) PROVE Kept
  BY <1>1, <1>3 DEF AppendVectors, Body
<1>4. ASSUME NEW vectors \in Appends, NEW n \in 0..(Len(vectors) - 1),
             AppendVectorsFails(id, vectors, n)
      PROVE  Kept
  BY <1>1, <1>4 DEF AppendVectorsFails, Body
<1>5. ASSUME NEW row \in 1..MaxRows, Tombstone(id, row) PROVE Kept
  BY <1>1, <1>5 DEF Tombstone
<1>6. CASE WriteBitmap(id)
  BY <1>1, <1>6 DEF WriteBitmap, Step, Body
<1>7. CASE WriteHeader(id)
  BY <1>1, <1>7 DEF WriteHeader, Step
<1>8. CASE Sync(id)
  BY <1>1, <1>8 DEF Sync, Step
<1>9. CASE Rename(id)
  BY <1>1, <1>9 DEF Rename
<1>10. CASE Drop(id)
  BY <1>1, <1>10 DEF Drop
<1>. QED
  BY <1>2, <1>3, <1>4, <1>5, <1>6, <1>7, <1>8, <1>9, <1>10 DEF Write

\* A writer's tmp, while it lives.
LEMMA WriterTyped ==
    ASSUME TypeInv, NEW id \in Ids, writer[id] # NoWriter
    PROVE  /\ writer[id] \in Writer /\ tmp[id] \in File /\ tmp[id] # NoFile
           /\ writer[id].payload \in Rows /\ writer[id].payload \in Seq(Vectors)
           /\ writer[id].tombstones \in SUBSET (DOMAIN writer[id].payload)
           /\ tmp[id].body \in Seq(Unit)
<1>1. /\ writer[id] \in Writer /\ tmp[id] \in File
      /\ writer[id].tombstones \subseteq DOMAIN writer[id].payload
  BY DEF TypeInv, TypeOK
<1>2. writer[id].payload \in Rows
  BY <1>1 DEF Writer
<1>3. writer[id].payload \in Seq(Vectors)
  BY <1>2, RowsAreSequences
<1>4. tmp[id].body \in Seq(Unit)
  BY <1>1 DEF File
<1>5. QED  BY <1>1, <1>2, <1>3, <1>4, SegmentAssumption

\* The steps of a writer up to the rename follow what its tmp holds.
LEMMA WriteKeepsTrack ==
    ASSUME Careful, TypeInv, NEW id \in Ids, Tracked(id), Write(id), ~Rename(id)
    PROVE  Tracked(id)' /\ final' = final /\ committed' = committed
<1> DEFINE f == tmp[id]
           w == writer[id]
           pending == id \in unsynced
           Kept == Tracked(id)' /\ final' = final /\ committed' = committed
<1>1. /\ tmp \in [Ids -> File \cup {NoFile, Garbage}]
      /\ final \in [Ids -> File \cup {NoFile, Garbage}]
      /\ writer \in [Ids -> Writer \cup {NoWriter}]
  BY DEF TypeInv, TypeOK
<1>2. /\ w # NoWriter => committed[id] = NoSegment /\ Written(f, w, pending)
      /\ f = NoFile => ~pending
      /\ final[id] # NoFile => /\ final[id] \in File /\ committed[id] \in Segment
                               /\ Read(final[id]) = committed[id]
  BY DEF Tracked, Track
<1>3. ASSUME final' = final, committed' = committed,
             writer'[id] # NoWriter =>
                 committed[id] = NoSegment /\ Written(tmp'[id], writer'[id], id \in unsynced'),
             tmp'[id] = NoFile /\ writer'[id] = NoWriter => id \notin unsynced'
      PROVE  Kept
  <2>1. TypeInv'
    BY WriteKeepsTypes
  <2>2. writer'[id] # NoWriter => tmp'[id] # NoFile
    BY <2>1, SegmentAssumption DEF TypeInv, TypeOK
  <2>3. QED  BY <1>2, <1>3, <2>2 DEF Tracked, Track
<1>4. CASE Create(id)
  <2>1. /\ final' = final /\ committed' = committed /\ committed[id] = NoSegment
        /\ w = NoWriter
    BY <1>4, WriterTyped DEF Create
  <2>2. CASE tmp' = [tmp EXCEPT ![id] = Garbage] /\ writer' = writer
    BY <1>1, <1>3, <2>1, <2>2, SegmentAssumption
  <2>3. CASE /\ tmp' = [tmp EXCEPT ![id] = [header |-> NoHeader, body |-> <<>>]]
             /\ writer' = [writer EXCEPT ![id] = NewWriter]
    <3> DEFINE new == [header |-> NoHeader, body |-> <<>>]
    <3>1. new \in File
      BY DEF File
    <3>2. tmp'[id] = new /\ writer'[id] = NewWriter /\ new # NoFile
      BY <1>1, <2>3, <3>1, SegmentAssumption
    <3>3. Written(new, NewWriter, id \in unsynced')
      BY DEF Written, NewWriter
    <3> HIDE DEF new
    <3>4. QED  BY <1>3, <2>1, <3>2, <3>3
  <2>4. QED  BY <1>4, <2>2, <2>3 DEF Create
<1>5. ASSUME NEW vectors \in Appends, AppendVectors(id, vectors) PROVE Kept
  <2>1. /\ w # NoWriter /\ w.step = "open" /\ ~w.failed /\ w.tombstones = {}
        /\ final' = final /\ committed' = committed /\ unsynced' = unsynced
    BY <1>5 DEF AppendVectors, Open
  <2>2. /\ f \in File /\ w \in Writer /\ f # NoFile
    BY <2>1, WriterTyped
  <2> DEFINE g == [f EXCEPT !.body = @ \o vectors]
             rows == w.payload \o vectors
             v == [w EXCEPT !.payload = rows, !.tombstones = {}]
  <2>3. tmp'[id] = g /\ writer'[id] = v
    BY <1>1, <1>5 DEF AppendVectors, Body
  <2>4. g \in File /\ g.body = f.body \o vectors
    BY <2>2, Extends, AppendsAreUnits
  <2>5. f.body = w.payload /\ w.hidden = w.tombstones
    BY <1>2, <2>1 DEF Written
  <2>6. g.body = rows
    BY <2>4, <2>5
  <2> HIDE DEF rows, g
  <2>7. /\ v.payload = rows /\ v.tombstones = {} /\ v.hidden = w.hidden
        /\ v.step = "open" /\ v.failed = w.failed
    BY <2>1, <2>2 DEF Writer
  <2>8. Written(g, v, pending)
    BY <2>1, <2>5, <2>6, <2>7 DEF Written
  <2>9. QED
    <3> HIDE DEF v, w, f
    <3> QED  BY <1>2, <1>3, <2>1, <2>3, <2>4, <2>8, SegmentAssumption DEF w
<1>6. ASSUME NEW vectors \in Appends, NEW n \in 0..(Len(vectors) - 1),
             AppendVectorsFails(id, vectors, n)
      PROVE  Kept
  <2>1. /\ w # NoWriter /\ w.step = "open"
        /\ final' = final /\ committed' = committed /\ unsynced' = unsynced
    BY <1>6 DEF AppendVectorsFails, Open
  <2>2. w \in Writer
    BY <2>1, WriterTyped
  <2>3. writer'[id] = [w EXCEPT !.failed = TRUE]
    BY <1>1, <1>6 DEF AppendVectorsFails
  <2>4. /\ writer'[id].failed /\ writer'[id].step = "open" /\ writer'[id] # NoWriter
        /\ writer'[id].hidden = w.hidden /\ writer'[id].tombstones = w.tombstones
    <3>1. [w EXCEPT !.failed = TRUE] \in Writer
      BY <2>2 DEF Writer
    <3>2. QED  BY <2>1, <2>2, <2>3, <3>1, SegmentAssumption DEF Writer
  <2>5. Written(tmp'[id], writer'[id], pending)
    BY <1>2, <2>1, <2>4 DEF Written
  <2> HIDE DEF w, f
  <2>6. QED  BY <1>2, <1>3, <2>1, <2>4, <2>5
<1>7. ASSUME NEW row \in 1..MaxRows, Tombstone(id, row) PROVE Kept
  <2>1. /\ w # NoWriter /\ w.step = "open" /\ tmp' = tmp
        /\ final' = final /\ committed' = committed /\ unsynced' = unsynced
    BY <1>7 DEF Tombstone, Open
  <2>2. w \in Writer
    BY <2>1, WriterTyped
  <2> DEFINE v == [w EXCEPT !.tombstones = @ \cup {row}, !.hidden = @ \cup {row}]
  <2>3. writer'[id] = v
    BY <1>1, <1>7 DEF Tombstone
  <2>4. /\ v.step = "open" /\ v.payload = w.payload /\ v.failed = w.failed
        /\ v.hidden = w.hidden \cup {row} /\ v.tombstones = w.tombstones \cup {row}
    BY <2>1, <2>2 DEF Writer
  <2> HIDE DEF v
  <2>5. Written(f, v, pending)
    BY <1>2, <2>1, <2>4 DEF Written
  <2> HIDE DEF w
  <2>6. QED  BY <1>2, <1>3, <2>1, <2>3, <2>5 DEF w
<1>8. CASE WriteBitmap(id)
  <2>1. /\ w # NoWriter /\ w.step = "open" /\ ~w.failed
        /\ final' = final /\ committed' = committed /\ unsynced' = unsynced
    BY <1>8 DEF WriteBitmap, Step
  <2>2. w \in Writer /\ f \in File
    BY <2>1, WriterTyped
  <2> DEFINE units == Bits(w.payload, w.tombstones)
             g == [f EXCEPT !.body = @ \o units]
             v == [w EXCEPT !.step = "bitmap"]
  <2>3. tmp'[id] = g /\ writer'[id] = v
    BY <1>1, <1>8 DEF WriteBitmap, Step, Body, Bits
  <2>4. g.body = f.body \o units
    BY <2>2 DEF File
  <2>5. f.body = w.payload /\ w.hidden = w.tombstones
    BY <1>2, <2>1 DEF Written
  <2>6. /\ v.payload = w.payload /\ v.tombstones = w.tombstones
        /\ v.hidden = w.hidden /\ v.step = "bitmap"
    BY <2>2 DEF Writer
  <2> HIDE DEF g, v
  <2>7. Written(g, v, pending)
    BY <2>4, <2>5, <2>6 DEF Written
  <2>8. committed[id] = NoSegment /\ writer'[id] # NoWriter
    <3>1. v \in Writer
      BY <2>2 DEF v, Writer, Steps
    <3>2. QED  BY <1>2, <2>1, <2>3, <3>1, SegmentAssumption
  <2>9. Written(tmp'[id], writer'[id], id \in unsynced')
    BY <2>1, <2>3, <2>7
  <2> HIDE DEF w, f
  <2>10. QED  BY <1>3, <2>1, <2>8, <2>9
<1>9. CASE WriteHeader(id)
  <2>1. /\ w # NoWriter /\ w.step = "bitmap"
        /\ final' = final /\ committed' = committed /\ unsynced' = unsynced
    BY <1>9 DEF WriteHeader, Step
  <2>2. w \in Writer /\ f \in File
    BY <2>1, WriterTyped
  <2> DEFINE header == [row_count |-> Len(w.payload), payload |-> w.payload]
             g == [f EXCEPT !.header = header]
             v == [w EXCEPT !.step = "header"]
  <2>3. tmp'[id] = g /\ writer'[id] = v
    BY <1>1, <1>9 DEF WriteHeader, Step
  <2>4. g.body = f.body /\ g.header = header
    BY <2>2 DEF File
  <2>5. f.body = w.payload \o Bits(w.payload, w.tombstones) /\ w.hidden = w.tombstones
    BY <1>2, <2>1 DEF Written
  <2>6. /\ v.payload = w.payload /\ v.tombstones = w.tombstones
        /\ v.hidden = w.hidden /\ v.step = "header"
    BY <2>2 DEF Writer
  <2> HIDE DEF g, v
  <2>7. Written(g, v, pending)
    BY <2>4, <2>5, <2>6 DEF Written
  <2>8. committed[id] = NoSegment /\ writer'[id] # NoWriter
    <3>1. v \in Writer
      BY <2>2 DEF v, Writer, Steps
    <3>2. QED  BY <1>2, <2>1, <2>3, <3>1, SegmentAssumption
  <2>9. Written(tmp'[id], writer'[id], id \in unsynced')
    BY <2>1, <2>3, <2>7
  <2> HIDE DEF w, f
  <2>10. QED  BY <1>3, <2>1, <2>8, <2>9
<1>10. CASE Sync(id)
  <2>1. /\ w # NoWriter /\ w.step = "header" /\ tmp' = tmp
        /\ final' = final /\ committed' = committed /\ id \notin unsynced'
    BY <1>10 DEF Sync, Step
  <2>2. w \in Writer
    BY <2>1, WriterTyped
  <2> DEFINE v == [w EXCEPT !.step = "synced"]
  <2>3. writer'[id] = v
    BY <1>1, <1>10 DEF Sync, Step
  <2>4. /\ v.payload = w.payload /\ v.tombstones = w.tombstones
        /\ v.hidden = w.hidden /\ v.step = "synced"
    BY <2>2 DEF Writer
  <2> HIDE DEF v
  <2>5. Written(f, v, FALSE)
    BY <1>2, <2>1, <2>4 DEF Written
  <2>6. Written(tmp'[id], writer'[id], id \in unsynced')
    BY <2>1, <2>3, <2>5 DEF Written
  <2> HIDE DEF w, f
  <2>7. QED  BY <1>2, <1>3, <2>1, <2>6 DEF w
<1>11. CASE Drop(id)
  <2>1. /\ writer'[id] = NoWriter /\ tmp' = tmp /\ unsynced' = unsynced
        /\ final' = final /\ committed' = committed
    BY <1>1, <1>11 DEF Drop
  <2>2. QED  BY <1>2, <1>3, <2>1
<1>. QED
  BY <1>4, <1>5, <1>6, <1>7, <1>8, <1>9, <1>10, <1>11 DEF Write

\* The rename publishes a whole file, the one the calls acknowledged.
LEMMA RenameKeepsTrack ==
    ASSUME TypeInv, NEW id \in Ids, Tracked(id), Rename(id)
    PROVE  /\ Tracked(id)'
           /\ committed[id] = NoSegment /\ final[id] = NoFile
           /\ final' = [final EXCEPT ![id] = final'[id]]
           /\ Read(final'[id]) \in Segment
<1> DEFINE f == tmp[id]
           w == writer[id]
           pending == id \in unsynced
<1>1. /\ tmp \in [Ids -> File \cup {NoFile, Garbage}]
      /\ final \in [Ids -> File \cup {NoFile, Garbage}]
      /\ writer \in [Ids -> Writer \cup {NoWriter}]
      /\ committed \in [Ids -> Segment \cup {NoSegment}]
  BY DEF TypeInv, TypeOK
<1>2. /\ w # NoWriter /\ w.step = "synced"
      /\ final' = [final EXCEPT ![id] = f] /\ tmp'[id] = NoFile /\ writer'[id] = NoWriter
      /\ committed'[id] = [rows |-> w.payload, dead |-> w.hidden]
      /\ unsynced' = unsynced
  BY <1>1 DEF Rename
<1>3. /\ f \in File /\ w.payload \in Rows /\ w.tombstones \in SUBSET (DOMAIN w.payload)
  BY <1>2, WriterTyped
<1>4. committed[id] = NoSegment /\ Written(f, w, pending)
  BY <1>2 DEF Tracked, Track
<1>5. final[id] = NoFile
  BY <1>4, SegmentAssumption DEF Tracked, Track
<1>6. /\ f.header = [row_count |-> Len(w.payload), payload |-> w.payload]
      /\ f.body = w.payload \o Bits(w.payload, w.tombstones)
      /\ w.hidden = w.tombstones /\ ~pending
  BY <1>2, <1>4 DEF Written
<1>7. f = [header |-> f.header, body |-> f.body]
  BY <1>3 DEF File
<1>8. f = WholeFile(w.payload, w.tombstones)
  BY <1>6, <1>7 DEF WholeFile
<1> DEFINE segment == [rows |-> w.payload, dead |-> w.tombstones]
<1>9. Read(f) = segment /\ segment \in Segment
  BY <1>3, <1>8, WholeFileReadsBack
<1>10. committed'[id] = segment /\ final'[id] = f
  BY <1>1, <1>2, <1>6
<1> HIDE DEF f, segment
<1>11. Track(tmp'[id], final'[id], writer'[id], id \in unsynced', committed'[id])
  BY <1>2, <1>3, <1>6, <1>9, <1>10 DEF Track
<1>12. QED  BY <1>2, <1>4, <1>5, <1>9, <1>10, <1>11 DEF Tracked

\* A crash keeps a whole Segment or loses it.
LEMMA CrashKeepsTrack ==
    ASSUME TypeInv, CareInv, Crash
    PROVE  /\ CareInv'
           /\ \A id \in Ids : final'[id] \in {final[id], NoFile}
<1>1. ASSUME NEW id \in Ids
      PROVE  Tracked(id)' /\ final'[id] \in {final[id], NoFile}
  <2>1. Tracked(id)
    BY DEF CareInv
  <2>2. /\ writer'[id] = NoWriter /\ id \notin unsynced' /\ committed' = committed
    BY DEF Crash
  <2>3. final'[id] \in {final[id], NoFile}
    <3>1. tmp[id] = NoFile => id \notin unsynced
      BY <2>1 DEF Tracked, Track
    <3>2. PICK gone \in SUBSET unsettled, undone \in SUBSET unsettled, lost \in SUBSET unsynced :
            final'[id] = IF id \in gone \/ (id \in undone /\ tmp[id] = NoFile) THEN NoFile
                         ELSE IF tmp[id] = NoFile
                              THEN IF id \in lost /\ final[id] # NoFile THEN Garbage
                                   ELSE final[id]
                         ELSE final[id]
      BY DEF Crash
    <3>3. QED  BY <3>1, <3>2
  <2>4. QED  BY <2>1, <2>2, <2>3 DEF Tracked, Track
<1>2. QED  BY <1>1 DEF CareInv

LEMMA InitCareInv == Init => CareInv
<1>. SUFFICES ASSUME Init, NEW id \in Ids PROVE Tracked(id)
  BY DEF CareInv
<1>1. tmp[id] = NoFile /\ writer[id] = NoWriter /\ final[id] = NoFile /\ id \notin unsynced
  BY DEF Init
<1>2. QED  BY <1>1 DEF Tracked, Track

LEMMA SpecCareInv == ASSUME Careful PROVE Spec => []CareInv
<1>1. TypeInv /\ CareInv /\ [Next]_vars => CareInv'
  <2>. SUFFICES ASSUME TypeInv, CareInv, [Next]_vars PROVE CareInv'
    OBVIOUS
  <2>1. CASE UNCHANGED vars
    BY <2>1 DEF CareInv, Tracked, Track, Written, vars
  <2>2. ASSUME NEW id \in Ids, Write(id) PROVE CareInv'
    <3>1. Tracked(id)'
      BY <2>2, WriteKeepsTrack, RenameKeepsTrack DEF CareInv
    <3>2. ASSUME NEW o \in Ids, o # id PROVE Tracked(o)'
      BY <2>2, <3>2, OthersKept DEF CareInv, Tracked
    <3>3. QED  BY <3>1, <3>2 DEF CareInv
  <2>3. CASE Crash
    BY <2>3, CrashKeepsTrack
  <2>4. QED  BY <2>1, <2>2, <2>3 DEF Next
<1>2. QED  BY <1>1, InitCareInv, SpecTypeInv, PTL DEF Spec

\* With careful callers a Segment file is absent, or it opens and holds what
\* was acknowledged, after any failed writes, dropped writers and crashes.
THEOREM CommittedIsWhole == ASSUME Careful PROVE Spec => []CommittedOrAbsent
<1>1. CareInv => CommittedOrAbsent
  BY DEF CareInv, Tracked, Track, CommittedOrAbsent
<1>2. QED  BY <1>1, SpecCareInv, PTL

\* What a reader can open: nothing, or a Segment.
Readable == [id \in Ids |-> Read(final[id])]

\* With careful callers Segment storage implements its catalogue: a Segment
\* appears in the one step of a rename, never changes, and only a crash loses it.
THEOREM StoresImplementCatalog == ASSUME Careful PROVE Spec => ImplementsCatalog
<1>1. Init => Catalog!Init
  BY DEF Init, Catalog!Init, Read
<1>2. CareInv /\ TypeInv /\ [Next]_vars => [Catalog!Next]_Readable
  <2>. SUFFICES ASSUME CareInv, TypeInv, [Next]_vars PROVE [Catalog!Next]_Readable
    OBVIOUS
  <2>1. ASSUME final' = final PROVE UNCHANGED Readable
    BY <2>1 DEF Readable
  <2>2. CASE UNCHANGED vars
    BY <2>1, <2>2 DEF vars
  <2>3. ASSUME NEW id \in Ids, Write(id), ~Rename(id) PROVE UNCHANGED Readable
    BY <2>1, <2>3, WriteKeepsTrack DEF CareInv
  <2>4. ASSUME NEW id \in Ids, Rename(id) PROVE Catalog!Next
    <3>1. /\ final[id] = NoFile /\ Read(final'[id]) \in Segment
          /\ final' = [final EXCEPT ![id] = final'[id]]
      BY <2>4, RenameKeepsTrack DEF CareInv
    <3>2. Readable[id] = NoSegment
      BY <3>1 DEF Readable, Read
    <3>3. Readable' = [Readable EXCEPT ![id] = Read(final'[id])]
      BY <3>1 DEF TypeInv, TypeOK, Readable
    <3>4. Catalog!Publish(id)
      BY <3>1, <3>2, <3>3 DEF Catalog!Publish, Readable
    <3>5. QED  BY <3>4 DEF Catalog!Next
  <2>5. CASE Crash
    <3> DEFINE lost == {id \in Ids : final'[id] # final[id]}
    <3>1. \A id \in Ids : final'[id] = IF id \in lost THEN NoFile ELSE final[id]
      BY <2>5, CrashKeepsTrack
    <3> HIDE DEF lost
    <3>2. Read(NoFile) = NoSegment
      BY DEF Read
    <3>3. Readable' = [id \in Ids |-> IF id \in lost THEN NoSegment ELSE Readable[id]]
      BY <3>1, <3>2 DEF Readable
    <3>4. lost \in SUBSET Ids
      BY DEF lost
    <3>5. Catalog!Lose
      BY <3>3, <3>4 DEF Catalog!Lose, Readable
    <3>6. QED  BY <3>5 DEF Catalog!Next
  <2>6. QED  BY <2>2, <2>3, <2>4, <2>5 DEF Next
<1>3. QED
  BY <1>1, <1>2, SpecTypeInv, SpecCareInv, PTL DEF Spec, ImplementsCatalog, Catalog!Spec, Readable
=============================================================================
