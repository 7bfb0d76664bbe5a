----------------------------- MODULE Retrieval ------------------------------
(***************************************************************************)
(* One Table's Delta and every way the code searches it: the engine's      *)
(* exhaustive search (search.rs) and, in the browser session               *)
(* (ferrite-wasm), search_advanced, the exact oracle, the profile and the  *)
(* lifecycle inspector.                                                    *)
(*                                                                         *)
(* The Delta changes by insert, delete, update and merge.  A search reads  *)
(* one Delta value and changes nothing, so each path is an operator of the *)
(* Delta and the request, and the invariants ask every request of every    *)
(* reachable Delta.  Distance arithmetic is the constant Score; probes and *)
(* ef_search do not change an exhaustive scan and are left out.            *)
(***************************************************************************)
EXTENDS Compaction, Predicates

CONSTANTS
    Queries,      \* query vectors of the Table's dimension
    Misfit,       \* a query vector of another dimension
    Score,        \* Score[query][payload]: the metric distance
    Meta,         \* Meta[payload]: the row's metadata
    Schema,       \* the Table's Metadata Schema
    Nodes,        \* the JSON predicates a caller may send
    NoPredicate,  \* no predicate
    MaxTopK,      \* the upper bound of SearchOptions::with_top_k (1000)
    MaxCalls      \* bound: writes and merges in one behaviour

ASSUME RetrievalAssumption ==
    /\ MaxTopK \in Nat \ {0}
    /\ MaxCalls \in Nat
    /\ SchemaAccepts(Schema)
    /\ \A v \in Values : MetadataFits(Schema, Meta[v])
    /\ \A v \in Values : \A name \in DOMAIN Meta[v] : Meta[v][name].v \in Int
    /\ \A q \in Queries : Score[q] \in [Values -> Int]
    /\ Misfit \notin Queries

\* Each tree is listed as Predicates says: the children of a node come before
\* it, and every node but the last is a child.
ASSUME NodesAssumption ==
    \A tree \in Nodes :
        LET Children(i) == CASE tree[i].op = "not" -> {tree[i].child}
                             [] tree[i].op \in {"and", "or"} -> tree[i].children
                             [] OTHER -> {}
        IN  /\ Len(tree) > 0
            /\ \A i \in DOMAIN tree : Children(i) \subseteq 1..(i - 1)
            /\ UNION {Children(i) : i \in DOMAIN tree} = 1..(Len(tree) - 1)

\* One search result, and what a profile counts.
Hit == [id : Ids, distance : Int, value : Values]

Counts == [total_rows : Nat, matched_rows : Nat, returned_rows : Nat]

\* A comparison of a column with a value some row has.
Comparison ==
    [op : LeafOps, column : {Schema[n].name : n \in DOMAIN Schema},
     value : UNION {{Meta[v][name] : name \in DOMAIN Meta[v]} : v \in Values}]

\* An Err is none of the answers; it and a predicate are not "no predicate".
ASSUME DistinctAssumption ==
    /\ Refused \notin Seq(Hit)
    /\ Refused \notin Counts
    /\ Refused # NoPredicate
    /\ NoPredicate \notin Seq(Comparison)

VARIABLES
    delta,  \* the Table's current Delta
    calls   \* writes and merges so far

vars == <<delta, calls>>

-----------------------------------------------------------------------------
(* The engine's search *)

Valid(predicate) ==
    predicate = NoPredicate \/ Validate(Schema, predicate)

Passes(predicate, row) ==
    predicate = NoPredicate \/ MatchesRow(predicate, Meta[row.value])

Scored(q, rows) ==
    [i \in DOMAIN rows |->
        [id |-> rows[i].id, distance |-> Score[q][rows[i].value],
         value |-> rows[i].value]]

\* delta.records().filter(...).collect(): the rows at the positions kept, in
\* insertion order.
RowsAt(d, kept) ==
    LET order == Ascending(kept)
    IN  [i \in 1..Len(order) |-> d.rows[order[i]]]

\* A bug a review must rule out: ties are left in insertion order.
NearestUnstable(q, rows, k) ==
    Truncate(SortBy(Scored(q, rows), ByDistanceOnly), k)

\* sort_by(total_cmp then id), then truncate.
Nearest(q, rows, k) == Truncate(SortBy(Scored(q, rows), ByDistanceThenId), k)

\* SearchOptions::with_top_k
TopKAccepted(k) == k \in 1..MaxTopK

\* The rows a search keeps: no Tombstone hides them and they pass.
Found(d, predicate) ==
    {i \in DOMAIN d.rows : /\ ~IsRecordTombstoned(d, d.rows[i])
                           /\ Passes(predicate, d.rows[i])}

Search(d, q, predicate, k) ==
    IF q = Misfit \/ ~Valid(predicate) THEN Refused
    ELSE Nearest(q, RowsAt(d, Found(d, predicate)), k)

-----------------------------------------------------------------------------
(* The browser session's paths *)

ParseOptional(node) ==
    IF node = NoPredicate THEN NoPredicate ELSE ParsePredicate(Schema, node)

\* search_advanced; `search` is the same without a predicate.
SearchAdvanced(d, q, node, k) ==
    LET predicate == ParseOptional(node)
    IN  IF ~TopKAccepted(k) \/ predicate = Refused THEN Refused
        ELSE Search(d, q, predicate, k)

\* The rows that pass, hidden or not.
Stored(d, predicate) == {i \in DOMAIN d.rows : Passes(predicate, d.rows[i])}

\* A bug a review must rule out: the oracle breaks ties by insertion order.
ExactUnstable(d, q, node, k) ==
    LET predicate == ParseOptional(node)
    IN  IF q = Misfit \/ k = 0 \/ predicate = Refused THEN Refused
        ELSE IF ~Valid(predicate) THEN Refused
        ELSE NearestUnstable(q, RowsAt(d, Stored(d, predicate)), k)

\* exact_search_advanced: every row of the Delta, hidden or not.
ExactSearchAdvanced(d, q, node, k) ==
    LET predicate == ParseOptional(node)
    IN  IF q = Misfit \/ k = 0 \/ predicate = Refused THEN Refused
        ELSE IF ~Valid(predicate) THEN Refused
        ELSE Nearest(q, RowsAt(d, Stored(d, predicate)), k)

\* A bug a review must rule out: the profile scans hidden rows too.
ProfileHidden(d, q, node, k) ==
    LET predicate == ParseOptional(node)
        matched == RowsAt(d, Stored(d, predicate))
    IN  IF q = Misfit \/ ~TopKAccepted(k) \/ predicate = Refused THEN Refused
        ELSE IF ~Valid(predicate) THEN Refused
        ELSE [total_rows |-> Len(d.rows), matched_rows |-> Len(matched),
              returned_rows |-> Len(Nearest(q, matched, k))]

\* profile_search: the rows its filter keeps and the rows it returns.
ProfileSearch(d, q, node, k) ==
    LET predicate == ParseOptional(node)
        matched == RowsAt(d, {i \in Stored(d, predicate) :
                                 d.rows[i].id \notin d.tombstoned_ids})
    IN  IF q = Misfit \/ ~TopKAccepted(k) \/ predicate = Refused THEN Refused
        ELSE IF ~Valid(predicate) THEN Refused
        ELSE [total_rows |-> Len(d.rows), matched_rows |-> Len(matched),
              returned_rows |-> Len(Nearest(q, matched, k))]

\* The positions of one sealed chunk, and of the active chunk.
ChunkPositions(n) ==
    ((n - 1) * TARGET_SEGMENT_ROWS + 1)..(n * TARGET_SEGMENT_ROWS)

ActivePositions(d) == (d.sealed * TARGET_SEGMENT_ROWS + 1)..Len(d.rows)

\* The inspector calls a row dead when its id has a Tombstone.
DeadAmong(d, positions) ==
    Cardinality({i \in positions : d.rows[i].id \in d.tombstoned_ids})

\* A bug a review must rule out: the active chunk's dead rows are not counted.
ExportSealedOnly(d) ==
    [sealed_counts |-> [n \in 1..d.sealed |-> TARGET_SEGMENT_ROWS],
     sealed_dead |-> [n \in 1..d.sealed |-> DeadAmong(d, ChunkPositions(n))],
     active_total |-> ActiveRows(d), active_dead |-> 0,
     tombstoned_ids |-> Cardinality(d.tombstoned_ids),
     total_rows |-> Len(d.rows)]

ExportLifecycle(d) ==
    [sealed_counts |-> [n \in 1..d.sealed |-> TARGET_SEGMENT_ROWS],
     sealed_dead |-> [n \in 1..d.sealed |-> DeadAmong(d, ChunkPositions(n))],
     active_total |-> ActiveRows(d),
     active_dead |-> DeadAmong(d, ActivePositions(d)),
     tombstoned_ids |-> Cardinality(d.tombstoned_ids),
     total_rows |-> Len(d.rows)]

-----------------------------------------------------------------------------
(* Behaviour *)

Init == delta = NewDelta /\ calls = 0

\* insert_with_metadata: a batch with a row that does not fit is refused whole.
InsertBatch(batch) ==
    /\ Accepts(batch)
    /\ delta' = Insert(delta, batch)

DeleteIds(ids) == delta' = Delete(delta, ids)

UpdateBatch(batch) == delta' = Update(delta, batch)

\* A compaction, as far as a reader of the Delta can tell.
Compact == delta' = Merge(delta)

Next ==
    /\ calls < MaxCalls
    /\ calls' = calls + 1
    /\ \/ \E batch \in Batches : InsertBatch(batch) \/ UpdateBatch(batch)
       \/ \E ids \in SUBSET Ids : DeleteIds(ids)
       \/ Compact

Spec == Init /\ [][Next]_vars

-----------------------------------------------------------------------------
(* Properties *)

\* The Delta is a lineage over the Table's payloads.
TypeOK == delta \in DeltaType /\ calls \in 0..MaxCalls

\* No id is visible twice: the caller overwrites by update, not by insert.
OneVersionEach(d) ==
    \A id \in Ids : Cardinality(VisiblePositions(d, id)) <= 1

\* What the nearest k of an abstract Table are, without a sort: as many as
\* there are up to k, in order, and nothing left out comes before one of them.
IsTopK(hits, table, q, predicate, k) ==
    LET passing == {id \in Ids :
                       /\ table[id] # Absent
                       /\ Passes(predicate, [value |-> table[id]])}
        found == {hits[i].id : i \in DOMAIN hits}
        Before(a, b) ==
            \/ Score[q][table[a]] < Score[q][table[b]]
            \/ Score[q][table[a]] = Score[q][table[b]] /\ a < b
    IN  /\ Len(hits) = Min({k, Cardinality(passing)})
        /\ found \subseteq passing
        /\ \A i \in DOMAIN hits : hits[i].value = table[hits[i].id]
        /\ \A i, j \in DOMAIN hits : i < j => Before(hits[i].id, hits[j].id)
        /\ \A out \in passing \ found, in \in found : Before(in, out)

\* Whatever the history of inserts, deletes, updates and merges, and whatever
\* ties or NaN distances the query has, search (search.rs:288-332) answers with
\* the k nearest of the Table's newest visible payloads, in one order: so an
\* answer is the same before and after a compaction.
SearchIsNewestVisible ==
    OneVersionEach(delta) =>
        \A q \in Queries, node \in Nodes \cup {NoPredicate}, k \in 1..MaxTopK :
            LET hits == SearchAdvanced(delta, q, node, k)
            IN  hits # Refused =>
                    IsTopK(hits, NewestVisible(delta), q, ParseOptional(node), k)

\* While no Tombstone is in the lineage the session's oracle
\* (ferrite-wasm lib.rs:807-873) is the "like-for-like baseline" of
\* search_advanced up to the limit of with_top_k (search.rs:219-227): it
\* refuses the same requests and gives the same hits.  Beyond the limit, which
\* the oracle does not have, search refuses every request; the oracle refuses
\* those search refuses at the limit, and its other answers go on where those
\* of search at the limit end.
OracleAgreesUntilDelete ==
    delta.tombstones = {} =>
        \A q \in Queries \cup {Misfit}, node \in Nodes \cup {NoPredicate},
           k \in 0..(MaxTopK + 1) :
            LET exact == ExactSearchAdvanced(delta, q, node, k)
                hits == SearchAdvanced(delta, q, node, k)
                most == SearchAdvanced(delta, q, node, MaxTopK)
            IN  IF k <= MaxTopK THEN exact = hits
                ELSE /\ hits = Refused
                     /\ IF most = Refused THEN exact = Refused
                        ELSE exact # Refused /\ Truncate(exact, MaxTopK) = most

\* The profile (ferrite-wasm lib.rs:875-958) refuses what search refuses and
\* never returns more rows than search; it returns fewer only when an id that
\* has a Tombstone is visible again.
ProfileCountsSearch ==
    \A q \in Queries \cup {Misfit}, node \in Nodes \cup {NoPredicate},
       k \in 0..(MaxTopK + 1) :
        LET profile == ProfileSearch(delta, q, node, k)
            hits == SearchAdvanced(delta, q, node, k)
        IN  /\ profile = Refused <=> hits = Refused
            /\ profile # Refused =>
                  /\ profile.returned_rows <= Len(hits)
                  /\ (\A id \in delta.tombstoned_ids :
                          VisiblePositions(delta, id) = {})
                         => profile.returned_rows = Len(hits)

\* The sum of a sequence of numbers.
Total(counts) ==
    LET upTo[n \in 0..Len(counts)] ==
            IF n = 0 THEN 0 ELSE upTo[n - 1] + counts[n]
    IN  upTo[Len(counts)]

\* The inspector's chunk by chunk count of dead rows (ferrite-wasm
\* lib.rs:534-575) and the profile's scan account for every row of the Delta
\* exactly once, across every chunk boundary.
InspectorMatchesProfile ==
    LET export == ExportLifecycle(delta)
        dead == export.active_dead + Total(export.sealed_dead)
        rows == export.active_total + Total(export.sealed_counts)
    IN  /\ rows = export.total_rows
        /\ \A q \in Queries :
              dead + ProfileSearch(delta, q, NoPredicate, 1).matched_rows = rows

\* The literals a Rust caller may compare a column with, NaN included.
Literals(column) == {Meta[v][column] : v \in Values}

\* On every stored row a validated comparison and its complement split the
\* rows: ne is not eq, lte is lt or eq, gte is gt or eq, and exactly one of lt,
\* eq and gt holds unless a NaN takes part, when none does (search.rs:103-194).
PredicatesPartition ==
    \A i \in DOMAIN delta.rows, n \in DOMAIN Schema :
        LET column == Schema[n].name
            meta == Meta[delta.rows[i].value]
        IN  \A literal \in Literals(column) :
                LET Leaf(op) == <<[op |-> op, column |-> column, value |-> literal]>>
                    Holds(op) == MatchesRow(Leaf(op), meta)
                    nan == IsNaN(literal) \/ IsNaN(meta[column])
                IN  /\ Valid(Leaf("eq")) => (Holds("ne") <=> ~Holds("eq"))
                    /\ Valid(Leaf("lt")) =>
                          /\ Holds("lte") <=> (Holds("lt") \/ Holds("eq"))
                          /\ Holds("gte") <=> (Holds("gt") \/ Holds("eq"))
                          /\ Cardinality({op \in {"lt", "eq", "gt"} : Holds(op)})
                                = IF nan THEN 0 ELSE 1

\* An update (write_path.rs:170-178) either leaves the Delta as it is or makes
\* the rows of its batch, and no older row, the visible rows of their ids;
\* other ids keep what they had.
UpdateReplaces ==
    \A batch \in Batches :
        LET after == Update(delta, batch)
            Shown(d, id) == [i \in VisiblePositions(d, id) |-> d.rows[i].value]
        IN  IF Accepts(batch)
            THEN \A id \in Ids :
                    IF At(batch, id) = {}
                    THEN Shown(after, id) = Shown(delta, id)
                    ELSE /\ Cardinality(VisiblePositions(after, id))
                                = Cardinality(At(batch, id))
                         /\ NewestVisible(after)[id] = batch[Max(At(batch, id))].value
            ELSE after = delta
=============================================================================
