------------------------------ MODULE Fixture -------------------------------
(***************************************************************************)
(* Benchmark fixtures (corpus-gen): what the uniform and the clustered     *)
(* generator compute, the five files write_to_dir leaves behind, and what  *)
(* load accepts.                                                           *)
(*                                                                         *)
(* One generator process writes into a directory at a time and may die     *)
(* between two system calls; another may follow.  A benchmark process      *)
(* reads the same directory meanwhile, one file after the other.           *)
(*                                                                         *)
(* A file is [of, len]: a prefix of what the configuration `of` writes, in *)
(* fields of its format.  The PRNG streams are constants.  Components are  *)
(* such that no distance is a NaN.  Left out for it are what the clustered *)
(* generator does not check: a center_mean that is not finite, and numbers *)
(* so large that a sum of squares overflows.                               *)
(***************************************************************************)
EXTENDS Ranking, Listing

CONSTANTS
    Configs,            \* CorpusConfig and ClusteredConfig, see GenerateAccepts
    Distance(_, _, _),  \* Distance(metric, query, row)
    Draw(_, _, _),      \* Draw(family, seed, row): the category stream
    CategoryWidth,      \* 2^16: a category is a u16
    SiftDirs,           \* SIFT directories: three sequences of record widths
    SiftAnswer(_, _),   \* SiftAnswer(q, n): the n-th row the truth file names
    Err,                \* a load that refuses
    Missing,            \* no such file
    Idle,               \* no generator, or no benchmark, is running
    None,
    MaxWrites           \* bound: generator processes in one behaviour

ASSUME FixtureAssumption ==
    /\ CategoryWidth \in Nat \ {0}
    /\ MaxWrites \in Nat

Families == {"uniform", "clustered"}

\* What a configuration counts is an unsigned number; a file that is there can
\* be told from one that is not.
ASSUME ConfigsAssumption ==
    /\ \A c \in Configs :
          /\ c.family \in Families
          /\ c.num_vectors \in Nat /\ c.dimension \in Nat
          /\ c.num_queries \in Nat /\ c.top_k \in Nat
          /\ c.num_categories \in Nat
    /\ Missing \notin [of : Configs, len : Nat]
    /\ \A dir \in SiftDirs :
          dir.base \in Seq(Nat) /\ dir.query \in Seq(Nat) /\ dir.truth \in Seq(Nat)

VARIABLES
    disk,     \* the directory: what each of Files holds
    writer,   \* the generator in write_to_dir: [of, at, created] or Idle
    written,  \* history: the configuration of the last process, if it finished
    writes,   \* generator processes so far
    reader    \* the benchmark: [kind, got], what it has read, or Idle

fixtureVars == <<disk, writer, written, writes, reader>>

-----------------------------------------------------------------------------
(* generate *)

\* The guards of generate.
UniformAccepts(c) ==
    /\ c.dimension > 0 /\ c.top_k > 0
    /\ c.num_vectors > 0 /\ c.num_queries > 0

\* The guards of its clustered twin.
ClusteredAccepts(c) ==
    /\ c.dimension > 0 /\ c.top_k > 0
    /\ c.num_vectors > 0 /\ c.num_queries > 0
    /\ c.num_clusters > 0 /\ c.cluster_stddev > 0 /\ c.center_stddev > 0

\* The mode of the command line, and `% 0` in next_category, which panics: in
\* every refused case nothing is written.
GenerateAccepts(c) ==
    /\ IF c.family = "uniform" THEN UniformAccepts(c) ELSE ClusteredAccepts(c)
    /\ c.num_categories > 0

\* Which vectors a configuration draws, one row after the other: a larger
\* corpus extends a smaller one.
UniformStream(c) == <<c.family, c.seed, c.dimension>>

\* Centres, assignments and noise.
ClusteredStream(c) ==
    <<c.family, c.seed, c.dimension, c.num_clusters, c.cluster_stddev,
      c.center_mean, c.center_stddev>>

Stream(c) ==
    IF c.family = "uniform" THEN UniformStream(c) ELSE ClusteredStream(c)

Vectors(c, count) == [i \in 1..count |-> [stream |-> Stream(c), n |-> i]]

\* Finite components: no distance between generated vectors of one dimension
\* is a NaN, whatever the metric.
ASSUME DistanceAssumption ==
    \A c, d, e \in Configs : d.dimension = e.dimension =>
        \A q \in 1..d.num_queries, i \in 1..e.num_vectors :
            Distance(c.metric, Vectors(d, d.num_queries)[q],
                     Vectors(e, e.num_vectors)[i]) \in Int \ NaNs

\* next_category: the remainder is cut to a u16.
Categories(c) ==
    [i \in 1..c.num_vectors |->
        (Draw(c.family, c.seed, i) % c.num_categories) % CategoryWidth]

\* The rows at the positions kept, one after the other.
Candidates(metric, query, rows, kept) ==
    LET order == Ascending(kept)
    IN  [n \in 1..Len(order) |->
            [id |-> order[n],
             distance |-> Distance(metric, query, rows[order[n]])]]

\* exact_top_k: ties go to the smaller row index.
ExactTopK(metric, query, rows, k) ==
    IdsOf(InsertionTopK(Candidates(metric, query, rows, DOMAIN rows), k,
                        ByDistanceThenId))

Generate(c) ==
    LET rows == Vectors(c, c.num_vectors)
        queries == Vectors(c, c.num_queries)
    IN  [corpus |-> rows, categories |-> Categories(c), queries |-> queries,
         ground_truth |-> [q \in DOMAIN queries |->
                              ExactTopK(c.metric, queries[q], rows, c.top_k)]]

-----------------------------------------------------------------------------
(* serialize *)

Files == <<"corpus", "meta", "queries", "ground_truth", "manifest">>
DataFiles == {"corpus", "meta", "queries", "ground_truth"}

\* Magic, version, counts.  The two fields load reads of a manifest, each up to
\* the character that ends it, stand in for its header.
HeaderLength(f) ==
    CASE f = "meta" -> 3
      [] f = "manifest" -> 2
      [] OTHER -> 4

\* What the generators write after the header: an entry of the ground truth has
\* as many neighbours as there are rows, up to top_k.
BodyLength(c, f) ==
    CASE f = "corpus" -> c.num_vectors * c.dimension
      [] f = "meta" -> c.num_vectors
      [] f = "queries" -> c.num_queries * c.dimension
      [] f = "ground_truth" ->
            c.num_queries * 2 *
                (IF c.top_k < c.num_vectors THEN c.top_k ELSE c.num_vectors)
      [] f = "manifest" -> 1

FullLength(c, f) == HeaderLength(f) + BodyLength(c, f)

Whole(c, f) == [of |-> c, len |-> FullLength(c, f)]

-----------------------------------------------------------------------------
(* load *)

\* What load asks of the Reader after the header.  The header of the ground
\* truth records top_k, whatever the entries hold.
BodyRead(c, f) ==
    CASE f = "ground_truth" -> c.num_queries * 2 * c.top_k
      [] f = "manifest" -> 0
      [] OTHER -> BodyLength(c, f)

\* A bug a review must rule out: the Reader lets the last field be missing.
ReadableShort(family, f, file) ==
    /\ file # Missing
    /\ file.len >= HeaderLength(f)
    /\ f \in DataFiles => file.of.family = family
    /\ file.len + 1 >= HeaderLength(f) + BodyRead(file.of, f)

\* Magic and Reader::take; nothing in the manifest names its family for load.
Readable(family, f, file) ==
    /\ file # Missing
    /\ file.len >= HeaderLength(f)
    /\ f \in DataFiles => file.of.family = family
    /\ file.len >= HeaderLength(f) + BodyRead(file.of, f)

\* A bug a review must rule out: the counts are not compared across files.
SameDimension(got) == got.queries.of.dimension = got.corpus.of.dimension

\* The three comparisons after the files are parsed.
CountsAgree(got) ==
    /\ got.queries.of.dimension = got.corpus.of.dimension
    /\ got.meta.of.num_vectors = got.corpus.of.num_vectors
    /\ got.ground_truth.of.num_queries = got.queries.of.num_queries

\* load on the contents of five files; the magic tells the families apart.
Load(family, got) ==
    IF \/ \E f \in DOMAIN got : ~Readable(family, f, got[f])
       \/ ~CountsAgree(got)
       \/ got.manifest.of.num_categories = 0
    THEN Err
    ELSE [dimension |-> got.corpus.of.dimension,
          metric |-> got.manifest.of.metric,
          num_categories |-> got.manifest.of.num_categories,
          corpus |-> Generate(got.corpus.of).corpus,
          categories |-> Generate(got.meta.of).categories,
          queries |-> Generate(got.queries.of).queries,
          ground_truth |-> Generate(got.ground_truth.of).ground_truth,
          top_k |-> got.ground_truth.of.top_k]

\* clustered::load mirrors load, for the other magic.
LoadClustered(got) == Load("clustered", got)

-----------------------------------------------------------------------------
(* load_sift *)

\* parse_fvecs, parse_ivecs: records of one plausible width, at least one.
\* A truncated record is a width of 0.
RecordWidth(widths) ==
    IF /\ widths # <<>>
       /\ \A i \in DOMAIN widths : widths[i] > 0 /\ widths[i] = widths[1]
    THEN widths[1]
    ELSE Err

SiftRecords(name, widths) ==
    [i \in DOMAIN widths |-> [stream |-> <<"sift", name>>, n |-> i]]

\* The answers are what the file says.
LoadSift(dir) ==
    LET width == RecordWidth(dir.base)
        neighbours == RecordWidth(dir.truth)
    IN  IF \/ width = Err \/ neighbours = Err
           \/ RecordWidth(dir.query) # width
        THEN Err
        ELSE [dimension |-> width, metric |-> "L2", num_categories |-> 0,
              corpus |-> SiftRecords("base", dir.base),
              categories |-> [i \in DOMAIN dir.base |-> 0],
              queries |-> SiftRecords("query", dir.query),
              ground_truth |->
                  [q \in DOMAIN dir.truth |->
                      [n \in 1..neighbours |-> SiftAnswer(q, n)]],
              top_k |-> neighbours]

-----------------------------------------------------------------------------
(* The processes *)

FixtureInit ==
    /\ disk = [f \in {Files[i] : i \in DOMAIN Files} |-> Missing]
    /\ writer = Idle
    /\ written = None
    /\ writes = 0
    /\ reader = Idle

\* The command line generates and serializes, then opens the first file.
Start(c) ==
    /\ writer = Idle
    /\ writes < MaxWrites
    /\ GenerateAccepts(c)
    /\ writer' = [of |-> c, at |-> 1, created |-> FALSE]
    /\ written' = None
    /\ writes' = writes + 1
    /\ UNCHANGED <<disk, reader>>

\* A bug a review must rule out: the file is opened without truncating it.
OpenFile ==
    /\ writer # Idle
    /\ ~writer.created
    /\ LET f == Files[writer.at]
       IN  disk' = [disk EXCEPT ![f] =
                       [of |-> writer.of,
                        len |-> IF disk[f] = Missing THEN 0 ELSE disk[f].len]]
    /\ writer' = [writer EXCEPT !.created = TRUE]
    /\ UNCHANGED <<written, writes, reader>>

\* File::create truncates what was there.
CreateFile ==
    /\ writer # Idle
    /\ ~writer.created
    /\ disk' = [disk EXCEPT ![Files[writer.at]] = [of |-> writer.of, len |-> 0]]
    /\ writer' = [writer EXCEPT !.created = TRUE]
    /\ UNCHANGED <<written, writes, reader>>

\* write_all, seen from outside after one of its writes.  One field short of the
\* end stands for every prefix that is not empty: bound.
WritePart ==
    /\ writer # Idle
    /\ writer.created
    /\ LET f == Files[writer.at]
       IN  /\ disk[f].len = 0
           /\ disk' = [disk EXCEPT ![f].len = FullLength(writer.of, f) - 1]
    /\ UNCHANGED <<writer, written, writes, reader>>

\* A bug a review must rule out: the manifest is only written when it is new.
KeepManifest ==
    /\ writer # Idle
    /\ writer.created
    /\ disk' = [disk EXCEPT ![Files[writer.at]] =
                               Whole(writer.of, Files[writer.at])]
    /\ IF writer.at = 4 /\ disk.manifest # Missing
       THEN writer' = Idle /\ written' = writer.of
       ELSE IF writer.at = Len(Files)
       THEN writer' = Idle /\ written' = writer.of
       ELSE /\ writer' = [writer EXCEPT !.at = @ + 1, !.created = FALSE]
            /\ UNCHANGED written
    /\ UNCHANGED <<writes, reader>>

\* write_all returns; the next file, or the end of write_to_dir.
FinishFile ==
    /\ writer # Idle
    /\ writer.created
    /\ disk' = [disk EXCEPT ![Files[writer.at]] =
                               Whole(writer.of, Files[writer.at])]
    /\ IF writer.at = Len(Files)
       THEN writer' = Idle /\ written' = writer.of
       ELSE /\ writer' = [writer EXCEPT !.at = @ + 1, !.created = FALSE]
            /\ UNCHANGED written
    /\ UNCHANGED <<writes, reader>>

\* An I/O error, or the process dies: the files stay as they are.
Fail ==
    /\ writer # Idle
    /\ writer' = Idle
    /\ UNCHANGED <<disk, written, writes, reader>>

\* A benchmark process starts to load the directory.
BeginLoad ==
    /\ reader = Idle
    /\ reader' = [kind |-> "fixture", got |-> <<>>]
    /\ UNCHANGED <<disk, writer, written, writes>>

\* read_file, in the order both loads call it before they look at anything; the
\* first missing file ends it.
ReadFile ==
    /\ reader # Idle
    /\ reader.kind = "fixture"
    /\ Len(reader.got) < Len(Files)
    /\ \A i \in DOMAIN reader.got : reader.got[i] # Missing
    /\ reader' = [reader EXCEPT !.got = Append(@, disk[Files[Len(@) + 1]])]
    /\ UNCHANGED <<disk, writer, written, writes>>

ReadSift(dir) ==
    /\ reader = Idle
    /\ reader' = [kind |-> "sift", got |-> dir]
    /\ UNCHANGED <<disk, writer, written, writes>>

FixtureNext ==
    \/ \E c \in Configs : Start(c)
    \/ CreateFile \/ WritePart \/ FinishFile \/ Fail
    \/ BeginLoad \/ ReadFile
    \/ \E dir \in SiftDirs : ReadSift(dir)

FixtureSpec == FixtureInit /\ [][FixtureNext]_fixtureVars

-----------------------------------------------------------------------------
(* What the benchmark has in its hands *)

Contents(got) ==
    [f \in {Files[i] : i \in DOMAIN Files} |->
        got[CHOOSE i \in DOMAIN Files : Files[i] = f]]

\* All five files have been read.
HasFixture ==
    /\ reader # Idle
    /\ reader.kind = "fixture"
    /\ Len(reader.got) = Len(Files)
    /\ \A i \in DOMAIN reader.got : reader.got[i] # Missing

HasSift == reader # Idle /\ reader.kind = "sift"

\* What the load the benchmark called returns; which of the two it calls
\* matters only once the files are read.
LoadedAs(family) ==
    IF HasFixture /\ family = "uniform"
    THEN Load(family, Contents(reader.got))
    ELSE IF HasFixture /\ family = "clustered"
    THEN LoadClustered(Contents(reader.got))
    ELSE IF HasSift /\ family = "sift" THEN LoadSift(reader.got)
    ELSE Err

FileType == {Missing} \cup [of : Configs, len : Nat]

\* Files are prefixes of what some configuration writes, and the writer is
\* inside write_to_dir.
FixtureTypeOK ==
    /\ \A f \in DOMAIN disk :
          /\ disk[f] \in FileType
          /\ disk[f] # Missing => disk[f].len <= FullLength(disk[f].of, f)
    /\ writer \in {Idle} \cup [of : Configs, at : DOMAIN Files, created : BOOLEAN]
    /\ written \in {None} \cup Configs
    /\ writes \in 0..MaxWrites
    /\ reader # Idle /\ reader.kind = "fixture" =>
          /\ reader.got \in Seq(FileType)
          /\ Len(reader.got) <= Len(Files)

\* Whatever an earlier process left half-written, and whoever reads meanwhile:
\* once a generator has finished, load of its family returns exactly what it
\* generated, "Contents are identical to what was generated" (corpus-gen lib.rs:395-396),
\* and the other family's load refuses (clustered.rs:454-455); except for a
\* configuration that asks for more neighbours than it has rows, whose fixture
\* load always refuses as truncated.
WholeFixtureLoads ==
    written # None =>
        LET generated == Generate(written)
        IN  /\ \A other \in Families \ {written.family} :
                  Load(other, disk) = Err
            /\ IF written.top_k > written.num_vectors
               THEN Load(written.family, disk) = Err
               ELSE Load(written.family, disk) =
                      [dimension |-> written.dimension, metric |-> written.metric,
                       num_categories |-> written.num_categories,
                       corpus |-> generated.corpus,
                       categories |-> generated.categories,
                       queries |-> generated.queries,
                       ground_truth |-> generated.ground_truth,
                       top_k |-> written.top_k]

\* load, whatever writers did before and during its five reads, accepts no file
\* cut short: each data file it took was whole when it was read, so a crash in
\* write_to_dir (corpus-gen lib.rs:371-389) is never measured as a smaller corpus.
OnlyWholeFilesLoad ==
    \A family \in Families :
        LoadedAs(family) # Err =>
            \A f \in DataFiles :
                LET file == Contents(reader.got)[f]
                IN  file = Whole(file.of, f) /\ file.of.family = family
=============================================================================
