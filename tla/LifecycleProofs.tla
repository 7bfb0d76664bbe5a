--------------------------- MODULE LifecycleProofs ---------------------------
(***************************************************************************)
(* Theorems about the Lifecycle, for any number of writers, background     *)
(* jobs, ids, payloads, batches and calls and for any thresholds.          *)
(***************************************************************************)
EXTENDS Lifecycle, CompactionProofs

\* The rows a lineage has hidden can be counted.
LEMMA DeadRowsType ==
    ASSUME NEW d \in DeltaType
    PROVE  DeadRows(d) \in Nat
  <1> DEFINE Dead == {i \in DOMAIN d.rows : IsRecordTombstoned(d, d.rows[i])}
  <1>1. Dead \in SUBSET (1..Len(d.rows))
    BY DeltaFields
  <1>2. IsFiniteSet(1..Len(d.rows))
    BY DeltaFields, FS_Interval
  <1>3. DeadRows(d) = Cardinality(Dead)
    BY DEF DeadRows
  <1> HIDE DEF Dead
  <1>4. IsFiniteSet(Dead)
    BY <1>1, <1>2, FS_Subset
  <1>5. QED BY <1>3, <1>4, FS_CardinalityType

\* A report about a lineage is a report.
LEMMA ReportIsTyped ==
    ASSUME NEW d \in DeltaType, Lineage(d), NEW trigger \in TriggerKind
    PROVE  Report(d, trigger) \in ReportType
  <1>1. Merge(d) \in DeltaType
    BY MergeIsSound
  <1>2. /\ Merge(d).sealed \in Nat /\ Len(Merge(d).rows) \in Nat
        /\ d.sealed \in Nat /\ Len(d.rows) \in Nat
    BY <1>1, DeltaFields
  <1>3. Cardinality(RetainedIds(d)) \in Nat
    <2>1. RetainedIds(d) \in SUBSET Ids
      BY RetainedShape
    <2>2. IsFiniteSet(RetainedIds(d))
      BY <2>1, IdsFinite
    <2>3. QED BY <2>2, FS_CardinalityType
  <1>5. DeadRows(d) \in Nat
    BY DeadRowsType
  <1>6. QED
    BY <1>2, <1>3, <1>5 DEF Report, ReportType

-----------------------------------------------------------------------------
(* The inductive invariant: a thread about to commit holds a replacement,  *)
(* and every lineage in sight is well formed.                              *)

Holding ==
    \A t \in Threads : pc[t] \in {"commit", "commit_merge"} => next[t] # NoDelta

IInv == TypeOK /\ LineagesWellFormed /\ Holding

\* The Lifecycle starts with an empty, well-formed lineage.
LEMMA InitIInv == Init => IInv
  <1> SUFFICES ASSUME Init PROVE IInv
    OBVIOUS
  <1>1. TypeOK
    BY NewDeltaLineage, LifecycleAssumption DEF Init, TypeOK, Phases
  <1>2. LineagesWellFormed
    BY NewDeltaLineage DEF Init, LineagesWellFormed
  <1>3. Holding
    BY DEF Init, Holding
  <1>4. QED BY <1>1, <1>2, <1>3 DEF IInv

\* Handing a well-formed replacement to a thread keeps the invariant.
LEMMA BuildKeepsIInv ==
    ASSUME IInv, NEW t \in Threads, NEW d \in DeltaType, Lineage(d),
           NEW phase \in Phases,
           next' = [next EXCEPT ![t] = d],
           pc' = [pc EXCEPT ![t] = phase],
           call' \in [Writers -> Request \cup {NoCall}],
           report' \in [Threads -> ReportType \cup {NoReport}],
           calls' \in 0..MaxCalls,
           UNCHANGED <<published, last_report, stop>>
    PROVE  IInv'
  <1>1. TypeOK'
    BY DEF IInv, TypeOK
  <1>2. LineagesWellFormed'
    BY DEF IInv, TypeOK, LineagesWellFormed
  <1>3. Holding'
    BY LifecycleAssumption DEF IInv, TypeOK, Holding
  <1>4. QED BY <1>1, <1>2, <1>3 DEF IInv

\* Publishing a held replacement keeps the invariant.
LEMMA PublishKeepsIInv ==
    ASSUME IInv, NEW t \in Threads, pc[t] \in {"commit", "commit_merge"},
           Publish(t), NEW phase \in Phases \ {"commit", "commit_merge"},
           pc' = [pc EXCEPT ![t] = phase],
           call' \in [Writers -> Request \cup {NoCall}],
           UNCHANGED <<report, last_report, stop, calls>>
    PROVE  IInv'
  <1>1. next[t] \in DeltaType /\ Lineage(next[t])
    BY DEF IInv, TypeOK, LineagesWellFormed, Holding
  <1>2. TypeOK'
    BY <1>1 DEF IInv, TypeOK, Publish
  <1>3. LineagesWellFormed'
    BY <1>1 DEF IInv, TypeOK, LineagesWellFormed, Publish
  <1>4. Holding'
    BY DEF IInv, TypeOK, Holding, Publish
  <1>5. QED BY <1>2, <1>3, <1>4 DEF IInv

\* A step that only moves a thread to a phase without a replacement, or only
\* touches the flags and reports, keeps the invariant.
LEMMA QuietStepKeepsIInv ==
    ASSUME IInv, TypeOK', UNCHANGED <<published, next>>,
           \A t \in Threads : pc'[t] \in {"commit", "commit_merge"} => pc'[t] = pc[t]
    PROVE  IInv'
  BY DEF IInv, LineagesWellFormed, Holding

\* Every step of a caller or a job keeps the invariant.
LEMMA NextKeepsIInv == IInv /\ [Next]_vars => IInv'
  <1> SUFFICES ASSUME IInv, [Next]_vars PROVE IInv'
    OBVIOUS
  <1> USE DEF Threads
  <1>1. /\ TypeOK /\ published \in DeltaType /\ Lineage(published)
    BY DEF IInv, TypeOK, LineagesWellFormed
  <1>2. ASSUME NEW w \in Writers, NEW batch \in Batches, BeginInsert(w, batch)
        PROVE  IInv'
    <2>1. batch \in Seq(InputRow) /\ Accepts(batch)
      BY <1>2, BatchesAssumption DEF BeginInsert
    <2>2. Insert(published, batch) \in DeltaType /\ Lineage(Insert(published, batch))
      BY <1>1, <2>1, InsertShape, InsertLineage DEF Lineage
    <2>3. calls' \in 0..MaxCalls /\ report' \in [Threads -> ReportType \cup {NoReport}]
      BY <1>1, <1>2, LifecycleAssumption DEF BeginInsert, Issue, TypeOK
    <2>4. "commit" \in Phases
      BY DEF Phases
    <2>5. call' \in [Writers -> Request \cup {NoCall}]
      BY <1>1, <1>2, <2>1 DEF BeginInsert, TypeOK, Request
    <2>6. QED
      BY <1>2, <2>2, <2>3, <2>4, <2>5, BuildKeepsIInv DEF BeginInsert
  <1>3. ASSUME NEW w \in Writers, NEW batch \in Batches, RejectInsert(w, batch)
        PROVE  IInv'
    <2>1. TypeOK'
      BY <1>1, <1>3, LifecycleAssumption DEF RejectInsert, Issue, TypeOK
    <2>2. QED
      BY <1>3, <2>1, QuietStepKeepsIInv DEF RejectInsert
  <1>4. ASSUME NEW w \in Writers, NEW ids \in SUBSET Ids, BeginDelete(w, ids)
        PROVE  IInv'
    <2>1. Delete(published, ids) \in DeltaType /\ Lineage(Delete(published, ids))
      BY <1>1, DeleteShape, DeleteLineage
    <2>2. calls' \in 0..MaxCalls /\ report' \in [Threads -> ReportType \cup {NoReport}]
      BY <1>1, <1>4, LifecycleAssumption DEF BeginDelete, Issue, TypeOK
    <2>3. "commit" \in Phases
      BY DEF Phases
    <2>4. call' \in [Writers -> Request \cup {NoCall}]
      BY <1>1, <1>4 DEF BeginDelete, TypeOK, Request
    <2>5. QED
      BY <1>4, <2>1, <2>2, <2>3, <2>4, BuildKeepsIInv DEF BeginDelete
  <1>5. ASSUME NEW t \in Threads, NEW trigger \in TriggerKind, BuildMerge(t, trigger),
               calls' \in 0..MaxCalls, UNCHANGED <<published, call, last_report, stop>>
        PROVE  IInv'
    <2>1. Merge(published) \in DeltaType /\ Lineage(Merge(published))
      BY <1>1, MergeIsSound
    <2>2. Report(published, trigger) \in ReportType
      BY <1>1, ReportIsTyped
    <2>3. report' \in [Threads -> ReportType \cup {NoReport}]
      BY <1>1, <1>5, <2>2 DEF BuildMerge, TypeOK
    <2>4. "commit_merge" \in Phases
      BY DEF Phases
    <2>5. call' \in [Writers -> Request \cup {NoCall}]
      BY <1>1, <1>5 DEF TypeOK
    <2>6. QED
      BY <1>5, <2>1, <2>3, <2>4, <2>5, BuildKeepsIInv DEF BuildMerge
  <1>6. ASSUME NEW w \in Writers, BeginCompact(w)
        PROVE  IInv'
    <2>1. calls' \in 0..MaxCalls
      BY <1>1, <1>6, LifecycleAssumption DEF BeginCompact, Issue, TypeOK
    <2>2. "Manual" \in TriggerKind
      BY DEF TriggerKind
    <2>3. QED BY <1>5, <1>6, <2>1, <2>2 DEF BeginCompact
  <1>7. ASSUME NEW w \in Writers, Commit(w)
        PROVE  IInv'
    <2>1. call' \in [Writers -> Request \cup {NoCall}]
      BY <1>1, <1>7 DEF Commit, TypeOK
    <2>2. QED
      BY <1>7, <2>1, PublishKeepsIInv DEF Commit, IInv, Phases
  <1>8. ASSUME NEW t \in Threads, CommitMerge(t)
        PROVE  IInv'
    <2>1. call' \in [Writers -> Request \cup {NoCall}]
      BY <1>1, <1>8 DEF CommitMerge, TypeOK
    <2>2. QED
      BY <1>8, <2>1, PublishKeepsIInv DEF CommitMerge, IInv, Phases
  <1>9. ASSUME NEW t \in Threads, RecordReport(t)
        PROVE  IInv'
    <2>1. TypeOK'
      BY <1>1, <1>9 DEF RecordReport, TypeOK, Phases
    <2>2. QED
      BY <1>1, <1>9, <2>1, QuietStepKeepsIInv DEF RecordReport, TypeOK
  <1>10. ASSUME NEW b \in Backgrounds,
                Spawn(b) \/ Wake(b) \/ Evaluate(b) \/ Join(b)
         PROVE  IInv'
    <2>1. PICK phase \in {"wait", "awake", "armed", "joined"} : pc' = [pc EXCEPT ![b] = phase]
      BY <1>10 DEF Spawn, Wake, Evaluate, Join
    <2>2. UNCHANGED <<published, call, next, report, last_report, stop, calls>>
      BY <1>10 DEF Spawn, Wake, Evaluate, Join
    <2>3. TypeOK'
      BY <1>1, <2>1, <2>2 DEF TypeOK, Phases
    <2>4. QED
      BY <1>1, <2>1, <2>2, <2>3, QuietStepKeepsIInv DEF TypeOK
  <1>11. ASSUME NEW b \in Backgrounds, BeginBackgroundMerge(b)
         PROVE  IInv'
    <2>1. EvaluateTrigger(published) \in TriggerKind
      BY DEF EvaluateTrigger, TriggerKind
    <2>2. calls' \in 0..MaxCalls
      BY <1>1, <1>11 DEF BeginBackgroundMerge, TypeOK
    <2>3. QED BY <1>5, <1>11, <2>1, <2>2 DEF BeginBackgroundMerge
  <1>12. ASSUME NEW b \in Backgrounds, RequestStop(b)
         PROVE  IInv'
    <2>1. TypeOK'
      BY <1>1, <1>12 DEF RequestStop, TypeOK
    <2>2. QED
      BY <1>12, <2>1, QuietStepKeepsIInv DEF RequestStop
  <1>13. CASE UNCHANGED vars
    BY <1>13 DEF vars, IInv, TypeOK, LineagesWellFormed, Holding
  <1>14. CASE Next
    <2>1. CASE \E w \in Writers : WriterStep(w)
      BY <2>1, <1>2, <1>3, <1>4, <1>6, <1>7 DEF WriterStep
    <2>2. CASE \E t \in Threads : CommitMerge(t) \/ RecordReport(t)
      BY <2>2, <1>8, <1>9
    <2>3. CASE \E b \in Backgrounds : JobStep(b)
      BY <2>3, <1>10, <1>11, <1>12 DEF JobStep
    <2>4. QED BY <1>14, <2>1, <2>2, <2>3 DEF Next
  <1>15. QED BY <1>13, <1>14

\* The invariant holds in every reachable state of the Lifecycle.
THEOREM Invariance == Spec => []IInv
  BY InitIInv, NextKeepsIInv, PTL DEF Spec

\* Every variable keeps its type: in particular a thread that commits always
\* has a replacement to commit, whatever the other threads do in between.
THEOREM TypeCorrect == Spec => []TypeOK
  <1>1. IInv => TypeOK
    BY DEF IInv
  <1>2. QED BY <1>1, Invariance, PTL

\* No interleaving of writers and background compactions publishes, or even
\* builds, an ill-formed lineage: the lost updates that interleaving does
\* cause never corrupt a Delta.
THEOREM EveryLineageWellFormed == Spec => []LineagesWellFormed
  <1>1. IInv => LineagesWellFormed
    BY DEF IInv
  <1>2. QED BY <1>1, Invariance, PTL

\* In a well-formed lineage an id whose last row is hidden has no visible row.
LEMMA HiddenIsFullyHidden ==
    ASSUME NEW d \in DeltaType, Lineage(d)
    PROVE  HiddenIds(d) = FullyHidden(d)
  <1>1. ASSUME NEW id \in HiddenIds(d)
        PROVE  VisiblePositions(d, id) = {}
    <2> DEFINE P == At(d.rows, id)
               m == Max(P)
    <2>1. P # {} /\ P \in SUBSET (0..Len(d.rows)) /\ P \subseteq DOMAIN d.rows
      BY DeltaFields DEF At, HiddenIds
    <2>2. m \in P /\ \A i \in P : i <= m
      <3> HIDE DEF P
      <3> QED BY <2>1, MaxOfBounded, DeltaFields
    <2>3. IsRecordTombstoned(d, d.rows[m])
      BY DEF HiddenIds
    <2> HIDE DEF m
    <2>4. ASSUME NEW i \in P
          PROVE  IsRecordTombstoned(d, d.rows[i])
      <3>1. i = m \/ i < m
        BY <2>1, <2>2
      <3>2. QED BY <2>2, <2>3, <3>1 DEF Lineage, HiddenIsPrefix, At
    <2>5. QED BY <2>4 DEF VisiblePositions, At
  <1>2. ASSUME NEW id \in FullyHidden(d)
        PROVE  id \in HiddenIds(d)
    <2> DEFINE P == At(d.rows, id)
               m == Max(P)
    <2>1. /\ id \in Ids /\ P # {} /\ VisiblePositions(d, id) = {}
          /\ P \in SUBSET (0..Len(d.rows))
      BY DeltaFields DEF At, FullyHidden
    <2>2. m \in P
      <3> HIDE DEF P
      <3> QED BY <2>1, MaxOfBounded, DeltaFields
    <2> HIDE DEF m
    <2>3. IsRecordTombstoned(d, d.rows[m])
      BY <2>1, <2>2 DEF At, VisiblePositions
    <2>4. QED BY <2>1, <2>3 DEF HiddenIds, m
  <1>3. HiddenIds(d) \subseteq FullyHidden(d)
    BY <1>1 DEF FullyHidden, HiddenIds
  <1>4. QED BY <1>2, <1>3

\* Whatever the published lineage, a merge of it keeps one row of every visible
\* id and of every hidden id it must not yet forget, and nothing else.
THEOREM EveryMergeIsExact == Spec => []MergeIsExact
  <1>1. ASSUME IInv PROVE MergeIsExact
    <2> DEFINE d == published
               kept == IF DeadRows(d) * PurgeDen <= Len(d.rows) * PurgeNum
                       THEN FullyHidden(d) ELSE {}
    <2>1. d \in DeltaType /\ Lineage(d)
      BY <1>1 DEF IInv, TypeOK, LineagesWellFormed
    <2>2. RetainedIds(d) = kept
      <3>1. DeadRows(d) \in Nat
        BY <2>1, DeadRowsType
      <3>2. /\ DeadRows(d) * PurgeDen \in Int /\ Len(d.rows) * PurgeNum \in Int
        BY <2>1, <3>1, CompactionAssumption, DeltaFields
      <3>3. Purges(d) <=> ~(DeadRows(d) * PurgeDen <= Len(d.rows) * PurgeNum)
        BY <3>2 DEF Purges
      <3>4. QED BY <2>1, <3>3, HiddenIsFullyHidden DEF RetainedIds
    <2>3. /\ \A i, j \in DOMAIN Merge(d).rows :
                 Merge(d).rows[i].id = Merge(d).rows[j].id => i = j
          /\ {Merge(d).rows[i].id : i \in DOMAIN Merge(d).rows}
                 = VisibleIds(d) \cup RetainedIds(d)
          /\ Merge(d).tombstoned_ids = RetainedIds(d)
      BY <2>1, MergeKeeps
    <2>4. NewestVisible(Merge(d)) = NewestVisible(d)
      BY <2>1, MergeIsSound
    <2> HIDE DEF kept
    <2>5. QED BY <2>2, <2>3, <2>4 DEF MergeIsExact, kept
  <1>2. QED BY <1>1, Invariance, PTL

-----------------------------------------------------------------------------
(* The single-writer contract is what makes the Lifecycle a Table: if no   *)
(* two threads hold a replacement at once, what is about to be committed   *)
(* was built from what is still published.                                 *)

\* From its snapshot to its commit.
Holds(t) == pc[t] \in {"commit", "commit_merge"}

\* Writes and merges do not interleave, whoever makes them (ADR 0005,
\* compaction.rs:234-236).
OneAtATime == \A t, u \in Threads : Holds(t) /\ Holds(u) => t = u

\* The simplest way to keep the contract.
SingleWriter == \A t, u \in Threads : t = u

InsertPending(t, batch) ==
    /\ Accepts(batch)
    /\ call[t] = InsertCall(batch)
    /\ next[t] = Insert(published, batch)

DeletePending(t, ids) ==
    /\ call[t] = DeleteCall(ids)
    /\ next[t] = Delete(published, ids)

Current(t) ==
    /\ t \in Writers => (pc[t] = "commit" <=> call[t] # NoCall)
    /\ pc[t] = "commit" => /\ t \in Writers
                           /\ \/ \E batch \in Batches : InsertPending(t, batch)
                              \/ \E ids \in SUBSET Ids : DeletePending(t, ids)
    /\ pc[t] = "commit_merge" => next[t] = Merge(published)

AllCurrent == \A t \in Threads : Current(t)

\* At first no thread holds a replacement.
LEMMA InitAllCurrent == Init => AllCurrent
  BY DEF Init, AllCurrent, Current

\* While no two threads hold a replacement, each one in flight was built from
\* the published Delta and is what the caller asked for.
LEMMA NextKeepsAllCurrent ==
    ASSUME TypeOK, OneAtATime, AllCurrent, [Next]_vars
    PROVE  AllCurrent'
  <1> USE DEF Threads
  <1>1. ASSUME NEW t \in Threads,
               \A u \in Threads \ {t} :
                  /\ pc'[u] = pc[u] /\ next'[u] = next[u]
                  /\ u \in Writers => call'[u] = call[u],
               published' = published \/ Holds(t),
               Current(t)'
        PROVE  AllCurrent'
    <2>1. SUFFICES ASSUME NEW u \in Threads, u # t PROVE Current(u)'
      BY <1>1 DEF AllCurrent
    <2>2. /\ pc'[u] = pc[u] /\ next'[u] = next[u]
          /\ u \in Writers => call'[u] = call[u]
      BY <1>1, <2>1
    <2>3. Current(u)
      BY DEF AllCurrent
    <2>4. CASE published' = published
      BY <2>2, <2>3, <2>4 DEF Current, InsertPending, DeletePending
    <2>5. CASE Holds(t)
      <3>1. ~Holds(u)
        BY <2>1, <2>5 DEF OneAtATime
      <3>2. QED BY <2>2, <2>3, <3>1 DEF Current, Holds
    <2>6. QED BY <1>1, <2>4, <2>5
  <1>2. ASSUME NEW w \in Writers, NEW batch \in Batches, BeginInsert(w, batch)
        PROVE  AllCurrent'
    <2>1. /\ next'[w] = Insert(published', batch) /\ pc'[w] = "commit"
          /\ call'[w] = InsertCall(batch) /\ Accepts(batch)
      BY <1>2 DEF BeginInsert, TypeOK
    <2>2. call'[w] # NoCall
      BY <2>1, NoCallAssumption DEF Request
    <2>3. Current(w)'
      BY <2>1, <2>2 DEF Current, InsertPending
    <2>4. \A u \in Threads \ {w} :
             /\ pc'[u] = pc[u] /\ next'[u] = next[u]
             /\ u \in Writers => call'[u] = call[u]
      BY <1>2 DEF BeginInsert, TypeOK
    <2>5. QED BY <1>1, <1>2, <2>3, <2>4 DEF BeginInsert
  <1>3. ASSUME NEW w \in Writers, NEW ids \in SUBSET Ids, BeginDelete(w, ids)
        PROVE  AllCurrent'
    <2>1. /\ next'[w] = Delete(published', ids) /\ pc'[w] = "commit"
          /\ call'[w] = DeleteCall(ids)
      BY <1>3 DEF BeginDelete, TypeOK
    <2>2. call'[w] # NoCall
      BY <2>1, NoCallAssumption DEF Request
    <2>3. Current(w)'
      BY <2>1, <2>2 DEF Current, DeletePending
    <2>4. \A u \in Threads \ {w} :
             /\ pc'[u] = pc[u] /\ next'[u] = next[u]
             /\ u \in Writers => call'[u] = call[u]
      BY <1>3 DEF BeginDelete, TypeOK
    <2>5. QED BY <1>1, <1>3, <2>3, <2>4 DEF BeginDelete
  <1>4. ASSUME NEW t \in Threads, NEW trigger, BuildMerge(t, trigger),
               pc[t] # "commit", UNCHANGED <<published, call>>
        PROVE  AllCurrent'
    <2>1. next'[t] = Merge(published') /\ pc'[t] = "commit_merge"
      BY <1>4 DEF BuildMerge, TypeOK
    <2>2. t \in Writers => call'[t] = NoCall
      BY <1>4 DEF AllCurrent, Current
    <2>3. Current(t)'
      BY <2>1, <2>2 DEF Current
    <2>4. \A u \in Threads \ {t} :
             pc'[u] = pc[u] /\ next'[u] = next[u] /\ call'[u] = call[u]
      BY <1>4 DEF BuildMerge, TypeOK
    <2>5. QED BY <1>1, <1>4, <2>3, <2>4
  <1>5. ASSUME UNCHANGED <<published, next, pc, call>>
        PROVE  AllCurrent'
    BY <1>5 DEF AllCurrent, Current, InsertPending, DeletePending
  <1>6. ASSUME NEW t \in Threads, CommitMerge(t)
        PROVE  AllCurrent'
    <2>1. Holds(t) /\ pc'[t] = "record" /\ call' = call
      BY <1>6 DEF CommitMerge, Holds, TypeOK
    <2>2. Current(t)'
      BY <1>6, <2>1 DEF CommitMerge, AllCurrent, Current
    <2>3. \A u \in Threads \ {t} : pc'[u] = pc[u] /\ next'[u] = next[u]
      BY <1>6 DEF CommitMerge, Publish, TypeOK
    <2>4. QED BY <1>1, <2>1, <2>2, <2>3
  <1>7. ASSUME NEW w \in Writers, Commit(w)
        PROVE  AllCurrent'
    <2>1. Holds(w) /\ pc'[w] = "idle" /\ call'[w] = NoCall
      BY <1>7 DEF Commit, Holds, TypeOK
    <2>2. Current(w)'
      BY <2>1 DEF Current
    <2>3. \A u \in Threads \ {w} :
             /\ pc'[u] = pc[u] /\ next'[u] = next[u]
             /\ u \in Writers => call'[u] = call[u]
      BY <1>7 DEF Commit, Publish, TypeOK
    <2>4. QED BY <1>1, <2>1, <2>2, <2>3
  <1>8. ASSUME NEW t \in Threads, pc[t] # "commit",
               pc'[t] \notin {"commit", "commit_merge"},
               \A u \in Threads \ {t} : pc'[u] = pc[u],
               UNCHANGED <<published, next, call>>
        PROVE  AllCurrent'
    <2>1. Current(t)'
      BY <1>8 DEF AllCurrent, Current
    <2>2. QED BY <1>1, <1>8, <2>1
  <1>9. CASE \E w \in Writers : WriterStep(w)
    <2>1. ASSUME NEW w \in Writers, WriterStep(w) PROVE AllCurrent'
      BY <2>1, <1>2, <1>3, <1>4, <1>5, <1>7
         DEF WriterStep, RejectInsert, BeginCompact, Issue
    <2>2. QED BY <1>9, <2>1
  <1>10. CASE \E t \in Threads : CommitMerge(t) \/ RecordReport(t)
    <2>1. ASSUME NEW t \in Threads, RecordReport(t) PROVE AllCurrent'
      BY <1>8, <2>1 DEF RecordReport, TypeOK
    <2>2. QED BY <1>6, <1>10, <2>1
  <1>11. CASE \E b \in Backgrounds : JobStep(b)
    <2>1. ASSUME NEW b \in Backgrounds,
                 Spawn(b) \/ Wake(b) \/ Evaluate(b) \/ Join(b)
          PROVE  AllCurrent'
      BY <1>8, <2>1 DEF Spawn, Wake, Evaluate, Join, TypeOK
    <2>2. ASSUME NEW b \in Backgrounds, JobStep(b) PROVE AllCurrent'
      BY <1>4, <1>5, <2>1, <2>2 DEF JobStep, BeginBackgroundMerge, RequestStop
    <2>3. QED BY <1>11, <2>2
  <1>12. CASE UNCHANGED vars
    BY <1>12, <1>5 DEF vars
  <1>13. QED
    BY <1>9, <1>10, <1>11, <1>12 DEF Next

\* On a map over Ids, a delete of nothing and an empty batch change nothing.
LEMMA NothingToDo ==
    ASSUME NEW S, NEW map \in [Ids -> S]
    PROVE  Remove(map, {}) = map /\ Put(map, <<>>) = map
  BY DEF Remove, Put, At

\* What is visible of a lineage is a map over Ids.
LEMMA VisibleIsMap ==
    ASSUME NEW d PROVE \E S : NewestVisible(d) \in [Ids -> S]
  <1>1. NewestVisible(d) \in [Ids -> {NewestVisible(d)[id] : id \in Ids}]
    BY DEF NewestVisible
  <1>2. QED BY <1>1

\* Both sides write a request the same way.
LEMMA TableRequests == Table!Request = Request
  BY DEF Table!Request, Request, Table!InsertCall, InsertCall,
         Table!DeleteCall, DeleteCall, Table!Accepts, Accepts

\* What the Table does to its map, said with the Lifecycle's own operators.
LEMMA TableRespond ==
    ASSUME NEW w \in Writers, call[w] # NoCall,
           call' = [call EXCEPT ![w] = NoCall],
           NewestVisible(published)'
               = Put(Remove(NewestVisible(published), call[w].remove), call[w].batch)
    PROVE  Table!Respond(w)
  BY DEF Table!Respond, Table!Remove, Remove, Table!Put, Put,
         Table!At, At, Table!Max, Max

\* A step of the Lifecycle is a call or an answer of the Table, or changes
\* nothing that a caller can see.
LEMMA NextRefinesTable ==
    ASSUME IInv, AllCurrent, [Next]_vars
    PROVE  Table!Next \/ (NewestVisible(published)' = NewestVisible(published)
                            /\ call' = call)
  <1>1. TypeOK /\ published \in DeltaType /\ Lineage(published)
    BY DEF IInv, TypeOK, LineagesWellFormed
  <1>2. \A d : published' = d => NewestVisible(published)' = NewestVisible(d)
    BY DEF NewestVisible, VisiblePositions, IsRecordTombstoned
  <1>3. ASSUME published' = published
        PROVE  NewestVisible(published)' = NewestVisible(published)
    BY <1>3, <1>2
  <1>4. ASSUME NEW w \in Writers, NEW request \in Request, pc[w] = "idle",
               call' = [call EXCEPT ![w] = request], published' = published
        PROVE  Table!Next
    <2>1. call[w] = NoCall
      BY <1>4 DEF AllCurrent, Current, Threads
    <2>2. Table!Invoke(w)
      BY <1>3, <1>4, <2>1, TableRequests DEF Table!Invoke
    <2>3. QED BY <2>2 DEF Table!Next
  <1>5. ASSUME NEW w \in Writers, NEW batch \in Batches, BeginInsert(w, batch)
        PROVE  Table!Next
    <2>1. InsertCall(batch) \in Request
      BY <1>5 DEF BeginInsert, Request
    <2>2. QED BY <1>4, <1>5, <2>1 DEF BeginInsert, Issue
  <1>6. ASSUME NEW w \in Writers, NEW ids \in SUBSET Ids, BeginDelete(w, ids)
        PROVE  Table!Next
    <2>1. DeleteCall(ids) \in Request
      BY DEF Request
    <2>2. QED BY <1>4, <1>6, <2>1 DEF BeginDelete, Issue
  <1>7. ASSUME NEW w \in Writers, Commit(w)
        PROVE  Table!Next
    <2>1. /\ published' = next[w] /\ pc[w] = "commit" /\ w \in Threads
          /\ call' = [call EXCEPT ![w] = NoCall]
      BY <1>7 DEF Commit, Publish, Threads
    <2>2. call[w] # NoCall
      BY <2>1 DEF AllCurrent, Current
    <2> DEFINE shown == NewestVisible(published)
    <2>3. ASSUME NEW batch \in Batches, InsertPending(w, batch)
          PROVE  NewestVisible(published)'
                   = Put(Remove(shown, call[w].remove), call[w].batch)
      <3>1. batch \in Seq(InputRow)
        BY BatchesAssumption
      <3>2. NewestVisible(next[w]) = Put(shown, batch)
        BY <1>1, <2>3, <3>1, InsertIsPut DEF InsertPending
      <3>3. call[w].remove = {} /\ call[w].batch = batch
        BY <2>3 DEF InsertPending, InsertCall
      <3>4. Remove(shown, {}) = shown
        BY VisibleIsMap, NothingToDo
      <3>5. QED BY <1>2, <2>1, <3>2, <3>3, <3>4
    <2>4. ASSUME NEW ids \in SUBSET Ids, DeletePending(w, ids)
          PROVE  NewestVisible(published)'
                   = Put(Remove(shown, call[w].remove), call[w].batch)
      <3>1. NewestVisible(next[w]) = Remove(shown, ids)
        BY <1>1, <2>4, DeleteIsRemove DEF DeletePending
      <3>2. call[w].remove = ids /\ call[w].batch = <<>>
        BY <2>4 DEF DeletePending, DeleteCall
      <3>3. Put(Remove(shown, ids), <<>>) = Remove(shown, ids)
        BY <3>1, VisibleIsMap, NothingToDo
      <3>4. QED BY <1>2, <2>1, <3>1, <3>2, <3>3
    <2>5. NewestVisible(published)'
            = Put(Remove(shown, call[w].remove), call[w].batch)
      BY <2>1, <2>3, <2>4 DEF AllCurrent, Current
    <2>6. Table!Respond(w)
      BY <2>1, <2>2, <2>5, TableRespond
    <2>7. QED BY <2>6 DEF Table!Next
  <1>8. ASSUME NEW t \in Threads, CommitMerge(t)
        PROVE  NewestVisible(published)' = NewestVisible(published) /\ call' = call
    <2>1. published' = next[t] /\ next[t] = Merge(published) /\ call' = call
      BY <1>8 DEF CommitMerge, Publish, AllCurrent, Current
    <2>2. NewestVisible(Merge(published)) = NewestVisible(published)
      BY <1>1, MergeIsSound
    <2>3. QED
      BY <1>2, <2>1, <2>2
  <1>9. CASE \E w \in Writers : WriterStep(w)
    BY <1>3, <1>5, <1>6, <1>7, <1>9
       DEF WriterStep, RejectInsert, BeginCompact
  <1>10. CASE \E t \in Threads : CommitMerge(t) \/ RecordReport(t)
    BY <1>3, <1>8, <1>10 DEF RecordReport
  <1>11. CASE \E b \in Backgrounds : JobStep(b)
    BY <1>3, <1>11
       DEF JobStep, Spawn, Wake, Evaluate, BeginBackgroundMerge, RequestStop, Join
  <1>12. CASE UNCHANGED vars
    BY <1>3, <1>12 DEF vars
  <1>13. QED
    BY <1>9, <1>10, <1>11, <1>12 DEF Next

\* A new Lifecycle shows an empty Table that waits for no call.
LEMMA InitRefinesTable == Init => Table!Init
  BY NewDeltaLineage DEF Init, Table!Init

\* While writes and merges do not interleave, whichever threads and background
\* jobs make them, the Lifecycle implements the Table: each batch and delete a
\* caller issues takes effect exactly once, as asked, at its commit, and a
\* compaction changes nothing a caller can look up by id.
THEOREM SerialWritesImplementTable ==
    Spec /\ []OneAtATime => ImplementsVisibleTable
  <1>1. IInv /\ OneAtATime /\ AllCurrent /\ [Next]_vars => AllCurrent'
    BY NextKeepsAllCurrent DEF IInv
  <1>2. IInv /\ AllCurrent /\ [Next]_vars
            => [Table!Next]_<<NewestVisible(published), call>>
    BY NextRefinesTable
  <1>3. QED
    BY InitAllCurrent, InitRefinesTable, Invariance, <1>1, <1>2, PTL
       DEF Spec, ImplementsVisibleTable, Table!Spec

\* With one thread the contract holds by itself.
THEOREM SingleWriterImplementsTable ==
    ASSUME SingleWriter
    PROVE  Spec => ImplementsVisibleTable
  <1>1. OneAtATime
    BY DEF SingleWriter, OneAtATime
  <1>2. QED BY <1>1, SerialWritesImplementTable, PTL
=============================================================================
