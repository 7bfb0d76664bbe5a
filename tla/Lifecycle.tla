----------------------------- MODULE Lifecycle ------------------------------
(***************************************************************************)
(* The concurrent half of compaction.rs: a Lifecycle shared by the threads *)
(* of its callers and by the background compaction jobs it spawns.         *)
(*                                                                         *)
(* Every write is three steps of one thread: read the published snapshot,  *)
(* build a replacement from it, commit the replacement.  Building is local *)
(* to the thread, so it is one step with the read; the commit is atomic    *)
(* (TableCoordinator::commit holds both locks), and a compaction stores    *)
(* its report in a last step of its own.  Nothing is held between the read *)
(* and the commit.                                                         *)
(***************************************************************************)
EXTENDS Compaction

CONSTANTS
    Writers,       \* threads that call insert, delete and compact
    Backgrounds,   \* jobs that spawn_background may start
    MaxCalls,      \* bound: calls issued by all the writers together
    NoDelta, NoReport

ASSUME LifecycleAssumption ==
    /\ Writers \cap Backgrounds = {}
    /\ MaxCalls \in Nat
    /\ NoDelta \notin DeltaType
    /\ NoReport \notin ReportType

Threads == Writers \cup Backgrounds

VARIABLES
    published,    \* the coordinator's published snapshot
    pc,           \* where each thread is
    call,         \* the insert or delete each writer is executing
    next,         \* the replacement a thread has built and not committed
    report,       \* the report a compacting thread will store
    last_report,  \* Lifecycle.last_report
    stop,         \* the stop flag of each background job
    calls         \* calls issued so far

vars == <<published, pc, call, next, report, last_report, stop, calls>>

Phases == {"idle", "commit", "commit_merge", "record",
           "unspawned", "wait", "awake", "armed", "joined"}

TypeOK ==
    /\ published \in DeltaType
    /\ pc \in [Threads -> Phases]
    /\ call \in [Writers -> Request \cup {NoCall}]
    /\ next \in [Threads -> DeltaType \cup {NoDelta}]
    /\ report \in [Threads -> ReportType \cup {NoReport}]
    /\ last_report \in ReportType \cup {NoReport}
    /\ stop \in [Backgrounds -> BOOLEAN]
    /\ calls \in 0..MaxCalls

Init ==
    /\ published = NewDelta
    /\ pc = [t \in Threads |-> IF t \in Writers THEN "idle" ELSE "unspawned"]
    /\ call = [w \in Writers |-> NoCall]
    /\ next = [t \in Threads |-> NoDelta]
    /\ report = [t \in Threads |-> NoReport]
    /\ last_report = NoReport
    /\ stop = [b \in Backgrounds |-> FALSE]
    /\ calls = 0

-----------------------------------------------------------------------------
(* The callers' threads *)

\* A writer issues a call; MaxCalls bounds the history.
Issue(w) ==
    /\ pc[w] = "idle"
    /\ calls < MaxCalls
    /\ calls' = calls + 1

\* Lifecycle::insert, up to the commit.
BeginInsert(w, batch) ==
    /\ Issue(w)
    /\ Accepts(batch)
    /\ call' = [call EXCEPT ![w] = InsertCall(batch)]
    /\ next' = [next EXCEPT ![w] = Insert(published, batch)]
    /\ pc' = [pc EXCEPT ![w] = "commit"]
    /\ UNCHANGED <<published, report, last_report, stop>>

\* Lifecycle::insert of a batch with an invalid row: the error leaves through
\* `?` and the clone is dropped.
RejectInsert(w, batch) ==
    /\ Issue(w)
    /\ ~Accepts(batch)
    /\ UNCHANGED <<published, pc, call, next, report, last_report, stop>>

\* Lifecycle::delete, up to the commit.
BeginDelete(w, ids) ==
    /\ Issue(w)
    /\ call' = [call EXCEPT ![w] = DeleteCall(ids)]
    /\ next' = [next EXCEPT ![w] = Delete(published, ids)]
    /\ pc' = [pc EXCEPT ![w] = "commit"]
    /\ UNCHANGED <<published, report, last_report, stop>>

\* compact_with_trigger, up to the commit: snapshot, trigger, merge, report.
BuildMerge(t, trigger) ==
    /\ next' = [next EXCEPT ![t] = Merge(published)]
    /\ report' = [report EXCEPT ![t] = Report(published, trigger)]
    /\ pc' = [pc EXCEPT ![t] = "commit_merge"]

\* Lifecycle::compact: manual, whatever the thresholds say.
BeginCompact(w) ==
    /\ Issue(w)
    /\ BuildMerge(w, "Manual")
    /\ UNCHANGED <<published, call, last_report, stop>>

-----------------------------------------------------------------------------
(* Publishing: TableCoordinator::commit *)

Publish(t) ==
    /\ published' = next[t]
    /\ next' = [next EXCEPT ![t] = NoDelta]

Commit(w) ==
    /\ pc[w] = "commit"
    /\ Publish(w)
    /\ call' = [call EXCEPT ![w] = NoCall]
    /\ pc' = [pc EXCEPT ![w] = "idle"]
    /\ UNCHANGED <<report, last_report, stop, calls>>

CommitMerge(t) ==
    /\ pc[t] = "commit_merge"
    /\ Publish(t)
    /\ pc' = [pc EXCEPT ![t] = "record"]
    /\ UNCHANGED <<call, report, last_report, stop, calls>>

\* compact_with_trigger's last step: the report, under its own mutex.
RecordReport(t) ==
    /\ pc[t] = "record"
    /\ last_report' = report[t]
    /\ report' = [report EXCEPT ![t] = NoReport]
    /\ pc' = [pc EXCEPT ![t] = IF t \in Writers THEN "idle" ELSE "wait"]
    /\ UNCHANGED <<published, call, next, stop, calls>>

-----------------------------------------------------------------------------
(* Background jobs *)

\* spawn_background succeeded; a failed spawn changes nothing.
Spawn(b) ==
    /\ pc[b] = "unspawned"
    /\ pc' = [pc EXCEPT ![b] = "wait"]
    /\ UNCHANGED <<published, call, next, report, last_report, stop, calls>>

\* A bug a review must rule out: the loop never looks at the stop flag.
WakeIgnoringStop(b) ==
    /\ pc[b] = "wait"
    /\ pc' = [pc EXCEPT ![b] = "awake"]
    /\ UNCHANGED <<published, call, next, report, last_report, stop, calls>>

\* The interval elapsed, and the stop flag is not set.
Wake(b) ==
    /\ pc[b] = "wait"
    /\ ~stop[b]
    /\ pc' = [pc EXCEPT ![b] = "awake"]
    /\ UNCHANGED <<published, call, next, report, last_report, stop, calls>>

\* maybe_compact_background's first snapshot: whatever was committed, or
\* stopped, since the flag was read.
Evaluate(b) ==
    /\ pc[b] = "awake"
    /\ pc' = [pc EXCEPT ![b] =
                 IF EvaluateTrigger(published) = "None" THEN "wait" ELSE "armed"]
    /\ UNCHANGED <<published, call, next, report, last_report, stop, calls>>

\* compact_with_trigger on a second snapshot, whose trigger is evaluated anew.
BeginBackgroundMerge(b) ==
    /\ pc[b] = "armed"
    /\ BuildMerge(b, EvaluateTrigger(published))
    /\ UNCHANGED <<published, call, last_report, stop, calls>>

\* BackgroundCompaction::stop, or dropping the handle.
RequestStop(b) ==
    /\ pc[b] \notin {"unspawned", "joined"}
    /\ ~stop[b]
    /\ stop' = [stop EXCEPT ![b] = TRUE]
    /\ UNCHANGED <<published, pc, call, next, report, last_report, calls>>

\* The loop sees the flag and leaves; join() returns.
Join(b) ==
    /\ pc[b] = "wait"
    /\ stop[b]
    /\ pc' = [pc EXCEPT ![b] = "joined"]
    /\ UNCHANGED <<published, call, next, report, last_report, stop, calls>>

-----------------------------------------------------------------------------

WriterStep(w) ==
    \/ \E batch \in Batches : BeginInsert(w, batch) \/ RejectInsert(w, batch)
    \/ \E ids \in SUBSET Ids : BeginDelete(w, ids)
    \/ BeginCompact(w)
    \/ Commit(w)

JobStep(b) ==
    \/ Spawn(b)
    \/ Wake(b)
    \/ Evaluate(b)
    \/ BeginBackgroundMerge(b)
    \/ RequestStop(b)
    \/ Join(b)

Next ==
    \/ \E w \in Writers : WriterStep(w)
    \/ \E t \in Threads : CommitMerge(t) \/ RecordReport(t)
    \/ \E b \in Backgrounds : JobStep(b)

Spec == Init /\ [][Next]_vars

\* The step of BeginBackgroundMerge as far as pc sees it: it is enabled
\* whenever the job is armed, and TLC need not merge to evaluate ENABLED.
Arms(b) ==
    /\ pc[b] = "armed"
    /\ pc' = [pc EXCEPT ![b] = "commit_merge"]

\* The scheduler runs every call that has begun and every spawned job; it owes
\* no caller a new call, a spawn or a stop.
Fairness ==
    /\ \A w \in Writers : WF_vars(Commit(w))
    /\ \A t \in Threads : WF_vars(CommitMerge(t)) /\ WF_vars(RecordReport(t))
    /\ \A b \in Backgrounds :
          /\ WF_vars(Wake(b)) /\ WF_vars(Evaluate(b))
          /\ WF_pc(Arms(b)) /\ WF_vars(Join(b))

FairSpec == Spec /\ Fairness

-----------------------------------------------------------------------------
(* Properties *)

\* Every snapshot a reader can obtain and every replacement in flight is a
\* well-formed lineage, whatever the threads interleave: generations increase,
\* the active chunk is partial, Tombstones hide rows of this lineage, and no
\* hidden row has an older visible version (the fact merge() silently uses).
LineagesWellFormed ==
    /\ Lineage(published)
    /\ \A t \in Threads : next[t] # NoDelta => Lineage(next[t])

\* The ids of which every row is hidden.
FullyHidden(d) == {id \in Ids : At(d.rows, id) # {} /\ VisiblePositions(d, id) = {}}

\* A merge keeps one row of every id that has a visible row and, while the
\* dead rows are at most 20% of all rows, of every fully hidden id, which stays
\* hidden; it keeps no other row, and each newest visible payload is what it was.
MergeIsExact ==
    LET merged == Merge(published)
        retained == IF DeadRows(published) * PurgeDen <= Len(published.rows) * PurgeNum
                    THEN FullyHidden(published) ELSE {}
    IN  /\ \A i, j \in DOMAIN merged.rows :
               merged.rows[i].id = merged.rows[j].id => i = j
        /\ {merged.rows[i].id : i \in DOMAIN merged.rows}
              = VisibleIds(published) \cup retained
        /\ merged.tombstoned_ids = retained
        /\ NewestVisible(merged) = NewestVisible(published)

\* The Table a caller sees: the newest visible payload of each id.
Table == INSTANCE VisibleTable
             WITH latest <- NewestVisible(published), Callers <- Writers

\* With one writer and no background job, the Lifecycle implements the map:
\* every batch and every delete a caller issues takes effect exactly once, as
\* it asked, at its commit, and no compaction changes what is visible.
ImplementsVisibleTable == Table!Spec

\* A job that was told to stop is joined: BackgroundCompaction::stop returns.
StopJoins == \A b \in Backgrounds : stop[b] ~> pc[b] = "joined"

\* What arms a compaction (compaction.rs:79-82): enough sealed segments, or
\* changes that reach the floor and are less than one row short of the
\* fraction, which the code truncates.
OverThreshold(d) ==
    \/ d.sealed >= DeltaCountTrigger
    \/ /\ ChangedRows(d) >= MinChangedRows
       /\ (ChangedRows(d) + 1) * ChangeDen > Len(d.rows) * ChangeNum

\* A Table over its threshold does not stay there: a waiting job builds a
\* merge of it, unless the job is stopped or the Table leaves the threshold
\* first.
ArmedIsCompacted ==
    \A b \in Backgrounds :
        (pc[b] = "wait" /\ OverThreshold(published))
            ~> pc[b] = "commit_merge" \/ stop[b] \/ ~OverThreshold(published)
=============================================================================
