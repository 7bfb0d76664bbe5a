--------------------------- MODULE SubstrateLadder ---------------------------
(***************************************************************************)
(* The index ladder (crates/ferrite-db/src/index_substrate.rs): callers    *)
(* apply the row-count policy to one shared SubstrateIndex, small builds   *)
(* run inside the call, large ones on a background thread that a           *)
(* compare-and-swap on the build state admits.                             *)
(*                                                                         *)
(* The LanceDB table under it is external: rows that only grow, one index  *)
(* that a build replaces with one over the rows it found, and calls that   *)
(* may fail.                                                               *)
(***************************************************************************)
EXTENDS Integers

CONSTANTS
    Callers,        \* threads sharing clones of the SubstrateIndex
    Override,       \* "Auto", or the choice forced at creation
    ExhaustiveMax,  \* LADDER_EXHAUSTIVE_MAX_ROWS  (10 000)
    BackgroundMin,  \* BACKGROUND_BUILD_MIN_ROWS   (50 000)
    HnswMax,        \* LADDER_HNSW_MAX_ROWS     (1 000 000)
    MaxRows,        \* bound on the rows written
    NoIndex

Choices == {"Exhaustive", "Hnsw", "IvfPq"}

Index == [family : {"Hnsw", "IvfPq"}, covered : 0..MaxRows]

ASSUME LadderAssumption ==
    /\ Override \in Choices \cup {"Auto"}
    /\ ExhaustiveMax \in Nat /\ BackgroundMin \in Nat /\ HnswMax \in Nat
    /\ ExhaustiveMax < BackgroundMin /\ BackgroundMin < HnswMax
    /\ MaxRows \in Nat
    /\ NoIndex \notin Index

VARIABLES
    rows,     \* rows in the substrate table
    index,    \* its ANN index
    state,    \* BackgroundBuild.state
    error,    \* BackgroundBuild.error: none or some reason
    pc,       \* where each caller is
    choice,   \* the choice a call resolved
    current,  \* the state try_claim loaded
    covered,  \* the rows a build found: the caller's, or its job's
    job       \* the background job each caller spawned last

vars == <<rows, index, state, error, pc, choice, current, covered, job>>
callVars == <<pc, choice, current>>
buildVars == <<state, error>>
tableVars == <<rows, index>>

States == {"Idle", "InProgress", "Completed", "Failed"}

TypeOK ==
    /\ rows \in 0..MaxRows
    /\ index \in Index \cup {NoIndex}
    /\ state \in States
    /\ error \in {"none", "some"}
    /\ pc \in [Callers -> {"idle", "inline", "building", "claim", "swap",
                           "spawn", "refused"}]
    /\ choice \in [Callers -> Choices]
    /\ current \in [Callers -> States]
    /\ covered \in [Callers -> 0..MaxRows]
    /\ job \in [Callers -> {"none", "spawned", "building", "built", "failed"}]
    /\ \A c \in Callers : pc[c] \in {"inline", "building", "claim", "swap", "spawn"} \/ job[c] # "none"
                            => choice[c] # "Exhaustive"

Init ==
    /\ rows = 0
    /\ index = NoIndex
    /\ state = "Idle"
    /\ error = "none"
    /\ pc = [c \in Callers |-> "idle"]
    /\ choice = [c \in Callers |-> "Exhaustive"]
    /\ current = [c \in Callers |-> "Idle"]
    /\ covered = [c \in Callers |-> 0]
    /\ job = [c \in Callers |-> "none"]

-----------------------------------------------------------------------------
(* The pure policy *)

\* A bug a review must rule out: the background threshold picks the family.
LadderChoiceAtBackground(n) ==
    IF n < ExhaustiveMax THEN "Exhaustive"
    ELSE IF n < BackgroundMin THEN "Hnsw"
    ELSE "IvfPq"

LadderChoice(n) ==
    IF n < ExhaustiveMax THEN "Exhaustive"
    ELSE IF n < HnswMax THEN "Hnsw"
    ELSE "IvfPq"

ResolveLadder(n) == IF Override = "Auto" THEN LadderChoice(n) ELSE Override

\* A bug a review must rule out: the exhaustive choice is not exempt.
BuildAlways(ch, n) == IF n >= BackgroundMin THEN "Background" ELSE "Inline"

BuildDisposition(ch, n) ==
    IF ch = "Exhaustive" THEN "NotNeeded"
    ELSE IF n >= BackgroundMin THEN "Background"
    ELSE "Inline"

-----------------------------------------------------------------------------
(* The table *)

\* write: any caller appends rows at any time.
Write ==
    /\ rows' \in (rows + 1)..MaxRows
    /\ UNCHANGED <<index, buildVars, callVars, covered, job>>

\* remove_indexes.
RemoveIndexes ==
    /\ index # NoIndex
    /\ index' = NoIndex
    /\ UNCHANGED <<rows, buildVars, callVars, covered, job>>

\* A build reads the rows it will cover, and much later replaces the index.
Covers(c) == covered' = [covered EXCEPT ![c] = rows]

Replaces(c) == index' = [family |-> choice[c], covered |-> covered[c]]

-----------------------------------------------------------------------------
(* apply_ladder *)

\* row_count, the choice and the disposition.  An open error counts as no
\* rows (open_rows); a counting error leaves the call with nothing changed.
\* Bound: a caller whose job runs does not call; another caller stands for it.
Count(c) ==
    /\ pc[c] = "idle"
    /\ job[c] = "none"
    /\ \E n \in {0, rows} :
          LET disposition == BuildDisposition(ResolveLadder(n), n)
          IN  /\ disposition # "NotNeeded"
              /\ choice' = [choice EXCEPT ![c] = ResolveLadder(n)]
              /\ pc' = [pc EXCEPT ![c] =
                          IF disposition = "Inline" THEN "inline" ELSE "claim"]
    /\ UNCHANGED <<tableVars, buildVars, current, covered, job>>

InlineBegins(c) ==
    /\ pc[c] = "inline"
    /\ Covers(c)
    /\ pc' = [pc EXCEPT ![c] = "building"]
    /\ UNCHANGED <<tableVars, buildVars, choice, current, job>>

\* InlineCompleted, or the error of build.
InlineEnds(c) ==
    /\ pc[c] = "building"
    /\ Replaces(c) \/ UNCHANGED index
    /\ pc' = [pc EXCEPT ![c] = "idle"]
    /\ UNCHANGED <<rows, buildVars, choice, current, covered, job>>

\* try_claim: the load, and the refusal of InProgress and Failed.
Claim(c) ==
    /\ pc[c] = "claim"
    /\ current' = [current EXCEPT ![c] = state]
    /\ pc' = [pc EXCEPT ![c] =
                IF state \in {"Idle", "Completed"} THEN "swap" ELSE "refused"]
    /\ UNCHANGED <<tableVars, buildVars, choice, covered, job>>

\* A bug a review must rule out: a store in place of the compare-and-swap.
SwapBlindly(c) ==
    /\ pc[c] = "swap"
    /\ state' = "InProgress"
    /\ pc' = [pc EXCEPT ![c] = "spawn"]
    /\ UNCHANGED <<tableVars, error, choice, current, covered, job>>

\* try_claim: the compare-and-swap.
Swap(c) ==
    /\ pc[c] = "swap"
    /\ IF state = current[c]
       THEN state' = "InProgress" /\ pc' = [pc EXCEPT ![c] = "spawn"]
       ELSE pc' = [pc EXCEPT ![c] = "refused"] /\ UNCHANGED state
    /\ UNCHANGED <<tableVars, error, choice, current, covered, job>>

\* AlreadyInProgress reaches the caller.
ReturnRefused(c) ==
    /\ pc[c] = "refused"
    /\ pc' = [pc EXCEPT ![c] = "idle"]
    /\ UNCHANGED <<tableVars, buildVars, choice, current, covered, job>>

\* BackgroundStarted, or the error of spawn, which keeps the claim.
Spawn(c) ==
    /\ pc[c] = "spawn"
    /\ pc' = [pc EXCEPT ![c] = "idle"]
    /\ job' = [job EXCEPT ![c] = "spawned"] \/ UNCHANGED job
    /\ UNCHANGED <<tableVars, buildVars, choice, current, covered>>

-----------------------------------------------------------------------------
(* The background job *)

JobBegins(c) ==
    /\ job[c] = "spawned"
    /\ Covers(c)
    /\ job' = [job EXCEPT ![c] = "building"]
    /\ UNCHANGED <<tableVars, buildVars, callVars>>

JobBuilds(c) ==
    /\ job[c] = "building"
    /\ Replaces(c)
    /\ job' = [job EXCEPT ![c] = "built"]
    /\ UNCHANGED <<rows, buildVars, callVars, covered>>

\* A bug a review must rule out: the state is stored before the reason.
JobFailsSilently(c) ==
    /\ job[c] = "building"
    /\ job' = [job EXCEPT ![c] = "failed"]
    /\ UNCHANGED <<tableVars, buildVars, callVars, covered>>

\* build returned an error: the reason goes first.
JobFails(c) ==
    /\ job[c] = "building"
    /\ error' = "some"
    /\ job' = [job EXCEPT ![c] = "failed"]
    /\ UNCHANGED <<tableVars, state, callVars, covered>>

\* A bug a review must rule out: only a failure is reported.
JobReportsFailure(c) ==
    /\ job[c] \in {"built", "failed"}
    /\ state' = IF job[c] = "built" THEN state ELSE "Failed"
    /\ job' = [job EXCEPT ![c] = "none"]
    /\ UNCHANGED <<tableVars, error, callVars, covered>>

\* The job's last store.
JobReports(c) ==
    /\ job[c] \in {"built", "failed"}
    /\ state' = IF job[c] = "built" THEN "Completed" ELSE "Failed"
    /\ job' = [job EXCEPT ![c] = "none"]
    /\ UNCHANGED <<tableVars, error, callVars, covered>>

-----------------------------------------------------------------------------

CallStep(c) ==
    \/ InlineBegins(c) \/ InlineEnds(c)
    \/ Claim(c) \/ Swap(c) \/ ReturnRefused(c) \/ Spawn(c)

JobStep(c) == JobBegins(c) \/ JobBuilds(c) \/ JobFails(c) \/ JobReports(c)

Next ==
    \/ Write
    \/ RemoveIndexes
    \/ \E c \in Callers : Count(c) \/ CallStep(c) \/ JobStep(c)

Spec == Init /\ [][Next]_vars

\* Calls that have begun and spawned threads keep running, and a build ends;
\* nobody has to write, to apply the ladder or to remove an index.
Fairness == \A c \in Callers : WF_vars(CallStep(c)) /\ WF_vars(JobStep(c))

FairSpec == Spec /\ Fairness

-----------------------------------------------------------------------------
(* Properties *)

\* The callers whose claim is alive: about to spawn, or with a job running.
Claimants == {c \in Callers : pc[c] = "spawn" \/ job[c] # "none"}

\* The compare-and-swap admits one background build at a time, and the state
\* says InProgress for as long as there is one.
OneBackgroundBuild ==
    /\ \A c, d \in Claimants : c = d
    /\ Claimants # {} => state = "InProgress"

\* Whoever observes Failed finds the reason (background_build_error).
FailedHasReason == state = "Failed" => error = "some"

\* The choice is made on a count taken before the build reads its rows; still,
\* unless it is forced, no IVF-PQ index is trained on fewer rows than the
\* ladder asks for.
IvfPqIsTrained ==
    /\ Override = "Auto"
    /\ index # NoIndex
    /\ index.family = "IvfPq"
    => index.covered >= HnswMax

\* A background build that got its thread settles, whether it builds or fails.
BuildSettles ==
    \A c \in Callers : job[c] # "none" ~> state \in {"Completed", "Failed"}
=============================================================================
