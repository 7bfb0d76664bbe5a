------------------------------ MODULE Explorer ------------------------------
(***************************************************************************)
(* The explorer server (explorer/src): axum handlers around one            *)
(* tokio RwLock<Option<Arc<Explorer>>>.                                    *)
(*                                                                         *)
(* An ingest builds a whole new Explorer on a thread of its own, without   *)
(* the lock, and takes the write lock only to swap it in.  The reading     *)
(* handlers keep their read guard while a thread does the work.  A client  *)
(* that disconnects makes the server drop the handler's future, guard and  *)
(* place in the lock's queue included, while the thread goes on.           *)
(*                                                                         *)
(* A dataset is named after the ingest that created it.  The op "query"    *)
(* stands for a query or a benchmark: the same control around another      *)
(* computation.  What they compute and the index names a status shows are  *)
(* left out.                                                               *)
(***************************************************************************)
EXTENDS IndexParams, SequencesExt

CONSTANTS
    Requests,  \* HTTP requests, each made once
    Specs,     \* session specs: [num_vectors, dimension, family]
    None,      \* no dataset
    NoReply,
    Failed     \* an ApiError

ASSUME ExplorerAssumption == None \notin Requests /\ NoReply \notin Requests

VARIABLES
    slot,    \* the published Explorer
    queue,   \* requests waiting for the lock, first come first served
    readers, \* requests that hold a read guard
    pc,      \* where each handler is
    op,      \* which handler serves the request
    job,     \* what the request's thread is doing, or how it ended
    target,  \* the Explorer the thread works on
    built,   \* the Explorers whose index has been built
    reply    \* what the client was answered

vars == <<slot, queue, readers, pc, op, job, target, built, reply>>

Ops == {"none", "ingest", "status", "query", "reindex"}
Working == {"create", "compute", "build"}
Ended == {"ok", "err"}

-----------------------------------------------------------------------------

Init ==
    /\ slot = None
    /\ queue = <<>>
    /\ readers = {}
    /\ pc = [r \in Requests |-> "new"]
    /\ op = [r \in Requests |-> "none"]
    /\ job = [r \in Requests |-> "none"]
    /\ target = [r \in Requests |-> None]
    /\ built = {}
    /\ reply = [r \in Requests |-> NoReply]

\* ingest: the spec is clamped and the work handed to a thread.
Ingest(r) ==
    /\ pc[r] = "new"
    /\ pc' = [pc EXCEPT ![r] = "creating"]
    /\ op' = [op EXCEPT ![r] = "ingest"]
    /\ job' = [job EXCEPT ![r] = "create"]
    /\ target' = [target EXCEPT ![r] = r]
    /\ UNCHANGED <<slot, queue, readers, built, reply>>

\* An index family nobody knows is refused before any work.
UnknownFamily(r) ==
    /\ pc[r] = "new"
    /\ pc' = [pc EXCEPT ![r] = "done"]
    /\ op' = [op EXCEPT ![r] = "ingest"]
    /\ reply' = [reply EXCEPT ![r] = Failed]
    /\ UNCHANGED <<slot, queue, readers, job, target, built>>

\* A reading handler: state.read().await joins the queue.
Read(r, handler) ==
    /\ pc[r] = "new"
    /\ pc' = [pc EXCEPT ![r] = "queued"]
    /\ op' = [op EXCEPT ![r] = handler]
    /\ queue' = Append(queue, r)
    /\ UNCHANGED <<slot, readers, job, target, built, reply>>

\* Explorer::create on its thread: rows, substrate, index.
\* Nothing of it is shared before it ends.
CreateOk(r) ==
    /\ job[r] = "create"
    /\ \E spec \in Specs :
          /\ spec.num_vectors > 0
          /\ ParamsAccepted(ExplorerBuildParams(spec.dimension, spec.family),
                            spec.dimension)
    /\ job' = [job EXCEPT ![r] = "ok"]
    /\ built' = built \cup {r}
    /\ UNCHANGED <<slot, queue, readers, pc, op, target, reply>>

\* A refused spec, an I/O error, or a panic: any `?` of create.
CreateErr(r) ==
    /\ job[r] = "create"
    /\ job' = [job EXCEPT ![r] = "err"]
    /\ UNCHANGED <<slot, queue, readers, pc, op, target, built, reply>>

\* A bug a review must rule out: the thread's error is not propagated.
JoinUnchecked(r) ==
    /\ pc[r] = "creating"
    /\ job[r] \in Ended
    /\ pc' = [pc EXCEPT ![r] = "queued"]
    /\ queue' = Append(queue, r)
    /\ UNCHANGED <<slot, readers, op, job, target, built, reply>>

\* The ingest handler resumes: an error is the reply, an Explorer asks for the
\* write lock.
JoinIngest(r) ==
    /\ pc[r] = "creating"
    /\ job[r] \in Ended
    /\ IF job[r] = "ok"
       THEN /\ pc' = [pc EXCEPT ![r] = "queued"]
            /\ queue' = Append(queue, r)
            /\ UNCHANGED reply
       ELSE /\ pc' = [pc EXCEPT ![r] = "done"]
            /\ reply' = [reply EXCEPT ![r] = Failed]
            /\ UNCHANGED queue
    /\ UNCHANGED <<slot, readers, op, job, target, built>>

First(r) == pc[r] = "queued" /\ queue # <<>> /\ Head(queue) = r

\* The write lock is granted: swap, unlock and reply without an await between.
Publish(r) ==
    /\ First(r)
    /\ op[r] = "ingest"
    /\ readers = {}
    /\ slot' = r
    /\ queue' = Tail(queue)
    /\ pc' = [pc EXCEPT ![r] = "done"]
    /\ reply' = [reply EXCEPT ![r] = r]
    /\ UNCHANGED <<readers, op, job, target, built>>

\* The read lock is granted, and there is nothing to read: an error.
NoDataset(r) ==
    /\ First(r)
    /\ op[r] # "ingest"
    /\ slot = None
    /\ queue' = Tail(queue)
    /\ pc' = [pc EXCEPT ![r] = "done"]
    /\ reply' = [reply EXCEPT ![r] = Failed]
    /\ UNCHANGED <<slot, readers, op, job, target, built>>

\* status answers under the guard, without a thread.
Status(r) ==
    /\ First(r)
    /\ op[r] = "status"
    /\ slot # None
    /\ queue' = Tail(queue)
    /\ pc' = [pc EXCEPT ![r] = "done"]
    /\ reply' = [reply EXCEPT ![r] = slot]
    /\ UNCHANGED <<slot, readers, op, job, target, built>>

\* A bug a review must rule out: the guard is released before the thread ends.
StartUnguarded(r) ==
    /\ First(r)
    /\ op[r] \in {"query", "reindex"}
    /\ slot # None
    /\ queue' = Tail(queue)
    /\ pc' = [pc EXCEPT ![r] = "running"]
    /\ job' = [job EXCEPT ![r] = IF op[r] = "reindex" THEN "build" ELSE "compute"]
    /\ target' = [target EXCEPT ![r] = slot]
    /\ UNCHANGED <<slot, readers, op, built, reply>>

\* query and reindex clone the Arc and wait for a thread with the guard.
Start(r) ==
    /\ First(r)
    /\ op[r] \in {"query", "reindex"}
    /\ slot # None
    /\ queue' = Tail(queue)
    /\ readers' = readers \cup {r}
    /\ pc' = [pc EXCEPT ![r] = "running"]
    /\ job' = [job EXCEPT ![r] = IF op[r] = "reindex" THEN "build" ELSE "compute"]
    /\ target' = [target EXCEPT ![r] = slot]
    /\ UNCHANGED <<slot, op, built, reply>>

\* Explorer::query or bench ends on its thread.
ComputeEnd(r) ==
    /\ job[r] = "compute"
    /\ \E outcome \in Ended : job' = [job EXCEPT ![r] = outcome]
    /\ UNCHANGED <<slot, queue, readers, pc, op, target, built, reply>>

\* Explorer::rebuild_index ends on its thread.
BuildEnd(r) ==
    /\ job[r] = "build"
    /\ \/ job' = [job EXCEPT ![r] = "ok"] /\ built' = built \cup {target[r]}
       \/ job' = [job EXCEPT ![r] = "err"] /\ UNCHANGED built
    /\ UNCHANGED <<slot, queue, readers, pc, op, target, reply>>

\* The handler resumes, replies and drops its guard.
Respond(r) ==
    /\ pc[r] = "running"
    /\ job[r] \in Ended
    /\ pc' = [pc EXCEPT ![r] = "done"]
    /\ readers' = readers \ {r}
    /\ reply' = [reply EXCEPT ![r] = IF job[r] = "ok" THEN target[r] ELSE Failed]
    /\ UNCHANGED <<slot, queue, op, job, target, built>>

\* A bug a review must rule out: a dropped future stays in the lock's queue.
DisconnectInPlace(r) ==
    /\ pc[r] \in {"creating", "queued", "running"}
    /\ pc' = [pc EXCEPT ![r] = "done"]
    /\ readers' = readers \ {r}
    /\ UNCHANGED <<slot, queue, op, job, target, built, reply>>

\* The client goes away and the handler's future is dropped at its await.
Disconnect(r) ==
    /\ pc[r] \in {"creating", "queued", "running"}
    /\ pc' = [pc EXCEPT ![r] = "done"]
    /\ readers' = readers \ {r}
    /\ IF pc[r] = "queued"
       THEN \E i \in DOMAIN queue : queue[i] = r /\ queue' = RemoveAt(queue, i)
       ELSE UNCHANGED queue
    /\ UNCHANGED <<slot, op, job, target, built, reply>>

\* What the runtime and the threads do for a request once it has arrived.
Progress(r) ==
    \/ CreateOk(r) \/ CreateErr(r) \/ JoinIngest(r) \/ Publish(r)
    \/ NoDataset(r) \/ Status(r) \/ Start(r)
    \/ ComputeEnd(r) \/ BuildEnd(r) \/ Respond(r)

Next ==
    \E r \in Requests :
        \/ Ingest(r) \/ UnknownFamily(r) \/ Progress(r) \/ Disconnect(r)
        \/ \E handler \in {"status", "query", "reindex"} : Read(r, handler)

\* Threads end, woken tasks are polled, and the lock wakes the head of its
\* queue.  Nothing makes a client send a request or stay.
Fairness == \A r \in Requests : WF_vars(Progress(r))

Spec == Init /\ [][Next]_vars /\ Fairness

-----------------------------------------------------------------------------
(* Properties *)

\* Types only: each variable by itself, and no answer is "no dataset".  LockAgrees
\* relates them.
TypeOK ==
    /\ slot \in Requests \cup {None}
    /\ queue \in Seq(Requests)
    /\ readers \subseteq Requests
    /\ pc \in [Requests -> {"new", "creating", "queued", "running", "done"}]
    /\ op \in [Requests -> Ops]
    /\ job \in [Requests -> {"none"} \cup Working \cup Ended]
    /\ target \in [Requests -> Requests \cup {None}]
    /\ built \subseteq Requests
    /\ reply \in [Requests -> Requests \cup {NoReply, Failed}]

\* A handler that waits for its thread pins the dataset it reads: as long as it
\* is connected the published Explorer is the one its thread works on
\* (main.rs:125-148).
ReadersPinDataset ==
    \A r \in Requests :
        pc[r] = "running" => r \in readers /\ target[r] = slot

\* The lock and the handlers agree, whatever clients disconnect in between
\* (main.rs:94-196): waiting for the lock are the connected handlers that
\* asked for it, each once, so it is never handed to a dropped one; the guards
\* are those of the connected handlers that wait for a thread, none is left
\* behind; and each guard pins the dataset its thread works on.
LockAgrees ==
    /\ IsInjective(queue)
    /\ Range(queue) = {r \in Requests : pc[r] = "queued"}
    /\ readers = {r \in Requests : pc[r] = "running"}
    /\ ReadersPinDataset

\* Only an Explorer whose index has been built is ever published, so a query
\* never meets a dataset of a failed or abandoned ingest (lib.rs:201-204,
\* main.rs:104-113).
PublishedIsBuilt == slot # None => slot \in built

\* The handlers implement the register: ingests replace the dataset whole, and
\* every other answer is from the dataset current when it is given.
Register == INSTANCE DatasetRegister WITH dataset <- slot
ImplementsRegister == Register!Spec

\* Whatever other clients do, disconnects in the lock's queue included, every
\* request comes to an end: the reader behind a writer behind a reader is not
\* starved, and nobody waits for a guard nobody holds.
EveryRequestEnds ==
    \A r \in Requests : pc[r] # "new" ~> pc[r] = "done"
=============================================================================
