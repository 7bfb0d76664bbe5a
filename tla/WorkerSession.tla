--------------------------- MODULE WorkerSession ----------------------------
(***************************************************************************)
(* The browser demo: the page (main.ts), the Web Worker that hosts the     *)
(* engine (search.worker.ts) and the session of the WASM engine            *)
(* (ferrite-wasm).  The page runs several async functions, here flows, at  *)
(* once; each posts requests and waits for their answers.                  *)
(*                                                                         *)
(* A message handler and what follows an await that is already resolved    *)
(* run to completion before the next message, so a request is served in    *)
(* one step, with one exception: until a session exists, `await engine()`  *)
(* waits for a WASM load, and other messages are handled meanwhile.  Every *)
(* one of them starts a load of its own, and every load that ends builds a *)
(* new session over the current one.                                       *)
(*                                                                         *)
(* A Table is the sequence of the writes it accepted.  What the engine     *)
(* checks in a payload (dimensions, literals, predicates) is a choice      *)
(* between accepting and refusing it.                                      *)
(*                                                                         *)
(* profile_search reads std::time::Instant, which panics on the target of  *)
(* the browser build, wasm32-unknown-unknown.  The panic aborts the call   *)
(* with its borrows of the session still counted.  From then on the        *)
(* session can be read and not written, and free(), which wants sole       *)
(* ownership, throws after the page's handle was cleared.                  *)
(***************************************************************************)
EXTENDS Integers, Sequences, FiniteSets, Functions

CONSTANTS
    Flows,       \* async functions the user's clicks start
    Boot,        \* the page's own init()
    Names,       \* table names
    Demo,        \* the name of the seeded demo Table
    Clicks,      \* what the user may click: a flow's kind and its table
    Refusable,   \* bound: the requests whose payload the engine may refuse
    Chunks,      \* chunks of an ingest
    MaxClicks,   \* bound: clicks of an impatient and of a patient user
    Patience,    \* does the user wait for a first answer before clicking?
    NoTable, NoSession

Ops == {"create", "insert", "delete", "read", "profile", "stream", "list", "reset"}

Kinds == {"create", "ingest", "query", "delete", "stream", "refresh", "reset"}

ASSUME WorkerSessionAssumption ==
    /\ Clicks \subseteq [kind : Kinds, name : Names]
    /\ Refusable \subseteq Ops \ {"list", "reset"}
    /\ Boot \notin Flows
    /\ Demo \in Names
    /\ Chunks \in Nat \ {0}
    /\ MaxClicks \in [BOOLEAN -> Nat]
    /\ Patience \subseteq BOOLEAN
    /\ NoTable \notin Seq(Nat)
    /\ NoSession \notin [Names -> Seq(Nat) \cup {NoTable}]

AllFlows == Flows \cup {Boot}

VARIABLES
    sent,      \* every request the page posted; its position is its id
    pending,   \* the page's pending map: ids whose promise is not settled
    settled,   \* the answers that settled a promise
    flow,      \* the page's async functions
    inbox,     \* messages on their way to the worker
    outbox,    \* messages on their way to the page
    loading,   \* requests whose handler waits for a WASM load
    db,        \* the worker's session
    handle,    \* the WASM object behind it: sound, borrowed or freed
    patient    \* whether this user waits for the first answer

vars == <<sent, pending, settled, flow, inbox, outbox, loading, db,
          handle, patient>>

Session == [Names -> Seq(Nat) \cup {NoTable}]

EmptySession == [name \in Names |-> NoTable]

\* An answer carries what the request read: the writes its Table held.
Frame == [id : Nat, result : {"ok", "fail", "progress"}, view : Seq(Nat)]

-----------------------------------------------------------------------------
(* What a flow posts: groups of requests, each group awaited as a whole. *)

CreateScript == << <<"create">>, <<"list">> >>

IngestScript == [i \in 1..Chunks |-> <<"insert">>]

\* Engine, oracle and profile, posted together.
QueryScript == << <<"read", "read", "profile">> >>

DeleteScript == << <<"delete">>, <<"read">> >>

\* A benchmark or a projection.
StreamScript == << <<"stream">> >>

RefreshScript == << <<"list">> >>

ResetScript == << <<"reset">>, <<"list">> >>

Script(kind) ==
    CASE kind = "create"  -> CreateScript
      [] kind = "ingest"  -> IngestScript
      [] kind = "query"   -> QueryScript
      [] kind = "delete"  -> DeleteScript
      [] kind = "stream"  -> StreamScript
      [] kind = "refresh" -> RefreshScript
      [] kind = "reset"   -> ResetScript

\* seedDemoTable and the refresh after it.
SeedScript == << <<"create">> >> \o IngestScript \o RefreshScript

Flow ==
    [kind : Kinds \cup {"boot", "seed", "none"}, name : Names,
     status : {"new", "running", "done", "failed"},
     script : Seq(Seq(Ops)), ids : SUBSET Nat]

TypeOK ==
    /\ sent \in Seq([op : Ops, name : Names])
    /\ pending \cup loading \subseteq DOMAIN sent
    /\ inbox \in Seq(DOMAIN sent)
    /\ outbox \in Seq(Frame)
    /\ \A frame \in settled : frame \in Frame /\ frame.result # "progress"
    /\ \A frame \in settled \cup Range(outbox) : frame.id \in DOMAIN sent
    /\ flow \in [AllFlows -> Flow]
    /\ \A f \in AllFlows : flow[f].ids \subseteq DOMAIN sent
    /\ db \in Session \cup {NoSession}
    /\ handle \in {"sound", "borrowed", "freed"}
    /\ patient \in Patience

NewFlow ==
    [kind |-> "none", name |-> Demo, status |-> "new", script |-> <<>>, ids |-> {}]

\* init() has run up to its first await: it asked for the tables.
Init ==
    /\ sent = << [op |-> "list", name |-> Demo] >>
    /\ pending = {1}
    /\ settled = {}
    /\ flow = [f \in AllFlows |->
                  IF f = Boot
                  THEN [NewFlow EXCEPT !.kind = "boot", !.status = "running",
                                       !.ids = {1}]
                  ELSE NewFlow]
    /\ inbox = <<1>>
    /\ outbox = <<>>
    /\ loading = {}
    /\ db = NoSession
    /\ handle = "sound"
    /\ patient \in Patience

-----------------------------------------------------------------------------
(* The page: flows *)

\* sendWithEvents for every request of the script's first group.
Post(f, kind, name, script, earlier) ==
    LET group == Head(script)
        new == {Len(sent) + i : i \in DOMAIN group}
    IN  /\ sent' = sent \o [i \in DOMAIN group |-> [op |-> group[i], name |-> name]]
        /\ inbox' = inbox \o [i \in DOMAIN group |-> Len(sent) + i]
        /\ pending' = pending \cup new
        /\ flow' = [flow EXCEPT ![f] =
                       [kind |-> kind, name |-> name, status |-> "running",
                        script |-> Tail(script), ids |-> earlier \cup new]]
        /\ UNCHANGED <<settled, outbox, loading, db, handle, patient>>

Answered(id, result) == \E frame \in settled : frame.id = id /\ frame.result = result

AllOk(f) == \A id \in flow[f].ids : Answered(id, "ok")

SomeFailed(f) == \E id \in flow[f].ids : Answered(id, "fail")

End(f, status) ==
    /\ flow' = [flow EXCEPT ![f].status = status]
    /\ UNCHANGED <<sent, pending, settled, inbox, outbox, loading, db, handle, patient>>

\* A click starts a flow.  A patient user waits until some request has been
\* answered well and, before that, lets every request end first.
Start(f, kind, name) ==
    /\ flow[f].status = "new"
    /\ f = CHOOSE g \in Flows : flow[g].status = "new"   \* flows are alike
    /\ Cardinality({g \in Flows : flow[g].status # "new"}) < MaxClicks[patient]
    /\ patient => pending = {} \/ \E frame \in settled : frame.result = "ok"
    /\ Post(f, kind, name, Script(kind), {})

Continue(f) ==
    /\ flow[f].status = "running"
    /\ AllOk(f)
    /\ flow[f].script # <<>>
    /\ Post(f, flow[f].kind, flow[f].name, flow[f].script, flow[f].ids)

Finish(f) ==
    /\ flow[f].status = "running"
    /\ AllOk(f)
    /\ flow[f].script = <<>>
    /\ End(f, "done")

\* The group's promise rejects with its first failure.
Reject(f) ==
    /\ flow[f].status = "running"
    /\ SomeFailed(f)
    /\ ~(flow[f].kind = "seed" /\ Len(flow[f].script) = Chunks + 1)
    /\ End(f, "failed")

\* init() seeds the demo Table on a first visit, and when the demo was the last
\* table used and is gone; what the browser remembers is not modelled.
Seed ==
    /\ flow[Boot].kind = "boot"
    /\ flow[Boot].status = "running"
    /\ AllOk(Boot)
    /\ Post(Boot, "seed", Demo, SeedScript, flow[Boot].ids)

\* seedDemoTable returns when its create fails, and init() goes on.
SeedFails ==
    /\ flow[Boot].kind = "seed"
    /\ flow[Boot].status = "running"
    /\ Len(flow[Boot].script) = Chunks + 1
    /\ SomeFailed(Boot)
    /\ Post(Boot, "seed", Demo, RefreshScript, {})

-----------------------------------------------------------------------------
(* The page: worker.onmessage *)

\* A bug a review must rule out: a progress frame settles the promise.
DeliverProgress ==
    /\ outbox # <<>>
    /\ outbox' = Tail(outbox)
    /\ LET frame == Head(outbox)
       IN  IF frame.id \in pending
           THEN /\ pending' = pending \ {frame.id}
                /\ settled' = settled \cup {frame}
           ELSE UNCHANGED <<pending, settled>>
    /\ UNCHANGED <<sent, flow, inbox, loading, db, handle, patient>>

Deliver ==
    /\ outbox # <<>>
    /\ outbox' = Tail(outbox)
    /\ LET frame == Head(outbox)
       IN  IF frame.id \in pending /\ frame.result # "progress"
           THEN /\ pending' = pending \ {frame.id}
                /\ settled' = settled \cup {frame}
           ELSE UNCHANGED <<pending, settled>>
    /\ UNCHANGED <<sent, flow, inbox, loading, db, handle, patient>>

-----------------------------------------------------------------------------
(* The worker *)

\* What a session still serves: borrow_mut panics while an aborted call's
\* borrow is counted, and every call on a freed handle throws.
Serves(state) ==
    CASE state = "sound"    -> Ops
      [] state = "borrowed" -> {"read", "profile", "stream", "list"}
      [] state = "freed"    -> {}

\* Would the engine accept the request, its payload apart?
Accepts(request, session, state) ==
    /\ request.op \in Serves(state)
    /\ CASE request.op \in {"list", "reset"} -> TRUE
         [] request.op = "create" -> session[request.name] = NoTable
         [] OTHER -> session[request.name] # NoTable

\* What an accepted request makes of a Table.
Written(id, name, table) ==
    IF sent[id].name # name THEN table
    ELSE CASE sent[id].op = "create" -> <<>>
           [] sent[id].op \in {"insert", "delete"} -> Append(table, id)
           [] OTHER -> table

\* A bug a review must rule out: a reset keeps the old session.
EffectWithoutReset(id, session) ==
    [name \in Names |-> Written(id, name, session[name])]

\* The session after an accepted request.
Effect(id, session) ==
    IF sent[id].op = "reset" THEN EmptySession
    ELSE [name \in Names |-> Written(id, name, session[name])]

View(id, session) ==
    IF sent[id].op \in {"read", "stream"} THEN session[sent[id].name] ELSE <<>>

\* A benchmark or a projection may report progress before it ends.
Progress(id) ==
    IF sent[id].op = "stream"
    THEN {<<>>, << [id |-> id, result |-> "progress", view |-> <<>>] >>}
    ELSE {<<>>}

FailFrame(id) == [id |-> id, result |-> "fail", view |-> <<>>]

\* The engine carries the request out.
CarryOut(id, session, state) ==
    /\ Accepts(sent[id], session, state)
    /\ sent[id].op # "profile"
    /\ db' = Effect(id, session)
    /\ handle' = state
    /\ \E progress \in Progress(id) :
          outbox' = outbox \o progress
              \o << [id |-> id, result |-> "ok", view |-> View(id, session)] >>

\* profile_search reads the clock, which the target does not have: it aborts
\* and never gives its borrows back.
Abort(id, session, state) ==
    /\ Accepts(sent[id], session, state)
    /\ sent[id].op = "profile"
    /\ db' = session
    /\ handle' = "borrowed"
    /\ outbox' = Append(outbox, FailFrame(id))

\* The engine refuses the request, or its payload.  A reset is refused by
\* free(), and `db = null` is not reached.
Refuse(id, session, state) ==
    /\ db' = session
    /\ handle' = IF sent[id].op = "reset" THEN "freed" ELSE state
    /\ \/ /\ ~Accepts(sent[id], session, state)
          /\ outbox' = Append(outbox, FailFrame(id))
       \/ /\ Accepts(sent[id], session, state)
          /\ sent[id].op \in Refusable
          /\ \E progress \in Progress(id) :
                outbox' = outbox \o progress \o << FailFrame(id) >>

\* self.onmessage from the end of `await engine()`, on the session it got.
Serve(id, session, state) ==
    \/ CarryOut(id, session, state)
    \/ Abort(id, session, state)
    \/ Refuse(id, session, state)

\* self.onmessage: engine() returns the session, or starts a load.
Receive ==
    /\ inbox # <<>>
    /\ inbox' = Tail(inbox)
    /\ IF db # NoSession
       THEN Serve(Head(inbox), db, handle) /\ UNCHANGED loading
       ELSE /\ loading' = loading \cup {Head(inbox)}
            /\ UNCHANGED <<outbox, db, handle>>
    /\ UNCHANGED <<sent, pending, settled, flow, patient>>

\* A load ends: engine() builds a new session, whatever db is by now.
Loaded(id) ==
    /\ id \in loading
    /\ loading' = loading \ {id}
    /\ Serve(id, EmptySession, "sound")
    /\ UNCHANGED <<sent, pending, settled, flow, inbox, patient>>

\* A bug a review must rule out: `await engine()` stands outside the try.
LoadFailsSilently(id) ==
    /\ id \in loading
    /\ loading' = loading \ {id}
    /\ UNCHANGED <<sent, pending, settled, flow, inbox, outbox, db, handle, patient>>

\* The load fails: the request fails, and the next one tries again.
LoadFails(id) ==
    /\ id \in loading
    /\ loading' = loading \ {id}
    /\ outbox' = Append(outbox, FailFrame(id))
    /\ UNCHANGED <<sent, pending, settled, flow, inbox, db, handle, patient>>

-----------------------------------------------------------------------------

FlowStep(f) ==
    \/ Continue(f) \/ Finish(f) \/ Reject(f)
    \/ f = Boot /\ (Seed \/ SeedFails)

LoadEnds == \E id \in loading : Loaded(id) \/ LoadFails(id)

\* What happens without a click.
Turn ==
    \/ \E f \in AllFlows : FlowStep(f)
    \/ Deliver
    \/ Receive
    \/ LoadEnds

Next ==
    \/ \E f \in Flows, click \in Clicks : Start(f, click.kind, click.name)
    \/ Turn

Spec == Init /\ [][Next]_vars

\* The event loops turn and a WASM load ends one way or the other.  Nobody owes
\* a click, and nothing is owed to one flow or message before another.
Fairness == WF_vars(Turn)

FairSpec == Spec /\ Fairness

-----------------------------------------------------------------------------
(* Properties *)

\* How many frames on their way settle a request.
Answers(id) == Cardinality({i \in DOMAIN outbox : /\ outbox[i].id = id
                                                  /\ outbox[i].result # "progress"})

\* Every request is in exactly one place: on its way to the worker, waiting for
\* a load, answered by exactly one frame on its way back, or settled; and no
\* progress of a request follows its answer.  No promise is left hanging or
\* settled by another request's answer, through loads, failures and resets.
EveryRequestOnce ==
    /\ \A id \in DOMAIN sent :
          Cardinality({i \in DOMAIN inbox : inbox[i] = id})
            + Cardinality({id} \cap loading) + Answers(id)
            + Cardinality({frame \in settled : frame.id = id}) = 1
    /\ pending = DOMAIN sent \ {frame.id : frame \in settled}
    /\ \A i \in DOMAIN outbox : outbox[i].id \in pending

\* The requests the worker has carried out.
Done == {frame.id : frame \in {fr \in settled \cup Range(outbox) : fr.result = "ok"}}

\* The carried-out requests on a table since the last reset.
Since(name, ops) ==
    {id \in Done : /\ sent[id].op \in ops
                   /\ sent[id].name = name
                   /\ \A last \in Done : sent[last].op = "reset" => last < id}

\* A Table lists these writes: each of them once, in the order of the requests.
Lists(table, ids) ==
    /\ table \in Seq(ids)
    /\ \A id \in ids : \E i \in DOMAIN table : table[i] = id
    /\ \A i, j \in DOMAIN table : i < j => table[i] < table[j]

\* While the user waits for the first answer, the session is what the answers
\* say: every Table whose creation was acknowledged since the last reset, each
\* with every acknowledged write, once, in the order of the requests; nothing
\* survives a reset and no refused request leaves a trace.
SessionIsAcknowledged ==
    patient =>
        IF db = NoSession
        THEN Done = {}
        ELSE \A name \in Names :
                IF Since(name, {"create"}) = {}
                THEN db[name] = NoTable
                ELSE /\ db[name] # NoTable
                     /\ Lists(db[name], Since(name, {"insert", "delete"}))

\* Every flow ends: no promise hangs, so no button stays disabled.
EveryFlowEnds ==
    \A f \in AllFlows :
        flow[f].status = "running" ~> flow[f].status \in {"done", "failed"}

\* "Frees the current session's WASM object; next `engine()` builds fresh"
\* (search.worker.ts:30): the worker never keeps a session it has freed.
ResetBuildsFresh == handle # "freed"
=============================================================================
