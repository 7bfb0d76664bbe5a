------------------------ MODULE WorkerSessionProofs -------------------------
(***************************************************************************)
(* Proofs about WorkerSession, for every set of flows, tables and clicks,  *)
(* however many clicks, and every choice of what the engine refuses: the   *)
(* type invariant, that every request is in exactly one place, and that a  *)
(* patient user's session is what the answers say.                         *)
(***************************************************************************)
EXTENDS WorkerSession, FiniteSetTheorems, SequenceTheorems, TLAPS

-----------------------------------------------------------------------------
(* The inductive invariant *)

\* The requests whose answer is on its way to the page, and the settled ones.
Answering == {frame.id : frame \in {fr \in Range(outbox) : fr.result # "progress"}}

Settled == {frame.id : frame \in settled}

\* A frame before another one of the same request is a progress frame.
InOrder(frames) ==
    \A i, j \in DOMAIN frames :
        i < j /\ frames[i].id = frames[j].id => frames[i].result = "progress"

Increasing(ids) == \A i, j \in DOMAIN ids : i < j => ids[i] < ids[j]

\* Every request is in exactly one of four places, and in it once.
Places ==
    /\ Increasing(inbox)
    /\ InOrder(outbox)
    /\ \A a, b \in settled : a.id = b.id => a = b
    /\ DOMAIN sent = Range(inbox) \cup loading \cup Answering \cup Settled
    /\ Range(inbox) \cap loading = {}
    /\ (Range(inbox) \cup loading) \cap Answering = {}
    /\ (Range(inbox) \cup loading \cup Answering) \cap Settled = {}
    /\ pending = DOMAIN sent \ Settled
    /\ \A frame \in Range(outbox) : frame.id \in pending

\* A running flow waits for some request, every group a script still holds has
\* a request, and a seeding flow has had an answer.
FlowsWait ==
    \A f \in AllFlows :
        /\ flow[f].status = "running" => flow[f].ids # {}
        /\ \A i \in DOMAIN flow[f].script : flow[f].script[i] # <<>>
        /\ flow[f].kind = "seed" => Done # {}

\* Before the first acknowledged request no session holds a Table, and requests
\* travel together only when none of them can be acknowledged.
BeforeFirstAnswer ==
    /\ db \in {NoSession, EmptySession}
    /\ \A id, other \in pending :
          id # other => sent[id].op \in {"read", "profile"}

\* After it the worker has a session, no handler waits for a load, requests are
\* served in their order, and the session lists what was acknowledged.
AfterFirstAnswer ==
    /\ db # NoSession
    /\ loading = {}
    /\ \A id \in Range(inbox), done \in Done : done < id
    /\ \A name \in Names :
          IF db[name] = NoTable
          THEN Since(name, {"create", "insert", "delete"}) = {}
          ELSE /\ Since(name, {"create"}) # {}
               /\ Lists(db[name], Since(name, {"insert", "delete"}))

Acknowledged ==
    patient => IF Done = {} THEN BeforeFirstAnswer ELSE AfterFirstAnswer

SessionInv == TypeOK /\ Places /\ FlowsWait /\ Acknowledged

-----------------------------------------------------------------------------
(* Sequences of messages *)

\* Taking the first message leaves the others, one place earlier.
LEMMA TailMessages ==
    ASSUME NEW S, NEW s \in Seq(S), s # <<>>
    PROVE  /\ Tail(s) \in Seq(S)
           /\ Head(s) = s[1]
           /\ 1 \in DOMAIN s
           /\ \A i \in DOMAIN Tail(s) : i + 1 \in DOMAIN s /\ Tail(s)[i] = s[i + 1]
           /\ Range(s) = {s[1]} \cup Range(Tail(s))
<1>1. /\ Tail(s) \in Seq(S)
      /\ Head(s) = s[1]
      /\ 1 \in DOMAIN s
      /\ \A i \in DOMAIN Tail(s) : i + 1 \in DOMAIN s /\ Tail(s)[i] = s[i + 1]
      /\ \A i \in DOMAIN s : i # 1 => i - 1 \in DOMAIN Tail(s) /\ s[i] = Tail(s)[i - 1]
  OBVIOUS
<1>2. Range(Tail(s)) \subseteq Range(s) /\ s[1] \in Range(s)
  BY <1>1 DEF Range
<1>3. Range(s) \subseteq {s[1]} \cup Range(Tail(s))
  BY <1>1 DEF Range
<1>4. QED
  BY <1>1, <1>2, <1>3

\* A new message comes after the others.
LEMMA AppendMessage ==
    ASSUME NEW S, NEW s \in Seq(S), NEW e \in S
    PROVE  /\ Append(s, e) \in Seq(S)
           /\ DOMAIN Append(s, e) = DOMAIN s \cup {Len(s) + 1}
           /\ \A i \in DOMAIN s : Append(s, e)[i] = s[i] /\ i < Len(s) + 1
           /\ Append(s, e)[Len(s) + 1] = e
           /\ s \o <<e>> = Append(s, e)
           /\ Range(Append(s, e)) = Range(s) \cup {e}
<1>1. /\ Append(s, e) \in Seq(S)
      /\ DOMAIN Append(s, e) = DOMAIN s \cup {Len(s) + 1}
      /\ \A i \in DOMAIN s : Append(s, e)[i] = s[i] /\ i < Len(s) + 1
      /\ Append(s, e)[Len(s) + 1] = e
      /\ s \o <<e>> = Append(s, e)
  OBVIOUS
<1>2. Range(Append(s, e)) = Range(s) \cup {e}
  BY <1>1 DEF Range
<1>3. QED
  BY <1>1, <1>2

\* New messages come after the others.
LEMMA ConcatMessages ==
    ASSUME NEW S, NEW s \in Seq(S), NEW t \in Seq(S)
    PROVE  /\ s \o t \in Seq(S)
           /\ Len(s) \in Nat /\ Len(t) \in Nat
           /\ Len(s \o t) = Len(s) + Len(t)
           /\ DOMAIN s = 1..Len(s) /\ DOMAIN t = 1..Len(t)
           /\ DOMAIN (s \o t) = 1..(Len(s) + Len(t))
           /\ \A i \in 1..Len(s) : (s \o t)[i] = s[i]
           /\ \A i \in 1..Len(t) : (s \o t)[Len(s) + i] = t[i]
<1>1. /\ s \o t \in Seq(S)
      /\ Len(s) \in Nat /\ Len(t) \in Nat
      /\ Len(s \o t) = Len(s) + Len(t)
      /\ DOMAIN s = 1..Len(s) /\ DOMAIN t = 1..Len(t)
  OBVIOUS
<1>2. DOMAIN (s \o t) = 1..(Len(s) + Len(t))
  BY <1>1
<1>3. \A i \in 1..Len(s) : (s \o t)[i] = s[i]
  OBVIOUS
<1>4. \A i \in 1..Len(t) : (s \o t)[Len(s) + i] = t[i]
  OBVIOUS
<1>5. QED
  BY <1>1, <1>2, <1>3, <1>4

\* A sequence of members of a set is one of members of a larger set.
LEMMA SeqOfMore ==
    ASSUME NEW S, NEW T, S \subseteq T, NEW s \in Seq(S)
    PROVE  s \in Seq(T)
BY SeqDef

-----------------------------------------------------------------------------
(* What a served request does *)

\* The frames a request is answered with: perhaps its progress, then its end.
AnsweredBy(id, answer) ==
    /\ answer \in Frame
    /\ answer.id = id
    /\ answer.result \in {"ok", "fail"}
    /\ \/ outbox' = Append(outbox, answer)
       \/ \E progress \in Frame :
             /\ progress.id = id
             /\ progress.result = "progress"
             /\ outbox' = Append(Append(outbox, progress), answer)

Handles == {"sound", "borrowed", "freed"}

\* A request is a number, and has an operation and a Table.
LEMMA RequestTypes ==
    ASSUME TypeOK
    PROVE  /\ DOMAIN sent = 1..Len(sent)
           /\ Len(sent) \in Nat
           /\ \A id \in DOMAIN sent :
                 /\ id \in Nat
                 /\ id <= Len(sent)
                 /\ sent[id].op \in Ops
                 /\ sent[id].name \in Names
<1> DEFINE Request == [op : Ops, name : Names]
<1>1. sent \in Seq(Request)
  BY DEF TypeOK
<1>2. \A r \in Request : r.op \in Ops /\ r.name \in Names
  OBVIOUS
<1> HIDE DEF Request
<1>3. QED
  BY <1>1, <1>2

\* A request that is not refused and does not abort changes a session into one.
LEMMA EffectIsSession ==
    ASSUME TypeOK,
           NEW id \in DOMAIN sent,
           NEW session \in Session,
           NEW state \in Handles,
           Accepts(sent[id], session, state)
    PROVE  /\ Effect(id, session) \in Session
           /\ View(id, session) \in Seq(Nat)
<1>1. id \in Nat /\ sent[id].op \in Ops /\ sent[id].name \in Names
  BY RequestTypes
<1>2. \A name \in Names : session[name] \in Seq(Nat) \cup {NoTable}
  BY DEF Session
<1>3. <<>> \in Seq(Nat) /\ EmptySession \in Session
  BY DEF EmptySession, Session
<1>4. sent[id].op \in {"insert", "delete", "read", "stream"}
          => session[sent[id].name] \in Seq(Nat)
  BY <1>1, <1>2 DEF Accepts
<1>5. View(id, session) \in Seq(Nat)
  BY <1>3, <1>4 DEF View
<1>6. ASSUME NEW name \in Names
      PROVE  Written(id, name, session[name]) \in Seq(Nat) \cup {NoTable}
  <2>1. CASE sent[id].op \in {"insert", "delete"} /\ sent[id].name = name
    <3>1. Append(session[name], id) \in Seq(Nat)
      BY <1>1, <1>4, <2>1
    <3>2. QED
      BY <2>1, <3>1 DEF Written
  <2>2. CASE ~(sent[id].op \in {"insert", "delete"} /\ sent[id].name = name)
    BY <1>2, <1>3, <2>2 DEF Written
  <2>3. QED
    BY <2>1, <2>2
<1>7. Effect(id, session) \in Session
  BY <1>3, <1>6 DEF Effect, Session
<1>8. QED
  BY <1>5, <1>7

\* Every way of serving a request answers it, once, and leaves a session.
LEMMA ServeAnswers ==
    ASSUME TypeOK,
           NEW id \in DOMAIN sent,
           NEW session \in Session,
           NEW state \in Handles,
           Serve(id, session, state)
    PROVE  /\ db' \in Session
           /\ handle' \in Handles
           /\ \E answer \in Frame :
                 /\ AnsweredBy(id, answer)
                 /\ \/ answer.result = "ok" /\ CarryOut(id, session, state)
                    \/ answer.result = "fail" /\ db' = session
<1> DEFINE progress0 == [id |-> id, result |-> "progress", view |-> <<>>]
<1>1. /\ id \in Nat
      /\ outbox \in Seq(Frame)
      /\ <<>> \in Seq(Nat)
  BY DEF TypeOK
<1>2. FailFrame(id) \in Frame /\ progress0 \in Frame
  BY <1>1 DEF FailFrame, Frame
<1>3. ASSUME NEW answer \in Frame, NEW progress \in Progress(id),
             answer.id = id, answer.result \in {"ok", "fail"},
             outbox' = outbox \o progress \o <<answer>>
      PROVE  AnsweredBy(id, answer)
  <2>1. CASE progress = <<>>
    BY <1>1, <1>3, <2>1 DEF AnsweredBy
  <2>2. CASE progress = <<progress0>>
    <3>1. outbox' = Append(Append(outbox, progress0), answer)
      <4>1. outbox \o <<progress0>> = Append(outbox, progress0)
        BY <1>1, <1>2
      <4>2. Append(outbox, progress0) \in Seq(Frame)
        BY <1>1, <1>2
      <4>3. QED
        BY <1>3, <2>2, <4>1, <4>2, AppendMessage
    <3>2. progress0.id = id /\ progress0.result = "progress"
      OBVIOUS
    <3>3. QED
      BY <1>2, <1>3, <3>1, <3>2 DEF AnsweredBy
  <2>3. QED
    BY <1>3, <2>1, <2>2 DEF Progress
<1>4. FailFrame(id).id = id /\ FailFrame(id).result = "fail"
  BY DEF FailFrame
<1>5. CASE CarryOut(id, session, state)
  <2> DEFINE answer == [id |-> id, result |-> "ok", view |-> View(id, session)]
  <2>1. /\ Effect(id, session) \in Session
        /\ View(id, session) \in Seq(Nat)
    BY <1>5, EffectIsSession DEF CarryOut
  <2>2. answer \in Frame /\ answer.id = id /\ answer.result = "ok"
    BY <1>1, <2>1 DEF Frame
  <2>3. AnsweredBy(id, answer)
    BY <1>3, <1>5, <2>2 DEF CarryOut
  <2>4. QED
    BY <1>5, <2>1, <2>2, <2>3 DEF CarryOut
<1>6. CASE Abort(id, session, state)
  BY <1>2, <1>4, <1>6 DEF Abort, AnsweredBy, Handles
<1>7. CASE Refuse(id, session, state)
  <2>1. db' = session /\ handle' \in Handles
    BY <1>7 DEF Refuse, Handles
  <2>2. AnsweredBy(id, FailFrame(id))
    <3>1. CASE outbox' = Append(outbox, FailFrame(id))
      BY <1>2, <1>4, <3>1 DEF AnsweredBy
    <3>2. CASE \E progress \in Progress(id) :
                  outbox' = outbox \o progress \o << FailFrame(id) >>
      BY <1>2, <1>3, <1>4, <3>2
    <3>3. QED
      BY <1>7, <3>1, <3>2 DEF Refuse
  <2>3. QED
    BY <1>2, <1>4, <2>1, <2>2
<1>8. QED
  BY <1>5, <1>6, <1>7 DEF Serve

-----------------------------------------------------------------------------
(* Every request is in one place *)

\* An answer, perhaps after a progress frame, keeps the frames in order and adds
\* nothing else to them.
LEMMA AnswerIsLast ==
    ASSUME NEW id \in Nat, NEW answer \in Frame,
           outbox \in Seq(Frame), InOrder(outbox),
           id \notin Answering,
           AnsweredBy(id, answer)
    PROVE  /\ outbox' \in Seq(Frame)
           /\ InOrder(outbox')
           /\ Range(outbox) \cup {answer} \subseteq Range(outbox')
           /\ \A frame \in Range(outbox') :
                 \/ frame \in Range(outbox) \cup {answer}
                 \/ frame.id = id /\ frame.result = "progress"
<1>1. ASSUME NEW out \in Seq(Frame), InOrder(out), NEW frame \in Frame,
             \A fr \in Range(out) : fr.id = frame.id => fr.result = "progress"
      PROVE  InOrder(Append(out, frame))
  <2>1. \A i \in DOMAIN out : out[i] \in Range(out)
    BY DEF Range
  <2>2. DOMAIN out = 1..Len(out)
    OBVIOUS
  <2>3. QED
    BY <1>1, <2>1, <2>2, AppendMessage DEF InOrder
<1>2. \A fr \in Range(outbox) : fr.id = id => fr.result = "progress"
  BY DEF Answering
<1>3. answer.id = id
  BY DEF AnsweredBy
<1>4. CASE outbox' = Append(outbox, answer)
  BY <1>1, <1>2, <1>3, <1>4, AppendMessage
<1>5. CASE \E progress \in Frame :
              /\ progress.id = id
              /\ progress.result = "progress"
              /\ outbox' = Append(Append(outbox, progress), answer)
  <2>1. PICK progress \in Frame :
            /\ progress.id = id
            /\ progress.result = "progress"
            /\ outbox' = Append(Append(outbox, progress), answer)
    BY <1>5
  <2> DEFINE out == Append(outbox, progress)
  <2>2. /\ out \in Seq(Frame)
        /\ Range(out) = Range(outbox) \cup {progress}
    BY AppendMessage
  <2>3. InOrder(out)
    BY <1>1, <1>2, <2>1
  <2>4. outbox' = Append(out, answer)
    BY <2>1
  <2> HIDE DEF out
  <2>5. /\ outbox' \in Seq(Frame)
        /\ Range(outbox') = Range(out) \cup {answer}
    BY <2>2, <2>4, AppendMessage
  <2>6. InOrder(outbox')
    BY <1>1, <1>2, <1>3, <2>1, <2>2, <2>3, <2>4
  <2>7. QED
    BY <2>1, <2>2, <2>5, <2>6
<1>6. QED
  BY <1>4, <1>5 DEF AnsweredBy

\* A request that leaves the inbox or a load for its answer is in one place.
LEMMA AnswerKeepsPlaces ==
    ASSUME TypeOK, Places,
           NEW id \in Range(inbox) \cup loading, NEW answer \in Frame,
           AnsweredBy(id, answer),
           Increasing(inbox'),
           Range(inbox') \cup loading' = (Range(inbox) \cup loading) \ {id},
           Range(inbox') \cap loading' = {},
           UNCHANGED <<sent, pending, settled>>
    PROVE  Places'
<1>1. /\ id \in DOMAIN sent
      /\ id \notin Answering
      /\ id \notin Settled
      /\ InOrder(outbox)
  BY DEF Places
<1>2. id \in Nat /\ outbox \in Seq(Frame)
  BY <1>1, RequestTypes DEF TypeOK
<1>3. /\ InOrder(outbox')
      /\ Range(outbox) \cup {answer} \subseteq Range(outbox')
      /\ \A frame \in Range(outbox') :
            \/ frame \in Range(outbox) \cup {answer}
            \/ frame.id = id /\ frame.result = "progress"
  BY <1>1, <1>2, AnswerIsLast
<1>4. answer.id = id /\ answer.result # "progress"
  BY DEF AnsweredBy
<1>5. Answering' = Answering \cup {id}
  BY <1>3, <1>4 DEF Answering
<1>6. Settled' = Settled
  BY DEF Settled
<1>7. \A frame \in Range(outbox') : frame.id \in pending'
  BY <1>1, <1>3, <1>4 DEF Places
<1>8. QED
  BY <1>3, <1>5, <1>6, <1>7 DEF Places

\* The requests a flow posts are new, numbered on from the last one, and wait in
\* the inbox behind the others.
LEMMA PostAppends ==
    ASSUME TypeOK,
           NEW f \in AllFlows, NEW kind, NEW name \in Names,
           NEW script \in Seq(Seq(Ops)), script # <<>>,
           NEW earlier,
           Post(f, kind, name, script, earlier)
    PROVE  LET new == {Len(sent) + i : i \in DOMAIN Head(script)}
           IN  /\ Head(script) \in Seq(Ops)
               /\ sent' \in Seq([op : Ops, name : Names])
               /\ DOMAIN sent' = DOMAIN sent \cup new
               /\ \A id \in DOMAIN sent : sent'[id] = sent[id]
               /\ \A i \in DOMAIN Head(script) : sent'[Len(sent) + i].op = Head(script)[i]
               /\ \A id \in new : id \in Nat /\ id > Len(sent)
               /\ inbox' \in Seq(DOMAIN sent')
               /\ Range(inbox') = Range(inbox) \cup new
               /\ Increasing(inbox) => Increasing(inbox')
               /\ pending' = pending \cup new
<1> DEFINE group == Head(script)
           new == {Len(sent) + i : i \in DOMAIN group}
           Request == [op : Ops, name : Names]
           requests == [i \in DOMAIN group |-> [op |-> group[i], name |-> name]]
           ids == [i \in DOMAIN group |-> Len(sent) + i]
<1>1. group \in Seq(Ops)
  OBVIOUS
<1> HIDE DEF group
<1>2. /\ sent \in Seq(Request)
      /\ inbox \in Seq(DOMAIN sent)
  BY DEF TypeOK
<1>3. requests \in Seq(Request)
  <2>1. Len(group) \in Nat /\ DOMAIN group = 1..Len(group)
    BY <1>1
  <2>2. requests \in [1..Len(group) -> Request]
    BY <1>1, <2>1
  <2>3. QED
    BY <2>1, <2>2, SeqDef
<1>4. DOMAIN sent = 1..Len(sent) /\ Len(sent) \in Nat
  BY RequestTypes
<1>5. /\ DOMAIN group = 1..Len(group) /\ Len(group) \in Nat
      /\ Len(requests) = Len(group)
      /\ \A i \in DOMAIN group : requests[i] = [op |-> group[i], name |-> name]
  BY <1>1
<1>6. sent' = sent \o requests
  BY DEF Post, group
<1> HIDE DEF Request, requests
<1>7. /\ sent' \in Seq(Request)
      /\ Len(sent') = Len(sent) + Len(group)
      /\ \A i \in 1..Len(sent) : sent'[i] = sent[i]
      /\ \A i \in 1..Len(group) : sent'[Len(sent) + i] = requests[i]
  <2> DEFINE more == sent \o requests
  <2>1. /\ more \in Seq(Request)
        /\ Len(more) = Len(sent) + Len(requests)
        /\ \A i \in 1..Len(sent) : more[i] = sent[i]
        /\ \A i \in 1..Len(requests) : more[Len(sent) + i] = requests[i]
    BY <1>2, <1>3, ConcatMessages
  <2>2. sent' = more
    BY <1>6
  <2> HIDE DEF more
  <2>3. QED
    BY <1>5, <2>1, <2>2
<1>8. DOMAIN sent' = 1..(Len(sent) + Len(group))
  BY <1>7
<1>9. DOMAIN sent' = DOMAIN sent \cup new
  <2>1. ASSUME NEW id \in DOMAIN sent', id \notin DOMAIN sent
        PROVE  id \in new
    <3>1. id - Len(sent) \in DOMAIN group
      BY <1>4, <1>5, <1>8, <2>1
    <3>2. id = Len(sent) + (id - Len(sent))
      BY <1>4, <1>8
    <3>3. QED
      BY <3>1, <3>2
  <2>2. new \subseteq DOMAIN sent' /\ DOMAIN sent \subseteq DOMAIN sent'
    BY <1>4, <1>5, <1>8
  <2>3. QED
    BY <2>1, <2>2
<1>10. \A id \in new : id \in Nat /\ id > Len(sent)
  BY <1>4, <1>5
<1>11. ids \in Seq(DOMAIN sent') /\ inbox \in Seq(DOMAIN sent')
  <2>1. ids \in [1..Len(group) -> DOMAIN sent']
    BY <1>5, <1>9
  <2>2. ids \in Seq(DOMAIN sent')
    BY <1>5, <2>1, SeqDef
  <2>3. QED
    BY <1>2, <1>9, <2>2, SeqOfMore
<1>12. /\ Len(ids) = Len(group)
       /\ \A i \in 1..Len(group) : ids[i] = Len(sent) + i
  BY <1>5
<1>13. Range(ids) = new
  BY <1>5, <1>12 DEF Range
<1>14. inbox' = inbox \o ids
  BY DEF Post, group
<1> HIDE DEF ids
<1>15. /\ inbox' \in Seq(DOMAIN sent')
       /\ Len(inbox') = Len(inbox) + Len(group)
       /\ Len(inbox) \in Nat
       /\ \A i \in 1..Len(inbox) : inbox'[i] = inbox[i] /\ inbox[i] \in DOMAIN sent
       /\ \A i \in 1..Len(group) : inbox'[Len(inbox) + i] = ids[i]
  <2>1. \A i \in 1..Len(inbox) : inbox[i] \in DOMAIN sent
    BY <1>2
  <2> DEFINE more == inbox \o ids
  <2>2. /\ more \in Seq(DOMAIN sent')
        /\ Len(inbox) \in Nat
        /\ Len(more) = Len(inbox) + Len(ids)
        /\ \A i \in 1..Len(inbox) : more[i] = inbox[i]
        /\ \A i \in 1..Len(ids) : more[Len(inbox) + i] = ids[i]
    BY <1>11, ConcatMessages
  <2>3. inbox' = more
    BY <1>14
  <2> HIDE DEF more
  <2>4. QED
    BY <1>12, <2>1, <2>2, <2>3
<1>16. DOMAIN inbox' = 1..(Len(inbox) + Len(group)) /\ DOMAIN inbox = 1..Len(inbox)
  BY <1>2, <1>15, LenProperties
<1>17. \A k \in DOMAIN inbox' :
          \/ k \in DOMAIN inbox /\ inbox'[k] = inbox[k] /\ inbox[k] \in 1..Len(sent)
          \/ /\ k - Len(inbox) \in 1..Len(group)
             /\ inbox'[k] = ids[k - Len(inbox)]
             /\ inbox'[k] = Len(sent) + (k - Len(inbox))
  <2>1. ASSUME NEW k \in DOMAIN inbox', k \notin DOMAIN inbox
        PROVE  /\ k - Len(inbox) \in 1..Len(group)
               /\ inbox'[k] = ids[k - Len(inbox)]
               /\ inbox'[k] = Len(sent) + (k - Len(inbox))
    <3>1. k - Len(inbox) \in 1..Len(group) /\ k = Len(inbox) + (k - Len(inbox))
      BY <1>5, <1>15, <1>16, <2>1
    <3>2. QED
      BY <1>12, <1>15, <3>1
  <2>2. QED
    BY <1>4, <1>15, <1>16, <2>1
<1>18. Range(inbox') = Range(inbox) \cup new
  <2>1. Range(inbox') \subseteq Range(inbox) \cup new
    BY <1>5, <1>13, <1>12, <1>17 DEF Range
  <2>2. Range(inbox) \subseteq Range(inbox')
    BY <1>5, <1>15, <1>16 DEF Range
  <2>3. new \subseteq Range(inbox')
    <3>1. ASSUME NEW i \in 1..Len(group)
          PROVE  Len(sent) + i \in Range(inbox')
      <4>1. Len(inbox) + i \in DOMAIN inbox'
        BY <1>5, <1>15, <1>16
      <4>2. QED
        BY <1>12, <1>15, <4>1 DEF Range
    <3>2. QED
      BY <1>5, <3>1
  <2>4. QED
    BY <2>1, <2>2, <2>3
<1>19. Increasing(inbox) => Increasing(inbox')
  <2> SUFFICES ASSUME Increasing(inbox), NEW i \in DOMAIN inbox', NEW j \in DOMAIN inbox',
                      i < j
               PROVE  inbox'[i] < inbox'[j]
    BY DEF Increasing
  <2>1. i \in Nat /\ j \in Nat
    BY <1>16
  <2>2. CASE j \in DOMAIN inbox
    <3>1. i \in DOMAIN inbox
      BY <1>15, <1>16, <2>1, <2>2
    <3>2. QED
      BY <1>15, <1>16, <2>2, <3>1 DEF Increasing
  <2>3. CASE j \notin DOMAIN inbox /\ i \in DOMAIN inbox
    <3>1. inbox'[i] \in 1..Len(sent)
      BY <1>4, <1>15, <1>16, <2>3
    <3>2. j - Len(inbox) \in 1..Len(group) /\ inbox'[j] = Len(sent) + (j - Len(inbox))
      BY <1>17, <2>3
    <3>3. QED
      BY <1>4, <1>5, <1>15, <2>1, <3>1, <3>2
  <2>4. CASE j \notin DOMAIN inbox /\ i \notin DOMAIN inbox
    BY <1>4, <1>5, <1>15, <1>17, <2>1, <2>4
  <2>5. QED
    BY <2>2, <2>3, <2>4
<1>20. pending' = pending \cup new
  BY DEF Post, group
<1>21. /\ \A id \in DOMAIN sent : sent'[id] = sent[id]
       /\ \A i \in DOMAIN group : sent'[Len(sent) + i].op = group[i]
  <2>1. ASSUME NEW i \in DOMAIN group
        PROVE  requests[i].op = group[i]
    <3>1. requests[i] = [op |-> group[i], name |-> name]
      BY <1>5
    <3>2. QED
      BY <3>1
  <2>2. QED
    BY <1>4, <1>5, <1>7, <2>1
<1>22. QED
  BY <1>1, <1>7, <1>9, <1>10, <1>15, <1>18, <1>19, <1>20, <1>21 DEF group, Request

LEMMA PostKeepsTypes ==
    ASSUME TypeOK,
           NEW f \in AllFlows, NEW kind \in Kinds \cup {"boot", "seed", "none"}, NEW name \in Names,
           NEW script \in Seq(Seq(Ops)), script # <<>>,
           NEW earlier, earlier \subseteq DOMAIN sent,
           Post(f, kind, name, script, earlier)
    PROVE  TypeOK'
<1> DEFINE new == {Len(sent) + i : i \in DOMAIN Head(script)}
<1>1. /\ sent' \in Seq([op : Ops, name : Names])
      /\ DOMAIN sent' = DOMAIN sent \cup new
      /\ \A id \in new : id \in Nat
      /\ inbox' \in Seq(DOMAIN sent')
      /\ pending' = pending \cup new
  BY PostAppends
<1>2. /\ flow' = [flow EXCEPT ![f] =
                     [kind |-> kind, name |-> name, status |-> "running",
                      script |-> Tail(script), ids |-> earlier \cup new]]
      /\ UNCHANGED <<settled, outbox, loading, db, handle, patient>>
  BY DEF Post
<1> HIDE DEF new
<1>3. Tail(script) \in Seq(Seq(Ops))
  OBVIOUS
<1>4. earlier \cup new \in SUBSET Nat
  BY <1>1, RequestTypes
<1>5. flow \in [AllFlows -> Flow] /\ \A g \in AllFlows : flow[g].ids \subseteq DOMAIN sent
  BY DEF TypeOK
<1>6. [kind |-> kind, name |-> name, status |-> "running",
       script |-> Tail(script), ids |-> earlier \cup new] \in Flow
  BY <1>3, <1>4 DEF Flow
<1>7. flow' \in [AllFlows -> Flow]
  BY <1>2, <1>5, <1>6
<1>8. \A g \in AllFlows : flow'[g].ids \subseteq DOMAIN sent'
  BY <1>1, <1>2, <1>5
<1>9. /\ pending' \cup loading' \subseteq DOMAIN sent'
      /\ \A frame \in settled' \cup Range(outbox') : frame.id \in DOMAIN sent'
  BY <1>1, <1>2 DEF TypeOK
<1>10. /\ outbox' \in Seq(Frame)
       /\ \A frame \in settled' : frame \in Frame /\ frame.result # "progress"
       /\ db' \in Session \cup {NoSession}
       /\ handle' \in {"sound", "borrowed", "freed"}
       /\ patient' \in Patience
  BY <1>2 DEF TypeOK
<1>11. QED
  BY <1>1, <1>7, <1>8, <1>9, <1>10 DEF TypeOK

LEMMA PostKeepsPlaces ==
    ASSUME TypeOK, Places,
           NEW f \in AllFlows, NEW kind, NEW name \in Names,
           NEW script \in Seq(Seq(Ops)), script # <<>>,
           NEW earlier,
           Post(f, kind, name, script, earlier)
    PROVE  Places'
<1> DEFINE new == {Len(sent) + i : i \in DOMAIN Head(script)}
<1>1. /\ DOMAIN sent' = DOMAIN sent \cup new
      /\ \A id \in new : id \in Nat /\ id > Len(sent)
      /\ Range(inbox') = Range(inbox) \cup new
      /\ Increasing(inbox) => Increasing(inbox')
      /\ pending' = pending \cup new
  BY PostAppends
<1>2. UNCHANGED <<settled, outbox, loading>>
  BY DEF Post
<1> HIDE DEF new
<1>3. new \cap DOMAIN sent = {}
  BY <1>1, RequestTypes
<1>4. Answering' = Answering /\ Settled' = Settled
  BY <1>2 DEF Answering, Settled
<1>5. Increasing(inbox') /\ InOrder(outbox')
  BY <1>1, <1>2 DEF Places
<1>6. \A a, b \in settled' : a.id = b.id => a = b
  BY <1>2 DEF Places
<1>7. /\ DOMAIN sent' = Range(inbox') \cup loading' \cup Answering' \cup Settled'
      /\ Range(inbox') \cap loading' = {}
      /\ (Range(inbox') \cup loading') \cap Answering' = {}
      /\ (Range(inbox') \cup loading' \cup Answering') \cap Settled' = {}
      /\ pending' = DOMAIN sent' \ Settled'
  BY <1>1, <1>2, <1>3, <1>4 DEF Places
<1>8. \A frame \in Range(outbox') : frame.id \in pending'
  BY <1>1, <1>2 DEF Places
<1>9. QED
  BY <1>5, <1>6, <1>7, <1>8 DEF Places

\* A flow that ends moves no request.
LEMMA EndKeepsPlaces ==
    ASSUME TypeOK, Places,
           NEW f \in AllFlows, NEW status \in {"done", "failed"},
           End(f, status)
    PROVE  TypeOK' /\ Places'
<1>1. /\ flow' = [flow EXCEPT ![f].status = status]
      /\ UNCHANGED <<sent, pending, settled, inbox, outbox, loading, db, handle, patient>>
  BY DEF End
<1>2. flow \in [AllFlows -> Flow] /\ \A g \in AllFlows : flow[g].ids \subseteq DOMAIN sent
  BY DEF TypeOK
<1>3. [flow[f] EXCEPT !.status = status] \in Flow
  BY <1>2 DEF Flow
<1>4. flow' \in [AllFlows -> Flow] /\ \A g \in AllFlows : flow'[g].ids = flow[g].ids
  BY <1>1, <1>2, <1>3 DEF Flow
<1>5. TypeOK'
  BY <1>1, <1>2, <1>4 DEF TypeOK
<1>6. Answering' = Answering /\ Settled' = Settled
  BY <1>1 DEF Answering, Settled
<1>7. Places'
  BY <1>1, <1>6 DEF Places
<1>8. QED
  BY <1>5, <1>7

\* A frame that arrives leaves the outbox; an answer settles its request.
LEMMA DeliverKeepsPlaces ==
    ASSUME TypeOK, Places, Deliver
    PROVE  TypeOK' /\ Places' /\ Done' = Done
<1> DEFINE frame == Head(outbox)
<1>1. /\ outbox \in Seq(Frame) /\ outbox # <<>>
      /\ outbox' = Tail(outbox)
      /\ UNCHANGED <<sent, flow, inbox, loading, db, handle, patient>>
  BY DEF TypeOK, Deliver
<1>2. /\ outbox' \in Seq(Frame)
      /\ frame = outbox[1]
      /\ 1 \in DOMAIN outbox
      /\ \A i \in DOMAIN outbox' : i + 1 \in DOMAIN outbox /\ outbox'[i] = outbox[i + 1]
      /\ Range(outbox) = {frame} \cup Range(outbox')
  BY <1>1, TailMessages
<1>3. frame \in Frame /\ frame.id \in pending /\ frame.id \in DOMAIN sent
  BY <1>1, <1>2 DEF Places
<1>4. \/ /\ frame.result # "progress"
         /\ pending' = pending \ {frame.id}
         /\ settled' = settled \cup {frame}
      \/ /\ frame.result = "progress"
         /\ UNCHANGED <<pending, settled>>
  BY <1>3 DEF Deliver
<1>5. frame.result # "progress" => \A fr \in Range(outbox') : fr.id # frame.id
  <2>1. ASSUME NEW i \in DOMAIN outbox'
        PROVE  i + 1 \in DOMAIN outbox /\ 1 < i + 1
    BY <1>2
  <2>2. QED
    BY <1>2, <2>1 DEF Places, InOrder, Range
<1> HIDE DEF frame
<1>6. InOrder(outbox')
  <2>1. DOMAIN outbox' \subseteq Nat
    BY <1>2
  <2>2. ASSUME NEW i \in DOMAIN outbox', NEW j \in DOMAIN outbox', i < j
        PROVE  i + 1 < j + 1
    BY <2>1, <2>2
  <2>3. QED
    BY <1>2, <2>2 DEF Places, InOrder
<1>7. Settled' = Settled \cup (IF frame.result = "progress" THEN {} ELSE {frame.id})
  BY <1>4 DEF Settled
<1>8. Answering' = Answering \ (IF frame.result = "progress" THEN {} ELSE {frame.id})
  BY <1>2, <1>5 DEF Answering
<1>9. frame.result # "progress" => frame.id \in Answering
  BY <1>2 DEF Answering
<1>10. \A fr \in settled : fr.id # frame.id
  BY <1>3 DEF Places, Settled
<1>11. \A a, b \in settled' : a.id = b.id => a = b
  BY <1>4, <1>10 DEF Places
<1>12. \A fr \in Range(outbox') : fr.id \in pending'
  BY <1>2, <1>4, <1>5 DEF Places
<1>13. /\ DOMAIN sent' = Range(inbox') \cup loading' \cup Answering' \cup Settled'
       /\ Range(inbox') \cap loading' = {}
       /\ (Range(inbox') \cup loading') \cap Answering' = {}
       /\ (Range(inbox') \cup loading' \cup Answering') \cap Settled' = {}
       /\ pending' = DOMAIN sent' \ Settled'
  BY <1>1, <1>4, <1>7, <1>8, <1>9 DEF Places
<1>14. Places'
  <2>1. Increasing(inbox')
    BY <1>1 DEF Places
  <2>2. QED
    BY <1>6, <1>11, <1>12, <1>13, <2>1 DEF Places
<1>15. TypeOK'
  <2>1. \A fr \in settled' : fr \in Frame /\ fr.result # "progress"
    BY <1>3, <1>4 DEF TypeOK
  <2>2. \A fr \in settled' \cup Range(outbox') : fr.id \in DOMAIN sent'
    BY <1>1, <1>2, <1>3, <1>4 DEF TypeOK
  <2>3. pending' \cup loading' \subseteq DOMAIN sent'
    BY <1>1, <1>4 DEF TypeOK
  <2>4. QED
    BY <1>1, <1>2, <2>1, <2>2, <2>3 DEF TypeOK
<1>16. Done' = Done
  BY <1>2, <1>4 DEF Done
<1>17. QED
  BY <1>14, <1>15, <1>16

\* An answer keeps the types.
LEMMA AnswerKeepsTypes ==
    ASSUME TypeOK, Places,
           NEW id \in Range(inbox) \cup loading, NEW answer \in Frame,
           AnsweredBy(id, answer),
           inbox' \in Seq(DOMAIN sent),
           loading' \subseteq loading,
           db' \in Session \cup {NoSession},
           handle' \in Handles,
           UNCHANGED <<sent, pending, settled, flow, patient>>
    PROVE  TypeOK'
<1>1. /\ id \in DOMAIN sent
      /\ id \notin Answering
      /\ InOrder(outbox)
  BY DEF Places
<1>2. id \in Nat /\ outbox \in Seq(Frame)
  BY <1>1, RequestTypes DEF TypeOK
<1>3. /\ outbox' \in Seq(Frame)
      /\ \A frame \in Range(outbox') :
            \/ frame \in Range(outbox) \cup {answer}
            \/ frame.id = id /\ frame.result = "progress"
  BY <1>1, <1>2, AnswerIsLast
<1>4. answer.id = id
  BY DEF AnsweredBy
<1>5. \A frame \in settled' \cup Range(outbox') : frame.id \in DOMAIN sent'
  BY <1>1, <1>3, <1>4 DEF TypeOK
<1>6. /\ sent' \in Seq([op : Ops, name : Names])
      /\ inbox' \in Seq(DOMAIN sent')
      /\ \A frame \in settled' : frame \in Frame /\ frame.result # "progress"
      /\ pending' \cup loading' \subseteq DOMAIN sent'
      /\ flow' \in [AllFlows -> Flow]
      /\ \A f \in AllFlows : flow'[f].ids \subseteq DOMAIN sent'
      /\ handle' \in {"sound", "borrowed", "freed"}
      /\ patient' \in Patience
  BY DEF TypeOK, Handles
<1>7. QED
  BY <1>3, <1>5, <1>6 DEF TypeOK

\* The inbox without its first request.
LEMMA TailOfInbox ==
    ASSUME TypeOK, Places, inbox # <<>>, inbox' = Tail(inbox)
    PROVE  /\ inbox' \in Seq(DOMAIN sent)
           /\ Head(inbox) \in Range(inbox)
           /\ Increasing(inbox')
           /\ Range(inbox') = Range(inbox) \ {Head(inbox)}
           /\ \A id \in Range(inbox') : Head(inbox) < id
<1>1. /\ inbox \in Seq(DOMAIN sent)
      /\ Increasing(inbox)
  BY DEF TypeOK, Places
<1>2. /\ inbox' \in Seq(DOMAIN sent)
      /\ Head(inbox) = inbox[1]
      /\ 1 \in DOMAIN inbox
      /\ \A i \in DOMAIN inbox' : i + 1 \in DOMAIN inbox /\ inbox'[i] = inbox[i + 1]
      /\ Range(inbox) = {inbox[1]} \cup Range(inbox')
  BY <1>1, TailMessages
<1>3. \A i \in DOMAIN inbox' : i \in Nat /\ 1 < i + 1
  BY <1>2
<1>4. \A i \in DOMAIN inbox' : Head(inbox) < inbox'[i]
  BY <1>1, <1>2, <1>3 DEF Increasing
<1>5. \A id \in Range(inbox') : Head(inbox) < id
  BY <1>4 DEF Range
<1>6. inbox[1] \in Nat
  BY <1>1, <1>2, RequestTypes
<1>7. Range(inbox') = Range(inbox) \ {Head(inbox)}
  BY <1>2, <1>5, <1>6
<1>8. Increasing(inbox')
  <2>1. ASSUME NEW i \in DOMAIN inbox', NEW j \in DOMAIN inbox', i < j
        PROVE  i + 1 < j + 1
    BY <1>3, <2>1
  <2>2. QED
    BY <1>1, <1>2, <2>1 DEF Increasing
<1>9. QED
  BY <1>2, <1>5, <1>7, <1>8

LEMMA ReceiveKeepsPlaces ==
    ASSUME TypeOK, Places, Receive
    PROVE  TypeOK' /\ Places'
<1> DEFINE id == Head(inbox)
<1>1. /\ inbox # <<>>
      /\ inbox' = Tail(inbox)
      /\ UNCHANGED <<sent, pending, settled, flow, patient>>
  BY DEF Receive
<1>2. /\ inbox' \in Seq(DOMAIN sent)
      /\ id \in Range(inbox)
      /\ Increasing(inbox')
      /\ Range(inbox') = Range(inbox) \ {id}
  BY <1>1, TailOfInbox
<1>3. id \in DOMAIN sent /\ id \notin loading
  BY <1>2 DEF Places
<1>4. CASE db # NoSession
  <2>1. db \in Session /\ handle \in Handles
    BY <1>4 DEF TypeOK, Handles
  <2>2. Serve(id, db, handle) /\ UNCHANGED loading
    BY <1>4 DEF Receive
  <2> HIDE DEF id
  <2>3. /\ db' \in Session
        /\ handle' \in Handles
        /\ \E answer \in Frame : AnsweredBy(id, answer)
    BY <1>3, <2>1, <2>2, ServeAnswers
  <2>4. Range(inbox') \cup loading' = (Range(inbox) \cup loading) \ {id}
    BY <1>2, <1>3, <2>2
  <2>5. Range(inbox') \cap loading' = {}
    BY <1>2, <2>2 DEF Places
  <2>6. Places'
    BY <1>1, <1>2, <2>3, <2>4, <2>5, AnswerKeepsPlaces
  <2>7. TypeOK'
    BY <1>1, <1>2, <2>2, <2>3, AnswerKeepsTypes
  <2>8. QED
    BY <2>6, <2>7
<1>5. CASE db = NoSession
  <2>1. loading' = loading \cup {id} /\ UNCHANGED <<outbox, db, handle>>
    BY <1>5 DEF Receive
  <2> HIDE DEF id
  <2>2. TypeOK'
    BY <1>1, <1>2, <1>3, <2>1 DEF TypeOK
  <2>3. Answering' = Answering /\ Settled' = Settled
    BY <1>1, <2>1 DEF Answering, Settled
  <2>4. Range(inbox') \cup loading' = Range(inbox) \cup loading
    BY <1>2, <2>1
  <2>5. Range(inbox') \cap loading' = {}
    BY <1>2, <2>1 DEF Places
  <2>6. Places'
    BY <1>1, <1>2, <2>1, <2>3, <2>4, <2>5 DEF Places
  <2>7. QED
    BY <2>2, <2>6
<1>6. QED
  BY <1>4, <1>5

\* A new session has no Table.
LEMMA EmptySessionType == EmptySession \in Session
BY DEF EmptySession, Session

LEMMA LoadKeepsPlaces ==
    ASSUME TypeOK, Places, NEW id \in loading, Loaded(id) \/ LoadFails(id)
    PROVE  TypeOK' /\ Places'
<1>1. /\ loading' = loading \ {id}
      /\ UNCHANGED <<sent, pending, settled, flow, inbox, patient>>
  BY DEF Loaded, LoadFails
<1>2. id \in DOMAIN sent /\ id \in Nat
  BY RequestTypes DEF Places
<1>3. /\ db' \in Session \cup {NoSession}
      /\ handle' \in Handles
      /\ \E answer \in Frame : AnsweredBy(id, answer)
  <2>1. CASE Loaded(id)
    <3>1. Serve(id, EmptySession, "sound") /\ "sound" \in Handles
      BY <2>1 DEF Loaded, Handles
    <3>2. QED
      BY <1>2, <3>1, ServeAnswers, EmptySessionType
  <2>2. CASE LoadFails(id)
    <3>1. FailFrame(id) \in Frame /\ AnsweredBy(id, FailFrame(id))
      BY <1>2, <2>2 DEF LoadFails, FailFrame, Frame, AnsweredBy
    <3>2. QED
      BY <2>2, <3>1 DEF LoadFails, TypeOK, Handles
  <2>3. QED
    BY <2>1, <2>2
<1>4. Range(inbox') \cup loading' = (Range(inbox) \cup loading) \ {id}
  BY <1>1 DEF Places
<1>5. Range(inbox') \cap loading' = {} /\ Increasing(inbox')
  BY <1>1 DEF Places
<1>6. inbox' \in Seq(DOMAIN sent)
  BY <1>1 DEF TypeOK
<1>7. Places'
  BY <1>1, <1>3, <1>4, <1>5, AnswerKeepsPlaces
<1>8. TypeOK'
  BY <1>1, <1>3, <1>6, AnswerKeepsTypes
<1>9. QED
  BY <1>7, <1>8

-----------------------------------------------------------------------------
(* What flows post *)

\* The groups of a script: each of them posts some requests.
Groups(script) ==
    /\ script \in Seq(Seq(Ops))
    /\ script # <<>>
    /\ \A i \in DOMAIN script : script[i] # <<>>

LEMMA ScriptGroups ==
    /\ \A kind \in Kinds : /\ Groups(Script(kind))
                           /\ \A i, j \in DOMAIN Head(Script(kind)) :
                                 i # j => Head(Script(kind))[i] \in {"read", "profile"}
    /\ Groups(SeedScript)
    /\ Groups(RefreshScript)
<1> DEFINE Group == Seq(Ops)
<1>1. /\ <<"create">> \in Group /\ <<"insert">> \in Group /\ <<"list">> \in Group
      /\ <<"delete">> \in Group /\ <<"read">> \in Group /\ <<"stream">> \in Group
      /\ <<"reset">> \in Group /\ <<"read", "read", "profile">> \in Group
  BY DEF Ops
<1>2. /\ <<"create">> # <<>> /\ <<"insert">> # <<>> /\ <<"list">> # <<>>
      /\ <<"delete">> # <<>> /\ <<"read">> # <<>> /\ <<"stream">> # <<>>
      /\ <<"reset">> # <<>> /\ <<"read", "read", "profile">> # <<>>
  OBVIOUS
<1> HIDE DEF Group
<1>3. Chunks \in Nat /\ Chunks # 0
  BY WorkerSessionAssumption
<1>4. /\ IngestScript \in Seq(Group)
      /\ Len(IngestScript) = Chunks
      /\ \A i \in 1..Chunks : IngestScript[i] = <<"insert">>
  <2>1. IngestScript \in [1..Chunks -> Group]
    BY <1>1, <1>3 DEF IngestScript
  <2>2. IngestScript \in Seq(Group)
    BY <1>3, <2>1, SeqDef
  <2>3. QED
    BY <1>3, <2>1, <2>2 DEF IngestScript
<1>5. /\ IngestScript # <<>>
      /\ Head(IngestScript) = <<"insert">>
      /\ \A i \in DOMAIN IngestScript : IngestScript[i] # <<>>
  <2>1. DOMAIN IngestScript = 1..Chunks
    BY <1>4, LenProperties
  <2>2. 1 \in 1..Chunks /\ Len(IngestScript) # 0
    BY <1>3, <1>4
  <2>3. IngestScript # <<>>
    BY <2>2
  <2>4. Head(IngestScript) = IngestScript[1]
    BY <1>4, <2>3
  <2>5. QED
    BY <1>2, <1>4, <2>1, <2>2, <2>3, <2>4
<1>6. RefreshScript \in Seq(Group) /\ RefreshScript = << <<"list">> >>
  BY <1>1 DEF RefreshScript
<1>7. Groups(RefreshScript)
  BY <1>2, <1>6 DEF Groups, Group
<1>8. Groups(SeedScript)
  <2> DEFINE first == << <<"create">> >>
             middle == first \o IngestScript
  <2>1. first \in Seq(Group) /\ Len(first) = 1 /\ first[1] = <<"create">>
    BY <1>1
  <2> HIDE DEF first
  <2>2. /\ middle \in Seq(Group)
        /\ Len(middle) = 1 + Chunks
        /\ DOMAIN middle = 1..(1 + Chunks)
        /\ \A i \in 1..1 : middle[i] = first[i]
        /\ \A i \in 1..Chunks : middle[1 + i] = IngestScript[i]
    <3>1. IngestScript \in Seq(Group)
      BY <1>4
    <3> DEFINE Concat(s, t) ==
                 /\ s \o t \in Seq(Group)
                 /\ Len(s \o t) = Len(s) + Len(t)
                 /\ DOMAIN (s \o t) = 1..(Len(s) + Len(t))
                 /\ \A i \in 1..Len(s) : (s \o t)[i] = s[i]
                 /\ \A i \in 1..Len(t) : (s \o t)[Len(s) + i] = t[i]
    <3>2. \A s, t \in Seq(Group) : Concat(s, t)
      BY ONLY ConcatMessages
    <3>3. first \in Seq(Group)
      BY <2>1
    <3>4. Concat(first, IngestScript)
      <4> HIDE DEF Concat
      <4> QED BY ONLY <3>1, <3>2, <3>3, Zenon
    <3>5. /\ middle \in Seq(Group)
          /\ Len(middle) = Len(first) + Len(IngestScript)
          /\ DOMAIN middle = 1..(Len(first) + Len(IngestScript))
          /\ \A i \in 1..Len(first) : middle[i] = first[i]
          /\ \A i \in 1..Len(IngestScript) : middle[Len(first) + i] = IngestScript[i]
      BY ONLY <3>4, Zenon
    <3> HIDE DEF middle
    <3>6. QED
      BY <1>4, <2>1, <3>5
  <2>3. \A i \in DOMAIN middle : middle[i] # <<>>
    <3>1. ASSUME NEW i \in DOMAIN middle, i # 1
          PROVE  middle[i] # <<>>
      <4>1. i - 1 \in 1..Chunks /\ i = 1 + (i - 1)
        BY <1>3, <2>2, <3>1
      <4>2. middle[i] = IngestScript[i - 1]
        BY <2>2, <4>1
      <4>3. QED
        BY <1>2, <1>4, <4>1, <4>2
    <3>2. middle[1] # <<>>
      BY <1>2, <2>1, <2>2
    <3>3. QED
      BY <3>1, <3>2
  <2> HIDE DEF middle
  <2> DEFINE whole == middle \o RefreshScript
  <2>4. /\ whole \in Seq(Group)
        /\ Len(whole) = Len(middle) + Len(RefreshScript)
        /\ DOMAIN whole = 1..(Len(middle) + Len(RefreshScript))
        /\ \A i \in 1..Len(middle) : whole[i] = middle[i]
        /\ \A i \in 1..Len(RefreshScript) : whole[Len(middle) + i] = RefreshScript[i]
    BY <1>6, <2>2, ConcatMessages
  <2>5. Len(RefreshScript) = 1 /\ RefreshScript[1] = <<"list">>
    BY <1>6
  <2>6. \A i \in DOMAIN whole : whole[i] # <<>>
    <3>1. ASSUME NEW i \in DOMAIN whole
          PROVE  i \in DOMAIN middle \/ i = Len(middle) + 1
      BY <1>3, <2>2, <2>4, <2>5, <3>1
    <3>2. whole[Len(middle) + 1] = <<"list">>
      BY <2>4, <2>5
    <3>3. \A i \in DOMAIN middle : whole[i] = middle[i]
      BY <2>2, <2>4
    <3>4. QED
      BY <1>2, <2>3, <3>1, <3>2, <3>3
  <2>7. whole # <<>>
    BY <1>3, <2>2, <2>4, <2>5
  <2>8. SeedScript = whole
    BY DEF SeedScript, whole, middle, first
  <2> HIDE DEF whole
  <2>9. QED
    BY <2>4, <2>6, <2>7, <2>8 DEF Groups, Group
<1>9. ASSUME NEW one \in Group, one # <<>>, NEW other \in Group, other # <<>>
      PROVE  Groups(<<one>>) /\ Groups(<<one, other>>)
  <2>1. <<one>> \in Seq(Group) /\ <<one, other>> \in Seq(Group)
    OBVIOUS
  <2>2. <<one>> # <<>> /\ <<one, other>> # <<>>
    OBVIOUS
  <2>3. \A i \in DOMAIN <<one>> : <<one>>[i] # <<>>
    BY <1>9
  <2>4. \A i \in DOMAIN <<one, other>> : <<one, other>>[i] # <<>>
    BY <1>9
  <2>5. QED
    BY <2>1, <2>2, <2>3, <2>4 DEF Groups, Group
<1>10. ASSUME NEW kind \in Kinds
      PROVE  /\ Groups(Script(kind))
             /\ \A i, j \in DOMAIN Head(Script(kind)) :
                   i # j => Head(Script(kind))[i] \in {"read", "profile"}
  <2>1. CASE kind = "create"
    <3>1. Script(kind) = << <<"create">>, <<"list">> >>
      BY <2>1 DEF Script, CreateScript
    <3>2. Groups(Script(kind))
      BY <1>1, <1>2, <1>9, <3>1
    <3>3. Head(Script(kind)) = <<"create">>
      BY <3>1
    <3>4. QED
      BY <3>2, <3>3
  <2>2. CASE kind = "ingest"
    <3>1. Script(kind) = IngestScript
      BY <2>2 DEF Script
    <3>2. DOMAIN <<"insert">> = {1}
      OBVIOUS
    <3>3. QED
      BY <1>4, <1>5, <3>1, <3>2 DEF Groups, Group
  <2>3. CASE kind = "query"
    <3>1. Script(kind) = << <<"read", "read", "profile">> >>
      BY <2>3 DEF Script, QueryScript
    <3>2. Groups(Script(kind))
      BY <1>1, <1>2, <1>9, <3>1
    <3>3. Head(Script(kind)) = <<"read", "read", "profile">>
      BY <3>1
    <3>4. QED
      BY <3>2, <3>3
  <2>4. CASE kind = "delete"
    <3>1. Script(kind) = << <<"delete">>, <<"read">> >>
      BY <2>4 DEF Script, DeleteScript
    <3>2. Groups(Script(kind))
      BY <1>1, <1>2, <1>9, <3>1
    <3>3. Head(Script(kind)) = <<"delete">>
      BY <3>1
    <3>4. QED
      BY <3>2, <3>3
  <2>5. CASE kind = "stream"
    <3>1. Script(kind) = << <<"stream">> >>
      BY <2>5 DEF Script, StreamScript
    <3>2. Groups(Script(kind))
      BY <1>1, <1>2, <1>9, <3>1
    <3>3. Head(Script(kind)) = <<"stream">>
      BY <3>1
    <3>4. QED
      BY <3>2, <3>3
  <2>6. CASE kind = "refresh"
    <3>1. Script(kind) = << <<"list">> >>
      BY <2>6 DEF Script, RefreshScript
    <3>2. Groups(Script(kind))
      BY <1>1, <1>2, <1>9, <3>1
    <3>3. Head(Script(kind)) = <<"list">>
      BY <3>1
    <3>4. QED
      BY <3>2, <3>3
  <2>7. CASE kind = "reset"
    <3>1. Script(kind) = << <<"reset">>, <<"list">> >>
      BY <2>7 DEF Script, ResetScript
    <3>2. Groups(Script(kind))
      BY <1>1, <1>2, <1>9, <3>1
    <3>3. Head(Script(kind)) = <<"reset">>
      BY <3>1
    <3>4. QED
      BY <3>2, <3>3
  <2>8. QED
    BY <2>1, <2>2, <2>3, <2>4, <2>5, <2>6, <2>7 DEF Kinds
<1>11. QED
  BY <1>7, <1>8, <1>10

\* A flow that waits for its requests and has them all answered well has had an
\* acknowledged request.
LEMMA AllOkIsDone ==
    ASSUME FlowsWait, NEW f \in AllFlows, flow[f].status = "running", AllOk(f)
    PROVE  Done # {}
<1>1. PICK id \in flow[f].ids : Answered(id, "ok")
  BY DEF FlowsWait, AllOk
<1>2. PICK frame \in settled : frame.id = id /\ frame.result = "ok"
  BY <1>1 DEF Answered
<1>3. QED
  BY <1>2 DEF Done

\* A post: by which flow, of what, and what the page knew before it.
Posts(f, kind, name, script, earlier) ==
    /\ Post(f, kind, name, script, earlier)
    /\ Groups(script)
    /\ kind = "seed" => Done # {}
    /\ \/ Done # {}
       \/ /\ patient => pending = {}
          /\ \A i, j \in DOMAIN Head(script) :
                i # j => Head(script)[i] \in {"read", "profile"}

PostStep ==
    \E f \in AllFlows, kind \in Kinds \cup {"boot", "seed", "none"}, name \in Names,
       script \in Seq(Seq(Ops)), earlier \in SUBSET DOMAIN sent :
       Posts(f, kind, name, script, earlier)

EndStep == \E f \in AllFlows, status \in {"done", "failed"} : End(f, status)

\* A click, and a flow that goes on, post a script's first group, or end.
LEMMA FlowSteps ==
    ASSUME TypeOK, FlowsWait,
           \/ \E f \in Flows, click \in Clicks : Start(f, click.kind, click.name)
           \/ \E f \in AllFlows : FlowStep(f)
    PROVE  PostStep \/ EndStep
<1>1. /\ flow \in [AllFlows -> Flow]
      /\ \A g \in AllFlows : flow[g].ids \subseteq DOMAIN sent
  BY DEF TypeOK
<1>2. Boot \in AllFlows /\ Flows \subseteq AllFlows
  BY DEF AllFlows
<1>3. ASSUME NEW f \in Flows, NEW click \in Clicks, Start(f, click.kind, click.name)
      PROVE  PostStep
  <2>1. click.kind \in Kinds /\ click.name \in Names
    BY WorkerSessionAssumption
  <2> DEFINE kind == click.kind
             name == click.name
  <2> HIDE DEF kind, name
  <2>2. Post(f, kind, name, Script(kind), {})
    BY <1>3 DEF Start, kind, name
  <2>3. /\ Groups(Script(kind))
        /\ \A i, j \in DOMAIN Head(Script(kind)) :
              i # j => Head(Script(kind))[i] \in {"read", "profile"}
    BY <2>1, ScriptGroups DEF kind
  <2>4. (\E frame \in settled : frame.result = "ok") => Done # {}
    BY DEF Done
  <2>5. Done # {} \/ (patient => pending = {})
    BY <1>3, <2>4 DEF Start
  <2>6. kind # "seed" /\ kind \in Kinds /\ name \in Names
    BY <2>1 DEF Kinds, kind, name
  <2>7. Posts(f, kind, name, Script(kind), {})
    BY <2>2, <2>3, <2>5, <2>6 DEF Posts
  <2>8. Script(kind) \in Seq(Seq(Ops)) /\ {} \in SUBSET DOMAIN sent
    BY <2>3 DEF Groups
  <2>9. QED
    BY <1>2, <2>6, <2>7, <2>8 DEF PostStep
<1>4. ASSUME NEW f \in AllFlows, NEW kind \in Kinds \cup {"boot", "seed", "none"}, NEW name \in Names,
             NEW script, Groups(script), NEW earlier \in SUBSET DOMAIN sent,
             Post(f, kind, name, script, earlier), Done # {}
      PROVE  PostStep
  <2>1. Posts(f, kind, name, script, earlier)
    BY <1>4 DEF Posts
  <2>2. script \in Seq(Seq(Ops))
    BY <1>4 DEF Groups
  <2>3. QED
    BY <2>1, <2>2 DEF PostStep
<1>5. ASSUME NEW f \in AllFlows, Continue(f)
      PROVE  PostStep
  <2>1. flow[f] \in Flow /\ flow[f].status = "running" /\ AllOk(f)
    BY <1>1, <1>5 DEF Continue
  <2>2. Done # {}
    BY <2>1, AllOkIsDone
  <2>3. flow[f].kind \in Kinds \cup {"boot", "seed", "none"} /\ flow[f].name \in Names
    BY <2>1 DEF Flow
  <2>4. Groups(flow[f].script)
    BY <1>5, <2>1 DEF Continue, FlowsWait, Groups, Flow
  <2>5. Post(f, flow[f].kind, flow[f].name, flow[f].script, flow[f].ids)
    BY <1>5 DEF Continue
  <2>6. flow[f].ids \in SUBSET DOMAIN sent
    BY <1>1
  <2>7. QED
    BY <1>4, <2>2, <2>3, <2>4, <2>5, <2>6
<1>6. ASSUME NEW f \in AllFlows, Finish(f) \/ Reject(f)
      PROVE  EndStep
  BY <1>6 DEF Finish, Reject, EndStep
<1>7. ASSUME Seed \/ SeedFails
      PROVE  PostStep
  <2>1. CASE Seed
    <3>1. Done # {}
      BY <1>2, <2>1, AllOkIsDone DEF Seed
    <3>2. Post(Boot, "seed", Demo, SeedScript, flow[Boot].ids)
      BY <2>1 DEF Seed
    <3>3. QED
      BY <1>1, <1>2, <1>4, <3>1, <3>2, ScriptGroups, WorkerSessionAssumption
  <2>2. CASE SeedFails
    <3>1. Done # {}
      BY <1>2, <2>2 DEF SeedFails, FlowsWait
    <3>2. Post(Boot, "seed", Demo, RefreshScript, {})
      BY <2>2 DEF SeedFails
    <3>3. {} \in SUBSET DOMAIN sent /\ Demo \in Names /\ Groups(RefreshScript)
      BY ScriptGroups, WorkerSessionAssumption
    <3>4. QED
      BY <1>2, <1>4, <3>1, <3>2, <3>3
  <2>3. QED
    BY <1>7, <2>1, <2>2
<1>8. QED
  BY <1>3, <1>5, <1>6, <1>7 DEF FlowStep

\* A post leaves the answers alone, and its flow waits for what it posted.
LEMMA PostKeepsFlows ==
    ASSUME TypeOK, FlowsWait,
           NEW f \in AllFlows, NEW kind, NEW name \in Names,
           NEW script \in Seq(Seq(Ops)), NEW earlier \in SUBSET DOMAIN sent,
           Posts(f, kind, name, script, earlier)
    PROVE  FlowsWait' /\ Done' = Done
<1> DEFINE new == {Len(sent) + i : i \in DOMAIN Head(script)}
           after == [kind |-> kind, name |-> name, status |-> "running",
                     script |-> Tail(script), ids |-> earlier \cup new]
<1>1. /\ flow' = [flow EXCEPT ![f] = after]
      /\ UNCHANGED <<settled, outbox>>
  BY DEF Posts, Post
<1>2. Done' = Done
  BY <1>1 DEF Done
<1>3. script # <<>> /\ \A i \in DOMAIN script : script[i] # <<>>
  BY DEF Posts, Groups
<1>4. /\ Head(script) = script[1]
      /\ 1 \in DOMAIN script
      /\ \A i \in DOMAIN Tail(script) : i + 1 \in DOMAIN script /\ Tail(script)[i] = script[i + 1]
  BY <1>3, TailMessages
<1>5. new # {}
  <2>1. Head(script) \in Seq(Ops) /\ Head(script) # <<>>
    BY <1>3, <1>4
  <2>2. 1 \in DOMAIN Head(script)
    BY <2>1
  <2>3. QED
    BY <2>2
<1>6. kind = "seed" => Done # {}
  BY DEF Posts
<1> HIDE DEF new
<1>7. /\ after.ids # {}
      /\ after.kind = kind
      /\ \A i \in DOMAIN after.script : after.script[i] # <<>>
  BY <1>3, <1>4, <1>5
<1>8. flow \in [AllFlows -> Flow]
  BY DEF TypeOK
<1>9. flow'[f] = after /\ \A g \in AllFlows \ {f} : flow'[g] = flow[g]
  BY <1>1, <1>8
<1> HIDE DEF after
<1>10. FlowsWait'
  BY <1>2, <1>6, <1>7, <1>9 DEF FlowsWait
<1>11. QED
  BY <1>2, <1>10

\* What happens in the worker and on the way leaves the flows, and acknowledged
\* requests stay acknowledged.
LEMMA FlowsKeepWaiting ==
    ASSUME FlowsWait, Done \subseteq Done', UNCHANGED flow
    PROVE  FlowsWait'
BY DEF FlowsWait

LEMMA EndKeepsFlows ==
    ASSUME TypeOK, FlowsWait, EndStep
    PROVE  FlowsWait' /\ Done' = Done
<1>1. PICK f \in AllFlows, status \in {"done", "failed"} : End(f, status)
  BY DEF EndStep
<1>2. /\ flow' = [flow EXCEPT ![f].status = status]
      /\ UNCHANGED <<settled, outbox>>
  BY <1>1 DEF End
<1>3. flow \in [AllFlows -> Flow]
  BY DEF TypeOK
<1>4. Done' = Done
  BY <1>2 DEF Done
<1>5. \A g \in AllFlows :
         /\ flow'[g].status = "running" => flow[g].status = "running"
         /\ flow'[g].ids = flow[g].ids
         /\ flow'[g].script = flow[g].script
         /\ flow'[g].kind = flow[g].kind
  BY <1>2, <1>3 DEF Flow
<1>6. FlowsWait'
  BY <1>4, <1>5 DEF FlowsWait
<1>7. QED
  BY <1>4, <1>6

-----------------------------------------------------------------------------
(* What has been acknowledged *)

\* The acknowledged requests are requests, and numbers.
LEMMA DoneTypes ==
    ASSUME TypeOK
    PROVE  Done \subseteq DOMAIN sent /\ Done \subseteq Nat
BY RequestTypes DEF Done, TypeOK

\* An answer acknowledges its request when it says so, and no other.
LEMMA AnswerDone ==
    ASSUME TypeOK, Places,
           NEW id \in Range(inbox) \cup loading, NEW answer \in Frame,
           AnsweredBy(id, answer),
           UNCHANGED settled
    PROVE  /\ answer.result = "ok" => Done' = Done \cup {id}
           /\ answer.result # "ok" => Done' = Done
<1>1. /\ id \in DOMAIN sent
      /\ id \notin Answering
      /\ InOrder(outbox)
  BY DEF Places
<1>2. id \in Nat /\ outbox \in Seq(Frame)
  BY <1>1, RequestTypes DEF TypeOK
<1>3. /\ Range(outbox) \cup {answer} \subseteq Range(outbox')
      /\ \A frame \in Range(outbox') :
            \/ frame \in Range(outbox) \cup {answer}
            \/ frame.id = id /\ frame.result = "progress"
  BY <1>1, <1>2, AnswerIsLast
<1>4. answer.id = id
  BY DEF AnsweredBy
<1>5. QED
  BY <1>3, <1>4 DEF Done

\* Nothing changes for the acknowledged requests of a Table when no request is
\* acknowledged.
LEMMA SinceStays ==
    ASSUME TypeOK, Done' = Done, NEW name, NEW ops,
           \A id \in DOMAIN sent : sent'[id] = sent[id]
    PROVE  Since(name, ops)' = Since(name, ops)
<1>1. \A id \in Done : sent'[id] = sent[id]
  BY DoneTypes
<1>2. QED
  BY <1>1 DEF Since

\* A later request extends the list of a Table's writes.
LEMMA ListsOneMore ==
    ASSUME NEW ids \in SUBSET Nat, NEW table, Lists(table, ids),
           NEW id \in Nat, \A x \in ids : x < id
    PROVE  Lists(Append(table, id), ids \cup {id})
<1> DEFINE more == Append(table, id)
<1>1. table \in Seq(ids \cup {id})
  BY SeqOfMore DEF Lists
<1>2. /\ more \in Seq(ids \cup {id})
      /\ DOMAIN more = DOMAIN table \cup {Len(table) + 1}
      /\ \A i \in DOMAIN table : more[i] = table[i] /\ i < Len(table) + 1
      /\ more[Len(table) + 1] = id
  BY <1>1, AppendMessage
<1>3. \A i \in DOMAIN table : table[i] \in ids /\ i \in Nat
  BY DEF Lists
<1>4. Len(table) \in Nat
  BY <1>1
<1> HIDE DEF more
<1>5. \A x \in ids \cup {id} : \E i \in DOMAIN more : more[i] = x
  BY <1>2 DEF Lists
<1>6. \A i, j \in DOMAIN more : i < j => more[i] < more[j]
  <2> SUFFICES ASSUME NEW i \in DOMAIN more, NEW j \in DOMAIN more, i < j
               PROVE  more[i] < more[j]
    OBVIOUS
  <2>1. i \in DOMAIN table
    BY <1>2, <1>3, <1>4
  <2>2. CASE j \in DOMAIN table
    BY <1>2, <2>1, <2>2 DEF Lists
  <2>3. CASE j = Len(table) + 1
    BY <1>2, <1>3, <2>1, <2>3
  <2>4. QED
    BY <1>2, <2>2, <2>3
<1>7. QED
  BY <1>2, <1>5, <1>6 DEF Lists, more

\* A Table's list of writes is never the mark of a missing Table.
LEMMA NoTableIsNoTable == \A table \in Seq(Nat) \cup {<<>>} : table # NoTable
<1>1. <<>> \in Seq(Nat)
  OBVIOUS
<1>2. NoTable \notin Seq(Nat)
  BY WorkerSessionAssumption
<1>3. QED
  BY <1>1, <1>2

\* Before the first acknowledged request, the one that is acknowledged finds no
\* Table and waits alone; what it leaves is acknowledged.
LEMMA FirstAnswer ==
    ASSUME TypeOK, Places, BeforeFirstAnswer, Done = {},
           NEW id \in Range(inbox) \cup loading, NEW state \in Handles,
           Serve(id, EmptySession, state),
           Range(inbox') \cup loading' = (Range(inbox) \cup loading) \ {id},
           UNCHANGED <<sent, pending, settled>>
    PROVE  IF Done' = {} THEN BeforeFirstAnswer' ELSE AfterFirstAnswer'
<1>1. id \in DOMAIN sent /\ id \in pending /\ Range(inbox) \cup loading \subseteq pending
  BY DEF Places
<1>2. PICK answer \in Frame :
          /\ AnsweredBy(id, answer)
          /\ \/ answer.result = "ok" /\ CarryOut(id, EmptySession, state)
             \/ answer.result = "fail" /\ db' = EmptySession
  BY <1>1, ServeAnswers, EmptySessionType
<1>3. CASE answer.result = "fail"
  <2>1. Done' = {}
    BY <1>2, <1>3, AnswerDone
  <2>2. BeforeFirstAnswer'
    BY <1>2, <1>3 DEF BeforeFirstAnswer
  <2>3. QED
    BY <2>1, <2>2
<1>4. CASE answer.result = "ok"
  <2>1. Done' = {id}
    BY <1>2, <1>4, AnswerDone
  <2>2. /\ Accepts(sent[id], EmptySession, state)
        /\ sent[id].op # "profile"
        /\ db' = Effect(id, EmptySession)
    BY <1>2, <1>4 DEF CarryOut
  <2>3. sent[id].op \in Ops /\ sent[id].name \in Names
    BY <1>1, RequestTypes
  <2>4. sent[id].op \in {"create", "list", "reset"}
    BY <2>2, <2>3 DEF Accepts, EmptySession
  <2>5. pending = {id}
    BY <1>1, <2>4 DEF BeforeFirstAnswer
  <2>6. Range(inbox') = {} /\ loading' = {}
    BY <1>1, <2>5
  <2>7. Effect(id, EmptySession) \in Session
    BY <1>1, <2>2, EffectIsSession, EmptySessionType
  <2>8. db' # NoSession
    BY <2>2, <2>7, WorkerSessionAssumption DEF Session
  <2>9. ASSUME NEW name \in Names
        PROVE  IF db'[name] = NoTable
               THEN Since(name, {"create", "insert", "delete"})' = {}
               ELSE /\ Since(name, {"create"})' # {}
                    /\ Lists(db'[name], Since(name, {"insert", "delete"})')
    <3>1. CASE sent[id].op = "create" /\ sent[id].name = name
      <4>1. db'[name] = <<>> /\ <<>> # NoTable
        <5>1. <<>> # NoTable
          BY NoTableIsNoTable
        <5>2. QED
          BY <2>2, <3>1, <5>1 DEF Effect, Written
      <4>2. Since(name, {"create"})' = {id}
        BY <2>1, <3>1 DEF Since
      <4>3. Since(name, {"insert", "delete"})' = {}
        BY <2>1, <3>1 DEF Since
      <4>4. Lists(<<>>, {})
        BY DEF Lists
      <4>5. QED
        BY <4>1, <4>2, <4>3, <4>4
    <3>2. CASE ~(sent[id].op = "create" /\ sent[id].name = name)
      <4>1. db'[name] = NoTable
        BY <2>2, <2>4, <3>2 DEF Effect, Written, EmptySession
      <4>2. Since(name, {"create", "insert", "delete"})' = {}
        BY <2>1, <2>4, <3>2 DEF Since
      <4>3. QED
        BY <4>1, <4>2
    <3>3. QED
      BY <3>1, <3>2
  <2>10. QED
    BY <2>1, <2>6, <2>8, <2>9 DEF AfterFirstAnswer
<1>5. QED
  BY <1>2, <1>3, <1>4

\* After it, the next request the worker serves keeps the session's lists what
\* was acknowledged.
LEMMA NextAnswer ==
    ASSUME TypeOK, Places, AfterFirstAnswer, Done # {},
           inbox # <<>>, inbox' = Tail(inbox),
           Serve(Head(inbox), db, handle),
           UNCHANGED <<sent, pending, settled, loading>>
    PROVE  Done' # {} /\ AfterFirstAnswer'
<1> DEFINE id == Head(inbox)
<1>1. /\ id \in Range(inbox)
      /\ Range(inbox') \subseteq Range(inbox)
      /\ \A x \in Range(inbox') : id < x
  BY TailOfInbox
<1>2. id \in DOMAIN sent /\ id \in Nat
  BY <1>1, RequestTypes DEF Places
<1>3. \A done \in Done : done < id /\ done \in Nat
  BY <1>1, DoneTypes DEF AfterFirstAnswer
<1>4. db \in Session /\ handle \in Handles
  BY DEF AfterFirstAnswer, TypeOK, Handles
<1> HIDE DEF id
<1>5. Serve(id, db, handle)
  BY DEF id
<1>6. PICK answer \in Frame :
          /\ AnsweredBy(id, answer)
          /\ \/ answer.result = "ok" /\ CarryOut(id, db, handle)
             \/ answer.result = "fail" /\ db' = db
  BY <1>2, <1>4, <1>5, ServeAnswers
<1>7. db' \in Session
  BY <1>2, <1>4, <1>5, ServeAnswers
<1>8. db' # NoSession
  BY <1>7, WorkerSessionAssumption DEF Session
<1>9. loading' = {}
  BY DEF AfterFirstAnswer
<1>10. CASE answer.result = "fail"
  <2>1. Done' = Done
    BY <1>1, <1>6, <1>10, AnswerDone
  <2>2. \A name \in Names :
           /\ Since(name, {"create", "insert", "delete"})'
                = Since(name, {"create", "insert", "delete"})
           /\ Since(name, {"create"})' = Since(name, {"create"})
           /\ Since(name, {"insert", "delete"})' = Since(name, {"insert", "delete"})
    BY <2>1 DEF Since
  <2>3. db' = db
    BY <1>6, <1>10
  <2>4. QED
    BY <1>1, <1>8, <1>9, <2>1, <2>2, <2>3 DEF AfterFirstAnswer
<1>11. CASE answer.result = "ok"
  <2>1. Done' = Done \cup {id}
    BY <1>1, <1>6, <1>11, AnswerDone
  <2>2. /\ Accepts(sent[id], db, handle)
        /\ db' = Effect(id, db)
    BY <1>6, <1>11 DEF CarryOut
  <2>3. sent[id].op \in Ops /\ sent[id].name \in Names
    BY <1>2, RequestTypes
  <2>4. \A x \in Range(inbox'), done \in Done' : done < x
    BY <1>1, <2>1 DEF AfterFirstAnswer
  <2>5. CASE sent[id].op = "reset"
    <3>1. \A name \in Names : db'[name] = NoTable
      BY <2>2, <2>5 DEF Effect, EmptySession
    <3>2. \A done \in Done' : ~(id < done)
      BY <1>2, <1>3, <2>1
    <3>3. \A name \in Names : Since(name, {"create", "insert", "delete"})' = {}
      BY <2>1, <2>5, <3>2 DEF Since
    <3>4. QED
      BY <1>8, <1>9, <2>1, <2>4, <3>1, <3>3 DEF AfterFirstAnswer
  <2>6. CASE sent[id].op # "reset"
    <3>1. ASSUME NEW name \in Names, NEW ops
          PROVE  /\ sent[id].op \in ops /\ sent[id].name = name
                        => Since(name, ops)' = Since(name, ops) \cup {id}
                 /\ ~(sent[id].op \in ops /\ sent[id].name = name)
                        => Since(name, ops)' = Since(name, ops)
      BY <1>3, <2>1, <2>6 DEF Since
    <3>2. ASSUME NEW name \in Names
          PROVE  IF db'[name] = NoTable
                 THEN Since(name, {"create", "insert", "delete"})' = {}
                 ELSE /\ Since(name, {"create"})' # {}
                      /\ Lists(db'[name], Since(name, {"insert", "delete"})')
      <4> DEFINE made == Since(name, {"create"})
                 writes == Since(name, {"insert", "delete"})
                 all == Since(name, {"create", "insert", "delete"})
      <4>1. IF db[name] = NoTable THEN all = {} ELSE made # {} /\ Lists(db[name], writes)
        BY DEF AfterFirstAnswer
      <4>2. db'[name] = Written(id, name, db[name])
        BY <2>2, <2>6 DEF Effect
      <4>3. made \subseteq all /\ writes \subseteq all /\ writes \in SUBSET Nat
        BY DoneTypes DEF Since
      <4>4. \A x \in writes : x < id
        BY <1>3 DEF Since
      <4>5. db[name] \in Seq(Nat) \cup {NoTable}
        BY <1>4 DEF Session
      <4>6. CASE sent[id].name # name \/ sent[id].op \notin {"create", "insert", "delete"}
        <5>1. db'[name] = db[name]
          BY <4>2, <4>6 DEF Written
        <5>2. made' = made
          BY <3>1, <4>6
        <5>3. writes' = writes
          BY <3>1, <4>6
        <5>4. all' = all
          BY <3>1, <4>6
        <5>5. QED
          BY <4>1, <5>1, <5>2, <5>3, <5>4
      <4>7. CASE sent[id].name = name /\ sent[id].op = "create"
        <5>1. db[name] = NoTable
          BY <2>2, <4>7 DEF Accepts
        <5>2. db'[name] = <<>> /\ <<>> # NoTable
          BY <4>2, <4>7, NoTableIsNoTable DEF Written
        <5>3. made' = {id} /\ writes' = {}
          BY <3>1, <4>1, <4>3, <4>7, <5>1
        <5>4. Lists(<<>>, {})
          BY DEF Lists
        <5>5. QED
          BY <5>2, <5>3, <5>4
      <4>8. CASE sent[id].name = name /\ sent[id].op \in {"insert", "delete"}
        <5>1. db[name] # NoTable
          BY <2>2, <4>8 DEF Accepts
        <5>2. db'[name] = Append(db[name], id)
          BY <4>2, <4>8 DEF Written
        <5>3. Append(db[name], id) \in Seq(Nat)
          BY <1>2, <4>5, <5>1
        <5>4. made' = made
          BY <3>1, <4>8
        <5>5. writes' = writes \cup {id}
          BY <3>1, <4>8
        <5>6. Lists(Append(db[name], id), writes \cup {id})
          BY <1>2, <4>1, <4>3, <4>4, <5>1, ListsOneMore
        <5>7. QED
          BY <4>1, <5>1, <5>2, <5>3, <5>4, <5>5, <5>6, NoTableIsNoTable
      <4>9. QED
        BY <4>6, <4>7, <4>8
    <3>3. QED
      BY <1>8, <1>9, <2>1, <2>4, <3>2 DEF AfterFirstAnswer
  <2>7. QED
    BY <2>5, <2>6
<1>12. QED
  BY <1>6, <1>10, <1>11

\* A post keeps what a patient user's session holds: before the first answer the
\* user waits until no request is pending, and later requests come after.
LEMMA PostKeepsAcknowledged ==
    ASSUME TypeOK, Places, Acknowledged,
           NEW f \in AllFlows, NEW kind, NEW name \in Names,
           NEW script \in Seq(Seq(Ops)), NEW earlier \in SUBSET DOMAIN sent,
           Posts(f, kind, name, script, earlier)
    PROVE  Acknowledged'
<1> DEFINE new == {Len(sent) + i : i \in DOMAIN Head(script)}
<1>1. /\ script # <<>>
      /\ Post(f, kind, name, script, earlier)
      /\ UNCHANGED <<settled, outbox, loading, db, patient>>
  BY DEF Posts, Post, Groups
<1>2. /\ Head(script) \in Seq(Ops)
      /\ \A id \in DOMAIN sent : sent'[id] = sent[id]
      /\ \A i \in DOMAIN Head(script) : sent'[Len(sent) + i].op = Head(script)[i]
      /\ \A id \in new : id \in Nat /\ id > Len(sent)
      /\ Range(inbox') = Range(inbox) \cup new
      /\ pending' = pending \cup new
  BY <1>1, PostAppends
<1>3. Done' = Done
  BY <1>1 DEF Done
<1>4. SUFFICES ASSUME patient
               PROVE  IF Done = {} THEN BeforeFirstAnswer' ELSE AfterFirstAnswer'
  BY <1>1, <1>3 DEF Acknowledged
<1>5. CASE Done = {}
  <2>1. /\ pending = {}
        /\ \A i, j \in DOMAIN Head(script) :
              i # j => Head(script)[i] \in {"read", "profile"}
    BY <1>4, <1>5 DEF Posts
  <2>2. \A id, other \in new : id # other => sent'[id].op \in {"read", "profile"}
    BY <1>2, <2>1
  <2>3. db' \in {NoSession, EmptySession}
    BY <1>1, <1>4, <1>5 DEF Acknowledged, BeforeFirstAnswer
  <2> HIDE DEF new
  <2>4. QED
    BY <1>2, <1>5, <2>1, <2>2, <2>3 DEF BeforeFirstAnswer
<1>6. CASE Done # {}
  <2>1. AfterFirstAnswer
    BY <1>4, <1>6 DEF Acknowledged
  <2>2. \A done \in Done : done \in Nat /\ done <= Len(sent) /\ Len(sent) \in Nat
    BY DoneTypes, RequestTypes
  <2> HIDE DEF new
  <2>3. \A id \in Range(inbox'), done \in Done : done < id
    BY <1>2, <2>1, <2>2 DEF AfterFirstAnswer
  <2>4. \A n \in Names :
           /\ Since(n, {"create", "insert", "delete"})'
                = Since(n, {"create", "insert", "delete"})
           /\ Since(n, {"create"})' = Since(n, {"create"})
           /\ Since(n, {"insert", "delete"})' = Since(n, {"insert", "delete"})
    BY <1>2, <1>3, SinceStays
  <2>5. QED
    BY <1>1, <1>3, <1>6, <2>1, <2>3, <2>4 DEF AfterFirstAnswer
<1>7. QED
  BY <1>5, <1>6

\* A step that acknowledges nothing, posts nothing and leaves the session alone.
LEMMA QuietKeepsAcknowledged ==
    ASSUME TypeOK, Acknowledged,
           Done' = Done,
           pending' \subseteq pending,
           Range(inbox') \subseteq Range(inbox),
           loading' \subseteq loading,
           UNCHANGED <<sent, db, patient>>
    PROVE  Acknowledged'
<1>1. \A n \in Names :
         /\ Since(n, {"create", "insert", "delete"})'
              = Since(n, {"create", "insert", "delete"})
         /\ Since(n, {"create"})' = Since(n, {"create"})
         /\ Since(n, {"insert", "delete"})' = Since(n, {"insert", "delete"})
  BY SinceStays
<1>2. BeforeFirstAnswer => BeforeFirstAnswer'
  BY DEF BeforeFirstAnswer
<1>3. AfterFirstAnswer => AfterFirstAnswer'
  BY <1>1 DEF AfterFirstAnswer
<1>4. QED
  BY <1>2, <1>3 DEF Acknowledged

LEMMA DeliverKeepsAcknowledged ==
    ASSUME TypeOK, Places, Acknowledged, Deliver
    PROVE  Acknowledged'
<1>1. Done' = Done
  BY DeliverKeepsPlaces
<1>2. pending' \subseteq pending /\ UNCHANGED <<sent, inbox, loading, db, patient>>
  BY DEF Deliver
<1>3. QED
  BY <1>1, <1>2, QuietKeepsAcknowledged

LEMMA ReceiveKeepsAcknowledged ==
    ASSUME TypeOK, Places, Acknowledged, Receive
    PROVE  Acknowledged' /\ Done \subseteq Done'
<1> DEFINE id == Head(inbox)
<1>1. /\ inbox # <<>>
      /\ inbox' = Tail(inbox)
      /\ UNCHANGED <<sent, pending, settled, flow, patient>>
  BY DEF Receive
<1>2. /\ id \in Range(inbox)
      /\ Range(inbox') = Range(inbox) \ {id}
  BY <1>1, TailOfInbox
<1>3. id \in DOMAIN sent /\ id \notin loading
  BY <1>2 DEF Places
<1> HIDE DEF id
<1>4. CASE db # NoSession
  <2>1. db \in Session /\ handle \in Handles
    BY <1>4 DEF TypeOK, Handles
  <2>2. Serve(id, db, handle) /\ UNCHANGED loading
    BY <1>4 DEF Receive, id
  <2>3. Done \subseteq Done'
    <3>1. PICK answer \in Frame : AnsweredBy(id, answer)
      BY <1>3, <2>1, <2>2, ServeAnswers
    <3>2. QED
      BY <1>1, <1>2, <3>1, AnswerDone
  <2>4. ASSUME patient, Done = {}
        PROVE  IF Done' = {} THEN BeforeFirstAnswer' ELSE AfterFirstAnswer'
    <3>1. BeforeFirstAnswer /\ db = EmptySession
      BY <1>4, <2>4 DEF Acknowledged, BeforeFirstAnswer
    <3>2. Range(inbox') \cup loading' = (Range(inbox) \cup loading) \ {id}
      BY <1>2, <1>3, <2>2
    <3>3. Serve(id, EmptySession, handle)
      BY <2>2, <3>1
    <3>4. QED
      BY <1>1, <1>2, <2>1, <2>4, <3>1, <3>2, <3>3, FirstAnswer
  <2>5. ASSUME patient, Done # {}
        PROVE  Done' # {} /\ AfterFirstAnswer'
    <3>1. AfterFirstAnswer
      BY <2>5 DEF Acknowledged
    <3>2. QED
      BY <1>1, <2>2, <2>5, <3>1, NextAnswer DEF id
  <2>6. QED
    BY <1>1, <2>3, <2>4, <2>5 DEF Acknowledged
<1>5. CASE db = NoSession
  <2>1. loading' = loading \cup {id} /\ UNCHANGED <<outbox, db, handle>>
    BY <1>5 DEF Receive, id
  <2>2. Done' = Done
    BY <1>1, <2>1 DEF Done
  <2>3. patient => Done = {} /\ BeforeFirstAnswer
    BY <1>5 DEF Acknowledged, AfterFirstAnswer
  <2>4. QED
    BY <1>1, <2>1, <2>2, <2>3 DEF Acknowledged, BeforeFirstAnswer
<1>6. QED
  BY <1>4, <1>5

LEMMA LoadKeepsAcknowledged ==
    ASSUME TypeOK, Places, Acknowledged, NEW id \in loading, Loaded(id) \/ LoadFails(id)
    PROVE  Acknowledged' /\ Done \subseteq Done'
<1>1. /\ loading' = loading \ {id}
      /\ UNCHANGED <<sent, pending, settled, flow, inbox, patient>>
  BY DEF Loaded, LoadFails
<1>2. id \in DOMAIN sent /\ id \in Nat
  BY RequestTypes DEF Places
<1>3. patient => Done = {} /\ BeforeFirstAnswer
  BY DEF Acknowledged, AfterFirstAnswer
<1>4. CASE Loaded(id)
  <2>1. Serve(id, EmptySession, "sound") /\ "sound" \in Handles
    BY <1>4 DEF Loaded, Handles
  <2>2. Done \subseteq Done'
    <3>1. PICK answer \in Frame : AnsweredBy(id, answer)
      BY <1>2, <2>1, ServeAnswers, EmptySessionType
    <3>2. QED
      BY <1>1, <3>1, AnswerDone
  <2>3. Range(inbox') \cup loading' = (Range(inbox) \cup loading) \ {id}
    BY <1>1 DEF Places
  <2>4. ASSUME patient
        PROVE  IF Done' = {} THEN BeforeFirstAnswer' ELSE AfterFirstAnswer'
    BY <1>1, <1>3, <2>1, <2>3, <2>4, FirstAnswer
  <2>5. QED
    BY <1>1, <2>2, <2>4 DEF Acknowledged
<1>5. CASE LoadFails(id)
  <2>1. /\ outbox' = Append(outbox, FailFrame(id))
        /\ UNCHANGED db
    BY <1>5 DEF LoadFails
  <2>2. FailFrame(id) \in Frame /\ AnsweredBy(id, FailFrame(id))
    BY <1>2, <2>1 DEF FailFrame, Frame, AnsweredBy
  <2>3. FailFrame(id).result # "ok"
    BY DEF FailFrame
  <2>4. Done' = Done
    BY <1>1, <2>2, <2>3, AnswerDone
  <2>5. QED
    BY <1>1, <2>1, <2>4, QuietKeepsAcknowledged
<1>6. QED
  BY <1>4, <1>5

-----------------------------------------------------------------------------
(* The invariant *)

LEMMA InitSession == Init => SessionInv
<1> SUFFICES ASSUME Init PROVE SessionInv
  OBVIOUS
<1> USE DEF Init
<1>1. /\ sent = << [op |-> "list", name |-> Demo] >>
      /\ DOMAIN sent = {1}
      /\ sent[1].op = "list"
      /\ [op |-> "list", name |-> Demo] \in [op : Ops, name : Names]
  BY WorkerSessionAssumption DEF Ops
<1>2. sent \in Seq([op : Ops, name : Names])
  BY <1>1
<1>3. /\ inbox \in Seq(DOMAIN sent)
      /\ Range(inbox) = {1}
      /\ Increasing(inbox)
      /\ Range(outbox) = {}
      /\ InOrder(outbox)
      /\ outbox \in Seq(Frame)
  BY <1>1 DEF Range, Increasing, InOrder
<1>4. Boot \in AllFlows /\ Flows \subseteq AllFlows /\ AllFlows = Flows \cup {Boot}
  BY DEF AllFlows
<1>5. NewFlow \in Flow /\ [NewFlow EXCEPT !.kind = "boot", !.status = "running", !.ids = {1}] \in Flow
  <2>1. <<>> \in Seq(Seq(Ops)) /\ {1} \in SUBSET Nat
    OBVIOUS
  <2>2. QED
    BY <2>1, WorkerSessionAssumption DEF NewFlow, Flow
<1>6. /\ flow \in [AllFlows -> Flow]
      /\ \A f \in AllFlows : flow[f].ids \subseteq {1}
      /\ \A f \in AllFlows : flow[f].status = "running" => flow[f].ids # {}
      /\ \A f \in AllFlows : flow[f].script = <<>> /\ flow[f].kind # "seed"
  BY <1>5 DEF NewFlow
<1>7. TypeOK
  BY <1>1, <1>2, <1>3, <1>6 DEF TypeOK
<1>8. Answering = {} /\ Settled = {} /\ Done = {}
  BY <1>3 DEF Answering, Settled, Done
<1>9. Places
  BY <1>1, <1>3, <1>8 DEF Places
<1>10. FlowsWait
  BY <1>6 DEF FlowsWait
<1>11. Acknowledged
  BY <1>8 DEF Acknowledged, BeforeFirstAnswer
<1>12. QED
  BY <1>7, <1>9, <1>10, <1>11 DEF SessionInv

LEMMA NextSession == SessionInv /\ [Next]_vars => SessionInv'
<1> SUFFICES ASSUME SessionInv, [Next]_vars PROVE SessionInv'
  OBVIOUS
<1> USE DEF SessionInv
<1>1. CASE PostStep
  <2>1. PICK f \in AllFlows, kind \in Kinds \cup {"boot", "seed", "none"}, name \in Names,
             script \in Seq(Seq(Ops)), earlier \in SUBSET DOMAIN sent :
             Posts(f, kind, name, script, earlier)
    BY <1>1 DEF PostStep
  <2>2. Post(f, kind, name, script, earlier) /\ script # <<>>
    BY <2>1 DEF Posts, Groups
  <2>3. TypeOK' /\ Places'
    BY <2>2, PostKeepsTypes, PostKeepsPlaces
  <2>4. FlowsWait'
    BY <2>1, PostKeepsFlows
  <2>5. Acknowledged'
    BY <2>1, PostKeepsAcknowledged
  <2>6. QED
    BY <2>3, <2>4, <2>5
<1>2. CASE EndStep
  <2>1. PICK f \in AllFlows, status \in {"done", "failed"} : End(f, status)
    BY <1>2 DEF EndStep
  <2>2. TypeOK' /\ Places'
    BY <2>1, EndKeepsPlaces
  <2>3. FlowsWait' /\ Done' = Done
    BY <1>2, EndKeepsFlows
  <2>4. UNCHANGED <<sent, pending, inbox, loading, db, patient>>
    BY <2>1 DEF End
  <2>5. Acknowledged'
    BY <2>3, <2>4, QuietKeepsAcknowledged
  <2>6. QED
    BY <2>2, <2>3, <2>5
<1>3. CASE Deliver
  <2>1. TypeOK' /\ Places' /\ Done' = Done
    BY <1>3, DeliverKeepsPlaces
  <2>2. UNCHANGED flow
    BY <1>3 DEF Deliver
  <2>3. QED
    BY <1>3, <2>1, <2>2, FlowsKeepWaiting, DeliverKeepsAcknowledged
<1>4. CASE Receive
  <2>1. UNCHANGED flow
    BY <1>4 DEF Receive
  <2>2. QED
    BY <1>4, <2>1, ReceiveKeepsPlaces, ReceiveKeepsAcknowledged, FlowsKeepWaiting
<1>5. CASE LoadEnds
  <2>1. PICK id \in loading : Loaded(id) \/ LoadFails(id)
    BY <1>5 DEF LoadEnds
  <2>2. UNCHANGED flow
    BY <2>1 DEF Loaded, LoadFails
  <2>3. QED
    BY <2>1, <2>2, LoadKeepsPlaces, LoadKeepsAcknowledged, FlowsKeepWaiting
<1>6. CASE UNCHANGED vars
  <2>1. UNCHANGED <<sent, pending, settled, flow, inbox, outbox, loading, db, handle, patient>>
    BY <1>6 DEF vars
  <2>2. Done' = Done /\ Answering' = Answering /\ Settled' = Settled
    BY <2>1 DEF Done, Answering, Settled
  <2>3. TypeOK'
    BY <2>1 DEF TypeOK
  <2>4. Places'
    BY <2>1, <2>2 DEF Places
  <2>5. FlowsWait' /\ Acknowledged'
    BY <2>1, <2>2, FlowsKeepWaiting, QuietKeepsAcknowledged
  <2>6. QED
    BY <2>3, <2>4, <2>5
<1>7. QED
  BY <1>1, <1>2, <1>3, <1>4, <1>5, <1>6, FlowSteps DEF Next, Turn

\* The inductive invariant holds in every state: types, places, waiting flows and
\* what a patient user's session holds.
THEOREM SessionInvariant == Spec => []SessionInv
<1>1. Init => SessionInv
  BY InitSession
<1>2. SessionInv /\ [Next]_vars => SessionInv'
  BY NextSession
<1>3. QED
  BY <1>1, <1>2, PTL DEF Spec

-----------------------------------------------------------------------------
(* The theorems *)

\* A set whose members are all equal counts none or one.
LEMMA OneOrNone ==
    ASSUME NEW S, \A x, y \in S : x = y
    PROVE  Cardinality(S) = IF S = {} THEN 0 ELSE 1
<1>1. CASE S = {}
  BY <1>1, FS_EmptySet
<1>2. CASE S # {}
  <2>1. PICK x \in S : TRUE
    BY <1>2
  <2>2. S = {x}
    BY <2>1
  <2>3. Cardinality({x}) = 1
    BY FS_Singleton
  <2>4. QED
    BY <1>2, <2>2, <2>3
<1>3. QED
  BY <1>1, <1>2

LEMMA PlacesCount == TypeOK /\ Places => EveryRequestOnce
<1> SUFFICES ASSUME TypeOK, Places PROVE EveryRequestOnce
  OBVIOUS
<1>1. ASSUME NEW id \in DOMAIN sent
      PROVE  Cardinality({i \in DOMAIN inbox : inbox[i] = id})
               + Cardinality({id} \cap loading) + Answers(id)
               + Cardinality({frame \in settled : frame.id = id}) = 1
  <2> DEFINE queued == {i \in DOMAIN inbox : inbox[i] = id}
             loads == {id} \cap loading
             answers == {i \in DOMAIN outbox : outbox[i].id = id /\ outbox[i].result # "progress"}
             ended == {frame \in settled : frame.id = id}
  <2>1. /\ inbox \in Seq(DOMAIN sent)
        /\ outbox \in Seq(Frame)
    BY DEF TypeOK
  <2>2. /\ DOMAIN inbox \subseteq Nat
        /\ \A i \in DOMAIN inbox : inbox[i] \in Nat
        /\ DOMAIN outbox \subseteq Nat
    BY <2>1, RequestTypes
  <2>3. \A i, j \in queued : i = j
    <3>1. ASSUME NEW i \in queued, NEW j \in queued, i < j
          PROVE  FALSE
      BY <2>2, <3>1 DEF Places, Increasing
    <3>2. QED
      BY <2>2, <3>1
  <2>4. \A i, j \in answers : i = j
    <3>1. ASSUME NEW i \in answers, NEW j \in answers, i < j
          PROVE  FALSE
      BY <3>1 DEF Places, InOrder
    <3>2. QED
      BY <2>2, <3>1
  <2>5. \A a, b \in ended : a = b
    BY DEF Places
  <2>6. /\ queued = {} <=> id \notin Range(inbox)
        /\ loads = {} <=> id \notin loading
        /\ answers = {} <=> id \notin Answering
        /\ ended = {} <=> id \notin Settled
    <3>1. answers = {} <=> id \notin Answering
      BY DEF Answering, Range
    <3>2. QED
      BY <3>1 DEF Range, Settled
  <2> HIDE DEF queued, loads, answers, ended
  <2>7. /\ Cardinality(queued) = IF queued = {} THEN 0 ELSE 1
        /\ Cardinality(answers) = IF answers = {} THEN 0 ELSE 1
        /\ Cardinality(ended) = IF ended = {} THEN 0 ELSE 1
    BY <2>3, <2>4, <2>5, OneOrNone
  <2>8. Cardinality(loads) = IF loads = {} THEN 0 ELSE 1
    BY OneOrNone DEF loads
  <2>9. Cardinality(queued) + Cardinality(loads) + Cardinality(answers)
          + Cardinality(ended) = 1
    BY <2>6, <2>7, <2>8 DEF Places
  <2>10. QED
    BY <2>9 DEF queued, loads, answers, ended, Answers
<1>2. pending = DOMAIN sent \ {frame.id : frame \in settled}
  BY DEF Places, Settled
<1>3. \A i \in DOMAIN outbox : outbox[i].id \in pending
  BY DEF Places, Range
<1>4. QED
  BY <1>1, <1>2, <1>3 DEF EveryRequestOnce

LEMMA AcknowledgedMeans == TypeOK /\ Acknowledged => SessionIsAcknowledged
<1> SUFFICES ASSUME TypeOK, Acknowledged, patient, db # NoSession,
                    NEW name \in Names
             PROVE  IF Since(name, {"create"}) = {}
                    THEN db[name] = NoTable
                    ELSE /\ db[name] # NoTable
                         /\ Lists(db[name], Since(name, {"insert", "delete"}))
  BY DEF SessionIsAcknowledged, Acknowledged, AfterFirstAnswer
<1>1. CASE Done = {}
  <2>1. Since(name, {"create"}) = {}
    BY <1>1 DEF Since
  <2>2. db = EmptySession
    BY <1>1 DEF Acknowledged, BeforeFirstAnswer
  <2>3. QED
    BY <2>1, <2>2 DEF EmptySession
<1>2. CASE Done # {}
  <2>1. AfterFirstAnswer
    BY <1>2 DEF Acknowledged
  <2>2. Since(name, {"create"}) \subseteq Since(name, {"create", "insert", "delete"})
    BY DEF Since
  <2>3. QED
    BY <2>1, <2>2 DEF AfterFirstAnswer
<1>3. QED
  BY <1>1, <1>2

\* Requests, frames, flows and the session are what the page and the worker
\* declare them to be.
THEOREM SessionTypes == Spec => []TypeOK
<1>1. SessionInv => TypeOK
  BY DEF SessionInv
<1>2. QED
  BY <1>1, SessionInvariant, PTL

\* Every request is in one place: no promise of the page's pending map is left
\* hanging, settled twice or settled by a progress frame, whatever fails.
THEOREM RequestsAnsweredOnce == Spec => []EveryRequestOnce
<1>1. SessionInv => EveryRequestOnce
  BY PlacesCount DEF SessionInv
<1>2. QED
  BY <1>1, SessionInvariant, PTL

\* While the user waits for a first answer, the worker's session holds what the
\* answers said: engine() never builds a session over acknowledged writes.
THEOREM PatientSessionAcknowledged == Spec => []SessionIsAcknowledged
<1>1. SessionInv => SessionIsAcknowledged
  BY AcknowledgedMeans DEF SessionInv
<1>2. QED
  BY <1>1, SessionInvariant, PTL

=============================================================================
