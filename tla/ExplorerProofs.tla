--------------------------- MODULE ExplorerProofs ---------------------------
(***************************************************************************)
(* For any set of requests and any specs: the handlers of the explorer     *)
(* server implement the register of datasets, and what is published has    *)
(* been built.  The invariant adds what a handler relies on between two of *)
(* its steps: an ingest that asks for the lock has an index, and the queue *)
(* and the guards of the lock are those of the handlers that wait.         *)
(***************************************************************************)
EXTENDS Explorer, SequenceTheorems, TLAPS

\* The thread of a creating handler creates, and only leaves it a built dataset.
CreationIsBuilt ==
    \A r \in Requests :
        /\ pc[r] = "creating" => /\ op[r] = "ingest"
                                 /\ job[r] \in {"create"} \cup Ended
                                 /\ job[r] = "ok" => r \in built
        /\ pc[r] = "queued" /\ op[r] = "ingest" => r \in built

\* A thread of a reading handler, and the handler, have a dataset.
RunningHasDataset ==
    \A r \in Requests :
        pc[r] = "running" \/ job[r] \in {"compute", "build"} => target[r] \in Requests

\* Only a handler that is done has replied.
RepliesOnce == \A r \in Requests : pc[r] # "done" => reply[r] = NoReply

IInv ==
    /\ TypeOK
    /\ LockAgrees
    /\ PublishedIsBuilt
    /\ CreationIsBuilt
    /\ RunningHasDataset
    /\ RepliesOnce

-----------------------------------------------------------------------------

\* Each of W is in the queue once, and nothing else is.
Holds(q, W) == IsInjective(q) /\ Range(q) = W

\* The same, place by place.
LEMMA HoldsIs ==
    ASSUME NEW q, NEW n \in Nat, DOMAIN q = 1..n, NEW W
    PROVE  Holds(q, W) <=>
              /\ \A i, j \in 1..n : q[i] = q[j] => i = j
              /\ \A i \in 1..n : q[i] \in W
              /\ \A w \in W : \E i \in 1..n : q[i] = w
<1>. QED  BY DEF Holds, IsInjective, Range

\* A newcomer goes to the end.
LEMMA AppendHolds ==
    ASSUME NEW S, NEW q \in Seq(S), NEW W, Holds(q, W), NEW r \in S, r \notin W
    PROVE  Append(q, r) \in Seq(S) /\ Holds(Append(q, r), W \cup {r})
<1>. DEFINE n == Len(q)  out == Append(q, r)
<1>1. /\ n \in Nat /\ DOMAIN q = 1..n
      /\ out \in Seq(S) /\ n + 1 \in Nat /\ DOMAIN out = 1..(n + 1)
      /\ \A i \in 1..n : out[i] = q[i]
      /\ out[n + 1] = r
  OBVIOUS
<1>2. /\ \A i, j \in 1..n : q[i] = q[j] => i = j
      /\ \A i \in 1..n : q[i] \in W
      /\ \A w \in W : \E i \in 1..n : q[i] = w
  BY <1>1, HoldsIs
<1>. HIDE DEF n, out
<1>3. \A i \in 1..(n + 1) : i \in 1..n \/ i = n + 1
  BY <1>1
<1>4. \A i \in 1..n : i \in 1..(n + 1)
  BY <1>1
<1>5. n + 1 \in 1..(n + 1)
  BY <1>1
<1>6. \A i, j \in 1..(n + 1) : out[i] = out[j] => i = j
  BY <1>1, <1>2, <1>3
<1>7. \A i \in 1..(n + 1) : out[i] \in W \cup {r}
  BY <1>1, <1>2, <1>3
<1>8. \A w \in W \cup {r} : \E i \in 1..(n + 1) : out[i] = w
  BY <1>1, <1>2, <1>4, <1>5
<1>9. Holds(out, W \cup {r})
  BY <1>1, <1>6, <1>7, <1>8, HoldsIs
<1>. QED  BY <1>1, <1>9 DEF out

\* Whoever leaves, from whatever place, leaves the others their order.
LEMMA RemoveHolds ==
    ASSUME NEW S, NEW q \in Seq(S), NEW W, Holds(q, W), NEW k \in DOMAIN q
    PROVE  RemoveAt(q, k) \in Seq(S) /\ Holds(RemoveAt(q, k), W \ {q[k]})
<1>. DEFINE n == Len(q)  out == RemoveAt(q, k)
            at(i) == IF i < k THEN i ELSE i + 1
<1>1. n \in Nat /\ DOMAIN q = 1..n /\ k \in 1..n /\ n - 1 \in Nat
  OBVIOUS
<1>2. /\ out \in Seq(S) /\ DOMAIN out = 1..(n - 1)
      /\ \A i \in 1..(n - 1) : out[i] = q[at(i)]
  <2>. DEFINE front == SubSeq(q, 1, k - 1)  back == SubSeq(q, k + 1, n)
  <2>1. /\ front \in Seq(S) /\ Len(front) = k - 1
        /\ \A i \in 1..(k - 1) : front[i] = q[i]
    BY <1>1
  <2>2. /\ back \in Seq(S) /\ Len(back) = n - k
        /\ \A i \in 1..(n - k) : back[i] = q[k + i]
    BY <1>1
  <2>3. out = front \o back
    BY DEF RemoveAt
  <2>. HIDE DEF front, back, out, n
  <2>4. /\ out \in Seq(S) /\ Len(out) = n - 1
        /\ \A i \in 1..(k - 1) : out[i] = front[i]
        /\ \A i \in k..(n - 1) : out[i] = back[i - (k - 1)]
    <3>1. /\ front \o back \in Seq(S)
          /\ Len(front \o back) = Len(front) + Len(back)
          /\ \A i \in 1..(Len(front) + Len(back)) :
                (front \o back)[i] = IF i <= Len(front) THEN front[i]
                                     ELSE back[i - Len(front)]
      BY <2>1, <2>2, ConcatProperties
    <3>2. \A i \in k..(n - 1) : i \in 1..(n - 1) /\ ~(i <= k - 1)
      BY <1>1
    <3>3. \A i \in 1..(k - 1) : i \in 1..(n - 1) /\ i <= k - 1
      BY <1>1
    <3>4. k - 1 + (n - k) = n - 1
      BY <1>1
    <3>. QED  BY <2>1, <2>2, <2>3, <3>1, <3>2, <3>3, <3>4
  <2>5. ASSUME NEW i \in 1..(n - 1) PROVE out[i] = q[at(i)]
    <3>1. CASE i < k
      BY <1>1, <2>1, <2>4, <3>1
    <3>2. CASE ~(i < k)
      <4>1. /\ i \in k..(n - 1) /\ i - (k - 1) \in 1..(n - k)
            /\ k + (i - (k - 1)) = i + 1
        BY <1>1, <3>2
      <4>. QED  BY <2>2, <2>4, <3>2, <4>1
    <3>. QED  BY <3>1, <3>2
  <2>. QED  BY <2>4, <2>5
<1>3. /\ \A i, j \in 1..n : q[i] = q[j] => i = j
      /\ \A i \in 1..n : q[i] \in W
      /\ \A w \in W : \E i \in 1..n : q[i] = w
  BY <1>1, HoldsIs
<1>4. /\ \A i \in 1..(n - 1) : at(i) \in 1..n /\ at(i) # k
      /\ \A i, j \in 1..(n - 1) : at(i) = at(j) => i = j
      /\ \A m \in 1..n : m # k => \E i \in 1..(n - 1) : at(i) = m
  <2>1. /\ \A i \in 1..(n - 1) : at(i) \in 1..n /\ at(i) # k
        /\ \A i, j \in 1..(n - 1) : at(i) = at(j) => i = j
    BY <1>1
  <2>2. ASSUME NEW m \in 1..n, m # k PROVE \E i \in 1..(n - 1) : at(i) = m
    <3>1. CASE m < k
      <4>1. m \in 1..(n - 1) /\ at(m) = m
        BY <1>1, <3>1
      <4>. QED  BY <4>1
    <3>2. CASE ~(m < k)
      <4>1. m - 1 \in 1..(n - 1) /\ at(m - 1) = m
        BY <1>1, <2>2, <3>2
      <4>. QED  BY <4>1
    <3>. QED  BY <3>1, <3>2
  <2>. QED  BY <2>1, <2>2
<1>. HIDE DEF at, out, n
<1>5. \A i, j \in 1..(n - 1) : out[i] = out[j] => i = j
  BY <1>2, <1>3, <1>4
<1>6. \A i \in 1..(n - 1) : out[i] \in W \ {q[k]}
  BY <1>1, <1>2, <1>3, <1>4
<1>7. \A w \in W \ {q[k]} : \E i \in 1..(n - 1) : out[i] = w
  <2>. SUFFICES ASSUME NEW w \in W \ {q[k]} PROVE \E i \in 1..(n - 1) : out[i] = w
    OBVIOUS
  <2>1. PICK m \in 1..n : q[m] = w
    BY <1>3
  <2>2. PICK i \in 1..(n - 1) : at(i) = m
    BY <1>4, <2>1
  <2>. QED  BY <1>2, <2>1, <2>2
<1>8. Holds(out, W \ {q[k]})
  <2>. DEFINE m == n - 1
  <2>1. /\ m \in Nat /\ DOMAIN out = 1..m
        /\ \A i, j \in 1..m : out[i] = out[j] => i = j
        /\ \A i \in 1..m : out[i] \in W \ {q[k]}
        /\ \A w \in W \ {q[k]} : \E i \in 1..m : out[i] = w
    BY <1>1, <1>2, <1>5, <1>6, <1>7
  <2>. HIDE DEF m
  <2>. QED  BY <2>1, HoldsIs
<1>. QED  BY <1>2, <1>8 DEF out

\* The head is let in.
LEMMA TailHolds ==
    ASSUME NEW S, NEW q \in Seq(S), NEW W, Holds(q, W), q # <<>>
    PROVE  Tail(q) \in Seq(S) /\ Holds(Tail(q), W \ {Head(q)})
<1>. DEFINE n == Len(q)  out == Tail(q)
<1>1. /\ n \in Nat /\ DOMAIN q = 1..n /\ 1 \in 1..n /\ n - 1 \in Nat
      /\ Head(q) = q[1]
      /\ out \in Seq(S) /\ DOMAIN out = 1..(n - 1)
      /\ \A i \in 1..(n - 1) : out[i] = q[i + 1]
  OBVIOUS
<1>2. /\ \A i, j \in 1..n : q[i] = q[j] => i = j
      /\ \A i \in 1..n : q[i] \in W
      /\ \A w \in W : \E i \in 1..n : q[i] = w
  BY <1>1, HoldsIs
<1>. HIDE DEF n, out
<1>3. \A i \in 1..(n - 1) : i + 1 \in 1..n /\ i + 1 # 1
  BY <1>1
<1>4. \A i, j \in 1..(n - 1) : out[i] = out[j] => i = j
  <2>. SUFFICES ASSUME NEW i \in 1..(n - 1), NEW j \in 1..(n - 1), out[i] = out[j]
                PROVE  i = j
    OBVIOUS
  <2>1. i + 1 = j + 1
    BY <1>1, <1>2, <1>3
  <2>. QED  BY <2>1
<1>5. \A i \in 1..(n - 1) : out[i] \in W \ {q[1]}
  BY <1>1, <1>2, <1>3
<1>6. \A w \in W \ {q[1]} : \E i \in 1..(n - 1) : out[i] = w
  <2>. SUFFICES ASSUME NEW w \in W \ {q[1]} PROVE \E i \in 1..(n - 1) : out[i] = w
    OBVIOUS
  <2>1. PICK m \in 1..n : q[m] = w
    BY <1>2
  <2>2. m - 1 \in 1..(n - 1) /\ m - 1 + 1 = m
    BY <1>1, <2>1
  <2>. QED  BY <1>1, <2>1, <2>2
<1>7. Holds(out, W \ {q[1]})
  <2>. DEFINE m == n - 1
  <2>1. /\ m \in Nat /\ DOMAIN out = 1..m
        /\ \A i, j \in 1..m : out[i] = out[j] => i = j
        /\ \A i \in 1..m : out[i] \in W \ {q[1]}
        /\ \A w \in W \ {q[1]} : \E i \in 1..m : out[i] = w
    BY <1>1, <1>4, <1>5, <1>6
  <2>. HIDE DEF m
  <2>. QED  BY <2>1, HoldsIs
<1>. QED  BY <1>1, <1>7 DEF out

\* Who waits for the lock.
Queued == {r \in Requests : pc[r] = "queued"}

\* Whatever a step does, the queue stays that of the handlers that wait.
LEMMA NextKeepsQueue ==
    ASSUME TypeOK, Holds(queue, Queued), [Next]_vars
    PROVE  queue' \in Seq(Requests) /\ Holds(queue', Queued')
<1>. DEFINE Goal == queue' \in Seq(Requests) /\ Holds(queue', Queued')
<1>0. /\ queue \in Seq(Requests)
      /\ pc \in [Requests -> {"new", "creating", "queued", "running", "done"}]
  BY DEF TypeOK
<1>1. ASSUME queue' = queue, Queued' = Queued PROVE Goal
  BY <1>0, <1>1
<1>2. ASSUME NEW r \in Requests, pc[r] # "queued",
             queue' = Append(queue, r), pc' = [pc EXCEPT ![r] = "queued"]
      PROVE Goal
  <2>1. r \notin Queued /\ Queued' = Queued \cup {r}
    BY <1>0, <1>2 DEF Queued
  <2>. QED  BY <1>0, <1>2, <2>1, AppendHolds
<1>3. ASSUME NEW r \in Requests, First(r), NEW p \in {"done", "running"},
             queue' = Tail(queue), pc' = [pc EXCEPT ![r] = p]
      PROVE Goal
  <2>1. Queued' = Queued \ {r} /\ queue # <<>> /\ Head(queue) = r
    BY <1>0, <1>3 DEF Queued, First
  <2>. QED  BY <1>0, <1>3, <2>1, TailHolds
<1>4. ASSUME NEW r \in Requests, pc[r] # "queued", queue' = queue,
             NEW p \in {"creating", "running", "done"}, pc' = [pc EXCEPT ![r] = p]
      PROVE Goal
  <2>1. Queued' = Queued
    BY <1>0, <1>4 DEF Queued
  <2>. QED  BY <1>1, <1>4, <2>1
<1>. HIDE DEF Goal
<1>5. ASSUME NEW r \in Requests, Ingest(r) \/ UnknownFamily(r) \/ Respond(r)
      PROVE Goal
  <2>1. PICK p \in {"creating", "done"} : pc' = [pc EXCEPT ![r] = p]
    BY <1>5 DEF Ingest, UnknownFamily, Respond
  <2>2. pc[r] # "queued" /\ queue' = queue
    BY <1>5 DEF Ingest, UnknownFamily, Respond
  <2>. QED  BY <1>4, <2>1, <2>2
<1>6. ASSUME NEW r \in Requests, NEW handler \in {"status", "query", "reindex"},
             Read(r, handler)
      PROVE Goal
  BY <1>2, <1>6 DEF Read
<1>7. ASSUME NEW r \in Requests,
             CreateOk(r) \/ CreateErr(r) \/ ComputeEnd(r) \/ BuildEnd(r)
      PROVE Goal
  <2>1. queue' = queue /\ pc' = pc
    BY <1>7 DEF CreateOk, CreateErr, ComputeEnd, BuildEnd
  <2>. QED  BY <1>1, <2>1 DEF Queued
<1>8. ASSUME NEW r \in Requests, JoinIngest(r) PROVE Goal
  <2>1. CASE job[r] = "ok"
    BY <1>2, <1>8, <2>1 DEF JoinIngest
  <2>2. CASE job[r] # "ok"
    <3>1. pc[r] # "queued" /\ queue' = queue /\ pc' = [pc EXCEPT ![r] = "done"]
      BY <1>8, <2>2 DEF JoinIngest
    <3>. QED  BY <1>4, <3>1
  <2>. QED  BY <2>1, <2>2
<1>9. ASSUME NEW r \in Requests,
             Publish(r) \/ NoDataset(r) \/ Status(r) \/ Start(r)
      PROVE Goal
  <2>1. PICK p \in {"done", "running"} : pc' = [pc EXCEPT ![r] = p]
    BY <1>9 DEF Publish, NoDataset, Status, Start
  <2>2. First(r) /\ queue' = Tail(queue)
    BY <1>9 DEF Publish, NoDataset, Status, Start
  <2>. QED  BY <1>3, <2>1, <2>2
<1>10. ASSUME NEW r \in Requests, Disconnect(r) PROVE Goal
  <2>1. pc' = [pc EXCEPT ![r] = "done"]
    BY <1>10 DEF Disconnect
  <2>2. CASE pc[r] = "queued"
    <3>1. PICK i \in DOMAIN queue : queue[i] = r /\ queue' = RemoveAt(queue, i)
      BY <1>10, <2>2 DEF Disconnect
    <3>2. Queued' = Queued \ {r}
      BY <1>0, <2>1 DEF Queued
    <3>3. /\ RemoveAt(queue, i) \in Seq(Requests)
          /\ Holds(RemoveAt(queue, i), Queued \ {queue[i]})
      <4>1. i \in DOMAIN queue
        BY <3>1
      <4>. QED  BY <1>0, <4>1, RemoveHolds, Zenon
    <3>. QED  BY <3>1, <3>2, <3>3 DEF Goal
  <2>3. CASE pc[r] # "queued"
    <3>1. queue' = queue
      BY <1>10, <2>3 DEF Disconnect
    <3>. QED  BY <1>4, <2>1, <2>3, <3>1
  <2>. QED  BY <2>2, <2>3
<1>11. CASE UNCHANGED vars
  <2>1. queue' = queue /\ Queued' = Queued
    BY <1>11 DEF vars, Queued
  <2>. QED  BY <1>1, <2>1 DEF Goal
<1>. QED  BY <1>5, <1>6, <1>7, <1>8, <1>9, <1>10, <1>11 DEF Next, Progress, Goal

\* The initial states satisfy the invariant: no request has arrived.
LEMMA InitIInv == Init => IInv
<1>1. Init => LockAgrees
  BY DEF Init, LockAgrees, ReadersPinDataset, IsInjective, Range
<1>. QED  BY <1>1 DEF Init, IInv, TypeOK, Ops, PublishedIsBuilt,
                      CreationIsBuilt, RunningHasDataset, RepliesOnce

\* Every step of every request preserves the invariant.
LEMMA NextKeepsIInv == IInv /\ [Next]_vars => IInv'
<1>. SUFFICES ASSUME IInv, [Next]_vars PROVE IInv'
  OBVIOUS
<1>0. /\ queue' \in Seq(Requests)
      /\ IsInjective(queue')
      /\ Range(queue') = {r \in Requests : pc'[r] = "queued"}
  <2>1. TypeOK /\ Holds(queue, Queued)
    BY DEF IInv, LockAgrees, Holds, Queued
  <2>. QED  BY <2>1, NextKeepsQueue DEF Holds, Queued
<1>. USE <1>0, ExplorerAssumption
     DEF IInv, TypeOK, LockAgrees, Ops, Working, Ended, ReadersPinDataset, PublishedIsBuilt,
         CreationIsBuilt, RunningHasDataset, RepliesOnce
<1>1. ASSUME NEW r \in Requests, Ingest(r) PROVE IInv'
  BY <1>1 DEF Ingest
<1>2. ASSUME NEW r \in Requests, UnknownFamily(r) PROVE IInv'
  BY <1>2 DEF UnknownFamily
<1>3. ASSUME NEW r \in Requests, NEW handler \in {"status", "query", "reindex"},
             Read(r, handler)
      PROVE IInv'
  BY <1>3 DEF Read
<1>4. ASSUME NEW r \in Requests, CreateOk(r) PROVE IInv'
  BY <1>4 DEF CreateOk
<1>5. ASSUME NEW r \in Requests, CreateErr(r) PROVE IInv'
  BY <1>5 DEF CreateErr
<1>6. ASSUME NEW r \in Requests, JoinIngest(r) PROVE IInv'
  <2>1. CASE job[r] = "ok"
    <3>1. /\ pc[r] = "creating"
          /\ pc' = [pc EXCEPT ![r] = "queued"]
          /\ UNCHANGED <<slot, readers, op, job, target, built, reply>>
      BY <1>6, <2>1 DEF JoinIngest
    <3>2. r \in built /\ reply[r] = NoReply
      BY <1>6, <2>1 DEF JoinIngest
    <3>. QED  BY <3>1, <3>2
  <2>2. CASE job[r] # "ok"
    <3>1. /\ pc[r] = "creating"
          /\ pc' = [pc EXCEPT ![r] = "done"]
          /\ reply' = [reply EXCEPT ![r] = Failed]
          /\ UNCHANGED <<slot, readers, op, job, target, built>>
      BY <1>6, <2>2 DEF JoinIngest
    <3>. QED  BY <3>1
  <2>. QED  BY <2>1, <2>2
<1>7. ASSUME NEW r \in Requests, Publish(r) PROVE IInv'
  BY <1>7 DEF Publish, First
<1>8. ASSUME NEW r \in Requests, NoDataset(r) PROVE IInv'
  BY <1>8 DEF NoDataset, First
<1>9. ASSUME NEW r \in Requests, Status(r) PROVE IInv'
  BY <1>9 DEF Status, First
<1>10. ASSUME NEW r \in Requests, Start(r) PROVE IInv'
  BY <1>10 DEF Start, First
<1>11. ASSUME NEW r \in Requests, ComputeEnd(r) PROVE IInv'
  BY <1>11 DEF ComputeEnd
<1>12. ASSUME NEW r \in Requests, BuildEnd(r) PROVE IInv'
  BY <1>12 DEF BuildEnd
<1>13. ASSUME NEW r \in Requests, Respond(r) PROVE IInv'
  BY <1>13 DEF Respond
<1>14. ASSUME NEW r \in Requests, Disconnect(r) PROVE IInv'
  <2>1. /\ pc' = [pc EXCEPT ![r] = "done"]
        /\ readers' = readers \ {r}
        /\ UNCHANGED <<slot, op, job, target, built, reply>>
    BY <1>14 DEF Disconnect
  <2>2. TypeOK' /\ PublishedIsBuilt'
    BY <2>1
  <2>3. LockAgrees'
    BY <2>1
  <2>4. CreationIsBuilt' /\ RunningHasDataset' /\ RepliesOnce'
    BY <2>1
  <2>. QED  BY <2>2, <2>3, <2>4
<1>15. CASE UNCHANGED vars
  BY <1>15 DEF vars
<1>. HIDE DEF IInv
<1>. QED  BY <1>1, <1>2, <1>3, <1>4, <1>5, <1>6, <1>7, <1>8, <1>9, <1>10,
             <1>11, <1>12, <1>13, <1>14, <1>15 DEF Next, Progress

\* The invariant holds of every execution.
LEMMA Invariant == Spec => []IInv
<1>. QED  BY InitIInv, NextKeepsIInv, PTL DEF Spec

\* Every variable keeps its type for any requests: no answer is "no dataset".
THEOREM TypeCorrect == Spec => []TypeOK
<1>1. IInv => TypeOK  BY DEF IInv
<1>. QED  BY <1>1, Invariant, PTL

\* While a handler waits for its thread, the published dataset is the one the
\* thread works on.
THEOREM ReadersPin == Spec => []ReadersPinDataset
<1>1. IInv => ReadersPinDataset  BY DEF IInv, LockAgrees
<1>. QED  BY <1>1, Invariant, PTL

\* Whatever disconnects, the lock's queue and its guards are those of the
\* handlers that are connected and wait.
THEOREM LockAgreement == Spec => []LockAgrees
<1>1. IInv => LockAgrees  BY DEF IInv
<1>. QED  BY <1>1, Invariant, PTL

\* What is published has an index, whatever ingests fail or are abandoned.
THEOREM PublishedBuilt == Spec => []PublishedIsBuilt
<1>1. IInv => PublishedIsBuilt  BY DEF IInv
<1>. QED  BY <1>1, Invariant, PTL

-----------------------------------------------------------------------------
(* The handlers implement the register *)

\* An initial state of the server is one of the register.
LEMMA InitIsRegister == Init => Register!Init
<1>. QED  BY DEF Init, Register!Init

\* A reply replaces, answers or refuses; every other step is invisible.
LEMMA StepIsRegister == IInv /\ [Next]_vars => [Register!Next]_Register!vars
<1>. SUFFICES ASSUME IInv, [Next]_vars PROVE [Register!Next]_Register!vars
  OBVIOUS
<1>. USE DEF IInv, TypeOK, LockAgrees, ReadersPinDataset, RunningHasDataset, RepliesOnce,
             Register!vars, Register!Next
<1>1. ASSUME NEW r \in Requests,
             \/ Ingest(r) \/ CreateOk(r) \/ CreateErr(r)
             \/ Start(r) \/ ComputeEnd(r) \/ BuildEnd(r) \/ Disconnect(r)
             \/ \E handler \in {"status", "query", "reindex"} : Read(r, handler)
      PROVE UNCHANGED <<slot, reply>>
  BY <1>1 DEF Ingest, CreateOk, CreateErr, Start, ComputeEnd, BuildEnd,
              Disconnect, Read
<1>2. ASSUME NEW r \in Requests, UnknownFamily(r) PROVE Register!Refuse(r)
  BY <1>2 DEF UnknownFamily, Register!Refuse
<1>3. ASSUME NEW r \in Requests, JoinIngest(r)
      PROVE Register!Refuse(r) \/ UNCHANGED <<slot, reply>>
  BY <1>3 DEF JoinIngest, Register!Refuse
<1>4. ASSUME NEW r \in Requests, Publish(r) PROVE Register!Replace(r)
  BY <1>4 DEF Publish, First, Register!Replace
<1>5. ASSUME NEW r \in Requests, NoDataset(r) PROVE Register!Refuse(r)
  BY <1>5 DEF NoDataset, First, Register!Refuse
<1>6. ASSUME NEW r \in Requests, Status(r) PROVE Register!Answer(r)
  BY <1>6 DEF Status, First, Register!Answer
<1>7. ASSUME NEW r \in Requests, Respond(r)
      PROVE Register!Answer(r) \/ Register!Refuse(r)
  <2>1. reply[r] = NoReply /\ target[r] = slot /\ slot # None /\ slot' = slot
    BY <1>7, ExplorerAssumption DEF Respond
  <2>2. CASE job[r] = "ok"
    BY <1>7, <2>1, <2>2 DEF Respond, Register!Answer
  <2>3. CASE job[r] # "ok"
    BY <1>7, <2>1, <2>3 DEF Respond, Register!Refuse
  <2>. QED  BY <2>2, <2>3
<1>8. CASE UNCHANGED vars
  BY <1>8 DEF vars
<1>. QED  BY <1>1, <1>2, <1>3, <1>4, <1>5, <1>6, <1>7, <1>8 DEF Next, Progress

\* The server refines the register: an ingest replaces the dataset as a whole
\* and every other answer is from the dataset current when it is given.
THEOREM ExplorerIsRegister == Spec => ImplementsRegister
<1>. QED  BY InitIsRegister, StepIsRegister, Invariant, PTL
          DEF Spec, ImplementsRegister, Register!Spec
=============================================================================
