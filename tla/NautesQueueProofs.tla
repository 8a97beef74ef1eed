------------------------- MODULE NautesQueueProofs -------------------------
(***************************************************************************)
(* Proofs about NautesQueue, for every set of topics, senders and workers   *)
(* and every limit of requeues.  The inductive invariant adds to the        *)
(* properties what ties the work queue's three sets together: a topic is    *)
(* queued at most once, only while it is dirty and no worker holds it, and  *)
(* processing is exactly the set of topics in the workers' hands.           *)
(***************************************************************************)
EXTENDS NautesQueue, TLAPS

\* processing is the set of topics held by workers, no two workers the same.
HeldIffProcessing ==
  /\ \A w \in Workers : worker[w].topic # NoTopic => worker[w].topic \in processing
  /\ \A t \in processing : InHand(t)
  /\ \A v, w \in Workers : v # w /\ worker[v].topic # NoTopic
                             => worker[v].topic # worker[w].topic

\* A queued topic is dirty and not in process, and stands in the queue once.
QueueIsDirty ==
  /\ \A i \in 1..Len(queue) : queue[i] \in dirty /\ queue[i] \notin processing
  /\ \A i, j \in 1..Len(queue) : queue[i] = queue[j] => i = j
  /\ \A t \in dirty : t \in processing \/ Queued(t)

\* The entry last fetched was disposed of, or a worker still is about to do
\* so, or the topic will be fetched again.
FetchedIsSettled ==
  \A t \in Topics :
    \/ seen[t] \in {Absent, good[t], gaveUp[t]}
    \/ WillBeFetched(t)
    \/ AboutTo(t, {"handle", "failed", "requeue", "drop"})

IInv == /\ TypeOK
        /\ HeldIffProcessing
        /\ QueueIsDirty
        /\ NoLostPost
        /\ FetchedIsSettled

-----------------------------------------------------------------------------
(* Types.                                                                  *)

\* The part of TypeOK that is about the workers.
WorkerTyped(f) ==
  /\ f \in [Workers -> [pc : WorkerPC, topic : Topics \cup {NoTopic}]]
  /\ \A w \in Workers : f[w].pc = "get" <=> f[w].topic = NoTopic

LEMMA AddTyped ==
  ASSUME TypeOK, NEW t \in Topics, Add(t)
  PROVE  queue' \in Seq(Topics) /\ dirty' \subseteq Topics
<1>1. CASE t \in dirty
  BY <1>1 DEF TypeOK, Add
<1>2. CASE t \notin dirty
  <2>1. queue \in Seq(Topics) /\ Append(queue, t) \in Seq(Topics)
    BY DEF TypeOK
  <2>2. queue' \in {queue, Append(queue, t)}
    BY <1>2 DEF Add
  <2>3. dirty' \subseteq Topics
    BY <1>2 DEF TypeOK, Add
  <2> QED BY <2>1, <2>2, <2>3
<1> QED BY <1>1, <1>2

LEMMA AddRateLimitedTyped ==
  ASSUME TypeOK, NEW t \in Topics, AddRateLimited(t)
  PROVE  waiting' \subseteq Topics /\ requeues' \in [Topics -> Nat]
BY DEF TypeOK, AddRateLimited

\* A sender inside Send and a worker inside processNextItem have a topic.
LEMMA BusyHaveTopics ==
  ASSUME TypeOK
  PROVE  /\ \A s \in Senders : sender[s].pc = "stored" => sender[s].topic \in Topics
         /\ \A w \in Workers : worker[w].pc # "get" => worker[w].topic \in Topics
BY DEF TypeOK, SenderPC, WorkerPC

LEMMA TypeStep == TypeOK /\ [Next]_vars => TypeOK'
<1> SUFFICES ASSUME TypeOK, [Next]_vars PROVE TypeOK'
  OBVIOUS
<1> USE QueueAssumption
<1>1. ASSUME NEW s \in Senders, NEW t \in Topics, SendStore(s, t) PROVE TypeOK'
  BY <1>1 DEF TypeOK, SendStore, SenderPC, queueVars, history
<1>2. ASSUME NEW s \in Senders, SendQueue(s) PROVE TypeOK'
  <2>1. sender[s].topic \in Topics
    BY <1>2, BusyHaveTopics DEF SendQueue
  <2>2. waiting' \subseteq Topics /\ requeues' \in [Topics -> Nat]
    BY <1>2, <2>1, AddRateLimitedTyped DEF SendQueue
  <2>3. sender[s].left \in 0..MaxSends
    BY DEF TypeOK
  <2>4. /\ sender' \in [Senders -> [pc : SenderPC, topic : Topics \cup {NoTopic}, left : 0..MaxSends]]
        /\ \A r \in Senders : sender'[r].pc = "idle" <=> sender'[r].topic = NoTopic
    BY <1>2, <2>3 DEF TypeOK, SendQueue, SenderPC
  <2> QED BY <1>2, <2>2, <2>4 DEF TypeOK, SendQueue, history
<1>3. ASSUME NEW w \in Workers, Get(w) PROVE TypeOK'
  <2>1. Head(queue) \in Topics /\ Tail(queue) \in Seq(Topics)
    BY <1>3 DEF Get, TypeOK
  <2> QED BY <1>3, <2>1 DEF TypeOK, Get, WorkerPC, history
<1>4. ASSUME NEW w \in Workers, Fetch(w) PROVE TypeOK'
  <2>1. worker[w].topic \in Topics
    BY <1>4, BusyHaveTopics DEF Fetch
  <2> QED BY <1>4, <2>1 DEF TypeOK, Fetch, WorkerPC, queueVars
<1>5. ASSUME NEW w \in Workers, Handled(w) PROVE TypeOK'
  <2>1. worker[w].topic \in Topics
    BY <1>5, BusyHaveTopics DEF Handled
  <2>2. PICK pc \in {"forget", "failed"} : worker' = [worker EXCEPT ![w].pc = pc]
    BY <1>5 DEF Handled
  <2>3. WorkerTyped(worker')
    BY <1>5, <2>1, <2>2 DEF TypeOK, WorkerTyped, Handled, WorkerPC
  <2>4. good' \in [Topics -> Nat]
    BY <1>5, <2>1 DEF TypeOK, Handled
  <2> QED BY <1>5, <2>3, <2>4 DEF TypeOK, WorkerTyped, Handled, queueVars
<1>6. ASSUME NEW w \in Workers, HandleErr(w) PROVE TypeOK'
  BY <1>6 DEF TypeOK, HandleErr, WorkerPC, queueVars, history
<1>7. ASSUME NEW w \in Workers, Requeue(w) PROVE TypeOK'
  <2>1. worker[w].topic \in Topics
    BY <1>7, BusyHaveTopics DEF Requeue
  <2>2. waiting' \subseteq Topics /\ requeues' \in [Topics -> Nat]
    BY <1>7, <2>1, AddRateLimitedTyped DEF Requeue
  <2>3. retries' \in [Topics -> Nat]
    BY <1>7, <2>1 DEF TypeOK, Requeue
  <2>4. WorkerTyped(worker')
    BY <1>7, <2>1 DEF TypeOK, WorkerTyped, Requeue, WorkerPC
  <2> QED BY <1>7, <2>2, <2>3, <2>4 DEF TypeOK, WorkerTyped, Requeue
<1>8. ASSUME NEW w \in Workers, Forget(w) PROVE TypeOK'
  <2>1. worker[w].topic \in Topics
    BY <1>8, BusyHaveTopics DEF Forget
  <2>2. gaveUp' \in [Topics -> Nat]
    BY <1>8, <2>1 DEF TypeOK, Forget
  <2> QED BY <1>8, <2>1, <2>2 DEF TypeOK, Forget, WorkerPC
<1>9. ASSUME NEW w \in Workers, Done(w) PROVE TypeOK'
  <2>1. worker[w].topic \in Topics
    BY <1>9, BusyHaveTopics DEF Done
  <2>2. WorkerTyped(worker')
    BY <1>9 DEF TypeOK, WorkerTyped, Done, WorkerPC
  <2>3. queue' \in Seq(Topics) /\ processing' \subseteq Topics
    BY <1>9, <2>1 DEF TypeOK, Done
  <2> QED BY <1>9, <2>2, <2>3 DEF TypeOK, WorkerTyped, Done, history
<1>10. ASSUME NEW t \in Topics, Elapse(t) PROVE TypeOK'
  <2>1. queue' \in Seq(Topics) /\ dirty' \subseteq Topics
    BY <1>10, AddTyped DEF Elapse
  <2> QED BY <1>10, <2>1 DEF TypeOK, Elapse, history
<1>11. CASE UNCHANGED vars
  BY <1>11 DEF TypeOK, vars, queueVars, history
<1> QED
  BY <1>1, <1>2, <1>3, <1>4, <1>5, <1>6, <1>7, <1>8, <1>9, <1>10, <1>11
  DEF Next, Send, Work

\* Every variable keeps its type, for any number of topics and goroutines.
THEOREM TypeCorrect == Spec => []TypeOK
<1>1. Init => TypeOK
  BY QueueAssumption DEF Init, TypeOK, SenderPC, WorkerPC, Absent
<1> QED
  BY <1>1, TypeStep, PTL DEF Spec

-----------------------------------------------------------------------------
(* The inductive invariant.                                                *)

\* The steps between Get and Done, which leave the topic in the hand.
InItem(w) == Fetch(w) \/ Handled(w) \/ HandleErr(w) \/ Requeue(w) \/ Forget(w)

\* The steps that move no topic between the work queue's three sets.
SetsUnchanged == UNCHANGED <<queue, dirty, processing>>
TopicsUnchanged == \A w \in Workers : worker'[w].topic = worker[w].topic

LEMMA InItemSteps ==
  ASSUME TypeOK, NEW w \in Workers, InItem(w)
  PROVE  SetsUnchanged /\ TopicsUnchanged /\ sender' = sender
<1>1. CASE Fetch(w)
  BY <1>1 DEF TypeOK, Fetch, SetsUnchanged, TopicsUnchanged, queueVars
<1>2. CASE Handled(w)
  <2>1. PICK pc : worker' = [worker EXCEPT ![w].pc = pc]
    BY <1>2 DEF Handled
  <2>2. TopicsUnchanged
    BY <2>1 DEF TypeOK, TopicsUnchanged
  <2> QED BY <1>2, <2>2 DEF Handled, SetsUnchanged, queueVars
<1>3. CASE HandleErr(w)
  BY <1>3 DEF TypeOK, HandleErr, SetsUnchanged, TopicsUnchanged, queueVars
<1>4. CASE Requeue(w)
  BY <1>4 DEF TypeOK, Requeue, SetsUnchanged, TopicsUnchanged
<1>5. CASE Forget(w)
  BY <1>5 DEF TypeOK, Forget, SetsUnchanged, TopicsUnchanged
<1> QED BY <1>1, <1>2, <1>3, <1>4, <1>5 DEF InItem

\* Every step is one of these.
LEMMA StepCases ==
  ASSUME TypeOK, [Next]_vars
  PROVE  \/ SetsUnchanged /\ TopicsUnchanged
         \/ \E t \in Topics : Elapse(t)
         \/ \E w \in Workers : Get(w) \/ Done(w)
<1>1. ASSUME NEW s \in Senders, NEW t \in Topics, SendStore(s, t)
      PROVE  SetsUnchanged /\ TopicsUnchanged
  BY <1>1 DEF SendStore, SetsUnchanged, TopicsUnchanged, queueVars
<1>2. ASSUME NEW s \in Senders, SendQueue(s)
      PROVE  SetsUnchanged /\ TopicsUnchanged
  BY <1>2 DEF SendQueue, SetsUnchanged, TopicsUnchanged
<1>3. CASE UNCHANGED vars
  BY <1>3 DEF vars, queueVars, SetsUnchanged, TopicsUnchanged
<1> QED BY <1>1, <1>2, <1>3, InItemSteps DEF Next, Send, Work, InItem

LEMMA HeldStep ==
  ASSUME TypeOK, HeldIffProcessing, QueueIsDirty, [Next]_vars
  PROVE  HeldIffProcessing'
<1>1. CASE SetsUnchanged /\ TopicsUnchanged
  BY <1>1 DEF SetsUnchanged, TopicsUnchanged, HeldIffProcessing, InHand
<1>2. ASSUME NEW t \in Topics, Elapse(t) PROVE HeldIffProcessing'
  <2>1. processing' = processing /\ worker' = worker
    BY <1>2 DEF Elapse
  <2> QED BY <2>1 DEF HeldIffProcessing, InHand
<1>3. ASSUME NEW w \in Workers, Get(w) PROVE HeldIffProcessing'
  <2> DEFINE h == Head(queue)
  <2>1. h \in Topics /\ h \notin processing /\ h # NoTopic
    <3>1. queue \in Seq(Topics) /\ queue # <<>>
      BY <1>3 DEF Get, TypeOK
    <3>2. 1 \in 1..Len(queue) /\ h = queue[1] /\ h \in Topics
      BY <3>1
    <3> QED BY <3>2, QueueAssumption DEF QueueIsDirty
  <2>2. processing' = processing \cup {h} /\ worker' = [worker EXCEPT ![w] = [pc |-> "fetch", topic |-> h]]
    BY <1>3 DEF Get
  <2>3. worker[w].topic = NoTopic
    BY <1>3 DEF Get, TypeOK
  <2>4. /\ worker'[w].topic = h
        /\ \A v \in Workers : v # w => worker'[v] = worker[v]
    BY <2>2 DEF TypeOK
  <2> HIDE DEF h
  <2>5. \A v \in Workers : worker'[v].topic # NoTopic => worker'[v].topic \in processing'
    BY <2>2, <2>4 DEF HeldIffProcessing
  <2>6. ASSUME NEW t \in processing' PROVE InHand(t)'
    <3>1. CASE t = h
      BY <2>4, <3>1 DEF InHand
    <3>2. CASE t # h
      <4>1. PICK v \in Workers : worker[v].topic = t
        BY <2>2, <2>6, <3>2 DEF HeldIffProcessing, InHand
      <4>2. CASE v = w
        BY <2>3, <2>6, <2>2, <3>2, <4>1, <4>2, QueueAssumption DEF TypeOK
      <4> QED BY <2>4, <4>1, <4>2 DEF InHand
    <3> QED BY <3>1, <3>2
  <2>7. ASSUME NEW u \in Workers, NEW v \in Workers, u # v, worker'[u].topic # NoTopic
        PROVE  worker'[u].topic # worker'[v].topic
    <3>1. \A x \in Workers : x # w => worker'[x].topic # h
      BY <2>1, <2>4 DEF HeldIffProcessing
    <3> QED BY <2>4, <2>7, <3>1 DEF HeldIffProcessing
  <2> QED BY <2>5, <2>6, <2>7 DEF HeldIffProcessing
<1>4. ASSUME NEW w \in Workers, Done(w) PROVE HeldIffProcessing'
  <2>1. /\ processing' = processing \ {worker[w].topic}
        /\ worker' = [worker EXCEPT ![w] = [pc |-> "get", topic |-> NoTopic]]
    BY <1>4 DEF Done
  <2>2. /\ worker'[w].topic = NoTopic
        /\ \A v \in Workers : v # w => worker'[v] = worker[v]
    BY <2>1 DEF TypeOK
  <2>3. worker[w].topic # NoTopic
    BY <1>4 DEF Done, TypeOK
  <2> QED BY <2>1, <2>2, <2>3 DEF HeldIffProcessing, InHand
<1> QED BY <1>1, <1>2, <1>3, <1>4, StepCases

\* Appending a topic to the queue, at the end of Elapse and of Done.
LEMMA AppendQueued ==
  ASSUME TypeOK, NEW t \in Topics, queue' = Append(queue, t)
  PROVE  /\ Len(queue') = Len(queue) + 1
         /\ queue'[Len(queue) + 1] = t
         /\ \A i \in 1..Len(queue) : queue'[i] = queue[i]
         /\ Queued(t)'
         /\ \A u \in Topics : Queued(u) => Queued(u)'
<1>1. queue \in Seq(Topics) /\ Len(queue) \in Nat
  BY DEF TypeOK
<1>2. /\ Len(queue') = Len(queue) + 1
      /\ queue'[Len(queue) + 1] = t
      /\ \A i \in 1..Len(queue) : queue'[i] = queue[i]
  BY <1>1
<1> QED BY <1>1, <1>2 DEF Queued

LEMMA QueueStep ==
  ASSUME TypeOK, HeldIffProcessing, QueueIsDirty, [Next]_vars
  PROVE  QueueIsDirty'
<1>1. CASE SetsUnchanged /\ TopicsUnchanged
  BY <1>1 DEF SetsUnchanged, QueueIsDirty, Queued
<1>2. ASSUME NEW t \in Topics, Elapse(t) PROVE QueueIsDirty'
  <2>1. processing' = processing /\ Add(t)
    BY <1>2 DEF Elapse
  <2>2. CASE queue' = queue
    BY <2>1, <2>2 DEF Add, QueueIsDirty, Queued
  <2>3. CASE t \notin dirty /\ t \notin processing
    <3>1. queue' = Append(queue, t) /\ dirty' = dirty \cup {t}
      BY <2>1, <2>3 DEF Add
    <3>2. Len(queue) \in Nat
      BY DEF TypeOK
    <3>3. \A i \in 1..Len(queue) : queue[i] # t
      BY <2>3 DEF QueueIsDirty
    <3>4. \A u \in dirty : u \in Topics
      BY DEF TypeOK
    <3>5. Len(queue') = Len(queue) + 1 /\ queue'[Len(queue) + 1] = t
      BY <3>1, AppendQueued
    <3>6. \A i \in 1..Len(queue) : queue'[i] = queue[i]
      BY <3>1, AppendQueued
    <3>7. \A i \in 1..Len(queue') : queue'[i] \in dirty' /\ queue'[i] \notin processing'
      BY <2>1, <2>3, <3>1, <3>2, <3>5, <3>6 DEF QueueIsDirty
    <3>8. \A i, j \in 1..Len(queue') : queue'[i] = queue'[j] => i = j
      BY <3>2, <3>3, <3>5, <3>6 DEF QueueIsDirty
    <3>9. \A u \in dirty' : u \in processing' \/ Queued(u)'
      BY <2>1, <3>1, <3>4, AppendQueued DEF QueueIsDirty
    <3> QED BY <3>7, <3>8, <3>9 DEF QueueIsDirty
  <2> QED BY <2>1, <2>2, <2>3 DEF Add
<1>3. ASSUME NEW w \in Workers, Get(w) PROVE QueueIsDirty'
  <2> DEFINE h == Head(queue)
  <2>1. queue \in Seq(Topics) /\ queue # <<>> /\ Len(queue) \in Nat
    BY <1>3 DEF Get, TypeOK
  <2>2. /\ h = queue[1] /\ Len(queue) >= 1
        /\ Len(queue') = Len(queue) - 1
        /\ \A i \in 1..Len(queue') : queue'[i] = queue[i + 1]
    BY <1>3, <2>1 DEF Get
  <2>3. processing' = processing \cup {h} /\ dirty' = dirty \ {h}
    BY <1>3 DEF Get
  <2> HIDE DEF h
  <2>4. \A i \in 1..Len(queue') : queue'[i] # h
    BY <2>1, <2>2 DEF QueueIsDirty
  <2>5. \A i \in 1..Len(queue') : queue'[i] \in dirty' /\ queue'[i] \notin processing'
    BY <2>1, <2>2, <2>3, <2>4 DEF QueueIsDirty
  <2>6. \A i, j \in 1..Len(queue') : queue'[i] = queue'[j] => i = j
    BY <2>1, <2>2 DEF QueueIsDirty
  <2>7. ASSUME NEW u \in dirty', u \notin processing' PROVE Queued(u)'
    <3>1. PICK i \in 1..Len(queue) : queue[i] = u
      BY <2>3, <2>7 DEF QueueIsDirty, Queued
    <3>2. i # 1
      BY <2>2, <2>3, <2>7, <3>1
    <3>3. i - 1 \in 1..Len(queue') /\ queue'[i - 1] = queue[i]
      BY <2>1, <2>2, <3>1, <3>2
    <3> QED BY <3>1, <3>3 DEF Queued
  <2> QED BY <2>5, <2>6, <2>7 DEF QueueIsDirty
<1>4. ASSUME NEW w \in Workers, Done(w) PROVE QueueIsDirty'
  <2> DEFINE t == worker[w].topic
  <2>1. t \in Topics /\ t \in processing
    BY <1>4, BusyHaveTopics, QueueAssumption DEF Done, HeldIffProcessing
  <2>2. /\ processing' = processing \ {t} /\ dirty' = dirty
        /\ queue' = IF t \in dirty THEN Append(queue, t) ELSE queue
    BY <1>4 DEF Done
  <2> HIDE DEF t
  <2>3. CASE t \in dirty
    <3>1. Len(queue) \in Nat
      BY DEF TypeOK
    <3>2. \A i \in 1..Len(queue) : queue[i] # t
      BY <2>1 DEF QueueIsDirty
    <3>3. \A u \in dirty : u \in Topics
      BY DEF TypeOK
    <3> QED BY <2>1, <2>2, <2>3, <3>1, <3>2, <3>3, AppendQueued DEF QueueIsDirty
  <2>4. CASE t \notin dirty
    BY <2>2, <2>4 DEF QueueIsDirty, Queued
  <2> QED BY <2>3, <2>4
<1> QED BY <1>1, <1>2, <1>3, <1>4, StepCases

-----------------------------------------------------------------------------
(* No post is lost.                                                        *)

\* A topic that will be fetched stays so until a worker fetches it.
LEMMA StillToBeFetched ==
  ASSUME TypeOK, HeldIffProcessing, QueueIsDirty, [Next]_vars,
         NEW t \in Topics, WillBeFetched(t),
         \A w \in Workers : worker[w].topic = t => ~Fetch(w)
  PROVE  WillBeFetched(t)'
<1>1. ASSUME NEW s \in Senders, NEW u \in Topics, SendStore(s, u) PROVE WillBeFetched(t)'
  <2>1. /\ sender'[s].topic = u /\ sender[s].topic = NoTopic
        /\ \A r \in Senders : r # s => sender'[r] = sender[r]
    BY <1>1 DEF SendStore, TypeOK
  <2>2. BeingSent(t) => BeingSent(t)'
    BY <2>1, QueueAssumption DEF BeingSent
  <2> QED BY <1>1, <2>2 DEF SendStore, queueVars, WillBeFetched, Queued, InHand, AboutTo
<1>2. ASSUME NEW s \in Senders, SendQueue(s) PROVE WillBeFetched(t)'
  <2>1. /\ waiting' = waiting \cup {sender[s].topic}
        /\ \A r \in Senders : r # s => sender'[r] = sender[r]
    BY <1>2 DEF SendQueue, AddRateLimited, TypeOK
  <2>2. BeingSent(t) => BeingSent(t)' \/ t \in waiting'
    BY <2>1 DEF BeingSent
  <2> QED BY <1>2, <2>1, <2>2 DEF SendQueue, WillBeFetched, Queued, InHand, AboutTo
<1>3. ASSUME NEW w \in Workers, Get(w) PROVE WillBeFetched(t)'
  <2> DEFINE h == Head(queue)
  <2>1. queue \in Seq(Topics) /\ queue # <<>> /\ Len(queue) \in Nat
    BY <1>3 DEF Get, TypeOK
  <2>2. /\ h = queue[1] /\ Len(queue) >= 1
        /\ Len(queue') = Len(queue) - 1
        /\ \A i \in 1..Len(queue') : queue'[i] = queue[i + 1]
    BY <1>3, <2>1 DEF Get
  <2>3. /\ dirty' = dirty \ {h} /\ waiting' = waiting /\ sender' = sender
        /\ worker' = [worker EXCEPT ![w] = [pc |-> "fetch", topic |-> h]]
    BY <1>3 DEF Get
  <2>4. /\ worker'[w] = [pc |-> "fetch", topic |-> h]
        /\ \A v \in Workers : v # w => worker'[v] = worker[v]
    BY <2>3 DEF TypeOK
  <2>5. worker[w].topic = NoTopic
    BY <1>3 DEF Get, TypeOK
  <2> HIDE DEF h
  <2>6. CASE t = h
    BY <2>4, <2>6 DEF WillBeFetched, AboutTo
  <2>7. CASE t # h
    <3>1. Queued(t) => Queued(t)'
      <4> SUFFICES ASSUME Queued(t) PROVE Queued(t)'
        OBVIOUS
      <4>1. PICK i \in 1..Len(queue) : queue[i] = t
        BY DEF Queued
      <4>2. i - 1 \in 1..Len(queue') /\ queue'[i - 1] = queue[i]
        BY <2>1, <2>2, <2>7, <4>1
      <4> QED BY <4>1, <4>2 DEF Queued
    <3>2. InHand(t) => InHand(t)'
      BY <2>4, <2>5, QueueAssumption DEF InHand
    <3>3. AboutTo(t, {"fetch"}) => AboutTo(t, {"fetch"})'
      BY <2>4, <2>5, QueueAssumption DEF AboutTo
    <3> QED BY <2>3, <2>7, <3>1, <3>2, <3>3 DEF WillBeFetched, BeingSent
  <2> QED BY <2>6, <2>7
<1>4. ASSUME NEW w \in Workers, Done(w) PROVE WillBeFetched(t)'
  <2> DEFINE u == worker[w].topic
  <2>1. /\ u \in Topics /\ worker[w].pc = "done"
        /\ dirty' = dirty /\ waiting' = waiting /\ sender' = sender
        /\ queue' = IF u \in dirty THEN Append(queue, u) ELSE queue
    BY <1>4, BusyHaveTopics DEF Done
  <2>2. \A v \in Workers : v # w => worker'[v] = worker[v]
    BY <1>4 DEF Done, TypeOK
  <2>3. AboutTo(t, {"fetch"}) => AboutTo(t, {"fetch"})'
    BY <2>1, <2>2 DEF AboutTo
  <2>4. t # u /\ InHand(t) => InHand(t)'
    BY <2>2 DEF InHand
  <2> HIDE DEF u
  <2>5. Queued(t) => Queued(t)'
    BY <2>1, AppendQueued DEF Queued
  <2>6. t = u /\ t \in dirty => Queued(t)'
    BY <2>1, AppendQueued
  <2> QED BY <2>1, <2>3, <2>4, <2>5, <2>6 DEF WillBeFetched, BeingSent
<1>5. ASSUME NEW w \in Workers, InItem(w) PROVE WillBeFetched(t)'
  <2>1. SetsUnchanged /\ TopicsUnchanged /\ sender' = sender
    BY <1>5, InItemSteps
  <2>2. waiting \subseteq waiting'
    BY <1>5 DEF InItem, Fetch, Handled, HandleErr, Requeue, Forget, AddRateLimited, queueVars
  <2>3. AboutTo(t, {"fetch"}) => AboutTo(t, {"fetch"})'
    <3>1. \A v \in Workers : v # w => worker'[v] = worker[v]
      BY <1>5 DEF InItem, Fetch, Handled, HandleErr, Requeue, Forget, TypeOK
    <3>2. ~(worker[w].topic = t /\ worker[w].pc = "fetch")
      BY <1>5 DEF InItem, Fetch, Handled, HandleErr, Requeue, Forget
    <3> QED BY <3>1, <3>2 DEF AboutTo
  <2> QED BY <2>1, <2>2, <2>3
      DEF SetsUnchanged, TopicsUnchanged, WillBeFetched, BeingSent, Queued, InHand
<1>6. ASSUME NEW u \in Topics, Elapse(u) PROVE WillBeFetched(t)'
  <2>1. /\ worker' = worker /\ sender' = sender /\ processing' = processing
        /\ waiting' = waiting \ {u} /\ Add(u)
    BY <1>6 DEF Elapse
  <2>2. dirty \subseteq dirty' /\ u \in dirty'
    BY <2>1 DEF Add
  <2>3. Queued(t) => Queued(t)'
    BY <2>1, AppendQueued DEF Add, Queued
  <2>4. u \in processing \/ Queued(u)'
    BY <2>1, AppendQueued DEF Add, QueueIsDirty, Queued
  <2>5. u \in processing => InHand(u)
    BY DEF HeldIffProcessing
  <2> QED BY <2>1, <2>2, <2>3, <2>4, <2>5 DEF WillBeFetched, BeingSent, InHand, AboutTo
<1>7. CASE UNCHANGED vars
  BY <1>7 DEF vars, queueVars, WillBeFetched, BeingSent, Queued, InHand, AboutTo
<1> QED BY <1>1, <1>2, <1>3, <1>4, <1>5, <1>6, <1>7 DEF Next, Send, Work, InItem

\* The newest entry of a topic changes only while a sender is at it; the entry
\* last fetched only when a worker fetches, and then it is the newest.
LEMMA StoreAndSeen ==
  ASSUME TypeOK, [Next]_vars, NEW t \in Topics
  PROVE  /\ store'[t] = store[t] \/ \E s \in Senders : SendStore(s, t)
         /\ seen'[t] = seen[t] \/ \E w \in Workers : Fetch(w) /\ worker[w].topic = t
<1>1. ASSUME NEW s \in Senders, NEW u \in Topics, SendStore(s, u)
      PROVE  seen' = seen /\ (store'[t] = store[t] \/ u = t)
  BY <1>1 DEF SendStore, TypeOK, history
<1>2. ASSUME NEW s \in Senders, SendQueue(s) PROVE seen' = seen /\ store' = store
  BY <1>2 DEF SendQueue, history
<1>3. ASSUME NEW w \in Workers, Fetch(w)
      PROVE  store' = store /\ (seen'[t] = seen[t] \/ worker[w].topic = t)
  BY <1>3 DEF Fetch, TypeOK
<1>4. ASSUME NEW w \in Workers, Get(w) \/ Handled(w) \/ HandleErr(w) \/ Requeue(w) \/ Forget(w) \/ Done(w)
      PROVE  seen' = seen /\ store' = store
  BY <1>4 DEF Get, Handled, HandleErr, Requeue, Forget, Done, history
<1>5. ASSUME NEW u \in Topics, Elapse(u) PROVE seen' = seen /\ store' = store
  BY <1>5 DEF Elapse, history
<1>6. CASE UNCHANGED vars
  BY <1>6 DEF vars, history
<1> QED BY <1>1, <1>2, <1>3, <1>4, <1>5, <1>6 DEF Next, Send, Work

LEMMA NoLostPostStep ==
  ASSUME TypeOK, HeldIffProcessing, QueueIsDirty, NoLostPost, [Next]_vars
  PROVE  NoLostPost'
<1> SUFFICES ASSUME NEW t \in Topics, seen'[t] # store'[t] PROVE WillBeFetched(t)'
  BY DEF NoLostPost
<1>1. ASSUME NEW s \in Senders, SendStore(s, t) PROVE WillBeFetched(t)'
  BY <1>1 DEF SendStore, TypeOK, WillBeFetched, BeingSent
<1>2. ASSUME NEW w \in Workers, Fetch(w), worker[w].topic = t PROVE FALSE
  BY <1>2 DEF Fetch, TypeOK
<1>3. CASE seen'[t] = seen[t] /\ store'[t] = store[t]
  BY <1>2, <1>3, StillToBeFetched DEF NoLostPost
<1> QED BY <1>1, <1>2, <1>3, StoreAndSeen

-----------------------------------------------------------------------------
(* Every fetched entry is disposed of.                                     *)

Handling == {"handle", "failed", "requeue", "drop"}

LEMMA SettledStep ==
  ASSUME TypeOK, HeldIffProcessing, QueueIsDirty, FetchedIsSettled, [Next]_vars
  PROVE  FetchedIsSettled'
<1> SUFFICES ASSUME NEW t \in Topics
             PROVE  \/ seen'[t] \in {Absent, good'[t], gaveUp'[t]}
                    \/ WillBeFetched(t)'
                    \/ AboutTo(t, Handling)'
  BY DEF FetchedIsSettled, Handling
<1> DEFINE Goal == \/ seen'[t] \in {Absent, good'[t], gaveUp'[t]}
                   \/ WillBeFetched(t)'
                   \/ AboutTo(t, Handling)'
<1>1. ASSUME NEW w \in Workers, Fetch(w), worker[w].topic = t PROVE Goal
  <2>1. seen'[t] = store[t] /\ worker'[w].topic = t
    BY <1>1 DEF Fetch, TypeOK
  <2>2. store[t] # Absent => worker'[w].pc = "handle"
    BY <1>1 DEF Fetch, TypeOK
  <2> QED BY <2>1, <2>2 DEF AboutTo, Handling
<1>2. CASE ~\E w \in Workers : Fetch(w) /\ worker[w].topic = t
  <2>1. seen'[t] = seen[t]
    BY <1>2, StoreAndSeen
  <2>2. CASE WillBeFetched(t)
    BY <1>2, <2>2, StillToBeFetched
  <2>3. ASSUME NEW w \in Workers, Handled(w) PROVE Goal \/ WillBeFetched(t)
    <3>1. CASE worker[w].topic = t
      <4>1. CASE worker'[w].pc = "failed"
        BY <1>2, <2>3, <3>1, <4>1 DEF Handled, TypeOK, AboutTo, Handling
      <4>2. CASE good' = [good EXCEPT ![t] = seen[t]]
        BY <2>1, <4>2 DEF TypeOK
      <4>3. worker'[w].pc = "failed" \/ good' = [good EXCEPT ![t] = seen[t]]
        BY <2>3, <3>1 DEF Handled, TypeOK
      <4> QED BY <4>1, <4>2, <4>3
    <3>2. CASE worker[w].topic # t
      <4>1. good'[t] = good[t] /\ gaveUp' = gaveUp
        BY <2>3, <3>2 DEF Handled, TypeOK
      <4>2. \A v \in Workers : v # w => worker'[v] = worker[v]
        BY <2>3 DEF Handled, TypeOK
      <4>3. AboutTo(t, Handling) => AboutTo(t, Handling)'
        BY <3>2, <4>2 DEF AboutTo
      <4> QED BY <2>1, <4>1, <4>3 DEF FetchedIsSettled, Handling
    <3> QED BY <3>1, <3>2
  <2>4. ASSUME NEW w \in Workers, HandleErr(w) PROVE Goal \/ WillBeFetched(t)
    <3>1. \A v \in Workers : v # w => worker'[v] = worker[v]
      BY <2>4 DEF HandleErr, TypeOK
    <3>2. worker'[w].topic = worker[w].topic /\ worker'[w].pc \in {"requeue", "drop"}
      BY <2>4 DEF HandleErr, TypeOK
    <3>3. AboutTo(t, Handling) => AboutTo(t, Handling)'
      BY <3>1, <3>2 DEF AboutTo, Handling
    <3>4. good' = good /\ gaveUp' = gaveUp
      BY <2>4 DEF HandleErr, history
    <3> QED BY <2>1, <3>3, <3>4 DEF FetchedIsSettled, Handling
  <2>5. ASSUME NEW w \in Workers, Requeue(w) PROVE Goal \/ WillBeFetched(t)
    <3>1. \A v \in Workers : v # w => worker'[v] = worker[v]
      BY <2>5 DEF Requeue, TypeOK
    <3>2. worker[w].topic \in waiting' /\ good' = good /\ gaveUp' = gaveUp
      BY <2>5 DEF Requeue, AddRateLimited
    <3>3. AboutTo(t, Handling) => AboutTo(t, Handling)' \/ WillBeFetched(t)'
      BY <3>1, <3>2 DEF AboutTo, WillBeFetched
    <3> QED BY <2>1, <3>2, <3>3 DEF FetchedIsSettled, Handling
  <2>6. ASSUME NEW w \in Workers, Forget(w) PROVE Goal \/ WillBeFetched(t)
    <3>1. \A v \in Workers : v # w => worker'[v] = worker[v]
      BY <2>6 DEF Forget, TypeOK
    <3>2. good' = good /\ gaveUp'[t] \in {gaveUp[t], seen[t]}
      BY <2>6 DEF Forget, TypeOK
    <3>3. CASE worker[w].topic = t /\ worker[w].pc = "drop"
      BY <2>1, <2>6, <3>3 DEF Forget, TypeOK
    <3>4. CASE ~(worker[w].topic = t /\ worker[w].pc = "drop")
      <4>1. ~(worker[w].topic = t /\ worker[w].pc \in Handling)
        BY <2>6, <3>4 DEF Forget, Handling
      <4>2. AboutTo(t, Handling) => AboutTo(t, Handling)'
        BY <3>1, <4>1 DEF AboutTo
      <4> QED BY <2>1, <3>2, <4>2 DEF FetchedIsSettled, Handling
    <3> QED BY <3>3, <3>4
  <2>7. ASSUME NEW w \in Workers, Get(w) \/ Done(w) \/ Fetch(w) PROVE Goal \/ WillBeFetched(t)
    <3>1. \A v \in Workers : v # w => worker'[v] = worker[v]
      BY <2>7 DEF Get, Done, Fetch, TypeOK
    <3>2. ~(worker[w].pc \in Handling) /\ good' = good /\ gaveUp' = gaveUp
      BY <2>7 DEF Get, Done, Fetch, Handling, history
    <3>3. AboutTo(t, Handling) => AboutTo(t, Handling)'
      BY <3>1, <3>2 DEF AboutTo
    <3> QED BY <2>1, <3>2, <3>3 DEF FetchedIsSettled, Handling
  <2>8. ASSUME worker' = worker, good' = good, gaveUp' = gaveUp PROVE Goal \/ WillBeFetched(t)
    BY <2>1, <2>8 DEF FetchedIsSettled, AboutTo, Handling
  <2>9. ASSUME NEW s \in Senders, Send(s)
        PROVE  worker' = worker /\ good' = good /\ gaveUp' = gaveUp
    BY <2>9 DEF Send, SendStore, SendQueue, history
  <2>10. ASSUME NEW u \in Topics, Elapse(u)
         PROVE  worker' = worker /\ good' = good /\ gaveUp' = gaveUp
    BY <2>10 DEF Elapse, history
  <2>11. ASSUME UNCHANGED vars
         PROVE  worker' = worker /\ good' = good /\ gaveUp' = gaveUp
    BY <2>11 DEF vars, history
  <2> QED
    BY <2>2, <2>3, <2>4, <2>5, <2>6, <2>7, <2>8, <2>9, <2>10, <2>11 DEF Next, Work
<1> QED BY <1>1, <1>2

-----------------------------------------------------------------------------
(* The theorems.                                                           *)

LEMMA InitIInv == Init => IInv
<1> SUFFICES ASSUME Init PROVE IInv
  OBVIOUS
<1>1. TypeOK
  BY QueueAssumption DEF Init, TypeOK, SenderPC, WorkerPC, Absent
<1>2. HeldIffProcessing
  BY DEF Init, HeldIffProcessing
<1>3. QueueIsDirty
  BY DEF Init, QueueIsDirty
<1>4. NoLostPost /\ FetchedIsSettled
  BY DEF Init, NoLostPost, FetchedIsSettled
<1> QED BY <1>1, <1>2, <1>3, <1>4 DEF IInv

LEMMA StepIInv == IInv /\ [Next]_vars => IInv'
  BY TypeStep, HeldStep, QueueStep, NoLostPostStep, SettledStep DEF IInv

THEOREM Inductive == Spec => []IInv
  BY InitIInv, StepIInv, PTL DEF Spec

\* Two items with the same topic are never processed in parallel: the comment
\* of processNextItem, for any number of workers.
THEOREM TopicsAreExclusive == Spec => []OneWorkerPerTopic
<1>1. IInv => OneWorkerPerTopic
  BY DEF IInv, TypeOK, HeldIffProcessing, OneWorkerPerTopic
<1> QED BY <1>1, Inductive, PTL

\* An entry that Send stored and the handler was not given yet will be read
\* from the store: no interleaving of Send with the workers loses a post.
THEOREM PostsAreKept == Spec => []NoLostPost
<1>1. IInv => NoLostPost
  BY DEF IInv
<1> QED BY <1>1, Inductive, PTL

\* When nothing is under way for a topic, the handler accepted its newest entry
\* or handleErr gave that entry up.
THEOREM RestIsSettled == Spec => []SettledWhenIdle
<1>1. IInv => SettledWhenIdle
  <2> SUFFICES ASSUME IInv, NEW t \in Topics, ~WillBeFetched(t), ~InHand(t)
               PROVE  store[t] \in {Absent, good[t], gaveUp[t]}
    BY DEF SettledWhenIdle
  <2>1. seen[t] = store[t]
    BY DEF IInv, NoLostPost
  <2> QED BY <2>1 DEF IInv, FetchedIsSettled, AboutTo, InHand
<1> QED BY <1>1, Inductive, PTL

\* Every step of the queue is a post, a delivery of the newest entry, or
\* invisible to the callers.
THEOREM QueueIsMailbox == Spec => Mailbox!SafetySpec
<1>1. Init => Mailbox!Init
  BY DEF Init, Mailbox!Init, Absent
<1>2. TypeOK /\ [Next]_vars => [Mailbox!Next]_Mailbox!vars
  <2> SUFFICES ASSUME TypeOK, [Next]_vars PROVE [Mailbox!Next]_Mailbox!vars
    OBVIOUS
  <2>1. ASSUME NEW s \in Senders, NEW t \in Topics, SendStore(s, t) PROVE Mailbox!Post(t)
    BY <2>1 DEF SendStore, history, Mailbox!Post
  <2>2. ASSUME NEW w \in Workers, Fetch(w)
        PROVE  Mailbox!Take(worker[w].topic) \/ UNCHANGED Mailbox!vars
    <3> DEFINE t == worker[w].topic
    <3>1. t \in Topics /\ store' = store /\ seen' = [seen EXCEPT ![t] = store[t]]
      BY <2>2, BusyHaveTopics DEF Fetch
    <3> HIDE DEF t
    <3>2. CASE seen[t] = store[t]
      BY <3>1, <3>2 DEF TypeOK, Mailbox!vars
    <3>3. CASE seen[t] # store[t]
      BY <3>1, <3>3 DEF Mailbox!Take, t
    <3> QED BY <3>2, <3>3 DEF t
  <2>3. ASSUME NEW w \in Workers, Get(w) \/ Handled(w) \/ HandleErr(w) \/ Requeue(w) \/ Forget(w) \/ Done(w)
        PROVE  UNCHANGED Mailbox!vars
    BY <2>3 DEF Get, Handled, HandleErr, Requeue, Forget, Done, history, Mailbox!vars
  <2>4. ASSUME NEW s \in Senders, SendQueue(s) PROVE UNCHANGED Mailbox!vars
    BY <2>4 DEF SendQueue, history, Mailbox!vars
  <2>5. ASSUME NEW t \in Topics, Elapse(t) PROVE UNCHANGED Mailbox!vars
    BY <2>5 DEF Elapse, history, Mailbox!vars
  <2>6. CASE UNCHANGED vars
    BY <2>6 DEF vars, history, Mailbox!vars
  <2>7. \A w \in Workers : Fetch(w) => worker[w].topic \in Topics
    BY BusyHaveTopics DEF Fetch
  <2> QED BY <2>1, <2>2, <2>3, <2>4, <2>5, <2>6, <2>7 DEF Next, Send, Work, Mailbox!Next
<1> QED BY <1>1, <1>2, TypeCorrect, PTL DEF Spec, Mailbox!SafetySpec
=============================================================================
