---------------------------- MODULE NautesQueue ----------------------------
(***************************************************************************)
(* pkg/queue/nautesqueue/nautesqueue.go: the in-memory work queue through   *)
(* which the api-server refreshes host clusters.  A request posts an entry  *)
(* under a topic (Send); worker goroutines hand the newest entry of a topic *)
(* to the handler and retry failures with a bounded number of requeues.     *)
(*                                                                         *)
(* The store and the rate limited work queue underneath (client-go v0.26)   *)
(* are external: a FIFO of topics, a set of topics that still have to be    *)
(* processed (dirty), a set being processed, a set of delayed additions and *)
(* a requeue counter per topic.  Back-off durations are left out: a delayed *)
(* addition may fire at any time.  The process never closes stopCh, so      *)
(* there is no shutdown.  Entries of a topic are named by the order in      *)
(* which they reached the store.                                           *)
(***************************************************************************)
EXTENDS Naturals, Sequences

CONSTANTS Topics,        \* topics of Send (names of host clusters)
          Senders,       \* request goroutines that call Send
          Workers,       \* goroutines running runWorker
          RequeueTimes,  \* DefaultRequeueTimes, 5 in the code
          MaxSends       \* bound of the model: calls of Send per sender

NoTopic == "no topic"

ASSUME QueueAssumption ==
  /\ RequeueTimes \in Nat
  /\ MaxSends \in Nat
  /\ NoTopic \notin Topics

VARIABLES
  store,       \* ThreadSafeStore: newest entry of each topic, Absent if none
  queue,       \* workqueue.Type.queue
  dirty,       \* workqueue.Type.dirty
  processing,  \* workqueue.Type.processing
  waiting,     \* topics in the delaying queue
  requeues,    \* the rate limiter's failure count, NumRequeues
  sender,      \* per sender: where it is in Send, its topic, calls left
  worker,      \* per worker: where it is in processNextItem, its topic
  seen,        \* history: newest entry the handler was called with
  good,        \* history: newest entry the handler accepted
  gaveUp,      \* history: newest entry dropped after its retries
  retries      \* history: requeues by handleErr since the last Forget, up
               \* to RequeueTimes

queueVars == <<queue, dirty, processing, waiting, requeues>>
history   == <<seen, good, gaveUp, retries>>
vars == <<store, queueVars, sender, worker, history>>

Absent == 0

SenderPC == {"idle", "stored"}
WorkerPC == {"get", "fetch", "handle", "failed", "requeue", "drop", "forget", "done"}

TypeOK ==
  /\ store \in [Topics -> Nat]
  /\ queue \in Seq(Topics)
  /\ dirty \subseteq Topics
  /\ processing \subseteq Topics
  /\ waiting \subseteq Topics
  /\ requeues \in [Topics -> Nat]
  /\ sender \in [Senders -> [pc : SenderPC, topic : Topics \cup {NoTopic}, left : 0..MaxSends]]
  /\ worker \in [Workers -> [pc : WorkerPC, topic : Topics \cup {NoTopic}]]
  /\ \A s \in Senders : sender[s].pc = "idle" <=> sender[s].topic = NoTopic
  /\ \A w \in Workers : worker[w].pc = "get" <=> worker[w].topic = NoTopic
  /\ seen \in [Topics -> Nat]
  /\ good \in [Topics -> Nat]
  /\ gaveUp \in [Topics -> Nat]
  /\ retries \in [Topics -> Nat]

Init ==
  /\ store = [t \in Topics |-> Absent]
  /\ queue = <<>> /\ dirty = {} /\ processing = {} /\ waiting = {}
  /\ requeues = [t \in Topics |-> 0]
  /\ sender = [s \in Senders |-> [pc |-> "idle", topic |-> NoTopic, left |-> MaxSends]]
  /\ worker = [w \in Workers |-> [pc |-> "get", topic |-> NoTopic]]
  /\ seen = [t \in Topics |-> Absent]
  /\ good = [t \in Topics |-> Absent]
  /\ gaveUp = [t \in Topics |-> Absent]
  /\ retries = [t \in Topics |-> 0]

-----------------------------------------------------------------------------
(* The rate limited work queue.                                            *)

\* Mutant: the topic is remembered as dirty only when it is not in process,
\* so that a post that arrives during the handler's run is forgotten.
AddForgetful(t) ==
  IF t \in dirty \cup processing
  THEN UNCHANGED <<queue, dirty>>
  ELSE /\ dirty' = dirty \cup {t}
       /\ queue' = Append(queue, t)

\* workqueue.Type.Add: one pending occurrence per topic; a topic in process is
\* only marked dirty and queued again by Done.
Add(t) ==
  IF t \in dirty
  THEN UNCHANGED <<queue, dirty>>
  ELSE /\ dirty' = dirty \cup {t}
       /\ queue' = IF t \in processing THEN queue ELSE Append(queue, t)

\* Mutant: the addition is delayed without being counted.
AddUncounted(t) ==
  /\ waiting' = waiting \cup {t}
  /\ UNCHANGED requeues

\* AddRateLimited: the rate limiter counts the addition, whoever asks for it,
\* and the topic joins the delayed additions, at most once.
AddRateLimited(t) ==
  /\ waiting' = waiting \cup {t}
  /\ requeues' = [requeues EXCEPT ![t] = @ + 1]

\* The delay of t is over: waitingLoop adds it to the queue.
Elapse(t) ==
  /\ t \in waiting
  /\ waiting' = waiting \ {t}
  /\ Add(t)
  /\ UNCHANGED <<store, processing, requeues, sender, worker, history>>

-----------------------------------------------------------------------------
(* Send, in the goroutine of a request: the store first, the queue second.  *)

SendStore(s, t) ==
  /\ sender[s].pc = "idle"
  /\ sender[s].left > 0
  /\ store' = [store EXCEPT ![t] = @ + 1]
  /\ sender' = [sender EXCEPT ![s] = [pc |-> "stored", topic |-> t, left |-> @.left - 1]]
  /\ UNCHANGED <<queueVars, worker, history>>

SendQueue(s) ==
  /\ sender[s].pc = "stored"
  /\ AddRateLimited(sender[s].topic)
  /\ sender' = [sender EXCEPT ![s] = [pc |-> "idle", topic |-> NoTopic, left |-> @.left]]
  /\ UNCHANGED <<store, queue, dirty, processing, worker, history>>

-----------------------------------------------------------------------------
(* processNextItem, in a worker goroutine.                                 *)

\* queue.Get: take the head, remember it as in process, it is clean again.
Get(w) ==
  /\ worker[w].pc = "get"
  /\ queue # <<>>
  /\ queue' = Tail(queue)
  /\ processing' = processing \cup {Head(queue)}
  /\ dirty' = dirty \ {Head(queue)}
  /\ worker' = [worker EXCEPT ![w] = [pc |-> "fetch", topic |-> Head(queue)]]
  /\ UNCHANGED <<store, waiting, requeues, sender, history>>

\* GetByKey: a topic without an entry ends the item without a call of the
\* handler; otherwise the handler is called with what the store holds now.
Fetch(w) ==
  LET t == worker[w].topic
  IN  /\ worker[w].pc = "fetch"
      /\ worker' = [worker EXCEPT ![w].pc = IF store[t] = Absent THEN "done" ELSE "handle"]
      /\ seen' = [seen EXCEPT ![t] = store[t]]
      /\ UNCHANGED <<store, queueVars, sender, good, gaveUp, retries>>

\* The handler returns nil or an error.
Handled(w) ==
  LET t == worker[w].topic
  IN  /\ worker[w].pc = "handle"
      /\ \/ /\ worker' = [worker EXCEPT ![w].pc = "forget"]
            /\ good' = [good EXCEPT ![t] = seen[t]]
         \/ /\ worker' = [worker EXCEPT ![w].pc = "failed"]
            /\ UNCHANGED good
      /\ UNCHANGED <<store, queueVars, sender, seen, gaveUp, retries>>

\* handleErr: the count is read here and incremented by a later step; a Send
\* may come in between.
HandleErr(w) ==
  /\ worker[w].pc = "failed"
  /\ worker' = [worker EXCEPT ![w].pc =
                  IF requeues[worker[w].topic] < RequeueTimes THEN "requeue" ELSE "drop"]
  /\ UNCHANGED <<store, queueVars, sender, history>>

\* Mutant: the worker says it requeues the topic and does not.
RequeueNothing(w) ==
  /\ worker[w].pc = "requeue"
  /\ worker' = [worker EXCEPT ![w].pc = "done"]
  /\ UNCHANGED <<store, queueVars, sender, history>>

Requeue(w) ==
  /\ worker[w].pc = "requeue"
  /\ AddRateLimited(worker[w].topic)
  /\ worker' = [worker EXCEPT ![w].pc = "done"]
  /\ retries' = [retries EXCEPT ![worker[w].topic] = IF @ < RequeueTimes THEN @ + 1 ELSE @]
  /\ UNCHANGED <<store, queue, dirty, processing, sender, seen, good, gaveUp>>

\* queue.Forget, after a success or when the retries are used up.
Forget(w) ==
  LET t == worker[w].topic
  IN  /\ worker[w].pc \in {"forget", "drop"}
      /\ requeues' = [requeues EXCEPT ![t] = 0]
      /\ retries' = [retries EXCEPT ![t] = 0]
      /\ gaveUp' = IF worker[w].pc = "drop" THEN [gaveUp EXCEPT ![t] = seen[t]] ELSE gaveUp
      /\ worker' = [worker EXCEPT ![w].pc = "done"]
      /\ UNCHANGED <<store, queue, dirty, processing, waiting, sender, seen, good>>

\* Mutant: the worker goes back to Get without letting go of the topic.
DoneKeepsTopic(w) ==
  /\ worker[w].pc = "done"
  /\ processing' = processing \ {worker[w].topic}
  /\ queue' = IF worker[w].topic \in dirty THEN Append(queue, worker[w].topic) ELSE queue
  /\ worker' = [worker EXCEPT ![w].pc = "get"]
  /\ UNCHANGED <<store, dirty, waiting, requeues, sender, history>>

\* Mutant: a topic that became dirty while in process is not queued again.
DoneForgetsDirty(w) ==
  /\ worker[w].pc = "done"
  /\ processing' = processing \ {worker[w].topic}
  /\ worker' = [worker EXCEPT ![w] = [pc |-> "get", topic |-> NoTopic]]
  /\ UNCHANGED <<store, queue, dirty, waiting, requeues, sender, history>>

\* The deferred queue.Done: a topic that became dirty meanwhile is queued again.
Done(w) ==
  LET t == worker[w].topic
  IN  /\ worker[w].pc = "done"
      /\ processing' = processing \ {t}
      /\ queue' = IF t \in dirty THEN Append(queue, t) ELSE queue
      /\ worker' = [worker EXCEPT ![w] = [pc |-> "get", topic |-> NoTopic]]
      /\ UNCHANGED <<store, dirty, waiting, requeues, sender, history>>

-----------------------------------------------------------------------------
Send(s) == SendQueue(s) \/ \E t \in Topics : SendStore(s, t)

Work(w) == \/ Get(w)     \/ Fetch(w)  \/ Handled(w) \/ HandleErr(w)
           \/ Requeue(w) \/ Forget(w) \/ Done(w)

Next == \/ \E s \in Senders : Send(s)
        \/ \E w \in Workers : Work(w)
        \/ \E t \in Topics  : Elapse(t)

\* Requests may stop coming, but a Send that began runs to its end; the worker
\* goroutines and client-go's waiting loop are always scheduled again.
Fairness == /\ \A s \in Senders : WF_vars(SendQueue(s))
            /\ \A w \in Workers : WF_vars(Work(w))
            /\ \A t \in Topics  : WF_vars(Elapse(t))

Spec == Init /\ [][Next]_vars /\ Fairness

-----------------------------------------------------------------------------
(* Properties.                                                             *)

\* Two items with the same topic are never processed in parallel, which
\* processNextItem relies on when it calls the handler without a lock.
OneWorkerPerTopic ==
  \A v, w \in Workers :
    v # w /\ worker[v].pc # "get" /\ worker[w].pc # "get"
      => worker[v].topic # worker[w].topic

BeingSent(t) == \E s \in Senders : sender[s].topic = t
InHand(t)    == \E w \in Workers : worker[w].topic = t
AboutTo(t, pcs) == \E w \in Workers : worker[w].topic = t /\ worker[w].pc \in pcs
Queued(t)    == \E i \in 1..Len(queue) : queue[i] = t

\* Something under way ends with a worker reading the store for t.  A dirty
\* topic counts only while a worker holds it, for Done is what queues it.
WillBeFetched(t) ==
  \/ BeingSent(t)
  \/ t \in waiting
  \/ Queued(t)
  \/ t \in dirty /\ InHand(t)
  \/ AboutTo(t, {"fetch"})

\* No post is lost: when the store holds an entry newer than the one the
\* handler was last called with, a worker will read the store again, whatever
\* the interleaving of Send, the delays, the workers and failures.
NoLostPost == \A t \in Topics : seen[t] # store[t] => WillBeFetched(t)

\* A topic at rest is settled: its newest entry was accepted by the handler or
\* was given up after its retries; no error is swallowed on the way.
SettledWhenIdle ==
  \A t \in Topics :
    ~WillBeFetched(t) /\ ~InHand(t) => store[t] \in {Absent, good[t], gaveUp[t]}

\* "This controller retries 5 times if something goes wrong.  After that, it
\* stops trying" (handleErr): an entry is dropped after RequeueTimes requeues.
RetriesBeforeDrop ==
  \A w \in Workers : worker[w].pc = "drop" => retries[worker[w].topic] >= RequeueTimes

\* The queue implements the mailbox its callers count on: every post is
\* coalesced into the newest one, which is eventually given to the handler.
Mailbox == INSTANCE CoalescingMailbox WITH posted <- store, taken <- seen
MailboxSpec == Mailbox!Spec

\* A handler that always fails does not keep the workers busy for ever: once
\* requests stop, every topic comes to rest.
ComesToRest == <>[](\A t \in Topics : ~WillBeFetched(t) /\ ~InHand(t))
=============================================================================
