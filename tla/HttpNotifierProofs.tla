------------------------- MODULE HttpNotifierProofs -------------------------
(***************************************************************************)
(* Proofs about HttpNotifier, for any finite set of events, any paths and  *)
(* any number of retries and failures.                                     *)
(***************************************************************************)
EXTENDS HttpNotifier, SequenceTheorems, TLAPS

-----------------------------------------------------------------------------
(***************************************************************************)
(* Type correctness.  That the worker has an event in hand exactly while   *)
(* it sends is needed as well, since WorkerSend indexes by it, and that    *)
(* initialize starts the only worker.                                      *)
(***************************************************************************)
SendsWhatItHas ==
    /\ sending # NoEvent <=> worker \in {"send", "drain_send"}
    /\ main = "starting" => worker = "unborn"

TypeInv == TypeOK /\ SendsWhatItHas

(* The notifier before initialize is well typed. *)
LEMMA TypeInvInit == Init => TypeInv
<1> SUFFICES ASSUME Init
             PROVE  TypeInv
  OBVIOUS
<1>1. initialized \in BOOLEAN /\ shutdown_flag \in BOOLEAN /\ missed \in BOOLEAN
  BY DEF Init
<1>2. event_queue \in Seq(AsyncEvents) /\ accepted \in Seq(AsyncEvents) /\ handled \in Seq(AsyncEvents)
  BY DEF Init
<1>3. /\ call \in [Events -> {"new", "sending", "done"}]
      /\ attempts \in [Events -> Nat]
      /\ result \in [Events -> SendResults]
  BY DEF Init, SendResults
<1> QED
  BY <1>1, <1>2, <1>3 DEF Init, TypeInv, TypeOK, SendsWhatItHas

(* The placeholder of an idle worker is no event. *)
LEMMA NoEventIsNone == NoEvent \notin AsyncEvents
  BY HttpNotifierAssumption DEF Events

(* What the worker takes from a queue that is not empty is an event of the queue. *)
LEMMA DequeueTypes ==
  ASSUME TypeInv, NEW then, NEW else, dequeue(then, else)
  PROVE  /\ event_queue' \in Seq(AsyncEvents)
         /\ event_queue # <<>> => sending' \in AsyncEvents /\ worker' = then
         /\ event_queue = <<>> => sending' = sending /\ worker' = else
  BY HeadTailProperties DEF TypeInv, TypeOK, dequeue

(* An attempt leaves counters of the right type. *)
LEMMA SendTypes ==
  ASSUME TypeInv, NEW e \in Events, NEW res \in SendResults, send_notification(e, res)
  PROVE  attempts' \in [Events -> Nat] /\ failures' \in Nat
<1>1. attempts' \in {attempts, [attempts EXCEPT ![e] = @ + 1]} /\ failures' \in {failures, failures + 1}
  BY DEF send_notification
<1>2. attempts \in [Events -> Nat] /\ failures \in Nat
  BY DEF TypeInv, TypeOK
<1> QED
  BY <1>1, <1>2

(* Every step of handlers, worker and main thread preserves the types. *)
LEMMA TypeInvStep == TypeInv /\ [Next]_vars => TypeInv'
<1> SUFFICES ASSUME TypeInv, [Next]_vars
             PROVE  TypeInv'
  OBVIOUS
<1> USE NoEventIsNone DEF TypeInv, TypeOK, SendsWhatItHas, mainVars, queueVars, workerVars, sendVars
<1>1. CASE MainStep \/ ClearInitialized
  <2>1. CASE StartWorker
    BY <2>1 DEF StartWorker
  <2>2. CASE StoreInitialized
    BY <2>2 DEF StoreInitialized
  <2>3. CASE ShutdownQueue
    BY <2>3 DEF ShutdownQueue
  <2>4. CASE JoinWorker
    BY <2>4 DEF JoinWorker
  <2>5. CASE ClearInitialized
    BY <2>5 DEF ClearInitialized
  <2> QED
    BY <1>1, <2>1, <2>2, <2>3, <2>4, <2>5 DEF MainStep
<1>2. CASE TestInitialized
  BY <1>2 DEF TestInitialized
<1>3. CASE WorkerDequeue
  <2>1. dequeue("send", "loop")
    BY <1>3 DEF WorkerDequeue
  <2>2. /\ event_queue' \in Seq(AsyncEvents)
        /\ event_queue # <<>> => sending' \in AsyncEvents /\ worker' = "send"
        /\ event_queue = <<>> => sending' = sending /\ worker' = "loop"
    BY <2>1, DequeueTypes
  <2> QED
    BY <1>3, <2>2 DEF WorkerDequeue
<1>4. CASE DrainDequeue
  <2>1. dequeue("drain_send", "stopped")
    BY <1>4 DEF DrainDequeue
  <2>2. /\ event_queue' \in Seq(AsyncEvents)
        /\ event_queue # <<>> => sending' \in AsyncEvents /\ worker' = "drain_send"
        /\ event_queue = <<>> => sending' = sending /\ worker' = "stopped"
    BY <2>1, DequeueTypes
  <2> QED
    BY <1>4, <2>2 DEF DrainDequeue
<1>5. CASE WorkerSend
  <2>1. PICK res \in SendResults :
           /\ send_notification(sending, res)
           /\ result' = [result EXCEPT ![sending] = res]
           /\ IF res = "none" THEN UNCHANGED <<worker, sending, handled>>
              ELSE /\ worker' = IF worker = "send" THEN "loop" ELSE "drain"
                   /\ sending' = NoEvent
                   /\ handled' = Append(handled, sending)
    BY <1>5 DEF WorkerSend
  <2>2. sending \in AsyncEvents /\ sending \in Events
    BY <1>5 DEF WorkerSend, Events
  <2>3. attempts' \in [Events -> Nat] /\ failures' \in Nat
    BY <2>1, <2>2, SendTypes
  <2>4. Append(handled, sending) \in Seq(AsyncEvents)
    BY <2>2
  <2>5. result' \in [Events -> SendResults]
    BY <2>1, <2>2
  <2>6. /\ worker' \in {"loop", "drain", "send", "drain_send"}
        /\ sending' \in AsyncEvents \cup {NoEvent}
        /\ handled' \in Seq(AsyncEvents)
        /\ sending' # NoEvent <=> worker' \in {"send", "drain_send"}
    BY <1>5, <2>1, <2>2, <2>4 DEF WorkerSend
  <2>7. UNCHANGED <<mainVars, queueVars, missed, call>> /\ main # "starting"
    BY <1>5 DEF WorkerSend
  <2> QED
    BY <2>3, <2>5, <2>6, <2>7
<1>6. ASSUME NEW e \in AsyncEvents, notify_async(e)
      PROVE  TypeInv'
  <2>1. event_queue' \in Seq(AsyncEvents) /\ accepted' \in Seq(AsyncEvents)
    <3>1. Append(event_queue, e) \in Seq(AsyncEvents) /\ Append(accepted, e) \in Seq(AsyncEvents)
      BY AppendProperties
    <3>2. \/ UNCHANGED queueVars
          \/ event_queue' = Append(event_queue, e) /\ accepted' = Append(accepted, e)
      BY <1>6 DEF notify_async, enqueue
    <3> QED
      BY <3>1, <3>2
  <2> QED
    BY <1>6, <2>1 DEF notify_async, Events
<1>7. ASSUME NEW e \in SyncEvents, notify_sync(e)
      PROVE  TypeInv'
  BY <1>7 DEF notify_sync, Events
<1>8. ASSUME NEW e \in SyncEvents, SyncSend(e)
      PROVE  TypeInv'
  <2>1. e \in Events
    BY DEF Events
  <2>2. attempts' \in [Events -> Nat] /\ failures' \in Nat
    BY <1>8, <2>1, SendTypes DEF SyncSend
  <2> QED
    BY <1>8, <2>1, <2>2 DEF SyncSend
<1>9. CASE UNCHANGED vars
  BY <1>9 DEF vars
<1> QED
  BY <1>1, <1>2, <1>3, <1>4, <1>5, <1>6, <1>7, <1>8, <1>9 DEF Next, WorkerStep

(***************************************************************************)
(* The notifier's variables always have their types: in particular only    *)
(* events of the asynchronous calls are ever in the queue.                 *)
(***************************************************************************)
THEOREM TypeCorrect == Spec => []TypeOK
<1>1. TypeInv => TypeOK
  BY DEF TypeInv
<1> QED
  BY <1>1, TypeInvInit, TypeInvStep, PTL DEF Spec

-----------------------------------------------------------------------------
(***************************************************************************)
(* The order of sending.  SentInOrder is inductive once the types are      *)
(* known; each of its three changes is a fact about sequences.             *)
(***************************************************************************)
(* An event appended to the queue is appended to what was accepted. *)
LEMMA AppendToRest ==
  ASSUME NEW e \in AsyncEvents,
         NEW h \in Seq(AsyncEvents), NEW i \in Seq(AsyncEvents), NEW q \in Seq(AsyncEvents)
  PROVE  Append(h \o i \o q, e) = h \o i \o Append(q, e)
<1>1. h \o i \in Seq(AsyncEvents) /\ h \o i \o q \in Seq(AsyncEvents) /\ <<e>> \in Seq(AsyncEvents)
  BY ConcatProperties
<1>2. Append(h \o i \o q, e) = (h \o i \o q) \o <<e>>
  BY <1>1, AppendIsConcat
<1>3. Append(q, e) = q \o <<e>>
  BY AppendIsConcat
<1> QED
  BY <1>1, <1>2, <1>3, ConcatAssociative, SMTT(30)

(* The head of the queue moves into the worker's hand. *)
LEMMA HeadToHand ==
  ASSUME NEW S, NEW h \in Seq(S), NEW q \in Seq(S), q # <<>>
  PROVE  h \o <<>> \o q = h \o <<Head(q)>> \o Tail(q)
<1>1. Head(q) \in S /\ Tail(q) \in Seq(S) /\ <<Head(q)>> \in Seq(S)
  BY HeadTailProperties
<1>2. <<Head(q)>> \o Tail(q) = q
  <2>1. Len(<<Head(q)>> \o Tail(q)) = Len(q)
    BY <1>1, HeadTailProperties, ConcatProperties, LenProperties
  <2>2. \A k \in 1..Len(q) : (<<Head(q)>> \o Tail(q))[k] = q[k]
    BY <1>1, HeadTailProperties, ConcatProperties, LenProperties
  <2> QED
    BY <1>1, <2>1, <2>2, SeqEqual, ConcatProperties
<1> QED
  BY <1>1, <1>2, ConcatAssociative, ConcatEmptySeq

(* The event in hand moves to the end of what is done. *)
LEMMA HandToDone ==
  ASSUME NEW S, NEW h \in Seq(S), NEW q \in Seq(S), NEW e \in S
  PROVE  h \o <<e>> \o q = Append(h, e) \o <<>> \o q
  BY AppendIsConcat, AppendProperties, ConcatEmptySeq

OrderInv == TypeInv /\ SentInOrder

(* A step of a handler or of the worker moves an event from one of the three
   places to the next and changes nothing else of the order. *)
LEMMA OrderInvStep == OrderInv /\ [Next]_vars => OrderInv'
<1> SUFFICES ASSUME OrderInv, [Next]_vars
             PROVE  SentInOrder'
  BY TypeInvStep DEF OrderInv
<1>0. TypeInv /\ TypeOK /\ SendsWhatItHas /\ accepted = handled \o InHand \o event_queue
  BY DEF OrderInv, TypeInv, SentInOrder
<1>h. handled \in Seq(AsyncEvents) /\ event_queue \in Seq(AsyncEvents) /\ sending \in AsyncEvents \cup {NoEvent}
  BY <1>0 DEF TypeOK
<1>1. ASSUME UNCHANGED <<accepted, handled, sending, event_queue>>
      PROVE  SentInOrder'
  BY <1>0, <1>1 DEF SentInOrder, InHand
<1>2. CASE MainStep \/ ClearInitialized \/ TestInitialized
  BY <1>1, <1>2 DEF MainStep, StartWorker, StoreInitialized, ShutdownQueue, JoinWorker,
                    ClearInitialized, TestInitialized, queueVars, workerVars
<1>3. ASSUME NEW then, NEW else, dequeue(then, else), UNCHANGED <<accepted, handled>>,
             sending = NoEvent
      PROVE  SentInOrder'
  <2>1. CASE event_queue = <<>>
    BY <1>1, <1>3, <2>1 DEF dequeue
  <2>2. CASE event_queue # <<>>
    <3>1. sending' = Head(event_queue) /\ event_queue' = Tail(event_queue)
      BY <1>3, <2>2 DEF dequeue
    <3>2. sending' \in AsyncEvents /\ sending' # NoEvent
      BY <1>h, <2>2, <3>1, HeadTailProperties, NoEventIsNone
    <3>3. accepted = handled \o <<>> \o event_queue
      BY <1>0, <1>3 DEF InHand
    <3>4. handled \o <<>> \o event_queue = handled \o <<Head(event_queue)>> \o Tail(event_queue)
      BY <1>h, <2>2, HeadToHand
    <3> QED
      BY <1>3, <3>1, <3>2, <3>3, <3>4 DEF SentInOrder, InHand
  <2> QED
    BY <2>1, <2>2
<1>4. CASE WorkerDequeue \/ DrainDequeue
  <2>1. sending = NoEvent
    BY <1>0, <1>4 DEF WorkerDequeue, DrainDequeue, SendsWhatItHas
  <2> QED
    BY <1>3, <1>4, <2>1 DEF WorkerDequeue, DrainDequeue
<1>5. CASE WorkerSend
  <2>1. sending \in AsyncEvents /\ sending # NoEvent
    BY <1>0, <1>5, <1>h DEF WorkerSend, SendsWhatItHas
  <2>2. UNCHANGED <<accepted, event_queue>>
    BY <1>5 DEF WorkerSend, queueVars
  <2>3. CASE UNCHANGED <<sending, handled>>
    BY <1>1, <2>2, <2>3
  <2>4. CASE sending' = NoEvent /\ handled' = Append(handled, sending)
    <3>1. handled \o <<sending>> \o event_queue = handled' \o <<>> \o event_queue
      BY <1>h, <2>1, <2>4, HandToDone
    <3> QED
      BY <1>0, <2>1, <2>2, <2>4, <3>1 DEF SentInOrder, InHand
  <2> QED
    BY <1>5, <2>3, <2>4 DEF WorkerSend
<1>6. ASSUME NEW e \in AsyncEvents, notify_async(e)
      PROVE  SentInOrder'
  <2>1. UNCHANGED <<handled, sending>>
    BY <1>6 DEF notify_async, workerVars
  <2>2. CASE UNCHANGED queueVars
    BY <1>1, <2>1, <2>2 DEF queueVars
  <2>3. CASE event_queue' = Append(event_queue, e) /\ accepted' = Append(accepted, e)
    <3>1. InHand \in Seq(AsyncEvents)
      <4>1. <<>> \in Seq(AsyncEvents) /\ (sending # NoEvent => <<sending>> \in Seq(AsyncEvents))
        BY <1>h
      <4> QED
        BY <4>1 DEF InHand
    <3>2. Append(handled \o InHand \o event_queue, e) = handled \o InHand \o Append(event_queue, e)
      BY <1>h, <3>1, AppendToRest
    <3>3. InHand' = InHand
      BY <2>1 DEF InHand
    <3> QED
      BY <1>0, <2>1, <2>3, <3>2, <3>3 DEF SentInOrder
  <2> QED
    BY <1>6, <2>2, <2>3 DEF notify_async, enqueue
<1>7. ASSUME NEW e \in SyncEvents, notify_sync(e) \/ SyncSend(e)
      PROVE  SentInOrder'
  BY <1>1, <1>7 DEF notify_sync, SyncSend, queueVars, workerVars
<1>8. CASE UNCHANGED vars
  BY <1>1, <1>8 DEF vars
<1> QED
  BY <1>2, <1>4, <1>5, <1>6, <1>7, <1>8 DEF Next, WorkerStep

(***************************************************************************)
(* What the handlers queued is, in this order, what the worker has done    *)
(* with, has in hand and will take: no event is lost, repeated or          *)
(* overtaken, for any number of events and failures.                       *)
(***************************************************************************)
THEOREM EventsAreSentInOrder == Spec => []SentInOrder
<1>1. Init => OrderInv
  <2> SUFFICES ASSUME Init
               PROVE  SentInOrder
    BY TypeInvInit DEF OrderInv
  <2>1. <<>> \o <<>> \o <<>> = <<>>
    BY ConcatEmptySeq, EmptySeq
  <2> QED
    BY <2>1 DEF Init, SentInOrder, InHand
<1>2. OrderInv => SentInOrder
  BY DEF OrderInv
<1> QED
  BY <1>1, <1>2, OrderInvStep, PTL DEF Spec

-----------------------------------------------------------------------------
(***************************************************************************)
(* The unmount.  A worker that was let into its loop leaves it only after  *)
(* shutdown has cleared the flag; from then on no handler queues anything, *)
(* and the thread ends on an empty queue.                                  *)
(***************************************************************************)
FlagWhileUp == initialized <=> main = "up"

EndsLate ==
    /\ main = "stopped" => worker = "stopped"
    /\ worker \in {"drain", "drain_send", "stopped"} /\ ~missed =>
          main \in {"cleared", "joining", "stopped"}
    /\ worker = "stopped" /\ ~missed => event_queue = <<>>

DrainInv == TypeInv /\ FlagWhileUp /\ EndsLate

(* No step lets the worker end before its time or leave an event behind. *)
LEMMA DrainInvStep == DrainInv /\ [Next]_vars => DrainInv'
<1> SUFFICES ASSUME DrainInv, [Next]_vars
             PROVE  FlagWhileUp' /\ EndsLate'
  BY TypeInvStep DEF DrainInv
<1>0. TypeOK /\ SendsWhatItHas /\ FlagWhileUp /\ EndsLate
  BY DEF DrainInv, TypeInv
<1> USE <1>0 DEF FlagWhileUp, EndsLate, mainVars, queueVars, workerVars
<1>1. CASE StartWorker
  BY <1>1 DEF StartWorker, SendsWhatItHas
<1>2. CASE StoreInitialized
  BY <1>2 DEF StoreInitialized
<1>3. CASE ShutdownQueue
  BY <1>3 DEF ShutdownQueue
<1>4. CASE JoinWorker
  BY <1>4 DEF JoinWorker
<1>5. CASE ClearInitialized
  BY <1>5 DEF ClearInitialized
<1>6. CASE TestInitialized
  BY <1>6 DEF TestInitialized, SendsWhatItHas, TypeOK
<1>7. CASE WorkerDequeue
  <2>1. worker = "dequeue" /\ worker' \in {"send", "loop"} /\ UNCHANGED <<initialized, main>>
    BY <1>7 DEF WorkerDequeue, dequeue
  <2> QED
    BY <2>1
<1>8. CASE DrainDequeue
  <2>1. /\ worker = "drain" /\ UNCHANGED <<initialized, main, missed>>
        /\ \/ worker' = "drain_send"
           \/ worker' = "stopped" /\ event_queue = <<>> /\ UNCHANGED event_queue
    BY <1>8 DEF DrainDequeue, dequeue
  <2> QED
    BY <2>1
<1>9. CASE WorkerSend
  <2>1. /\ UNCHANGED <<initialized, main, missed, event_queue>>
        /\ \/ worker = "send" /\ worker' \in {"send", "loop"}
           \/ worker = "drain_send" /\ worker' \in {"drain_send", "drain"}
    BY <1>9 DEF WorkerSend
  <2> QED
    BY <2>1
<1>10. ASSUME NEW e \in AsyncEvents, notify_async(e)
       PROVE  FlagWhileUp' /\ EndsLate'
  BY <1>10 DEF notify_async
<1>11. ASSUME NEW e \in SyncEvents, notify_sync(e) \/ SyncSend(e)
       PROVE  FlagWhileUp' /\ EndsLate'
  BY <1>11 DEF notify_sync, SyncSend
<1>12. CASE UNCHANGED vars
  BY <1>12 DEF vars
<1> QED
  BY <1>1, <1>2, <1>3, <1>4, <1>5, <1>6, <1>7, <1>8, <1>9, <1>10, <1>11, <1>12
     DEF Next, MainStep, WorkerStep

(***************************************************************************)
(* "Process remaining events": when the unmount has joined the worker,     *)
(* every event the queue took has been sent or given up, unless the worker *)
(* looked at the flag before initialize had set it.                        *)
(***************************************************************************)
THEOREM UnmountDrainsQueue == Spec => []ShutdownDrains
<1>1. Init => DrainInv
  BY TypeInvInit DEF Init, DrainInv, FlagWhileUp, EndsLate
<1>2. DrainInv /\ SentInOrder => ShutdownDrains
  <2> SUFFICES ASSUME DrainInv, SentInOrder, main = "stopped", ~missed
               PROVE  handled = accepted
    BY DEF ShutdownDrains
  <2>1. worker = "stopped" /\ event_queue = <<>>
    BY DEF DrainInv, EndsLate
  <2>2. sending = NoEvent
    BY <2>1 DEF DrainInv, TypeInv, SendsWhatItHas
  <2>3. accepted = handled \o <<>> \o <<>>
    BY <2>1, <2>2 DEF SentInOrder, InHand
  <2>4. handled \in Seq(AsyncEvents)
    BY DEF DrainInv, TypeInv, TypeOK
  <2> QED
    BY <2>3, <2>4, ConcatEmptySeq
<1> QED
  BY <1>1, <1>2, DrainInvStep, EventsAreSentInOrder, PTL DEF Spec

-----------------------------------------------------------------------------
(***************************************************************************)
(* The retries.  An attempt is only ever made for an event whose sending   *)
(* has not ended: the worker meets each event once, because a call queues  *)
(* its event once.                                                         *)
(***************************************************************************)
Pending(e) == call[e] = "sending" \/ Queued(e) \/ sending = e

PendingOnce ==
    /\ \A e \in Events : call[e] = "new" => ~Pending(e) /\ result[e] = "none"
    /\ \A e \in Events : Pending(e) => result[e] = "none"
    /\ \A e \in AsyncEvents : call[e] # "sending"
    /\ \A i, k \in DOMAIN event_queue : event_queue[i] = event_queue[k] => i = k
    /\ \A i \in DOMAIN event_queue : event_queue[i] # sending

AttemptsBounded ==
    \A e \in Events :
        /\ result[e] = "none" => attempts[e] <= max_retries
        /\ attempts[e] <= max_retries + 1
        /\ result[e] = "given up" => attempts[e] = max_retries + 1

RetryInv == TypeInv /\ PendingOnce /\ AttemptsBounded

(* One attempt more stays within the bound, and reaches it when it is the last. *)
LEMMA SendKeepsBound ==
  ASSUME TypeInv, AttemptsBounded, NEW e \in Events, result[e] = "none",
         NEW res \in SendResults, send_notification(e, res), result' = [result EXCEPT ![e] = res]
  PROVE  AttemptsBounded'
<1>1. attempts \in [Events -> Nat] /\ result \in [Events -> SendResults] /\ max_retries \in Nat
  BY HttpNotifierAssumption DEF TypeInv, TypeOK
<1>2. attempts[e] <= max_retries
  BY DEF AttemptsBounded
<1>n. attempts[e] \in Nat
  BY <1>1
<1>s. attempts' = [attempts EXCEPT ![e] = @ + 1] \/ attempts' = attempts
  BY DEF send_notification
<1>o. attempts'[e] \in {attempts[e], attempts[e] + 1}
  BY <1>1, <1>s
<1>f. \A f \in Events \ {e} : attempts'[f] = attempts[f]
  BY <1>1, <1>s
<1>3. /\ attempts'[e] <= max_retries + 1
      /\ res = "none" => attempts'[e] <= max_retries
      /\ res = "given up" => attempts'[e] = max_retries + 1
  <2>1. attempts'[e] <= max_retries + 1
    BY <1>1, <1>2, <1>n, <1>o
  <2>2. ASSUME res \in {"none", "given up"}
        PROVE  /\ res = IF attempts[e] + 1 > max_retries THEN "given up" ELSE "none"
               /\ attempts'[e] = attempts[e] + 1
    <3>1. /\ res = IF attempts[e] + 1 > max_retries THEN "given up" ELSE "none"
          /\ attempts' = [attempts EXCEPT ![e] = @ + 1]
      BY <2>2 DEF send_notification, LastAttempt
    <3> QED
      BY <1>1, <3>1
  <2>3. ASSUME res = "none"
        PROVE  attempts'[e] <= max_retries
    <3>1. ~(attempts[e] + 1 > max_retries) /\ attempts'[e] = attempts[e] + 1
      BY <2>2, <2>3
    <3> QED
      BY <1>1, <1>n, <3>1
  <2>4. ASSUME res = "given up"
        PROVE  attempts'[e] = max_retries + 1
    <3>1. attempts[e] + 1 > max_retries /\ attempts'[e] = attempts[e] + 1
      BY <2>2, <2>4
    <3> QED
      BY <1>1, <1>2, <1>n, <3>1
  <2> QED
    BY <2>1, <2>3, <2>4
<1>4. \A f \in Events \ {e} : result'[f] = result[f]
  BY <1>1
<1>5. result'[e] = res
  BY <1>1
<1> SUFFICES ASSUME NEW f \in Events
             PROVE  /\ result'[f] = "none" => attempts'[f] <= max_retries
                    /\ attempts'[f] <= max_retries + 1
                    /\ result'[f] = "given up" => attempts'[f] = max_retries + 1
  BY DEF AttemptsBounded
<1>6. CASE f = e
  BY <1>3, <1>5, <1>6
<1>7. CASE f # e
  BY <1>f, <1>4, <1>7 DEF AttemptsBounded
<1> QED
  BY <1>6, <1>7

(* Every step keeps each pending event in one place and its attempts in bounds. *)
LEMMA RetryInvStep == RetryInv /\ [Next]_vars => RetryInv'
<1> SUFFICES ASSUME RetryInv, [Next]_vars
             PROVE  PendingOnce' /\ AttemptsBounded'
  BY TypeInvStep DEF RetryInv
<1>0. TypeInv /\ TypeOK /\ SendsWhatItHas /\ PendingOnce /\ AttemptsBounded
  BY DEF RetryInv, TypeInv
<1>h. /\ event_queue \in Seq(AsyncEvents) /\ sending \in AsyncEvents \cup {NoEvent}
      /\ result \in [Events -> SendResults] /\ call \in [Events -> {"new", "sending", "done"}]
  BY <1>0 DEF TypeOK
<1>e. NoEvent \notin Events /\ AsyncEvents \subseteq Events /\ SyncEvents \subseteq Events
      /\ AsyncEvents \cap SyncEvents = {}
  BY HttpNotifierAssumption DEF Events
<1>1. ASSUME UNCHANGED <<call, event_queue, sending, result, attempts>>
      PROVE  PendingOnce' /\ AttemptsBounded'
  BY <1>0, <1>1 DEF PendingOnce, Pending, Queued, AttemptsBounded
<1>2. CASE MainStep \/ ClearInitialized \/ TestInitialized
  BY <1>1, <1>2 DEF MainStep, StartWorker, StoreInitialized, ShutdownQueue, JoinWorker,
                    ClearInitialized, TestInitialized, queueVars, workerVars, sendVars
<1>3. ASSUME NEW then, NEW else, dequeue(then, else), UNCHANGED <<call, result, attempts>>,
             sending = NoEvent
      PROVE  PendingOnce' /\ AttemptsBounded'
  <2>1. CASE event_queue = <<>>
    BY <1>1, <1>3, <2>1 DEF dequeue
  <2>2. CASE event_queue # <<>>
    <3>1. sending' = Head(event_queue) /\ event_queue' = Tail(event_queue)
      BY <1>3, <2>2 DEF dequeue
    <3>2. /\ Len(event_queue) \in Nat \ {0}
          /\ DOMAIN event_queue = 1..Len(event_queue)
          /\ DOMAIN event_queue' = 1..(Len(event_queue) - 1)
          /\ \A i \in DOMAIN event_queue' : event_queue'[i] = event_queue[i + 1]
          /\ sending' = event_queue[1]
      BY <1>h, <2>2, <3>1, HeadTailProperties, LenProperties, EmptySeq
    <3>3. \A f : Queued(f)' \/ sending' = f => Queued(f)
      BY <3>2 DEF Queued
    <3>4. \A f : Pending(f)' => Pending(f)
      BY <1>3, <3>3 DEF Pending
    <3>5. \A i, k \in DOMAIN event_queue' : event_queue'[i] = event_queue'[k] => i = k
      BY <1>0, <3>2 DEF PendingOnce
    <3>6. \A i \in DOMAIN event_queue' : event_queue'[i] # sending'
      BY <1>0, <3>2 DEF PendingOnce
    <3> QED
      BY <1>0, <1>3, <3>4, <3>5, <3>6 DEF PendingOnce, AttemptsBounded
  <2> QED
    BY <2>1, <2>2
<1>4. CASE WorkerDequeue \/ DrainDequeue
  <2>1. sending = NoEvent
    BY <1>0, <1>4 DEF WorkerDequeue, DrainDequeue, SendsWhatItHas
  <2> QED
    BY <1>3, <1>4, <2>1 DEF WorkerDequeue, DrainDequeue, sendVars
<1>5. CASE WorkerSend
  <2>1. PICK res \in SendResults :
           /\ send_notification(sending, res)
           /\ result' = [result EXCEPT ![sending] = res]
           /\ IF res = "none" THEN UNCHANGED <<worker, sending, handled>>
              ELSE sending' = NoEvent
    BY <1>5 DEF WorkerSend
  <2>2. sending \in AsyncEvents /\ sending \in Events
    BY <1>0, <1>5, <1>h, <1>e DEF WorkerSend, SendsWhatItHas
  <2>3. result[sending] = "none" /\ ~Queued(sending) /\ call[sending] = "done"
    <3>1. Pending(sending)
      BY DEF Pending
    <3>2. call[sending] # "new" /\ call[sending] # "sending" /\ result[sending] = "none"
      BY <1>0, <2>2, <3>1 DEF PendingOnce
    <3>3. ~Queued(sending)
      BY <1>0 DEF PendingOnce, Queued
    <3> QED
      BY <1>h, <2>2, <3>2, <3>3
  <2>4. AttemptsBounded'
    BY <1>0, <2>1, <2>2, <2>3, SendKeepsBound
  <2>5. UNCHANGED <<call, event_queue>>
    BY <1>5 DEF WorkerSend, queueVars
  <2>6. \A f \in Events : f # sending => result'[f] = result[f]
    BY <1>h, <2>1, <2>2
  <2>7. sending' \in {sending, NoEvent} /\ (sending' = sending => res = "none")
    BY <1>e, <2>1, <2>2
  <2>8. \A f \in Events : Pending(f)' => Pending(f) /\ (f = sending => res = "none")
    BY <1>e, <2>3, <2>5, <2>7 DEF Pending, Queued
  <2>9. \A f \in Events : Pending(f)' => result'[f] = "none"
    BY <1>0, <1>h, <2>1, <2>2, <2>6, <2>8 DEF PendingOnce
  <2>10. \A f \in Events : call'[f] = "new" => ~Pending(f)' /\ result'[f] = "none"
    BY <1>0, <2>3, <2>5, <2>6, <2>8 DEF PendingOnce
  <2>11. \A i \in DOMAIN event_queue' : event_queue'[i] # sending'
    BY <1>0, <1>h, <1>e, <2>5, <2>7, ElementOfSeq, LenProperties DEF PendingOnce
  <2> QED
    BY <1>0, <2>4, <2>5, <2>9, <2>10, <2>11 DEF PendingOnce
<1>6. ASSUME NEW e \in AsyncEvents, notify_async(e)
      PROVE  PendingOnce' /\ AttemptsBounded'
  <2>1. /\ call[e] = "new" /\ call' = [call EXCEPT ![e] = "done"]
        /\ UNCHANGED <<sending, result, attempts>>
        /\ \/ UNCHANGED event_queue
           \/ event_queue' = Append(event_queue, e)
    BY <1>6 DEF notify_async, enqueue, queueVars, workerVars, sendVars
  <2>2. e \in Events /\ ~Queued(e) /\ sending # e /\ result[e] = "none"
    BY <1>0, <1>e, <2>1 DEF PendingOnce, Pending
  <2>3. AttemptsBounded'
    BY <1>0, <2>1 DEF AttemptsBounded
  <2>4. /\ \A f \in Events : f # e => call'[f] = call[f]
        /\ call'[e] = "done"
    BY <1>h, <2>1, <2>2
  <2>5. /\ \A f : f # e /\ Queued(f)' => Queued(f)
        /\ \A i, k \in DOMAIN event_queue' : event_queue'[i] = event_queue'[k] => i = k
        /\ \A i \in DOMAIN event_queue' : event_queue'[i] # sending
    <3>1. CASE UNCHANGED event_queue
      BY <1>0, <3>1 DEF PendingOnce, Queued
    <3>2. CASE event_queue' = Append(event_queue, e)
      <4>1. /\ Len(event_queue) \in Nat /\ DOMAIN event_queue = 1..Len(event_queue)
            /\ DOMAIN event_queue' = 1..(Len(event_queue) + 1)
            /\ \A i \in DOMAIN event_queue : event_queue'[i] = event_queue[i]
            /\ event_queue'[Len(event_queue) + 1] = e
        BY <1>h, <3>2, AppendProperties, LenProperties
      <4>2. \A i \in DOMAIN event_queue : event_queue[i] # e
        BY <2>2 DEF Queued
      <4>3. \A i \in DOMAIN event_queue' : i \in DOMAIN event_queue \/ i = Len(event_queue) + 1
        BY <4>1
      <4> QED
        BY <1>0, <2>2, <4>1, <4>2, <4>3 DEF PendingOnce, Queued
    <3> QED
      BY <2>1, <3>1, <3>2
  <2>6. \A f \in Events : f # e /\ Pending(f)' => Pending(f)
    BY <2>1, <2>4, <2>5 DEF Pending
  <2> QED
    BY <1>0, <2>1, <2>2, <2>3, <2>4, <2>5, <2>6, <1>e DEF PendingOnce
<1>7. ASSUME NEW e \in SyncEvents, notify_sync(e)
      PROVE  PendingOnce' /\ AttemptsBounded'
  <2>1. /\ call[e] = "new" /\ UNCHANGED <<sending, result, attempts, event_queue>>
        /\ \A f \in Events : f # e => call'[f] = call[f]
        /\ call'[e] \in {"done", "sending"}
    BY <1>7, <1>h, <1>e DEF notify_sync, queueVars, workerVars, sendVars
  <2>2. e \in Events /\ e \notin AsyncEvents /\ result[e] = "none"
    BY <1>0, <1>e, <2>1 DEF PendingOnce
  <2>3. \A f \in Events : f # e /\ Pending(f)' => Pending(f)
    BY <2>1 DEF Pending, Queued
  <2> QED
    BY <1>0, <1>e, <2>1, <2>2, <2>3 DEF PendingOnce, AttemptsBounded
<1>8. ASSUME NEW e \in SyncEvents, SyncSend(e)
      PROVE  PendingOnce' /\ AttemptsBounded'
  <2>1. PICK res \in SendResults :
           /\ send_notification(e, res)
           /\ result' = [result EXCEPT ![e] = res]
           /\ call' = [call EXCEPT ![e] = IF res = "none" THEN "sending" ELSE "done"]
    BY <1>8 DEF SyncSend
  <2>2. e \in Events /\ e \notin AsyncEvents /\ call[e] = "sending" /\ UNCHANGED <<event_queue, sending>>
    BY <1>8, <1>e DEF SyncSend, queueVars, workerVars
  <2>3. result[e] = "none"
    BY <1>0, <2>2 DEF PendingOnce, Pending
  <2>4. AttemptsBounded'
    BY <1>0, <2>1, <2>2, <2>3, SendKeepsBound
  <2>5. /\ \A f \in Events : f # e => call'[f] = call[f] /\ result'[f] = result[f]
        /\ result'[e] = res /\ call'[e] = IF res = "none" THEN "sending" ELSE "done"
    BY <1>h, <2>1, <2>2
  <2>6. \A f \in Events : f # e /\ Pending(f)' => Pending(f)
    BY <2>2, <2>5 DEF Pending, Queued
  <2>7. Pending(e)' => res = "none"
    <3>1. ~Queued(e) /\ sending # e
      BY <1>h, <1>e, <2>2, LenProperties, ElementOfSeq DEF Queued
    <3> QED
      BY <2>2, <2>5, <3>1 DEF Pending, Queued
  <2> QED
    BY <1>0, <1>e, <2>2, <2>4, <2>5, <2>6, <2>7 DEF PendingOnce
<1>9. CASE UNCHANGED vars
  BY <1>1, <1>9 DEF vars
<1> QED
  BY <1>2, <1>4, <1>5, <1>6, <1>7, <1>8, <1>9 DEF Next, WorkerStep

(***************************************************************************)
(* An event that the notifier gives up was tried max_retries + 1 times,    *)
(* and no event is ever tried more often, by the worker or by a handler.   *)
(***************************************************************************)
THEOREM RetriesAreBounded == Spec => []GivenUpAfterRetries
<1>1. Init => RetryInv
  <2> SUFFICES ASSUME Init
               PROVE  PendingOnce /\ AttemptsBounded
    BY TypeInvInit DEF RetryInv
  <2>1. max_retries \in Nat /\ NoEvent \notin Events /\ AsyncEvents \subseteq Events
    BY HttpNotifierAssumption DEF Events
  <2>2. DOMAIN event_queue = {}
    BY DEF Init
  <2> QED
    BY <2>1, <2>2 DEF Init, PendingOnce, Pending, Queued, AttemptsBounded
<1>2. RetryInv => GivenUpAfterRetries
  BY DEF RetryInv, AttemptsBounded, GivenUpAfterRetries
<1> QED
  BY <1>1, <1>2, RetryInvStep, PTL DEF Spec
=============================================================================
