---------------------------- MODULE HttpNotifier ----------------------------
(***************************************************************************)
(* The notifications of file operations (extension/http_notifier.cpp,      *)
(* extension/notification_queue.cpp).  FUSE handlers put events into a     *)
(* queue that one worker thread empties by HTTP requests; the creation of  *)
(* a file sends its event in the thread of the handler instead.            *)
(*                                                                         *)
(* An event is one call of notify_file_operation_async or ..._sync.  Both  *)
(* are made by FUSE handlers, which run after s3fs_init has returned and   *)
(* have ended before s3fs_destroy is called.  Operations under queue_mutex *)
(* are one action each.                                                    *)
(***************************************************************************)
EXTENDS Integers, Sequences, FiniteSets, SequencesExt

CONSTANTS AsyncEvents,   \* the calls of notify_file_operation_async
          SyncEvents,    \* the calls of notify_file_operation_sync
          Path,          \* the path of each event, as a sequence of names
          exclude_paths, \* the paths of the option http_notify_exclude_path
          max_retries,   \* how often a request is repeated
          MaxFailures,   \* bound on the requests that fail
          NoEvent

Events == AsyncEvents \cup SyncEvents

ASSUME HttpNotifierAssumption ==
    /\ IsFiniteSet(Events)
    /\ AsyncEvents \cap SyncEvents = {}
    /\ NoEvent \notin Events
    /\ max_retries \in Nat /\ MaxFailures \in Nat

VARIABLES initialized,   \* the atomic flag of HttpNotifier
          shutdown_flag, \* the flag of NotificationQueue
          event_queue,
          main,          \* s3fs_init and s3fs_destroy
          worker,        \* where worker_loop is
          sending,       \* the event the worker sends
          call,          \* how far the call of a handler is
          attempts,      \* the requests made for an event
          result,        \* how the sending of an event ended
          accepted,      \* the events the queue took, in their order
          handled,       \* the events the worker has done with, in their order
          missed,        \* the worker left its loop before it was let in
          failures

vars == <<initialized, shutdown_flag, event_queue, main, worker, sending, call,
          attempts, result, accepted, handled, missed, failures>>

mainVars   == <<initialized, shutdown_flag, main>>
queueVars  == <<event_queue, accepted>>
workerVars == <<worker, sending, handled, missed>>
sendVars   == <<attempts, result, failures>>

Init ==
    /\ initialized = FALSE /\ shutdown_flag = FALSE
    /\ event_queue = <<>> /\ accepted = <<>> /\ handled = <<>>
    /\ main = "starting"
    /\ worker = "unborn" /\ sending = NoEvent /\ missed = FALSE
    /\ call = [e \in Events |-> "new"]
    /\ attempts = [e \in Events |-> 0]
    /\ result = [e \in Events |-> "none"]
    /\ failures = 0

-----------------------------------------------------------------------------
(* initialize: the worker thread is started, then the flag it looks at is set. *)
StartWorker ==
    /\ main = "starting"
    /\ main' = "spawned"
    /\ worker' = "loop"
    /\ UNCHANGED <<initialized, shutdown_flag, queueVars, sending, handled, missed, call, sendVars>>

StoreInitialized ==
    /\ main = "spawned"
    /\ main' = "up"
    /\ initialized' = TRUE
    /\ UNCHANGED <<shutdown_flag, queueVars, workerVars, call, sendVars>>

(* shutdown, once the last handler has returned. *)
ClearInitialized ==
    /\ main = "up"
    /\ initialized
    /\ \A e \in Events : call[e] # "sending"
    /\ main' = "cleared"
    /\ initialized' = FALSE
    /\ UNCHANGED <<shutdown_flag, queueVars, workerVars, call, sendVars>>

ShutdownQueue ==
    /\ main = "cleared"
    /\ main' = "joining"
    /\ shutdown_flag' = TRUE
    /\ UNCHANGED <<initialized, queueVars, workerVars, call, sendVars>>

JoinWorker ==
    /\ main = "joining"
    /\ worker = "stopped"
    /\ main' = "stopped"
    /\ UNCHANGED <<initialized, shutdown_flag, queueVars, workerVars, call, sendVars>>

-----------------------------------------------------------------------------
(* An excluded path, or one below it; the root stands for itself only. *)
should_exclude_notification(path) ==
    \E x \in exclude_paths : path = x \/ (x # <<>> /\ IsStrictPrefix(x, path))

(* Mutant: a notification is put in front of the queue. *)
EnqueueFirst(e) == event_queue' = <<e>> \o event_queue /\ accepted' = Append(accepted, e)

enqueue(e) ==
    IF shutdown_flag THEN UNCHANGED queueVars
    ELSE event_queue' = Append(event_queue, e) /\ accepted' = Append(accepted, e)

notify_async(e) ==
    /\ main = "up"
    /\ call[e] = "new"
    /\ call' = [call EXCEPT ![e] = "done"]
    /\ IF should_exclude_notification(Path[e]) \/ ~initialized THEN UNCHANGED queueVars
       ELSE enqueue(e)
    /\ UNCHANGED <<mainVars, workerVars, sendVars>>

(* Mutant: the creation of a file is queued like every other event. *)
NotifySyncQueued(e) ==
    /\ main = "up"
    /\ call[e] = "new"
    /\ call' = [call EXCEPT ![e] = "done"]
    /\ IF should_exclude_notification(Path[e]) \/ ~initialized THEN UNCHANGED queueVars
       ELSE enqueue(e)
    /\ UNCHANGED <<mainVars, workerVars, sendVars>>

(* notify_file_operation_sync sends in the thread of the handler. *)
notify_sync(e) ==
    /\ main = "up"
    /\ call[e] = "new"
    /\ call' = [call EXCEPT ![e] = IF should_exclude_notification(Path[e]) \/ ~initialized
                                   THEN "done" ELSE "sending"]
    /\ UNCHANGED <<mainVars, queueVars, workerVars, sendVars>>

-----------------------------------------------------------------------------
(***************************************************************************)
(* send_notification.  Its ways to end are "sent", "given up" after the    *)
(* last attempt, and "no handle"; a request that fails before leads to the *)
(* next attempt, "none".                                                   *)
(***************************************************************************)
(* Mutant: one attempt too few. *)
LastAttemptEarly(e) == attempts[e] + 1 >= max_retries

LastAttempt(e) == attempts[e] + 1 > max_retries

send_notification(e, res) ==
    \/ /\ res = "sent"
       /\ attempts' = [attempts EXCEPT ![e] = @ + 1]
       /\ UNCHANGED failures
    \/ /\ res = IF LastAttempt(e) THEN "given up" ELSE "none"
       /\ failures < MaxFailures
       /\ failures' = failures + 1
       /\ attempts' = [attempts EXCEPT ![e] = @ + 1]
    \/ /\ res = "no handle"
       /\ attempts[e] = 0
       /\ failures < MaxFailures
       /\ failures' = failures + 1
       /\ UNCHANGED attempts

SendResults == {"none", "sent", "given up", "no handle"}

SyncSend(e) ==
    /\ call[e] = "sending"
    /\ \E res \in SendResults :
          /\ send_notification(e, res)
          /\ result' = [result EXCEPT ![e] = res]
          /\ call' = [call EXCEPT ![e] = IF res = "none" THEN "sending" ELSE "done"]
    /\ UNCHANGED <<mainVars, queueVars, workerVars>>

-----------------------------------------------------------------------------
(***************************************************************************)
(* worker_loop: while the flag is set events are taken with a timeout, and *)
(* the rest is taken before the thread ends.                               *)
(***************************************************************************)
(* Mutant: what is left in the queue is not sent. *)
TestInitializedNoDrain ==
    /\ worker = "loop"
    /\ worker' = IF initialized THEN "dequeue" ELSE "stopped"
    /\ missed' = (missed \/ (main = "spawned" /\ ~initialized))
    /\ UNCHANGED <<mainVars, queueVars, sending, handled, call, sendVars>>

TestInitialized ==
    /\ worker = "loop"
    /\ worker' = IF initialized THEN "dequeue" ELSE "drain"
    /\ missed' = (missed \/ (main = "spawned" /\ ~initialized))
    /\ UNCHANGED <<mainVars, queueVars, sending, handled, call, sendVars>>

dequeue(then, else) ==
    IF event_queue # <<>>
    THEN /\ sending' = Head(event_queue)
         /\ event_queue' = Tail(event_queue)
         /\ worker' = then
    ELSE /\ worker' = else
         /\ UNCHANGED <<sending, event_queue>>

(* Mutant: an empty queue is waited for without a timeout and without the flag. *)
WorkerDequeueForEver ==
    /\ worker = "dequeue"
    /\ event_queue # <<>>
    /\ dequeue("send", "loop")
    /\ UNCHANGED <<mainVars, accepted, handled, missed, call, sendVars>>

(* Mutant: the worker waits for the shutdown only. *)
WorkerDequeueAtShutdown ==
    /\ worker = "dequeue"
    /\ shutdown_flag
    /\ dequeue("send", "loop")
    /\ UNCHANGED <<mainVars, accepted, handled, missed, call, sendVars>>

WorkerDequeue ==
    /\ worker = "dequeue"
    /\ dequeue("send", "loop")
    /\ UNCHANGED <<mainVars, accepted, handled, missed, call, sendVars>>

DrainDequeue ==
    /\ worker = "drain"
    /\ dequeue("drain_send", "stopped")
    /\ UNCHANGED <<mainVars, accepted, handled, missed, call, sendVars>>

WorkerSend ==
    /\ worker \in {"send", "drain_send"}
    /\ \E res \in SendResults :
          /\ send_notification(sending, res)
          /\ result' = [result EXCEPT ![sending] = res]
          /\ IF res = "none" THEN UNCHANGED <<worker, sending, handled>>
             ELSE /\ worker' = IF worker = "send" THEN "loop" ELSE "drain"
                  /\ sending' = NoEvent
                  /\ handled' = Append(handled, sending)
    /\ UNCHANGED <<mainVars, queueVars, missed, call>>

-----------------------------------------------------------------------------
WorkerStep == TestInitialized \/ WorkerDequeue \/ DrainDequeue \/ WorkerSend

MainStep == StartWorker \/ StoreInitialized \/ ShutdownQueue \/ JoinWorker

Next ==
    \/ MainStep
    \/ ClearInitialized
    \/ WorkerStep
    \/ \E e \in AsyncEvents : notify_async(e)
    \/ \E e \in SyncEvents : notify_sync(e) \/ SyncSend(e)

Spec == Init /\ [][Next]_vars

(***************************************************************************)
(* The threads run, and a request ends by the timeout of curl.  Handlers   *)
(* and the unmount are never forced.                                       *)
(***************************************************************************)
FairSpec ==
    /\ Spec
    /\ WF_vars(MainStep) /\ WF_vars(WorkerStep)
    /\ \A e \in SyncEvents : WF_vars(SyncSend(e))

-----------------------------------------------------------------------------
TypeOK ==
    /\ initialized \in BOOLEAN /\ shutdown_flag \in BOOLEAN /\ missed \in BOOLEAN
    /\ event_queue \in Seq(AsyncEvents)
    /\ accepted \in Seq(AsyncEvents) /\ handled \in Seq(AsyncEvents)
    /\ main \in {"starting", "spawned", "up", "cleared", "joining", "stopped"}
    /\ worker \in {"unborn", "loop", "dequeue", "send", "drain", "drain_send", "stopped"}
    /\ sending \in AsyncEvents \cup {NoEvent}
    /\ call \in [Events -> {"new", "sending", "done"}]
    /\ attempts \in [Events -> Nat]
    /\ result \in [Events -> SendResults]
    /\ failures \in Nat

(***************************************************************************)
(* The worker sends the events in the order in which the handlers queued   *)
(* them, none twice and none left out: whatever the interleaving, what was *)
(* accepted is what the worker has done with, has in hand and has to do.   *)
(***************************************************************************)
InHand == IF sending = NoEvent THEN <<>> ELSE <<sending>>

SentInOrder == accepted = handled \o InHand \o event_queue

(***************************************************************************)
(* An event is given up after max_retries repetitions and not before.      *)
(***************************************************************************)
GivenUpAfterRetries ==
    \A e \in Events :
        /\ attempts[e] <= max_retries + 1
        /\ result[e] = "given up" => attempts[e] = max_retries + 1

(***************************************************************************)
(* "Process remaining events": an unmount that has joined the worker       *)
(* leaves no event behind, unless the worker missed its start.             *)
(***************************************************************************)
ShutdownDrains == main = "stopped" /\ ~missed => handled = accepted

Queued(e)  == \E i \in DOMAIN event_queue : event_queue[i] = e
Handled(e) == \E i \in DOMAIN handled : handled[i] = e

(***************************************************************************)
(* A queued event is sent or given up in the end, unless the worker missed *)
(* its start.                                                              *)
(***************************************************************************)
QueuedEventHandledUnlessMissed == \A e \in AsyncEvents : Queued(e) ~> (Handled(e) \/ missed)

(* The unmount ends: the worker is joined. *)
ShutdownTerminates == (main = "cleared") ~> (main = "stopped")
=============================================================================
