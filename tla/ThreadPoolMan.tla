---------------------------- MODULE ThreadPoolMan ----------------------------
(***************************************************************************)
(* The worker pool of s3fs (threadpoolman.cpp).  Every S3 request of a     *)
(* FUSE handler is a thpoolman_param pushed on instruction_list and run by *)
(* one of the worker threads; thpoolman_sem counts the instructions, and   *)
(* the semaphore of the parameter tells the caller that its function has   *)
(* finished.                                                               *)
(*                                                                         *)
(* A job is one call of Instruct or AwaitInstruct together with the        *)
(* function it passes.  thread_list_lock is held for several steps only by *)
(* StopThreads; everybody else takes and drops it inside one action, whose *)
(* guard is LockFree.                                                      *)
(***************************************************************************)
EXTENDS Integers, Sequences, FiniteSets

CONSTANTS Workers,       \* the threads of thread_list
          Jobs,          \* the calls made while the pool lives
          AwaitJobs,     \* those made through AwaitInstruct
          NoJob,         \* the empty thpoolman_param of a worker
          MaxCurlErrors  \* bound on the failures of CreateCurlHandle

ASSUME WorkersAssumption == IsFiniteSet(Workers) /\ Workers # {}
ASSUME JobsAssumption == /\ IsFiniteSet(Jobs)
                         /\ AwaitJobs \subseteq Jobs
                         /\ NoJob \notin Jobs
ASSUME MaxCurlErrorsAssumption == MaxCurlErrors \in Nat

VARIABLES is_exit,           \* the atomic exit flag
          thpoolman_sem,     \* the value of the pool's semaphore
          instruction_list,  \* the queue of jobs
          worker,            \* where each worker thread is
          param,             \* the instruction a worker took
          call,              \* how far each call of (Await)Instruct is
          psem,              \* the value of the semaphore of each call
          runs,              \* how often the function of a job was run
          main,              \* the thread that creates and destroys the pool
          released           \* the posts StopThreads has made so far

vars == <<is_exit, thpoolman_sem, instruction_list, worker, param,
          call, psem, runs, main, released>>

workerVars == <<worker, param, runs>>
callVars   == <<call, psem>>
mainVars   == <<is_exit, main, released>>

(***************************************************************************)
(* "quit" is a worker that left the loop at its head, "broke" one that     *)
(* left it through a break, that is after it had taken a post of           *)
(* thpoolman_sem.                                                          *)
(***************************************************************************)
WorkerStates == {"unborn", "loop", "acquire", "woken", "get", "run", "quit", "broke"}
CallStates   == {"new", "pushed", "posted", "returned"}
MainStates   == {"starting", "up", "locked", "posting", "joining", "stopped"}

TypeOK ==
    /\ is_exit \in BOOLEAN
    /\ thpoolman_sem \in Nat
    /\ instruction_list \in Seq(Jobs)
    /\ worker \in [Workers -> WorkerStates]
    /\ param \in [Workers -> Jobs \cup {NoJob}]
    /\ call \in [Jobs -> CallStates]
    /\ psem \in [Jobs -> Nat]
    /\ runs \in [Jobs -> Nat]
    /\ main \in MainStates
    /\ released \in Nat

Init ==
    /\ is_exit = FALSE
    /\ thpoolman_sem = 0
    /\ instruction_list = <<>>
    /\ worker = [w \in Workers |-> "unborn"]
    /\ param = [w \in Workers |-> NoJob]
    /\ call = [j \in Jobs |-> "new"]
    /\ psem = [j \in Jobs |-> 0]
    /\ runs = [j \in Jobs |-> 0]
    /\ main = "starting"
    /\ released = 0

LockFree == main \notin {"locked", "posting", "joining"}

(***************************************************************************)
(* The main thread: the constructor starts the threads one by one, and     *)
(* they run at once; Initialize then publishes the singleton.              *)
(***************************************************************************)
StartThread(w) ==
    /\ main = "starting"
    /\ worker[w] = "unborn"
    /\ worker' = [worker EXCEPT ![w] = "loop"]
    /\ UNCHANGED <<thpoolman_sem, instruction_list, param, runs, callVars, mainVars>>

Initialize ==
    /\ main = "starting"
    /\ \A w \in Workers : worker[w] # "unborn"
    /\ main' = "up"
    /\ UNCHANGED <<thpoolman_sem, instruction_list, workerVars, callVars, is_exit, released>>

(***************************************************************************)
(* The callers.  SetInstruction pushes under the lock and posts after it;  *)
(* Instruct returns then, AwaitInstruct waits on its local semaphore.      *)
(***************************************************************************)
PushInstruction(j) ==
    /\ main = "up"
    /\ call[j] = "new"
    /\ instruction_list' = Append(instruction_list, j)
    /\ call' = [call EXCEPT ![j] = "pushed"]
    /\ UNCHANGED <<thpoolman_sem, psem, workerVars, mainVars>>

(* Mutant: a post is taken for superfluous while another one is pending. *)
PostIfZero(j) ==
    /\ call[j] = "pushed"
    /\ thpoolman_sem' = IF thpoolman_sem = 0 THEN 1 ELSE thpoolman_sem
    /\ call' = [call EXCEPT ![j] = IF j \in AwaitJobs THEN "posted" ELSE "returned"]
    /\ UNCHANGED <<instruction_list, psem, workerVars, mainVars>>

PostInstruction(j) ==
    /\ call[j] = "pushed"
    /\ thpoolman_sem' = thpoolman_sem + 1
    /\ call' = [call EXCEPT ![j] = IF j \in AwaitJobs THEN "posted" ELSE "returned"]
    /\ UNCHANGED <<instruction_list, psem, workerVars, mainVars>>

(* Mutant: AwaitInstruct does not wait for its semaphore. *)
AwaitReturnAtOnce(j) ==
    /\ call[j] = "posted"
    /\ call' = [call EXCEPT ![j] = "returned"]
    /\ UNCHANGED <<thpoolman_sem, instruction_list, psem, workerVars, mainVars>>

AwaitReturn(j) ==
    /\ call[j] = "posted"
    /\ psem[j] > 0
    /\ psem' = [psem EXCEPT ![j] = @ - 1]
    /\ call' = [call EXCEPT ![j] = "returned"]
    /\ UNCHANGED <<thpoolman_sem, instruction_list, workerVars, mainVars>>

(***************************************************************************)
(* The worker thread.                                                      *)
(***************************************************************************)
LoopHead(w) ==
    /\ worker[w] = "loop"
    /\ worker' = [worker EXCEPT ![w] = IF is_exit THEN "quit" ELSE "acquire"]
    /\ UNCHANGED <<thpoolman_sem, instruction_list, param, runs, callVars, mainVars>>

(* Mutant: the semaphore is decremented without waiting for it. *)
AcquireNothing(w) ==
    /\ worker[w] = "acquire"
    /\ thpoolman_sem' = thpoolman_sem - 1
    /\ worker' = [worker EXCEPT ![w] = "woken"]
    /\ UNCHANGED <<instruction_list, param, runs, callVars, mainVars>>

Acquire(w) ==
    /\ worker[w] = "acquire"
    /\ thpoolman_sem > 0
    /\ thpoolman_sem' = thpoolman_sem - 1
    /\ worker' = [worker EXCEPT ![w] = "woken"]
    /\ UNCHANGED <<instruction_list, param, runs, callVars, mainVars>>

(* Mutant: the second test of the exit flag is missing. *)
CheckExitDropped(w) ==
    /\ worker[w] = "woken"
    /\ worker' = [worker EXCEPT ![w] = "get"]
    /\ UNCHANGED <<thpoolman_sem, instruction_list, param, runs, callVars, mainVars>>

(* The second test of the exit flag, and CreateCurlHandle succeeding. *)
CheckExit(w) ==
    /\ worker[w] = "woken"
    /\ worker' = [worker EXCEPT ![w] = IF is_exit THEN "broke" ELSE "get"]
    /\ UNCHANGED <<thpoolman_sem, instruction_list, param, runs, callVars, mainVars>>

Broken == {w \in Workers : worker[w] = "broke"}

(* CreateCurlHandle fails: the thread ends, its post and the instruction stay. *)
CurlHandleError(w) ==
    /\ worker[w] = "woken"
    /\ ~is_exit
    /\ Cardinality(Broken) < MaxCurlErrors
    /\ worker' = [worker EXCEPT ![w] = "broke"]
    /\ UNCHANGED <<thpoolman_sem, instruction_list, param, runs, callVars, mainVars>>

(* Mutant: the instruction is read but not removed from the list. *)
GetWithoutPop(w) ==
    /\ worker[w] = "get"
    /\ LockFree
    /\ instruction_list # <<>>
    /\ worker' = [worker EXCEPT ![w] = "run"]
    /\ param' = [param EXCEPT ![w] = Head(instruction_list)]
    /\ UNCHANGED <<instruction_list, thpoolman_sem, runs, callVars, mainVars>>

GetInstruction(w) ==
    /\ worker[w] = "get"
    /\ LockFree
    /\ IF instruction_list = <<>>
       THEN /\ worker' = [worker EXCEPT ![w] = "loop"]
            /\ UNCHANGED <<instruction_list, param>>
       ELSE /\ worker' = [worker EXCEPT ![w] = "run"]
            /\ param' = [param EXCEPT ![w] = Head(instruction_list)]
            /\ instruction_list' = Tail(instruction_list)
    /\ UNCHANGED <<thpoolman_sem, runs, callVars, mainVars>>

(* The function has returned; the caller's semaphore is posted. *)
RunFunction(w) ==
    /\ worker[w] = "run"
    /\ runs' = [runs EXCEPT ![param[w]] = @ + 1]
    /\ psem' = [psem EXCEPT ![param[w]] = @ + 1]
    /\ param' = [param EXCEPT ![w] = NoJob]
    /\ worker' = [worker EXCEPT ![w] = "loop"]
    /\ UNCHANGED <<thpoolman_sem, instruction_list, call, mainVars>>

(***************************************************************************)
(* Destroy, called by s3fs_destroy when the FUSE loop and with it every    *)
(* caller has returned.  Jobs that were only Instructed may be queued or   *)
(* running still: the parts of a stream upload nobody has flushed.         *)
(***************************************************************************)
StopLock ==
    /\ main = "up"
    /\ \A j \in Jobs : call[j] \in {"new", "returned"}
    /\ main' = "locked"
    /\ UNCHANGED <<thpoolman_sem, instruction_list, workerVars, callVars, is_exit, released>>

SetExitFlag ==
    /\ main = "locked"
    /\ is_exit' = TRUE
    /\ main' = "posting"
    /\ UNCHANGED <<thpoolman_sem, instruction_list, workerVars, callVars, released>>

(* Mutant: one post, as if it woke every waiting thread. *)
StopPostOnce ==
    /\ main = "posting"
    /\ thpoolman_sem' = thpoolman_sem + 1
    /\ released' = released + 1
    /\ main' = "joining"
    /\ UNCHANGED <<instruction_list, workerVars, callVars, is_exit>>

StopPost ==
    /\ main = "posting"
    /\ thpoolman_sem' = thpoolman_sem + 1
    /\ released' = released + 1
    /\ main' = IF released' = Cardinality(Workers) THEN "joining" ELSE "posting"
    /\ UNCHANGED <<instruction_list, workerVars, callVars, is_exit>>

(* Every thread joined, the list cleared, the semaphore drained, the lock dropped. *)
StopJoined ==
    /\ main = "joining"
    /\ \A w \in Workers : worker[w] \in {"quit", "broke"}
    /\ thpoolman_sem' = 0
    /\ main' = "stopped"
    /\ UNCHANGED <<instruction_list, workerVars, callVars, is_exit, released>>

WorkerStep(w) ==
    \/ LoopHead(w)
    \/ Acquire(w)
    \/ CheckExit(w)
    \/ CurlHandleError(w)
    \/ GetInstruction(w)
    \/ RunFunction(w)

CallStep(j) ==
    \/ PostInstruction(j)
    \/ AwaitReturn(j)

StopStep ==
    \/ SetExitFlag
    \/ StopPost
    \/ StopJoined

Next ==
    \/ Initialize
    \/ StopLock
    \/ StopStep
    \/ \E w \in Workers : StartThread(w) \/ WorkerStep(w)
    \/ \E j \in Jobs : PushInstruction(j) \/ CallStep(j)

Spec == Init /\ [][Next]_vars

(***************************************************************************)
(* Threads are scheduled: a step a thread can take for ever is taken, the  *)
(* functions return, and a worker that waits for thpoolman_sem is served   *)
(* when posts keep coming.  New calls and Destroy are never forced.        *)
(***************************************************************************)
Fairness ==
    /\ \A w \in Workers : WF_vars(StartThread(w)) /\ WF_vars(WorkerStep(w))
    /\ \A j \in Jobs : WF_vars(CallStep(j))
    /\ WF_vars(Initialize)
    /\ WF_vars(StopStep)

FairSpec == Spec /\ Fairness

-----------------------------------------------------------------------------
Executing(j) == {w \in Workers : worker[w] = "run" /\ param[w] = j}

Queued(j) == {i \in DOMAIN instruction_list : instruction_list[i] = j}

(***************************************************************************)
(* Every instruction that SetInstruction accepted is in exactly one place: *)
(* once in the queue, or in the hands of one worker, or run once.  No      *)
(* interleaving of callers, workers, failing workers and StopThreads loses *)
(* it or runs it twice.                                                    *)
(***************************************************************************)
InstructionConserved ==
    \A j \in Jobs :
        Cardinality(Queued(j)) + Cardinality(Executing(j)) + runs[j]
            = (IF call[j] = "new" THEN 0 ELSE 1)

(***************************************************************************)
(* A worker that got past the second exit test finds an instruction: the   *)
(* branch "Got a semaphore, but the instruction is empty" of Worker is     *)
(* never taken, although the post comes after the push and StopThreads     *)
(* posts without pushing.                                                  *)
(***************************************************************************)
NoEmptyWakeup ==
    \A w \in Workers : worker[w] = "get" => instruction_list # <<>>

(***************************************************************************)
(* AwaitInstruct returns only after the function it passed was run to its  *)
(* end, although it waits on a semaphore on its own stack.                 *)
(***************************************************************************)
AwaitAfterRun ==
    \A j \in AwaitJobs : call[j] = "returned" => runs[j] = 1 /\ psem[j] = 0

(***************************************************************************)
(* The posts of thpoolman_sem are accounted for: each belongs to a queued  *)
(* instruction whose caller has posted, or was made by StopThreads, until  *)
(* a worker takes it.                                                      *)
(***************************************************************************)
Holding == {w \in Workers : worker[w] \in {"woken", "get", "broke"}}
Getting == {w \in Workers : worker[w] = "get"}
Pushing == {j \in Jobs : call[j] = "pushed"}

PostsAccounted ==
    /\ main # "stopped" =>
          Len(instruction_list) + released
              = thpoolman_sem + Cardinality(Holding) + Cardinality(Pushing)
    /\ Cardinality(Getting) + Cardinality(Pushing) <= Len(instruction_list)

(***************************************************************************)
(* "wait until the thread is complete": every AwaitInstruct returns, as    *)
(* long as no worker dies of a curl error with the post it took.           *)
(***************************************************************************)
AwaitReturns ==
    \A j \in AwaitJobs : call[j] = "posted" ~> (call[j] = "returned" \/ Broken # {})

(***************************************************************************)
(* Destroying a pool with nothing queued or running joins all its threads. *)
(***************************************************************************)
Idle ==
    /\ instruction_list = <<>>
    /\ \A w \in Workers : worker[w] \in {"loop", "acquire", "broke"}

QuiescentStopTerminates ==
    (main = "locked" /\ Idle) ~> (main = "stopped")
=============================================================================
