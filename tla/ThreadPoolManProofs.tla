------------------------- MODULE ThreadPoolManProofs -------------------------
(***************************************************************************)
(* Proofs about ThreadPoolMan, for any number of workers, calls and        *)
(* failures of CreateCurlHandle.                                           *)
(***************************************************************************)
EXTENDS ThreadPoolMan, FiniteSetTheorems, TLAPS

USE DEF WorkerStates, CallStates, MainStates

-----------------------------------------------------------------------------
(***************************************************************************)
(* Type correctness.  RunFunction and AwaitReturn need more than types: a  *)
(* worker that runs holds a job, and a semaphore is acquired above zero.   *)
(***************************************************************************)
RunningHasJob == \A w \in Workers : worker[w] = "run" => param[w] \in Jobs

TypeInv == TypeOK /\ RunningHasJob

(* The pool as the constructor leaves it is well typed. *)
LEMMA TypeInvInit == Init => TypeInv
<1> SUFFICES ASSUME Init
             PROVE  TypeInv
  OBVIOUS
<1>1. is_exit \in BOOLEAN
  BY DEF Init
<1>2. instruction_list \in Seq(Jobs)
  BY DEF Init
<1>3. worker \in [Workers -> WorkerStates] /\ param \in [Workers -> Jobs \cup {NoJob}]
  BY DEF Init
<1>4. call \in [Jobs -> CallStates] /\ psem \in [Jobs -> Nat] /\ runs \in [Jobs -> Nat]
  BY DEF Init
<1>5. RunningHasJob
  BY DEF Init, RunningHasJob
<1> QED
  BY <1>1, <1>2, <1>3, <1>4, <1>5 DEF Init, TypeInv, TypeOK

(* Every step of the pool preserves the types, with the semaphore a natural. *)
LEMMA TypeInvStep == TypeInv /\ [Next]_vars => TypeInv'
<1> SUFFICES ASSUME TypeInv, [Next]_vars
             PROVE  TypeInv'
  OBVIOUS
<1> USE JobsAssumption DEF TypeInv, TypeOK, RunningHasJob, workerVars, callVars, mainVars
<1>1. CASE Initialize
  BY <1>1 DEF Initialize
<1>2. CASE StopLock
  BY <1>2 DEF StopLock
<1>3. CASE SetExitFlag
  BY <1>3 DEF SetExitFlag
<1>4. CASE StopPost
  BY <1>4 DEF StopPost
<1>5. CASE StopJoined
  BY <1>5 DEF StopJoined
<1>6. ASSUME NEW w \in Workers, StartThread(w)
      PROVE  TypeInv'
  BY <1>6 DEF StartThread
<1>7. ASSUME NEW w \in Workers, LoopHead(w)
      PROVE  TypeInv'
  BY <1>7 DEF LoopHead
<1>8. ASSUME NEW w \in Workers, Acquire(w)
      PROVE  TypeInv'
  BY <1>8 DEF Acquire
<1>9. ASSUME NEW w \in Workers, CheckExit(w)
      PROVE  TypeInv'
  BY <1>9 DEF CheckExit
<1>10. ASSUME NEW w \in Workers, CurlHandleError(w)
       PROVE  TypeInv'
  BY <1>10 DEF CurlHandleError
<1>11. ASSUME NEW w \in Workers, GetInstruction(w)
       PROVE  TypeInv'
  <2>1. CASE instruction_list = <<>>
    BY <1>11, <2>1 DEF GetInstruction
  <2>2. CASE instruction_list # <<>>
    <3>1. Head(instruction_list) \in Jobs /\ Tail(instruction_list) \in Seq(Jobs)
      BY <2>2
    <3> QED
      BY <1>11, <2>2, <3>1 DEF GetInstruction
  <2> QED
    BY <2>1, <2>2
<1>12. ASSUME NEW w \in Workers, RunFunction(w)
       PROVE  TypeInv'
  BY <1>12 DEF RunFunction
<1>13. ASSUME NEW j \in Jobs, PushInstruction(j)
       PROVE  TypeInv'
  BY <1>13 DEF PushInstruction
<1>14. ASSUME NEW j \in Jobs, PostInstruction(j)
       PROVE  TypeInv'
  BY <1>14 DEF PostInstruction
<1>15. ASSUME NEW j \in Jobs, AwaitReturn(j)
       PROVE  TypeInv'
  BY <1>15 DEF AwaitReturn
<1>16. CASE UNCHANGED vars
  BY <1>16 DEF vars
<1> QED
  BY <1>1, <1>2, <1>3, <1>4, <1>5, <1>6, <1>7, <1>8, <1>9, <1>10, <1>11,
     <1>12, <1>13, <1>14, <1>15, <1>16
     DEF Next, WorkerStep, CallStep, StopStep

(***************************************************************************)
(* The variables of the pool always have their types; in particular no     *)
(* semaphore goes below zero.                                              *)
(***************************************************************************)
THEOREM TypeCorrect == Spec => []TypeOK
<1>1. TypeInv => TypeOK
  BY DEF TypeInv
<1> QED
  BY <1>1, TypeInvInit, TypeInvStep, PTL DEF Spec

-----------------------------------------------------------------------------
(***************************************************************************)
(* The accounting of posts.  PostsAccounted alone is not inductive: that a *)
(* worker passing the exit test holds a caller's post needs that           *)
(* StopThreads has posted nothing before it raised the flag.               *)
(***************************************************************************)
FlagBeforePosts ==
    /\ is_exit <=> main \in {"posting", "joining", "stopped"}
    /\ ~is_exit => released = 0

PostsInv == TypeInv /\ FlagBeforePosts /\ PostsAccounted

(* The sets whose sizes the accounting of posts compares are finite. *)
LEMMA FiniteViews ==
  /\ IsFiniteSet(Holding) /\ Cardinality(Holding) \in Nat
  /\ IsFiniteSet(Getting) /\ Cardinality(Getting) \in Nat
  /\ IsFiniteSet(Pushing) /\ Cardinality(Pushing) \in Nat
<1>1. Holding \in SUBSET Workers /\ Getting \in SUBSET Workers
  BY DEF Holding, Getting
<1>2. Pushing \in SUBSET Jobs
  BY DEF Pushing
<1> QED
  BY <1>1, <1>2, WorkersAssumption, JobsAssumption, FS_Subset, FS_CardinalityType

(* The constructor leaves the semaphore, the queue and the workers in balance. *)
LEMMA PostsInvInit == Init => PostsInv
<1> SUFFICES ASSUME Init
             PROVE  PostsInv
  OBVIOUS
<1>1. Holding = {} /\ Getting = {} /\ Pushing = {}
  BY DEF Init, Holding, Getting, Pushing
<1>2. Len(instruction_list) = 0
  BY DEF Init
<1> QED
  BY <1>1, <1>2, FS_EmptySet, TypeInvInit DEF Init, PostsInv, FlagBeforePosts, PostsAccounted

(* Every push, post, acquire, pop and exit post keeps the semaphore in balance
   with the queue. *)
LEMMA PostsInvStep == PostsInv /\ [Next]_vars => PostsInv'
<1> SUFFICES ASSUME PostsInv, [Next]_vars
             PROVE  PostsInv'
  OBVIOUS
<1>0. TypeInv'
  BY TypeInvStep DEF PostsInv
<1>00. Len(instruction_list) \in Nat
  BY DEF PostsInv, TypeInv, TypeOK
<1> USE <1>00, FiniteViews DEF PostsInv, TypeInv, TypeOK
<1> USE DEF FlagBeforePosts, PostsAccounted, workerVars, callVars, mainVars
<1>1. CASE UNCHANGED worker /\ UNCHANGED call /\ (Initialize \/ StopLock \/ StopStep)
  <2>1. UNCHANGED <<Holding, Getting, Pushing>>
    BY <1>1 DEF Holding, Getting, Pushing
  <2>2. CASE Initialize
    BY <1>0, <2>1, <2>2 DEF Initialize
  <2>3. CASE StopLock
    BY <1>0, <2>1, <2>3 DEF StopLock
  <2>4. CASE SetExitFlag
    BY <1>0, <2>1, <2>4 DEF SetExitFlag
  <2>5. CASE StopPost
    <3>1. FlagBeforePosts'
      BY <2>5 DEF StopPost
    <3>2. /\ main # "stopped"
          /\ thpoolman_sem' = thpoolman_sem + 1
          /\ released' = released + 1
          /\ UNCHANGED instruction_list
      BY <2>5 DEF StopPost
    <3>3. PostsAccounted'
      BY <2>1, <3>2, SMTT(30)
    <3> QED
      BY <1>0, <3>1, <3>3
  <2>6. CASE StopJoined
    BY <1>0, <2>1, <2>6 DEF StopJoined
  <2> QED
    BY <1>1, <2>2, <2>3, <2>4, <2>5, <2>6 DEF StopStep
<1>2. ASSUME NEW w \in Workers, StartThread(w) \/ LoopHead(w) \/ RunFunction(w)
      PROVE  PostsInv'
  <2>1. UNCHANGED <<Holding, Getting, Pushing>>
    BY <1>2 DEF StartThread, LoopHead, RunFunction, Holding, Getting, Pushing
  <2> QED
    BY <1>0, <1>2, <2>1 DEF StartThread, LoopHead, RunFunction
<1>3. ASSUME NEW w \in Workers, Acquire(w)
      PROVE  PostsInv'
  <2>1. Holding' = Holding \cup {w} /\ w \notin Holding
    BY <1>3 DEF Acquire, Holding
  <2>2. UNCHANGED <<Getting, Pushing>>
    BY <1>3 DEF Acquire, Getting, Pushing
  <2>3. Cardinality(Holding') = Cardinality(Holding) + 1
    BY <2>1, FS_AddElement
  <2> QED
    BY <1>0, <1>3, <2>2, <2>3, SMTT(30) DEF Acquire
<1>4. ASSUME NEW w \in Workers, CheckExit(w) \/ CurlHandleError(w), worker'[w] = "broke"
      PROVE  PostsInv'
  <2>1. UNCHANGED <<Holding, Getting, Pushing>>
    BY <1>4 DEF CheckExit, CurlHandleError, Holding, Getting, Pushing
  <2> QED
    BY <1>0, <1>4, <2>1 DEF CheckExit, CurlHandleError
<1>5. ASSUME NEW w \in Workers, CheckExit(w), ~is_exit
      PROVE  PostsInv'
  <2>1. UNCHANGED <<Holding, Pushing>>
    BY <1>5 DEF CheckExit, Holding, Pushing
  <2>2. Getting' = Getting \cup {w} /\ w \notin Getting
    BY <1>5 DEF CheckExit, Getting
  <2>3. Cardinality(Getting') = Cardinality(Getting) + 1
    BY <2>2, FS_AddElement
  <2>4. Getting' \in SUBSET Holding
    BY <1>5 DEF CheckExit, Getting, Holding
  <2>5. Cardinality(Getting') <= Cardinality(Holding)
    BY <2>4, FS_Subset
  <2>10. FlagBeforePosts'
    BY <1>5 DEF CheckExit
  <2>11. PostsAccounted'
    BY <1>5, <2>1, <2>3, <2>5 DEF CheckExit
  <2> QED
    BY <1>0, <2>10, <2>11
<1>6. ASSUME NEW w \in Workers, GetInstruction(w)
      PROVE  PostsInv'
  <2>1. Holding' = Holding \ {w} /\ w \in Holding
    BY <1>6 DEF GetInstruction, Holding
  <2>2. Getting' = Getting \ {w} /\ w \in Getting
    BY <1>6 DEF GetInstruction, Getting
  <2>3. UNCHANGED Pushing
    BY <1>6 DEF GetInstruction, Pushing
  <2>4. Cardinality(Holding') = Cardinality(Holding) - 1
    BY <2>1, FS_RemoveElement
  <2>5. Cardinality(Getting') = Cardinality(Getting) - 1
    BY <2>2, FS_RemoveElement
  <2>6. Cardinality(Getting) # 0
    BY <2>2, FS_EmptySet
  <2>7. instruction_list # <<>>
    BY <2>6
  <2>8. Len(instruction_list') = Len(instruction_list) - 1
    BY <1>6, <2>7 DEF GetInstruction
  <2>10. FlagBeforePosts'
    BY <1>6 DEF GetInstruction
  <2>9. UNCHANGED <<main, thpoolman_sem, released>>
    BY <1>6 DEF GetInstruction
  <2>11. PostsAccounted'
    <3>1. main' # "stopped" =>
             Len(instruction_list') + released'
                 = thpoolman_sem' + Cardinality(Holding') + Cardinality(Pushing')
      <4>1. CASE main = "stopped"
        BY <2>9, <4>1
      <4>2. CASE main # "stopped"
        <5>1. Len(instruction_list) + released
                  = thpoolman_sem + Cardinality(Holding) + Cardinality(Pushing)
          BY <4>2
        <5> HIDE DEF PostsInv
        <5>2. released \in Nat /\ thpoolman_sem \in Nat
          BY DEF PostsInv
        <5> QED
          BY <2>3, <2>4, <2>8, <2>9, <5>1, <5>2
      <4> QED
        BY <4>1, <4>2
    <3>2. Cardinality(Getting') + Cardinality(Pushing') <= Len(instruction_list')
      BY <2>3, <2>5, <2>8
    <3> QED
      BY <3>1, <3>2
  <2> QED
    BY <1>0, <2>10, <2>11
<1>7. ASSUME NEW j \in Jobs, PushInstruction(j)
      PROVE  PostsInv'
  <2>1. UNCHANGED <<Holding, Getting>>
    BY <1>7 DEF PushInstruction, Holding, Getting
  <2>2. Pushing' = Pushing \cup {j} /\ j \notin Pushing
    BY <1>7 DEF PushInstruction, Pushing
  <2>3. Cardinality(Pushing') = Cardinality(Pushing) + 1
    BY <2>2, FS_AddElement
  <2>4. Len(instruction_list') = Len(instruction_list) + 1
    BY <1>7 DEF PushInstruction
  <2>5. FlagBeforePosts'
    BY <1>7 DEF PushInstruction
  <2>6. UNCHANGED <<main, thpoolman_sem, released>>
    BY <1>7 DEF PushInstruction
  <2>a. Cardinality(Holding') = Cardinality(Holding) /\ Cardinality(Getting') = Cardinality(Getting)
    BY <2>1
  <2>b. released \in Nat /\ thpoolman_sem \in Nat
    BY DEF PostsInv
  <2>7. PostsAccounted'
    <3>1. Cardinality(Getting') + Cardinality(Pushing') <= Len(instruction_list')
      BY <2>3, <2>4, <2>a
    <3>2. ASSUME main' # "stopped"
          PROVE  Len(instruction_list') + released'
                     = thpoolman_sem' + Cardinality(Holding') + Cardinality(Pushing')
      <4>1. Len(instruction_list) + released
                = thpoolman_sem + Cardinality(Holding) + Cardinality(Pushing)
        BY <2>6, <3>2
      <4> HIDE DEF PostsInv
      <4> QED
        BY <2>3, <2>4, <2>6, <2>a, <2>b, <4>1
    <3> QED
      BY <3>1, <3>2
  <2> QED
    BY <1>0, <2>5, <2>7
<1>8. ASSUME NEW j \in Jobs, PostInstruction(j)
      PROVE  PostsInv'
  <2>1. UNCHANGED <<Holding, Getting>>
    BY <1>8 DEF PostInstruction, Holding, Getting
  <2>2. Pushing' = Pushing \ {j} /\ j \in Pushing
    BY <1>8 DEF PostInstruction, Pushing
  <2>3. Cardinality(Pushing') = Cardinality(Pushing) - 1
    BY <2>2, FS_RemoveElement
  <2>10. FlagBeforePosts'
    BY <1>8 DEF PostInstruction
  <2>4. /\ Cardinality(Holding') = Cardinality(Holding) /\ Cardinality(Getting') = Cardinality(Getting)
        /\ instruction_list' = instruction_list
    BY <1>8, <2>1 DEF PostInstruction
  <2>5. main' = main /\ released' = released /\ thpoolman_sem' = thpoolman_sem + 1
    BY <1>8 DEF PostInstruction
  <2>11. PostsAccounted'
    BY <2>3, <2>4, <2>5
  <2> QED
    BY <1>0, <2>10, <2>11
<1>9. ASSUME NEW j \in Jobs, AwaitReturn(j)
      PROVE  PostsInv'
  <2>1. UNCHANGED <<Holding, Getting, Pushing>>
    BY <1>9 DEF AwaitReturn, Holding, Getting, Pushing
  <2> QED
    BY <1>0, <1>9, <2>1 DEF AwaitReturn
<1>10. CASE UNCHANGED vars
  <2>1. UNCHANGED <<Holding, Getting, Pushing>>
    BY <1>10 DEF vars, Holding, Getting, Pushing
  <2> QED
    BY <1>0, <1>10, <2>1 DEF vars
<1>11. ASSUME NEW w \in Workers, WorkerStep(w)
       PROVE  PostsInv'
  <2>1. ASSUME CheckExit(w)
        PROVE  PostsInv'
    <3>1. is_exit => worker'[w] = "broke"
      BY <2>1 DEF CheckExit
    <3> QED
      BY <1>4, <1>5, <2>1, <3>1
  <2>2. ASSUME CurlHandleError(w)
        PROVE  PostsInv'
    <3>1. worker'[w] = "broke"
      BY <2>2 DEF CurlHandleError
    <3> QED
      BY <1>4, <2>2, <3>1
  <2> QED
    BY <1>2, <1>3, <1>6, <1>11, <2>1, <2>2 DEF WorkerStep
<1>12. CASE Initialize \/ StopLock \/ StopStep
  <2>1. UNCHANGED worker /\ UNCHANGED call
    BY <1>12 DEF Initialize, StopLock, StopStep, SetExitFlag, StopPost, StopJoined
  <2> QED
    BY <1>1, <1>12, <2>1
<1> QED
  BY <1>2, <1>7, <1>8, <1>9, <1>10, <1>11, <1>12 DEF Next, CallStep

(***************************************************************************)
(* Every post of thpoolman_sem is accounted for, whatever callers, workers *)
(* and StopThreads do.                                                     *)
(***************************************************************************)
THEOREM PostsAreAccounted == Spec => []PostsAccounted
<1>1. PostsInv => PostsAccounted
  BY DEF PostsInv
<1> QED
  BY <1>1, PostsInvInit, PostsInvStep, PTL DEF Spec

(***************************************************************************)
(* The empty-list branch of Worker is unreachable.                         *)
(***************************************************************************)
THEOREM WakeupsAreNotEmpty == Spec => []NoEmptyWakeup
<1>1. PostsInv => NoEmptyWakeup
  <2> SUFFICES ASSUME PostsInv, NEW w \in Workers, worker[w] = "get"
               PROVE  instruction_list # <<>>
    BY DEF NoEmptyWakeup
  <2>1. w \in Getting
    BY DEF Getting
  <2>2. Cardinality(Getting) # 0
    BY <2>1, FiniteViews, FS_EmptySet
  <2> QED
    BY <2>2, FiniteViews DEF PostsInv, PostsAccounted, TypeInv, TypeOK
<1> QED
  BY <1>1, PostsInvInit, PostsInvStep, PTL DEF Spec

-----------------------------------------------------------------------------
(***************************************************************************)
(* Where a job is.  InstructionConserved counts places; the inductive form *)
(* says which place excludes which: the queue holds no job twice, two      *)
(* workers never run the same one, and a job is queued, run by a worker or *)
(* finished, exactly one of them from the push on.                         *)
(***************************************************************************)
IsQueued(j)  == \E i \in DOMAIN instruction_list : instruction_list[i] = j
IsRunning(j) == \E w \in Workers : worker[w] = "run" /\ param[w] = j

QueueInjective ==
    \A i, k \in DOMAIN instruction_list :
        instruction_list[i] = instruction_list[k] => i = k

RunnersDistinct ==
    \A v, w \in Workers :
        worker[v] = "run" /\ worker[w] = "run" /\ param[v] = param[w] => v = w

OnePlace ==
    \A j \in Jobs :
        /\ call[j] = "new" => ~IsQueued(j) /\ ~IsRunning(j) /\ runs[j] = 0
        /\ IsQueued(j) => ~IsRunning(j) /\ runs[j] = 0
        /\ IsRunning(j) => runs[j] = 0
        /\ call[j] # "new" => IsQueued(j) \/ IsRunning(j) \/ runs[j] = 1

PlaceInv == TypeInv /\ QueueInjective /\ RunnersDistinct /\ OnePlace

(* No instruction is anywhere before the first call of Instruct or AwaitInstruct. *)
LEMMA PlaceInvInit == Init => PlaceInv
<1> SUFFICES ASSUME Init
             PROVE  PlaceInv
  OBVIOUS
<1>1. DOMAIN instruction_list = {}
  BY DEF Init
<1> QED
  BY <1>1, TypeInvInit
     DEF Init, PlaceInv, QueueInjective, RunnersDistinct, OnePlace, IsQueued, IsRunning

(* Every step keeps each instruction in exactly one place: with its caller, in the
   queue, with a worker, done, or dropped with the pool. *)
LEMMA PlaceInvStep == PlaceInv /\ [Next]_vars => PlaceInv'
<1> SUFFICES ASSUME PlaceInv, [Next]_vars
             PROVE  PlaceInv'
  OBVIOUS
<1>0. TypeInv'
  BY TypeInvStep DEF PlaceInv
<1> USE JobsAssumption DEF PlaceInv, TypeInv, TypeOK, RunningHasJob
<1> USE DEF workerVars, callVars, mainVars
<1>1. ASSUME UNCHANGED <<instruction_list, param, runs>>,
             \A w \in Workers : worker'[w] = "run" <=> worker[w] = "run",
             \A j \in Jobs : call'[j] = "new" <=> call[j] = "new"
      PROVE  PlaceInv'
  <2>1. QueueInjective'
    BY <1>1 DEF QueueInjective
  <2>2. RunnersDistinct'
    BY <1>1 DEF RunnersDistinct
  <2>3. ASSUME NEW j \in Jobs
        PROVE  (IsQueued(j)' <=> IsQueued(j)) /\ (IsRunning(j)' <=> IsRunning(j))
    BY <1>1 DEF IsQueued, IsRunning
  <2>4. OnePlace'
    BY <1>1, <2>3 DEF OnePlace
  <2> QED
    BY <1>0, <2>1, <2>2, <2>4
<1>2. ASSUME NEW w \in Workers, GetInstruction(w)
      PROVE  PlaceInv'
  <2>1. CASE instruction_list = <<>>
    <3>1. /\ UNCHANGED <<instruction_list, param, runs, call>>
          /\ \A v \in Workers : worker'[v] = "run" <=> worker[v] = "run"
      BY <1>2, <2>1 DEF GetInstruction
    <3> QED
      BY <1>1, <3>1
  <2>2. CASE instruction_list # <<>>
    <3> DEFINE q == instruction_list
    <3>0. PICK h \in Jobs : h = Head(q)
      BY <2>2
    <3>1. /\ worker' = [worker EXCEPT ![w] = "run"]
          /\ param' = [param EXCEPT ![w] = h]
          /\ q' = Tail(q)
          /\ worker[w] = "get"
          /\ UNCHANGED <<runs, call>>
      BY <1>2, <2>2, <3>0 DEF GetInstruction
    <3>2. /\ Len(q) \in Nat \ {0}
          /\ DOMAIN q = 1..Len(q)
          /\ h = q[1]
          /\ Len(q') = Len(q) - 1
          /\ DOMAIN q' = 1..(Len(q) - 1)
          /\ \A i \in 1..(Len(q) - 1) : q'[i] = q[i + 1]
      BY <2>2, <3>0, <3>1
    <3>a. 1 \in DOMAIN q /\ q[1] = h
      BY <3>2
    <3>3. IsQueued(h) /\ ~IsRunning(h) /\ runs[h] = 0 /\ call[h] # "new"
      BY <3>a DEF IsQueued, OnePlace
    <3>4. QueueInjective'
      <4> SUFFICES ASSUME NEW i \in 1..(Len(q) - 1), NEW k \in 1..(Len(q) - 1), q'[i] = q'[k]
                   PROVE  i = k
        BY <3>2 DEF QueueInjective
      <4>1. i + 1 \in DOMAIN q /\ k + 1 \in DOMAIN q /\ q[i + 1] = q[k + 1]
        BY <3>2
      <4>2. i + 1 = k + 1
        BY <4>1 DEF QueueInjective
      <4> QED
        BY <3>2, <4>2
    <3>5. RunnersDistinct'
      BY <3>1, <3>3 DEF RunnersDistinct, IsRunning
    <3>6. ~IsQueued(h)'
      <4> SUFFICES ASSUME NEW i \in 1..(Len(q) - 1), q'[i] = h
                   PROVE  FALSE
        BY <3>2 DEF IsQueued
      <4>1. i + 1 \in DOMAIN q /\ q[i + 1] = h /\ i + 1 # 1
        BY <3>2
      <4> QED
        BY <3>a, <4>1 DEF QueueInjective
    <3>7. IsRunning(h)'
      BY <3>1 DEF IsRunning
    <3>8. ASSUME NEW j \in Jobs, j # h
          PROVE  (IsQueued(j)' <=> IsQueued(j)) /\ (IsRunning(j)' <=> IsRunning(j))
      <4>1. IsQueued(j)' => IsQueued(j)
        <5> SUFFICES ASSUME NEW i \in 1..(Len(q) - 1), q'[i] = j
                     PROVE  IsQueued(j)
          BY <3>2 DEF IsQueued
        <5>1. i + 1 \in DOMAIN q /\ q[i + 1] = j
          BY <3>2
        <5> QED
          BY <5>1 DEF IsQueued
      <4>2. IsQueued(j) => IsQueued(j)'
        <5> SUFFICES ASSUME NEW i \in DOMAIN q, q[i] = j
                     PROVE  IsQueued(j)'
          BY DEF IsQueued
        <5>1. i # 1 /\ i - 1 \in 1..(Len(q) - 1) /\ i = (i - 1) + 1
          BY <3>2, <3>8, SMTT(30)
        <5>2. q'[i - 1] = q[i]
          BY <3>2, <5>1
        <5> QED
          BY <3>2, <5>1, <5>2 DEF IsQueued
      <4>3. IsRunning(j)' <=> IsRunning(j)
        BY <3>1, <3>8 DEF IsRunning
      <4> QED
        BY <4>1, <4>2, <4>3
    <3>9. OnePlace'
      BY <3>1, <3>3, <3>6, <3>7, <3>8, SMTT(30) DEF OnePlace
    <3> QED
      BY <1>0, <3>4, <3>5, <3>9
  <2> QED
    BY <2>1, <2>2
<1>3. ASSUME NEW w \in Workers, RunFunction(w)
      PROVE  PlaceInv'
  <2>0. PICK j \in Jobs : j = param[w]
    BY <1>3 DEF RunFunction
  <2>1. /\ worker[w] = "run" /\ j = param[w]
        /\ worker' = [worker EXCEPT ![w] = "loop"]
        /\ param' = [param EXCEPT ![w] = NoJob]
        /\ runs' = [runs EXCEPT ![j] = @ + 1]
        /\ UNCHANGED <<instruction_list, call>>
    BY <1>3, <2>0 DEF RunFunction
  <2>2. IsRunning(j) /\ runs[j] = 0 /\ ~IsQueued(j) /\ call[j] # "new"
    BY <2>1 DEF IsRunning, OnePlace
  <2>3. QueueInjective'
    BY <2>1 DEF QueueInjective
  <2>4. RunnersDistinct'
    BY <2>1 DEF RunnersDistinct
  <2>5. ~IsRunning(j)' /\ ~IsQueued(j)' /\ runs'[j] = 1
    BY <2>1, <2>2 DEF IsRunning, IsQueued, RunnersDistinct
  <2>6. ASSUME NEW k \in Jobs, k # j
        PROVE  /\ IsQueued(k)' <=> IsQueued(k)
               /\ IsRunning(k)' <=> IsRunning(k)
               /\ runs'[k] = runs[k]
    BY <2>1, <2>6 DEF IsQueued, IsRunning
  <2>7. OnePlace'
    BY <2>1, <2>2, <2>5, <2>6 DEF OnePlace
  <2> QED
    BY <1>0, <2>3, <2>4, <2>7
<1>4. ASSUME NEW j \in Jobs, PushInstruction(j)
      PROVE  PlaceInv'
  <2> DEFINE q == instruction_list
  <2>1. /\ q' = Append(q, j)
        /\ call[j] = "new" /\ call' = [call EXCEPT ![j] = "pushed"]
        /\ UNCHANGED <<worker, param, runs>>
    BY <1>4 DEF PushInstruction
  <2>2. /\ Len(q) \in Nat /\ DOMAIN q = 1..Len(q)
        /\ DOMAIN q' = 1..(Len(q) + 1)
        /\ \A i \in 1..Len(q) : q'[i] = q[i]
        /\ q'[Len(q) + 1] = j
    BY <2>1
  <2>3. ~IsQueued(j) /\ ~IsRunning(j) /\ runs[j] = 0
    BY <2>1 DEF OnePlace
  <2>4. QueueInjective'
    <3> SUFFICES ASSUME NEW i \in 1..(Len(q) + 1), NEW k \in 1..(Len(q) + 1), q'[i] = q'[k]
                 PROVE  i = k
      BY <2>2 DEF QueueInjective
    <3>1. \A n \in 1..Len(q) : q'[n] # j
      BY <2>2, <2>3 DEF IsQueued
    <3>2. CASE i \in 1..Len(q) /\ k \in 1..Len(q)
      <4>1. q[i] = q[k] /\ i \in DOMAIN q /\ k \in DOMAIN q
        BY <2>2, <3>2
      <4> QED
        BY <4>1 DEF QueueInjective
    <3>3. CASE i \notin 1..Len(q) \/ k \notin 1..Len(q)
      <4>1. i = Len(q) + 1 \/ k = Len(q) + 1
        BY <2>2, <3>3
      <4> QED
        BY <2>2, <3>1, <4>1
    <3> QED
      BY <3>2, <3>3
  <2>5. RunnersDistinct'
    BY <2>1 DEF RunnersDistinct
  <2>6. IsQueued(j)' /\ ~IsRunning(j)'
    <3>1. Len(q) + 1 \in DOMAIN q' /\ q'[Len(q) + 1] = j
      BY <2>2
    <3> QED
      BY <2>1, <2>3, <3>1 DEF IsQueued, IsRunning
  <2>7. ASSUME NEW k \in Jobs, k # j
        PROVE  (IsQueued(k)' <=> IsQueued(k)) /\ (IsRunning(k)' <=> IsRunning(k))
    BY <2>1, <2>2, <2>7 DEF IsQueued, IsRunning
  <2>8. OnePlace'
    BY <2>1, <2>3, <2>6, <2>7 DEF OnePlace
  <2> QED
    BY <1>0, <2>4, <2>5, <2>8
<1>5. CASE Initialize \/ StopLock \/ StopStep \/ UNCHANGED vars
  <2>1. UNCHANGED <<instruction_list, param, runs, worker, call>>
    BY <1>5 DEF Initialize, StopLock, StopStep, SetExitFlag, StopPost, StopJoined, vars
  <2> QED
    BY <1>1, <2>1
<1>6. ASSUME NEW w \in Workers,
             StartThread(w) \/ LoopHead(w) \/ Acquire(w) \/ CheckExit(w) \/ CurlHandleError(w)
      PROVE  PlaceInv'
  <2>1. /\ UNCHANGED <<instruction_list, param, runs, call>>
        /\ \A v \in Workers : worker'[v] = "run" <=> worker[v] = "run"
    BY <1>6 DEF StartThread, LoopHead, Acquire, CheckExit, CurlHandleError
  <2> QED
    BY <1>1, <2>1
<1>7. ASSUME NEW j \in Jobs, CallStep(j)
      PROVE  PlaceInv'
  <2>1. /\ UNCHANGED <<instruction_list, param, runs, worker>>
        /\ \A k \in Jobs : call'[k] = "new" <=> call[k] = "new"
    BY <1>7 DEF CallStep, PostInstruction, AwaitReturn
  <2> QED
    BY <1>1, <2>1
<1> QED
  BY <1>2, <1>3, <1>4, <1>5, <1>6, <1>7 DEF Next, WorkerStep

(***************************************************************************)
(* No instruction is lost or run twice.                                    *)
(***************************************************************************)
THEOREM InstructionsAreConserved == Spec => []InstructionConserved
<1>1. PlaceInv => InstructionConserved
  <2> SUFFICES ASSUME PlaceInv, NEW j \in Jobs
               PROVE  Cardinality(Queued(j)) + Cardinality(Executing(j)) + runs[j]
                          = (IF call[j] = "new" THEN 0 ELSE 1)
    BY DEF InstructionConserved
  <2>1. Cardinality(Queued(j)) = IF IsQueued(j) THEN 1 ELSE 0
    <3>1. CASE IsQueued(j)
      <4>1. PICK i \in DOMAIN instruction_list : instruction_list[i] = j
        BY <3>1 DEF IsQueued
      <4>2. Queued(j) = {i}
        BY <4>1 DEF Queued, PlaceInv, QueueInjective
      <4> QED
        BY <3>1, <4>2, FS_Singleton
    <3>2. CASE ~IsQueued(j)
      <4>1. Queued(j) = {}
        BY <3>2 DEF Queued, IsQueued
      <4> QED
        BY <3>2, <4>1, FS_EmptySet
    <3> QED
      BY <3>1, <3>2
  <2>2. Cardinality(Executing(j)) = IF IsRunning(j) THEN 1 ELSE 0
    <3>1. CASE IsRunning(j)
      <4>1. PICK w \in Workers : worker[w] = "run" /\ param[w] = j
        BY <3>1 DEF IsRunning
      <4>2. Executing(j) = {w}
        BY <4>1 DEF Executing, PlaceInv, RunnersDistinct
      <4> QED
        BY <3>1, <4>2, FS_Singleton
    <3>2. CASE ~IsRunning(j)
      <4>1. Executing(j) = {}
        BY <3>2 DEF Executing, IsRunning
      <4> QED
        BY <3>2, <4>1, FS_EmptySet
    <3> QED
      BY <3>1, <3>2
  <2> QED
    BY <2>1, <2>2 DEF PlaceInv, OnePlace
<1> QED
  BY <1>1, PlaceInvInit, PlaceInvStep, PTL DEF Spec

-----------------------------------------------------------------------------
(***************************************************************************)
(* A call's semaphore is posted once per run of its function and acquired  *)
(* once, by the AwaitInstruct that returns.                                *)
(***************************************************************************)
SemaphoreBalance ==
    \A j \in Jobs :
        psem[j] + (IF j \in AwaitJobs /\ call[j] = "returned" THEN 1 ELSE 0) = runs[j]

OnlyAwaitsWait == \A j \in Jobs : call[j] = "posted" => j \in AwaitJobs

AwaitInv == TypeInv /\ SemaphoreBalance /\ OnlyAwaitsWait

(* No semaphore of an AwaitInstruct call is posted before a worker runs. *)
LEMMA AwaitInvInit == Init => AwaitInv
BY TypeInvInit DEF Init, AwaitInv, SemaphoreBalance, OnlyAwaitsWait

(* Every step keeps the private semaphore of an awaiting call in step with the
   runs of its function. *)
LEMMA AwaitInvStep == AwaitInv /\ [Next]_vars => AwaitInv'
<1> SUFFICES ASSUME AwaitInv, [Next]_vars
             PROVE  AwaitInv'
  OBVIOUS
<1>0. TypeInv'
  BY TypeInvStep DEF AwaitInv
<1> USE JobsAssumption DEF AwaitInv, TypeInv, TypeOK, RunningHasJob, SemaphoreBalance,
                               OnlyAwaitsWait
<1> USE DEF workerVars, callVars, mainVars
<1>1. ASSUME NEW w \in Workers, RunFunction(w)
      PROVE  AwaitInv'
  BY <1>0, <1>1 DEF RunFunction
<1>2. ASSUME NEW j \in Jobs, PushInstruction(j)
      PROVE  AwaitInv'
  BY <1>0, <1>2 DEF PushInstruction
<1>3. ASSUME NEW j \in Jobs, PostInstruction(j)
      PROVE  AwaitInv'
  BY <1>0, <1>3 DEF PostInstruction
<1>4. ASSUME NEW j \in Jobs, AwaitReturn(j)
      PROVE  AwaitInv'
  <2>1. /\ j \in AwaitJobs
        /\ call[j] # "returned" /\ call' = [call EXCEPT ![j] = "returned"]
        /\ psem' = [psem EXCEPT ![j] = @ - 1]
        /\ UNCHANGED runs
    BY <1>4 DEF AwaitReturn
  <2> QED
    BY <1>0, <1>4, <2>1
<1>5. ASSUME UNCHANGED <<psem, call, runs>>
      PROVE  AwaitInv'
  BY <1>0, <1>5
<1>6. CASE Initialize \/ StopLock \/ StopStep \/ UNCHANGED vars
  BY <1>5, <1>6 DEF Initialize, StopLock, StopStep, SetExitFlag, StopPost, StopJoined, vars
<1>7. ASSUME NEW w \in Workers,
             \/ StartThread(w) \/ LoopHead(w) \/ Acquire(w)
             \/ CheckExit(w) \/ CurlHandleError(w) \/ GetInstruction(w)
      PROVE  AwaitInv'
  BY <1>5, <1>7
     DEF StartThread, LoopHead, Acquire, CheckExit, CurlHandleError, GetInstruction
<1> QED
  BY <1>1, <1>2, <1>3, <1>4, <1>6, <1>7 DEF Next, WorkerStep, CallStep

(***************************************************************************)
(* AwaitInstruct returns only when its function has run, exactly once.     *)
(***************************************************************************)
THEOREM AwaitReturnsAfterRun == Spec => []AwaitAfterRun
<1>1. AwaitInv /\ PlaceInv => AwaitAfterRun
  <2> SUFFICES ASSUME AwaitInv, PlaceInv, NEW j \in AwaitJobs, call[j] = "returned"
               PROVE  runs[j] = 1 /\ psem[j] = 0
    BY DEF AwaitAfterRun
  <2>1. j \in Jobs /\ psem[j] \in Nat /\ psem[j] + 1 = runs[j]
    BY JobsAssumption DEF AwaitInv, SemaphoreBalance, TypeInv, TypeOK
  <2>2. runs[j] = 0 \/ runs[j] = 1
    BY <2>1 DEF PlaceInv, OnePlace
  <2> QED
    BY <2>1, <2>2
<1> QED
  BY <1>1, AwaitInvInit, AwaitInvStep, PlaceInvInit, PlaceInvStep, PTL DEF Spec
=============================================================================
