--------------------------- MODULE FdManagerProofs ---------------------------
(***************************************************************************)
(* Proofs about FdManager, for any number of handlers, paths, entities and *)
(* calls, with and without a cache directory and for any size of the disk. *)
(***************************************************************************)
EXTENDS FdManager, FiniteSetTheorems, TLAPS

-----------------------------------------------------------------------------
(***************************************************************************)
(* Types.  The calls with a path in Openers look for an entity by the path *)
(* alone, those in Fds have a descriptor; a thread that is Working has the *)
(* lock of an entity.                                                      *)
(***************************************************************************)
Working == {"inside", "cleanup", "cleaned", "reserve", "loading", "worked", "short", "change"}
Openers == {"open", "truncate", "touch", "rename"}
Fds     == {"use", "release", "close"}

(* Which calls are where, and what they have there. *)
Shape(r) ==
    /\ r.pc = "idle" => r = Idle
    /\ r.pc # "idle" => r.path \in Paths /\ r.call # "none" /\ r.to # r.path
    /\ r.to # None <=> r.call = "rename"
    /\ r.pc \in Working \cup {"lock_entity"} => r.call \in {"use", "release"} /\ r.found # None
    /\ r.call = "close" => r.found # None
    /\ r.pc = "lock_manager" /\ r.call # "close" => r.found = None
    /\ r.held <=> r.pc = "loading"

ThreadRecord ==
    [pc : {"idle", "lock_manager", "scan", "lock_entity"} \cup Working,
     call : {"none"} \cup Openers \cup Fds,
     path : Paths \cup {None}, to : Paths \cup {None}, fd : Nat,
     found : Entities \cup {None}, todo : SUBSET Entities, held : BOOLEAN]

ThreadType == {r \in ThreadRecord : Shape(r)}

EntityType ==
    [state : {"new", "open", "gone"}, path : Paths \cup {None}, cachepath : BOOLEAN, fds : SUBSET Nat,
     lock : Threads \cup {None}, moved : BOOLEAN]

Types ==
    /\ is_cache_dir \in BOOLEAN /\ disk \in Nat
    /\ fent \subseteq [key : Paths \cup {Temp}, e : Entities]
    /\ except_fent \in [Paths -> Entities \cup {None}]
    /\ fd_manager_lock \in Threads \cup {None}
    /\ ent \in [Entities -> EntityType]
    /\ cache_files \subseteq Paths
    /\ reserved \in Int
    /\ handles \subseteq [path : Paths, fd : Nat, e : Entities]
    /\ th \in [Threads -> ThreadType]
    /\ calls \in Nat /\ failures \in Nat

TypeInv == Types /\ IsFiniteSet(UsedFds)

-----------------------------------------------------------------------------
(* A set of naturals that is not empty has a least element. *)
LEMMA LeastElement ==
  ASSUME NEW S, S \subseteq Nat, S # {}
  PROVE  \E m \in S : \A n \in S : m <= n
<1> DEFINE T == {0..n : n \in S}
<1>1. T \subseteq FiniteSubsetsOf(Nat)
  <2>1. \A n \in S : 0..n \subseteq Nat
    OBVIOUS
  <2>2. \A n \in S : IsFiniteSet(0..n)
    BY FS_Interval
  <2> QED
    BY <2>1, <2>2 DEF FiniteSubsetsOf
<1>2. T # {}
  OBVIOUS
<1>3. IsWellFoundedOn(StrictSubsetOrdering(Nat), FiniteSubsetsOf(Nat))
  BY FS_StrictSubsetOrderingWellFounded
<1> HIDE DEF T
<1>4. PICK x \in T : \A y \in T : ~(<<y, x>> \in StrictSubsetOrdering(Nat))
  BY <1>1, <1>2, <1>3, WFMin
<1>5. PICK m \in S : x = 0..m
  BY DEF T
<1>6. ASSUME NEW n \in S, n < m
      PROVE  FALSE
  <2>1. 0..n \in T
    BY DEF T
  <2>2. 0..n \subseteq 0..m /\ 0..n # 0..m
    BY <1>6
  <2>3. <<0..n, 0..m>> \in (SUBSET Nat) \X (SUBSET Nat)
    OBVIOUS
  <2> QED
    BY <2>1, <2>2, <2>3, <1>4, <1>5 DEF StrictSubsetOrdering
<1> QED
  BY <1>6

(* The descriptor that is given to an open is used by no entity. *)
LEMMA FreshDescriptor ==
  ASSUME IsFiniteSet(UsedFds)
  PROVE  GetUnusedMinPseudoFd \in Nat \ UsedFds
<1> DEFINE n == Cardinality(UsedFds)
           I == MIN_PSEUDOFD_NUMBER..(MIN_PSEUDOFD_NUMBER + n)
           S == I \ UsedFds
<1>1. n \in Nat
  BY FS_CardinalityType
<1>2. IsFiniteSet(I) /\ Cardinality(I) = n + 1
  <2>1. MIN_PSEUDOFD_NUMBER \in Int /\ MIN_PSEUDOFD_NUMBER + n \in Int
    BY <1>1 DEF MIN_PSEUDOFD_NUMBER
  <2> HIDE DEF n
  <2> QED
    BY <1>1, <2>1, FS_Interval DEF MIN_PSEUDOFD_NUMBER
<1>3. S # {}
  <2>1. SUFFICES ASSUME I \in SUBSET UsedFds
                 PROVE  FALSE
    OBVIOUS
  <2>2. n + 1 <= n
    BY <1>2, <2>1, FS_Subset
  <2> QED
    BY <1>1, <2>2
<1>4. PICK m \in S : \A k \in S : m <= k
  <2>1. S \subseteq Nat
    BY <1>1 DEF MIN_PSEUDOFD_NUMBER
  <2> HIDE DEF S
  <2> QED
    BY <1>3, <2>1, LeastElement
<1>5. \A k \in MIN_PSEUDOFD_NUMBER..(m - 1) : k \in UsedFds
  <2> SUFFICES ASSUME NEW k \in MIN_PSEUDOFD_NUMBER..(m - 1), k \notin UsedFds
               PROVE  FALSE
    OBVIOUS
  <2>1. k \in I /\ k < m
    BY <1>1 DEF MIN_PSEUDOFD_NUMBER
  <2> QED
    BY <1>4, <2>1
<1>6. GetUnusedMinPseudoFd \in I \ UsedFds
  BY <1>4, <1>5 DEF GetUnusedMinPseudoFd
<1> QED
  BY <1>1, <1>6 DEF MIN_PSEUDOFD_NUMBER

(* What One picks. *)
LEMMA OneIsMember == \A S : S # {} => One(S) \in S
  BY DEF One

LEMMA OneOfNothing == One({}) = None
  BY DEF One

-----------------------------------------------------------------------------
(* No handler has been called: no entity, no descriptor, no entry. *)
LEMMA TypeInvInit == Init => TypeInv
<1> SUFFICES ASSUME Init
             PROVE  TypeInv
  OBVIOUS
<1>1. NewEntity \in EntityType
  BY DEF NewEntity, EntityType
<1>2. Idle \in ThreadType
  BY FdManagerAssumption DEF Idle, ThreadType, ThreadRecord, Shape, Working
<1>3. UsedFds = {}
  BY DEF UsedFds, Init, NewEntity
<1>4. IsFiniteSet(UsedFds)
  BY <1>3, FS_EmptySet
<1> QED
  BY <1>1, <1>2, <1>4, FdManagerAssumption DEF Init, TypeInv, Types

(***************************************************************************)
(* How the steps change the record of a thread.                            *)
(***************************************************************************)

(* A handler that is called waits for the manager, with the shape of its call. *)
LEMMA CallShape ==
  ASSUME Types, NEW t \in Threads, NEW call \in {"open", "truncate", "touch", "use", "release", "rename"},
         NEW path \in Paths, NEW to \in Paths \cup {None}, NEW fd \in Nat,
         to # path, to # None <=> call = "rename", Call(t, call, path, to, fd, "lock_manager")
  PROVE  /\ th' \in [Threads -> ThreadType] /\ calls' \in Nat
         /\ th[t] = Idle /\ \A s \in Threads \ {t} : th'[s] = th[s]
         /\ th'[t].pc = "lock_manager" /\ th'[t].call = call /\ th'[t].path = path /\ th'[t].to = to
         /\ th'[t].fd = fd /\ th'[t].found = None /\ ~th'[t].held
<1> DEFINE r == [Idle EXCEPT !.pc = "lock_manager", !.call = call, !.path = path, !.to = to, !.fd = fd]
<1>1. r \in ThreadRecord
  BY DEF ThreadRecord, Idle, Openers, Fds
<1>2. Shape(r)
  BY FdManagerAssumption DEF Shape, Idle, Working
<1>3. r \in ThreadType
  BY <1>1, <1>2 DEF ThreadType
<1>4. /\ r.pc = "lock_manager" /\ r.call = call /\ r.path = path /\ r.to = to
      /\ r.fd = fd /\ r.found = None /\ ~r.held
  BY DEF Idle
<1> HIDE DEF r
<1>5. th' = [th EXCEPT ![t] = r] /\ calls' = calls + 1 /\ th[t].pc = "idle"
  BY DEF Call, Busy, r
<1>6. th[t] \in ThreadType
  BY DEF Types
<1>7. th[t] = Idle
  BY <1>5, <1>6 DEF ThreadType, Shape
<1> QED
  BY <1>3, <1>4, <1>5, <1>7 DEF Types

(* The end of a call. *)
LEMMA IdleShape == Idle \in ThreadType
  BY FdManagerAssumption DEF Idle, ThreadType, ThreadRecord, Shape, Working

(* A thread with an entity goes on in it. *)
LEMMA GoesShape ==
  ASSUME NEW r \in ThreadType, NEW pc \in Working \ {"loading"}, r.pc \in Working \ {"loading"}
  PROVE  [r EXCEPT !.pc = pc] \in ThreadType
  BY DEF ThreadType, ThreadRecord, Shape, Working

(* What Looks finds is an entity of the map, or none. *)
LEMMA LooksShape ==
  ASSUME Types, NEW t \in Threads, th[t].pc = "lock_manager", NEW map, map \subseteq [key : Paths \cup {Temp}, e : Entities],
         NEW look \in Looks(t, map)
  PROVE  /\ look.found \in Entities \cup {None} /\ look.todo \subseteq Entities
         /\ th[t].call = "close" => look.found = th[t].found
         /\ th[t].call # "close" => look.found \in InMap(map) \cup {None}
<1>1. th[t] \in ThreadType
  BY DEF Types
<1>2. th[t].call \in Openers \cup Fds /\ th[t].found \in Entities \cup {None}
  BY <1>1 DEF ThreadType, ThreadRecord, Shape
<1>3. \A S : S \subseteq Entities => One(S) \in Entities \cup {None}
  BY DEF One
<1>4. InMap(map) \subseteq Entities /\ \A p : InMap(Keyed(map, p)) \subseteq InMap(map)
  BY DEF InMap, Keyed
<1>a. \A S : S \subseteq InMap(map) => One(S) \in InMap(map) \cup {None}
  BY DEF One
<1>5. CASE th[t].call \in Openers
  <2>1. PICK before \in LookedAt(map, th[t].path) :
           look = [found |-> One(FindByPath(map, th[t].path)), todo |-> before]
    BY <1>5 DEF Looks, Openers
  <2>2. before \subseteq Entities
    BY <1>4 DEF LookedAt
  <2>3. FindByPath(map, th[t].path) \subseteq InMap(map)
    BY <1>4 DEF FindByPath
  <2> QED
    BY <1>3, <1>4, <1>a, <1>5, <2>1, <2>2, <2>3 DEF Openers
<1>6. CASE th[t].call = "use"
  <2>1. look = [found |-> One(GetExist(map, th[t].path, th[t].fd)),
                todo |-> IF Keyed(map, th[t].path) # {} THEN InMap(Keyed(map, th[t].path)) ELSE Asked(map, th[t].path)]
    BY <1>6 DEF Looks
  <2>2. GetExist(map, th[t].path, th[t].fd) \subseteq InMap(map) /\ Asked(map, th[t].path) \subseteq Entities
    BY <1>4 DEF GetExist, Asked
  <2> QED
    BY <1>3, <1>4, <1>a, <1>6, <2>1, <2>2
<1>7. CASE th[t].call = "release"
  <2>1. look = [found |-> One(GetFdEntity(map, th[t].path, th[t].fd)), todo |-> Asked(map, th[t].path)]
    BY <1>7 DEF Looks
  <2>2. GetFdEntity(map, th[t].path, th[t].fd) \subseteq InMap(map) /\ Asked(map, th[t].path) \subseteq Entities
    BY <1>4 DEF GetFdEntity, Asked
  <2> QED
    BY <1>3, <1>4, <1>a, <1>7, <2>1, <2>2
<1>8. CASE th[t].call = "close"
  <2>1. look = [found |-> th[t].found, todo |-> {}]
    BY <1>8 DEF Looks
  <2> QED
    BY <1>2, <1>8, <2>1
<1> QED
  BY <1>2, <1>5, <1>6, <1>7, <1>8 DEF Fds

(* The map with the temporary paths entered is a map. *)
LEMMA UpdatedType ==
  ASSUME Types
  PROVE  Updated \subseteq [key : Paths \cup {Temp}, e : Entities] /\ Emptied \in [Paths -> Entities \cup {None}]
  BY DEF Types, Updated, Emptied, Entry

(* The thread keeps its shape when it enters the manager. *)
LEMMA LockManagerShape ==
  ASSUME Types, NEW t \in Threads, LockManager(t)
  PROVE  th' \in [Threads -> ThreadType]
<1>1. PICK look \in Looks(t, Updated) :
         th' = [th EXCEPT ![t] = [th[t] EXCEPT !.pc = "scan", !.found = look.found, !.todo = look.todo]]
  BY DEF LockManager, Types
<1>2. look.found \in Entities \cup {None} /\ look.todo \subseteq Entities /\ (th[t].call = "close" => look.found = th[t].found)
  BY LooksShape, UpdatedType DEF LockManager
<1>3. th[t] \in ThreadType /\ th[t].pc = "lock_manager"
  BY DEF Types, LockManager
<1>4. [th[t] EXCEPT !.pc = "scan", !.found = look.found, !.todo = look.todo] \in ThreadType
  BY <1>2, <1>3 DEF ThreadType, ThreadRecord, Shape, Working
<1> QED
  BY <1>1, <1>4 DEF Types

(* The thread of open gets its descriptor and is idle; the others go on to the entity. *)
LEMMA GotDescriptorShape ==
  ASSUME Types, NEW t \in Threads, Opens(t), NEW e \in Entities, NEW fd \in Nat, GotDescriptor(t, e, fd)
  PROVE  /\ th' \in [Threads -> ThreadType] /\ fd_manager_lock' = None
         /\ handles' \subseteq [path : Paths, fd : Nat, e : Entities]
<1>1. th[t] \in ThreadType /\ th[t].pc = "scan" /\ th[t].call \in {"open", "truncate", "touch"}
  BY DEF Types, Opens, AtEntity
<1>2. th[t].path \in Paths
  BY <1>1 DEF ThreadType, Shape
<1>3. [th[t] EXCEPT !.pc = "lock_entity", !.call = "release", !.found = e, !.fd = fd] \in ThreadType
  BY <1>1, FdManagerAssumption DEF ThreadType, ThreadRecord, Shape, Working, Fds
<1> QED
  BY <1>1, <1>2, <1>3, IdleShape DEF GotDescriptor, Unlock, Types

(* Descriptors that are used stay finitely many. *)
LEMMA UsedFinite ==
  ASSUME IsFiniteSet(UsedFds), NEW fd, \A e \in Entities : ent'[e].fds \subseteq ent[e].fds \cup {fd}
  PROVE  IsFiniteSet(UsedFds')
<1>1. UsedFds' \subseteq UsedFds \cup {fd}
  BY DEF UsedFds
<1>2. IsFiniteSet(UsedFds \cup {fd})
  BY FS_AddElement
<1> QED
  BY <1>1, <1>2, FS_Subset

LEMMA UsedSame == ent' = ent => UsedFds' = UsedFds
  BY DEF UsedFds

Calls(t) ==
    \/ \E path \in Paths : CallOpen(t, path) \/ CallUnlink(t, path)
    \/ \E path \in Paths, create \in BOOLEAN : CallTouch(t, path, create)
    \/ \E h \in handles : CallUse(t, h) \/ CallRelease(t, h)
    \/ \E from, to \in Paths : CallRename(t, from, to)

Manages(t) ==
    \/ LockManager(t) \/ Scan(t) \/ OpenAgain(t) \/ OpenNew(t) \/ OpenNothing(t) \/ GotEntity(t)
    \/ RenameEntity(t) \/ RenameFails(t) \/ RenameNothing(t) \/ CloseDescriptor(t)

Works(t) ==
    \/ LockEntity(t) \/ TestDiskSpace(t) \/ AddReserved(t) \/ FreeReserved(t)
    \/ CleanupCacheDir(t) \/ GiveUpCacheFile(t) \/ NoSpace(t) \/ ChangeEntityToTempPath(t)
    \/ UnlockEntity(t)

LEMMA NextCases == Next => \E t \in Threads : Calls(t) \/ Manages(t) \/ Works(t)
  BY DEF Next, Calls, Manages, Works

(* A call changes the record of its thread only, beside the handles and the cache files. *)
CallEffect(t) ==
    /\ UNCHANGED <<is_cache_dir, disk, fent, except_fent, fd_manager_lock, ent, reserved, failures>>
    /\ th' \in [Threads -> ThreadType] /\ calls' \in Nat /\ cache_files' \subseteq cache_files
    /\ handles' \subseteq handles
    /\ th[t] = Idle /\ \A s \in Threads \ {t} : th'[s] = th[s]
    /\ \/ th'[t] = Idle
       \/ th'[t].pc = "lock_manager" /\ th'[t].found = None /\ ~th'[t].held

LEMMA CallFacts ==
  ASSUME Types, NEW t \in Threads, Calls(t)
  PROVE  CallEffect(t)
<1>0. None \notin Paths
  BY FdManagerAssumption
<1>1. ASSUME NEW path \in Paths, CallOpen(t, path)
      PROVE  CallEffect(t)
  BY <1>0, <1>1, CallShape DEF CallOpen, CallEffect
<1>2. ASSUME NEW path \in Paths, CallUnlink(t, path)
      PROVE  CallEffect(t)
  <2>1. th[t] \in ThreadType /\ th[t].pc = "idle"
    BY <1>2 DEF CallUnlink, Types, Busy
  <2>2. th[t] = Idle
    BY <2>1 DEF ThreadType, Shape
  <2>3. /\ UNCHANGED <<is_cache_dir, disk, fent, except_fent, fd_manager_lock, ent, reserved, failures, handles>>
        /\ th' = th /\ calls' = calls + 1 /\ cache_files' = cache_files \ {path}
    BY <1>2 DEF CallUnlink
  <2> QED
    BY <2>2, <2>3 DEF CallEffect, Types
<1>3. ASSUME NEW path \in Paths, CallTouch(t, path, TRUE)
      PROVE  CallEffect(t)
  BY <1>0, <1>3, CallShape DEF CallTouch, CallEffect
<1>4. ASSUME NEW path \in Paths, CallTouch(t, path, FALSE)
      PROVE  CallEffect(t)
  BY <1>0, <1>4, CallShape DEF CallTouch, CallEffect
<1>5. ASSUME NEW h \in handles, CallUse(t, h)
      PROVE  CallEffect(t)
  <2>1. h.path \in Paths /\ h.fd \in Nat
    BY DEF Types
  <2> QED
    BY <1>0, <1>5, <2>1, CallShape DEF CallUse, CallEffect
<1>6. ASSUME NEW h \in handles, CallRelease(t, h)
      PROVE  CallEffect(t)
  <2>1. h.path \in Paths /\ h.fd \in Nat
    BY DEF Types
  <2> QED
    BY <1>0, <1>6, <2>1, CallShape DEF CallRelease, CallEffect
<1>7. ASSUME NEW from \in Paths, NEW to \in Paths, CallRename(t, from, to)
      PROVE  CallEffect(t)
  BY <1>0, <1>7, CallShape DEF CallRename, CallEffect
<1> QED
  BY <1>1, <1>2, <1>3, <1>4, <1>5, <1>6, <1>7 DEF Calls

(* The calls keep the types. *)
LEMMA TypeInvCalls ==
  ASSUME TypeInv, NEW t \in Threads, Calls(t)
  PROVE  TypeInv'
  BY CallFacts, UsedSame DEF TypeInv, Types, CallEffect

(* The steps in the manager keep the types. *)
LEMMA TypeInvManager ==
  ASSUME TypeInv, NEW t \in Threads, Manages(t)
  PROVE  TypeInv'
<1> USE DEF TypeInv
<1>0. th[t] \in ThreadType /\ GetUnusedMinPseudoFd \in Nat
  BY FreshDescriptor DEF Types
<1>a. th[t].found \in Entities \cup {None} /\ th[t].path \in Paths \cup {None} /\ th[t].to \in Paths \cup {None}
  BY <1>0 DEF ThreadType, ThreadRecord
<1>b. ASSUME NEW call \in {"open", "truncate", "touch", "use", "release", "rename", "close"}, AtEntity(t, call)
      PROVE  th[t].path \in Paths /\ (call = "rename" => th[t].to \in Paths) /\ (call = "close" => th[t].found \in Entities)
  BY <1>0, <1>a, <1>b DEF ThreadType, Shape, AtEntity
<1>c. [th EXCEPT ![t] = Idle] \in [Threads -> ThreadType]
  BY IdleShape DEF Types
<1>1. CASE LockManager(t)
  BY <1>1, LockManagerShape, UpdatedType, UsedSame DEF LockManager, Types
<1>2. CASE Scan(t)
  <2>1. PICK e \in th[t].todo : th' = [th EXCEPT ![t].todo = @ \ {e}]
    BY <1>2 DEF Scan
  <2>2. [th[t] EXCEPT !.todo = @ \ {e}] \in ThreadType
    BY <1>0, <1>2 DEF ThreadType, ThreadRecord, Shape, Working, Scan
  <2>3. th' \in [Threads -> ThreadType]
    BY <2>1, <2>2 DEF Types
  <2> QED
    BY <1>2, <2>3, UsedSame DEF Scan, Types
<1>3. CASE OpenAgain(t)
  <2>1. th[t].found \in Entities
    BY <1>3, <1>a DEF OpenAgain, Entered
  <2>2. /\ th' \in [Threads -> ThreadType] /\ fd_manager_lock' = None
        /\ handles' \subseteq [path : Paths, fd : Nat, e : Entities]
    BY <1>0, <1>3, <2>1, GotDescriptorShape DEF OpenAgain
  <2>3. ent' \in [Entities -> EntityType]
    BY <1>0, <1>3, <2>1 DEF OpenAgain, Types, EntityType
  <2>4. IsFiniteSet(UsedFds')
    BY <1>3, <2>1, UsedFinite DEF OpenAgain, Types
  <2> QED
    BY <1>3, <2>2, <2>3, <2>4 DEF OpenAgain, Types
<1>4. CASE OpenNew(t)
  <2>0. th[t].path \in Paths
    BY <1>4, <1>b DEF OpenNew, Opens
  <2>1. PICK e \in Entities :
          /\ ent' = [ent EXCEPT ![e] = [NewEntity EXCEPT !.state = "open", !.path = th[t].path,
                                                         !.cachepath = is_cache_dir, !.fds = {GetUnusedMinPseudoFd}]]
          /\ fent' = fent \cup {Entry(IF is_cache_dir THEN th[t].path ELSE Temp, e)}
          /\ GotDescriptor(t, e, GetUnusedMinPseudoFd)
    BY <1>4 DEF OpenNew
  <2>2. /\ th' \in [Threads -> ThreadType] /\ fd_manager_lock' = None
        /\ handles' \subseteq [path : Paths, fd : Nat, e : Entities]
    BY <1>0, <1>4, <2>1, GotDescriptorShape DEF OpenNew
  <2>3. ent' \in [Entities -> EntityType]
    BY <1>0, <2>0, <2>1 DEF NewEntity, Types, EntityType
  <2>4. IsFiniteSet(UsedFds')
    BY <2>1, UsedFinite DEF Types
  <2>5. fent' \subseteq [key : Paths \cup {Temp}, e : Entities]
    BY <2>0, <2>1 DEF Entry, Types
  <2> QED
    BY <1>4, <2>0, <2>2, <2>3, <2>4, <2>5 DEF OpenNew, Types
<1>5. CASE OpenNothing(t)
  BY <1>5, <1>c, UsedSame DEF OpenNothing, Unlock, Types
<1>6. CASE GotEntity(t)
  <2>1. [th[t] EXCEPT !.pc = "lock_entity"] \in ThreadType \/ th[t].found = None
    BY <1>0, <1>6 DEF GotEntity, AtEntity, ThreadType, ThreadRecord, Shape, Working
  <2>2. [th[t] EXCEPT !.pc = "lock_manager", !.call = "close"] \in ThreadType \/ th[t].found = None
    BY <1>0, <1>6, FdManagerAssumption DEF GotEntity, AtEntity, ThreadType, ThreadRecord, Shape, Working, Fds
  <2>3. th' \in [Threads -> ThreadType]
    BY <1>6, <1>c, <2>1, <2>2 DEF GotEntity, Unlock, Types
  <2> QED
    BY <1>6, <2>3, UsedSame DEF GotEntity, Unlock, Types
<1>7. CASE RenameEntity(t)
  <2>1. th[t].found \in Entities /\ th[t].path \in Paths /\ th[t].to \in Paths
    BY <1>7, <1>a, <1>b DEF RenameEntity, Entered
  <2>2. ent' \in [Entities -> EntityType]
    BY <1>7, <2>1 DEF RenameEntity, Types, EntityType
  <2>3. IsFiniteSet(UsedFds')
    BY <1>7, <2>1, UsedFinite DEF RenameEntity, Types
  <2>4. handles' \subseteq [path : Paths, fd : Nat, e : Entities]
    BY <1>7, <2>1 DEF RenameEntity, Moved, Types
  <2>5. fent' \subseteq [key : Paths \cup {Temp}, e : Entities] /\ cache_files' \subseteq Paths
    BY <1>7, <2>1 DEF RenameEntity, Entry, Types
  <2> QED
    BY <1>7, <1>c, <2>2, <2>3, <2>4, <2>5 DEF RenameEntity, Unlock, Types
<1>8. CASE RenameFails(t)
  <2>1. th[t].found \in Entities /\ th[t].path \in Paths /\ th[t].to \in Paths
    BY <1>8, <1>a, <1>b DEF RenameFails, Entered
  <2>2. ent' \in [Entities -> EntityType]
    BY <1>8, <2>1 DEF RenameFails, Types, EntityType, NewEntity
  <2>3. IsFiniteSet(UsedFds')
    BY <1>8, <2>1, UsedFinite DEF RenameFails, Types, NewEntity
  <2>4. handles' \subseteq [path : Paths, fd : Nat, e : Entities]
    BY <1>8, <2>1 DEF RenameFails, Moved, Types
  <2> QED
    BY <1>8, <1>c, <2>2, <2>3, <2>4 DEF RenameFails, Unlock, Types
<1>9. CASE RenameNothing(t)
  <2>1. th[t].path \in Paths /\ th[t].to \in Paths
    BY <1>9, <1>b DEF RenameNothing
  <2>2. handles' \subseteq [path : Paths, fd : Nat, e : Entities]
    BY <1>9, <2>1 DEF RenameNothing, Moved, Types
  <2> QED
    BY <1>9, <1>c, <2>2, UsedSame DEF RenameNothing, Unlock, Types
<1>10. CASE CloseDescriptor(t)
  <2>1. th[t].found \in Entities
    BY <1>10, <1>b DEF CloseDescriptor
  <2>2. ent' \in [Entities -> EntityType]
    BY <1>10, <2>1 DEF CloseDescriptor, Types, EntityType
  <2>3. IsFiniteSet(UsedFds')
    BY <1>10, <2>1, UsedFinite DEF CloseDescriptor, Types
  <2> QED
    BY <1>10, <1>c, <2>2, <2>3 DEF CloseDescriptor, Unlock, Types
<1> QED
  BY <1>1, <1>2, <1>3, <1>4, <1>5, <1>6, <1>7, <1>8, <1>9, <1>10 DEF Manages

(* The steps in an entity keep the types. *)
LEMMA TypeInvEntity ==
  ASSUME TypeInv, NEW t \in Threads, Works(t)
  PROVE  TypeInv'
<1> USE DEF TypeInv
<1>0. th[t] \in ThreadType /\ (th[t].pc \in Working \cup {"lock_entity"} => th[t].found \in Entities)
  BY DEF Types, ThreadType, ThreadRecord, Shape
<1>1. CASE LockEntity(t)
  <2>1. [th[t] EXCEPT !.pc = "inside"] \in ThreadType
    BY <1>0, <1>1 DEF LockEntity, ThreadType, ThreadRecord, Shape, Working
  <2>2. ent' \in [Entities -> EntityType]
    BY <1>0, <1>1 DEF LockEntity, Types, EntityType
  <2>3. IsFiniteSet(UsedFds')
    BY <1>0, <1>1, UsedFinite DEF LockEntity, Types
  <2> QED
    BY <1>1, <2>1, <2>2, <2>3 DEF LockEntity, Types
<1>2. CASE TestDiskSpace(t)
  <2>1. PICK pc \in Working \ {"loading"} : Goes(t, pc)
    BY <1>2 DEF TestDiskSpace, Working
  <2>2. [th[t] EXCEPT !.pc = pc] \in ThreadType
    BY <1>0, <1>2, <2>1, GoesShape DEF TestDiskSpace, Working
  <2> QED
    BY <1>2, <2>1, <2>2, UsedSame DEF TestDiskSpace, Goes, Types
<1>3. CASE AddReserved(t)
  <2>1. [th[t] EXCEPT !.pc = "loading", !.held = TRUE] \in ThreadType
    BY <1>0, <1>3 DEF AddReserved, ThreadType, ThreadRecord, Shape, Working
  <2> QED
    BY <1>3, <2>1, UsedSame DEF AddReserved, Types
<1>4. CASE FreeReserved(t)
  <2>1. [th[t] EXCEPT !.pc = "worked", !.held = FALSE] \in ThreadType
    BY <1>0, <1>4 DEF FreeReserved, ThreadType, ThreadRecord, Shape, Working
  <2> QED
    BY <1>4, <2>1, UsedSame DEF FreeReserved, Types
<1>5. CASE CleanupCacheDir(t)
  <2>1. [th[t] EXCEPT !.pc = "cleaned"] \in ThreadType
    BY <1>0, <1>5, GoesShape DEF CleanupCacheDir, Working
  <2>2. th' \in [Threads -> ThreadType]
    BY <1>5, <2>1 DEF CleanupCacheDir, Goes, Types
  <2> QED
    BY <1>5, <2>2, UsedSame, UpdatedType DEF CleanupCacheDir, Types
<1>6. CASE GiveUpCacheFile(t)
  <2>1. [th[t] EXCEPT !.pc = "change"] \in ThreadType
    BY <1>0, <1>6, GoesShape DEF GiveUpCacheFile, Working
  <2>2. th' \in [Threads -> ThreadType]
    BY <1>6, <2>1 DEF GiveUpCacheFile, Goes, Types
  <2>3. th[t].found \in Entities /\ ent[th[t].found] \in EntityType
    BY <1>0, <1>6 DEF GiveUpCacheFile, Types, Working
  <2> DEFINE r == [ent[th[t].found] EXCEPT !.cachepath = FALSE, !.moved = @ \/ is_cache_dir]
  <2>a. ent' = [ent EXCEPT ![th[t].found] = r]
    BY <1>6, <2>3 DEF GiveUpCacheFile, Types
  <2>b. r \in EntityType
    BY <2>3 DEF EntityType, Types
  <2> HIDE DEF r
  <2>c. ent' \in [Entities -> EntityType]
    BY <2>3, <2>a, <2>b DEF Types
  <2>4. IsFiniteSet(UsedFds')
    BY <1>6, <2>3, UsedFinite DEF GiveUpCacheFile, Types
  <2> QED
    BY <1>6, <2>2, <2>3, <2>c, <2>4 DEF GiveUpCacheFile, Types
<1>7. CASE NoSpace(t)
  <2>1. [th[t] EXCEPT !.pc = "worked"] \in ThreadType
    BY <1>0, <1>7, GoesShape DEF NoSpace, Working
  <2> QED
    BY <1>7, <2>1, UsedSame DEF NoSpace, Goes, Types
<1>8. CASE ChangeEntityToTempPath(t)
  <2>1. [th[t] EXCEPT !.pc = "worked"] \in ThreadType
    BY <1>0, <1>8, GoesShape DEF ChangeEntityToTempPath, Working
  <2>2. except_fent' \in [Paths -> Entities \cup {None}]
    BY <1>0, <1>8 DEF ChangeEntityToTempPath, Types, Working
  <2> QED
    BY <1>8, <2>1, <2>2, UsedSame DEF ChangeEntityToTempPath, Goes, Types
<1>9. CASE UnlockEntity(t)
  <2>1. [th[t] EXCEPT !.pc = "lock_manager", !.call = "close"] \in ThreadType \/ th[t].call # "release"
    BY <1>0, <1>9, FdManagerAssumption DEF UnlockEntity, ThreadType, ThreadRecord, Shape, Working, Fds
  <2>2. th' \in [Threads -> ThreadType]
    BY <1>9, <2>1, IdleShape DEF UnlockEntity, Types
  <2>3. ent' \in [Entities -> EntityType] /\ th[t].found \in Entities
    BY <1>0, <1>9 DEF UnlockEntity, Types, EntityType, Working
  <2>4. IsFiniteSet(UsedFds')
    BY <1>9, <2>3, UsedFinite DEF UnlockEntity, Types
  <2> QED
    BY <1>9, <2>2, <2>3, <2>4 DEF UnlockEntity, Types
<1> QED
  BY <1>1, <1>2, <1>3, <1>4, <1>5, <1>6, <1>7, <1>8, <1>9 DEF Works

LEMMA TypeInvStep == TypeInv /\ [Next]_vars => TypeInv'
<1> SUFFICES ASSUME TypeInv, [Next]_vars
             PROVE  TypeInv'
  OBVIOUS
<1>1. CASE UNCHANGED vars
  BY <1>1, UsedSame DEF vars, TypeInv, Types
<1>2. CASE Next
  BY <1>2, NextCases, TypeInvCalls, TypeInvManager, TypeInvEntity
<1> QED
  BY <1>1, <1>2

-----------------------------------------------------------------------------
(***************************************************************************)
(* The locks.  A thread in the scan of the manager holds fd_manager_lock,  *)
(* a thread at work in an entity holds the lock of that entity, and nobody *)
(* else holds any.                                                         *)
(***************************************************************************)
LockInv ==
    /\ \A t \in Threads : th[t].pc = "scan" <=> fd_manager_lock = t
    /\ \A t \in Threads : th[t].pc \in Working => ent[th[t].found].lock = t
    /\ \A t \in Threads, e \in Entities : ent[e].lock = t => th[t].pc \in Working /\ th[t].found = e

(* An object that is not made yet is as NewEntity says, and nobody knows it. *)
Unknown(e) ==
    /\ \A x \in fent : x.e # e
    /\ \A p \in Paths : except_fent[p] # e
    /\ \A h \in handles : h.e # e
    /\ \A t \in Threads : th[t].found # e

NewInv == \A e \in Entities : ent[e].state = "new" => ent[e] = NewEntity /\ Unknown(e)

LEMMA LockInvInit == Init => LockInv /\ NewInv
  BY FdManagerAssumption DEF Init, LockInv, NewInv, Unknown, NewEntity, Idle, Working

LEMMA LockInvCalls ==
  ASSUME TypeInv, LockInv, NEW t \in Threads, Calls(t)
  PROVE  LockInv'
<1>1. CallEffect(t)
  BY CallFacts DEF TypeInv
<1> QED
  BY <1>1 DEF LockInv, Working, CallEffect, Idle

(* The thread that gives fd_manager_lock back. *)
LEMMA UnlockEffect ==
  ASSUME Types, NEW t \in Threads, NEW state, Unlock(t, state)
  PROVE  /\ fd_manager_lock' = None /\ th'[t] = state
         /\ \A s \in Threads \ {t} : th'[s] = th[s]
  BY DEF Types, Unlock

(* A step in the manager is a step of the holder, or of who finds the lock free. *)
ManagerEffect(t) ==
    /\ UNCHANGED <<is_cache_dir, disk, reserved, calls>>
    /\ \A s \in Threads \ {t} : th'[s] = th[s]
    /\ \A e \in Entities : ent'[e].lock = ent[e].lock
    /\ ~th'[t].held
    /\ \/ fd_manager_lock = None /\ th[t].pc = "lock_manager" /\ fd_manager_lock' = t /\ th'[t].pc = "scan"
       \/ th[t].pc = "scan" /\ fd_manager_lock' = fd_manager_lock /\ th'[t].pc = "scan"
       \/ th[t].pc = "scan" /\ fd_manager_lock' = None /\ th'[t].pc \in {"idle", "lock_entity", "lock_manager"}

LEMMA ManagerFacts ==
  ASSUME TypeInv, NewInv, NEW t \in Threads, Manages(t)
  PROVE  ManagerEffect(t)
<1>0. th \in [Threads -> ThreadType] /\ ent \in [Entities -> EntityType]
  BY DEF TypeInv, Types
<1>a. th'[t].pc \in {"idle", "scan", "lock_entity", "lock_manager"} => ~th'[t].held
  <2>1. TypeInv'
    BY TypeInvManager
  <2>2. th'[t] \in ThreadType
    BY <2>1 DEF TypeInv, Types
  <2> QED
    BY <2>2 DEF ThreadType, Shape
<1>b. ASSUME NEW state \in {Idle, [th[t] EXCEPT !.pc = "lock_entity"],
                            [th[t] EXCEPT !.pc = "lock_manager", !.call = "close"]}, Unlock(t, state)
      PROVE  /\ \A s \in Threads \ {t} : th'[s] = th[s]
             /\ fd_manager_lock' = None /\ th'[t].pc \in {"idle", "lock_entity", "lock_manager"}
  <2>1. state.pc \in {"idle", "lock_entity", "lock_manager"}
    <3>1. th[t] \in ThreadRecord
      BY <1>0 DEF ThreadType
    <3>2. CASE state = Idle
      BY <3>2 DEF Idle
    <3>3. CASE state = [th[t] EXCEPT !.pc = "lock_entity"]
      BY <3>1, <3>3 DEF ThreadRecord
    <3>4. CASE state = [th[t] EXCEPT !.pc = "lock_manager", !.call = "close"]
      BY <3>1, <3>4 DEF ThreadRecord
    <3> QED
      BY <1>b, <3>2, <3>3, <3>4
  <2>2. th'[t] = state
    BY <1>b, UnlockEffect DEF TypeInv
  <2>3. th'[t].pc \in {"idle", "lock_entity", "lock_manager"}
    BY <2>1, <2>2, Zenon
  <2> QED
    BY <1>b, <2>3, UnlockEffect DEF TypeInv
<1>c. ASSUME NEW e \in Entities, NEW fd \in Nat, GotDescriptor(t, e, fd)
      PROVE  /\ \A s \in Threads \ {t} : th'[s] = th[s]
             /\ fd_manager_lock' = None /\ th'[t].pc \in {"idle", "lock_entity", "lock_manager"}
  <2>1. PICK state : /\ Unlock(t, state)
                     /\ state = Idle \/ state = [th[t] EXCEPT !.pc = "lock_entity", !.call = "release", !.found = e, !.fd = fd]
    BY <1>c DEF GotDescriptor
  <2>2. state.pc \in {"idle", "lock_entity"}
    <3>1. th[t] \in ThreadRecord
      BY <1>0 DEF ThreadType
    <3>2. CASE state = Idle
      BY <3>2 DEF Idle
    <3>3. CASE state = [th[t] EXCEPT !.pc = "lock_entity", !.call = "release", !.found = e, !.fd = fd]
      BY <3>1, <3>3 DEF ThreadRecord
    <3> QED
      BY <2>1, <3>2, <3>3
  <2>3. th'[t] = state
    BY <2>1, UnlockEffect DEF TypeInv
  <2>4. th'[t].pc \in {"idle", "lock_entity"}
    BY <2>2, <2>3, Zenon
  <2> QED
    BY <2>1, <2>4, UnlockEffect DEF TypeInv
<1>1. CASE LockManager(t)
  BY <1>0, <1>1, <1>a DEF LockManager, ManagerEffect, ThreadType, ThreadRecord
<1>2. CASE Scan(t)
  BY <1>0, <1>2, <1>a DEF Scan, ManagerEffect, ThreadType, ThreadRecord
<1>3. CASE OpenAgain(t)
  <2>1. \A e \in Entities : ent'[e].lock = ent[e].lock
    BY <1>0, <1>3 DEF OpenAgain, EntityType
  <2>2. th[t].found \in Entities /\ GetUnusedMinPseudoFd \in Nat
    BY <1>0, <1>3, FreshDescriptor DEF OpenAgain, Entered, ThreadType, ThreadRecord, TypeInv
  <2> QED
    BY <1>3, <1>a, <1>c, <2>1, <2>2 DEF OpenAgain, ManagerEffect, Opens, AtEntity
<1>4. CASE OpenNew(t)
  <2>1. PICK e \in Entities :
          /\ ent[e].state = "new"
          /\ ent' = [ent EXCEPT ![e] = [NewEntity EXCEPT !.state = "open", !.path = th[t].path,
                                                         !.cachepath = is_cache_dir, !.fds = {GetUnusedMinPseudoFd}]]
          /\ GotDescriptor(t, e, GetUnusedMinPseudoFd)
    BY <1>4 DEF OpenNew
  <2>2. \A f \in Entities : ent'[f].lock = ent[f].lock
    BY <1>0, <2>1 DEF NewInv, NewEntity
  <2>3. GetUnusedMinPseudoFd \in Nat
    BY FreshDescriptor DEF TypeInv
  <2> QED
    BY <1>4, <1>a, <1>c, <2>1, <2>2, <2>3 DEF OpenNew, ManagerEffect, Opens, AtEntity
<1>5. CASE OpenNothing(t)
  BY <1>5, <1>a, <1>b DEF OpenNothing, ManagerEffect, AtEntity
<1>6. CASE GotEntity(t)
  BY <1>6, <1>a, <1>b DEF GotEntity, ManagerEffect, AtEntity
<1>7. CASE RenameEntity(t)
  <2>1. \A e \in Entities : ent'[e].lock = ent[e].lock
    BY <1>0, <1>7 DEF RenameEntity, EntityType
  <2> QED
    BY <1>7, <1>a, <1>b, <2>1 DEF RenameEntity, ManagerEffect, AtEntity
<1>8. CASE RenameFails(t)
  <2>1. \A e \in Entities : ent'[e].lock = ent[e].lock
    BY <1>0, <1>8 DEF RenameFails, EntityType, Entered, NewEntity
  <2> QED
    BY <1>8, <1>a, <1>b, <2>1 DEF RenameFails, ManagerEffect, AtEntity
<1>9. CASE RenameNothing(t)
  BY <1>9, <1>a, <1>b DEF RenameNothing, ManagerEffect, AtEntity
<1>10. CASE CloseDescriptor(t)
  <2>1. \A e \in Entities : ent'[e].lock = ent[e].lock
    BY <1>0, <1>10 DEF CloseDescriptor, EntityType
  <2> QED
    BY <1>10, <1>a, <1>b, <2>1 DEF CloseDescriptor, ManagerEffect, AtEntity
<1> QED
  BY <1>1, <1>2, <1>3, <1>4, <1>5, <1>6, <1>7, <1>8, <1>9, <1>10 DEF Manages

(* A step in an entity: the entity stays the same, its lock is taken, kept or given back. *)
WorkEffect(t) ==
    /\ UNCHANGED <<is_cache_dir, disk, fd_manager_lock, handles, calls, failures>>
    /\ \A s \in Threads \ {t} : th'[s] = th[s]
    /\ th[t].found \in Entities /\ \A e \in Entities \ {th[t].found} : ent'[e] = ent[e]
    /\ \/ /\ th[t].pc = "lock_entity" /\ th'[t].pc \in Working /\ th'[t].found = th[t].found
          /\ ent[th[t].found].lock = None /\ ent'[th[t].found].lock = t
       \/ /\ th[t].pc \in Working /\ th'[t].pc \in Working /\ th'[t].found = th[t].found
          /\ ent'[th[t].found].lock = ent[th[t].found].lock
       \/ /\ th[t].pc \in Working /\ th'[t].pc \in {"idle", "lock_manager"}
          /\ ent'[th[t].found].lock = None

LEMMA WorkFacts ==
  ASSUME TypeInv, NEW t \in Threads, Works(t)
  PROVE  WorkEffect(t)
<1>0. th \in [Threads -> ThreadType] /\ ent \in [Entities -> EntityType]
  BY DEF TypeInv, Types
<1>a. th[t].pc \in Working \cup {"lock_entity"} => th[t].found \in Entities
  BY <1>0 DEF ThreadType, ThreadRecord, Shape
<1>b. ASSUME NEW pc \in Working, Goes(t, pc)
      PROVE  /\ \A s \in Threads \ {t} : th'[s] = th[s]
             /\ th'[t].pc \in Working /\ th'[t].found = th[t].found
  BY <1>0, <1>b DEF Goes, ThreadType, ThreadRecord
<1>1. CASE LockEntity(t)
  BY <1>0, <1>a, <1>1 DEF LockEntity, WorkEffect, EntityType, ThreadType, ThreadRecord, Working
<1>2. CASE TestDiskSpace(t)
  <2>1. PICK pc \in Working : Goes(t, pc)
    BY <1>2 DEF TestDiskSpace, Working
  <2> QED
    BY <1>2, <1>a, <1>b, <2>1 DEF TestDiskSpace, WorkEffect, Working
<1>3. CASE AddReserved(t) \/ FreeReserved(t)
  BY <1>0, <1>a, <1>3, ZenonT(30) DEF AddReserved, FreeReserved, WorkEffect, ThreadType, ThreadRecord, Working
<1>4. CASE CleanupCacheDir(t)
  <2>1. Goes(t, "cleaned") /\ "cleaned" \in Working
    BY <1>4 DEF CleanupCacheDir, Working
  <2> QED
    BY <1>4, <1>a, <1>b, <2>1 DEF CleanupCacheDir, WorkEffect, Working
<1>5. CASE GiveUpCacheFile(t)
  <2>1. Goes(t, "change") /\ "change" \in Working
    BY <1>5 DEF GiveUpCacheFile, Working
  <2>2. /\ \A e \in Entities \ {th[t].found} : ent'[e] = ent[e]
        /\ ent'[th[t].found].lock = ent[th[t].found].lock
    BY <1>0, <1>5 DEF GiveUpCacheFile, EntityType
  <2> QED
    BY <1>5, <1>a, <1>b, <2>1, <2>2 DEF GiveUpCacheFile, WorkEffect, Working
<1>6. CASE NoSpace(t)
  <2>1. Goes(t, "worked") /\ "worked" \in Working
    BY <1>6 DEF NoSpace, Working
  <2> QED
    BY <1>6, <1>a, <1>b, <2>1 DEF NoSpace, WorkEffect, Working
<1>7. CASE ChangeEntityToTempPath(t)
  <2>1. Goes(t, "worked") /\ "worked" \in Working
    BY <1>7 DEF ChangeEntityToTempPath, Working
  <2> QED
    BY <1>7, <1>a, <1>b, <2>1 DEF ChangeEntityToTempPath, WorkEffect, Working
<1>8. CASE UnlockEntity(t)
  <2>1. th[t].pc \in Working
    BY <1>8 DEF UnlockEntity, Working
  <2>2. \A s \in Threads \ {t} : th'[s] = th[s]
    BY <1>0, <1>8 DEF UnlockEntity
  <2>3. th'[t].pc \in {"idle", "lock_manager"}
    BY <1>0, <1>8 DEF UnlockEntity, Idle, ThreadType, ThreadRecord
  <2>4. /\ \A e \in Entities \ {th[t].found} : ent'[e] = ent[e]
        /\ ent'[th[t].found].lock = None
    BY <1>0, <1>8, <1>a, <2>1 DEF UnlockEntity, EntityType
  <2> QED
    BY <1>8, <1>a, <2>1, <2>2, <2>3, <2>4 DEF UnlockEntity, WorkEffect
<1> QED
  BY <1>1, <1>2, <1>3, <1>4, <1>5, <1>6, <1>7, <1>8 DEF Works

(* What the steps in an entity leave alone, and what they do to the map and to the reserved space. *)
WorkKeeps(t) ==
    /\ \A e \in Entities : ent'[e].fds = ent[e].fds /\ ent'[e].path = ent[e].path /\ ent'[e].state = ent[e].state
    /\ \/ fent' = fent /\ except_fent' = except_fent
       \/ fd_manager_lock = None /\ fent' = Updated /\ except_fent' = Emptied
       \/ /\ fd_manager_lock = None /\ th[t].pc = "change" /\ fent' = fent
          /\ except_fent' = [except_fent EXCEPT ![ent[th[t].found].path] = th[t].found]
          /\ Keyed(fent, ent[th[t].found].path) # {}
    /\ \/ reserved' = reserved + 1 /\ th[t].pc # "loading" /\ th'[t].pc = "loading"
       \/ reserved' = reserved - 1 /\ th[t].pc = "loading" /\ th'[t].pc # "loading"
       \/ reserved' = reserved /\ th[t].pc # "loading" /\ th'[t].pc # "loading"
    /\ \/ /\ th'[t].call = th[t].call /\ th'[t].path = th[t].path /\ th'[t].to = th[t].to
          /\ th'[t].fd = th[t].fd /\ th'[t].found = th[t].found
       \/ /\ th[t].call = "release" /\ th'[t].call = "close" /\ th'[t].path = th[t].path /\ th'[t].to = th[t].to
          /\ th'[t].fd = th[t].fd /\ th'[t].found = th[t].found
       \/ th[t].call = "use" /\ th'[t] = Idle

LEMMA WorkKept ==
  ASSUME TypeInv, NEW t \in Threads, Works(t)
  PROVE  WorkKeeps(t)
<1>0. th \in [Threads -> ThreadType] /\ ent \in [Entities -> EntityType] /\ th[t] \in ThreadRecord
  BY DEF TypeInv, Types, ThreadType
<1>a. th[t].pc \in Working \cup {"lock_entity"} => th[t].found \in Entities /\ th[t].call \in {"use", "release"}
  BY <1>0 DEF ThreadType, ThreadRecord, Shape
<1>b. ASSUME NEW pc, Goes(t, pc)
      PROVE  /\ th'[t].pc = pc /\ th'[t].call = th[t].call /\ th'[t].path = th[t].path /\ th'[t].to = th[t].to
             /\ th'[t].fd = th[t].fd /\ th'[t].found = th[t].found
  BY <1>0, <1>b DEF Goes, ThreadRecord
<1>c. ent' = ent => \A e \in Entities : ent'[e].fds = ent[e].fds /\ ent'[e].path = ent[e].path /\ ent'[e].state = ent[e].state
  OBVIOUS
<1>1. CASE LockEntity(t)
  <2>1. Goes(t, "inside")
    BY <1>1 DEF LockEntity, Goes
  <2>2. \A e \in Entities : ent'[e].fds = ent[e].fds /\ ent'[e].path = ent[e].path /\ ent'[e].state = ent[e].state
    BY <1>0, <1>1 DEF LockEntity, EntityType
  <2> QED
    BY <1>1, <1>b, <2>1, <2>2 DEF LockEntity, WorkKeeps
<1>2. CASE TestDiskSpace(t)
  <2>1. PICK pc \in {"reserve", "cleanup", "short"} : Goes(t, pc)
    BY <1>2 DEF TestDiskSpace
  <2> QED
    BY <1>2, <1>b, <1>c, <2>1 DEF TestDiskSpace, WorkKeeps
<1>3. CASE AddReserved(t) \/ FreeReserved(t)
  <2>1. CASE AddReserved(t)
    <3>1. /\ th'[t].pc = "loading"
          /\ th'[t].call = th[t].call /\ th'[t].path = th[t].path /\ th'[t].to = th[t].to
          /\ th'[t].fd = th[t].fd /\ th'[t].found = th[t].found
      BY <1>0, <2>1 DEF AddReserved, ThreadRecord
    <3> QED
      BY <2>1, <1>c, <3>1 DEF AddReserved, WorkKeeps
  <2>2. CASE FreeReserved(t)
    <3>1. /\ th'[t].pc = "worked"
          /\ th'[t].call = th[t].call /\ th'[t].path = th[t].path /\ th'[t].to = th[t].to
          /\ th'[t].fd = th[t].fd /\ th'[t].found = th[t].found
      BY <1>0, <2>2 DEF FreeReserved, ThreadRecord
    <3> QED
      BY <2>2, <1>c, <3>1 DEF FreeReserved, WorkKeeps
  <2> QED
    BY <1>3, <2>1, <2>2
<1>4. CASE CleanupCacheDir(t)
  <2>1. Goes(t, "cleaned")
    BY <1>4 DEF CleanupCacheDir
  <2> QED
    BY <1>4, <1>b, <1>c, <2>1 DEF CleanupCacheDir, WorkKeeps
<1>5. CASE GiveUpCacheFile(t)
  <2>1. Goes(t, "change")
    BY <1>5 DEF GiveUpCacheFile
  <2> DEFINE r == [ent[th[t].found] EXCEPT !.cachepath = FALSE, !.moved = @ \/ is_cache_dir]
  <2>a. ent' = [ent EXCEPT ![th[t].found] = r] /\ th[t].found \in Entities
    BY <1>0, <1>5, <1>a DEF GiveUpCacheFile, Working
  <2>b. r.fds = ent[th[t].found].fds /\ r.path = ent[th[t].found].path /\ r.state = ent[th[t].found].state
    BY <1>0, <2>a DEF EntityType
  <2> HIDE DEF r
  <2>2. \A e \in Entities : ent'[e].fds = ent[e].fds /\ ent'[e].path = ent[e].path /\ ent'[e].state = ent[e].state
    BY <1>0, <2>a, <2>b
  <2>3. fent' = fent /\ except_fent' = except_fent /\ reserved' = reserved /\ th[t].pc = "short"
    BY <1>5 DEF GiveUpCacheFile
  <2> QED
    BY <1>b, <2>1, <2>2, <2>3 DEF WorkKeeps
<1>6. CASE NoSpace(t)
  <2>1. Goes(t, "worked")
    BY <1>6 DEF NoSpace
  <2> QED
    BY <1>6, <1>b, <1>c, <2>1 DEF NoSpace, WorkKeeps
<1>7. CASE ChangeEntityToTempPath(t)
  <2>1. Goes(t, "worked")
    BY <1>7 DEF ChangeEntityToTempPath
  <2> QED
    BY <1>7, <1>b, <1>c, <2>1 DEF ChangeEntityToTempPath, WorkKeeps
<1>8. CASE UnlockEntity(t)
  <2>1. \A e \in Entities : ent'[e].fds = ent[e].fds /\ ent'[e].path = ent[e].path /\ ent'[e].state = ent[e].state
    BY <1>0, <1>8 DEF UnlockEntity, EntityType
  <2>2. th[t].pc # "loading" /\ th'[t].pc # "loading"
    BY <1>0, <1>8 DEF UnlockEntity, Idle, ThreadRecord
  <2>3. CASE th[t].call = "release"
    <3>1. /\ th'[t].call = "close" /\ th'[t].path = th[t].path /\ th'[t].to = th[t].to
          /\ th'[t].fd = th[t].fd /\ th'[t].found = th[t].found
      BY <1>0, <1>8, <2>3 DEF UnlockEntity, ThreadRecord
    <3> QED
      BY <1>8, <2>1, <2>2, <2>3, <3>1 DEF UnlockEntity, WorkKeeps
  <2>4. CASE th[t].call # "release"
    <3>1. th'[t] = Idle /\ th[t].call = "use"
      BY <1>0, <1>8, <1>a, <2>4 DEF UnlockEntity, Working
    <3> QED
      BY <1>8, <2>1, <2>2, <2>4, <3>1 DEF UnlockEntity, WorkKeeps
  <2> QED
    BY <2>3, <2>4
<1> QED
  BY <1>1, <1>2, <1>3, <1>4, <1>5, <1>6, <1>7, <1>8 DEF Works

(* The locks are held as LockInv says after every step. *)
LEMMA LockInvStep == TypeInv /\ NewInv /\ LockInv /\ [Next]_vars => LockInv'
<1> SUFFICES ASSUME TypeInv, NewInv, LockInv, [Next]_vars
             PROVE  LockInv'
  OBVIOUS
<1>0. th \in [Threads -> ThreadType] /\ None \notin Threads
  BY FdManagerAssumption DEF TypeInv, Types
<1>1. CASE UNCHANGED vars
  BY <1>1 DEF vars, LockInv
<1>2. ASSUME NEW t \in Threads, Calls(t)
      PROVE  LockInv'
  BY <1>2, LockInvCalls
<1>3. ASSUME NEW t \in Threads, Manages(t)
      PROVE  LockInv'
  <2>1. ManagerEffect(t)
    BY <1>3, ManagerFacts
  <2>2. th[t].pc \notin Working /\ th'[t].pc \notin Working
    BY <2>1 DEF ManagerEffect, Working
  <2>3. \A s \in Threads : th'[s].pc \in Working => s # t
    BY <2>2
  <2>4. \A s \in Threads : th'[s].pc = "scan" <=> fd_manager_lock' = s
    BY <1>0, <2>1 DEF ManagerEffect, LockInv
  <2>5. \A s \in Threads : th'[s].pc \in Working => ent'[th'[s].found].lock = s
    <3> SUFFICES ASSUME NEW s \in Threads, th'[s].pc \in Working
                 PROVE  ent'[th'[s].found].lock = s
      OBVIOUS
    <3>1. th'[s] = th[s]
      BY <2>1, <2>3 DEF ManagerEffect
    <3>2. th[s].found \in Entities
      BY <1>0, <3>1 DEF ThreadType, ThreadRecord, Shape
    <3> QED
      BY <2>1, <3>1, <3>2 DEF ManagerEffect, LockInv
  <2>6. \A s \in Threads, e \in Entities : ent'[e].lock = s => th'[s].pc \in Working /\ th'[s].found = e
    <3> SUFFICES ASSUME NEW s \in Threads, NEW e \in Entities, ent'[e].lock = s
                 PROVE  th'[s].pc \in Working /\ th'[s].found = e
      OBVIOUS
    <3>1. th[s].pc \in Working /\ th[s].found = e
      BY <2>1 DEF ManagerEffect, LockInv
    <3> QED
      BY <2>1, <2>2, <3>1 DEF ManagerEffect
  <2> QED
    BY <2>4, <2>5, <2>6 DEF LockInv
<1>4. ASSUME NEW t \in Threads, Works(t)
      PROVE  LockInv'
  <2>1. WorkEffect(t)
    BY <1>4, WorkFacts
  <2>2. th[t].pc # "scan" /\ th'[t].pc # "scan"
    BY <2>1 DEF WorkEffect, Working
  <2>3. \A s \in Threads : th'[s].pc = "scan" <=> fd_manager_lock' = s
    BY <2>1, <2>2 DEF WorkEffect, LockInv
  <2>4. \A s \in Threads : th'[s].pc \in Working => ent'[th'[s].found].lock = s
    <3> SUFFICES ASSUME NEW s \in Threads, th'[s].pc \in Working
                 PROVE  ent'[th'[s].found].lock = s
      OBVIOUS
    <3>1. CASE s = t
      BY <2>1, <3>1 DEF WorkEffect, LockInv, Working
    <3>2. CASE s # t
      <4>1. th'[s] = th[s] /\ th[s].found \in Entities
        BY <1>0, <2>1, <3>2 DEF WorkEffect, ThreadType, ThreadRecord, Shape
      <4>2. ent[th[s].found].lock = s
        BY <4>1 DEF LockInv
      <4>3. th[s].found # th[t].found
        BY <1>0, <2>1, <3>2, <4>2 DEF WorkEffect, LockInv
      <4> QED
        BY <2>1, <4>1, <4>2, <4>3 DEF WorkEffect
    <3> QED
      BY <3>1, <3>2
  <2>5. \A s \in Threads, e \in Entities : ent'[e].lock = s => th'[s].pc \in Working /\ th'[s].found = e
    <3> SUFFICES ASSUME NEW s \in Threads, NEW e \in Entities, ent'[e].lock = s
                 PROVE  th'[s].pc \in Working /\ th'[s].found = e
      OBVIOUS
    <3>1. CASE e = th[t].found
      BY <1>0, <2>1, <3>1 DEF WorkEffect, LockInv
    <3>2. CASE e # th[t].found
      <4>1. th[s].pc \in Working /\ th[s].found = e
        BY <2>1, <3>2 DEF WorkEffect, LockInv
      <4> QED
        BY <2>1, <3>2, <4>1 DEF WorkEffect
    <3> QED
      BY <3>1, <3>2
  <2> QED
    BY <2>3, <2>4, <2>5 DEF LockInv
<1> QED
  BY <1>1, <1>2, <1>3, <1>4, NextCases

(* The entities of the map with the temporary paths entered were known before. *)
LEMMA UpdatedKnown == \A e \in InMap(Updated) : e \in InMap(fent) \/ \E p \in Paths : except_fent[p] = e
  BY DEF InMap, Updated, Entry

(* What GotDescriptor gives: a handle, or a thread that goes on to the entity. *)
LEMMA GotDescriptorFacts ==
  ASSUME Types, NEW t \in Threads, NEW e \in Entities, NEW fd \in Nat, GotDescriptor(t, e, fd)
  PROVE  /\ \A s \in Threads \ {t} : th'[s] = th[s]
         /\ \/ /\ th[t].call = "open" /\ th'[t] = Idle
               /\ handles' = handles \cup {[path |-> th[t].path, fd |-> fd, e |-> e]}
            \/ /\ th[t].call # "open" /\ handles' = handles
               /\ th'[t].pc = "lock_entity" /\ th'[t].call = "release" /\ th'[t].path = th[t].path
               /\ th'[t].to = th[t].to /\ th'[t].found = e /\ th'[t].fd = fd
<1>0. th[t] \in ThreadRecord
  BY DEF Types, ThreadType
<1>1. CASE th[t].call = "open"
  BY <1>1, UnlockEffect DEF GotDescriptor
<1>2. CASE th[t].call # "open"
  <2> DEFINE r == [th[t] EXCEPT !.pc = "lock_entity", !.call = "release", !.found = e, !.fd = fd]
  <2>1. /\ r.pc = "lock_entity" /\ r.call = "release" /\ r.path = th[t].path
        /\ r.to = th[t].to /\ r.found = e /\ r.fd = fd
    BY <1>0 DEF ThreadRecord
  <2>2. Unlock(t, r) /\ handles' = handles
    BY <1>2 DEF GotDescriptor
  <2> HIDE DEF r
  <2>3. th'[t] = r /\ \A s \in Threads \ {t} : th'[s] = th[s]
    BY <2>2, UnlockEffect
  <2> QED
    BY <1>2, <2>1, <2>2, <2>3
<1> QED
  BY <1>1, <1>2

LEMMA NewInvManager ==
  ASSUME TypeInv, NewInv, NEW t \in Threads, Manages(t)
  PROVE  NewInv'
<1>0. /\ th \in [Threads -> ThreadType] /\ ent \in [Entities -> EntityType] /\ th[t] \in ThreadRecord
      /\ None \notin Entities /\ except_fent \in [Paths -> Entities \cup {None}] /\ Types
      /\ GetUnusedMinPseudoFd \in Nat
  BY FdManagerAssumption, FreshDescriptor DEF TypeInv, Types, ThreadType
<1> SUFFICES ASSUME NEW e \in Entities, ent'[e].state = "new"
             PROVE  ent'[e] = NewEntity /\ Unknown(e)'
  BY DEF NewInv
<1>1. \A f \in Entities : th[t].found = f => ent[f].state # "new"
  BY DEF NewInv, Unknown
<1>2. ent[e].state = "new" => ent[e] = NewEntity /\ Unknown(e) /\ e # th[t].found
  BY DEF NewInv, Unknown
<1>b. ASSUME NEW state, Unlock(t, state), state.found \in {th[t].found, None}, ent[e].state = "new"
      PROVE  \A s \in Threads : th'[s].found # e
  <2>1. th'[t] = state /\ \A s \in Threads \ {t} : th'[s] = th[s]
    BY <1>0, <1>b, UnlockEffect
  <2>2. th'[t].found \in {th[t].found, None}
    BY <1>b, <2>1, Zenon
  <2> QED
    BY <1>0, <1>2, <1>b, <2>1, <2>2 DEF Unknown
<1>c. Idle.found \in {th[t].found, None}
  BY DEF Idle
<1>3. CASE LockManager(t)
  <2>1. PICK look \in Looks(t, Updated) :
          th' = [th EXCEPT ![t] = [th[t] EXCEPT !.pc = "scan", !.found = look.found, !.todo = look.todo]]
    BY <1>0, <1>3 DEF LockManager
  <2>2. look.found \in InMap(Updated) \cup {None, th[t].found}
    BY <1>0, <1>3, LooksShape, UpdatedType DEF LockManager
  <2>3. ent[e].state = "new" /\ ent'[e] = ent[e]
    BY <1>3 DEF LockManager
  <2>4. e \notin InMap(Updated)
    BY <1>2, <2>3, UpdatedKnown DEF Unknown, InMap
  <2>5. th'[t].found = look.found /\ \A s \in Threads \ {t} : th'[s] = th[s]
    BY <1>0, <2>1 DEF ThreadRecord
  <2>6. \A s \in Threads : th'[s].found # e
    BY <1>0, <1>2, <2>2, <2>3, <2>4, <2>5 DEF Unknown
  <2>7. (\A x \in fent' : x.e # e) /\ (\A p \in Paths : except_fent'[p] # e) /\ handles' = handles
    BY <1>0, <1>3, <2>4 DEF LockManager, InMap, Emptied
  <2> QED
    BY <1>2, <2>3, <2>6, <2>7 DEF Unknown
<1>4. CASE Scan(t)
  <2>1. \A s \in Threads : th'[s].found = th[s].found
    BY <1>0, <1>4 DEF Scan, ThreadType, ThreadRecord
  <2> QED
    BY <1>2, <1>4, <2>1 DEF Scan, Unknown
<1>5. CASE OpenAgain(t)
  <2>1. th[t].found \in Entities
    BY <1>0, <1>5 DEF OpenAgain, Entered, ThreadRecord
  <2>2. ent[e].state = "new" /\ e # th[t].found /\ ent'[e] = ent[e]
    BY <1>0, <1>1, <1>5, <2>1 DEF OpenAgain, EntityType
  <2>3. GotDescriptor(t, th[t].found, GetUnusedMinPseudoFd)
    BY <1>5 DEF OpenAgain
  <2>4. \A s \in Threads : th'[s].found # e
    BY <1>0, <1>2, <2>1, <2>2, <2>3, GotDescriptorFacts DEF Unknown, Idle
  <2>5. \A h \in handles' : h.e # e
    BY <1>0, <1>2, <2>1, <2>2, <2>3, GotDescriptorFacts DEF Unknown
  <2> QED
    BY <1>2, <1>5, <2>2, <2>4, <2>5 DEF OpenAgain, Unknown
<1>6. CASE OpenNew(t)
  <2>1. PICK f \in Entities :
          /\ ent' = [ent EXCEPT ![f] = [NewEntity EXCEPT !.state = "open", !.path = th[t].path,
                                                         !.cachepath = is_cache_dir, !.fds = {GetUnusedMinPseudoFd}]]
          /\ fent' = fent \cup {Entry(IF is_cache_dir THEN th[t].path ELSE Temp, f)}
          /\ GotDescriptor(t, f, GetUnusedMinPseudoFd)
    BY <1>6 DEF OpenNew
  <2>2. ent[e].state = "new" /\ e # f /\ ent'[e] = ent[e]
    BY <1>0, <2>1 DEF NewEntity
  <2>3. \A s \in Threads : th'[s].found # e
    BY <1>0, <1>2, <2>1, <2>2, GotDescriptorFacts DEF Unknown, Idle
  <2>4. \A h \in handles' : h.e # e
    BY <1>0, <1>2, <2>1, <2>2, GotDescriptorFacts DEF Unknown
  <2>5. \A x \in fent' : x.e # e
    BY <1>2, <2>1, <2>2 DEF Unknown, Entry
  <2> QED
    BY <1>2, <1>6, <2>2, <2>3, <2>4, <2>5 DEF OpenNew, Unknown
<1>7. CASE OpenNothing(t) \/ GotEntity(t)
  <2>1. PICK state \in {Idle, [th[t] EXCEPT !.pc = "lock_entity"],
                        [th[t] EXCEPT !.pc = "lock_manager", !.call = "close"]} : Unlock(t, state)
    BY <1>7 DEF OpenNothing, GotEntity
  <2>2. state.found \in {th[t].found, None}
    <3>1. CASE state = Idle
      BY <1>c, <3>1
    <3>2. CASE state = [th[t] EXCEPT !.pc = "lock_entity"]
      BY <1>0, <3>2 DEF ThreadRecord
    <3>3. CASE state = [th[t] EXCEPT !.pc = "lock_manager", !.call = "close"]
      BY <1>0, <3>3 DEF ThreadRecord
    <3> QED
      BY <2>1, <3>1, <3>2, <3>3
  <2>3. ent' = ent /\ fent' = fent /\ except_fent' = except_fent /\ handles' = handles
    BY <1>7 DEF OpenNothing, GotEntity
  <2>4. \A s \in Threads : th'[s].found # e
    BY <1>b, <2>1, <2>2, <2>3
  <2> QED
    BY <1>2, <2>3, <2>4 DEF Unknown
<1>8. CASE RenameEntity(t)
  <2>1. th[t].found \in Entities
    BY <1>0, <1>8 DEF RenameEntity, Entered, ThreadRecord
  <2>2. ent[e].state = "new" /\ e # th[t].found /\ ent'[e] = ent[e]
    BY <1>0, <1>1, <1>8, <2>1 DEF RenameEntity, EntityType
  <2>3. \A s \in Threads : th'[s].found # e
    BY <1>8, <1>b, <1>c, <2>2 DEF RenameEntity
  <2>4. \A h \in handles' : h.e # e
    BY <1>0, <1>2, <1>8, <2>2 DEF RenameEntity, Moved, Unknown, Types
  <2>5. \A x \in fent' : x.e # e
    BY <1>2, <1>8, <2>2 DEF RenameEntity, Unknown, Entry
  <2> QED
    BY <1>2, <1>8, <2>2, <2>3, <2>4, <2>5 DEF RenameEntity, Unknown
<1>9. CASE RenameFails(t)
  <2>1. th[t].found \in Entities
    BY <1>0, <1>9 DEF RenameFails, Entered, ThreadRecord
  <2>2. ent[e].state = "new" /\ e # th[t].found /\ ent'[e] = ent[e]
    BY <1>0, <1>1, <1>9, <2>1 DEF RenameFails, NewEntity
  <2>3. \A s \in Threads : th'[s].found # e
    BY <1>9, <1>b, <1>c, <2>2 DEF RenameFails
  <2>4. \A h \in handles' : h.e # e
    BY <1>0, <1>2, <1>9, <2>2 DEF RenameFails, Moved, Unknown, Types
  <2>5. \A x \in fent' : x.e # e
    BY <1>2, <1>9, <2>2 DEF RenameFails, Unknown
  <2> QED
    BY <1>2, <1>9, <2>2, <2>3, <2>4, <2>5 DEF RenameFails, Unknown
<1>10. CASE RenameNothing(t)
  <2>1. ent' = ent /\ fent' = fent /\ except_fent' = except_fent
    BY <1>10 DEF RenameNothing
  <2>2. \A s \in Threads : th'[s].found # e
    BY <1>10, <1>b, <1>c, <2>1 DEF RenameNothing
  <2>3. \A h \in handles' : h.e # e
    BY <1>0, <1>2, <1>10, <2>1 DEF RenameNothing, Moved, Unknown, Types
  <2> QED
    BY <1>2, <2>1, <2>2, <2>3 DEF Unknown
<1>11. CASE CloseDescriptor(t)
  <2>1. th[t].found \in Entities
    BY <1>0, <1>11 DEF CloseDescriptor, Entered, ThreadRecord
  <2>2. ent[e].state = "new" /\ e # th[t].found /\ ent'[e] = ent[e]
    BY <1>0, <1>1, <1>11, <2>1 DEF CloseDescriptor, EntityType
  <2>3. \A s \in Threads : th'[s].found # e
    BY <1>11, <1>b, <1>c, <2>2 DEF CloseDescriptor
  <2>4. \A x \in fent' : x.e # e
    BY <1>2, <1>11, <2>2 DEF CloseDescriptor, Unknown
  <2> QED
    BY <1>2, <1>11, <2>2, <2>3, <2>4 DEF CloseDescriptor, Unknown
<1> QED
  BY <1>3, <1>4, <1>5, <1>6, <1>7, <1>8, <1>9, <1>10, <1>11 DEF Manages

(* An object is made by OpenNew, before anybody has it. *)
LEMMA NewInvStep == TypeInv /\ NewInv /\ [Next]_vars => NewInv'
<1> SUFFICES ASSUME TypeInv, NewInv, [Next]_vars
             PROVE  NewInv'
  OBVIOUS
<1>0. /\ th \in [Threads -> ThreadType] /\ ent \in [Entities -> EntityType]
      /\ None \notin Entities /\ except_fent \in [Paths -> Entities \cup {None}]
  BY FdManagerAssumption DEF TypeInv, Types
<1>1. CASE UNCHANGED vars
  BY <1>1 DEF vars, NewInv, Unknown
<1>2. ASSUME NEW t \in Threads, Calls(t)
      PROVE  NewInv'
  <2>1. CallEffect(t)
    BY <1>2, CallFacts DEF TypeInv
  <2>2. \A s \in Threads : th'[s].found = th[s].found \/ th'[s].found = None
    BY <2>1 DEF CallEffect, Idle
  <2> QED
    BY <1>0, <2>1, <2>2 DEF CallEffect, NewInv, Unknown
<1>3. ASSUME NEW t \in Threads, Works(t)
      PROVE  NewInv'
  <2>1. WorkEffect(t) /\ WorkKeeps(t)
    BY <1>3, WorkFacts, WorkKept
  <2>2. \A s \in Threads : th'[s].found = th[s].found \/ th'[s].found = None
    BY <2>1 DEF WorkEffect, WorkKeeps, Idle
  <2> SUFFICES ASSUME NEW e \in Entities, ent'[e].state = "new"
               PROVE  ent'[e] = NewEntity /\ Unknown(e)'
    BY DEF NewInv
  <2>3. ent[e].state = "new" /\ ent[e] = NewEntity /\ Unknown(e)
    BY <2>1 DEF WorkKeeps, NewInv
  <2>4. e # th[t].found
    BY <2>3 DEF Unknown
  <2>5. ent'[e] = ent[e]
    BY <2>1, <2>4 DEF WorkEffect
  <2>6. \A p \in Paths : except_fent'[p] # e
    BY <1>0, <2>1, <2>3, <2>4 DEF WorkKeeps, Unknown, Emptied
  <2>7. \A x \in fent' : x.e # e
    BY <2>1, <2>3, UpdatedKnown DEF WorkKeeps, Unknown, InMap
  <2>8. \A s \in Threads : th'[s].found # e
    BY <1>0, <2>2, <2>3 DEF Unknown
  <2>9. \A h \in handles' : h.e # e
    BY <2>1, <2>3 DEF WorkEffect, Unknown
  <2> QED
    BY <2>3, <2>5, <2>6, <2>7, <2>8, <2>9 DEF Unknown
<1>4. ASSUME NEW t \in Threads, Manages(t)
      PROVE  NewInv'
  BY <1>4, NewInvManager
<1> QED
  BY <1>1, <1>2, <1>3, <1>4, NextCases

(***************************************************************************)
(* Threads wait for each other in a circle only if one of them waits in    *)
(* ChangeEntityToTempPath: who has an entity waits for nothing else, and   *)
(* who has the manager waits for entities only.                            *)
(***************************************************************************)
THEOREM DeadlockNeedsTempPath == Spec => []OnlyTempPathDeadlocks
<1>1. TypeInv /\ LockInv => OnlyTempPathDeadlocks
  <2> SUFFICES ASSUME TypeInv, LockInv, NEW set \in SUBSET Threads, WaitCycle(set),
                      \A t \in set : th[t].pc # "change"
               PROVE  FALSE
    BY DEF OnlyTempPathDeadlocks
  <2>0. th \in [Threads -> ThreadType] /\ ent \in [Entities -> EntityType] /\ None \notin Threads
    BY FdManagerAssumption DEF TypeInv, Types
  <2>1. ASSUME NEW t \in set, th[t].pc \in Working
        PROVE  FALSE
    <3>1. th[t].pc # "lock_manager" /\ th[t].pc # "change" /\ th[t].pc # "lock_entity" /\ th[t].pc # "scan"
      BY <2>1 DEF Working
    <3>2. Holder(t) = {}
      BY <3>1 DEF Holder
    <3> QED
      BY <2>1, <3>2 DEF WaitCycle
  <2>2. ASSUME NEW e \in Entities, ent[e].lock \in set
        PROVE  FALSE
    <3>1. th[ent[e].lock].pc \in Working
      BY <2>2 DEF LockInv
    <3> QED
      BY <2>1, <2>2, <3>1
  <2>3. ASSUME NEW t \in set, th[t].pc = "scan"
        PROVE  FALSE
    <3>0. th[t].todo \subseteq Entities /\ th[t].found \in Entities \cup {None}
      BY <2>0 DEF ThreadType, ThreadRecord
    <3>1. Holder(t) \cap set # {}
      BY <2>3 DEF WaitCycle
    <3>2. CASE th[t].todo # {}
      <4>1. Holder(t) \subseteq {ent[e].lock : e \in th[t].todo}
        BY <2>3, <3>2 DEF Holder
      <4>2. PICK e \in th[t].todo : ent[e].lock \in set
        BY <3>1, <4>1
      <4> QED
        BY <2>2, <3>0, <4>2
    <3>3. CASE th[t].todo = {}
      <4>1. th[t].found # None /\ Holder(t) \subseteq {ent[th[t].found].lock}
        BY <2>3, <3>1, <3>3 DEF Holder
      <4> QED
        BY <2>2, <3>0, <3>1, <4>1
    <3> QED
      BY <3>2, <3>3
  <2>4. ASSUME NEW t \in set, th[t].pc = "lock_manager"
        PROVE  FALSE
    <3>1. Holder(t) = {fd_manager_lock} \ {None} /\ Holder(t) \cap set # {}
      BY <2>4 DEF Holder, WaitCycle
    <3>2. fd_manager_lock \in set
      BY <3>1
    <3>3. th[fd_manager_lock].pc = "scan"
      BY <3>2 DEF LockInv
    <3> QED
      BY <2>3, <3>2, <3>3
  <2>5. ASSUME NEW t \in set, th[t].pc = "lock_entity"
        PROVE  FALSE
    <3>1. th[t].found \in Entities
      BY <2>0, <2>5 DEF ThreadType, ThreadRecord, Shape
    <3>2. Holder(t) = {ent[th[t].found].lock} \ {None} /\ Holder(t) \cap set # {}
      BY <2>5 DEF Holder, WaitCycle
    <3> QED
      BY <2>2, <3>1, <3>2
  <2>6. ASSUME NEW t \in set, th[t].pc = "idle"
        PROVE  FALSE
    <3>1. Holder(t) = {} /\ Holder(t) \cap set # {}
      BY <2>6 DEF Holder, WaitCycle
    <3> QED
      BY <3>1
  <2>7. PICK t \in set : TRUE
    BY DEF WaitCycle
  <2>8. th[t].pc \in {"idle", "lock_manager", "scan", "lock_entity"} \cup Working
    BY <2>0 DEF ThreadType, ThreadRecord
  <2> QED
    BY <2>1, <2>3, <2>4, <2>5, <2>6, <2>8
<1> QED
  BY <1>1, TypeInvInit, LockInvInit, TypeInvStep, NewInvStep, LockInvStep, PTL DEF Spec

-----------------------------------------------------------------------------
(***************************************************************************)
(* The reserved space.                                                     *)
(***************************************************************************)
HeldBy == {t \in Threads : th[t].held}

ReservedInv == reserved = Cardinality(HeldBy)

LEMMA ReservedInvInit == Init => ReservedInv
<1> SUFFICES ASSUME Init
             PROVE  ReservedInv
  OBVIOUS
<1>1. HeldBy = {}
  BY DEF Init, HeldBy, Idle
<1> QED
  BY <1>1, FS_EmptySet DEF ReservedInv, Init

(* One thread at a time gets or gives back a reservation. *)
LEMMA ReservedInvStep == TypeInv /\ NewInv /\ ReservedInv /\ [Next]_vars => ReservedInv'
<1> SUFFICES ASSUME TypeInv, NewInv, ReservedInv, [Next]_vars
             PROVE  ReservedInv'
  OBVIOUS
<1>0. TypeInv' /\ IsFiniteSet(HeldBy)
  <2>1. HeldBy \in SUBSET Threads
    BY DEF HeldBy
  <2> QED
    BY <2>1, TypeInvStep, FdManagerAssumption, FS_Subset
<1>1. \A t \in Threads : (th[t].held <=> th[t].pc = "loading") /\ (th'[t].held <=> th'[t].pc = "loading")
  BY <1>0 DEF TypeInv, Types, ThreadType, Shape
<1>2. CASE UNCHANGED vars
  BY <1>2 DEF vars, ReservedInv, HeldBy
<1>3. ASSUME NEW t \in Threads, Calls(t) \/ Manages(t)
      PROVE  ReservedInv'
  <2>1. /\ reserved' = reserved /\ \A s \in Threads \ {t} : th'[s] = th[s]
        /\ ~th[t].held /\ ~th'[t].held
    <3>1. CASE Calls(t)
      BY <3>1, CallFacts DEF CallEffect, Idle, TypeInv
    <3>2. CASE Manages(t)
      BY <1>1, <3>2, ManagerFacts DEF ManagerEffect
    <3> QED
      BY <1>3, <3>1, <3>2
  <2>2. HeldBy' = HeldBy
    BY <2>1 DEF HeldBy
  <2> QED
    BY <2>1, <2>2 DEF ReservedInv
<1>4. ASSUME NEW t \in Threads, Works(t)
      PROVE  ReservedInv'
  <2>1. WorkEffect(t) /\ WorkKeeps(t)
    BY <1>4, WorkFacts, WorkKept
  <2>2. \A s \in Threads \ {t} : th'[s] = th[s]
    BY <2>1 DEF WorkEffect
  <2>3. CASE reserved' = reserved + 1 /\ th[t].pc # "loading" /\ th'[t].pc = "loading"
    <3>1. HeldBy' = HeldBy \cup {t} /\ t \notin HeldBy
      BY <1>1, <2>2, <2>3 DEF HeldBy
    <3> QED
      BY <1>0, <2>3, <3>1, FS_AddElement DEF ReservedInv
  <2>4. CASE reserved' = reserved - 1 /\ th[t].pc = "loading" /\ th'[t].pc # "loading"
    <3>1. HeldBy' = HeldBy \ {t} /\ t \in HeldBy
      BY <1>1, <2>2, <2>4 DEF HeldBy
    <3> QED
      BY <1>0, <2>4, <3>1, FS_RemoveElement DEF ReservedInv
  <2>5. CASE reserved' = reserved /\ th[t].pc # "loading" /\ th'[t].pc # "loading"
    <3>1. HeldBy' = HeldBy
      BY <1>1, <2>2, <2>5 DEF HeldBy
    <3> QED
      BY <2>5, <3>1 DEF ReservedInv
  <2> QED
    BY <2>1, <2>3, <2>4, <2>5 DEF WorkKeeps
<1> QED
  BY <1>2, <1>3, <1>4, NextCases

-----------------------------------------------------------------------------
(***************************************************************************)
(* Descriptors are unique.                                                 *)
(***************************************************************************)
OneOwner == \A e, f \in Entities : e # f => ent[e].fds \cap ent[f].fds = {}

LEMMA OneOwnerInit == Init => OneOwner
  BY DEF Init, OneOwner, NewEntity

(* A descriptor that is given is one that no entity uses. *)
LEMMA OneOwnerStep == TypeInv /\ NewInv /\ OneOwner /\ [Next]_vars => OneOwner'
<1> SUFFICES ASSUME TypeInv, NewInv, OneOwner, [Next]_vars
             PROVE  OneOwner'
  OBVIOUS
<1>0. ent \in [Entities -> EntityType] /\ th \in [Threads -> ThreadType]
  BY DEF TypeInv, Types
<1>1. ent' = ent => OneOwner'
  BY DEF OneOwner
<1>2. (\A e \in Entities : ent'[e].fds \subseteq ent[e].fds) => OneOwner'
  BY DEF OneOwner
<1>3. ASSUME NEW g \in Entities, ent'[g].fds \subseteq ent[g].fds \cup {GetUnusedMinPseudoFd},
             \A e \in Entities \ {g} : ent'[e].fds = ent[e].fds
      PROVE  OneOwner'
  <2>1. \A e \in Entities : GetUnusedMinPseudoFd \notin ent[e].fds
    BY FreshDescriptor DEF TypeInv, UsedFds
  <2> QED
    BY <1>3, <2>1 DEF OneOwner
<1>4. CASE UNCHANGED vars
  BY <1>1, <1>4 DEF vars
<1>5. ASSUME NEW t \in Threads, Calls(t) \/ Works(t)
      PROVE  OneOwner'
  <2>1. CASE Calls(t)
    BY <1>1, <2>1, CallFacts DEF CallEffect, TypeInv
  <2>2. CASE Works(t)
    BY <1>2, <2>2, WorkKept DEF WorkKeeps
  <2> QED
    BY <1>5, <2>1, <2>2
<1>6. ASSUME NEW t \in Threads, Manages(t)
      PROVE  OneOwner'
  <2>1. CASE LockManager(t) \/ Scan(t) \/ OpenNothing(t) \/ GotEntity(t) \/ RenameNothing(t)
    BY <1>1, <2>1 DEF LockManager, Scan, OpenNothing, GotEntity, RenameNothing
  <2>2. CASE OpenAgain(t)
    <3>1. th[t].found \in Entities
      BY <1>0, <2>2 DEF OpenAgain, Entered, ThreadType, ThreadRecord
    <3>2. /\ ent'[th[t].found].fds = ent[th[t].found].fds \cup {GetUnusedMinPseudoFd}
          /\ \A e \in Entities \ {th[t].found} : ent'[e].fds = ent[e].fds
      BY <1>0, <2>2, <3>1 DEF OpenAgain, EntityType
    <3> QED
      BY <1>3, <3>1, <3>2
  <2>3. CASE OpenNew(t)
    <3>1. PICK f \in Entities :
            /\ ent[f].state = "new"
            /\ ent' = [ent EXCEPT ![f] = [NewEntity EXCEPT !.state = "open", !.path = th[t].path,
                                                           !.cachepath = is_cache_dir, !.fds = {GetUnusedMinPseudoFd}]]
      BY <2>3 DEF OpenNew
    <3>2. /\ ent'[f].fds = {GetUnusedMinPseudoFd}
          /\ \A e \in Entities \ {f} : ent'[e].fds = ent[e].fds
      BY <1>0, <3>1 DEF NewEntity
    <3> QED
      BY <1>3, <3>2
  <2>4. CASE RenameEntity(t)
    <3>1. \A e \in Entities : ent'[e].fds = ent[e].fds
      BY <1>0, <2>4 DEF RenameEntity, EntityType
    <3> QED
      BY <1>2, <3>1
  <2>5. CASE RenameFails(t)
    <3>1. \A e \in Entities : ent'[e].fds \subseteq ent[e].fds
      BY <1>0, <2>5 DEF RenameFails, NewEntity
    <3> QED
      BY <1>2, <3>1
  <2>6. CASE CloseDescriptor(t)
    <3>1. \A e \in Entities : ent'[e].fds \subseteq ent[e].fds
      BY <1>0, <2>6 DEF CloseDescriptor, EntityType
    <3> QED
      BY <1>2, <3>1
  <2> QED
    BY <1>6, <2>1, <2>2, <2>3, <2>4, <2>5, <2>6 DEF Manages
<1> QED
  BY <1>4, <1>5, <1>6, NextCases

-----------------------------------------------------------------------------
(***************************************************************************)
(* The keys, and what the holder of fd_manager_lock has found: with the    *)
(* lock held the map stays what it was when it was searched, and nobody    *)
(* is to get a temporary path.                                             *)
(***************************************************************************)
KeysUnique == \A x, y \in fent : x.key \in Paths /\ x.key = y.key => x = y

Answer(t) ==
    \/ th[t].found = None /\ FindByPath(fent, th[t].path) = {}
    \/ th[t].found \in FindByPath(fent, th[t].path)

ScanInv ==
    \A t \in Threads : th[t].pc = "scan" =>
        /\ except_fent = Emptied
        /\ th[t].call \in Openers => Answer(t)

KeysInv == KeysUnique /\ ScanInv

LEMMA KeysInvInit == Init => KeysInv
  BY DEF Init, KeysInv, KeysUnique, ScanInv, Idle

(* What is found depends on the map, the descriptors and the paths only. *)
LEMMA FindSame ==
  ASSUME Types, NEW path, fent' = fent, is_cache_dir' = is_cache_dir,
         \A e \in Entities : ent'[e].fds = ent[e].fds /\ ent'[e].path = ent[e].path
  PROVE  FindByPath(fent, path)' = FindByPath(fent, path)
<1>1. InMap(fent) \subseteq Entities
  BY DEF Types, InMap
<1>2. {e \in InMap(fent) : ent'[e].fds # {} /\ ent'[e].path = path} = {e \in InMap(fent) : ent[e].fds # {} /\ ent[e].path = path}
  BY <1>1
<1>3. InMap(fent)' = InMap(fent) /\ Keyed(fent, path)' = Keyed(fent, path) /\ InMap(Keyed(fent, path))' = InMap(Keyed(fent, path))
  BY DEF InMap, Keyed
<1> QED
  BY <1>2, <1>3 DEF FindByPath

(* The map stays searched while another thread makes a step. *)
LEMMA ScanKept ==
  ASSUME Types, ScanInv, NEW s \in Threads, th[s].pc = "scan", fent' = fent, except_fent' = except_fent,
         is_cache_dir' = is_cache_dir, \A e \in Entities : ent'[e].fds = ent[e].fds /\ ent'[e].path = ent[e].path,
         th'[s].call = th[s].call, th'[s].path = th[s].path, th'[s].found = th[s].found
  PROVE  except_fent' = Emptied /\ (th'[s].call \in Openers => Answer(s)')
<1>1. PICK path : path = th[s].path
  OBVIOUS
<1>2. FindByPath(fent, path)' = FindByPath(fent, path)
  BY FindSame
<1>3. FindByPath(fent, th[s].path)' = FindByPath(fent, path)'
  BY <1>1 DEF FindByPath, Keyed, InMap
<1>4. th'[s].call \in Openers => Answer(s)
  BY DEF ScanInv
<1> QED
  BY <1>1, <1>2, <1>3, <1>4 DEF ScanInv, Answer

(* Where the lock is free or another thread has it nobody scans. *)
LEMMA ScanInvStep == TypeInv /\ NewInv /\ LockInv /\ KeysInv /\ [Next]_vars => ScanInv'
<1> SUFFICES ASSUME TypeInv, NewInv, LockInv, KeysInv, [Next]_vars, NEW s \in Threads, th'[s].pc = "scan"
             PROVE  except_fent' = Emptied /\ (th'[s].call \in Openers => Answer(s)')
  BY DEF ScanInv, Emptied
<1>0. /\ th \in [Threads -> ThreadType] /\ ent \in [Entities -> EntityType] /\ Types /\ ScanInv
      /\ None \notin Entities /\ None \notin Threads /\ th[s] \in ThreadRecord
  BY FdManagerAssumption DEF TypeInv, Types, KeysInv, ThreadType
<1>1. fd_manager_lock' = s
  BY LockInvStep DEF LockInv
<1>2. CASE UNCHANGED vars
  BY <1>0, <1>2, ScanKept DEF vars
<1>3. ASSUME NEW t \in Threads, Calls(t)
      PROVE  except_fent' = Emptied /\ (th'[s].call \in Openers => Answer(s)')
  <2>1. CallEffect(t)
    BY <1>0, <1>3, CallFacts
  <2>2. th'[s] = th[s]
    BY <2>1 DEF CallEffect, Idle
  <2> QED
    BY <1>0, <2>1, <2>2, ScanKept DEF CallEffect
<1>4. ASSUME NEW t \in Threads, Works(t)
      PROVE  except_fent' = Emptied /\ (th'[s].call \in Openers => Answer(s)')
  <2>1. WorkEffect(t) /\ WorkKeeps(t)
    BY <1>4, WorkFacts, WorkKept
  <2>2. th'[s] = th[s] /\ fd_manager_lock # None
    BY <1>0, <1>1, <2>1 DEF WorkEffect, Working
  <2> QED
    BY <1>0, <2>1, <2>2, ScanKept DEF WorkEffect, WorkKeeps
<1>5. ASSUME NEW t \in Threads, Manages(t)
      PROVE  except_fent' = Emptied /\ (th'[s].call \in Openers => Answer(s)')
  <2>1. ManagerEffect(t)
    BY <1>5, ManagerFacts
  <2>2. s = t /\ (LockManager(t) \/ Scan(t))
    <3>1. fd_manager_lock' \in {t, fd_manager_lock}
      BY <1>0, <1>1, <2>1 DEF ManagerEffect
    <3>2. s = t
      BY <1>0, <1>1, <2>1, <3>1 DEF ManagerEffect, LockInv
    <3>3. fd_manager_lock' # None
      BY <1>0, <1>1
    <3>4. \A e \in Entities, fd \in Nat : ~GotDescriptor(t, e, fd)
      BY <1>0, <3>3, UnlockEffect DEF GotDescriptor
    <3>5. ~OpenAgain(t) /\ ~OpenNew(t)
      <4>1. GetUnusedMinPseudoFd \in Nat /\ (th[t].found # None => th[t].found \in Entities)
        BY <1>0, <3>2, FreshDescriptor DEF TypeInv, ThreadRecord
      <4> QED
        BY <3>4, <4>1 DEF OpenAgain, OpenNew, Entered
    <3>6. \A state : ~Unlock(t, state)
      BY <1>0, <3>3 DEF Unlock
    <3> QED
      BY <1>5, <3>2, <3>5, <3>6 DEF Manages, OpenNothing, GotEntity, RenameEntity, RenameFails, RenameNothing, CloseDescriptor
  <2>3. CASE Scan(t)
    <3>1. /\ th'[s].call = th[s].call /\ th'[s].path = th[s].path /\ th'[s].found = th[s].found
          /\ th[s].pc = "scan"
      BY <1>0, <2>2, <2>3 DEF Scan, ThreadRecord
    <3> QED
      BY <1>0, <2>3, <3>1, ScanKept DEF Scan
  <2>4. CASE LockManager(t)
    <3>1. fent' = Updated /\ except_fent' = Emptied /\ ent' = ent /\ is_cache_dir' = is_cache_dir
      BY <2>4 DEF LockManager
    <3>2. PICK look \in Looks(t, Updated) :
             th' = [th EXCEPT ![t] = [th[t] EXCEPT !.pc = "scan", !.found = look.found, !.todo = look.todo]]
      BY <1>0, <2>4 DEF LockManager
    <3>3. th'[s].found = look.found /\ th'[s].path = th[s].path /\ th'[s].call = th[s].call
      BY <1>0, <2>2, <3>2 DEF ThreadRecord
    <3>4. ASSUME th[s].call \in Openers
          PROVE  Answer(s)'
      <4>1. PICK path : path = th[s].path
        OBVIOUS
      <4>2. look.found = One(FindByPath(Updated, path))
        BY <2>2, <3>4, <4>1 DEF Looks, Openers
      <4>3. FindByPath(Updated, path) \subseteq Entities
        BY <1>0, UpdatedType DEF FindByPath, InMap, Keyed
      <4>4. FindByPath(fent, th[s].path)' = FindByPath(Updated, path)
        BY <3>1, <3>3, <4>1 DEF FindByPath, Keyed, InMap
      <4>5. CASE FindByPath(Updated, path) = {}
        BY <3>3, <4>2, <4>4, <4>5, OneOfNothing DEF Answer
      <4>6. CASE FindByPath(Updated, path) # {}
        BY <3>3, <4>2, <4>4, <4>6, OneIsMember DEF Answer
      <4> QED
        BY <4>5, <4>6
    <3> QED
      BY <3>1, <3>3, <3>4
  <2> QED
    BY <2>2, <2>3, <2>4
<1> QED
  BY <1>2, <1>3, <1>4, <1>5, NextCases

(* A path becomes a key when it was none, or in the place of the entry it had. *)
LEMMA KeysUniqueStep == TypeInv /\ NewInv /\ LockInv /\ KeysInv /\ [Next]_vars => KeysUnique'
<1> SUFFICES ASSUME TypeInv, NewInv, LockInv, KeysInv, [Next]_vars
             PROVE  KeysUnique'
  OBVIOUS
<1>0. /\ KeysUnique /\ ScanInv /\ Temp \notin Paths /\ Types /\ th \in [Threads -> ThreadType]
  BY FdManagerAssumption DEF KeysInv, TypeInv, Types
<1>1. fent' \subseteq fent => KeysUnique'
  BY <1>0 DEF KeysUnique
<1>2. fent' = Updated => KeysUnique'
  BY <1>0 DEF KeysUnique, Updated, Entry
<1>3. CASE UNCHANGED vars
  BY <1>1, <1>3 DEF vars
<1>4. ASSUME NEW t \in Threads, Calls(t) \/ Works(t)
      PROVE  KeysUnique'
  <2>1. CASE Calls(t)
    BY <1>0, <1>1, <2>1, CallFacts DEF CallEffect
  <2>2. CASE Works(t)
    BY <1>1, <1>2, <2>2, WorkKept DEF WorkKeeps
  <2> QED
    BY <1>4, <2>1, <2>2
<1>5. ASSUME NEW t \in Threads, Manages(t)
      PROVE  KeysUnique'
  <2>1. CASE Scan(t) \/ OpenAgain(t) \/ OpenNothing(t) \/ GotEntity(t) \/ RenameNothing(t)
    BY <1>1, <2>1 DEF Scan, OpenAgain, OpenNothing, GotEntity, RenameNothing
  <2>2. CASE RenameFails(t) \/ CloseDescriptor(t)
    <3>1. fent' \subseteq fent
      BY <2>2 DEF RenameFails, CloseDescriptor
    <3> QED
      BY <1>1, <3>1
  <2>3. CASE LockManager(t)
    BY <1>2, <2>3 DEF LockManager
  <2>4. CASE RenameEntity(t)
    <3> DEFINE entry == Entry(IF ent[th[t].found].cachepath THEN th[t].to ELSE Temp, th[t].found)
    <3>1. fent' = {x \in fent : ~(x.e = th[t].found /\ x.key \in {th[t].path, Temp}) /\ x.key # th[t].to} \cup {entry}
      BY <2>4 DEF RenameEntity
    <3>2. entry.key \in {th[t].to, Temp}
      BY DEF Entry
    <3> HIDE DEF entry
    <3> QED
      BY <1>0, <3>1, <3>2 DEF KeysUnique
  <2>5. CASE OpenNew(t)
    <3>1. PICK entry : /\ fent' = fent \cup {entry}
                       /\ entry.key = IF is_cache_dir THEN th[t].path ELSE Temp
      <4>1. PICK e \in Entities : fent' = fent \cup {Entry(IF is_cache_dir THEN th[t].path ELSE Temp, e)}
        BY <2>5 DEF OpenNew
      <4>2. Entry(IF is_cache_dir THEN th[t].path ELSE Temp, e).key = IF is_cache_dir THEN th[t].path ELSE Temp
        BY DEF Entry
      <4> QED
        BY <4>1, <4>2, Zenon
    <3>2. th[t].pc = "scan" /\ th[t].call \in Openers /\ th[t].found = None
      BY <2>5 DEF OpenNew, Opens, AtEntity, Openers
    <3>3. FindByPath(fent, th[t].path) = {}
      <4>1. FindByPath(fent, th[t].path) \subseteq Entities
        BY <1>0 DEF Types, FindByPath, InMap, Keyed
      <4> QED
        BY <1>0, <3>2, <4>1, FdManagerAssumption DEF ScanInv, Answer
    <3>4. is_cache_dir => \A x \in fent : x.key # th[t].path
      <4>1. InMap(Keyed(fent, th[t].path)) = {} => Keyed(fent, th[t].path) = {}
        BY DEF InMap
      <4>2. Keyed(fent, th[t].path) = {}\/ ~is_cache_dir
        BY <3>3, <4>1 DEF FindByPath
      <4> QED
        BY <4>2 DEF Keyed
    <3> QED
      BY <1>0, <3>1, <3>4 DEF KeysUnique
  <2> QED
    BY <1>5, <2>1, <2>2, <2>3, <2>4, <2>5 DEF Manages
<1> QED
  BY <1>3, <1>4, <1>5, NextCases

(***************************************************************************)
(* The variables have their types, a path is a key once at most, a         *)
(* descriptor belongs to one entity, and what is reserved on the disk is   *)
(* what the downloads in progress hold: every way out gives it back.       *)
(***************************************************************************)
THEOREM TypeCorrect == Spec => []TypeOK
<1> DEFINE Inv == TypeInv /\ LockInv /\ NewInv /\ ReservedInv /\ OneOwner /\ KeysInv
<1>1. Init => Inv
  BY TypeInvInit, LockInvInit, ReservedInvInit, OneOwnerInit, KeysInvInit
<1>2. Inv /\ [Next]_vars => Inv'
  BY TypeInvStep, LockInvStep, NewInvStep, ReservedInvStep, OneOwnerStep, ScanInvStep, KeysUniqueStep DEF KeysInv
<1>3. Inv => TypeOK
  <2> SUFFICES ASSUME Inv
               PROVE  TypeOK
    OBVIOUS
  <2>1. \A p \in Paths : Cardinality(Keyed(fent, p)) <= 1
    <3> SUFFICES ASSUME NEW p \in Paths
                 PROVE  Cardinality(Keyed(fent, p)) <= 1
      OBVIOUS
    <3>1. Keyed(fent, p) = {} \/ \E x : Keyed(fent, p) = {x}
      BY DEF Keyed, KeysInv, KeysUnique
    <3>2. CASE Keyed(fent, p) = {}
      BY <3>2, FS_EmptySet
    <3>3. ASSUME NEW x, Keyed(fent, p) = {x}
          PROVE  Cardinality(Keyed(fent, p)) <= 1
      <4>1. Cardinality({x}) = 1
        BY FS_Singleton
      <4> QED
        BY <3>3, <4>1
    <3> QED
      BY <3>1, <3>2, <3>3
  <2>2. \A e \in Entities : ent[e].lock \in Threads \cup {None}
    BY DEF TypeInv, Types, EntityType
  <2> QED
    BY <2>1, <2>2 DEF TypeOK, TypeInv, Types, OneOwner, ReservedInv, HeldBy
<1> QED
  BY <1>1, <1>2, <1>3, PTL DEF Spec

-----------------------------------------------------------------------------
(***************************************************************************)
(* The entities of the map, for as long as no rename of a cache file has   *)
(* failed: the invariant that makes a descriptor findable.  An entity is   *)
(* Found by its path when it has not moved to a temporary path, or has the *)
(* old key still.                                                          *)
(***************************************************************************)
IsOpen(e) == ent[e].fds # {}

(* The map has the open entities, under their paths only where there is a cache directory. *)
MapInv ==
    /\ \A e \in Entities : IsOpen(e) <=> e \in InMap(fent)
    /\ \A x \in fent : x.key \in Paths => is_cache_dir /\ ent[x.e].path = x.key
    /\ \A p \in Paths : except_fent[p] # None =>
          is_cache_dir /\ ent[except_fent[p]].moved /\ except_fent[p] \in InMap(fent)

(* An open entity that has not moved is the only one of its path, and its key is the path. *)
EntityInv ==
    /\ \A e \in Entities : ent[e].moved => is_cache_dir
    /\ \A e \in Entities : IsOpen(e) => (ent[e].cachepath <=> is_cache_dir /\ ~ent[e].moved)
    /\ \A e \in Entities : is_cache_dir /\ IsOpen(e) /\ ~ent[e].moved => Entry(ent[e].path, e) \in fent
    /\ \A e, f \in Entities :
          IsOpen(e) /\ IsOpen(f) /\ ~ent[e].moved /\ ~ent[f].moved /\ ent[e].path = ent[f].path => e = f

(* A handle has its descriptor in the entity it was opened on. *)
HandleInv ==
    /\ \A h \in handles : h.fd \in ent[h.e].fds /\ (ent[h.e].moved \/ ent[h.e].path = h.path)
    /\ \A h, g \in handles : h.fd = g.fd => h = g

Closes(t) == th[t].call \in {"release", "close"}

(* A call with a descriptor has it to itself when it closes it, and finds it where it looked. *)
ThreadInv ==
    /\ \A t \in Threads : th[t].call \in Fds =>
          th[t].fd \in UsedFds /\ (th[t].found # None => th[t].fd \in ent[th[t].found].fds)
    /\ \A t \in Threads : th[t].call = "use" => \E h \in handles : h.fd = th[t].fd /\ h.path = th[t].path
    /\ \A t \in Threads : Closes(t) =>
          /\ \A h \in handles : h.fd # th[t].fd
          /\ \A s \in Threads \ {t} : th[s].call \in Fds => th[s].fd # th[t].fd
    /\ \A t \in Threads : th[t].pc = "change" /\ is_cache_dir => ent[th[t].found].moved
    /\ \A t \in Threads : th[t].pc = "scan" /\ th[t].call = "release" /\ th[t].found = None =>
          \A e \in InMap(fent) : ent[e].path = th[t].path => th[t].fd \notin ent[e].fds

(* A rename has its two paths to itself (libfuse), and the new one is not open. *)
RenameAlone ==
    \A t \in Threads : th[t].call = "rename" =>
        /\ \A h \in handles : h.path # th[t].to
        /\ \A s \in Threads \ {t} : Busy(s) =>
              {th[s].path, th[s].to} \cap {th[t].path, th[t].to} = {}

Found(e) == ~ent[e].moved \/ \E x \in fent : x.e = e /\ x.key \in Paths

(* Every descriptor of an entity that is found by its path is of a handle, or is being closed. *)
HeldInv ==
    \A e \in Entities : Found(e) => \A fd \in ent[e].fds :
        \/ \E h \in handles : h.fd = fd /\ h.path = ent[e].path
        \/ \E t \in Threads : Closes(t) /\ th[t].fd = fd /\ th[t].path = ent[e].path

FilesInv == \A e \in Entities : ent[e].cachepath /\ IsOpen(e) => ent[e].path \in cache_files

OpenInv == MapInv /\ EntityInv /\ HandleInv /\ ThreadInv /\ RenameAlone /\ HeldInv /\ FilesInv

(* What all steps start from. *)
BaseInv == TypeInv /\ LockInv /\ NewInv /\ OneOwner /\ KeysInv

LEMMA OpenInvInit == Init => OpenInv
<1> SUFFICES ASSUME Init
             PROVE  OpenInv
  OBVIOUS
<1>1. /\ fent = {} /\ handles = {} /\ \A p \in Paths : except_fent[p] = None
      /\ \A e \in Entities : ent[e].fds = {} /\ ~ent[e].moved
      /\ \A t \in Threads : th[t].call = "none" /\ th[t].pc = "idle"
  BY DEF Init, NewEntity, Idle
<1>2. InMap(fent) = {}
  BY <1>1 DEF InMap
<1>3. MapInv /\ EntityInv /\ HandleInv /\ FilesInv /\ HeldInv
  BY <1>1, <1>2 DEF MapInv, EntityInv, HandleInv, FilesInv, HeldInv, IsOpen
<1>4. ThreadInv /\ RenameAlone
  BY <1>1 DEF ThreadInv, RenameAlone, Closes, Fds
<1> QED
  BY <1>3, <1>4 DEF OpenInv

(***************************************************************************)
(* The steps that leave the descriptors and the paths alone.               *)
(***************************************************************************)
Quiet ==
    /\ is_cache_dir' = is_cache_dir /\ handles' = handles
    /\ \A e \in Entities : ent'[e].fds = ent[e].fds /\ ent'[e].path = ent[e].path
    /\ InMap(fent') = InMap(fent)

(* A handle keeps its descriptor. *)
LEMMA HandlesKept ==
  ASSUME Types, HandleInv, Quiet, \A e \in Entities : ent[e].moved => ent'[e].moved
  PROVE  HandleInv'
<1>1. \A h \in handles : h.e \in Entities
  BY DEF Types
<1> QED
  BY <1>1 DEF HandleInv, Quiet

(* How a thread goes on in such a step, when it gives up no descriptor it has to close. *)
GoesOn(t) ==
    /\ \A s \in Threads \ {t} : th'[s] = th[s]
    /\ th'[t].pc = "scan" => th[t].pc = "scan"
    /\ \/ /\ th'[t].call = th[t].call /\ th'[t].path = th[t].path /\ th'[t].to = th[t].to
          /\ th'[t].fd = th[t].fd /\ th'[t].found = th[t].found /\ (th[t].pc # "idle" <=> th'[t].pc # "idle")
       \/ /\ th[t].call = "release" /\ th'[t].call = "close" /\ th'[t].path = th[t].path /\ th'[t].to = th[t].to
          /\ th'[t].fd = th[t].fd /\ th'[t].found = th[t].found /\ th[t].pc # "idle" /\ th'[t].pc # "idle"
       \/ ~Closes(t) /\ th'[t] = Idle

LEMMA UsedKept == Quiet => UsedFds' = UsedFds
<1> SUFFICES ASSUME Quiet
             PROVE  UsedFds' = UsedFds
  OBVIOUS
<1>1. \A e \in Entities : ent'[e].fds = ent[e].fds
  BY DEF Quiet
<1> QED
  BY <1>1 DEF UsedFds

LEMMA ThreadsKept ==
  ASSUME Types, ThreadInv, RenameAlone, Quiet, NEW t \in Threads, GoesOn(t),
         \A s \in Threads : th'[s].pc = "change" /\ is_cache_dir => ent'[th'[s].found].moved
  PROVE  ThreadInv' /\ RenameAlone'
<1>0. /\ \A s \in Threads : th[s].found \in Entities \cup {None}
      /\ InMap(fent) \subseteq Entities /\ handles' = handles /\ UsedFds' = UsedFds
      /\ Idle.call = "none" /\ Idle.pc = "idle" /\ InMap(fent') = InMap(fent)
  BY UsedKept DEF Types, ThreadType, ThreadRecord, InMap, Quiet, Idle
<1>1. \A s \in Threads : th'[s].call \in Fds =>
         /\ th[s].call \in Fds /\ th'[s].fd = th[s].fd /\ th'[s].path = th[s].path /\ th'[s].found = th[s].found
         /\ th[s].call = "use" <=> th'[s].call = "use"
  BY <1>0 DEF GoesOn, Fds
<1>2. \A s \in Threads : th'[s].call \in {"release", "close"} <=> th[s].call \in {"release", "close"}
  BY <1>0 DEF GoesOn, Closes
<1>3. \A s \in Threads : th'[s].call \in Fds =>
         th'[s].fd \in UsedFds' /\ (th'[s].found # None => th'[s].fd \in ent'[th'[s].found].fds)
  BY <1>0, <1>1 DEF ThreadInv, Quiet
<1>4. \A s \in Threads : th'[s].call = "use" => \E h \in handles' : h.fd = th'[s].fd /\ h.path = th'[s].path
  BY <1>0, <1>1 DEF ThreadInv, Fds
<1>5. \A s \in Threads : Closes(s)' =>
         /\ \A h \in handles' : h.fd # th'[s].fd
         /\ \A r \in Threads \ {s} : th'[r].call \in Fds => th'[r].fd # th'[s].fd
  BY <1>0, <1>1, <1>2 DEF ThreadInv, Closes, Fds
<1>6. \A s \in Threads : th'[s].pc = "scan" /\ th'[s].call = "release" /\ th'[s].found = None =>
         \A e \in InMap(fent)' : ent'[e].path = th'[s].path => th'[s].fd \notin ent'[e].fds
  <2> SUFFICES ASSUME NEW s \in Threads, th'[s].pc = "scan", th'[s].call = "release", th'[s].found = None,
                      NEW e \in InMap(fent'), ent'[e].path = th'[s].path
               PROVE  th'[s].fd \notin ent'[e].fds
    BY DEF InMap
  <2>1. th[s].pc = "scan" /\ th[s].call = "release" /\ th[s].found = None
        /\ th[s].path = th'[s].path /\ th[s].fd = th'[s].fd
    BY <1>0 DEF GoesOn
  <2>2. e \in InMap(fent) /\ ent[e].path = th[s].path /\ ent'[e].fds = ent[e].fds
    BY <1>0, <2>1 DEF Quiet
  <2> QED
    BY <2>1, <2>2 DEF ThreadInv
<1>7. ThreadInv'
  BY <1>3, <1>4, <1>5, <1>6 DEF ThreadInv, Quiet
<1>8. RenameAlone'
  <2>1. \A s \in Threads : th'[s].call = "rename" =>
           th[s].call = "rename" /\ th'[s].path = th[s].path /\ th'[s].to = th[s].to
    BY <1>0 DEF GoesOn
  <2>2. \A s \in Threads : th'[s].pc # "idle" =>
           th[s].pc # "idle" /\ th'[s].path = th[s].path /\ th'[s].to = th[s].to
    BY <1>0 DEF GoesOn
  <2> QED
    BY <1>0, <2>1, <2>2 DEF RenameAlone, Busy
<1> QED
  BY <1>7, <1>8

(* The descriptors stay held. *)
LEMMA HeldKept ==
  ASSUME HeldInv, handles' = handles, \A e \in Entities : ent'[e].fds = ent[e].fds /\ ent'[e].path = ent[e].path,
         \A s \in Threads : Closes(s) => Closes(s)' /\ th'[s].fd = th[s].fd /\ th'[s].path = th[s].path,
         \A e \in Entities : ent[e].moved => ent'[e].moved, \A x \in fent' : x.key \in Paths => x \in fent
  PROVE  HeldInv'
<1> SUFFICES ASSUME NEW e \in Entities, Found(e)', NEW fd \in ent'[e].fds
             PROVE  \/ \E h \in handles' : h.fd = fd /\ h.path = ent'[e].path
                    \/ \E s \in Threads : Closes(s)' /\ th'[s].fd = fd /\ th'[s].path = ent'[e].path
  BY DEF HeldInv
<1>1. Found(e) /\ fd \in ent[e].fds /\ ent'[e].path = ent[e].path
  BY DEF Found
<1> QED
  BY <1>1 DEF HeldInv

LEMMA ClosesKept ==
  ASSUME NEW t \in Threads, GoesOn(t)
  PROVE  \A s \in Threads : Closes(s) => Closes(s)' /\ th'[s].fd = th[s].fd /\ th'[s].path = th[s].path
  BY DEF GoesOn, Closes

(* The map, where neither it nor the entities change. *)
SameMaps ==
    /\ UNCHANGED <<is_cache_dir, fent, except_fent>>
    /\ \A e \in Entities : /\ ent'[e].fds = ent[e].fds /\ ent'[e].path = ent[e].path
                           /\ ent'[e].moved = ent[e].moved /\ ent'[e].cachepath = ent[e].cachepath

LEMMA MapsKept ==
  ASSUME Types, SameMaps
  PROVE  /\ MapInv => MapInv'
         /\ EntityInv => EntityInv'
         /\ FilesInv /\ cache_files \subseteq cache_files' => FilesInv'
         /\ InMap(fent') = InMap(fent)
<1>1. InMap(fent) \subseteq Entities /\ InMap(fent') = InMap(fent) /\ InMap(fent)' = InMap(fent)
  BY DEF Types, InMap, SameMaps
<1>2. \A x \in fent : x.e \in Entities
  BY DEF Types
<1>3. \A p \in Paths : except_fent[p] # None => except_fent[p] \in Entities
  BY DEF Types
<1>4. MapInv => MapInv'
  BY <1>1, <1>2, <1>3 DEF MapInv, IsOpen, SameMaps
<1>5. EntityInv => EntityInv'
  <2> SUFFICES ASSUME EntityInv
               PROVE  EntityInv'
    OBVIOUS
  <2>1. \A e \in Entities : is_cache_dir /\ ent[e].fds # {} /\ ~ent[e].moved => Entry(ent'[e].path, e) \in fent'
    BY DEF EntityInv, IsOpen, SameMaps
  <2> QED
    BY <2>1 DEF EntityInv, IsOpen, SameMaps
<1> QED
  BY <1>1, <1>4, <1>5 DEF FilesInv, IsOpen, SameMaps

(* The temporary paths are entered. *)
NewMaps ==
    /\ is_cache_dir' = is_cache_dir /\ fent' = Updated /\ except_fent' = Emptied
    /\ \A e \in Entities : /\ ent'[e].fds = ent[e].fds /\ ent'[e].path = ent[e].path
                           /\ ent'[e].moved = ent[e].moved /\ ent'[e].cachepath = ent[e].cachepath

(* What UpdateEntityToTempPath does to the map: only entities that have moved lose their key. *)
LEMMA UpdatedFacts ==
  ASSUME Types, MapInv
  PROVE  /\ InMap(Updated) = InMap(fent)
         /\ \A x \in Updated : x.key \in Paths => x \in fent
         /\ \A x \in fent : ~ent[x.e].moved => x \in Updated
<1>0. Temp \notin Paths
  BY FdManagerAssumption
<1>1. \A x \in Updated : x.key \in Paths => x \in fent
  BY <1>0 DEF Updated, Entry
<1>2. \A x \in fent : ~ent[x.e].moved => x \in Updated
  BY DEF Updated, MapInv
<1>3. \A e : e \in InMap(Updated) => e \in InMap(fent)
  <2> SUFFICES ASSUME NEW x \in Updated
               PROVE  x.e \in InMap(fent)
    BY DEF InMap
  <2>1. CASE x \in fent
    BY <2>1 DEF InMap
  <2>2. ASSUME NEW p \in Paths, except_fent[p] # None, x = Entry(Temp, except_fent[p])
        PROVE  x.e \in InMap(fent)
    <3>1. x.e = except_fent[p]
      BY <2>2 DEF Entry
    <3> QED
      BY <2>2, <3>1 DEF MapInv
  <2> QED
    BY <2>1, <2>2 DEF Updated
<1>4. \A e : e \in InMap(fent) => e \in InMap(Updated)
  <2> SUFFICES ASSUME NEW x \in fent
               PROVE  \E y \in Updated : y.e = x.e
    BY DEF InMap
  <2>1. CASE x \in Updated
    BY <2>1
  <2>2. CASE x \notin Updated
    <3>1. x.key \in Paths /\ except_fent[x.key] # None /\ x.e = except_fent[x.key]
      BY <2>2 DEF Updated
    <3>2. Entry(Temp, except_fent[x.key]) \in Updated
      BY <3>1 DEF Updated
    <3>3. Entry(Temp, except_fent[x.key]).e = x.e
      BY <3>1 DEF Entry
    <3> QED
      BY <3>2, <3>3
  <2> QED
    BY <2>1, <2>2
<1> QED
  BY <1>1, <1>2, <1>3, <1>4

LEMMA MapsUpdated ==
  ASSUME Types, MapInv, EntityInv, NewMaps
  PROVE  /\ MapInv' /\ EntityInv' /\ InMap(fent') = InMap(fent)
         /\ \A x \in fent' : x.key \in Paths => x \in fent
         /\ FilesInv /\ cache_files \subseteq cache_files' => FilesInv'
<1>1. /\ InMap(fent') = InMap(fent) /\ InMap(fent)' = InMap(fent')
      /\ \A x \in fent' : x.key \in Paths => x \in fent
      /\ \A x \in fent : ~ent[x.e].moved => x \in fent'
      /\ InMap(fent) \subseteq Entities
      /\ \A x \in fent : x.e \in Entities
  BY UpdatedFacts DEF NewMaps, InMap, Types
<1>2. \A p \in Paths : except_fent'[p] = None
  BY DEF NewMaps, Emptied
<1>3. MapInv'
  BY <1>1, <1>2 DEF MapInv, IsOpen, NewMaps
<1>4. EntityInv'
  <2>1. \A e \in Entities : is_cache_dir /\ ent[e].fds # {} /\ ~ent[e].moved => Entry(ent[e].path, e) \in fent'
    <3> SUFFICES ASSUME NEW e \in Entities, is_cache_dir, ent[e].fds # {}, ~ent[e].moved
                 PROVE  Entry(ent[e].path, e) \in fent'
      OBVIOUS
    <3>1. Entry(ent[e].path, e) \in fent
      BY DEF EntityInv, IsOpen
    <3>2. Entry(ent[e].path, e).e = e
      BY DEF Entry
    <3> QED
      BY <1>1, <3>1, <3>2
  <2> QED
    BY <2>1 DEF EntityInv, IsOpen, NewMaps, Entry
<1> QED
  BY <1>1, <1>3, <1>4 DEF FilesInv, IsOpen, NewMaps

(* In a step of an entity the thread goes on with what it has. *)
LEMMA WorkGoesOn ==
  ASSUME TypeInv, NEW t \in Threads, Works(t)
  PROVE  GoesOn(t)
<1>1. WorkEffect(t) /\ WorkKeeps(t)
  BY WorkFacts, WorkKept
<1>2. th[t] \in ThreadType /\ th'[t] \in ThreadType
  BY TypeInvEntity DEF TypeInv, Types
<1>3. th[t].call \in {"use", "release"} /\ th[t].pc # "idle" /\ th'[t].pc # "scan"
  BY <1>1, <1>2 DEF WorkEffect, ThreadType, Shape, Working
<1>4. th'[t].pc = "idle" => th'[t].call = "none"
  BY <1>2 DEF ThreadType, Shape, Idle
<1> QED
  BY <1>1, <1>3, <1>4 DEF WorkEffect, WorkKeeps, GoesOn, Closes

(* The steps in an entity. *)
LEMMA OpenInvWorks ==
  ASSUME BaseInv, OpenInv, NEW t \in Threads, Works(t)
  PROVE  OpenInv'
<1>0. /\ th \in [Threads -> ThreadType] /\ ent \in [Entities -> EntityType] /\ Types /\ TypeInv
      /\ WorkEffect(t) /\ WorkKeeps(t) /\ GoesOn(t) /\ th' \in [Threads -> ThreadType]
      /\ MapInv /\ EntityInv /\ HandleInv /\ ThreadInv /\ RenameAlone /\ HeldInv /\ FilesInv
  BY WorkFacts, WorkKept, WorkGoesOn, TypeInvEntity DEF BaseInv, TypeInv, Types, OpenInv
<1>e. /\ th[t].found \in Entities /\ th[t].call \in {"use", "release"}
      /\ th[t].fd \in ent[th[t].found].fds /\ IsOpen(th[t].found)
  <2>1. th[t].found \in Entities /\ th[t].call \in {"use", "release"}
    BY <1>0 DEF WorkEffect, ThreadType, Shape, Working
  <2> QED
    BY <1>0, <2>1, FdManagerAssumption DEF ThreadInv, Fds, IsOpen
(* What is left to show for one that enters or keeps the map. *)
<1>a. ASSUME \A e \in Entities : ent[e].moved => ent'[e].moved, \A x \in fent' : x.key \in Paths => x \in fent,
             InMap(fent') = InMap(fent),
             th'[t].pc = "change" /\ is_cache_dir => ent'[th'[t].found].moved
      PROVE  HandleInv' /\ ThreadInv' /\ RenameAlone' /\ HeldInv'
  <2>1. Quiet
    BY <1>0, <1>a DEF Quiet, WorkEffect, WorkKeeps
  <2>2. \A s \in Threads : th'[s].pc = "change" /\ is_cache_dir => ent'[th'[s].found].moved
    <3> SUFFICES ASSUME NEW s \in Threads \ {t}, th'[s].pc = "change", is_cache_dir
                 PROVE  ent'[th'[s].found].moved
      BY <1>a
    <3>1. th'[s] = th[s] /\ th[s].found \in Entities
      BY <1>0 DEF WorkEffect, ThreadType, ThreadRecord, Shape, Working
    <3> QED
      BY <1>0, <1>a, <3>1 DEF ThreadInv
  <2>3. HandleInv' /\ ThreadInv' /\ RenameAlone'
    BY <1>0, <1>a, <2>1, <2>2, HandlesKept, ThreadsKept
  <2>4. HeldInv'
    BY <1>0, <1>a, <2>1, ClosesKept, HeldKept DEF Quiet
  <2> QED
    BY <2>3, <2>4
<1>b. ASSUME SameMaps, th'[t].pc # "change", cache_files' = cache_files
      PROVE  OpenInv'
  <2>1. MapInv' /\ EntityInv' /\ FilesInv' /\ InMap(fent') = InMap(fent)
    BY <1>0, <1>b, MapsKept
  <2> QED
    BY <1>a, <1>b, <2>1 DEF SameMaps, OpenInv
<1>1. CASE LockEntity(t)
  <2>1. SameMaps
    BY <1>0, <1>1 DEF LockEntity, SameMaps, EntityType
  <2>2. th'[t].pc # "change"
    BY <1>0, <1>1 DEF LockEntity, ThreadType, ThreadRecord
  <2> QED
    BY <1>1, <1>b, <2>1, <2>2 DEF LockEntity
<1>2. CASE TestDiskSpace(t) \/ AddReserved(t) \/ FreeReserved(t) \/ NoSpace(t)
  <2>1. SameMaps /\ cache_files' = cache_files
    BY <1>2 DEF TestDiskSpace, AddReserved, FreeReserved, NoSpace, SameMaps
  <2>2. th'[t].pc # "change"
    <3>1. CASE TestDiskSpace(t)
      BY <1>0, <3>1 DEF TestDiskSpace, Goes, ThreadType, ThreadRecord
    <3>2. CASE AddReserved(t)
      BY <1>0, <3>2 DEF AddReserved, ThreadType, ThreadRecord
    <3>3. CASE FreeReserved(t)
      BY <1>0, <3>3 DEF FreeReserved, ThreadType, ThreadRecord
    <3>4. CASE NoSpace(t)
      BY <1>0, <3>4 DEF NoSpace, Goes, ThreadType, ThreadRecord
    <3> QED
      BY <1>2, <3>1, <3>2, <3>3, <3>4
  <2> QED
    BY <1>b, <2>1, <2>2
<1>3. CASE UnlockEntity(t)
  <2>0. ent' = [ent EXCEPT ![th[t].found].lock = None] /\ UNCHANGED <<is_cache_dir, fent, except_fent>>
    BY <1>3 DEF UnlockEntity
  <2>1. SameMaps
    BY <1>0, <2>0 DEF SameMaps, EntityType
  <2>2. th'[t].pc # "change"
    BY <1>0, <1>3 DEF UnlockEntity, Idle, ThreadType, ThreadRecord
  <2> QED
    BY <1>3, <1>b, <2>1, <2>2 DEF UnlockEntity
<1>4. CASE CleanupCacheDir(t)
  <2>1. th'[t].pc # "change" /\ ent' = ent /\ is_cache_dir' = is_cache_dir
    BY <1>0, <1>4 DEF CleanupCacheDir, Goes, ThreadType, ThreadRecord
  <2>2. CASE is_cache_dir /\ fd_manager_lock = None
    <3>1. NewMaps /\ cache_files' = {p \in cache_files : Keyed(Updated, p) # {}}
      BY <1>4, <2>1, <2>2 DEF CleanupCacheDir, NewMaps
    <3>2. /\ MapInv' /\ EntityInv' /\ InMap(fent') = InMap(fent)
          /\ \A x \in fent' : x.key \in Paths => x \in fent
      BY <1>0, <3>1, MapsUpdated
    <3>3. FilesInv'
      <4> SUFFICES ASSUME NEW e \in Entities, ent[e].cachepath, IsOpen(e)
                   PROVE  ent[e].path \in cache_files'
        BY <2>1 DEF FilesInv, IsOpen
      <4>1. ent[e].path \in cache_files /\ ~ent[e].moved /\ Entry(ent[e].path, e) \in fent
        BY <1>0, <2>2 DEF FilesInv, EntityInv
      <4>2. Entry(ent[e].path, e).e = e /\ Entry(ent[e].path, e).key = ent[e].path
        BY DEF Entry
      <4>3. Entry(ent[e].path, e) \in Updated
        BY <1>0, <4>1, <4>2, UpdatedFacts
      <4>4. Entry(ent[e].path, e) \in Keyed(Updated, ent[e].path)
        BY <4>2, <4>3 DEF Keyed
      <4> QED
        BY <3>1, <4>1, <4>4
    <3> QED
      BY <1>a, <2>1, <3>2, <3>3 DEF OpenInv
  <2>3. CASE ~(is_cache_dir /\ fd_manager_lock = None)
    <3>1. SameMaps /\ cache_files' = cache_files
      BY <1>4, <2>1, <2>3 DEF CleanupCacheDir, SameMaps
    <3> QED
      BY <1>b, <2>1, <3>1
  <2> QED
    BY <2>2, <2>3
<1>5. CASE GiveUpCacheFile(t)
  <2> DEFINE e == th[t].found
             r == [ent[e] EXCEPT !.cachepath = FALSE, !.moved = @ \/ is_cache_dir]
  <2>1. /\ fent' = fent /\ except_fent' = except_fent /\ is_cache_dir' = is_cache_dir /\ ent' = [ent EXCEPT ![e] = r]
        /\ cache_files' = IF ent[e].cachepath THEN cache_files \ {ent[e].path} ELSE cache_files
    BY <1>0, <1>5, <1>e DEF GiveUpCacheFile
  <2>2. /\ ~r.cachepath /\ r.fds = ent[e].fds /\ r.path = ent[e].path
        /\ r.moved = (ent[e].moved \/ is_cache_dir)
    <3>1. ent[e] \in EntityType
      BY <1>0, <1>e
    <3> HIDE DEF e
    <3>2. r.fds = ent[e].fds /\ r.path = ent[e].path
      BY <3>1 DEF EntityType
    <3>3. r.cachepath = FALSE
      BY <3>1 DEF EntityType
    <3>4. r.moved = (ent[e].moved \/ is_cache_dir)
      BY <3>1 DEF EntityType
    <3> QED
      BY <3>2, <3>3, <3>4
  <2>3. e \in Entities /\ th'[t].found = e
    BY <1>0, <1>e, <1>5 DEF GiveUpCacheFile, Goes, ThreadType, ThreadRecord
  <2> HIDE DEF r
  <2>4. /\ ent'[e] = r /\ \A f \in Entities \ {e} : ent'[f] = ent[f]
        /\ \A f \in Entities : ent'[f].fds = ent[f].fds /\ ent'[f].path = ent[f].path
        /\ \A f \in Entities : ent[f].moved => ent'[f].moved
        /\ \A f \in Entities : ent'[f].cachepath <=> ent[f].cachepath /\ f # e
        /\ \A f \in Entities : ent'[f].moved <=> ent[f].moved \/ (is_cache_dir /\ f = e)
    BY <1>0, <2>1, <2>2, <2>3
  <2> HIDE DEF e
  <2>5. InMap(fent') = InMap(fent) /\ InMap(fent)' = InMap(fent) /\ (\A x \in fent : x.e \in Entities) /\ InMap(fent) \subseteq Entities
        /\ \A p \in Paths : except_fent[p] # None => except_fent[p] \in Entities
    BY <1>0, <2>1 DEF InMap, Types
  <2>6. MapInv'
    BY <1>0, <2>1, <2>4, <2>5 DEF MapInv, IsOpen
  <2>7. EntityInv'
    <3>1. \A f \in Entities : ent'[f].moved => is_cache_dir'
      BY <1>0, <2>1, <2>4 DEF EntityInv
    <3>2. \A f \in Entities : IsOpen(f)' => (ent'[f].cachepath <=> is_cache_dir' /\ ~ent'[f].moved)
      BY <1>0, <2>1, <2>4 DEF EntityInv, IsOpen
    <3>3. \A f \in Entities : is_cache_dir' /\ IsOpen(f)' /\ ~ent'[f].moved => Entry(ent'[f].path, f) \in fent'
      BY <1>0, <2>1, <2>4 DEF EntityInv, IsOpen
    <3>4. \A f, g \in Entities :
            IsOpen(f)' /\ IsOpen(g)' /\ ~ent'[f].moved /\ ~ent'[g].moved /\ ent'[f].path = ent'[g].path => f = g
      BY <1>0, <2>4 DEF EntityInv, IsOpen
    <3> QED
      BY <3>1, <3>2, <3>3, <3>4 DEF EntityInv
  <2>8. FilesInv'
    <3> SUFFICES ASSUME NEW f \in Entities, f # e, ent[f].cachepath, IsOpen(f)
                 PROVE  ent[f].path \in cache_files'
      BY <2>4 DEF FilesInv, IsOpen
    <3>1. ent[f].path \in cache_files /\ ~ent[f].moved
      BY <1>0 DEF FilesInv, EntityInv
    <3>2. CASE ent[e].cachepath
      <4>1. ~ent[e].moved /\ IsOpen(e)
        BY <1>0, <1>e, <2>3, <3>2 DEF EntityInv, e
      <4>2. ent[f].path # ent[e].path
        BY <1>0, <2>3, <3>1, <4>1 DEF EntityInv
      <4> QED
        BY <2>1, <3>1, <4>2
    <3>3. CASE ~ent[e].cachepath
      BY <2>1, <3>1, <3>3
    <3> QED
      BY <3>2, <3>3
  <2> QED
    BY <1>a, <2>1, <2>3, <2>4, <2>5, <2>6, <2>7, <2>8 DEF OpenInv
<1>6. CASE ChangeEntityToTempPath(t)
  <2> DEFINE e == th[t].found
             p0 == ent[e].path
  <2>1. /\ fent' = fent /\ ent' = ent /\ is_cache_dir' = is_cache_dir /\ cache_files' = cache_files /\ th'[t].pc # "change"
        /\ except_fent' = IF Keyed(fent, p0) = {} THEN except_fent ELSE [except_fent EXCEPT ![p0] = e]
    BY <1>0, <1>6 DEF ChangeEntityToTempPath, Goes, ThreadType, ThreadRecord
  <2>2. InMap(fent') = InMap(fent) /\ InMap(fent)' = InMap(fent)
    BY <2>1 DEF InMap
  <2>3. EntityInv' /\ FilesInv'
    BY <1>0, <2>1 DEF EntityInv, FilesInv, IsOpen
  <2>4. MapInv'
    <3>1. \A p \in Paths : except_fent'[p] # None =>
             is_cache_dir' /\ ent'[except_fent'[p]].moved /\ except_fent'[p] \in InMap(fent)'
      <4> SUFFICES ASSUME NEW p \in Paths, except_fent'[p] # None
                   PROVE  is_cache_dir /\ ent[except_fent'[p]].moved /\ except_fent'[p] \in InMap(fent)
        BY <2>1, <2>2
      <4>1. CASE except_fent'[p] = except_fent[p]
        BY <1>0, <4>1 DEF MapInv
      <4>2. CASE except_fent'[p] # except_fent[p]
        <5>1. p = p0 /\ Keyed(fent, p) # {} /\ except_fent'[p] = e
          BY <1>0, <2>1, <4>2 DEF Types
        <5>2. is_cache_dir
          BY <1>0, <5>1 DEF MapInv, Keyed
        <5>3. ent[e].moved
          BY <1>0, <1>6, <5>2 DEF ThreadInv, ChangeEntityToTempPath
        <5>4. e \in InMap(fent)
          BY <1>0, <1>e DEF MapInv
        <5> QED
          BY <5>1, <5>2, <5>3, <5>4
      <4> QED
        BY <4>1, <4>2
    <3> QED
      BY <1>0, <2>1, <2>2, <3>1 DEF MapInv, IsOpen
  <2> QED
    BY <1>a, <2>1, <2>2, <2>3, <2>4 DEF OpenInv
<1> QED
  BY <1>1, <1>2, <1>3, <1>4, <1>5, <1>6 DEF Works

(* The calls. *)
LEMMA OpenInvCalls ==
  ASSUME BaseInv, OpenInv, NEW t \in Threads, Calls(t)
  PROVE  OpenInv'
<1>0. /\ th \in [Threads -> ThreadType] /\ Types /\ TypeInv /\ None \notin Paths
      /\ CallEffect(t) /\ th' \in [Threads -> ThreadType] /\ Idle.call = "none" /\ Idle.pc = "idle"
      /\ MapInv /\ EntityInv /\ HandleInv /\ ThreadInv /\ RenameAlone /\ HeldInv /\ FilesInv
  BY CallFacts, FdManagerAssumption DEF BaseInv, TypeInv, Types, OpenInv, CallEffect, Idle
<1>1. /\ fent' = fent /\ except_fent' = except_fent /\ ent' = ent /\ is_cache_dir' = is_cache_dir
      /\ handles' \subseteq handles /\ th[t] = Idle /\ \A s \in Threads \ {t} : th'[s] = th[s]
  BY <1>0 DEF CallEffect
<1>2. UsedFds' = UsedFds /\ InMap(fent)' = InMap(fent)
  BY <1>1 DEF UsedFds, InMap
<1>3. MapInv' /\ EntityInv' /\ (cache_files' = cache_files => FilesInv')
  BY <1>0, <1>1, <1>2 DEF MapInv, EntityInv, FilesInv, IsOpen
<1>4. HandleInv'
  BY <1>0, <1>1 DEF HandleInv
<1>5. \A s \in Threads : th[s].call \in Fds \cup Openers => th[s].pc # "idle"
  BY <1>0 DEF ThreadType, Shape, Fds, Openers
<1>a. ASSUME handles' = handles, th'[t].call \notin Fds \/ th'[t] = Idle
      PROVE  ThreadInv' /\ HeldInv'
  <2>1. ThreadInv'
    BY <1>0, <1>1, <1>2, <1>a DEF ThreadInv, Closes, Fds, CallEffect
  <2>2. HeldInv'
    BY <1>0, <1>1, <1>a DEF HeldInv, Found, Closes
  <2> QED
    BY <2>1, <2>2
<1>b. ASSUME NEW path \in Paths, ~Renaming(path), th'[t].path = path, th'[t].to = None, th'[t].call # "rename"
      PROVE  RenameAlone'
  <2>1. \A s \in Threads : th[s].call = "rename" =>
           th[s].path # path /\ th[s].to # path /\ th[s].path # None /\ th[s].to # None
    BY <1>0, <1>5, <1>b DEF Renaming, ThreadType, Shape, Openers
  <2> QED
    BY <1>0, <1>1, <1>b, <2>1 DEF RenameAlone, Busy
<1>6. ASSUME NEW path \in Paths, CallOpen(t, path)
      PROVE  OpenInv'
  <2>1. th'[t].path = path /\ th'[t].to = None /\ th'[t].call = "open"
    BY <1>0, <1>6, CallShape DEF CallOpen
  <2> QED
    BY <1>3, <1>4, <1>6, <1>a, <1>b, <2>1 DEF CallOpen, OpenInv, Fds
<1>7. ASSUME NEW path \in Paths, NEW create \in BOOLEAN, CallTouch(t, path, create)
      PROVE  OpenInv'
  <2>1. th'[t].path = path /\ th'[t].to = None /\ th'[t].call \in {"truncate", "touch"}
    <3>1. CASE create
      BY <1>0, <1>7, <3>1, CallShape DEF CallTouch
    <3>2. CASE ~create
      BY <1>0, <1>7, <3>2, CallShape DEF CallTouch
    <3> QED
      BY <3>1, <3>2
  <2> QED
    BY <1>3, <1>4, <1>7, <1>a, <1>b, <2>1 DEF CallTouch, OpenInv, Fds
<1>8. ASSUME NEW h \in handles, CallUse(t, h)
      PROVE  OpenInv'
  <2>1. h.path \in Paths /\ h.fd \in Nat /\ h.fd \in UsedFds
    BY <1>0 DEF Types, HandleInv, UsedFds
  <2>2. /\ th'[t].path = h.path /\ th'[t].to = None /\ th'[t].call = "use" /\ th'[t].fd = h.fd
        /\ th'[t].found = None /\ th'[t].pc = "lock_manager" /\ handles' = handles
    BY <1>0, <1>8, <2>1, CallShape DEF CallUse
  <2>3. RenameAlone'
    BY <1>8, <1>b, <2>1, <2>2 DEF CallUse
  <2>4. ThreadInv'
    BY <1>0, <1>1, <1>2, <2>1, <2>2 DEF ThreadInv, Closes, Fds
  <2>5. HeldInv'
    BY <1>0, <1>1, <2>2 DEF HeldInv, Found, Closes
  <2> QED
    BY <1>3, <1>4, <1>8, <2>3, <2>4, <2>5 DEF CallUse, OpenInv
<1>9. ASSUME NEW h \in handles, CallRelease(t, h)
      PROVE  OpenInv'
  <2>1. h.path \in Paths /\ h.fd \in Nat /\ h.fd \in UsedFds
    BY <1>0 DEF Types, HandleInv, UsedFds
  <2>2. /\ th'[t].path = h.path /\ th'[t].to = None /\ th'[t].call = "release" /\ th'[t].fd = h.fd
        /\ th'[t].found = None /\ th'[t].pc = "lock_manager" /\ handles' = handles \ {h}
    BY <1>0, <1>9, <2>1, CallShape DEF CallRelease
  <2>3. \A s \in Threads \ {t} : th[s].call \in Fds => th[s].fd # h.fd
    BY <1>5, <1>9 DEF CallRelease, Busy
  <2>4. \A g \in handles' : g.fd # h.fd
    BY <1>0, <2>2 DEF HandleInv
  <2>5. RenameAlone'
    BY <1>9, <1>b, <2>1, <2>2 DEF CallRelease
  <2>6. ThreadInv'
    <3>1. \A s \in Threads : th'[s].call \in Fds =>
             th'[s].fd \in UsedFds' /\ (th'[s].found # None => th'[s].fd \in ent'[th'[s].found].fds)
      BY <1>0, <1>1, <1>2, <2>1, <2>2 DEF ThreadInv
    <3>2. \A s \in Threads : th'[s].call = "use" => \E g \in handles' : g.fd = th'[s].fd /\ g.path = th'[s].path
      <4> SUFFICES ASSUME NEW s \in Threads \ {t}, th[s].call = "use"
                   PROVE  \E g \in handles' : g.fd = th[s].fd /\ g.path = th[s].path
        BY <1>1, <2>2
      <4>1. PICK g \in handles : g.fd = th[s].fd /\ g.path = th[s].path
        BY <1>0 DEF ThreadInv
      <4>2. g # h
        BY <2>3, <4>1 DEF Fds
      <4> QED
        BY <2>2, <4>1, <4>2
    <3>3. \A s \in Threads : Closes(s)' =>
             /\ \A g \in handles' : g.fd # th'[s].fd
             /\ \A r \in Threads \ {s} : th'[r].call \in Fds => th'[r].fd # th'[s].fd
      <4> SUFFICES ASSUME NEW s \in Threads, Closes(s)'
                   PROVE  /\ \A g \in handles' : g.fd # th'[s].fd
                          /\ \A r \in Threads \ {s} : th'[r].call \in Fds => th'[r].fd # th'[s].fd
        OBVIOUS
      <4>1. CASE s = t
        BY <1>1, <2>2, <2>3, <2>4, <4>1
      <4>2. CASE s # t
        <5>1. th'[s] = th[s] /\ Closes(s)
          BY <1>1, <4>2 DEF Closes
        <5> QED
          BY <1>0, <1>1, <2>2, <2>3, <4>2, <5>1 DEF ThreadInv, Closes, Fds
      <4> QED
        BY <4>1, <4>2
    <3> QED
      BY <1>0, <1>1, <1>2, <2>2, <3>1, <3>2, <3>3 DEF ThreadInv
  <2>7. HeldInv'
    <3> SUFFICES ASSUME NEW e \in Entities, Found(e), NEW fd \in ent[e].fds
                 PROVE  \/ \E g \in handles' : g.fd = fd /\ g.path = ent[e].path
                        \/ \E s \in Threads : Closes(s)' /\ th'[s].fd = fd /\ th'[s].path = ent[e].path
      BY <1>1 DEF HeldInv, Found
    <3>1. CASE \E s \in Threads : Closes(s) /\ th[s].fd = fd /\ th[s].path = ent[e].path
      BY <1>0, <1>1, <3>1 DEF Closes
    <3>2. ASSUME NEW g \in handles, g.fd = fd, g.path = ent[e].path
          PROVE  \/ g \in handles'
                 \/ Closes(t)' /\ th'[t].fd = fd /\ th'[t].path = ent[e].path
      BY <2>2, <3>2 DEF Closes
    <3> QED
      BY <1>0, <3>1, <3>2 DEF HeldInv
  <2> QED
    BY <1>3, <1>4, <1>9, <2>5, <2>6, <2>7 DEF CallRelease, OpenInv
<1>10. ASSUME NEW from \in Paths, NEW to \in Paths, CallRename(t, from, to)
       PROVE  OpenInv'
  <2>1. th'[t].path = from /\ th'[t].to = to /\ th'[t].call = "rename" /\ handles' = handles
    BY <1>0, <1>10, CallShape DEF CallRename
  <2>2. RenameAlone'
    <3> SUFFICES ASSUME NEW s \in Threads, th'[s].call = "rename"
                 PROVE  /\ \A h \in handles : h.path # th'[s].to
                        /\ \A r \in Threads \ {s} : Busy(r)' => {th'[r].path, th'[r].to} \cap {th'[s].path, th'[s].to} = {}
      BY <2>1 DEF RenameAlone
    <3>1. CASE s = t
      BY <1>1, <1>10, <2>1, <3>1 DEF CallRename, Busy
    <3>2. CASE s # t
      <4>1. th'[s] = th[s] /\ Busy(s)
        BY <1>1, <1>5, <3>2 DEF Busy, Openers
      <4>2. {th[s].path, th[s].to} \cap {from, to} = {}
        BY <1>10, <4>1 DEF CallRename
      <4> QED
        BY <1>0, <1>1, <2>1, <4>1, <4>2 DEF RenameAlone, Busy
    <3> QED
      BY <3>1, <3>2
  <2> QED
    BY <1>3, <1>4, <1>10, <1>a, <2>1, <2>2 DEF CallRename, OpenInv, Fds
<1>11. ASSUME NEW path \in Paths, CallUnlink(t, path)
       PROVE  OpenInv'
  <2>1. th' = th /\ handles' = handles /\ cache_files' = cache_files \ {path}
    BY <1>11 DEF CallUnlink
  <2>2. FilesInv'
    <3> SUFFICES ASSUME NEW e \in Entities, ent[e].cachepath, IsOpen(e), ent[e].path = path
                 PROVE  FALSE
      BY <1>0, <1>1, <2>1 DEF FilesInv, IsOpen
    <3>1. Found(e)
      BY <1>0 DEF EntityInv, Found
    <3>2. PICK fd \in ent[e].fds : TRUE
      BY DEF IsOpen
    <3>3. CASE \E h \in handles : h.fd = fd /\ h.path = path
      BY <1>11, <3>3 DEF CallUnlink
    <3>4. ASSUME NEW s \in Threads, Closes(s), th[s].path = path
          PROVE  FALSE
      BY <1>5, <1>11, <3>4 DEF CallUnlink, Busy, Closes, Fds
    <3> QED
      BY <1>0, <3>1, <3>2, <3>3, <3>4 DEF HeldInv
  <2>3. RenameAlone'
    BY <1>0, <2>1 DEF RenameAlone, Busy
  <2>4. ThreadInv' /\ HeldInv'
    BY <1>0, <1>1, <1>a, <2>1
  <2> QED
    BY <1>3, <1>4, <2>2, <2>3, <2>4 DEF OpenInv
<1> QED
  BY <1>6, <1>7, <1>8, <1>9, <1>10, <1>11 DEF Calls

(***************************************************************************)
(* What a search by path finds: the one open entity that is found by it.   *)
(***************************************************************************)
LEMMA FindFacts ==
  ASSUME Types, KeysUnique, MapInv, EntityInv, NEW p \in Paths
  PROVE  /\ \A e \in FindByPath(fent, p) : e \in Entities /\ IsOpen(e) /\ ent[e].path = p /\ Found(e)
         /\ \A e, f \in FindByPath(fent, p) : e = f
         /\ \A e \in Entities : Found(e) /\ IsOpen(e) /\ ent[e].path = p => e \in FindByPath(fent, p)
<1>0. \A x \in fent : x.e \in Entities /\ IsOpen(x.e)
  BY DEF Types, MapInv, InMap
<1>1. CASE Keyed(fent, p) # {}
  <2>1. FindByPath(fent, p) = InMap(Keyed(fent, p))
    BY <1>1 DEF FindByPath
  <2>2. PICK x \in fent : x.key = p
    BY <1>1 DEF Keyed
  <2>3. \A y \in fent : y.key = p => y = x
    BY <2>2 DEF KeysUnique
  <2>4. FindByPath(fent, p) = {x.e}
    BY <2>1, <2>2, <2>3 DEF InMap, Keyed
  <2>5. x.e \in Entities /\ IsOpen(x.e) /\ ent[x.e].path = p /\ Found(x.e) /\ is_cache_dir
    BY <1>0, <2>2 DEF MapInv, Found
  <2>6. \A e \in Entities : Found(e) /\ IsOpen(e) /\ ent[e].path = p => e = x.e
    <3> SUFFICES ASSUME NEW e \in Entities, Found(e), IsOpen(e), ent[e].path = p
                 PROVE  e = x.e
      OBVIOUS
    <3>1. \E y \in fent : y.e = e /\ y.key = p
      <4>1. CASE ~ent[e].moved
        <5>1. Entry(p, e) \in fent
          BY <2>5, <4>1 DEF EntityInv
        <5>2. Entry(p, e).e = e /\ Entry(p, e).key = p
          BY DEF Entry
        <5> QED
          BY <5>1, <5>2
      <4>2. CASE ent[e].moved
        <5>1. PICK y \in fent : y.e = e /\ y.key \in Paths
          BY <4>2 DEF Found
        <5> QED
          BY <5>1 DEF MapInv
      <4> QED
        BY <4>1, <4>2
    <3> QED
      BY <2>3, <3>1
  <2> QED
    BY <2>4, <2>5, <2>6
<1>2. CASE Keyed(fent, p) = {} /\ is_cache_dir
  <2>1. FindByPath(fent, p) = {}
    BY <1>2 DEF FindByPath
  <2>2. \A x \in fent : x.key # p
    BY <1>2 DEF Keyed
  <2>3. ASSUME NEW e \in Entities, Found(e), IsOpen(e), ent[e].path = p
        PROVE  FALSE
    <3>1. CASE ~ent[e].moved
      <4>1. Entry(p, e) \in fent
        BY <1>2, <2>3, <3>1 DEF EntityInv
      <4>2. Entry(p, e).key = p
        BY DEF Entry
      <4> QED
        BY <2>2, <4>1, <4>2
    <3>2. CASE ent[e].moved
      <4>1. PICK y \in fent : y.e = e /\ y.key \in Paths
        BY <2>3, <3>2 DEF Found
      <4> QED
        BY <2>2, <2>3, <4>1 DEF MapInv
    <3> QED
      BY <3>1, <3>2
  <2> QED
    BY <2>1, <2>3
<1>3. CASE Keyed(fent, p) = {} /\ ~is_cache_dir
  <2>1. FindByPath(fent, p) = {e \in InMap(fent) : ent[e].fds # {} /\ ent[e].path = p}
    BY <1>3 DEF FindByPath
  <2>2. InMap(fent) \subseteq Entities /\ \A e \in Entities : ~ent[e].moved
    BY <1>0, <1>3 DEF InMap, EntityInv
  <2>3. \A e \in Entities : IsOpen(e) => e \in InMap(fent)
    BY DEF MapInv
  <2> QED
    BY <2>1, <2>2, <2>3 DEF EntityInv, IsOpen, Found
<1> QED
  BY <1>1, <1>2, <1>3

(* The thread in the manager, and that nobody scans when it has left. *)
LEMMA HolderFacts ==
  ASSUME BaseInv, NEW t \in Threads, Manages(t), ~LockManager(t), ~Scan(t)
  PROVE  /\ th[t].pc = "scan" /\ except_fent = Emptied /\ \A s \in Threads : th'[s].pc # "scan"
         /\ th' \in [Threads -> ThreadType] /\ \A s \in Threads \ {t} : th'[s] = th[s]
         /\ is_cache_dir' = is_cache_dir
<1>0. TypeInv /\ NewInv /\ LockInv /\ KeysInv /\ TypeInv' /\ LockInv'
  <2>1. [Next]_vars
    BY DEF Manages, Next
  <2> QED
    BY <2>1, TypeInvStep, LockInvStep DEF BaseInv
<1>1. ManagerEffect(t)
  BY <1>0, ManagerFacts
<1>2. th[t].pc = "scan"
  BY DEF Manages, OpenAgain, OpenNew, OpenNothing, GotEntity, RenameEntity, RenameFails, RenameNothing,
         CloseDescriptor, Opens, AtEntity
<1>3. fd_manager_lock' = None
  <2>1. \A state : Unlock(t, state) => fd_manager_lock' = None
    BY DEF Unlock
  <2>2. \A e, fd : GotDescriptor(t, e, fd) => fd_manager_lock' = None
    BY DEF GotDescriptor, Unlock
  <2> QED
    BY <2>1, <2>2 DEF Manages, OpenAgain, OpenNew, OpenNothing, GotEntity, RenameEntity, RenameFails, RenameNothing,
         CloseDescriptor
<1>4. \A s \in Threads : th'[s].pc # "scan"
  BY <1>0, <1>3, FdManagerAssumption DEF LockInv
<1> QED
  BY <1>0, <1>1, <1>2, <1>4 DEF KeysInv, ScanInv, TypeInv, Types, ManagerEffect

(* A thread enters the manager. *)
LEMMA OpenInvLockManager ==
  ASSUME BaseInv, OpenInv, NEW t \in Threads, LockManager(t)
  PROVE  OpenInv'
<1>0. /\ th \in [Threads -> ThreadType] /\ Types /\ None \notin Entities /\ th[t] \in ThreadRecord
      /\ MapInv /\ EntityInv /\ HandleInv /\ ThreadInv /\ RenameAlone /\ HeldInv /\ FilesInv
  BY FdManagerAssumption DEF BaseInv, TypeInv, Types, OpenInv, ThreadType
<1>1. PICK look \in Looks(t, Updated) :
         th' = [th EXCEPT ![t] = [th[t] EXCEPT !.pc = "scan", !.found = look.found, !.todo = look.todo]]
  BY <1>0 DEF LockManager
<1>2. /\ \A s \in Threads \ {t} : th'[s] = th[s]
      /\ th'[t].pc = "scan" /\ th'[t].found = look.found /\ th'[t].call = th[t].call /\ th'[t].path = th[t].path
      /\ th'[t].to = th[t].to /\ th'[t].fd = th[t].fd /\ th[t].pc = "lock_manager"
  BY <1>0, <1>1 DEF ThreadRecord, LockManager
<1>3. /\ NewMaps /\ cache_files' = cache_files /\ handles' = handles /\ ent' = ent
      /\ \A s \in Threads : th[s].pc # "scan"
  BY FdManagerAssumption DEF LockManager, NewMaps, BaseInv, LockInv
<1>4. /\ MapInv' /\ EntityInv' /\ FilesInv' /\ InMap(fent') = InMap(fent) /\ fent' = Updated
      /\ \A x \in fent' : x.key \in Paths => x \in fent
  BY <1>0, <1>3, MapsUpdated DEF NewMaps
<1>5. HandleInv' /\ UsedFds' = UsedFds
  BY <1>0, <1>3, UsedSame DEF HandleInv
<1>6. HeldInv'
  <2>1. \A s \in Threads : Closes(s) => Closes(s)' /\ th'[s].fd = th[s].fd /\ th'[s].path = th[s].path
    BY <1>2 DEF Closes
  <2> QED
    BY <1>0, <1>3, <1>4, <2>1, HeldKept
<1>7. RenameAlone'
  BY <1>0, <1>2, <1>3 DEF RenameAlone, Busy
<1>8. ThreadInv'
  <2>1. th[t].call \in Fds => look.found = None \/ th[t].fd \in ent[look.found].fds
    <3>1. CASE th[t].call = "use"
      <4>1. look.found = One(GetExist(Updated, th[t].path, th[t].fd))
        BY <1>1, <3>1 DEF Looks
      <4>2. look.found = None \/ look.found \in GetExist(Updated, th[t].path, th[t].fd)
        BY <4>1, OneIsMember, OneOfNothing
      <4> QED
        BY <4>2 DEF GetExist
    <3>2. CASE th[t].call = "release"
      <4>1. look.found = One(GetFdEntity(Updated, th[t].path, th[t].fd))
        BY <1>1, <3>2 DEF Looks
      <4>2. look.found = None \/ look.found \in GetFdEntity(Updated, th[t].path, th[t].fd)
        BY <4>1, OneIsMember, OneOfNothing
      <4> QED
        BY <4>2 DEF GetFdEntity
    <3>3. CASE th[t].call = "close"
      <4>1. look.found = th[t].found
        BY <1>1, <3>3 DEF Looks
      <4> QED
        BY <1>0, <3>3, <4>1 DEF ThreadInv, Fds
    <3> QED
      BY <3>1, <3>2, <3>3 DEF Fds
  <2>2. th[t].call = "release" /\ look.found = None =>
           \A e \in InMap(Updated) : ent[e].path = th[t].path => th[t].fd \notin ent[e].fds
    <3> SUFFICES ASSUME th[t].call = "release", look.found = None, NEW e \in InMap(Updated),
                        ent[e].path = th[t].path, th[t].fd \in ent[e].fds
                 PROVE  FALSE
      OBVIOUS
    <3>1. look.found = One(GetFdEntity(Updated, th[t].path, th[t].fd))
      BY <1>1 DEF Looks
    <3>2. e \in GetFdEntity(Updated, th[t].path, th[t].fd)
      BY DEF GetFdEntity
    <3>3. None \notin GetFdEntity(Updated, th[t].path, th[t].fd)
      BY <1>0, UpdatedType DEF GetFdEntity, InMap, Keyed
    <3> QED
      BY <3>1, <3>2, <3>3, OneIsMember
  <2>3. \A s \in Threads : th'[s].call \in Fds =>
           th'[s].fd \in UsedFds' /\ (th'[s].found # None => th'[s].fd \in ent'[th'[s].found].fds)
    BY <1>0, <1>2, <1>3, <1>5, <2>1 DEF ThreadInv
  <2>4. \A s \in Threads : th'[s].pc = "scan" /\ th'[s].call = "release" /\ th'[s].found = None =>
           \A e \in InMap(fent)' : ent'[e].path = th'[s].path => th'[s].fd \notin ent'[e].fds
    BY <1>2, <1>3, <1>4, <2>2 DEF InMap
  <2>5. \A s \in Threads : th'[s].pc = "change" /\ is_cache_dir' => ent'[th'[s].found].moved
    BY <1>0, <1>2, <1>3 DEF ThreadInv, NewMaps
  <2>6. \A s \in Threads : th'[s].call = "use" => \E h \in handles' : h.fd = th'[s].fd /\ h.path = th'[s].path
    BY <1>0, <1>2, <1>3 DEF ThreadInv
  <2>7. \A s \in Threads : Closes(s)' =>
           /\ \A h \in handles' : h.fd # th'[s].fd
           /\ \A r \in Threads \ {s} : th'[r].call \in Fds => th'[r].fd # th'[s].fd
    <3>1. \A s \in Threads : th'[s].call = th[s].call /\ th'[s].fd = th[s].fd
      BY <1>2
    <3> QED
      BY <1>0, <1>3, <3>1 DEF ThreadInv, Closes
  <2> QED
    BY <2>3, <2>4, <2>5, <2>6, <2>7 DEF ThreadInv
<1> QED
  BY <1>4, <1>5, <1>6, <1>7, <1>8 DEF OpenInv

(* A release that found its entity goes on to close the descriptor. *)
LEMMA ToClose ==
  ASSUME Types, NEW t \in Threads, Unlock(t, [th[t] EXCEPT !.pc = "lock_manager", !.call = "close"])
  PROVE  /\ th'[t].pc = "lock_manager" /\ th'[t].call = "close" /\ th'[t].path = th[t].path
         /\ th'[t].to = th[t].to /\ th'[t].fd = th[t].fd /\ th'[t].found = th[t].found
<1> DEFINE r == [th[t] EXCEPT !.pc = "lock_manager", !.call = "close"]
<1>0. th[t] \in ThreadRecord
  BY DEF Types, ThreadType
<1>1. /\ r.pc = "lock_manager" /\ r.call = "close" /\ r.path = th[t].path
      /\ r.to = th[t].to /\ r.fd = th[t].fd /\ r.found = th[t].found
  BY <1>0 DEF ThreadRecord
<1>2. Unlock(t, r)
  OBVIOUS
<1> HIDE DEF r
<1>3. th'[t] = r
  BY <1>2, UnlockEffect
<1> QED
  BY <1>1, <1>3

(* The steps in the manager that change no entity and no map. *)
LEMMA OpenInvLooks ==
  ASSUME BaseInv, OpenInv, NEW t \in Threads, Scan(t) \/ OpenNothing(t) \/ GotEntity(t)
  PROVE  OpenInv'
<1>0. /\ th \in [Threads -> ThreadType] /\ Types /\ th[t] \in ThreadRecord /\ th[t] \in ThreadType
      /\ MapInv /\ EntityInv /\ HandleInv /\ ThreadInv /\ RenameAlone /\ HeldInv /\ FilesInv
      /\ th[t].pc = "scan" /\ Idle.pc = "idle" /\ Idle.call = "none"
  BY DEF BaseInv, TypeInv, Types, OpenInv, ThreadType, Scan, OpenNothing, GotEntity, AtEntity, Idle
<1>1. /\ UNCHANGED <<is_cache_dir, fent, except_fent, ent, cache_files, handles>>
      /\ \A s \in Threads \ {t} : th'[s] = th[s]
  BY <1>0, UnlockEffect DEF Scan, OpenNothing, GotEntity
<1>2. SameMaps /\ Quiet
  BY <1>1 DEF SameMaps, Quiet
<1>3. MapInv' /\ EntityInv' /\ FilesInv' /\ HandleInv' /\ InMap(fent)' = InMap(fent) /\ UsedFds' = UsedFds
  BY <1>0, <1>1, <1>2, MapsKept, HandlesKept, UsedSame DEF SameMaps
<1>4. \A s \in Threads : th'[s].pc = "change" => s # t
  <2>1. th'[t].pc # "change"
    <3>1. CASE Scan(t)
      BY <1>0, <3>1 DEF Scan, ThreadRecord
    <3>2. CASE OpenNothing(t)
      BY <1>0, <3>2, UnlockEffect DEF OpenNothing
    <3>3. CASE GotEntity(t)
      <4>1. Unlock(t, Idle) => th'[t].pc # "change"
        BY <1>0, UnlockEffect
      <4>2. Unlock(t, [th[t] EXCEPT !.pc = "lock_entity"]) => th'[t].pc # "change"
        BY <1>0, UnlockEffect DEF ThreadRecord
      <4>3. Unlock(t, [th[t] EXCEPT !.pc = "lock_manager", !.call = "close"]) => th'[t].pc # "change"
        BY <1>0, ToClose
      <4> QED
        BY <3>3, <4>1, <4>2, <4>3 DEF GotEntity
    <3> QED
      BY <3>1, <3>2, <3>3
  <2> QED
    BY <2>1
<1>a. ASSUME GoesOn(t)
      PROVE  OpenInv'
  <2>1. \A s \in Threads : th'[s].pc = "change" /\ is_cache_dir => ent'[th'[s].found].moved
    BY <1>0, <1>1, <1>4 DEF ThreadInv
  <2>2. ThreadInv' /\ RenameAlone'
    BY <1>0, <1>2, <1>a, <2>1, ThreadsKept
  <2>3. HeldInv'
    BY <1>0, <1>1, <1>a, ClosesKept, HeldKept
  <2> QED
    BY <1>3, <2>2, <2>3 DEF OpenInv
<1>b. ASSUME th'[t] = Idle, th[t].call = "release", th[t].found = None
      PROVE  OpenInv'
  <2>1. ThreadInv'
    BY <1>0, <1>1, <1>3, <1>b DEF ThreadInv, Closes, Fds
  <2>2. RenameAlone'
    BY <1>0, <1>1, <1>b DEF RenameAlone, Busy
  <2>3. HeldInv'
    <3> SUFFICES ASSUME NEW e \in Entities, Found(e), NEW fd \in ent[e].fds
                 PROVE  \/ \E h \in handles : h.fd = fd /\ h.path = ent[e].path
                        \/ \E s \in Threads : Closes(s)' /\ th'[s].fd = fd /\ th'[s].path = ent[e].path
      BY <1>1 DEF HeldInv, Found
    <3>1. e \in InMap(fent)
      BY <1>0 DEF MapInv, IsOpen
    <3>2. ~(th[t].fd = fd /\ th[t].path = ent[e].path)
      BY <1>0, <1>b, <3>1 DEF ThreadInv
    <3> QED
      BY <1>0, <1>1, <3>2 DEF HeldInv, Closes
  <2> QED
    BY <1>3, <2>1, <2>2, <2>3 DEF OpenInv
<1>5. CASE Scan(t)
  <2>1. PICK e \in th[t].todo : th' = [th EXCEPT ![t].todo = @ \ {e}]
    BY <1>5 DEF Scan
  <2>2. /\ th'[t].pc = th[t].pc /\ th'[t].call = th[t].call /\ th'[t].path = th[t].path /\ th'[t].to = th[t].to
        /\ th'[t].fd = th[t].fd /\ th'[t].found = th[t].found
    BY <1>0, <2>1 DEF ThreadRecord
  <2> QED
    BY <1>0, <1>1, <1>a, <2>2 DEF GoesOn
<1>6. CASE OpenNothing(t)
  <2>1. th'[t] = Idle /\ th[t].call = "touch"
    BY <1>0, <1>6, UnlockEffect DEF OpenNothing, AtEntity
  <2> QED
    BY <1>0, <1>1, <1>a, <2>1 DEF GoesOn, Closes
<1>7. CASE GotEntity(t)
  <2>0. th[t].call \in {"use", "release"}
    BY <1>7 DEF GotEntity, AtEntity
  <2>1. CASE Unlock(t, Idle) /\ th[t].found = None
    <3>1. th'[t] = Idle
      BY <1>0, <2>1, UnlockEffect
    <3> QED
      BY <1>0, <1>1, <1>a, <1>b, <2>0, <2>1, <3>1 DEF GoesOn, Closes
  <2>2. CASE Unlock(t, [th[t] EXCEPT !.pc = "lock_entity"])
    <3>1. /\ th'[t].pc = "lock_entity" /\ th'[t].call = th[t].call /\ th'[t].path = th[t].path
          /\ th'[t].to = th[t].to /\ th'[t].fd = th[t].fd /\ th'[t].found = th[t].found
      BY <1>0, <2>2, UnlockEffect DEF ThreadRecord
    <3> QED
      BY <1>0, <1>1, <1>a, <3>1 DEF GoesOn
  <2>3. CASE AtEntity(t, "release") /\ Unlock(t, [th[t] EXCEPT !.pc = "lock_manager", !.call = "close"])
    <3>1. /\ th'[t].pc = "lock_manager" /\ th'[t].call = "close" /\ th'[t].path = th[t].path
          /\ th'[t].to = th[t].to /\ th'[t].fd = th[t].fd /\ th'[t].found = th[t].found
      BY <1>0, <2>3, ToClose
    <3> QED
      BY <1>0, <1>1, <1>a, <2>3, <3>1 DEF GoesOn, AtEntity
  <2> QED
    BY <1>7, <2>1, <2>2, <2>3 DEF GotEntity
<1> QED
  BY <1>5, <1>6, <1>7

(***************************************************************************)
(* A descriptor that nobody had is opened: in an entity of the same path,  *)
(* or in a new one.                                                        *)
(***************************************************************************)
LEMMA GrowKeeps ==
  ASSUME BaseInv, OpenInv, NEW t \in Threads, NEW e \in Entities, NEW fd \in Nat, fd \notin UsedFds,
         th[t].pc = "scan", th[t].call \in {"open", "truncate", "touch"}, GotDescriptor(t, e, fd),
         \A s \in Threads : th'[s].pc # "scan", is_cache_dir' = is_cache_dir,
         \A f \in Entities \ {e} : ent'[f] = ent[f],
         ent'[e].fds = ent[e].fds \cup {fd}, ent'[e].path = th[t].path,
         \/ ent[e].path = th[t].path /\ ent'[e].moved = ent[e].moved /\ fent' = fent
         \/ Unknown(e) /\ ent[e].fds = {} /\ \A x \in fent' : x \in fent \/ x.e = e
  PROVE  HandleInv' /\ ThreadInv' /\ RenameAlone' /\ HeldInv'
<1>0. /\ th \in [Threads -> ThreadType] /\ Types /\ th[t] \in ThreadType
      /\ HandleInv /\ ThreadInv /\ RenameAlone /\ HeldInv /\ Idle.call = "none" /\ Idle.pc = "idle"
      /\ th[t].path \in Paths
  BY DEF BaseInv, TypeInv, Types, OpenInv, Idle, ThreadType, Shape
<1>1. /\ \A s \in Threads \ {t} : th'[s] = th[s]
      /\ \/ /\ th[t].call = "open" /\ th'[t] = Idle
            /\ handles' = handles \cup {[path |-> th[t].path, fd |-> fd, e |-> e]}
         \/ /\ th[t].call # "open" /\ handles' = handles
            /\ th'[t].pc = "lock_entity" /\ th'[t].call = "release" /\ th'[t].path = th[t].path
            /\ th'[t].to = th[t].to /\ th'[t].found = e /\ th'[t].fd = fd
  BY <1>0, GotDescriptorFacts
<1>2. /\ \A h \in handles : h.fd \in UsedFds /\ h.e \in Entities
      /\ \A s \in Threads : th[s].call \in Fds => th[s].fd \in UsedFds
  BY <1>0 DEF Types, HandleInv, UsedFds, ThreadInv
<1>3. /\ \A f \in Entities : ent[f].fds \subseteq ent'[f].fds
      /\ UsedFds \subseteq UsedFds' /\ fd \in UsedFds'
  BY DEF UsedFds
<1>4. \A h \in handles' : h \in handles \/ h = [path |-> th[t].path, fd |-> fd, e |-> e]
  BY <1>1
<1>5. HandleInv'
  <2>1. \A h \in handles : h.fd \in ent'[h.e].fds /\ (ent'[h.e].moved \/ ent'[h.e].path = h.path)
    BY <1>0, <1>2 DEF HandleInv, Unknown
  <2>2. \A h, g \in handles' : h.fd = g.fd => h = g
    BY <1>0, <1>2, <1>4 DEF HandleInv
  <2> QED
    BY <1>4, <2>1, <2>2 DEF HandleInv
<1>6. RenameAlone'
  <2>1. \A s \in Threads : th'[s].call = "rename" => s # t /\ th[s].call = "rename"
    BY <1>0, <1>1
  <2>2. \A s \in Threads : Busy(s)' => Busy(s) /\ th'[s].path = th[s].path /\ th'[s].to = th[s].to
    BY <1>0, <1>1 DEF Busy
  <2>3. \A s \in Threads \ {t} : th[s].call = "rename" => th[s].to # th[t].path
    BY <1>0 DEF RenameAlone, Busy
  <2> QED
    BY <1>0, <1>1, <1>4, <2>1, <2>2, <2>3 DEF RenameAlone
<1>7. ThreadInv'
  <2>0. \A s \in Threads : th'[s].call \in Fds => s # t \/ (th'[t].call = "release" /\ th'[t].found = e /\ th'[t].fd = fd)
    BY <1>0, <1>1 DEF Fds
  <2>f. \A s \in Threads : th[s].found \in Entities \cup {None}
    BY <1>0 DEF ThreadType, ThreadRecord
  <2>1. \A s \in Threads : th'[s].call \in Fds =>
           th'[s].fd \in UsedFds' /\ (th'[s].found # None => th'[s].fd \in ent'[th'[s].found].fds)
    <3> SUFFICES ASSUME NEW s \in Threads, th'[s].call \in Fds
                 PROVE  th'[s].fd \in UsedFds' /\ (th'[s].found # None => th'[s].fd \in ent'[th'[s].found].fds)
      OBVIOUS
    <3>1. CASE s = t
      <4>1. th'[t].found = e /\ th'[t].fd = fd /\ fd \in ent'[e].fds
        BY <1>0, <1>1, <3>1 DEF Fds
      <4> QED
        BY <1>3, <3>1, <4>1
    <3>2. CASE s # t
      <4>1. th'[s] = th[s] /\ th[s].fd \in UsedFds /\ (th[s].found # None => th[s].fd \in ent[th[s].found].fds)
        BY <1>0, <1>1, <3>2 DEF ThreadInv
      <4> QED
        BY <1>3, <2>f, <4>1
    <3> QED
      BY <3>1, <3>2
  <2>2. \A s \in Threads : th'[s].call = "use" => \E h \in handles' : h.fd = th'[s].fd /\ h.path = th'[s].path
    <3> SUFFICES ASSUME NEW s \in Threads \ {t}, th[s].call = "use"
                 PROVE  \E h \in handles' : h.fd = th[s].fd /\ h.path = th[s].path
      BY <1>0, <1>1
    <3> QED
      BY <1>0, <1>1 DEF ThreadInv
  <2>3. \A s \in Threads : Closes(s)' =>
           /\ \A h \in handles' : h.fd # th'[s].fd
           /\ \A r \in Threads \ {s} : th'[r].call \in Fds => th'[r].fd # th'[s].fd
    <3> SUFFICES ASSUME NEW s \in Threads, Closes(s)'
                 PROVE  /\ \A h \in handles' : h.fd # th'[s].fd
                        /\ \A r \in Threads \ {s} : th'[r].call \in Fds => th'[r].fd # th'[s].fd
      OBVIOUS
    <3>1. CASE s = t
      <4>1. th'[s].fd = fd /\ handles' = handles
        BY <1>0, <1>1, <3>1 DEF Closes
      <4> QED
        BY <1>1, <1>2, <3>1, <4>1
    <3>2. CASE s # t
      <4>1. th'[s] = th[s] /\ Closes(s) /\ th[s].fd \in UsedFds
        BY <1>1, <1>2, <3>2 DEF Closes, Fds
      <4>2. \A h \in handles' : h.fd # th[s].fd
        BY <1>0, <1>4, <4>1 DEF ThreadInv
      <4>3. \A r \in Threads \ {s} : th'[r].call \in Fds => th'[r].fd # th[s].fd
        BY <1>0, <1>1, <2>0, <4>1 DEF ThreadInv
      <4> QED
        BY <4>1, <4>2, <4>3
    <3> QED
      BY <3>1, <3>2
  <2>4. \A s \in Threads : th'[s].pc = "change" /\ is_cache_dir' => ent'[th'[s].found].moved
    <3> SUFFICES ASSUME NEW s \in Threads \ {t}, th[s].pc = "change", is_cache_dir
                 PROVE  ent'[th[s].found].moved
      BY <1>0, <1>1
    <3>1. th[s].found \in Entities /\ ent[th[s].found].moved
      BY <1>0, <2>f DEF ThreadInv, ThreadType, Shape, Working
    <3> QED
      BY <3>1 DEF Unknown
  <2> QED
    BY <2>1, <2>2, <2>3, <2>4 DEF ThreadInv
<1>8. HeldInv'
  <2> SUFFICES ASSUME NEW f \in Entities, Found(f)', NEW n \in ent'[f].fds
               PROVE  \/ \E h \in handles' : h.fd = n /\ h.path = ent'[f].path
                      \/ \E s \in Threads : Closes(s)' /\ th'[s].fd = n /\ th'[s].path = ent'[f].path
    BY DEF HeldInv
  <2>1. CASE f = e /\ n = fd
    <3>1. CASE th[t].call = "open"
      <4> DEFINE h == [path |-> th[t].path, fd |-> fd, e |-> e]
      <4>1. h \in handles' /\ h.fd = n /\ h.path = ent'[f].path
        BY <1>1, <2>1, <3>1
      <4> QED
        BY <4>1
    <3>2. CASE th[t].call # "open"
      BY <1>1, <2>1, <3>2 DEF Closes
    <3> QED
      BY <3>1, <3>2
  <2>2. CASE ~(f = e /\ n = fd)
    <3>1. n \in ent[f].fds
      BY <2>2
    <3>2. Found(f) /\ ent'[f].path = ent[f].path
      BY <3>1 DEF Found
    <3>3. CASE \E h \in handles : h.fd = n /\ h.path = ent[f].path
      BY <1>1, <3>2, <3>3
    <3>4. ASSUME NEW s \in Threads, Closes(s), th[s].fd = n, th[s].path = ent[f].path
          PROVE  Closes(s)' /\ th'[s].fd = n /\ th'[s].path = ent'[f].path
      <4>1. s # t
        BY <3>4 DEF Closes
      <4> QED
        BY <1>1, <3>2, <3>4, <4>1 DEF Closes
    <3> QED
      BY <1>0, <3>1, <3>2, <3>3, <3>4 DEF HeldInv
  <2> QED
    BY <2>1, <2>2
<1> QED
  BY <1>5, <1>6, <1>7, <1>8

LEMMA OpenInvOpenAgain ==
  ASSUME BaseInv, OpenInv, NEW t \in Threads, OpenAgain(t)
  PROVE  OpenInv'
<1> DEFINE e  == th[t].found
           fd == GetUnusedMinPseudoFd
<1>0. /\ th \in [Threads -> ThreadType] /\ ent \in [Entities -> EntityType] /\ Types /\ KeysUnique
      /\ MapInv /\ EntityInv /\ HandleInv /\ ThreadInv /\ RenameAlone /\ HeldInv /\ FilesInv
      /\ th[t].path \in Paths /\ th[t].call \in {"open", "truncate", "touch"}
      /\ th[t].pc = "scan" /\ Answer(t) /\ e \in Entities
  BY DEF BaseInv, TypeInv, Types, OpenInv, ThreadType, ThreadRecord, Shape, OpenAgain, Opens, AtEntity, Entered,
         KeysInv, ScanInv, Openers
<1>1. fd \in Nat /\ fd \notin UsedFds
  BY FreshDescriptor DEF BaseInv, TypeInv, Types
<1>2. Manages(t) /\ ~LockManager(t) /\ ~Scan(t)
  <2>1. ent' # ent
    <3>1. fd \notin ent[e].fds
      BY <1>0, <1>1 DEF UsedFds
    <3>2. ent' = [ent EXCEPT ![e].fds = ent[e].fds \cup {fd}]
      BY DEF OpenAgain
    <3> HIDE DEF fd, e
    <3>3. ent'[e].fds = ent[e].fds \cup {fd}
      BY <1>0, <3>2 DEF EntityType
    <3> QED
      BY <3>1, <3>3
  <2> QED
    BY <1>0, <2>1 DEF Manages, LockManager, Scan
<1>3. (\A s \in Threads : th'[s].pc # "scan") /\ is_cache_dir' = is_cache_dir
  BY <1>2, HolderFacts
<1>4. /\ fent' = fent /\ except_fent' = except_fent /\ cache_files' = cache_files /\ GotDescriptor(t, e, fd)
      /\ ent' = [ent EXCEPT ![e].fds = ent[e].fds \cup {fd}]
  BY DEF OpenAgain
<1>5. ent[e].path = th[t].path /\ IsOpen(e)
  BY <1>0, FindFacts, FdManagerAssumption DEF Answer, OpenAgain, Entered
<1> HIDE DEF fd, e
<1>6. /\ \A f \in Entities \ {e} : ent'[f] = ent[f]
      /\ ent'[e].fds = ent[e].fds \cup {fd} /\ ent'[e].path = ent[e].path /\ ent'[e].moved = ent[e].moved
      /\ ent'[e].cachepath = ent[e].cachepath
  BY <1>0, <1>4 DEF EntityType
<1>7. HandleInv' /\ ThreadInv' /\ RenameAlone' /\ HeldInv'
  BY <1>0, <1>1, <1>3, <1>4, <1>5, <1>6, GrowKeeps
<1>8. \A f \in Entities : /\ IsOpen(f)' <=> IsOpen(f)
                          /\ ent'[f].path = ent[f].path /\ ent'[f].moved = ent[f].moved
                          /\ ent'[f].cachepath = ent[f].cachepath
  BY <1>5, <1>6 DEF IsOpen
<1>9. InMap(fent)' = InMap(fent) /\ (\A x \in fent : x.e \in Entities)
      /\ \A p \in Paths : except_fent[p] # None => except_fent[p] \in Entities
  BY <1>0, <1>4 DEF InMap, Types
<1>10. MapInv'
  BY <1>0, <1>3, <1>4, <1>8, <1>9 DEF MapInv
<1>11. EntityInv' /\ FilesInv'
  BY <1>0, <1>3, <1>4, <1>8 DEF EntityInv, FilesInv, Entry
<1> QED
  BY <1>7, <1>10, <1>11 DEF OpenInv

LEMMA OpenInvOpenNew ==
  ASSUME BaseInv, OpenInv, NEW t \in Threads, OpenNew(t)
  PROVE  OpenInv'
<1> DEFINE fd  == GetUnusedMinPseudoFd
           p   == th[t].path
           key == IF is_cache_dir THEN p ELSE Temp
<1>0. /\ th \in [Threads -> ThreadType] /\ ent \in [Entities -> EntityType] /\ Types /\ KeysUnique
      /\ MapInv /\ EntityInv /\ HandleInv /\ ThreadInv /\ RenameAlone /\ HeldInv /\ FilesInv
      /\ p \in Paths /\ th[t].call \in {"open", "truncate"}
      /\ th[t].pc = "scan" /\ Answer(t) /\ th[t].found = None /\ except_fent = Emptied
  BY DEF BaseInv, TypeInv, Types, OpenInv, ThreadType, ThreadRecord, Shape, OpenNew, Opens, AtEntity, Entered,
         KeysInv, ScanInv, Openers
<1>1. fd \in Nat /\ fd \notin UsedFds
  BY FreshDescriptor DEF BaseInv, TypeInv, Types
<1> DEFINE r == [NewEntity EXCEPT !.state = "open", !.path = p, !.cachepath = is_cache_dir, !.fds = {fd}]
<1>r. r.path = p /\ r.cachepath = is_cache_dir /\ r.fds = {fd} /\ r.moved = FALSE
  BY DEF NewEntity
<1>2. PICK e \in Entities :
         /\ ent[e].state = "new" /\ ent' = [ent EXCEPT ![e] = r]
         /\ fent' = fent \cup {Entry(key, e)} /\ GotDescriptor(t, e, fd)
  BY DEF OpenNew
<1> HIDE DEF r
<1>3. /\ \A f \in Entities \ {e} : ent'[f] = ent[f]
      /\ ent'[e] = r
  BY <1>0, <1>2
<1>4. ent[e] = NewEntity /\ Unknown(e)
  BY <1>2 DEF BaseInv, NewInv
<1>5. ent[e].fds = {} /\ ~ent[e].moved
  BY <1>4 DEF NewEntity
<1>6. ~LockManager(t) /\ ~Scan(t)
  <2>1. ent' # ent
    BY <1>r, <1>3, <1>5
  <2> QED
    BY <1>0, <2>1 DEF LockManager, Scan
<1>7. (\A s \in Threads : th'[s].pc # "scan") /\ is_cache_dir' = is_cache_dir /\ except_fent' = Emptied
  BY <1>0, <1>6, HolderFacts DEF Manages, OpenNew
<1>8. cache_files' = IF is_cache_dir THEN cache_files \cup {p} ELSE cache_files
  BY DEF OpenNew
<1> HIDE DEF fd, p
<1>k. \A x \in fent' : x \in fent \/ (x.e = e /\ x.key = key)
  BY <1>2 DEF Entry
<1>9. HandleInv' /\ ThreadInv' /\ RenameAlone' /\ HeldInv'
  <2>1. ent'[e].fds = ent[e].fds \cup {fd} /\ ent'[e].path = th[t].path
    BY <1>r, <1>3, <1>5 DEF p
  <2> QED
    BY <1>0, <1>1, <1>2, <1>3, <1>4, <1>5, <1>7, <1>k, <2>1, GrowKeeps
<1>10. \A f \in Entities : Found(f) /\ IsOpen(f) => ent[f].path # p
  <2>1. FindByPath(fent, p) = {}
    BY <1>0, FindFacts, FdManagerAssumption DEF Answer, p
  <2> QED
    BY <1>0, <2>1, FindFacts
<1>11. MapInv'
  <2>1. Entry(key, e) \in fent' /\ Entry(key, e).e = e
    BY <1>2 DEF Entry
  <2>2. \A f \in Entities : f \in InMap(fent') <=> f \in InMap(fent) \/ f = e
    BY <1>2, <1>k, <2>1 DEF InMap
  <2>3. \A f \in Entities : IsOpen(f)' <=> f \in InMap(fent)'
    BY <1>0, <1>r, <1>3, <2>2 DEF MapInv, IsOpen, InMap
  <2>4. \A x \in fent' : x.key \in Paths => is_cache_dir' /\ ent'[x.e].path = x.key
    <3> SUFFICES ASSUME NEW x \in fent', x.key \in Paths
                 PROVE  is_cache_dir /\ ent'[x.e].path = x.key
      BY <1>7
    <3>1. CASE x \in fent
      <4>1. x.e \in Entities \ {e}
        BY <1>0, <1>4, <3>1 DEF Types, Unknown
      <4> QED
        BY <1>0, <1>3, <3>1, <4>1 DEF MapInv
    <3>2. CASE x.e = e /\ x.key = key
      BY <1>r, <1>3, <3>2, FdManagerAssumption
    <3> QED
      BY <1>k, <3>1, <3>2
  <2>5. \A q \in Paths : except_fent'[q] = None
    BY <1>7 DEF Emptied
  <2> QED
    BY <2>3, <2>4, <2>5 DEF MapInv
<1>12. EntityInv'
  <2>1. \A f \in Entities : ent'[f].moved => is_cache_dir'
    BY <1>0, <1>r, <1>3, <1>7 DEF EntityInv
  <2>2. \A f \in Entities : IsOpen(f)' => (ent'[f].cachepath <=> is_cache_dir' /\ ~ent'[f].moved)
    <3> SUFFICES ASSUME NEW f \in Entities, IsOpen(f)'
                 PROVE  ent'[f].cachepath <=> is_cache_dir /\ ~ent'[f].moved
      BY <1>7
    <3>1. CASE f = e
      <4>1. ent'[f].cachepath = is_cache_dir /\ ent'[f].moved = FALSE
        BY <1>r, <1>3, <3>1
      <4> QED
        BY <4>1
    <3>2. CASE f # e
      BY <1>0, <1>3, <3>2 DEF EntityInv, IsOpen
    <3> QED
      BY <3>1, <3>2
  <2>3. \A f \in Entities : is_cache_dir' /\ IsOpen(f)' /\ ~ent'[f].moved => Entry(ent'[f].path, f) \in fent'
    <3> SUFFICES ASSUME NEW f \in Entities, is_cache_dir, IsOpen(f)', ~ent'[f].moved
                 PROVE  Entry(ent'[f].path, f) \in fent'
      BY <1>7
    <3>1. CASE f = e
      BY <1>r, <1>2, <1>3, <3>1
    <3>2. CASE f # e
      <4>1. Entry(ent[f].path, f) \in fent
        BY <1>0, <1>3, <3>2 DEF EntityInv, IsOpen
      <4> QED
        BY <1>2, <1>3, <3>2, <4>1
    <3> QED
      BY <3>1, <3>2
  <2>4. \A f \in Entities \ {e} : IsOpen(f)' /\ ~ent'[f].moved => ent'[f].path # p
    BY <1>3, <1>10 DEF Found, IsOpen
  <2>5. \A f, g \in Entities :
           IsOpen(f)' /\ IsOpen(g)' /\ ~ent'[f].moved /\ ~ent'[g].moved /\ ent'[f].path = ent'[g].path => f = g
    <3>1. ent'[e].path = p
      BY <1>r, <1>3
    <3>2. \A f, g \in Entities \ {e} :
             IsOpen(f)' /\ IsOpen(g)' /\ ~ent'[f].moved /\ ~ent'[g].moved /\ ent'[f].path = ent'[g].path => f = g
      BY <1>0, <1>3 DEF EntityInv, IsOpen
    <3> QED
      BY <2>4, <3>1, <3>2
  <2> QED
    BY <2>1, <2>2, <2>3, <2>5 DEF EntityInv
<1>13. FilesInv'
  <2> SUFFICES ASSUME NEW f \in Entities, ent'[f].cachepath, IsOpen(f)'
               PROVE  ent'[f].path \in cache_files'
    BY DEF FilesInv
  <2>1. CASE f = e
    BY <1>r, <1>3, <1>8, <2>1
  <2>2. CASE f # e
    BY <1>0, <1>3, <1>8, <2>2 DEF FilesInv, IsOpen
  <2> QED
    BY <2>1, <2>2
<1> QED
  BY <1>9, <1>11, <1>12, <1>13 DEF OpenInv

(* The handles of a file that is renamed. *)
LEMMA MovedFacts ==
  ASSUME Types, NEW from \in Paths, NEW to \in Paths, handles' = Moved(from, to)
  PROVE  /\ \A g \in handles' : \E h \in handles :
               g.fd = h.fd /\ g.e = h.e /\ g.path = IF h.path = from THEN to ELSE h.path
         /\ \A h \in handles : \E g \in handles' :
               g.fd = h.fd /\ g.e = h.e /\ g.path = IF h.path = from THEN to ELSE h.path
         /\ (\A h, g \in handles : h.fd = g.fd => h = g) => \A h, g \in handles' : h.fd = g.fd => h = g
<1> DEFINE M(h) == IF h.path = from THEN [h EXCEPT !.path = to] ELSE h
<1>1. \A h \in handles : M(h).fd = h.fd /\ M(h).e = h.e /\ M(h).path = IF h.path = from THEN to ELSE h.path
  BY DEF Types
<1>2. handles' = {M(h) : h \in handles}
  BY DEF Moved
<1> HIDE DEF M
<1>3. \A g \in handles' : \E h \in handles : g = M(h)
  BY <1>2
<1>4. \A h \in handles : M(h) \in handles'
  BY <1>2
<1>5. ASSUME \A h, g \in handles : h.fd = g.fd => h = g
      PROVE  \A h, g \in handles' : h.fd = g.fd => h = g
  BY <1>1, <1>3, <1>5
<1> QED
  BY <1>1, <1>3, <1>4, <1>5

(***************************************************************************)
(* A rename gives the new path to the handles of the old one and to what   *)
(* is found by it, and to nothing else.                                    *)
(***************************************************************************)
LEMMA RenameKeeps ==
  ASSUME BaseInv, OpenInv, NEW t \in Threads, th[t].call = "rename",
         th'[t] = Idle, \A s \in Threads \ {t} : th'[s] = th[s], \A s \in Threads : th'[s].pc # "scan",
         is_cache_dir' = is_cache_dir, handles' = Moved(th[t].path, th[t].to),
         \A e \in Entities : /\ ent'[e].fds = ent[e].fds /\ ent'[e].moved = ent[e].moved
                             /\ ent'[e].path = IF e \in FindByPath(fent, th[t].path) THEN th[t].to ELSE ent[e].path,
         \A x \in fent' : x.key \in Paths => x \in fent \/ x.e \in FindByPath(fent, th[t].path)
  PROVE  HandleInv' /\ ThreadInv' /\ RenameAlone' /\ HeldInv'
<1> DEFINE from == th[t].path
           to   == th[t].to
           D    == FindByPath(fent, from)
<1>0. /\ th \in [Threads -> ThreadType] /\ Types /\ Idle.call = "none" /\ Idle.pc = "idle"
      /\ HandleInv /\ ThreadInv /\ RenameAlone /\ HeldInv /\ from \in Paths /\ to \in Paths /\ Busy(t)
  BY DEF BaseInv, TypeInv, Types, OpenInv, Idle, ThreadType, ThreadRecord, Shape, Busy
<1>1. \A f \in Entities : f \in D <=> Found(f) /\ IsOpen(f) /\ ent[f].path = from
  BY <1>0, FindFacts DEF BaseInv, OpenInv, KeysInv
<1>2. /\ \A g \in handles' : \E h \in handles :
            g.fd = h.fd /\ g.e = h.e /\ g.path = IF h.path = from THEN to ELSE h.path
      /\ \A h \in handles : \E g \in handles' :
            g.fd = h.fd /\ g.e = h.e /\ g.path = IF h.path = from THEN to ELSE h.path
      /\ \A h, g \in handles' : h.fd = g.fd => h = g
  BY <1>0, MovedFacts DEF HandleInv
<1>3. \A s \in Threads \ {t} : Busy(s) => th[s].path \notin {from, to} /\ th[s].to \notin {from, to}
  BY <1>0 DEF RenameAlone
<1>4. \A s \in Threads : th[s].call \in Fds \cup {"rename"} => Busy(s)
  BY <1>0 DEF ThreadType, Shape, Fds, Busy, Idle
<1>5. UsedFds' = UsedFds
  BY DEF UsedFds
<1> HIDE DEF from, to, D
<1>6. HandleInv'
  <2> SUFFICES ASSUME NEW g \in handles'
               PROVE  g.fd \in ent'[g.e].fds /\ (ent'[g.e].moved \/ ent'[g.e].path = g.path)
    BY <1>2 DEF HandleInv
  <2>1. PICK h \in handles : g.fd = h.fd /\ g.e = h.e /\ g.path = IF h.path = from THEN to ELSE h.path
    BY <1>2
  <2>2. h.e \in Entities /\ h.fd \in ent[h.e].fds /\ (ent[h.e].moved \/ ent[h.e].path = h.path)
    BY <1>0 DEF HandleInv, Types
  <2>3. ~ent[h.e].moved => (h.e \in D <=> h.path = from)
    BY <1>1, <2>2 DEF Found, IsOpen
  <2> QED
    BY <2>1, <2>2, <2>3 DEF D, from, to
<1>7. RenameAlone'
  <2> SUFFICES ASSUME NEW s \in Threads, th'[s].call = "rename"
               PROVE  /\ \A h \in handles' : h.path # th'[s].to
                      /\ \A r \in Threads \ {s} : Busy(r)' => {th'[r].path, th'[r].to} \cap {th'[s].path, th'[s].to} = {}
    BY DEF RenameAlone
  <2>1. s # t /\ th'[s] = th[s] /\ Busy(s)
    BY <1>0, <1>4
  <2>2. \A h \in handles : h.path # th[s].to
    BY <1>0, <2>1 DEF RenameAlone
  <2>3. \A h \in handles' : h.path # th[s].to
    BY <1>2, <1>3, <2>1, <2>2
  <2>4. \A r \in Threads \ {s} : Busy(r)' => r # t /\ th'[r] = th[r] /\ Busy(r)
    BY <1>0 DEF Busy
  <2> QED
    BY <1>0, <2>1, <2>3, <2>4 DEF RenameAlone
<1>8. ThreadInv'
  <2>1. \A s \in Threads : th'[s].call \in Fds => s # t /\ th'[s] = th[s]
    BY <1>0 DEF Fds
  <2>2. \A s \in Threads : th'[s].call \in Fds =>
           th'[s].fd \in UsedFds' /\ (th'[s].found # None => th'[s].fd \in ent'[th'[s].found].fds)
    <3>1. \A s \in Threads : th[s].found \in Entities \cup {None}
      BY <1>0 DEF ThreadType, ThreadRecord
    <3> QED
      BY <1>0, <1>5, <2>1, <3>1 DEF ThreadInv
  <2>3. \A s \in Threads : th'[s].call = "use" => \E h \in handles' : h.fd = th'[s].fd /\ h.path = th'[s].path
    <3> SUFFICES ASSUME NEW s \in Threads, th'[s].call = "use"
                 PROVE  \E h \in handles' : h.fd = th'[s].fd /\ h.path = th'[s].path
      OBVIOUS
    <3>1. s # t /\ th'[s] = th[s] /\ th[s].path # from
      BY <1>3, <1>4, <2>1 DEF Fds
    <3>2. PICK h \in handles : h.fd = th[s].fd /\ h.path = th[s].path
      BY <1>0, <3>1 DEF ThreadInv
    <3> QED
      BY <1>2, <3>1, <3>2
  <2>4. \A s \in Threads : Closes(s)' =>
           /\ \A h \in handles' : h.fd # th'[s].fd
           /\ \A r \in Threads \ {s} : th'[r].call \in Fds => th'[r].fd # th'[s].fd
    <3> SUFFICES ASSUME NEW s \in Threads, Closes(s)'
                 PROVE  /\ \A h \in handles' : h.fd # th'[s].fd
                        /\ \A r \in Threads \ {s} : th'[r].call \in Fds => th'[r].fd # th'[s].fd
      OBVIOUS
    <3>1. th'[s] = th[s] /\ Closes(s)
      BY <2>1 DEF Closes, Fds
    <3>2. \A h \in handles : h.fd # th[s].fd
      BY <1>0, <3>1 DEF ThreadInv
    <3> QED
      BY <1>0, <1>2, <2>1, <3>1, <3>2 DEF ThreadInv
  <2>5. \A s \in Threads : th'[s].pc = "change" /\ is_cache_dir' => ent'[th'[s].found].moved
    <3> SUFFICES ASSUME NEW s \in Threads, th'[s].pc = "change", is_cache_dir
                 PROVE  ent'[th'[s].found].moved
      OBVIOUS
    <3>1. th'[s] = th[s]
      BY <1>0
    <3>2. th[s].found \in Entities /\ ent[th[s].found].moved
      BY <1>0, <3>1 DEF ThreadInv, ThreadType, ThreadRecord, Shape, Working
    <3> QED
      BY <3>1, <3>2
  <2> QED
    BY <2>2, <2>3, <2>4, <2>5 DEF ThreadInv
<1>9. HeldInv'
  <2> SUFFICES ASSUME NEW f \in Entities, Found(f)', NEW n \in ent'[f].fds
               PROVE  \/ \E h \in handles' : h.fd = n /\ h.path = ent'[f].path
                      \/ \E s \in Threads : Closes(s)' /\ th'[s].fd = n /\ th'[s].path = ent'[f].path
    BY DEF HeldInv
  <2>1. n \in ent[f].fds /\ IsOpen(f)
    BY DEF IsOpen
  <2>2. Found(f)
    BY <1>1 DEF Found, D, from
  <2>3. f \in D <=> ent[f].path = from
    BY <1>1, <2>1, <2>2
  <2>4. ent'[f].path = IF ent[f].path = from THEN to ELSE ent[f].path
    BY <2>3 DEF D, from, to
  <2>5. ASSUME NEW h \in handles, h.fd = n, h.path = ent[f].path
        PROVE  \E g \in handles' : g.fd = n /\ g.path = ent'[f].path
    BY <1>2, <2>4, <2>5
  <2>6. ASSUME NEW s \in Threads, Closes(s), th[s].fd = n, th[s].path = ent[f].path
        PROVE  Closes(s)' /\ th'[s].fd = n /\ th'[s].path = ent'[f].path
    <3>1. s # t /\ Busy(s)
      BY <1>4, <2>6 DEF Closes, Fds
    <3>2. th[s].path # from /\ th'[s] = th[s]
      BY <1>3, <3>1
    <3> QED
      BY <2>4, <2>6, <3>2 DEF Closes
  <2> QED
    BY <1>0, <2>1, <2>2, <2>5, <2>6 DEF HeldInv
<1> QED
  BY <1>6, <1>7, <1>8, <1>9

LEMMA OpenInvRenameNothing ==
  ASSUME BaseInv, OpenInv, NEW t \in Threads, RenameNothing(t)
  PROVE  OpenInv'
<1>0. /\ th \in [Threads -> ThreadType] /\ Types /\ th[t].path \in Paths
      /\ MapInv /\ EntityInv /\ FilesInv /\ th[t].call = "rename" /\ th[t].found = None /\ th[t].pc = "scan"
      /\ Answer(t) /\ KeysUnique
  BY DEF BaseInv, TypeInv, Types, OpenInv, ThreadType, Shape, RenameNothing, AtEntity, KeysInv, ScanInv, Openers
<1>1. /\ UNCHANGED <<is_cache_dir, fent, except_fent, ent, cache_files>>
      /\ handles' = Moved(th[t].path, th[t].to) /\ th'[t] = Idle /\ \A s \in Threads \ {t} : th'[s] = th[s]
  BY <1>0, UnlockEffect DEF RenameNothing
<1>2. \A s \in Threads : th'[s].pc # "scan"
  <2>1. th' # th
    BY <1>0, <1>1 DEF Idle
  <2>2. ~LockManager(t) /\ ~Scan(t)
    BY <1>0 DEF LockManager, Scan, RenameNothing, AtEntity
  <2> QED
    BY <2>2, HolderFacts DEF Manages
<1>3. FindByPath(fent, th[t].path) = {}
  BY <1>0, FindFacts, FdManagerAssumption DEF Answer
<1>4. HandleInv' /\ ThreadInv' /\ RenameAlone' /\ HeldInv'
  BY <1>0, <1>1, <1>2, <1>3, RenameKeeps
<1>5. MapInv' /\ EntityInv' /\ FilesInv'
  BY <1>0, <1>1, MapsKept DEF SameMaps
<1> QED
  BY <1>4, <1>5 DEF OpenInv

LEMMA OpenInvRenameEntity ==
  ASSUME BaseInv, OpenInv, NEW t \in Threads, RenameEntity(t)
  PROVE  OpenInv'
<1> DEFINE from == th[t].path
           to   == th[t].to
           e    == th[t].found
           key  == IF ent[e].cachepath THEN to ELSE Temp
<1>0. /\ th \in [Threads -> ThreadType] /\ ent \in [Entities -> EntityType] /\ Types /\ from \in Paths /\ to \in Paths
      /\ MapInv /\ EntityInv /\ FilesInv /\ HeldInv /\ RenameAlone /\ th[t].call = "rename" /\ e \in Entities
      /\ th[t].pc = "scan" /\ th[t].todo = {} /\ Answer(t) /\ KeysUnique /\ except_fent = Emptied /\ from # to
  BY DEF BaseInv, TypeInv, Types, OpenInv, ThreadType, ThreadRecord, Shape, RenameEntity, AtEntity, Entered, KeysInv,
         ScanInv, Openers
<1>1. /\ fent' = {x \in fent : ~(x.e = e /\ x.key \in {from, Temp}) /\ x.key # to} \cup {Entry(key, e)}
      /\ ent' = [ent EXCEPT ![e].path = to] /\ is_cache_dir' = is_cache_dir /\ except_fent' = except_fent
      /\ cache_files' = IF ent[e].cachepath THEN (cache_files \ {from}) \cup {to} ELSE cache_files
      /\ handles' = Moved(from, to) /\ th'[t] = Idle /\ \A s \in Threads \ {t} : th'[s] = th[s]
  <2>1. /\ Unlock(t, Idle) /\ is_cache_dir' = is_cache_dir /\ except_fent' = except_fent
        /\ handles' = Moved(from, to)
    BY DEF RenameEntity
  <2>2. /\ fent' = {x \in fent : ~(x.e = e /\ x.key \in {from, Temp}) /\ x.key # to} \cup {Entry(key, e)}
        /\ ent' = [ent EXCEPT ![e].path = to]
        /\ cache_files' = IF ent[e].cachepath THEN (cache_files \ {from}) \cup {to} ELSE cache_files
    BY DEF RenameEntity
  <2> QED
    BY <1>0, <2>1, <2>2, UnlockEffect
<1>2. \A s \in Threads : th'[s].pc # "scan"
  <2>2. ~LockManager(t) /\ ~Scan(t)
    BY <1>0 DEF LockManager, Scan
  <2> QED
    BY <2>2, HolderFacts DEF Manages
<1>3. /\ FindByPath(fent, from) = {e} /\ IsOpen(e) /\ ent[e].path = from /\ Found(e)
      /\ \A f \in Entities : Found(f) /\ IsOpen(f) /\ ent[f].path = from => f = e
  <2>1. e \in FindByPath(fent, from)
    BY <1>0, FdManagerAssumption DEF Answer
  <2> QED
    BY <1>0, <2>1, FindFacts
<1>4. \A f \in Entities \ {e} : ent'[f] = ent[f]
  BY <1>0, <1>1
<1>5. /\ ent'[e].path = to /\ ent'[e].fds = ent[e].fds /\ ent'[e].moved = ent[e].moved
      /\ ent'[e].cachepath = ent[e].cachepath
  BY <1>0, <1>1 DEF EntityType
<1>6. \A f \in Entities : IsOpen(f) /\ Found(f) => ent[f].path # to
  <2> SUFFICES ASSUME NEW f \in Entities, IsOpen(f), Found(f), ent[f].path = to
               PROVE  FALSE
    OBVIOUS
  <2>1. PICK fd \in ent[f].fds : TRUE
    BY DEF IsOpen
  <2>2. \A h \in handles : h.path # to
    BY <1>0 DEF RenameAlone
  <2>3. PICK s \in Threads : Closes(s) /\ th[s].path = to
    BY <1>0, <2>1, <2>2 DEF HeldInv
  <2>4. s # t /\ Busy(s)
    BY <1>0, <2>3 DEF Closes, Busy, ThreadType, Shape, Idle
  <2> QED
    BY <1>0, <2>3, <2>4 DEF RenameAlone
<1>7. \A x \in fent : x.e \in Entities /\ IsOpen(x.e) /\ x.key # to
  <2> SUFFICES ASSUME NEW x \in fent
               PROVE  x.e \in Entities /\ IsOpen(x.e) /\ x.key # to
    OBVIOUS
  <2>1. x.e \in Entities /\ IsOpen(x.e)
    BY <1>0 DEF Types, MapInv, InMap
  <2>2. x.key = to => ent[x.e].path = to /\ Found(x.e)
    BY <1>0 DEF MapInv, Found
  <2> QED
    BY <1>6, <2>1, <2>2
<1>8. \A x \in fent : x.e = e => x.key \in {from, Temp}
  BY <1>0, <1>3 DEF Types, MapInv
<1> HIDE DEF from, to, e
<1>9. /\ \A x \in fent' : (x \in fent /\ x.e # e) \/ (x.e = e /\ x.key = key)
      /\ \A x \in fent : x.e # e => x \in fent'
      /\ Entry(key, e) \in fent' /\ Entry(key, e).e = e
  BY <1>1, <1>7, <1>8 DEF Entry
<1>10. HandleInv' /\ ThreadInv' /\ RenameAlone' /\ HeldInv'
  <2>1. \A f \in Entities : /\ ent'[f].fds = ent[f].fds /\ ent'[f].moved = ent[f].moved
                            /\ ent'[f].path = IF f \in FindByPath(fent, from) THEN to ELSE ent[f].path
    BY <1>3, <1>4, <1>5
  <2>2. \A x \in fent' : x \in fent \/ x.e \in FindByPath(fent, from)
    BY <1>3, <1>9
  <2> QED
    BY <1>0, <1>1, <1>2, <2>1, <2>2, RenameKeeps DEF from, to
<1>c. /\ \A f \in Entities : IsOpen(f) => (ent[f].cachepath <=> is_cache_dir /\ ~ent[f].moved)
      /\ \A f \in Entities : IsOpen(f)' <=> IsOpen(f)
  <2>1. \A f \in Entities : ent'[f].fds = ent[f].fds
    BY <1>4, <1>5
  <2> QED
    BY <1>0, <2>1 DEF EntityInv, IsOpen
<1>11. MapInv'
  <2>1. \A f \in Entities : f \in InMap(fent') <=> f \in InMap(fent) \/ f = e
    BY <1>9 DEF InMap
  <2>2. \A f \in Entities : IsOpen(f)' <=> f \in InMap(fent)'
    BY <1>0, <1>3, <1>c, <2>1 DEF MapInv, InMap
  <2>3. \A x \in fent' : x.key \in Paths => is_cache_dir' /\ ent'[x.e].path = x.key
    <3> SUFFICES ASSUME NEW x \in fent', x.key \in Paths
                 PROVE  is_cache_dir /\ ent'[x.e].path = x.key
      BY <1>1
    <3>1. CASE x \in fent /\ x.e # e
      BY <1>0, <1>4, <1>7, <3>1 DEF MapInv
    <3>2. CASE x.e = e /\ x.key = key
      BY <1>0, <1>3, <1>5, <1>c, <3>2, FdManagerAssumption
    <3> QED
      BY <1>9, <3>1, <3>2
  <2>4. \A q \in Paths : except_fent'[q] = None
    BY <1>0, <1>1 DEF Emptied
  <2> QED
    BY <2>2, <2>3, <2>4 DEF MapInv
<1>12. EntityInv'
  <2>1. \A f \in Entities : ent'[f].moved => is_cache_dir'
    BY <1>0, <1>1, <1>4, <1>5 DEF EntityInv
  <2>2. \A f \in Entities : IsOpen(f)' => (ent'[f].cachepath <=> is_cache_dir' /\ ~ent'[f].moved)
    BY <1>1, <1>4, <1>5, <1>c
  <2>3. \A f \in Entities : is_cache_dir' /\ IsOpen(f)' /\ ~ent'[f].moved => Entry(ent'[f].path, f) \in fent'
    <3> SUFFICES ASSUME NEW f \in Entities, is_cache_dir, IsOpen(f), ~ent'[f].moved
                 PROVE  Entry(ent'[f].path, f) \in fent'
      BY <1>1, <1>c
    <3>1. CASE f = e
      BY <1>5, <1>9, <1>c, <3>1
    <3>2. CASE f # e
      <4>1. Entry(ent[f].path, f) \in fent
        BY <1>0, <1>4, <3>2 DEF EntityInv
      <4>2. Entry(ent[f].path, f).e = f
        BY DEF Entry
      <4> QED
        BY <1>4, <1>9, <3>2, <4>1, <4>2
    <3> QED
      BY <3>1, <3>2
  <2>4. \A f \in Entities \ {e} : IsOpen(f) /\ ~ent'[f].moved => ent'[f].path # to
    BY <1>4, <1>6 DEF Found
  <2>5. \A f, g \in Entities :
           IsOpen(f)' /\ IsOpen(g)' /\ ~ent'[f].moved /\ ~ent'[g].moved /\ ent'[f].path = ent'[g].path => f = g
    <3>1. \A f, g \in Entities \ {e} :
             IsOpen(f)' /\ IsOpen(g)' /\ ~ent'[f].moved /\ ~ent'[g].moved /\ ent'[f].path = ent'[g].path => f = g
      BY <1>0, <1>4, <1>c DEF EntityInv
    <3> QED
      BY <1>5, <1>c, <2>4, <3>1
  <2> QED
    BY <2>1, <2>2, <2>3, <2>5 DEF EntityInv
<1>13. FilesInv'
  <2> SUFFICES ASSUME NEW f \in Entities, ent'[f].cachepath, IsOpen(f)
               PROVE  ent'[f].path \in cache_files'
    BY <1>c DEF FilesInv
  <2>1. CASE f = e
    BY <1>1, <1>5, <2>1
  <2>2. CASE f # e
    <3>1. ent[f].path \in cache_files /\ ~ent[f].moved
      BY <1>0, <1>4, <1>c, <2>2 DEF FilesInv
    <3>2. ent[f].path # from
      BY <1>3, <2>2, <3>1 DEF Found
    <3> QED
      BY <1>1, <1>4, <2>2, <3>1, <3>2
  <2> QED
    BY <2>1, <2>2
<1> QED
  BY <1>10, <1>11, <1>12, <1>13 DEF OpenInv

LEMMA OpenInvCloseDescriptor ==
  ASSUME BaseInv, OpenInv, NEW t \in Threads, CloseDescriptor(t)
  PROVE  OpenInv'
<1> DEFINE e    == th[t].found
           fd   == th[t].fd
           left == ent[e].fds \ {fd}
<1>0. /\ th \in [Threads -> ThreadType] /\ ent \in [Entities -> EntityType] /\ Types /\ OneOwner
      /\ MapInv /\ EntityInv /\ FilesInv /\ HandleInv /\ ThreadInv /\ RenameAlone /\ HeldInv
      /\ e \in Entities /\ th[t].pc = "scan" /\ th[t].todo = {} /\ th[t].call = "close" /\ except_fent = Emptied
      /\ fd \in ent[e].fds /\ Idle.call = "none" /\ Idle.pc = "idle"
  <2>1. /\ th \in [Threads -> ThreadType] /\ ent \in [Entities -> EntityType] /\ Types /\ OneOwner
        /\ MapInv /\ EntityInv /\ FilesInv /\ HandleInv /\ ThreadInv /\ RenameAlone /\ HeldInv
        /\ th[t].pc = "scan" /\ th[t].todo = {} /\ th[t].call = "close" /\ e # None
    BY DEF BaseInv, TypeInv, Types, OpenInv, CloseDescriptor, AtEntity, Entered
  <2>2. except_fent = Emptied
    BY <2>1 DEF BaseInv, KeysInv, ScanInv
  <2> QED
    BY <2>1, <2>2 DEF ThreadInv, Fds, ThreadType, ThreadRecord, Idle
<1>1. /\ ent' = [ent EXCEPT ![e].fds = left, ![e].state = IF left = {} THEN "gone" ELSE @]
      /\ fent' = IF left = {} THEN {x \in fent : x.e # e} ELSE fent
      /\ UNCHANGED <<is_cache_dir, except_fent, cache_files, handles>>
      /\ th'[t] = Idle /\ \A s \in Threads \ {t} : th'[s] = th[s]
  BY <1>0, UnlockEffect DEF CloseDescriptor
<1>2. \A s \in Threads : th'[s].pc # "scan"
  <2>2. ~LockManager(t) /\ ~Scan(t)
    BY <1>0 DEF LockManager, Scan
  <2> QED
    BY <2>2, HolderFacts DEF Manages
<1> HIDE DEF left, e, fd
<1>3. \A f \in Entities \ {e} : ent'[f] = ent[f]
  BY <1>0, <1>1
<1>4. /\ ent'[e].fds = left /\ ent'[e].path = ent[e].path /\ ent'[e].moved = ent[e].moved
      /\ ent'[e].cachepath = ent[e].cachepath
  BY <1>0, <1>1 DEF EntityType
<1>5. /\ \A f \in Entities : /\ ent'[f].fds \subseteq ent[f].fds /\ (IsOpen(f)' => IsOpen(f))
                             /\ ent'[f].path = ent[f].path /\ ent'[f].moved = ent[f].moved
                             /\ ent'[f].cachepath = ent[f].cachepath
      /\ \A f \in Entities : \A n \in ent[f].fds : n # fd => n \in ent'[f].fds
      /\ \A x \in fent' : x \in fent
      /\ \A x \in fent : x.e # e => x \in fent'
      /\ left # {} => fent' = fent
  BY <1>1, <1>3, <1>4 DEF IsOpen, left
<1>6. MapInv'
  <2>1. \A f \in Entities : IsOpen(f)' <=> f \in InMap(fent')
    <3> SUFFICES ASSUME NEW f \in Entities
                 PROVE  IsOpen(f)' <=> f \in InMap(fent')
      OBVIOUS
    <3>1. CASE f = e
      <4>1. left = {} => f \notin InMap(fent')
        BY <1>1, <3>1 DEF InMap
      <4>2. e \in InMap(fent)
        BY <1>0 DEF MapInv, IsOpen
      <4> QED
        BY <1>4, <1>5, <3>1, <4>1, <4>2 DEF IsOpen
    <3>2. CASE f # e
      <4>1. f \in InMap(fent') <=> f \in InMap(fent)
        BY <1>5, <3>2 DEF InMap
      <4> QED
        BY <1>0, <1>3, <3>2, <4>1 DEF MapInv, IsOpen
    <3> QED
      BY <3>1, <3>2
  <2>2. \A x \in fent' : x.key \in Paths => is_cache_dir' /\ ent'[x.e].path = x.key
    <3>1. \A x \in fent : x.e \in Entities
      BY <1>0 DEF Types
    <3> QED
      BY <1>0, <1>1, <1>5, <3>1 DEF MapInv
  <2>3. \A q \in Paths : except_fent'[q] = None
    BY <1>0, <1>1 DEF Emptied
  <2>4. InMap(fent)' = InMap(fent')
    BY DEF InMap
  <2> QED
    BY <2>1, <2>2, <2>3, <2>4 DEF MapInv
<1>7. EntityInv'
  <2>1. \A f \in Entities : is_cache_dir' /\ IsOpen(f)' /\ ~ent'[f].moved => Entry(ent'[f].path, f) \in fent'
    <3> SUFFICES ASSUME NEW f \in Entities, is_cache_dir, IsOpen(f)', ~ent'[f].moved
                 PROVE  Entry(ent[f].path, f) \in fent'
      BY <1>1, <1>5
    <3>1. Entry(ent[f].path, f) \in fent
      BY <1>0, <1>5 DEF EntityInv
    <3>2. Entry(ent[f].path, f).e = f
      BY DEF Entry
    <3>3. f = e => left # {}
      BY <1>4 DEF IsOpen
    <3> QED
      BY <1>5, <3>1, <3>2, <3>3
  <2>2. \A f \in Entities : ent'[f].moved => is_cache_dir'
    BY <1>0, <1>1, <1>5 DEF EntityInv
  <2>3. \A f \in Entities : IsOpen(f)' => (ent'[f].cachepath <=> is_cache_dir' /\ ~ent'[f].moved)
    BY <1>0, <1>1, <1>5 DEF EntityInv
  <2>4. \A f, g \in Entities :
           IsOpen(f)' /\ IsOpen(g)' /\ ~ent'[f].moved /\ ~ent'[g].moved /\ ent'[f].path = ent'[g].path => f = g
    BY <1>0, <1>5 DEF EntityInv
  <2> QED
    BY <2>1, <2>2, <2>3, <2>4 DEF EntityInv
<1>8. FilesInv'
  BY <1>0, <1>1, <1>5 DEF FilesInv
<1>9. /\ \A h \in handles : h.fd # fd /\ h.e \in Entities
      /\ \A s \in Threads \ {t} : th[s].call \in Fds => th[s].fd # fd
  BY <1>0 DEF ThreadInv, Closes, fd, Types
<1>10. HandleInv'
  BY <1>0, <1>1, <1>5, <1>9 DEF HandleInv
<1>11. RenameAlone'
  BY <1>0, <1>1 DEF RenameAlone, Busy
<1>12. ThreadInv'
  <2>1. \A s \in Threads : th'[s].call \in Fds => s # t /\ th'[s] = th[s]
    BY <1>0, <1>1 DEF Fds
  <2>2. \A s \in Threads : th'[s].call \in Fds =>
           th'[s].fd \in UsedFds' /\ (th'[s].found # None => th'[s].fd \in ent'[th'[s].found].fds)
    <3> SUFFICES ASSUME NEW s \in Threads, th'[s].call \in Fds
                 PROVE  th'[s].fd \in UsedFds' /\ (th'[s].found # None => th'[s].fd \in ent'[th'[s].found].fds)
      OBVIOUS
    <3>1. s # t /\ th'[s] = th[s] /\ th[s].fd # fd /\ th[s].found \in Entities \cup {None}
      BY <1>0, <1>9, <2>1 DEF ThreadType, ThreadRecord
    <3>2. th[s].fd \in UsedFds /\ (th[s].found # None => th[s].fd \in ent[th[s].found].fds)
      BY <1>0, <2>1 DEF ThreadInv
    <3>3. \A n \in UsedFds : n # fd => n \in UsedFds'
      BY <1>5 DEF UsedFds
    <3> QED
      BY <1>5, <3>1, <3>2, <3>3
  <2>3. \A s \in Threads : th'[s].call = "use" => \E h \in handles' : h.fd = th'[s].fd /\ h.path = th'[s].path
    <3>1. \A s \in Threads : th'[s].call = "use" => th'[s] = th[s]
      BY <2>1 DEF Fds
    <3> QED
      BY <1>0, <1>1, <3>1 DEF ThreadInv
  <2>4. \A s \in Threads : Closes(s)' =>
           /\ \A h \in handles' : h.fd # th'[s].fd
           /\ \A r \in Threads \ {s} : th'[r].call \in Fds => th'[r].fd # th'[s].fd
    <3>1. \A s \in Threads : Closes(s)' => th'[s] = th[s] /\ Closes(s)
      BY <2>1 DEF Closes, Fds
    <3> QED
      BY <1>0, <1>1, <2>1, <3>1 DEF ThreadInv
  <2>5. \A s \in Threads : th'[s].pc = "change" /\ is_cache_dir' => ent'[th'[s].found].moved
    <3> SUFFICES ASSUME NEW s \in Threads, th'[s].pc = "change", is_cache_dir
                 PROVE  ent'[th'[s].found].moved
      BY <1>1
    <3>1. th'[s] = th[s]
      BY <1>0, <1>1
    <3>2. th[s].found \in Entities /\ ent[th[s].found].moved
      BY <1>0, <3>1 DEF ThreadInv, ThreadType, ThreadRecord, Shape, Working
    <3> QED
      BY <1>5, <3>1, <3>2
  <2> QED
    BY <1>2, <2>2, <2>3, <2>4, <2>5 DEF ThreadInv
<1>13. HeldInv'
  <2> SUFFICES ASSUME NEW f \in Entities, Found(f)', NEW n \in ent'[f].fds
               PROVE  \/ \E h \in handles' : h.fd = n /\ h.path = ent'[f].path
                      \/ \E s \in Threads : Closes(s)' /\ th'[s].fd = n /\ th'[s].path = ent'[f].path
    BY DEF HeldInv
  <2>1. Found(f) /\ n \in ent[f].fds /\ ent'[f].path = ent[f].path
    BY <1>5 DEF Found
  <2>2. n # fd
    <3>1. CASE f = e
      BY <1>4, <3>1 DEF left
    <3>2. CASE f # e
      BY <1>0, <2>1, <3>2 DEF OneOwner
    <3> QED
      BY <3>1, <3>2
  <2>3. \A s \in Threads : th[s].fd = n => s # t
    BY <2>2 DEF fd
  <2> QED
    BY <1>0, <1>1, <2>1, <2>3 DEF HeldInv, Closes
<1> QED
  BY <1>6, <1>7, <1>8, <1>10, <1>11, <1>12, <1>13 DEF OpenInv

-----------------------------------------------------------------------------
(***************************************************************************)
(* What holds until a rename of a cache file fails.                        *)
(***************************************************************************)
KeptInv == failures = 0 => OpenInv

LEMMA BaseInvStep == BaseInv /\ [Next]_vars => BaseInv'
  BY TypeInvStep, LockInvStep, NewInvStep, OneOwnerStep, ScanInvStep, KeysUniqueStep DEF BaseInv, KeysInv

(* RenameFails is the one action that counts a failure. *)
LEMMA FailuresGrow ==
  ASSUME TypeInv, NEW t \in Threads, Calls(t) \/ Manages(t) \/ Works(t), failures' = 0
  PROVE  failures = 0 /\ ~RenameFails(t)
<1>1. CASE RenameFails(t)
  BY <1>1 DEF RenameFails, TypeInv, Types
<1>2. Calls(t) => failures' = failures
  BY CallFacts DEF CallEffect, TypeInv
<1>3. CASE Works(t)
  <2>1. failures' = failures
    <3>1. CASE LockEntity(t) \/ TestDiskSpace(t) \/ AddReserved(t) \/ FreeReserved(t) \/ NoSpace(t)
      BY <3>1 DEF LockEntity, TestDiskSpace, AddReserved, FreeReserved, NoSpace
    <3>2. CASE CleanupCacheDir(t)
      BY <3>2 DEF CleanupCacheDir
    <3>3. CASE GiveUpCacheFile(t) \/ ChangeEntityToTempPath(t) \/ UnlockEntity(t)
      BY <3>3 DEF GiveUpCacheFile, ChangeEntityToTempPath, UnlockEntity
    <3> QED
      BY <1>3, <3>1, <3>2, <3>3 DEF Works
  <2> QED
    BY <1>1, <2>1
<1>4. CASE Manages(t) /\ ~RenameFails(t)
  BY <1>4 DEF Manages, LockManager, Scan, OpenAgain, OpenNew, OpenNothing, GotEntity, RenameEntity, RenameNothing,
         CloseDescriptor
<1> QED
  BY <1>1, <1>2, <1>3, <1>4

LEMMA KeptInvStep == BaseInv /\ KeptInv /\ [Next]_vars => KeptInv'
<1> SUFFICES ASSUME BaseInv, KeptInv, [Next]_vars, failures' = 0
             PROVE  OpenInv'
  BY DEF KeptInv
<1>1. CASE UNCHANGED vars
  <2>1. /\ UNCHANGED <<is_cache_dir, fent, except_fent, ent, cache_files, handles, th>> /\ OpenInv
    BY <1>1 DEF vars, KeptInv
  <2> QED
    BY <2>1 DEF OpenInv, MapInv, EntityInv, HandleInv, ThreadInv, RenameAlone, HeldInv, FilesInv, IsOpen, InMap, Found,
         Closes, Busy, UsedFds
<1>2. ASSUME NEW t \in Threads, Calls(t) \/ Manages(t) \/ Works(t)
      PROVE  OpenInv'
  <2>1. OpenInv /\ ~RenameFails(t)
    BY <1>2, FailuresGrow DEF KeptInv, BaseInv
  <2>2. CASE Calls(t)
    BY <2>1, <2>2, OpenInvCalls
  <2>3. CASE Works(t)
    BY <2>1, <2>3, OpenInvWorks
  <2>4. CASE LockManager(t)
    BY <2>1, <2>4, OpenInvLockManager
  <2>5. CASE Scan(t) \/ OpenNothing(t) \/ GotEntity(t)
    BY <2>1, <2>5, OpenInvLooks
  <2>6. CASE OpenAgain(t)
    BY <2>1, <2>6, OpenInvOpenAgain
  <2>7. CASE OpenNew(t)
    BY <2>1, <2>7, OpenInvOpenNew
  <2>8. CASE RenameEntity(t)
    BY <2>1, <2>8, OpenInvRenameEntity
  <2>9. CASE RenameNothing(t)
    BY <2>1, <2>9, OpenInvRenameNothing
  <2>10. CASE CloseDescriptor(t)
    BY <2>1, <2>10, OpenInvCloseDescriptor
  <2> QED
    BY <1>2, <2>1, <2>2, <2>3, <2>4, <2>5, <2>6, <2>7, <2>8, <2>9, <2>10 DEF Manages
<1> QED
  BY <1>1, <1>2, NextCases

LEMMA KeptAlways == Spec => [](BaseInv /\ KeptInv)
<1>1. Init => BaseInv /\ KeptInv
  BY TypeInvInit, LockInvInit, OneOwnerInit, KeysInvInit, OpenInvInit DEF BaseInv, KeptInv
<1>2. BaseInv /\ KeptInv /\ [Next]_vars => (BaseInv /\ KeptInv)'
  BY BaseInvStep, KeptInvStep
<1> QED
  BY <1>1, <1>2, PTL DEF Spec

(***************************************************************************)
(* The map holds the open entities and no other, whoever opened, renamed   *)
(* or closed them, and one for a path.                                     *)
(***************************************************************************)
THEOREM OpenAreRegistered == Spec => []OpenEntitiesRegistered
<1>1. BaseInv /\ KeptInv => OpenEntitiesRegistered
  <2> SUFFICES ASSUME BaseInv, OpenInv
               PROVE  /\ \A e \in Entities : ent[e].fds # {} <=> e \in InMap(Updated)
                      /\ \A e, f \in InMap(Updated) :
                            ent[e].path = ent[f].path => e = f \/ ent[e].moved \/ ent[f].moved
    BY DEF KeptInv, OpenEntitiesRegistered
  <2>1. Types /\ MapInv /\ EntityInv /\ InMap(fent) \subseteq Entities
    BY DEF BaseInv, TypeInv, OpenInv, Types, InMap
  <2>2. InMap(Updated) = InMap(fent)
    BY <2>1, UpdatedFacts
  <2> QED
    BY <2>1, <2>2 DEF MapInv, EntityInv, IsOpen
<1> QED
  BY <1>1, KeptAlways, PTL

(***************************************************************************)
(* A read, write or flush finds the entity its file was opened on, however *)
(* often the file was renamed: by the key where there is a cache           *)
(* directory, by path and descriptor where all keys are temporary.         *)
(***************************************************************************)
THEOREM EntityIsFound == Spec => []DescriptorFindsEntity
<1>1. BaseInv /\ KeptInv => DescriptorFindsEntity
  <2> SUFFICES ASSUME BaseInv, OpenInv, NEW h \in handles, ~ent[h.e].moved
               PROVE  GetExist(Updated, h.path, h.fd) = {h.e}
    BY DEF KeptInv, DescriptorFindsEntity
  <2>1. Types /\ MapInv /\ EntityInv /\ HandleInv /\ OneOwner /\ InMap(fent) \subseteq Entities
    BY DEF BaseInv, TypeInv, OpenInv, Types, InMap
  <2>2. h.e \in Entities /\ h.path \in Paths /\ h.fd \in ent[h.e].fds /\ ent[h.e].path = h.path /\ IsOpen(h.e)
    BY <2>1 DEF Types, HandleInv, IsOpen
  <2>3. h.e \in InMap(Updated) /\ InMap(Updated) \subseteq Entities
    BY <2>1, <2>2, UpdatedFacts DEF MapInv
  <2>4. \A e \in Entities : h.fd \in ent[e].fds => e = h.e
    BY <2>1, <2>2 DEF OneOwner
  <2>5. CASE Keyed(Updated, h.path) # {}
    <3>1. is_cache_dir
      <4>1. PICK x \in Updated : x.key = h.path
        BY <2>5 DEF Keyed
      <4> QED
        BY <2>1, <2>2, <4>1, UpdatedFacts DEF MapInv
    <3>2. Entry(h.path, h.e) \in Updated
      <4>1. Entry(h.path, h.e) \in fent
        BY <2>1, <2>2, <3>1 DEF EntityInv
      <4>2. Entry(h.path, h.e).e = h.e
        BY DEF Entry
      <4> QED
        BY <2>1, <4>1, <4>2, UpdatedFacts
    <3>3. h.e \in InMap(Keyed(Updated, h.path))
      BY <3>2 DEF InMap, Keyed, Entry
    <3>4. InMap(Keyed(Updated, h.path)) \subseteq Entities
      BY <2>3 DEF InMap, Keyed
    <3> QED
      BY <2>2, <2>4, <2>5, <3>3, <3>4 DEF GetExist
  <2>6. CASE Keyed(Updated, h.path) = {}
    BY <2>2, <2>3, <2>4, <2>6 DEF GetExist
  <2> QED
    BY <2>5, <2>6
<1> QED
  BY <1>1, KeptAlways, PTL

(***************************************************************************)
(* The cache file of an open entity is in the cache directory: neither     *)
(* the cleanup nor an unlink takes it, and a rename takes it along.        *)
(***************************************************************************)
THEOREM CacheFileStays == Spec => []OpenCacheFileKept
<1>1. BaseInv /\ KeptInv => OpenCacheFileKept
  BY DEF KeptInv, OpenInv, FilesInv, IsOpen, OpenCacheFileKept
<1> QED
  BY <1>1, KeptAlways, PTL
=============================================================================
