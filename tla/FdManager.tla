------------------------------ MODULE FdManager ------------------------------
(***************************************************************************)
(* FdManager, AutoFdEntity and PseudoFdManager (fdcache.cpp,               *)
(* fdcache_auto.cpp, fdcache_pseudofd.cpp) with the calls of FdEntity that *)
(* take part: the map of entities and its keys, the pseudo descriptors,    *)
(* the two locks (fd_manager_lock, and fdent_lock of each entity), the     *)
(* change of an entity to a temporary path when the disk is full, rename,  *)
(* the cleanup of the cache directory and the reserved disk space.         *)
(*                                                                         *)
(* A thread is a handler of FUSE.  It makes a step of its own wherever it  *)
(* takes a lock or shares something that no lock protects.  A lock that is *)
(* taken and given back within a step is a guard of that step.             *)
(*                                                                         *)
(* The kernel names an open file by its path and libfuse lets a rename     *)
(* wait for the handlers on its paths and these for the rename; a file     *)
(* that is open is renamed, never unlinked or replaced (without the option *)
(* hard_remove).                                                           *)
(***************************************************************************)
EXTENDS Integers, FiniteSets

CONSTANTS Threads, Paths,
          Entities,      \* FdEntity objects, each lives once
          CacheModes,    \* whether a cache directory is set: a subset of BOOLEAN
          Disks,         \* how many reservations the disk has room for
          MaxCalls,      \* bound on the handlers that are called
          MaxFailures,   \* bound on the renames of cache files that fail
          None

\* A key made by MakeRandomTempPath, another one each time; it begins with a space, so it is no path.
Temp == "temp"

ASSUME FdManagerAssumption ==
    /\ IsFiniteSet(Threads) /\ IsFiniteSet(Paths) /\ IsFiniteSet(Entities)
    /\ CacheModes \subseteq BOOLEAN
    /\ Disks \subseteq Nat /\ MaxCalls \in Nat /\ MaxFailures \in Nat
    /\ None \notin Threads \cup Paths \cup Entities
    /\ Temp \notin Paths

VARIABLES
    is_cache_dir,     \* IsCacheDir
    disk,             \* the room on the disk
    fent,             \* the map: entries of a key, a path or Temp, and an entity
    except_fent,      \* path -> the entity that is to get a temporary path, or None
    fd_manager_lock,  \* the thread that holds it, or None
    ent,              \* the entities
    cache_files,      \* the paths with a file in the cache directory
    reserved,         \* what ReserveDiskSpace has added to free_disk_space
    handles,          \* the open files of the kernel: path, descriptor and the entity it was opened on
    th,               \* the threads
    calls, failures   \* counters for the bounds

vars == <<is_cache_dir, disk, fent, except_fent, fd_manager_lock, ent, cache_files, reserved, handles, th,
          calls, failures>>

MIN_PSEUDOFD_NUMBER == 2

Entry(key, e) == [key |-> key, e |-> e]

(* moved: given a temporary path while there is a cache directory. *)
NewEntity == [state |-> "new", path |-> None, cachepath |-> FALSE, fds |-> {}, lock |-> None, moved |-> FALSE]

Idle == [pc |-> "idle", call |-> "none", path |-> None, to |-> None, fd |-> 0, found |-> None,
         todo |-> {}, held |-> FALSE]

Init ==
    /\ is_cache_dir \in CacheModes /\ disk \in Disks
    /\ fent = {} /\ except_fent = [p \in Paths |-> None] /\ fd_manager_lock = None
    /\ ent = [e \in Entities |-> NewEntity]
    /\ cache_files \in SUBSET (IF is_cache_dir THEN Paths ELSE {})
    /\ reserved = 0 /\ handles = {} /\ th = [t \in Threads |-> Idle] /\ calls = 0 /\ failures = 0

-----------------------------------------------------------------------------
(***************************************************************************)
(* The map.                                                                *)
(***************************************************************************)
Keyed(map, path) == {x \in map : x.key = path}

(* UpdateEntityToTempPath, before every look at the map. *)
Updated ==
    LET moves == {p \in Paths : except_fent[p] # None}
    IN  {x \in fent : ~(x.key \in moves /\ x.e = except_fent[x.key])}
        \cup {Entry(Temp, except_fent[p]) : p \in moves}

Emptied == [p \in Paths |-> None]

InMap(map) == {x.e : x \in map}

(* PseudoFdManager: descriptors are of the whole process, the least unused one is given. *)
UsedFds == UNION {ent[e].fds : e \in Entities}

GetUnusedMinPseudoFd ==
    CHOOSE n \in MIN_PSEUDOFD_NUMBER..(MIN_PSEUDOFD_NUMBER + Cardinality(UsedFds)) :
        n \notin UsedFds /\ \A m \in MIN_PSEUDOFD_NUMBER..(n - 1) : m \in UsedFds

(* The entity of a path for Open and Rename; without a cache directory all keys are temporary. *)
FindByPath(map, path) ==
    IF Keyed(map, path) # {} THEN InMap(Keyed(map, path))
    ELSE IF is_cache_dir THEN {} ELSE {e \in InMap(map) : ent[e].fds # {} /\ ent[e].path = path}

(* The entities whose lock is taken to look for it, in the order of the keys. *)
LookedAt(map, path) ==
    IF Keyed(map, path) # {} \/ is_cache_dir THEN {{}}
    ELSE IF FindByPath(map, path) = {} THEN {InMap(map)}
    ELSE SUBSET (InMap(map) \ FindByPath(map, path))

(* GetExistFdEntity: only where no key is the path are the other entities asked. *)
GetExist(map, path, fd) ==
    LET asked == IF Keyed(map, path) # {} THEN InMap(Keyed(map, path))
                 ELSE {e \in InMap(map) : ent[e].path = path}
    IN  {e \in asked : fd \in ent[e].fds}

(* GetFdEntityHasLock with a descriptor: the others are asked in any case. *)
GetFdEntity(map, path, fd) ==
    {e \in InMap(Keyed(map, path)) \cup {x \in InMap(map) : ent[x].path = path} : fd \in ent[e].fds}

Asked(map, path) == InMap(Keyed(map, path)) \cup {e \in InMap(map) : ent[e].path = path}

One(set) == IF set = {} THEN None ELSE CHOOSE e \in set : TRUE

-----------------------------------------------------------------------------
(***************************************************************************)
(* Handlers begin.                                                         *)
(***************************************************************************)
Busy(t) == th[t].pc # "idle"

Renaming(path) == \E t \in Threads : th[t].call = "rename" /\ path \in {th[t].path, th[t].to}

Call(t, call, path, to, fd, pc) ==
    /\ ~Busy(t) /\ calls < MaxCalls /\ calls' = calls + 1
    /\ th' = [th EXCEPT ![t] = [Idle EXCEPT !.pc = pc, !.call = call, !.path = path, !.to = to, !.fd = fd]]

(* s3fs_open and s3fs_create. *)
CallOpen(t, path) ==
    /\ ~Renaming(path)
    /\ Call(t, "open", path, None, 0, "lock_manager")
    /\ UNCHANGED <<is_cache_dir, disk, fent, except_fent, fd_manager_lock, ent, cache_files, reserved, handles,
                   failures>>

(* A handler that is given a path and opens the file for its own length: s3fs_truncate, *)
(* or, where it is open already, s3fs_getattr, s3fs_chmod and others.                   *)
CallTouch(t, path, create) ==
    /\ ~Renaming(path)
    /\ Call(t, IF create THEN "truncate" ELSE "touch", path, None, 0, "lock_manager")
    /\ UNCHANGED <<is_cache_dir, disk, fent, except_fent, fd_manager_lock, ent, cache_files, reserved, handles,
                   failures>>

(* s3fs_read, s3fs_write, s3fs_flush, s3fs_fsync. *)
CallUse(t, h) ==
    /\ ~Renaming(h.path)
    /\ Call(t, "use", h.path, None, h.fd, "lock_manager")
    /\ UNCHANGED <<is_cache_dir, disk, fent, except_fent, fd_manager_lock, ent, cache_files, reserved, handles,
                   failures>>

(* s3fs_release; the kernel has no other call on the handle then. *)
CallRelease(t, h) ==
    /\ ~Renaming(h.path)
    /\ \A s \in Threads : Busy(s) => th[s].fd # h.fd
    /\ Call(t, "release", h.path, None, h.fd, "lock_manager")
    /\ handles' = handles \ {h}
    /\ UNCHANGED <<is_cache_dir, disk, fent, except_fent, fd_manager_lock, ent, cache_files, reserved, failures>>

(* FdManager::Rename, called by the end of s3fs_rename. *)
CallRename(t, from, to) ==
    /\ from # to /\ \A h \in handles : h.path # to
    /\ \A s \in Threads : Busy(s) => {th[s].path, th[s].to} \cap {from, to} = {}
    /\ Call(t, "rename", from, to, 0, "lock_manager")
    /\ UNCHANGED <<is_cache_dir, disk, fent, except_fent, fd_manager_lock, ent, cache_files, reserved, handles,
                   failures>>

(* s3fs_unlink: DeleteCacheFile takes no lock. *)
CallUnlink(t, path) ==
    /\ ~Renaming(path) /\ \A h \in handles : h.path # path
    /\ \A s \in Threads : Busy(s) => th[s].path # path
    /\ ~Busy(t) /\ calls < MaxCalls /\ calls' = calls + 1
    /\ path \in cache_files /\ cache_files' = cache_files \ {path}
    /\ UNCHANGED <<is_cache_dir, disk, fent, except_fent, fd_manager_lock, ent, reserved, handles, th, failures>>

-----------------------------------------------------------------------------
(***************************************************************************)
(* In FdManager: fd_manager_lock is held from LockManager to one of the    *)
(* last steps, while the locks of entities are waited for.                 *)
(***************************************************************************)
Looks(t, map) ==
    CASE th[t].call \in {"open", "truncate", "touch", "rename"} ->
            {[found |-> One(FindByPath(map, th[t].path)), todo |-> before] : before \in LookedAt(map, th[t].path)}
      [] th[t].call = "use" ->
            {[found |-> One(GetExist(map, th[t].path, th[t].fd)),
              todo |-> IF Keyed(map, th[t].path) # {} THEN InMap(Keyed(map, th[t].path)) ELSE Asked(map, th[t].path)]}
      [] th[t].call = "release" ->
            {[found |-> One(GetFdEntity(map, th[t].path, th[t].fd)), todo |-> Asked(map, th[t].path)]}
      [] th[t].call = "close" -> {[found |-> th[t].found, todo |-> {}]}

LockManager(t) ==
    /\ th[t].pc = "lock_manager" /\ fd_manager_lock = None
    /\ fd_manager_lock' = t /\ fent' = Updated /\ except_fent' = Emptied
    /\ \E look \in Looks(t, Updated) :
          th' = [th EXCEPT ![t] = [@ EXCEPT !.pc = "scan", !.found = look.found, !.todo = look.todo]]
    /\ UNCHANGED <<is_cache_dir, disk, ent, cache_files, reserved, handles, calls, failures>>

(* IsOpen, GetPath or FindPseudoFd of an entity on the way. *)
Scan(t) ==
    /\ th[t].pc = "scan"
    /\ \E e \in th[t].todo : ent[e].lock = None /\ th' = [th EXCEPT ![t].todo = @ \ {e}]
    /\ UNCHANGED <<is_cache_dir, disk, fent, except_fent, fd_manager_lock, ent, cache_files, reserved, handles,
                   calls, failures>>

AtEntity(t, call) == th[t].pc = "scan" /\ th[t].todo = {} /\ th[t].call = call

Unlock(t, state) == fd_manager_lock' = None /\ th' = [th EXCEPT ![t] = state]

Entered(t) == th[t].found # None /\ ent[th[t].found].lock = None

Opens(t) == \E call \in {"open", "truncate", "touch"} : AtEntity(t, call)

(* s3fs_open keeps the descriptor (Detach); the others use it and close it. *)
GotDescriptor(t, e, fd) ==
    IF th[t].call = "open"
    THEN Unlock(t, Idle) /\ handles' = handles \cup {[path |-> th[t].path, fd |-> fd, e |-> e]}
    ELSE /\ Unlock(t, [th[t] EXCEPT !.pc = "lock_entity", !.call = "release", !.found = e, !.fd = fd])
         /\ UNCHANGED handles

(* FdEntity::Open of an entity in the map. *)
OpenAgain(t) ==
    /\ Opens(t) /\ Entered(t)
    /\ ent' = [ent EXCEPT ![th[t].found].fds = @ \cup {GetUnusedMinPseudoFd}]
    /\ GotDescriptor(t, th[t].found, GetUnusedMinPseudoFd)
    /\ UNCHANGED <<is_cache_dir, disk, fent, except_fent, cache_files, reserved, calls, failures>>

(* A new entity, with a cache file and the path as its key, or with a temporary file and key. *)
OpenNew(t) ==
    /\ Opens(t) /\ th[t].call # "touch" /\ th[t].found = None
    /\ \E e \in Entities :
          /\ ent[e].state = "new"
          /\ ent' = [ent EXCEPT ![e] = [NewEntity EXCEPT !.state = "open", !.path = th[t].path,
                                                         !.cachepath = is_cache_dir, !.fds = {GetUnusedMinPseudoFd}]]
          /\ fent' = fent \cup {Entry(IF is_cache_dir THEN th[t].path ELSE Temp, e)}
          /\ GotDescriptor(t, e, GetUnusedMinPseudoFd)
    /\ cache_files' = IF is_cache_dir THEN cache_files \cup {th[t].path} ELSE cache_files
    /\ UNCHANGED <<is_cache_dir, disk, except_fent, reserved, calls, failures>>

OpenNothing(t) ==
    /\ AtEntity(t, "touch") /\ th[t].found = None
    /\ Unlock(t, Idle)
    /\ UNCHANGED <<is_cache_dir, disk, fent, except_fent, ent, cache_files, reserved, handles, calls, failures>>

(* The handler got its entity, and works on it without fd_manager_lock; or it got none: EIO. *)
GotEntity(t) ==
    /\ AtEntity(t, "use") \/ AtEntity(t, "release")
    /\ IF th[t].found = None THEN Unlock(t, Idle)
       ELSE \/ Unlock(t, [th[t] EXCEPT !.pc = "lock_entity"])
            \/ AtEntity(t, "release") /\ Unlock(t, [th[t] EXCEPT !.pc = "lock_manager", !.call = "close"])
    /\ UNCHANGED <<is_cache_dir, disk, fent, except_fent, ent, cache_files, reserved, handles, calls, failures>>

Moved(from, to) == {IF h.path = from THEN [h EXCEPT !.path = to] ELSE h : h \in handles}

(* Mutant: the path of the entity is not changed. *)
RenameEntityKeepsPath(t) ==
    /\ AtEntity(t, "rename") /\ Entered(t)
    /\ fent' = {x \in fent : ~(x.e = th[t].found /\ x.key \in {th[t].path, Temp}) /\ x.key # th[t].to}
               \cup {Entry(IF ent[th[t].found].cachepath THEN th[t].to ELSE Temp, th[t].found)}
    /\ handles' = Moved(th[t].path, th[t].to)
    /\ Unlock(t, Idle)
    /\ UNCHANGED <<is_cache_dir, disk, except_fent, ent, cache_files, reserved, calls, failures>>

(* Mutant: the entity keeps its old key. *)
RenameEntityKeepsKey(t) ==
    /\ AtEntity(t, "rename") /\ Entered(t)
    /\ ent' = [ent EXCEPT ![th[t].found].path = th[t].to]
    /\ cache_files' = IF ent[th[t].found].cachepath THEN (cache_files \ {th[t].path}) \cup {th[t].to} ELSE cache_files
    /\ handles' = Moved(th[t].path, th[t].to)
    /\ Unlock(t, Idle)
    /\ UNCHANGED <<is_cache_dir, disk, fent, except_fent, reserved, calls, failures>>

(* RenamePath: the cache file and the key move with the path. *)
RenameEntity(t) ==
    /\ AtEntity(t, "rename") /\ Entered(t)
    /\ LET e == th[t].found
           cached == ent[e].cachepath
       IN  /\ fent' = {x \in fent : ~(x.e = e /\ x.key \in {th[t].path, Temp}) /\ x.key # th[t].to}
                      \cup {Entry(IF cached THEN th[t].to ELSE Temp, e)}
           /\ ent' = [ent EXCEPT ![e].path = th[t].to]
           /\ cache_files' = IF cached THEN (cache_files \ {th[t].path}) \cup {th[t].to} ELSE cache_files
    /\ handles' = Moved(th[t].path, th[t].to)
    /\ Unlock(t, Idle)
    /\ UNCHANGED <<is_cache_dir, disk, except_fent, reserved, calls, failures>>

(* The entry is gone when RenamePath fails, and the entity with it. *)
RenameFails(t) ==
    /\ AtEntity(t, "rename") /\ Entered(t) /\ ent[th[t].found].cachepath /\ failures < MaxFailures
    /\ failures' = failures + 1
    /\ fent' = {x \in fent : x.e # th[t].found}
    /\ ent' = [ent EXCEPT ![th[t].found] = [NewEntity EXCEPT !.state = "gone"]]
    /\ handles' = Moved(th[t].path, th[t].to)
    /\ Unlock(t, Idle)
    /\ UNCHANGED <<is_cache_dir, disk, except_fent, cache_files, reserved, calls>>

RenameNothing(t) ==
    /\ AtEntity(t, "rename") /\ th[t].found = None
    /\ handles' = Moved(th[t].path, th[t].to)
    /\ Unlock(t, Idle)
    /\ UNCHANGED <<is_cache_dir, disk, fent, except_fent, ent, cache_files, reserved, calls, failures>>

(* Mutant: only the entry with the path as its key is taken out. *)
CloseDescriptorByPath(t) ==
    /\ AtEntity(t, "close") /\ Entered(t)
    /\ LET e    == th[t].found
           left == ent[e].fds \ {th[t].fd}
       IN  /\ ent' = [ent EXCEPT ![e].fds = left, ![e].state = IF left = {} THEN "gone" ELSE @]
           /\ fent' = IF left = {} THEN {x \in fent : ~(x.e = e /\ x.key = ent[e].path)} ELSE fent
    /\ Unlock(t, Idle)
    /\ UNCHANGED <<is_cache_dir, disk, except_fent, cache_files, reserved, handles, calls, failures>>

(* FdManager::Close and FdEntity::Close: the last descriptor takes the entity out of the map. *)
CloseDescriptor(t) ==
    /\ AtEntity(t, "close") /\ Entered(t)
    /\ LET e    == th[t].found
           left == ent[e].fds \ {th[t].fd}
       IN  /\ ent' = [ent EXCEPT ![e].fds = left, ![e].state = IF left = {} THEN "gone" ELSE @]
           /\ fent' = IF left = {} THEN {x \in fent : x.e # e} ELSE fent
    /\ Unlock(t, Idle)
    /\ UNCHANGED <<is_cache_dir, disk, except_fent, cache_files, reserved, handles, calls, failures>>

-----------------------------------------------------------------------------
(***************************************************************************)
(* In an entity, with its lock held.                                       *)
(***************************************************************************)
LockEntity(t) ==
    /\ th[t].pc = "lock_entity" /\ ent[th[t].found].lock = None
    /\ ent' = [ent EXCEPT ![th[t].found].lock = t]
    /\ th' = [th EXCEPT ![t].pc = "inside"]
    /\ UNCHANGED <<is_cache_dir, disk, fent, except_fent, fd_manager_lock, cache_files, reserved, handles, calls,
                   failures>>

Goes(t, pc) == th' = [th EXCEPT ![t].pc = pc]

(* IsSafeDiskSpace, the first half of ReserveDiskSpace; the cleanup is tried once. *)
TestDiskSpace(t) ==
    /\ th[t].pc \in {"inside", "cleaned"}
    /\ Goes(t, IF reserved + 1 <= disk THEN "reserve" ELSE IF th[t].pc = "inside" THEN "cleanup" ELSE "short")
    /\ UNCHANGED <<is_cache_dir, disk, fent, except_fent, fd_manager_lock, ent, cache_files, reserved, handles, calls,
                   failures>>

(* The second half; the lock was given back between the two. *)
AddReserved(t) ==
    /\ th[t].pc = "reserve"
    /\ reserved' = reserved + 1
    /\ th' = [th EXCEPT ![t] = [@ EXCEPT !.pc = "loading", !.held = TRUE]]
    /\ UNCHANGED <<is_cache_dir, disk, fent, except_fent, fd_manager_lock, ent, cache_files, handles, calls,
                   failures>>

(* Mutant: the reservation is not given back. *)
FreeReservedNever(t) ==
    /\ th[t].pc = "loading"
    /\ th' = [th EXCEPT ![t] = [@ EXCEPT !.pc = "worked", !.held = FALSE]]
    /\ UNCHANGED <<is_cache_dir, disk, fent, except_fent, fd_manager_lock, ent, cache_files, reserved, handles, calls,
                   failures>>

(* FreeReservedDiskSpace, whether the download has succeeded or not. *)
FreeReserved(t) ==
    /\ th[t].pc = "loading"
    /\ reserved' = reserved - 1
    /\ th' = [th EXCEPT ![t] = [@ EXCEPT !.pc = "worked", !.held = FALSE]]
    /\ UNCHANGED <<is_cache_dir, disk, fent, except_fent, fd_manager_lock, ent, cache_files, handles, calls,
                   failures>>

(* CleanupCacheDirInternal for all files: a file that is no key is deleted, if fd_manager_lock is free. *)
CleanupCacheDir(t) ==
    /\ th[t].pc = "cleanup"
    /\ Goes(t, "cleaned")
    /\ IF is_cache_dir /\ fd_manager_lock = None
       THEN /\ fent' = Updated /\ except_fent' = Emptied
            /\ cache_files' = {p \in cache_files : Keyed(Updated, p) # {}}
       ELSE UNCHANGED <<fent, except_fent, cache_files>>
    /\ UNCHANGED <<is_cache_dir, disk, fd_manager_lock, ent, reserved, handles, calls, failures>>

(* NoCacheLoadAndPost: the cache file is given up, or the call ends with ENOSPC. *)
GiveUpCacheFile(t) ==
    /\ th[t].pc = "short"
    /\ LET e == th[t].found
       IN  /\ cache_files' = IF ent[e].cachepath THEN cache_files \ {ent[e].path} ELSE cache_files
           /\ ent' = [ent EXCEPT ![e].cachepath = FALSE, ![e].moved = @ \/ is_cache_dir]
    /\ Goes(t, "change")
    /\ UNCHANGED <<is_cache_dir, disk, fent, except_fent, fd_manager_lock, reserved, handles, calls, failures>>

NoSpace(t) ==
    /\ th[t].pc = "short" /\ Goes(t, "worked")
    /\ UNCHANGED <<is_cache_dir, disk, fent, except_fent, fd_manager_lock, ent, cache_files, reserved, handles, calls,
                   failures>>

(* ChangeEntityToTempPath: fd_manager_lock is waited for while the lock of the entity is held. *)
ChangeEntityToTempPath(t) ==
    /\ th[t].pc = "change" /\ fd_manager_lock = None
    /\ except_fent' = IF Keyed(fent, ent[th[t].found].path) = {} THEN except_fent
                      ELSE [except_fent EXCEPT ![ent[th[t].found].path] = th[t].found]
    /\ Goes(t, "worked")
    /\ UNCHANGED <<is_cache_dir, disk, fent, fd_manager_lock, ent, cache_files, reserved, handles, calls, failures>>

(* Mutant: the descriptor is closed with the lock of the entity still held. *)
UnlockEntityAfterClose(t) ==
    /\ th[t].pc \in {"inside", "worked"}
    /\ ent' = [ent EXCEPT ![th[t].found].lock = IF th[t].call = "release" THEN t ELSE None]
    /\ th' = [th EXCEPT ![t] = IF @.call = "release" THEN [@ EXCEPT !.pc = "lock_manager", !.call = "close"]
                               ELSE Idle]
    /\ UNCHANGED <<is_cache_dir, disk, fent, except_fent, fd_manager_lock, cache_files, reserved, handles, calls,
                   failures>>

(* The call on the entity ends; nothing may have been missing on the disk. *)
UnlockEntity(t) ==
    /\ th[t].pc \in {"inside", "worked"}
    /\ ent' = [ent EXCEPT ![th[t].found].lock = None]
    /\ th' = [th EXCEPT ![t] = IF @.call = "release" THEN [@ EXCEPT !.pc = "lock_manager", !.call = "close"]
                               ELSE Idle]
    /\ UNCHANGED <<is_cache_dir, disk, fent, except_fent, fd_manager_lock, cache_files, reserved, handles, calls,
                   failures>>

Next ==
    \E t \in Threads :
        \/ \E path \in Paths : CallOpen(t, path) \/ CallUnlink(t, path)
        \/ \E path \in Paths, create \in BOOLEAN : CallTouch(t, path, create)
        \/ \E h \in handles : CallUse(t, h) \/ CallRelease(t, h)
        \/ \E from, to \in Paths : CallRename(t, from, to)
        \/ LockManager(t) \/ Scan(t) \/ OpenAgain(t) \/ OpenNew(t) \/ OpenNothing(t) \/ GotEntity(t)
        \/ RenameEntity(t) \/ RenameFails(t) \/ RenameNothing(t) \/ CloseDescriptor(t)
        \/ LockEntity(t) \/ TestDiskSpace(t) \/ AddReserved(t) \/ FreeReserved(t)
        \/ CleanupCacheDir(t) \/ GiveUpCacheFile(t) \/ NoSpace(t) \/ ChangeEntityToTempPath(t)
        \/ UnlockEntity(t)

Spec == Init /\ [][Next]_vars

-----------------------------------------------------------------------------
(* A path is a key once at most, a descriptor belongs to one entity, and what is *)
(* reserved is what the threads hold: a reservation is given back on every path. *)
TypeOK ==
    /\ fent \subseteq [key : Paths \cup {Temp}, e : Entities]
    /\ \A p \in Paths : Cardinality(Keyed(fent, p)) <= 1 /\ except_fent[p] \in Entities \cup {None}
    /\ fd_manager_lock \in Threads \cup {None}
    /\ \A e \in Entities : ent[e].lock \in Threads \cup {None}
    /\ \A e, f \in Entities : e # f => ent[e].fds \cap ent[f].fds = {}
    /\ cache_files \subseteq Paths
    /\ reserved = Cardinality({t \in Threads : th[t].held})

(***************************************************************************)
(* A read, write or flush finds by path and descriptor the entity its file *)
(* was opened on (GetExistFdEntity), however often the file was renamed    *)
(* and with temporary keys as with paths for keys.  Two exceptions: an     *)
(* entity that was given a temporary path although there is a cache        *)
(* directory (a second open makes another entity, and a rename does not    *)
(* find it), and a rename of the cache file that failed.                   *)
(***************************************************************************)
DescriptorFindsEntity ==
    failures = 0 => \A h \in handles : ent[h.e].moved \/ GetExist(Updated, h.path, h.fd) = {h.e}

(***************************************************************************)
(* When nobody is in the manager, the map holds exactly the entities with  *)
(* open descriptors, under whatever keys, and one for each path: what      *)
(* Open, Close, Rename and UpdateEntityToTempPath do to the map never      *)
(* leaves an entity behind or loses one.                                   *)
(***************************************************************************)
OpenEntitiesRegistered ==
    fd_manager_lock = None /\ failures = 0 =>
        /\ \A e \in Entities : ent[e].fds # {} <=> e \in InMap(Updated)
        /\ \A e, f \in InMap(Updated) : ent[e].path = ent[f].path => e = f \/ ent[e].moved \/ ent[f].moved

(***************************************************************************)
(* The cache file of an open file stays in the cache directory: the        *)
(* cleanup of another thread (CleanupCacheDirInternal), which knows a file *)
(* in use by its key only, and DeleteCacheFile spare it.                   *)
(***************************************************************************)
OpenCacheFileKept ==
    failures = 0 => \A e \in Entities : ent[e].cachepath /\ ent[e].fds # {} => ent[e].path \in cache_files

(* The threads that hold what t waits for. *)
Holder(t) ==
    CASE th[t].pc \in {"lock_manager", "change"} -> {fd_manager_lock} \ {None}
      [] th[t].pc = "lock_entity" -> {ent[th[t].found].lock} \ {None}
      [] th[t].pc = "scan" /\ th[t].todo # {} ->
            IF \E e \in th[t].todo : ent[e].lock = None THEN {} ELSE {ent[e].lock : e \in th[t].todo}
      [] th[t].pc = "scan" /\ th[t].todo = {} /\ th[t].found # None /\ th[t].call # "use" ->
            {ent[th[t].found].lock} \ {None}
      [] OTHER -> {}

WaitCycle(set) == set # {} /\ \A t \in set : Holder(t) \cap set # {}

(***************************************************************************)
(* Threads wait for each other in a circle only if one of them is in       *)
(* ChangeEntityToTempPath: fd_manager_lock is taken before the locks of    *)
(* entities everywhere else, and the cleanup only tries it (try_lock).     *)
(***************************************************************************)
OnlyTempPathDeadlocks ==
    \A set \in SUBSET Threads : WaitCycle(set) => \E t \in set : th[t].pc = "change"

(***************************************************************************)
(* Threads never wait for each other in a circle.  This does not hold:     *)
(* ChangeEntityToTempPath waits for fd_manager_lock with fdent_lock held,  *)
(* while open, close or a lookup in the manager wait for fdent_lock.       *)
(***************************************************************************)
NoDeadlock == \A set \in SUBSET Threads : ~WaitCycle(set)
=============================================================================
