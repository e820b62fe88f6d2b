---------------------------- MODULE FuseHandlers -----------------------------
(***************************************************************************)
(* The handlers of s3fs.cpp that work on names and headers, with the stat  *)
(* cache (StatCache) and the objects of the bucket: lookups, create, mknod,*)
(* mkdir, symlink, readlink, unlink, rmdir, rename, the changes of headers *)
(* (chmod; chown, utimens and the xattr handlers have its shape), readdir, *)
(* flush and release of a created file, and the update of the parent       *)
(* directory that ends most of them (update_parent_dir_stat).              *)
(*                                                                         *)
(* A handler is a list of operations: requests to S3, changes of the cache *)
(* and the parts of s3fs.cpp that decide what comes next.  Each is a step, *)
(* so that handlers of two threads interleave between them.  A request may *)
(* fail, and the rest of the handler is skipped as the code skips it.      *)
(*                                                                         *)
(* Paths are sequences of names.  An object has the key of the stat cache: *)
(* "dir/" ends with a slash.  The mount point lies below the bucket and    *)
(* has its object; compat_dir is off, as by default.                       *)
(***************************************************************************)
EXTENDS StatCache, SequencesExt

CONSTANTS Threads,
          Modes,         \* what chmod may set; 0 is the mode of an object without headers
          Buckets,       \* the objects at the start, a function of keys, and the created files that are open
          FsOptions,     \* nocopyapi and update_parent_dir_stat
          Operations,    \* the handlers that are called
          MaxCalls, MaxFailures, MaxEvicted   \* bounds on the calls, on the requests that fail, and on the
                                              \* entries that leave the cache

VARIABLES
    bucket,     \* the objects: key -> type, mode and data
    handles,    \* created files that are open: path, mode, data, and whether the creation is pending
    fsopt, th,  \* th[t]: the call of a thread and what is left of it
    live,       \* <<data, path>>: the files that users made and did not delete or replace
    modes,      \* path -> the mode the last change of it set, if it succeeded
    spoilt,     \* <<why, path>>: what made the cache wrong about a path, see below
    calls, failures, evicted

fs_vars == <<bucket, handles, fsopt, th, live, modes, spoilt, calls, failures, evicted>>
vars == <<sc, opt, now, fs_vars>>

Parent(p) == Front(p)
Below(p, q) == IsStrictPrefix(p, q)
Children(b, p) == {k \in DOMAIN b : Below(p, k.path)}

File(p) == Key(p, FALSE)
Dir(p) == Key(p, TRUE)

Meta(type, mode, data) == [type |-> type, mode |-> mode, data |-> data]
NoMeta == Meta("dir", 0, 0)

Idle == [call |-> "none", path |-> Root, to |-> Root, todo |-> << >>, seen |-> {}, failed |-> FALSE]

Init ==
    /\ InitCache
    /\ \E b \in Buckets : bucket = b.objects /\ handles = b.handles
    /\ fsopt \in FsOptions /\ th = [t \in Threads |-> Idle]
    /\ live = {<<bucket[k].data, k.path>> : k \in {x \in DOMAIN bucket : bucket[x].data # 0}}
    /\ modes = << >> /\ spoilt = {} /\ calls = 0 /\ failures = 0 /\ evicted = 0

-----------------------------------------------------------------------------
(***************************************************************************)
(* Lookups.                                                                *)
(***************************************************************************)
(* What the requests of get_object_attribute find: "dir", with overcheck "dir/", or a *)
(* directory that has only children.                                                   *)
Server(b, k, overcheck) ==
    IF k \in DOMAIN b THEN {[key |-> k, meta |-> b[k], force |-> FALSE]}
    ELSE IF overcheck /\ Dir(k.path) \in DOMAIN b
    THEN {[key |-> Dir(k.path), meta |-> b[Dir(k.path)], force |-> FALSE]}
    ELSE IF Children(b, k.path) # {} THEN {[key |-> Dir(k.path), meta |-> NoMeta, force |-> TRUE]}
    ELSE {}

(* What is at a path. *)
Truth(p) == Server(bucket, File(p), TRUE)

One(set) == CHOOSE x \in set : TRUE

(* The cache is large enough here; entries leave it in Evict. *)
Added(c, k, meta, forcedir, no_truncate) == One(AddStat(c, k, meta, forcedir, no_truncate))

(* The caller that asks for isforce (chk_dir_object_type) takes the place of the flag that  *)
(* AddStat is given: a directory without an object is then taken for a file with a slash.   *)
Judged(x, asks) == IF x.force /\ asks THEN [x EXCEPT !.force = FALSE, !.meta.type = "file"] ELSE x

(* The answer enters the cache. *)
Remember(c, k, found, asks) ==
    IF found = {} THEN One(AddNoObjectCache(c, k))
    ELSE LET x == Judged(One(found), asks) IN Added(c, x.key, x.meta, x.force, FALSE)

(* The answer of the cache: none, or a set of one entry or of nothing. *)
CacheAnswer(k, hit, no) ==
    [known |-> hit # {} \/ no.hit,
     found |-> {[key |-> k, meta |-> e.meta, force |-> e.isforce] : e \in hit},
     cache |-> no.cache]
OrNegative(k, got) == CacheAnswer(k, got.hit, IsNoObjectCache(got.cache, k, TRUE))

Cached(c, k, overcheck) == OrNegative(k, GetStat(c, k, overcheck))

(* get_object_attribute: what the cache does not know is asked of S3. *)
OrServer(cached, k, found, asks) ==
    IF cached.known THEN cached
    ELSE [known |-> TRUE, found |-> {Judged(x, asks) : x \in found},
          cache |-> Remember(cached.cache, k, found, asks)]

Attribute(c, k, overcheck, asks) == OrServer(Cached(c, k, overcheck), k, Server(bucket, k, overcheck), asks)

(* check_parent_object_access, from the parent up to the mount point, and the lookup of *)
(* the path; everybody may access.                                                      *)
Looked(c, p) ==
    FoldLeft(LAMBDA above, x : Attribute(above.cache, File(x), TRUE, FALSE), [cache |-> c],
             [i \in 1..Len(p) |-> SubSeq(p, 1, Len(p) - i)] \o <<p>>)

(* chk_dir_object_type: with the object, or as a directory without one. *)
DirType(c, p) == Attribute(c, Dir(p), FALSE, TRUE)

(* An object-less directory enters the cache as one with an object. *)
Unforced(c, p) ==
    {<<"unforced", p>> : x \in {y \in Server(bucket, Dir(p), FALSE) : y.force /\ ~Cached(c, Dir(p), FALSE).known}}

IsDir(found) == \E x \in found : x.meta.type = "dir"

-----------------------------------------------------------------------------
(***************************************************************************)
(* Operations.  "group" tells which of them still run after a failure:     *)
(* those of the same group that are to run always, and the last.           *)
(***************************************************************************)
Op(op, key, meta, group, always) ==
    [op |-> op, key |-> key, from |-> key, to |-> key.path, meta |-> meta, group |-> group, always |-> always]

Put(key, meta, group) == Op("put", key, meta, group, FALSE)
Copy(from, key, meta, group) == [Op("copy", key, meta, group, FALSE) EXCEPT !.from = from]
Do(op, p, group) == Op(op, File(p), NoMeta, group, FALSE)
Always(op, k, group) == Op(op, k, NoMeta, group, TRUE)

LastGroup == 100
SoftGroup == 101     \* the update of a parent directory: its failure is not one of the handler
UpdateParent(p, group) ==
    IF fsopt.update_parent /\ p # Root THEN <<Always("parent", File(p), group)>> ELSE << >>

AfterFailure(todo) ==
    LET g == Head(todo).group
    IN  IF g = SoftGroup THEN SelectSeq(todo, LAMBDA o : o.group # SoftGroup)
        ELSE SelectSeq(Tail(todo), LAMBDA o : o.always /\ o.group \in {g, LastGroup})

AtOp(t, op) == th[t].call # "none" /\ th[t].todo # << >> /\ Head(th[t].todo).op = op
CurrentOp(t) == Head(th[t].todo)

GoOn(t, ops) == th' = [th EXCEPT ![t].todo = ops \o Tail(@)]
Fails(t) ==
    th' = [th EXCEPT ![t] = [@ EXCEPT !.todo = AfterFailure(@),
                                      !.failed = @ \/ Head(th[t].todo).group # SoftGroup]]

CacheNow(c) == sc' = c /\ UNCHANGED <<opt, now>>

-----------------------------------------------------------------------------
(***************************************************************************)
(* Locks of the kernel and of libfuse: who may run beside whom.            *)
(***************************************************************************)
(* The inodes whose lock is held exclusively, or shared. *)
Exclusive(x) ==
    CASE x.call \in {"create", "mknod", "mkdir", "symlink"} -> {Parent(x.path)}
      [] x.call \in {"unlink", "rmdir"} -> {Parent(x.path), x.path}
      [] x.call = "rename" -> {Parent(x.path), Parent(x.to), x.path, x.to}
      [] x.call \in {"chmod", "utimens"} -> {x.path}
      [] OTHER -> {}
Shared(x) == IF x.call = "readdir" THEN {x.path} ELSE {}

(* The paths that are locked with what is below them, for writing. *)
TreeLocked(x) ==
    CASE x.call \in {"unlink", "rmdir"} -> {x.path}
      [] x.call = "rename" -> {x.path, x.to}
      [] OTHER -> {}

Conflict(x, y) ==
    \/ Exclusive(x) \cap (Exclusive(y) \cup Shared(y)) # {}
    \/ \E p \in TreeLocked(x), q \in {y.path} \cup (IF y.call = "rename" THEN {y.to} ELSE {}) : IsPrefix(p, q)

(* A thread may begin a handler. *)
Free(t, call, p, q) ==
    /\ th[t] = Idle /\ calls < MaxCalls /\ call \in Operations
    /\ LET x == [Idle EXCEPT !.call = call, !.path = p, !.to = q]
       IN \A s \in Threads : th[s] # Idle => ~Conflict(x, th[s]) /\ ~Conflict(th[s], x)

StartWith(t, call, p, q, ops, seen) ==
    /\ th' = [th EXCEPT ![t] = [Idle EXCEPT !.call = call, !.path = p, !.to = q, !.todo = ops, !.seen = seen]]
    /\ calls' = calls + 1

(* A handler that needs no request ends in its first step. *)
Answered == calls' = calls + 1 /\ UNCHANGED th

Opened(p) == {h \in handles : h.path = p}

-----------------------------------------------------------------------------
(***************************************************************************)
(* Handlers begin.                                                         *)
(***************************************************************************)
(* A lookup: what the cache does not know is asked of S3 at once, and enters the cache later. *)
Lookup(t, call, p, op) ==
    LET up     == IF p = Root THEN sc ELSE Looked(sc, Parent(p)).cache
        cached == Cached(up, File(p), TRUE)
    IN  /\ Free(t, call, p, p)
        /\ CacheNow(cached.cache)
        /\ IF cached.known THEN Answered
           ELSE StartWith(t, call, p, p, <<Do(op, p, 1)>>, Server(bucket, File(p), TRUE))
        /\ UNCHANGED <<bucket, handles, fsopt, live, modes, spoilt, failures, evicted>>

CallGetattr(t, p) == Lookup(t, "getattr", p, "remember")

(* s3fs_readlink: the link cache first. *)
CallReadlink(t, p) ==
    LET got == GetSymlink(sc, File(p))
    IN  /\ Free(t, "readlink", p, p)
        /\ IF got.hit # {} THEN CacheNow(got.cache) /\ Answered
           ELSE LET looked == Looked(got.cache, p)
                IN  /\ \E x \in looked.found : x.meta.type = "link"
                    /\ CacheNow(looked.cache)
                    /\ StartWith(t, "readlink", p, p, <<Do("read_link", p, 1)>>, {})
        /\ UNCHANGED <<bucket, handles, fsopt, live, modes, spoilt, failures, evicted>>

(* A handler that changes something has looked at the path first. *)
Begin(t, call, p, q, looked, ops) ==
    /\ CacheNow(looked.cache)
    /\ StartWith(t, call, p, q, ops, {})
    /\ UNCHANGED <<bucket, handles, fsopt, live, spoilt, failures, evicted>>

(* Each new file has data of its own. *)
NewData == calls + 100

Creates(p) == p # Root /\ Looked(sc, p).found = {} /\ IsDir(Looked(sc, Parent(p)).found)

CallCreate(t, p) ==
    /\ Free(t, "create", p, p)
    /\ Creates(p)
    /\ LET meta == Meta("file", 1, NewData)
       IN Begin(t, "create", p, p, Looked(sc, p), <<Put(File(p), meta, 1), Op("created", File(p), meta, 1, FALSE)>>)
    /\ UNCHANGED modes

CallMknod(t, p) ==
    /\ Free(t, "mknod", p, p)
    /\ Creates(p)
    /\ Begin(t, "mknod", p, p, Looked(sc, p),
             <<Put(File(p), Meta("file", 1, NewData), 1), Do("forget", p, 1)>> \o UpdateParent(p, 2))
    /\ UNCHANGED modes

(* s3fs_mkdir goes on when the object could not be made. *)
CallMkdir(t, p) ==
    /\ Free(t, "mkdir", p, p)
    /\ Creates(p)
    /\ Begin(t, "mkdir", p, p, Looked(sc, p),
             <<Put(Dir(p), Meta("dir", 1, 0), 1), Always("forget", File(p), 1)>> \o UpdateParent(p, 1))
    /\ UNCHANGED modes

(* s3fs_symlink; the target is the data of the object. *)
CallSymlink(t, p) ==
    /\ Free(t, "symlink", p, p)
    /\ Creates(p)
    /\ LET meta == Meta("link", 1, NewData)
       IN Begin(t, "symlink", p, p, Looked(sc, p),
                <<Put(File(p), meta, 1), Op("linked", File(p), meta, 1, FALSE)>> \o UpdateParent(p, 2))
    /\ UNCHANGED modes

(* The kernel deletes and replaces what is open after libfuse gave it another name. *)
Settled(p) == ~\E h \in handles : IsPrefix(p, h.path)

ForgetModes(p) == modes' = Restrict(modes, {q \in DOMAIN modes : ~IsPrefix(p, q)})

Unlink(p, group) ==
    <<Op("delete", File(p), NoMeta, group, FALSE), Do("unlinked", p, group)>> \o UpdateParent(p, group + 1)

CallUnlink(t, p) ==
    LET looked == Looked(sc, p)
    IN  /\ Free(t, "unlink", p, p)
        /\ looked.found # {} /\ ~IsDir(looked.found) /\ Settled(p)
        /\ Begin(t, "unlink", p, p, looked, Unlink(p, 1))
        /\ ForgetModes(p)

(* s3fs_rmdir, its end, which is reached whatever becomes of the deletion. *)
Rmdir(p, group) ==
    <<Op("delete", Dir(p), NoMeta, group, FALSE),
      Always("forget", Dir(p), group), Always("old_type", File(p), group)>>
        \o UpdateParent(p, group)

CallRmdir(t, p) ==
    LET looked == Looked(sc, p)
    IN  /\ Free(t, "rmdir", p, p)
        /\ p # Root /\ IsDir(looked.found) /\ Children(bucket, p) = {}
        /\ Begin(t, "rmdir", p, p, looked, Rmdir(p, 1))
        /\ ForgetModes(p)

(* Mutant: the copy API is used for a directory that has no object. *)
RebuildsForNoCopy(isdir, force) == isdir /\ fsopt.nocopy

(* IS_REPLACEDIR, or s3fs_chmod_nocopy. *)
Rebuilds(isdir, force) == isdir /\ (force \/ fsopt.nocopy)

(* What is left to do for the new headers of a directory or a file. *)
HeaderOps(p, old, new, isdir, rebuild) ==
    IF rebuild THEN <<Do("forget", p, 1), Op("rebuild", Dir(p), new, 1, FALSE)>>
    ELSE IF isdir THEN <<Copy(old.key, old.key, new, 1), Do("forget", p, 1)>>
    ELSE <<Op("merge", File(p), new, 1, FALSE)>>

NewHeaders(old, call, mode) == [old.meta EXCEPT !.mode = IF call = "chmod" THEN mode ELSE @]

(* The second lookup of a handler that has found its path: of a directory, the type. *)
Typed(c, p, isdir) == IF isdir THEN DirType(c, p) ELSE Attribute(c, File(p), TRUE, FALSE)

BeginHeaders(t, call, p, mode, typed, isdir) ==
    /\ typed.found # {}
    /\ CacheNow(typed.cache)
    /\ \E old \in {One(typed.found)} :
          StartWith(t, call, p, p,
                    HeaderOps(p, old, NewHeaders(old, call, mode), isdir, Rebuilds(isdir, old.force)), {})

(* The handlers that change headers: chmod, and utimens that keeps the mode.  A directory *)
(* without an object is rebuilt, each one without the copy API.                           *)
ChangeHeaders(t, call, p, mode) ==
    /\ Free(t, call, p, p)
    /\ p # Root
    /\ \E looked \in {Looked(sc, p)} : \E isdir \in {IsDir(looked.found)} :
          /\ looked.found # {}
          /\ BeginHeaders(t, call, p, mode, Typed(looked.cache, p, isdir), isdir)
          /\ spoilt' = spoilt \cup (IF isdir THEN Unforced(looked.cache, p) ELSE {})
    /\ IF call = "chmod" THEN ForgetModes(p) ELSE UNCHANGED modes
    /\ UNCHANGED <<bucket, handles, fsopt, live, failures, evicted>>

CallChmod(t, p) == \E m \in Modes \ {0} : ChangeHeaders(t, "chmod", p, m)
CallUtimens(t, p) == ChangeHeaders(t, "utimens", p, 0)

Moved(p, q, x) == q \o SubSeq(x, Len(p) + 1, Len(x))

(* Bound: what is renamed stays within Paths. *)
Fits(p, q) == \A k \in Children(bucket, p) : Moved(p, q, k.path) \in Paths

(* s3fs_rename; no file is at "to", or one of the same kind, and no directory there has *)
(* anything below it.  Pending writes of an open file are stored first.                  *)
CallRename(t, p, q) ==
    LET looked == Looked(Looked(sc, p).cache, q)
        from   == Looked(sc, p).found
        open   == {h \in Opened(p) : h.new}
    IN  /\ Free(t, "rename", p, q)
        /\ p # Root /\ q # Root /\ p # q /\ ~Below(p, q) /\ ~Below(q, p) /\ Fits(p, q)
        /\ from # {} /\ IsDir(Looked(sc, Parent(q)).found)
        /\ looked.found # {} => (IsDir(looked.found) <=> IsDir(from))
        /\ Children(bucket, q) = {} /\ Settled(q)
        /\ Begin(t, "rename", p, q, looked,
                 (IF open = {} THEN << >> ELSE <<Do("upload", p, 1), Do("forget", p, 1)>>)
                 \o <<[Do(IF IsDir(from) THEN "rename_directory" ELSE "rename_object", p, 2) EXCEPT !.to = q]>>
                 \o UpdateParent(q, LastGroup))
        /\ modes' = Restrict(modes, {x \in DOMAIN modes : ~IsPrefix(p, x) /\ ~IsPrefix(q, x)})

(* s3fs_readdir: entries whose ETag is that of the list stay, the others are asked for. *)
CallReaddir(t, p) ==
    LET looked  == Looked(sc, p)
        entries == {k \in DOMAIN bucket : k.path # Root /\ Parent(k.path) = p}
        same(k) == k \in DOMAIN sc.stat /\ ~sc.stat[k].noobjcache /\ sc.stat[k].meta.data = bucket[k].data
    IN  /\ Free(t, "readdir", p, p)
        /\ IsDir(looked.found)
        /\ CacheNow(looked.cache)
        /\ StartWith(t, "readdir", p, p, <<Do("remember_all", p, 1)>>,
                     {[key |-> k, meta |-> bucket[k], force |-> FALSE] : k \in {x \in entries : ~same(x)}})
        /\ UNCHANGED <<bucket, handles, fsopt, live, modes, spoilt, failures, evicted>>

(* s3fs_flush and s3fs_release of a created file. *)
CallFlush(t) == \E h \in handles :
    /\ Free(t, "flush", h.path, h.path)
    /\ Begin(t, "flush", h.path, h.path, Looked(sc, h.path),
             IF h.new THEN <<Do("upload", h.path, 1), Always("forget", File(h.path), 1)>> \o UpdateParent(h.path, 1)
             ELSE <<Do("forget", h.path, 1)>>)
    /\ UNCHANGED modes

CallRelease(t) == \E h \in handles :
    /\ Free(t, "release", h.path, h.path)
    /\ Begin(t, "release", h.path, h.path, [cache |-> sc],
             <<Do("unpin", h.path, 1)>>
             \o (IF h.new THEN <<Do("upload", h.path, 1)>> \o UpdateParent(h.path, 2) ELSE << >>)
             \o <<Always("closed", File(h.path), 1)>>)
    /\ UNCHANGED modes

-----------------------------------------------------------------------------
(***************************************************************************)
(* Requests.                                                               *)
(***************************************************************************)
(* A request that is not answered, after all retries. *)
Unanswered(t) ==
    /\ failures < MaxFailures /\ failures' = failures + 1
    /\ Fails(t)
    /\ UNCHANGED <<cache_vars, bucket, handles, fsopt, live, modes, spoilt, calls, evicted>>

Chmodded(t, o) ==
    modes' = IF th[t].call = "chmod" /\ o.key.path = th[t].path THEN With(modes, th[t].path, o.meta.mode) ELSE modes

(* The update of a parent's times writes a mode that is not that of the object any more. *)
Overwritten(o) ==
    IF o.group = SoftGroup /\ o.key \in DOMAIN bucket /\ bucket[o.key].mode # o.meta.mode
    THEN {<<"overwritten", o.key.path>>} ELSE {}

(* A stale entry that came back between its deletion and the PUT of the directory stays. *)
DoPut(t) ==
    /\ \E op \in {"put", "rebuild"} : AtOp(t, op)
    /\ LET o == CurrentOp(t)
       IN \/ /\ bucket' = With(bucket, o.key, o.meta)
             /\ live' = live \cup {<<d, o.key.path>> : d \in {o.meta.data} \ {0}}
             /\ Chmodded(t, o)
             /\ spoilt' = spoilt \cup Overwritten(o)
                            \cup (IF o.op = "rebuild" /\ Twins(o.key) \cap DOMAIN sc.stat # {}
                                 THEN {<<"rebuilt", o.key.path>>} ELSE {})
             /\ GoOn(t, << >>)
             /\ UNCHANGED <<cache_vars, handles, fsopt, calls, failures, evicted>>
          \/ Unanswered(t)

(* put_headers: a copy with new headers, onto itself or to the new name. *)
DoCopy(t) ==
    /\ AtOp(t, "copy")
    /\ LET o        == CurrentOp(t)
           moves    == {x \in live : o.from # o.key /\ o.from \in DOMAIN bucket /\ x[1] = bucket[o.from].data}
           replaced == {x \in live : o.from # o.key /\ o.key \in DOMAIN bucket /\ x[1] = bucket[o.key].data}
       IN \/ /\ o.from \in DOMAIN bucket
             /\ bucket' = With(bucket, o.key, [o.meta EXCEPT !.data = bucket[o.from].data])
             /\ live' = (live \ (replaced \cup moves)) \cup {<<x[1], o.key.path>> : x \in moves}
             /\ Chmodded(t, o)
             /\ spoilt' = spoilt \cup Overwritten(o)
             /\ GoOn(t, << >>)
             /\ UNCHANGED <<cache_vars, handles, fsopt, calls, failures, evicted>>
          \/ /\ o.from \notin DOMAIN bucket /\ Fails(t)
             /\ UNCHANGED <<cache_vars, bucket, handles, fsopt, live, modes, spoilt, calls, failures, evicted>>
          \/ Unanswered(t)

(* A directory without an object goes with the last object below it. *)
Vanished(b, k) ==
    {q \in Paths : Below(q, k.path) /\ Server(bucket, File(q), TRUE) # {} /\ Server(b, File(q), TRUE) = {}}

DoDelete(t) ==
    /\ AtOp(t, "delete")
    /\ LET o == CurrentOp(t)
           b == Without(bucket, o.key)
       IN \/ /\ bucket' = b
             /\ live' = {x \in live : ~(th[t].call = "unlink" /\ o.key \in DOMAIN bucket /\ x[1] = bucket[o.key].data)}
             /\ spoilt' = spoilt \cup {<<"vanished", q>> : q \in Vanished(b, o.key)}
             /\ GoOn(t, << >>)
             /\ UNCHANGED <<cache_vars, handles, fsopt, modes, calls, failures, evicted>>
          \/ Unanswered(t)

(* The pending creation of a file is stored. *)
DoUpload(t) ==
    /\ AtOp(t, "upload")
    /\ \/ /\ \E h \in Opened(CurrentOp(t).key.path) :
                /\ bucket' = With(bucket, File(h.path), Meta("file", h.mode, h.data))
                /\ handles' = (handles \ {h}) \cup {[h EXCEPT !.new = FALSE]}
          /\ GoOn(t, << >>)
          /\ UNCHANGED <<cache_vars, fsopt, live, modes, spoilt, calls, failures, evicted>>
       \/ Unanswered(t)

-----------------------------------------------------------------------------
(***************************************************************************)
(* Changes of the cache and of the open files.                             *)
(***************************************************************************)
CacheStep(t, c) ==
    /\ CacheNow(c) /\ GoOn(t, << >>)
    /\ UNCHANGED <<bucket, fsopt, live, modes, calls, failures, evicted>>

Spoil(set) == spoilt' = spoilt \cup set

Raced(found) == \E x \in found : x.key \notin DOMAIN bucket \/ bucket[x.key] # x.meta

(* A lookup ends; what it was told may be out of date. *)
DoRemember(t) ==
    /\ AtOp(t, "remember")
    /\ LET p == th[t].path
       IN  /\ CacheStep(t, Remember(sc, File(p), th[t].seen, FALSE))
           /\ Spoil(IF th[t].seen = Server(bucket, File(p), TRUE) THEN {} ELSE {<<"raced", p>>})
    /\ UNCHANGED handles

DoRememberAll(t) ==
    /\ AtOp(t, "remember_all")
    /\ CacheStep(t, FoldSet(LAMBDA x, c : Added(c, x.key, x.meta, FALSE, FALSE), sc, th[t].seen))
    /\ Spoil({<<"raced", x.key.path>> : x \in {y \in th[t].seen : Raced({y})}})
    /\ UNCHANGED handles

(* No handler that changes a link runs beside one that reads it. *)
DoReadLink(t) ==
    /\ AtOp(t, "read_link")
    /\ LET k == File(th[t].path)
       IN CacheStep(t, IF k \in DOMAIN bucket THEN One(AddSymlink(sc, k, bucket[k].data)) ELSE sc)
    /\ UNCHANGED <<handles, spoilt>>

DoForget(t) ==
    /\ AtOp(t, "forget")
    /\ CacheStep(t, DelStat(sc, CurrentOp(t).key))
    /\ UNCHANGED <<handles, spoilt>>

(* The entry is added beside a negative one of "path/", which hides it. *)
DoCreated(t) ==
    /\ AtOp(t, "created")
    /\ LET o == CurrentOp(t)
       IN  /\ CacheStep(t, Added(sc, o.key, o.meta, FALSE, FALSE))
           /\ handles' = handles \cup
                  {[path |-> o.key.path, mode |-> o.meta.mode, data |-> o.meta.data, new |-> TRUE]}
           /\ Spoil(IF o.key \notin DOMAIN sc.stat /\ Slashed(o.key) \in DOMAIN sc.stat
                    THEN {<<"twin", o.key.path>>} ELSE {})

DoLinked(t) ==
    /\ AtOp(t, "linked")
    /\ LET o == CurrentOp(t) IN CacheStep(t, One(AddSymlink(DelStat(sc, o.key), o.key, o.meta.data)))
    /\ UNCHANGED <<handles, spoilt>>

DoUnlinked(t) ==
    /\ AtOp(t, "unlinked")
    /\ LET k == CurrentOp(t).key IN CacheStep(t, DelSymlink(DelStat(sc, k), k))
    /\ UNCHANGED <<handles, spoilt>>


(* MergeOrgMeta. *)
MergedMode(call, h, mode) == IF call = "chmod" THEN mode ELSE h.mode

(* The headers of a file: while its creation is pending they wait for it, and the entry of *)
(* the cache holds the changed ones alone, so that utimens takes the mode from it.          *)
DoMerge(t) ==
    /\ AtOp(t, "merge")
    /\ LET o       == CurrentOp(t)
           chmod   == th[t].call = "chmod"
           shown   == [o.meta EXCEPT !.mode = IF chmod THEN @ ELSE 0]
           pending == \E h \in Opened(o.key.path) : h.new
           merged(h) == [h EXCEPT !.mode = MergedMode(th[t].call, h, o.meta.mode)]
       IN  /\ handles' = {IF h.path = o.key.path THEN merged(h) ELSE h : h \in handles}
           /\ IF pending
              THEN /\ CacheNow(Added(UpdateMetaStats(sc, o.key, shown), o.key, shown, FALSE, TRUE))
                   /\ Chmodded(t, o)
                   /\ Spoil(IF chmod THEN {} ELSE {<<"headers", o.key.path>>})
                   /\ GoOn(t, << >>)
              ELSE /\ GoOn(t, <<Copy(o.key, o.key, o.meta, 1), Do("forget", o.key.path, 1)>>)
                   /\ UNCHANGED <<cache_vars, modes, spoilt>>
    /\ UNCHANGED <<bucket, fsopt, live, calls, failures, evicted>>

DoUnpin(t) ==
    /\ AtOp(t, "unpin")
    /\ LET k == CurrentOp(t).key IN CacheStep(t, DelStat(ChangeNoTruncateFlag(sc, k, FALSE), k))
    /\ UNCHANGED <<handles, spoilt>>

DoClosed(t) ==
    /\ AtOp(t, "closed")
    /\ CacheStep(t, sc)
    /\ handles' = handles \ Opened(CurrentOp(t).key.path)
    /\ Spoil({<<"unstored", h.path>> : h \in {x \in Opened(CurrentOp(t).key.path) : x.new}})

(* FdManager::Rename. *)
DoMoved(t) ==
    /\ AtOp(t, "moved")
    /\ LET o == CurrentOp(t)
       IN  handles' = {IF h.path = o.key.path THEN [h EXCEPT !.path = o.to] ELSE h : h \in handles}
    /\ CacheStep(t, sc)
    /\ UNCHANGED spoilt

-----------------------------------------------------------------------------
(***************************************************************************)
(* Parts of handlers that look, and decide what comes next.                *)
(***************************************************************************)
Decides(t, c, ops) ==
    /\ CacheNow(c) /\ GoOn(t, ops)
    /\ UNCHANGED <<bucket, handles, fsopt, live, modes, calls, failures, evicted>>

GivesUp(t, c) ==
    /\ CacheNow(c) /\ Fails(t)
    /\ UNCHANGED <<bucket, handles, fsopt, live, modes, calls, failures, evicted>>

(* update_mctime_parent_directory. *)
DoParent(t) ==
    /\ AtOp(t, "parent")
    /\ LET p      == Parent(CurrentOp(t).key.path)
           typed  == DirType(sc, p)
           looked == Attribute(typed.cache, File(p), TRUE, FALSE)
           old    == One(typed.found)
       IN  /\ Decides(t, IF typed.found = {} THEN typed.cache ELSE looked.cache,
                IF typed.found = {} \/ ~IsDir(looked.found) THEN << >>
                ELSE IF Rebuilds(TRUE, old.force)
                THEN <<Do("forget", p, SoftGroup), Op("rebuild", Dir(p), One(looked.found).meta, SoftGroup, FALSE)>>
                ELSE <<Copy(Dir(p), Dir(p), old.meta, SoftGroup), Do("forget", p, SoftGroup)>>)
           /\ Spoil(Unforced(sc, p))

(* s3fs_rmdir looks for an object without the slash.  Of a directory whose deletion failed *)
(* the cache then knows that it does not exist.                                             *)
DoOldType(t) ==
    /\ AtOp(t, "old_type")
    /\ LET k     == CurrentOp(t).key
           found == Attribute(sc, k, FALSE, FALSE)
       IN  /\ Decides(t, found.cache,
                IF IsDir(found.found)
                THEN <<Op("delete", k, NoMeta, CurrentOp(t).group, FALSE), Always("forget", k, CurrentOp(t).group)>>
                ELSE << >>)
           /\ Spoil(IF Dir(k.path) \in DOMAIN bucket THEN {<<"rmdir", k.path>>} ELSE {})



(* rename_object after it has looked: copy, rename of the open file, unlink. *)
Move(p, q, meta) ==
    <<Copy(File(p), File(q), meta, 3), [Do("moved", p, 3) EXCEPT !.to = q]>>
        \o Unlink(p, 4) \o <<Always("forget", File(q), 4)>>

DoRenameObject(t) ==
    /\ AtOp(t, "rename_object")
    /\ LET p     == CurrentOp(t).key.path
           found == Attribute(sc, File(p), TRUE, FALSE)
       IN  IF found.found = {} THEN GivesUp(t, found.cache)
           ELSE Decides(t, found.cache, Move(p, CurrentOp(t).to, One(found.found).meta))
    /\ UNCHANGED spoilt

(* The entries below a directory, from the list and the entries that are not truncated. *)
Listed(p) == {x \in Paths : Below(p, x) /\ ((\E k \in DOMAIN bucket : IsPrefix(x, k.path)) \/ x \in sc.notruncate)}

(* A node of rename_directory, after its lookups. *)
Entered(seen, x, q, dir, force, cache) ==
    [cache |-> cache, nodes |-> Append(seen.nodes, [from |-> x, to |-> q, dir |-> dir, force |-> force])]

Stale(c, k) ==
    \E y \in Found(c, k, TRUE) :
        ~c.stat[y].noobjcache /\ y \in DOMAIN bucket /\ c.stat[y].meta.data # bucket[y].data

NodeDir(seen, x, q, typed) ==
    IF typed.found = {} THEN [seen EXCEPT !.cache = typed.cache]
    ELSE Entered(seen, x, q, TRUE, One(typed.found).force, typed.cache)

NodeFound(seen, x, q, looked) ==
    IF looked.found = {} THEN [seen EXCEPT !.cache = looked.cache]
    ELSE IF IsDir(looked.found) THEN NodeDir(seen, x, q, DirType(looked.cache, x))
    ELSE Entered(seen, x, q, FALSE, FALSE, looked.cache)

Node(seen, x, q) ==
    NodeFound(seen, x, q,
              Attribute(IF Stale(seen.cache, File(x)) THEN DelStat(seen.cache, File(x)) ELSE seen.cache,
                        File(x), TRUE, FALSE))

FirstNode(p, q, base) ==
    IF base.found = {} THEN [cache |-> base.cache, nodes |-> << >>]
    ELSE [cache |-> base.cache,
          nodes |-> <<[from |-> p, to |-> q, dir |-> TRUE, force |-> One(base.found).force]>>]

Nodes(p, q) ==
    FoldLeft(LAMBDA s, x : Node(s, x, Moved(p, q, x)), FirstNode(p, q, DirType(sc, p)),
             SetToSortSeq(Listed(p), LAMBDA x, y : Len(x) < Len(y)))

(* rename_directory: all directories are made, the files renamed, the old directories *)
(* removed from the bottom up; those without an object are only forgotten.             *)
RenameOps(dirs, files) ==
    LET op(name, n) == [Do(name, n.from, 2) EXCEPT !.to = n.to]
    IN  [i \in DOMAIN dirs |-> [op("clone_directory_object", dirs[i]) EXCEPT
                                    !.key = IF dirs[i].force THEN @ ELSE Dir(dirs[i].from)]]
        \o [i \in DOMAIN files |-> op("rename_object", files[i])]
        \o Reverse([i \in DOMAIN dirs |-> op(IF dirs[i].force THEN "forget" ELSE "rmdir", dirs[i])])

DoRenameDirectory(t) ==
    /\ AtOp(t, "rename_directory")
    /\ \E seen \in {Nodes(CurrentOp(t).key.path, CurrentOp(t).to)} :
          /\ Decides(t, seen.cache, RenameOps(SelectSeq(seen.nodes, LAMBDA n : n.dir),
                                              SelectSeq(seen.nodes, LAMBDA n : ~n.dir)))
          /\ Spoil(Unforced(sc, CurrentOp(t).key.path)
                   \cup {<<"bare", n.from>> : n \in {x \in ToSet(seen.nodes) : x.dir /\ x.force}})

(* The new directory has the mode the cache knows, so one that was taken for a file stays one. *)
DoClone(t) ==
    /\ AtOp(t, "clone_directory_object")
    /\ LET o     == CurrentOp(t)
           found == Attribute(sc, o.key, TRUE, FALSE)
       IN  /\ IF found.found = {} THEN GivesUp(t, found.cache)
              ELSE Decides(t, found.cache, <<Put(Dir(o.to), One(found.found).meta, 3),
                                             Always("forget", Dir(o.to), 3)>>)
           /\ Spoil(IF found.found = {} \/ IsDir(found.found) THEN {} ELSE {<<"unforced", o.to>>})

DoRmdir(t) ==
    /\ AtOp(t, "rmdir")
    /\ LET p == CurrentOp(t).key.path
       IN  IF Children(bucket, p) # {} THEN GivesUp(t, sc) ELSE Decides(t, sc, Rmdir(p, 6))
    /\ UNCHANGED spoilt

-----------------------------------------------------------------------------
End(t) ==
    /\ th[t] # Idle /\ th[t].todo = << >>
    /\ th' = [th EXCEPT ![t] = Idle]
    /\ UNCHANGED <<cache_vars, bucket, handles, fsopt, live, modes, spoilt, calls, failures, evicted>>

(* An entry expires, or leaves for another one. *)
Evict ==
    /\ evicted < MaxEvicted /\ evicted' = evicted + 1
    /\ \/ \E k \in DOMAIN sc.stat : sc.stat[k].notruncate = 0 /\ CacheNow([sc EXCEPT !.stat = Without(@, k)])
       \/ \E k \in DOMAIN sc.symlink : CacheNow(DelSymlink(sc, k))
    /\ UNCHANGED <<bucket, handles, fsopt, th, live, modes, spoilt, calls, failures>>

Next ==
    \/ \E t \in Threads :
          \/ \E p \in Paths :
                \/ CallGetattr(t, p) \/ CallReadlink(t, p) \/ CallReaddir(t, p)
                \/ CallCreate(t, p) \/ CallMknod(t, p) \/ CallMkdir(t, p) \/ CallSymlink(t, p)
                \/ CallUnlink(t, p) \/ CallRmdir(t, p) \/ CallChmod(t, p) \/ CallUtimens(t, p)
                \/ \E q \in Paths : CallRename(t, p, q)
          \/ CallFlush(t) \/ CallRelease(t)
          \/ DoPut(t) \/ DoCopy(t) \/ DoDelete(t) \/ DoUpload(t)
          \/ DoRemember(t) \/ DoRememberAll(t) \/ DoReadLink(t) \/ DoForget(t) \/ DoCreated(t)
          \/ DoLinked(t) \/ DoUnlinked(t) \/ DoMerge(t) \/ DoUnpin(t) \/ DoClosed(t) \/ DoMoved(t)
          \/ DoParent(t) \/ DoOldType(t) \/ DoRenameObject(t) \/ DoRenameDirectory(t) \/ DoClone(t) \/ DoRmdir(t)
          \/ End(t)
    \/ Evict

Spec == Init /\ [][Next]_vars

-----------------------------------------------------------------------------
AllIdle == \A t \in Threads : th[t] = Idle
Because(p) == {why[1] : why \in {x \in spoilt : IsPrefix(x[2], p)}}



(***************************************************************************)
(* put_headers copies an object onto itself with new headers, and rename   *)
(* copies to a new name: the object they copy is there, so that chmod and  *)
(* rename of what a lookup found do not fail.                              *)
(***************************************************************************)
CopiesFindTheirSource ==
    \A t \in Threads :
        AtOp(t, "copy") =>
            CurrentOp(t).from \in DOMAIN bucket \/ Because(CurrentOp(t).from.path) # {}


=============================================================================
