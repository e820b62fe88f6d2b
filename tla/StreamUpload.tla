---------------------------- MODULE StreamUpload ----------------------------
(***************************************************************************)
(* Stream upload: FdEntity with the option streamupload                    *)
(* (fdcache_entity.cpp), PseudoFdInfo (fdcache_fdinfo.cpp) and the workers *)
(* that upload parts (s3fs_threadreqs.cpp).  A write hands each whole      *)
(* block it completes to the worker threads; a flush uploads the rest,     *)
(* waits and completes the multipart upload.                               *)
(*                                                                         *)
(* Data is counted in units; the content of a unit is the number of the    *)
(* write that wrote it, Old for the object as it was first, Zero for a     *)
(* hole.  The page list is taken as what ByteStatus says of it.  fdent_lock*)
(* is held by a handler from its start to its end, so handlers exclude one *)
(* another and interleave with the workers only; a write, which waits for  *)
(* nobody, is one action.                                                  *)
(***************************************************************************)
EXTENDS Integers, Sequences, FiniteSets, SequencesExt

CONSTANTS Fds,                \* pseudo file descriptors, each opened at most once
          MaxOpen,            \* how many may be open at the same time
          InitSizes,          \* the sizes the object may have at first
          MaxSize,            \* bound on the size of the file
          WriteSizes,         \* the sizes of the writes
          MaxWrites,          \* bound on the writes
          MaxFailures,        \* bound on the requests that fail
          MaxCells,           \* bound on the ETag entities in use
          max_mp_size,        \* the multipart size
          MIN_MULTIPART_SIZE, \* the least size of a part that is not the last one
          FIVE_GB,            \* the greatest size of a part that is copied
          max_dirty_data      \* the modified units a write leaves without a flush

ASSUME StreamUploadAssumption ==
    /\ IsFiniteSet(Fds)
    /\ {MaxOpen, MaxSize, MaxWrites, MaxFailures, MaxCells} \subseteq Nat
    /\ InitSizes \subseteq 0..MaxSize
    /\ WriteSizes \subseteq 1..MaxSize
    /\ max_mp_size \in Nat \ {0}
    /\ MIN_MULTIPART_SIZE \in 1..max_mp_size
    /\ FIVE_GB \in Nat /\ FIVE_GB >= max_mp_size
    /\ max_dirty_data \in Nat \ {0}

VARIABLES
    mixmultipart,    \* FdEntity::mixmultipart: unchanged blocks are copied in S3
    object,          \* the content of the object
    parts,           \* the parts S3 keeps for each upload id
    local,           \* the content of the cache file
    status,          \* loaded and modified, for each unit of the file
    size_orgmeta,    \* what FdEntity takes for the size of the object
    untreated_list,  \* the written areas not yet handed to an upload
    last_tag,
    info,            \* the PseudoFdInfo of each descriptor
    jobs,            \* the part requests given to the worker threads
    handler,         \* the handler that holds fdent_lock
    due,             \* what s3fs_write does after FdEntity::Write
    view,            \* what the application wrote
    outcome,         \* the result of the last flush
    excuses,         \* what has happened that is known to spoil later flushes
    writes, failures

vars == <<mixmultipart, object, parts, local, status, size_orgmeta, untreated_list,
          last_tag, info, jobs, handler, due, view, outcome, excuses,
          writes, failures>>

fileVars  == <<local, status, size_orgmeta, view, writes>>
areaVars  == <<untreated_list, last_tag>>
ghostVars == <<outcome, excuses>>

U == INSTANCE UntreatedParts WITH MaxTag <- 3 * MaxWrites

Old  == 0
Zero == -1
NoEtag == <<>>   \* also the part of an upload that S3 does not have

Ids      == 1..(Cardinality(Fds) + 1)
PartNums == 1..((MaxSize + max_mp_size - 1) \div max_mp_size)
NoParts  == [n \in PartNums |-> NoEtag]

NewInfo == [state |-> "new", upload_id |-> 0, upload_list |-> {}, instruct_count |-> 0,
            last_result |-> "ok", uploaded_sem |-> 0]

NoHandler == [pc |-> "idle", fd |-> 0, forced |-> FALSE, upload |-> {}, copy |-> {}]

Size == Len(status)

OpenFds == {fd \in Fds : info[fd].state = "open"}

Units(start, size) == start..(start + size - 1)

HasData(u) == status[u + 1].loaded \/ status[u + 1].modified

IsModified == \E i \in 1..Size : status[i].modified

BytesModified(st) == Cardinality({i \in DOMAIN st : st[i].modified})

Idle(fd) == handler.pc = "idle" /\ info[fd].state = "open"

MayFail == failures < MaxFailures

-----------------------------------------------------------------------------
Init ==
    /\ mixmultipart \in BOOLEAN
    /\ \E n \in InitSizes : object = [i \in 1..n |-> Old]
    /\ parts = [id \in Ids |-> NoParts]
    /\ local = <<>> /\ status = <<>> /\ size_orgmeta = 0
    /\ untreated_list = <<>> /\ last_tag = 0
    /\ info = [fd \in Fds |-> NewInfo]
    /\ jobs = {}
    /\ handler = NoHandler
    /\ due = "nothing"
    /\ view = object
    /\ outcome = "none" /\ excuses = {}
    /\ writes = 0 /\ failures = 0

(* FdEntity::Open: the first descriptor makes the cache file and its page list. *)
Open(fd) ==
    /\ handler.pc = "idle"
    /\ info[fd].state = "new"
    /\ Cardinality(OpenFds) < MaxOpen
    /\ info' = [info EXCEPT ![fd].state = "open"]
    /\ IF OpenFds = {}
       THEN /\ local' = [i \in DOMAIN object |-> Zero]
            /\ status' = [i \in DOMAIN object |-> [loaded |-> FALSE, modified |-> FALSE]]
            /\ size_orgmeta' = Len(object)
            /\ untreated_list' = <<>> /\ last_tag' = 0
            /\ view' = object
       ELSE UNCHANGED <<local, status, size_orgmeta, view, areaVars>>
    /\ outcome' = "none"
    /\ UNCHANGED <<mixmultipart, object, parts, jobs, handler, due, excuses, writes, failures>>

-----------------------------------------------------------------------------
(***************************************************************************)
(* ParallelMultipartUpload: each part gets an entry of upload_list with an *)
(* ETag entity, and a request in the queue of the thread pool.  An entity  *)
(* is known by the cell it lies in; a cell that no request and no entry    *)
(* points to is free again.                                                *)
(***************************************************************************)
SetMin(S) == CHOOSE x \in S : \A y \in S : x <= y

UsedCells == {j.entry.cell : j \in jobs} \cup
             UNION {{p.cell : p \in info[fd].upload_list} : fd \in Fds}

FreeCell(n) ==
    LET free == (1..MaxCells) \ UsedCells
    IN  CHOOSE c \in free : Cardinality({d \in free : d <= c}) = n

HasCells(n) == n <= Cardinality((1..MaxCells) \ UsedCells)

MpPart(start, size, part_num) == [start |-> start, size |-> size, part_num |-> part_num]

WithCells(mplist, skip, is_copy) ==
    {[start |-> m.start, size |-> m.size, part_num |-> m.part_num, is_copy |-> is_copy,
      etag |-> NoEtag,
      cell |-> FreeCell(skip + Cardinality({k \in mplist : k.part_num <= m.part_num}))] : m \in mplist}

Requests(fd, id, entries) ==
    {[fd |-> fd, id |-> id, entry |-> e, step |-> "queued", body |-> <<>>] : e \in entries}

(* Mutant: the instructions are not counted. *)
StartUncounted(inf, entries) == [inf EXCEPT !.upload_list = @ \cup entries]

Started(inf, entries) ==
    [inf EXCEPT !.upload_list = @ \cup entries,
                !.instruct_count = @ + Cardinality(entries)]

(* PreMultipartUploadRequest: an upload id, and RowInitialUploadInfo. *)
ResetUploadInfo(inf) ==
    [inf EXCEPT !.upload_id = 0, !.upload_list = {}, !.instruct_count = 0, !.last_result = "ok"]

IsUploading(inf) == inf.upload_id # 0

NextId == SetMin(Ids \ {info[fd].upload_id : fd \in Fds})

PreMultipartUploadRequest(inf) ==
    IF IsUploading(inf) THEN inf ELSE [ResetUploadInfo(inf) EXCEPT !.upload_id = NextId]

(* The parts of an upload that is over are never named again. *)
Forgotten(id) == IF id = 0 THEN parts ELSE [parts EXCEPT ![id] = NoParts]

NewParts(inf) ==
    IF IsUploading(inf) THEN parts ELSE [parts EXCEPT ![NextId] = NoParts]

-----------------------------------------------------------------------------
(***************************************************************************)
(* FdEntity::Write and WriteStreamUpload.                                  *)
(***************************************************************************)
Overwrite(seq, start, size, fill, value) ==
    [i \in 1..(IF start + size > Len(seq) THEN start + size ELSE Len(seq)) |->
        IF i - 1 \in Units(start, size) THEN value
        ELSE IF i <= Len(seq) THEN seq[i] ELSE fill]

(* A gap behind the end is an area of its own, the written one follows. *)
UntreatedByWrite(start, size) ==
    LET gap == IF Size < start
               THEN [list |-> U!Added(untreated_list, Size, start - Size, last_tag + 1),
                     tag  |-> last_tag + 1]
               ELSE [list |-> untreated_list, tag |-> last_tag]
    IN  [list |-> U!Added(gap.list, start, size, gap.tag + 1), tag |-> gap.tag + 1]

Overlaps(p, start, size) == p.start < start + size /\ start < p.start + p.size

(***************************************************************************)
(* ExtractUploadPartsFromUntreatedArea, for an area of whole blocks: parts *)
(* that were uploaded before are dropped from upload_list, whether their   *)
(* request has ended or not.                                               *)
(***************************************************************************)
ExtractUploadPartsFromUntreatedArea(inf, start, size) ==
    [keep |-> {p \in inf.upload_list : ~Overlaps(p, start, size)},
     list |-> {MpPart(k * max_mp_size, max_mp_size, k + 1) :
                  k \in (start \div max_mp_size)..((start + size) \div max_mp_size - 1)}]

Write(fd, start, size) ==
    LET area   == UntreatedByWrite(start, size)
        last   == area.list[U!LastUpdatePart(area.list, area.tag)]
        blocks == U!Aligned(last)
        inf    == info[fd]
        ext    == ExtractUploadPartsFromUntreatedArea(inf, blocks.start, blocks.size)
        new    == WithCells(ext.list, 0, FALSE)
        rest   == U!Replaced(area.list, area.tag)
    IN  /\ Idle(fd) /\ due = "nothing"
        /\ writes < MaxWrites
        /\ size > 0 /\ start + size <= MaxSize
        /\ writes' = writes + 1
        /\ local' = Overwrite(local, start, size, Zero, writes')
        /\ view' = Overwrite(view, start, size, Zero, writes')
        /\ status' = Overwrite(status, start, size, [loaded |-> FALSE, modified |-> TRUE],
                               [loaded |-> TRUE, modified |-> TRUE])
        /\ due' = IF BytesModified(status') >= max_dirty_data THEN "flush" ELSE "nothing"
        /\ outcome' = "none"
        /\ UNCHANGED <<mixmultipart, object, size_orgmeta, handler, excuses>>
        /\ \/ \* no whole block
              /\ blocks.size = 0
              /\ untreated_list' = area.list /\ last_tag' = area.tag
              /\ UNCHANGED <<parts, info, jobs, failures>>
           \/ \* the blocks are uploaded and leave the untreated list
              /\ blocks.size > 0
              /\ HasCells(Cardinality(ext.list))
              /\ LET started == Started([PreMultipartUploadRequest(inf) EXCEPT !.upload_list = ext.keep], new)
                 IN  /\ info' = [info EXCEPT ![fd] = started]
                     /\ jobs' = jobs \cup Requests(fd, started.upload_id, new)
              /\ parts' = NewParts(inf)
              /\ untreated_list' = rest.list /\ last_tag' = rest.tag
              /\ UNCHANGED failures
           \/ \* no upload id: the write fails, the areas stay untreated
              /\ blocks.size > 0 /\ ~IsUploading(inf) /\ MayFail
              /\ failures' = failures + 1
              /\ untreated_list' = area.list /\ last_tag' = area.tag
              /\ UNCHANGED <<parts, info, jobs>>

-----------------------------------------------------------------------------
(***************************************************************************)
(* multipart_upload_part_req_threadworker, in the steps others can see:    *)
(* the test of last_result and the reading of the data, the arrival in S3, *)
(* and the result with the post of uploaded_sem.                           *)
(***************************************************************************)
WithEtag(entries, cell, etag) ==
    {IF p.cell = cell THEN [p EXCEPT !.etag = etag] ELSE p : p \in entries}

Posted(fd, result) ==
    info' = [info EXCEPT ![fd].last_result = result, ![fd].uploaded_sem = @ + 1]

(* The units of a part. *)
Content(data, part) == [i \in 1..part.size |-> data[part.start + i]]

Advance(j, k) == jobs' = (jobs \ {j}) \cup {k}

workerUnchanged == <<mixmultipart, object, fileVars, areaVars, handler, due, ghostVars>>

Skip(j) ==
    /\ j.step = "queued"
    /\ info[j.fd].last_result # "ok"
    /\ jobs' = jobs \ {j}
    /\ Posted(j.fd, info[j.fd].last_result)
    /\ UNCHANGED <<parts, failures, workerUnchanged>>

Send(j) ==
    /\ j.step = "queued"
    /\ info[j.fd].last_result = "ok"
    /\ Advance(j, [j EXCEPT !.step = "sent",
                            !.body = IF j.entry.is_copy THEN <<>> ELSE Content(local, j.entry)])
    /\ UNCHANGED <<parts, info, failures, workerUnchanged>>

(* What S3 gets: the data may have been overwritten while it was being read. *)
Bodies(j) ==
    IF j.entry.is_copy
    THEN {Content(object, j.entry)}
    ELSE {[i \in 1..j.entry.size |-> IF i \in late THEN local[j.entry.start + i] ELSE j.body[i]] :
             late \in SUBSET (1..j.entry.size)}

CanCopy(j) == j.entry.is_copy => j.entry.start + j.entry.size <= Len(object)

Arrive(j) ==
    /\ j.step = "sent"
    /\ CanCopy(j)
    /\ \E body \in Bodies(j) :
          /\ parts' = [parts EXCEPT ![j.id][j.entry.part_num] = body]
          /\ Advance(j, [j EXCEPT !.step = "stored", !.body = body])
    /\ UNCHANGED <<info, failures, workerUnchanged>>

(* The request fails in the end; S3 may have stored the part. *)
Fail(j) ==
    /\ j.step = "sent"
    /\ IF CanCopy(j) THEN MayFail /\ failures' = failures + 1 ELSE UNCHANGED failures
    /\ parts' \in {parts} \cup {[parts EXCEPT ![j.id][j.entry.part_num] = body] :
                                   body \in IF CanCopy(j) THEN Bodies(j) ELSE {}}
    /\ jobs' = jobs \ {j}
    /\ Posted(j.fd, "error")
    /\ UNCHANGED workerUnchanged

(* Mutant: the semaphore of the caller is not posted. *)
FinishWithoutPost(j) ==
    /\ j.step = "stored"
    /\ jobs' = jobs \ {j}
    /\ info' = [info EXCEPT ![j.fd].last_result = "ok",
                            ![j.fd].upload_list = WithEtag(@, j.entry.cell, j.body)]
    /\ UNCHANGED <<parts, failures, workerUnchanged>>

Finish(j) ==
    /\ j.step = "stored"
    /\ jobs' = jobs \ {j}
    /\ info' = [info EXCEPT ![j.fd].last_result = "ok", ![j.fd].uploaded_sem = @ + 1,
                            ![j.fd].upload_list = WithEtag(@, j.entry.cell, j.body)]
    /\ UNCHANGED <<parts, failures, workerUnchanged>>

WorkerStep(j) == Skip(j) \/ Send(j) \/ Arrive(j) \/ Fail(j) \/ Finish(j)

WorkersStep == \E j \in jobs : WorkerStep(j)

-----------------------------------------------------------------------------
(***************************************************************************)
(* ExtractUploadPartsFromAllArea: block by block, what is uploaded, copied *)
(* and downloaded.  Blocks that are in upload_list and have been written   *)
(* since leave the list; since nothing ever sets their uploaded flag, the  *)
(* flush then waits for all requests.  With no copying, or for a gap that  *)
(* cannot join the copied part before it, what is missing is downloaded.   *)
(***************************************************************************)
Block(n) ==
    [start |-> n * max_mp_size,
     size  |-> IF (n + 1) * max_mp_size <= Size THEN max_mp_size ELSE Size - n * max_mp_size]

(* Mutant: the last unit of the block is overlooked. *)
UntreatedInShort(n) == Units(Block(n).start, Block(n).size - 1) \cap U!Bytes(untreated_list)

UntreatedIn(n) == Units(Block(n).start, Block(n).size) \cap U!Bytes(untreated_list)

UploadedIn(inf, n) == {p \in inf.upload_list : Overlaps(p, Block(n).start, Block(n).size)}

IsCopied(inf, n) == mixmultipart /\ UntreatedIn(n) = {} /\ UploadedIn(inf, n) = {}

(* What lies in front of the first written unit of a block. *)
Gap(n) == SetMin(UntreatedIn(n)) - Block(n).start

(* The gap joins the copied part before the block. *)
Unifies(inf, n) ==
    /\ UntreatedIn(n) # {} /\ UploadedIn(inf, n) = {}
    /\ n > 0 /\ IsCopied(inf, n - 1)
    /\ Gap(n) > 0 /\ max_mp_size + Gap(n) <= FIVE_GB
    /\ Block(n).size - Gap(n) >= MIN_MULTIPART_SIZE

Joined(inf, n) == IF Unifies(inf, n) THEN Gap(n) ELSE 0

ExtractBlocks(inf, blocks) ==
    LET rest(n)  == MpPart(Block(n).start + Joined(inf, n), Block(n).size - Joined(inf, n), n + 1)
        copied   == {n \in blocks : IsCopied(inf, n)}
        reupload == {n \in blocks : UntreatedIn(n) # {} /\ UploadedIn(inf, n) # {}}
        load     == {n \in blocks : UploadedIn(inf, n) = {} /\ ~IsCopied(inf, n)}
    IN  [keep     |-> {p \in inf.upload_list : \A n \in reupload : p \notin UploadedIn(inf, n)},
         upload   |-> {rest(n) : n \in reupload \cup load},
         copy     |-> {MpPart(Block(n).start, Block(n).size + Joined(inf, n + 1), n + 1) : n \in copied},
         download |-> UNION {Units(rest(n).start, rest(n).size) \ UntreatedIn(n) : n \in load},
         wait     |-> reupload # {}]

(* Mutant: the short block at the end is left out. *)
ExtractWholeBlocks(inf) == ExtractBlocks(inf, 0..(Size \div max_mp_size - 1))

ExtractUploadPartsFromAllArea(inf) ==
    ExtractBlocks(inf, 0..((Size + max_mp_size - 1) \div max_mp_size - 1))

(* Load: the units without data are read from the object, as far as it is thought to go. *)
Missing(units) == {u \in units : ~HasData(u)}

(* Mutant: the last unit of the object is not loaded. *)
LoadedShort(units) ==
    [i \in DOMAIN local |-> IF i - 1 \in Missing(units) /\ i < size_orgmeta THEN object[i] ELSE local[i]]

Loaded(units) ==
    [i \in DOMAIN local |-> IF i - 1 \in Missing(units) /\ i <= size_orgmeta THEN object[i] ELSE local[i]]

LoadedStatus(units) ==
    [i \in DOMAIN status |-> IF i - 1 \in Missing(units) THEN [status[i] EXCEPT !.loaded = TRUE] ELSE status[i]]

AllCleared(st) == [i \in DOMAIN st |-> [st[i] EXCEPT !.modified = FALSE]]

(* A flush returns: the handler is gone, s3fs_write goes on if it asked for the flush. *)
Return(forced, result) ==
    /\ handler' = NoHandler
    /\ outcome' = result
    /\ due' = IF ~forced THEN due ELSE IF result = "ok" THEN "punch" ELSE "nothing"

ReturnError(forced) ==
    /\ Return(forced, "error")
    /\ excuses' = excuses \cup {"failed"}

Flushing(fd, forced) == Idle(fd) /\ (forced => due = "flush")

(* RowFlushHasLock: nothing to update. *)
FlushNothing(fd) ==
    /\ Idle(fd)
    /\ ~IsModified
    /\ Return(FALSE, "ok")
    /\ UNCHANGED <<mixmultipart, object, parts, fileVars, areaVars, info, jobs, excuses, failures>>

(***************************************************************************)
(* One of the downloads before an upload fails: Load and its callers go    *)
(* from the front to the back, so that what lies before it was loaded and  *)
(* stays, and so do the areas to upload.  Without disk space none is made. *)
(***************************************************************************)
LoadedBefore(units) == {{v \in Missing(units) : v < u} : u \in Missing(units)}

NoSpace(units) == IF units = {} THEN {} ELSE {{}}

LoadFails(got, forced) ==
    /\ MayFail
    /\ failures' = failures + 1
    /\ local' = Loaded(got) /\ status' = LoadedStatus(got)
    /\ ReturnError(forced)

FlushSmallNotLoaded(fd, forced) ==
    /\ Flushing(fd, forced)
    /\ forced \/ IsModified
    /\ Size <= max_mp_size
    /\ \E got \in LoadedBefore(Units(0, Size)) : LoadFails(got, forced)
    /\ UNCHANGED <<mixmultipart, object, parts, size_orgmeta, view, writes, areaVars, info, jobs>>

(* A file of at most one part is loaded and put; the upload of the descriptor is not looked at. *)
FlushSmall(fd, forced) ==
    /\ Flushing(fd, forced)
    /\ forced \/ IsModified
    /\ Size <= max_mp_size
    /\ local' = Loaded(Units(0, Size))
    /\ untreated_list' = <<>>
    /\ size_orgmeta' = Size
    /\ \/ /\ object' = local'
          /\ status' = AllCleared(LoadedStatus(Units(0, Size)))
          /\ Return(forced, "ok")
          /\ excuses' = IF \E f \in OpenFds : IsUploading(info[f])
                        THEN excuses \cup {"put"} ELSE excuses
          /\ UNCHANGED failures
       \/ /\ MayFail
          /\ failures' = failures + 1
          /\ status' = LoadedStatus(Units(0, Size))
          /\ ReturnError(forced)
          /\ UNCHANGED object
    /\ UNCHANGED <<mixmultipart, parts, view, writes, last_tag, info, jobs>>

(***************************************************************************)
(* The start of the flush of a larger file: the lists, the download and    *)
(* the upload id.                                                          *)
(***************************************************************************)
LoadAndStart(fd, forced, ext) ==
    LET inf == [info[fd] EXCEPT !.upload_list = ext.keep]
    IN  /\ \/ \* a download fails, or there is no disk space
              /\ \E got \in LoadedBefore(ext.download) \cup NoSpace(ext.download) : LoadFails(got, forced)
              /\ info' = [info EXCEPT ![fd] = inf]
              /\ UNCHANGED parts
           \/ \* no upload id
              /\ MayFail /\ ~IsUploading(inf)
              /\ failures' = failures + 1
              /\ info' = [info EXCEPT ![fd] = inf]
              /\ local' = Loaded(ext.download) /\ status' = LoadedStatus(ext.download)
              /\ ReturnError(forced)
              /\ UNCHANGED parts
           \/ /\ info' = [info EXCEPT ![fd] = PreMultipartUploadRequest(inf)]
              /\ parts' = NewParts(inf)
              /\ local' = Loaded(ext.download) /\ status' = LoadedStatus(ext.download)
              /\ handler' = [pc |-> IF ext.wait THEN "wait_cancelled" ELSE "start", fd |-> fd,
                             forced |-> forced, upload |-> ext.upload, copy |-> ext.copy]
              /\ excuses' = IF \E f \in OpenFds \ {fd} : IsUploading(info[f])
                            THEN excuses \cup {"shared"} ELSE excuses
              /\ UNCHANGED <<outcome, due, failures>>
        /\ UNCHANGED <<mixmultipart, object, size_orgmeta, view, writes, areaVars, jobs>>

FlushExtract(fd, forced) ==
    /\ Flushing(fd, forced)
    /\ forced \/ IsModified
    /\ Size > max_mp_size
    /\ \E ext \in {ExtractUploadPartsFromAllArea(info[fd])} : LoadAndStart(fd, forced, ext)

(* WaitAllThreadsExit: one post of uploaded_sem for each counted instruction. *)
Waiting == handler.pc \in {"wait_cancelled", "wait_all", "cancel"}

(* Mutant: the semaphore is not waited for. *)
WaitAcquireNothing ==
    /\ Waiting
    /\ info[handler.fd].instruct_count > 0
    /\ info' = [info EXCEPT ![handler.fd].instruct_count = @ - 1,
                            ![handler.fd].uploaded_sem = @ - 1]
    /\ UNCHANGED <<mixmultipart, object, parts, fileVars, areaVars, jobs, handler, due,
                   ghostVars, failures>>

WaitAcquire ==
    /\ Waiting
    /\ info[handler.fd].instruct_count > 0
    /\ info[handler.fd].uploaded_sem > 0
    /\ info' = [info EXCEPT ![handler.fd].instruct_count = @ - 1,
                            ![handler.fd].uploaded_sem = @ - 1]
    /\ UNCHANGED <<mixmultipart, object, parts, fileVars, areaVars, jobs, handler, due,
                   ghostVars, failures>>

WaitDone(pc) == handler.pc = pc /\ info[handler.fd].instruct_count = 0

(* Mutant: the re-upload does not wait for the request it replaces. *)
CancelledWithoutWait ==
    /\ handler.pc = "wait_cancelled"
    /\ handler' = [handler EXCEPT !.pc = "start"]
    /\ UNCHANGED <<mixmultipart, object, parts, fileVars, areaVars, info, jobs, due,
                   ghostVars, failures>>

(* The requests that the flush replaces have ended; a failure ends the flush. *)
CancelledEnded ==
    /\ WaitDone("wait_cancelled")
    /\ IF info[handler.fd].last_result = "ok"
       THEN /\ handler' = [handler EXCEPT !.pc = "start"]
            /\ UNCHANGED <<due, ghostVars>>
       ELSE ReturnError(handler.forced)
    /\ UNCHANGED <<mixmultipart, object, parts, fileVars, areaVars, info, jobs, failures>>

(* ParallelMultipartUploadAll: the uploads, then the copies. *)
UploadAll ==
    LET fd     == handler.fd
        upload == WithCells(handler.upload, 0, FALSE)
        copy   == WithCells(handler.copy, Cardinality(handler.upload), TRUE)
    IN  /\ handler.pc = "start"
        /\ HasCells(Cardinality(handler.upload) + Cardinality(handler.copy))
        /\ info' = [info EXCEPT ![fd] = Started(@, upload \cup copy)]
        /\ jobs' = jobs \cup Requests(fd, info[fd].upload_id, upload \cup copy)
        /\ handler' = [handler EXCEPT !.pc = "wait_all"]
        /\ UNCHANGED <<mixmultipart, object, parts, fileVars, areaVars, due, ghostVars, failures>>

(* A part failed: the untreated areas and the upload are given up. *)
GiveUp ==
    /\ untreated_list' = <<>>
    /\ info' = [info EXCEPT ![handler.fd] = ResetUploadInfo(@)]
    /\ parts' = Forgotten(info[handler.fd].upload_id)
    /\ ReturnError(handler.forced)

AllEnded ==
    /\ WaitDone("wait_all")
    /\ \/ /\ info[handler.fd].last_result = "ok"
          /\ handler' = [handler EXCEPT !.pc = "complete"]
          /\ UNCHANGED <<untreated_list, info, parts, due, ghostVars>>
       \/ /\ info[handler.fd].last_result # "ok"
          /\ GiveUp
    /\ UNCHANGED <<mixmultipart, object, fileVars, last_tag, jobs, failures>>

(***************************************************************************)
(* CompleteMultipartUpload with the ETags of upload_list in the order of   *)
(* the part numbers: S3 takes it when it has those parts with those ETags. *)
(***************************************************************************)
ByPartNum(entries) ==
    [i \in 1..Cardinality(entries) |->
        CHOOSE p \in entries : Cardinality({q \in entries : q.part_num <= p.part_num}) = i]

Acceptable(inf) ==
    /\ inf.upload_list # {}
    /\ \A p \in inf.upload_list :
          p.etag # NoEtag /\ parts[inf.upload_id][p.part_num] = p.etag

(* The units of the parts, one part after the other. *)
Assembled(inf) ==
    LET units   == UNION {{<<p.part_num, k>> : k \in 1..Len(p.etag)} : p \in inf.upload_list}
        rank(u) == Cardinality({v \in units : v[1] < u[1] \/ (v[1] = u[1] /\ v[2] <= u[2])})
        unit(i) == CHOOSE u \in units : rank(u) = i
    IN  [i \in 1..Cardinality(units) |-> parts[inf.upload_id][unit(i)[1]][unit(i)[2]]]

Complete ==
    LET inf == info[handler.fd]
    IN  /\ handler.pc = "complete"
        /\ \/ /\ Acceptable(inf)
              /\ object' = Assembled(inf)
              /\ parts' = Forgotten(inf.upload_id)
              /\ untreated_list' = <<>>
              /\ info' = [info EXCEPT ![handler.fd] = ResetUploadInfo(@)]
              /\ status' = AllCleared(status)
              /\ Return(handler.forced, "ok")
              /\ UNCHANGED <<excuses, failures>>
           \/ /\ Acceptable(inf) => MayFail
              /\ failures' = IF Acceptable(inf) THEN failures + 1 ELSE failures
              /\ GiveUp
              /\ UNCHANGED <<object, status>>
        /\ UNCHANGED <<mixmultipart, local, size_orgmeta, view, writes, last_tag, jobs>>

(***************************************************************************)
(* s3fs_write after its flush: PunchHole gives the areas back that are not *)
(* modified, and what lies between them (GetNoDataPageLists).              *)
(***************************************************************************)
PunchHole ==
    LET clean   == {i \in 1..Size : ~status[i].modified}
        punched == {i \in 1..Size : \E a, b \in clean : a <= i /\ i <= b}
    IN  /\ handler.pc = "idle"
        /\ due = "punch"
        /\ due' = "nothing"
        /\ \/ /\ local' = [i \in DOMAIN local |-> IF i \in punched THEN Zero ELSE local[i]]
              /\ status' = [i \in DOMAIN status |->
                              IF i \in punched THEN [loaded |-> FALSE, modified |-> FALSE] ELSE status[i]]
              /\ excuses' = IF \E i \in punched : i > size_orgmeta
                            THEN excuses \cup {"punch"} ELSE excuses
           \/ \* fallocate is not supported by the file system of the cache
              UNCHANGED <<local, status, excuses>>
        /\ UNCHANGED <<mixmultipart, object, parts, size_orgmeta, view, writes, areaVars, info,
                       jobs, handler, outcome, failures>>

(***************************************************************************)
(* FdEntity::Close destroys the PseudoFdInfo: running requests are told to *)
(* stop and waited for.                                                    *)
(***************************************************************************)
CloseBegin(fd) ==
    /\ Idle(fd)
    /\ due = "nothing"
    /\ handler' = [NoHandler EXCEPT !.pc = "cancel", !.fd = fd]
    /\ info' = IF info[fd].instruct_count > 0
               THEN [info EXCEPT ![fd].last_result = "canceled"] ELSE info
    /\ UNCHANGED <<mixmultipart, object, parts, fileVars, areaVars, jobs, due, ghostVars, failures>>

CloseEnd ==
    /\ WaitDone("cancel")
    /\ info' = [info EXCEPT ![handler.fd] = [ResetUploadInfo(@) EXCEPT !.state = "closed"]]
    /\ parts' = Forgotten(info[handler.fd].upload_id)
    /\ handler' = NoHandler
    /\ excuses' = IF IsUploading(info[handler.fd]) /\ OpenFds # {handler.fd}
                  THEN excuses \cup {"dropped"} ELSE excuses
    /\ UNCHANGED <<mixmultipart, object, fileVars, areaVars, jobs, due, outcome, failures>>

-----------------------------------------------------------------------------
HandlerStep ==
    WaitAcquire \/ CancelledEnded \/ UploadAll \/ AllEnded \/ Complete \/ CloseEnd

Next ==
    \/ \E fd \in Fds : Open(fd) \/ FlushNothing(fd) \/ CloseBegin(fd)
    \/ \E fd \in Fds, start \in 0..MaxSize, size \in WriteSizes : Write(fd, start, size)
    \/ \E fd \in Fds, forced \in BOOLEAN :
          FlushSmallNotLoaded(fd, forced) \/ FlushSmall(fd, forced) \/ FlushExtract(fd, forced)
    \/ PunchHole
    \/ HandlerStep
    \/ WorkersStep

Spec == Init /\ [][Next]_vars

(***************************************************************************)
(* As long as there are requests some worker thread runs, and a handler    *)
(* that may go on does.                                                    *)
(***************************************************************************)
FairSpec == Spec /\ WF_vars(HandlerStep) /\ WF_vars(WorkersStep)

-----------------------------------------------------------------------------
PartEntries == [start : 0..MaxSize, size : 1..MaxSize, part_num : PartNums,
                is_copy : BOOLEAN, cell : 1..MaxCells, etag : Seq(Zero..MaxWrites)]

TypeOK ==
    /\ Len(local) = Size /\ (OpenFds # {} => Len(view) = Size) /\ Size <= MaxSize
    /\ size_orgmeta \in 0..MaxSize
    /\ \A fd \in Fds :
          /\ info[fd].state \in {"new", "open", "closed"}
          /\ info[fd].upload_id \in {0} \cup Ids
          /\ info[fd].upload_list \subseteq PartEntries
          /\ info[fd].instruct_count \in Nat
          /\ info[fd].last_result \in {"ok", "error", "canceled"}
          /\ info[fd].uploaded_sem \in Nat
    /\ \A j \in jobs : j.fd \in Fds /\ j.step \in {"queued", "sent", "stored"}
    /\ due \in {"nothing", "flush", "punch"}
    /\ outcome \in {"none", "ok", "error"}

(***************************************************************************)
(* WaitAllThreadsExit waits for the right number of posts: the count of a  *)
(* descriptor is that of its requests and of the posts not yet acquired,   *)
(* although the count is reset without a look at the semaphore.  Hence no  *)
(* request outlives the PseudoFdInfo whose semaphore, result and ETags it  *)
(* points to.                                                              *)
(***************************************************************************)
JobsOf(fd) == {j \in jobs : j.fd = fd}

InstructionsCounted ==
    \A fd \in Fds : info[fd].instruct_count = Cardinality(JobsOf(fd)) + info[fd].uploaded_sem

(***************************************************************************)
(* What CompleteMultipartUpload names is the file: the parts follow one    *)
(* another from 0 to the end in the order of their numbers, and only the   *)
(* last one is smaller than S3 allows.                                     *)
(***************************************************************************)
PartsMakeFile ==
    handler.pc = "complete" =>
        LET list == ByPartNum(info[handler.fd].upload_list)
        IN  /\ list[1].start = 0
            /\ \A i \in 1..(Len(list) - 1) :
                  /\ list[i].start + list[i].size = list[i + 1].start
                  /\ list[i].part_num < list[i + 1].part_num
                  /\ list[i].size >= MIN_MULTIPART_SIZE
            /\ Last(list).start + Last(list).size = Size

(***************************************************************************)
(* A flush that succeeds has stored the file: the object is what the       *)
(* application wrote, whatever the workers did in the meantime.            *)
(***************************************************************************)
FlushStoresFile == outcome = "ok" => object = view

(***************************************************************************)
(* A read returns what was written: the cache file where it has data, the  *)
(* object, as far as Load goes, where it has not.                          *)
(***************************************************************************)
ReadOf(u) ==
    IF ~HasData(u) /\ u < size_orgmeta /\ u < Len(object) THEN object[u + 1] ELSE local[u + 1]

ReadYourWrites ==
    OpenFds # {} => \A u \in Units(0, Size) : ReadOf(u) = view[u + 1]

(***************************************************************************)
(* Both hold as long as no flush has failed, no small file was put while   *)
(* an upload was open, no hole was punched behind size_orgmeta, and the    *)
(* blocks that writes have handed over are those of the descriptor that    *)
(* flushes: the areas are the entity's, the uploads the descriptors'.      *)
(* After any of these the code forgets an area or reads zeros.             *)
(***************************************************************************)
UnspoiltFileKept == TypeOK /\ (excuses = {} => FlushStoresFile /\ ReadYourWrites)

(***************************************************************************)
(* The requests a flush makes are alone with their part number, so that    *)
(* the ETags of a part and of its re-upload cannot be reversed; a flush    *)
(* that failed before, though, has dropped the entries it had to wait for. *)
(***************************************************************************)
FlushUploadsAlone ==
    [][UploadAll /\ excuses = {} =>
           \A j \in jobs, k \in jobs' \ jobs :
               j.id = k.id => j.entry.part_num # k.entry.part_num]_vars

(* A flush, and the close of a descriptor, come to an end. *)
HandlerReturns == (handler.pc # "idle") ~> (handler.pc = "idle")
=============================================================================
