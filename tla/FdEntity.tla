------------------------------ MODULE FdEntity ------------------------------
(***************************************************************************)
(* FdEntity (fdcache_entity.cpp) with the options nomultipart, multipart   *)
(* and mix multipart, and the handlers of s3fs.cpp that open, write, read, *)
(* truncate, flush and release a file and change its metadata.  (The       *)
(* option streamupload is in StreamUpload.)                                *)
(*                                                                         *)
(* A handler holds fdent_lock and waits for each request it makes, so it   *)
(* is one action; what may go differently are its requests, each of which  *)
(* may fail, and the disk, which may be short when space is reserved.  A   *)
(* function of the code is an operator from the state of the program, a    *)
(* record, to the set of its outcomes.  There is no cache directory: the   *)
(* file is a temporary one and lives as long as a descriptor is open.      *)
(*                                                                         *)
(* Data is counted in units.  The content of a unit is a number that names *)
(* the write and the place; Zero is a hole.                                *)
(***************************************************************************)
EXTENDS Integers, Sequences, FiniteSets, SequencesExt

CONSTANTS Fds,                \* pseudo file descriptors; each is opened once
          Modes,              \* upload modes: "nomultipart", "multipart", "mix"
          InitSizes,          \* the sizes of the object at first; with 0 there is none
          MaxSize,            \* max_file_size, the limit of CheckFileSizeLimit
          WriteSizes,         \* bound on the lengths of writes
          MaxWrites,          \* bound on the writes and truncations
          MaxMetas,           \* bound on the changes of metadata
          MaxFailures,        \* bound on the requests that fail
          MaxShortages,       \* bound on the reservations that find too little space
          MaxEvents,          \* bound on all of these and the opens together
          multipart_size,     \* S3fsCurl::GetMultipartSize
          MIN_MULTIPART_SIZE, \* the least size of a part that is not the last one
          FIVE_GB             \* the greatest size of a part

ASSUME FdEntityAssumption ==
    /\ IsFiniteSet(Fds)
    /\ Modes \subseteq {"nomultipart", "multipart", "mix"}
    /\ {MaxSize, MaxWrites, MaxMetas, MaxFailures, MaxShortages,
        MaxEvents, multipart_size, FIVE_GB} \subseteq Nat
    /\ MIN_MULTIPART_SIZE \in 1..multipart_size
    /\ InitSizes \subseteq 0..MaxSize /\ WriteSizes \subseteq 1..MaxSize

VARIABLES
    mode,     \* the upload mode of the mount
    w         \* the state of the program, of S3 and of the application; see World

vars == <<mode, w>>

P == INSTANCE PageList WITH pages <- w.pages, is_shrink <- w.is_shrink,
                            PageStatuses <- {}, MaxPartSize <- multipart_size
U == INSTANCE UntreatedParts WITH untreated_list <- w.untreated_list, last_tag <- w.last_tag,
                                  MaxTag <- 0, max_mp_size <- multipart_size

Zero      == 0
Now       == 100    \* the clock, as a time stamp
NoStamp   == -1     \* holding_mtime.tv_sec when nothing is held
NoPart    == <<>>   \* the content of a part that never got its ETag
NoHeaders == [mtime |-> NoStamp, mode |-> NoStamp, size |-> NoStamp]
NotUploading == [uploading |-> FALSE, headers |-> NoHeaders, parts |-> <<>>]

LOADED        == [loaded |-> TRUE, modified |-> FALSE]
MODIFIED      == [loaded |-> FALSE, modified |-> TRUE]
LOAD_MODIFIED == [loaded |-> TRUE, modified |-> TRUE]

(* Data at offset replaced; a gap in front of it is a hole. *)
Put(seq, offset, data) ==
    [i \in 1..(IF offset + Len(data) > Len(seq) THEN offset + Len(data) ELSE Len(seq)) |->
        IF i > offset /\ i <= offset + Len(data) THEN data[i - offset]
        ELSE IF i <= Len(seq) THEN seq[i] ELSE Zero]

(* ftruncate, and what the application expects of it. *)
CutTo(seq, size) == [i \in 1..size |-> IF i <= Len(seq) THEN seq[i] ELSE Zero]

Slice(seq, offset, size) == SubSeq(seq, offset + 1, IF offset + size < Len(seq) THEN offset + size ELSE Len(seq))

Min2(a, b) == IF a < b THEN a ELSE b

(* What the application cannot be promised any more; see the properties. *)
Excused(v, excuse) == [v EXCEPT !.excuses = @ \cup {excuse}]

Size(v)       == P!Size(v.pages)
IsModified(v) == P!IsModified(v.pages, v.is_shrink)

Unloaded(v, start, size, limit) == P!GetTotalUnloadedPageSize(v.pages, start, size, limit)

OpenFds(v) == {fd \in Fds : v.info[fd].state = "open"}

-----------------------------------------------------------------------------
(***************************************************************************)
(* Outcomes: a set of states, each with the verdict of the function.       *)
(***************************************************************************)
Ok(v)     == {[w |-> v, ok |-> TRUE]}
Failed(v) == {[w |-> v, ok |-> FALSE]}

(* "if(0 != (result = ...)) return result": go on where the step succeeded. *)
Then(outs, Do(_)) == UNION {IF o.ok THEN Do(o.w) ELSE {o} : o \in outs}

(* What is done whether the step succeeded or not. *)
Always(outs, Do(_)) == {[o EXCEPT !.w = Do(o.w)] : o \in outs}

(* The bounds leave room for one more. *)
(* The descriptors that were opened so far. *)
Opens(v) == Cardinality({fd \in Fds : v.info[fd].state # "new"})
Room(v) == v.writes + v.metas + v.failures + v.shortages + Opens(v) < MaxEvents

Request(v) ==
    Ok(v) \cup (IF v.failures < MaxFailures /\ Room(v) THEN Failed([v EXCEPT !.failures = @ + 1]) ELSE {})

(***************************************************************************)
(* ReserveDiskSpace: with too little space the cache of a file that is not *)
(* modified is dropped and the reservation tried again.                    *)
(***************************************************************************)
DropCache(v) ==
    [v EXCEPT !.pages = P!InitPages(Size(v), FALSE, FALSE), !.is_shrink = FALSE,
              !.local = CutTo(<<>>, Size(v))]

ReserveDiskSpace(v) ==
    LET short == [v EXCEPT !.shortages = @ + 1]
    IN  Ok(v) \cup (IF v.shortages = MaxShortages \/ ~Room(v) THEN {}
                    ELSE IF IsModified(v) THEN Failed(short)
                    ELSE Ok(DropCache(short)) \cup Failed(DropCache(short)))

(***************************************************************************)
(* Load: the unloaded pages of a range are downloaded as far as the object *)
(* is taken to reach; a range that begins behind its end is an error.      *)
(***************************************************************************)
NeedLoadSize(v, offset, bytes) ==
    IF offset < v.size_orgmeta THEN Min2(bytes, v.size_orgmeta - offset) ELSE 0

GetObject(v, offset) ==
    IF offset < Len(v.object.data) THEN Request(v) ELSE Failed(v)

(* Mutant: a page counts as loaded before its download has succeeded. *)
LoadPageEarly(v, p, st) ==
    LET need == NeedLoadSize(v, p.offset, p.bytes)
        marked == [v EXCEPT !.pages = P!WithStatus(@, p.offset, p.bytes, st)]
    IN  IF need = 0 THEN Ok(marked)
        ELSE Then(GetObject(marked, p.offset),
                  LAMBDA x : Ok([x EXCEPT !.local = Put(@, p.offset, Slice(x.object.data, p.offset, need))]))

LoadPage(v, p, st) ==
    LET need == NeedLoadSize(v, p.offset, p.bytes)
    IN  Then(IF need = 0 THEN Ok(v)
             ELSE Then(GetObject(v, p.offset),
                       LAMBDA x : Ok([x EXCEPT !.local = Put(@, p.offset, Slice(x.object.data, p.offset, need))])),
             LAMBDA x : Ok([x EXCEPT !.pages = P!WithStatus(@, p.offset, p.bytes, st)]))

Load(v, start, size, st) ==
    LET step(outs, p) == IF size # 0 /\ start + size <= p.offset THEN outs
                         ELSE Then(outs, LAMBDA x : LoadPage(x, p, st))
    IN  FoldLeft(step, Ok(v), P!GetUnloadedPages(v.pages, start, size))

LoadAllPages(v) == Load(v, 0, 0, LOADED)

-----------------------------------------------------------------------------
(***************************************************************************)
(* The upload of a file for which there is no space: parts are downloaded  *)
(* or taken from the file one by one and uploaded at once.                 *)
(***************************************************************************)
AddUntreated(v, start, size) ==
    [v EXCEPT !.untreated_list = U!Added(@, start, size, v.last_tag + 1), !.last_tag = @ + 1]

ClearUntreated(v) == [v EXCEPT !.untreated_list = <<>>]

(* An upload begun for one descriptor is not known to the others. *)
Shared(v, fd) == IF OpenFds(v) \subseteq {fd} THEN {} ELSE {"shared"}

(* NoCachePreMultipartUploadRequest: the pending metadata goes with the upload. *)
NoCachePre(v, fd) ==
    LET cleared == [v EXCEPT !.info[fd].upload = NotUploading]
    IN  Then(Request(cleared),
             LAMBDA x : Ok([x EXCEPT !.info[fd].upload =
                                [uploading |-> TRUE, headers |-> x.orgmeta, parts |-> <<>>],
                            !.pending_status = "NO_UPDATE_PENDING",
                            !.excuses = @ \cup {"given_back"} \cup Shared(x, fd)]))

IsUploading(v, fd) == v.info[fd].upload.uploading

PartSpan(parts) == FoldLeft(LAMBDA sum, p : sum + p.size, 0, parts)

(***************************************************************************)
(* NoCacheMultipartUploadRequest: AppendUploadPart takes only the part     *)
(* that follows the last one; a part that cannot be read whole, or whose   *)
(* request fails, stays in the list without an ETag.                       *)
(***************************************************************************)
WithPart(v, fd, size, data) ==
    [v EXCEPT !.info[fd].upload.parts = Append(@, [size |-> size, data |-> data])]

NoCacheMultipartUploadRequest(v, fd, start, size, source) ==
    LET data == Slice(source, start, size)
    IN  IF ~IsUploading(v, fd) \/ start # PartSpan(v.info[fd].upload.parts) THEN Failed(v)
        ELSE IF Len(data) < size THEN Failed(WithPart(v, fd, size, NoPart))
        ELSE {[o EXCEPT !.w = WithPart(o.w, fd, size, IF o.ok THEN data ELSE NoPart)] : o \in Request(v)}

(* The sizes in which a page of the given size is uploaded. *)
PartSizes[rest \in 0..MaxSize] ==
    IF rest = 0 THEN <<>>
    ELSE LET one  == Min2(rest, multipart_size)
             size == IF rest - one >= MIN_MULTIPART_SIZE THEN one
                     ELSE IF FIVE_GB < rest THEN rest \div 2 ELSE rest
         IN  <<size>> \o PartSizes[rest - size]

PostPart(v, fd, p, part) ==
    LET need == NeedLoadSize(v, part.offset, part.size)
        temporary(x) == Put(CutTo(<<>>, part.offset + part.size), part.offset,
                            Slice(x.object.data, part.offset, need))
    IN  IF p.loaded
        THEN NoCacheMultipartUploadRequest(v, fd, part.offset, part.size, v.local)
        ELSE Then(IF need > 0 THEN GetObject(v, part.offset) ELSE Ok(v),
                  LAMBDA x : NoCacheMultipartUploadRequest(x, fd, part.offset, part.size, temporary(x)))

PartsOf(p) ==
    LET sizes == PartSizes[p.bytes]
    IN  [i \in DOMAIN sizes |->
            [offset |-> p.offset + FoldLeft(LAMBDA a, b : a + b, 0, SubSeq(sizes, 1, i - 1)), size |-> sizes[i]]]

(* A page that was not loaded is marked as loaded up to the end of the range. *)
PostedPage(p, size) ==
    IF p.loaded THEN <<p>>
    ELSE IF size # 0 /\ size < P!NextOf(p)
    THEN <<P!Page(p.offset, size - p.offset, TRUE, FALSE),
           [p EXCEPT !.offset = size, !.bytes = P!NextOf(p) - size]>>
    ELSE <<[p EXCEPT !.loaded = TRUE, !.modified = FALSE]>>

PostPage(v, fd, p, size) ==
    Then(FoldLeft(LAMBDA outs, part : Then(outs, LAMBDA x : PostPart(x, fd, p, part)), Ok(v), PartsOf(p)),
         LAMBDA x : Ok([x EXCEPT !.pages = FlattenSeq([i \in DOMAIN @ |->
                            IF @[i] = p THEN PostedPage(p, size) ELSE <<@[i]>>])]))

(***************************************************************************)
(* NoCacheLoadAndPost, from 0; the file gives its space back at the end.   *)
(* What fails leaves an upload that is begun and goes on with the next     *)
(* write.                                                                  *)
(***************************************************************************)
NoCacheLoadAndPost(v, fd, size) ==
    LET step(outs, p) == IF (size # 0 /\ size <= p.offset) THEN outs
                         ELSE Then(outs, LAMBDA x : PostPage(x, fd, p, size))
        posted == Then(FoldLeft(step, Ok(v), v.pages),
                       LAMBDA x : Ok([x EXCEPT !.pages = P!Compress(@), !.local = <<>>]))
    IN  {IF o.ok THEN o ELSE [o EXCEPT !.w = Excused(o.w, "halfway")] : o \in posted}

(* CompleteMultipartUpload: every part has arrived and none but the last is too small. *)
Acceptable(parts) ==
    /\ parts # <<>>
    /\ \A i \in DOMAIN parts : parts[i].data # NoPart
    /\ \A i \in 1..(Len(parts) - 1) : parts[i].size >= MIN_MULTIPART_SIZE

Assembled(parts) == FlattenSeq([i \in DOMAIN parts |-> parts[i].data])

StoredObject(data, headers) == [exists |-> TRUE, data |-> data, mtime |-> headers.mtime, mode |-> headers.mode]

(* An upload that cannot be completed is aborted and forgotten. *)
NoCacheMultipartUploadComplete(v, fd) ==
    LET up   == v.info[fd].upload
        over(x) == Excused(ClearUntreated([x EXCEPT !.info[fd].upload = NotUploading]), "emptied")
    IN  IF up.parts = <<>> THEN Failed(v)
        ELSE Always(Then(IF Acceptable(up.parts) THEN Request(v) ELSE Failed(v),
                         LAMBDA x : Ok([x EXCEPT !.object = StoredObject(Assembled(up.parts), up.headers)])),
                    over)

-----------------------------------------------------------------------------
(***************************************************************************)
(* RowFlush in its three modes, and the pending metadata.                  *)
(***************************************************************************)
PutRequest(v) ==
    Then(Request(v), LAMBDA x : Ok([x EXCEPT !.object = StoredObject(x.local, x.orgmeta)]))

(* put_headers: the object is copied onto itself with new metadata. *)
PutHeaders(v, headers) ==
    Then(Request(v), LAMBDA x : Ok([x EXCEPT !.object = StoredObject(x.object.data, headers)]))

(* UploadPendingHasLock without a descriptor. *)
UploadPendingHeaders(v) ==
    CASE v.pending_status = "NO_UPDATE_PENDING"   -> Ok(v)
      [] v.pending_status = "CREATE_FILE_PENDING" -> Failed(v)
      [] v.pending_status = "UPDATE_META_PENDING" ->
            Then(PutHeaders(v, v.orgmeta), LAMBDA x : Ok([x EXCEPT !.pending_status = "NO_UPDATE_PENDING"]))

ClearAllModified(v) == [v EXCEPT !.pages = P!Cleared(@), !.is_shrink = FALSE]

(* The end of the flushes that are not of mode nomultipart. *)
Flushed(v) == Ok([ClearAllModified(v) EXCEPT !.pending_status = "NO_UPDATE_PENDING"])

(* size_orgmeta is set to what was to be uploaded, whether it was or not. *)
Resized(v, size) == ClearUntreated([v EXCEPT !.size_orgmeta = size])

(* Mutant: the marks are cleared although the request has failed. *)
RowFlushNoMultipartClearing(v) ==
    Then(IF Unloaded(v, 0, 0, 0) > 0 THEN ReserveDiskSpace(v) ELSE Ok(v),
         LAMBDA r : Then(LoadAllPages(r),
         LAMBDA x : Always(PutRequest(x), LAMBDA y : ClearAllModified(Resized(y, Len(y.local))))))

RowFlushNoMultipart(v) ==
    Then(IF Unloaded(v, 0, 0, 0) > 0 THEN ReserveDiskSpace(v) ELSE Ok(v),
         LAMBDA r : Then(LoadAllPages(r),
         LAMBDA x : Then(Always(PutRequest(x), LAMBDA y : Resized(y, Len(y.local))),
         LAMBDA z : Ok(ClearAllModified(z)))))

(* What is left of an upload that was begun by a write; then it is completed. *)
FinishUpload(v, fd) ==
    LET rest == U!GetLastUpdatedPart(v.untreated_list, v.last_tag, multipart_size, 0)
        sent == IF rest = <<>> \/ rest[1].size = 0 THEN Ok(v)
                ELSE Then(NoCacheMultipartUploadRequest(v, fd, rest[1].start, rest[1].size, v.local),
                          LAMBDA x : Ok([x EXCEPT !.untreated_list =
                                            U!Cleared(@, rest[1].start, rest[1].size)]))
    IN  Then(sent,
             LAMBDA x : Then(NoCacheMultipartUploadComplete(x, fd),
             LAMBDA y : Then(UploadPendingHeaders([y EXCEPT !.local = <<>>]), Flushed)))

(***************************************************************************)
(* With too little space everything is downloaded and uploaded in parts;   *)
(* the flush ends there.                                                   *)
(***************************************************************************)
FlushNoCache(v, fd) ==
    Then(NoCachePre(v, fd),
         LAMBDA x : Then(NoCacheLoadAndPost(x, fd, 0), LAMBDA y : Flushed(Excused(ClearUntreated(y), "unfinished"))))

(* Reserve what is to be loaded; "short" when there is too little space. *)
FlushWith(v, fd, restsize, Upload(_)) ==
    UNION {IF o.ok THEN Upload(o.w) ELSE FlushNoCache(o.w, fd) :
              o \in IF restsize > 0 THEN ReserveDiskSpace(v) ELSE Ok(v)}

(* multipart_upload_request cuts the file itself; a file without data has no parts. *)
MultipartUploadRequest(v) == IF v.local = <<>> THEN Failed(v) ELSE PutRequest(v)

RowFlushMultipart(v, fd) ==
    LET upload(x) ==
            Then(Always(IF Size(x) >= multipart_size THEN MultipartUploadRequest(x) ELSE PutRequest(x),
                        LAMBDA y : Resized(y, Len(y.local))),
                 Flushed)
    IN  IF IsUploading(v, fd) THEN FinishUpload(v, fd)
        ELSE FlushWith(v, fd, Unloaded(v, 0, 0, 0), LAMBDA x : Then(LoadAllPages(x), upload))

(* mix_multipart_upload_request: parts of the file, and parts copied from the object. *)
MixParts(v, pages) ==
    [i \in DOMAIN pages |->
        LET p    == pages[i]
            data == Slice(IF p.modified THEN v.local ELSE v.object.data, p.offset, p.bytes)
        IN  [size |-> p.bytes, data |-> IF Len(data) < p.bytes THEN NoPart ELSE data]]

MixMultipartUploadRequest(v, pages) ==
    LET parts == MixParts(v, pages)
    IN  IF ~Acceptable(parts) THEN Failed(v)
        ELSE Then(Request(v), LAMBDA x : Ok([x EXCEPT !.object = StoredObject(Assembled(parts), x.orgmeta)]))

(* Mutant: the parts that are too small are not downloaded before. *)
LoadPlannedNothing(v, ranges, st) == Ok(v)

LoadPlanned(v, ranges, st) ==
    FoldLeft(LAMBDA outs, p : Then(outs, LAMBDA x : Load(x, p.offset, p.bytes, st)), Ok(v), ranges)

(* The file is small: all of it is loaded and put.  Otherwise what the plan says. *)
WholeFile == P!Page(0, 0, FALSE, FALSE)

UploadMix(v, plan) ==
    LET large == Size(v) >= multipart_size
        total == Len(v.local)
    IN  Then(LoadPlanned(v, IF large THEN plan.dlpages ELSE <<WholeFile>>, IF large THEN LOAD_MODIFIED ELSE LOADED),
        LAMBDA x : Then(Always(IF large THEN MixMultipartUploadRequest(x, plan.mixuppages) ELSE PutRequest(x),
                               LAMBDA y : Resized(y, total)),
                        Flushed))

RowFlushMixMultipart(v, fd) ==
    IF IsUploading(v, fd) THEN FinishUpload(v, fd)
    ELSE FlushWith(v, fd, Unloaded(v, 0, 0, MIN_MULTIPART_SIZE),
                   LAMBDA x : UploadMix(x, P!GetPageListsForMultipartUpload(v.pages)))

RowFlush(v, fd, forced) ==
    IF ~v.info[fd].writable THEN Ok(v)
    ELSE IF ~forced /\ ~IsModified(v) /\ v.pending_status # "UPDATE_META_PENDING" THEN Ok(v)
    ELSE CASE mode = "nomultipart" /\ ~forced /\ ~IsModified(v) -> UploadPendingHeaders(v)
           [] mode = "nomultipart" /\ (forced \/ IsModified(v)) -> RowFlushNoMultipart(v)
           [] mode = "multipart" -> RowFlushMultipart(v, fd)
           [] mode = "mix"       -> RowFlushMixMultipart(v, fd)

(* RowFlush does nothing for a descriptor that is read only, and what was pending is forgotten. *)
UploadPending(v, fd) ==
    LET done(x) == [x EXCEPT !.pending_status = "NO_UPDATE_PENDING",
                             !.excuses = @ \cup (IF v.info[fd].writable THEN {} ELSE {"read_only"})]
    IN  IF v.pending_status # "CREATE_FILE_PENDING" THEN UploadPendingHeaders(v)
        ELSE Then(RowFlush(v, fd, TRUE), LAMBDA x : Ok(done(x)))

-----------------------------------------------------------------------------
(***************************************************************************)
(* Write in its three modes.                                               *)
(***************************************************************************)
PWrite(v, start, data) ==
    AddUntreated([v EXCEPT !.local = Put(@, start, data), !.view = Put(@, start, data), !.file_mtime = Now,
                           !.pages = P!WithStatus(@, start, Len(data), LOAD_MODIFIED)],
                 start, Len(data))

(* A write behind the end: the gap is a hole of the file, to be uploaded. *)
Grow(v, start) ==
    IF Size(v) < start
    THEN AddUntreated([v EXCEPT !.local = CutTo(@, start), !.view = CutTo(@, start), !.file_mtime = Now,
                                !.pages = P!WithStatus(@, Size(v), start - Size(v), MODIFIED)],
                      Size(v), start - Size(v))
    ELSE v

LoadBehind(v, next) == IF Size(v) > next THEN Load(v, next, Size(v), LOADED) ELSE Ok(v)

WriteNoMultipart(v, start, data) ==
    Then(ReserveDiskSpace(v),
         LAMBDA r : Then(IF start > 0 THEN Load(r, 0, start, LOADED) ELSE Ok(r),
         LAMBDA x : LoadBehind(PWrite(x, start, data), start + Len(data))))

(* No space: a write that reaches behind the first part begins an upload. *)
StartUpload(v, fd, start, size) ==
    IF start + size <= multipart_size THEN Failed(v)
    ELSE Then(NoCachePre(v, fd),
              LAMBDA x : Then(NoCacheLoadAndPost(x, fd, start), LAMBDA y : Ok(ClearUntreated(y))))

(* Mutant: the length is restored with the block counted twice. *)
UploadWrittenLong(v, fd) ==
    LET got  == U!GetLastUpdatedPart(v.untreated_list, v.last_tag, multipart_size, MIN_MULTIPART_SIZE)
    IN  IF ~IsUploading(v, fd) \/ got = <<>> THEN Ok(v)
        ELSE Then(NoCacheMultipartUploadRequest(v, fd, got[1].start, got[1].size, v.local),
                  LAMBDA x : Ok([x EXCEPT !.local = CutTo(<<>>, got[1].start + 2 * got[1].size),
                                          !.untreated_list = U!Cleared(@, got[1].start, got[1].size)]))

(* The area of the write, once it is large enough; the file gives its space back, *)
(* and with it what was written behind that area.                                *)
UploadWritten(v, fd) ==
    LET got  == U!GetLastUpdatedPart(v.untreated_list, v.last_tag, multipart_size, MIN_MULTIPART_SIZE)
        rest == U!Cleared(v.untreated_list, got[1].start, got[1].size)
    IN  IF ~IsUploading(v, fd) \/ got = <<>> THEN Ok(v)
        ELSE Then(NoCacheMultipartUploadRequest(v, fd, got[1].start, got[1].size, v.local),
                  LAMBDA x : Ok([x EXCEPT !.local = CutTo(<<>>, got[1].start + got[1].size),
                                          !.untreated_list = rest,
                                          !.excuses = @ \cup (IF rest = <<>> THEN {} ELSE {"tail"})]))

WriteMultipart(v, fd, start, data) ==
    LET prepared ==
            IF IsUploading(v, fd) THEN Ok(v)
            ELSE UNION {IF ~o.ok THEN StartUpload(o.w, fd, start, Len(data))
                        ELSE IF start > 0 THEN Load(o.w, 0, start, LOADED) ELSE {o} : o \in ReserveDiskSpace(v)}
    IN  Then(prepared,
             LAMBDA x : Then(LoadBehind(PWrite(x, start, data), start + Len(data)),
             LAMBDA y : UploadWritten(y, fd)))

WriteMixMultipart(v, fd, start, data) ==
    LET prepared ==
            IF IsUploading(v, fd) THEN Ok(v)
            ELSE UNION {IF o.ok THEN {o} ELSE StartUpload(o.w, fd, start, Len(data)) : o \in ReserveDiskSpace(v)}
    IN  Then(prepared, LAMBDA x : UploadWritten(PWrite(x, start, data), fd))

WriteInMode(v, fd, start, data) ==
    CASE mode = "nomultipart" -> WriteNoMultipart(v, start, data)
      [] mode = "multipart"   -> WriteMultipart(v, fd, start, data)
      [] mode = "mix"         -> WriteMixMultipart(v, fd, start, data)

(* An upload that goes on while the file is written takes only what follows its last part. *)
WriteData(v, fd, start, data) ==
    {IF IsUploading(o.w, fd) /\ start < Size(v) THEN [o EXCEPT !.w = Excused(o.w, "inner")] ELSE o :
        o \in WriteInMode(Grow(v, start), fd, start, data)}

-----------------------------------------------------------------------------
(***************************************************************************)
(* Open, for the first and for a further descriptor; Close.                *)
(***************************************************************************)
NewInfo == [state |-> "new", writable |-> FALSE, upload |-> NotUploading]

(* The state of an entity that is not there. *)
NoEntity(v) ==
    [v EXCEPT !.local = <<>>, !.file_mtime = 0, !.pages = <<>>, !.is_shrink = FALSE, !.size_orgmeta = 0,
              !.orgmeta = NoHeaders, !.pending_status = "NO_UPDATE_PENDING", !.holding_mtime = NoStamp,
              !.untreated_list = <<>>, !.last_tag = 0]

HeadersOf(object) == [mtime |-> object.mtime, mode |-> object.mode, size |-> Len(object.data)]

(* get_object_attribute: the stat cache, or the object, which is then cached. *)
GetAttribute(v) == IF v.stat = NoHeaders THEN [v EXCEPT !.stat = HeadersOf(v.object)] ELSE v

DelStat(v) == [v EXCEPT !.stat = NoHeaders]

FirstOpen(v, size) ==
    LET opened == [v EXCEPT !.pages = P!InitPages(size, FALSE, FALSE), !.local = CutTo(<<>>, size),
                            !.orgmeta = v.stat, !.size_orgmeta = v.stat.size, !.file_mtime = v.stat.mtime]
    IN  IF v.stat.size < size THEN AddUntreated(opened, v.stat.size, size - v.stat.size) ELSE opened

(* FdManager::Open: the size of a modified file is not reduced, unless the caller insists. *)
KeepsSize(v, size, ignore_modify) == ~ignore_modify /\ IsModified(v) /\ size <= Size(v)

ResizeOpened(v, size) ==
    IF Size(v) = size THEN v
    ELSE [v EXCEPT !.local = CutTo(@, size), !.file_mtime = Now, !.pages = P!Resized(@, size, FALSE, TRUE),
                   !.is_shrink = P!ShrinkFlag(v.pages, @, size, TRUE),
                   !.excuses = @ \cup (IF \E fd \in Fds : IsUploading(v, fd) THEN {"resized"} ELSE {})]

OpenAgain(v, size, ignore_modify) ==
    LET kept    == KeepsSize(v, size, ignore_modify)
        resized == IF kept THEN v ELSE ResizeOpened(v, size)
        grown   == IF ~kept /\ v.size_orgmeta < size
                   THEN AddUntreated(resized, v.size_orgmeta, size - v.size_orgmeta) ELSE resized
        lost    == [v.orgmeta EXCEPT !.size = v.stat.size] # v.stat
        excuses == (IF lost THEN {"reopened"} ELSE {})
                     \cup (IF v.stat.size # Len(v.object.data) THEN {"stale_size"} ELSE {})
    IN  [grown EXCEPT !.orgmeta = v.stat, !.excuses = @ \cup excuses,
                      !.size_orgmeta = Min2(IF kept THEN @ ELSE size, v.stat.size)]

WithFd(v, fd, is_writable) ==
    [v EXCEPT !.info[fd] = [NewInfo EXCEPT !.state = "open", !.writable = is_writable],
              !.excuses = @ \cup (IF \E other \in Fds : IsUploading(v, other) THEN Shared(v, fd) ELSE {})]

(* FdEntity::Close and FdManager::Close; an upload that is not complete is dropped. *)
CloseFd(v, fd) ==
    LET closed == [v EXCEPT !.info[fd] = [NewInfo EXCEPT !.state = "closed"]]
    IN  IF OpenFds(closed) = {} THEN NoEntity(closed) ELSE closed

-----------------------------------------------------------------------------
(***************************************************************************)
(* The handlers.  The outcome is what the application was told last, by a  *)
(* handler that stores the file.                                           *)
(***************************************************************************)
Init ==
    /\ mode \in Modes
    /\ \E n \in InitSizes :
          w = NoEntity(
                [object |-> [exists |-> n > 0, data |-> [i \in 1..n |-> i], mtime |-> 0, mode |-> 0],
                 local |-> <<>>, file_mtime |-> 0, pages |-> <<>>, is_shrink |-> FALSE, size_orgmeta |-> 0,
                 orgmeta |-> NoHeaders, pending_status |-> "NO_UPDATE_PENDING", holding_mtime |-> NoStamp,
                 untreated_list |-> <<>>, last_tag |-> 0,
                 info |-> [fd \in Fds |-> NewInfo], stat |-> NoHeaders,
                 view |-> [i \in 1..n |-> i], wanted |-> [mode |-> 0, mtime |-> NoStamp, held |-> FALSE],
                 outcome |-> "none", excuses |-> {}, writes |-> 0, metas |-> 0, failures |-> 0, shortages |-> 0])

(* The handler ends; outs are its outcomes. *)
Handler(outs) == \E o \in outs : w' = o.w /\ UNCHANGED mode

(* A handler that stores the file tells so, or of its error. *)
Ends(outs, outcome) ==
    Handler({[o EXCEPT !.w.outcome = IF o.ok \/ outcome = "none" THEN outcome ELSE "error"] : o \in outs})
Quiet(outs) == Ends(outs, "none")

(* s3fs_create: the empty object is put at once and the file marked as new. *)
Create(fd) ==
    /\ w.info[fd].state = "new" /\ OpenFds(w) = {} /\ ~w.object.exists /\ Room(w)
    /\ LET headers == [mtime |-> Now, mode |-> 0, size |-> 0]
           made(v) == [FirstOpen([v EXCEPT !.object = StoredObject(<<>>, headers), !.stat = headers], 0)
                         EXCEPT !.pages = P!InitPages(0, FALSE, TRUE), !.view = <<>>,
                                !.pending_status = "CREATE_FILE_PENDING",
                                !.wanted = [mode |-> 0, mtime |-> NoStamp, held |-> FALSE]]
       IN  Quiet(Then(Request(w), LAMBDA v : Ok(WithFd(made(v), fd, TRUE))))

(* s3fs_open, with O_TRUNC or without. *)
Opened(v, fd, is_writable, truncate) ==
    LET first == OpenFds(v) = {}
        known == GetAttribute(IF first THEN DelStat(v) ELSE v)
        size  == IF truncate THEN 0
                 ELSE IF ~first /\ IsModified(v) THEN Size(v)
                 ELSE known.stat.size
        seen  == IF first THEN [known EXCEPT !.view = v.object.data,
                                             !.wanted = [mode |-> v.object.mode, mtime |-> NoStamp, held |-> FALSE]]
                 ELSE known
        cut   == IF truncate /\ (first \/ ~KeepsSize(v, 0, FALSE))
                 THEN [seen EXCEPT !.view = <<>>, !.wanted.held = FALSE]
                 ELSE [seen EXCEPT !.wanted.held = @ /\ ~truncate]
        opened == WithFd(IF first THEN FirstOpen(cut, size) ELSE OpenAgain(cut, size, FALSE), fd, is_writable)
        stamped == [opened EXCEPT !.orgmeta.mtime = Now, !.file_mtime = Now]
    IN  IF ~truncate \/ known.stat.size = 0 THEN Ok(opened)
        ELSE {IF o.ok THEN o ELSE [o EXCEPT !.w = CloseFd(DelStat(o.w), fd)] : o \in RowFlush(stamped, fd, TRUE)}

Open(fd, is_writable) ==
    /\ w.info[fd].state = "new" /\ w.object.exists /\ Room(w)
    /\ Quiet(Opened(w, fd, is_writable, FALSE))

OpenTruncating(fd) ==
    /\ w.info[fd].state = "new" /\ w.object.exists /\ w.writes < MaxWrites /\ Room(w)
    /\ Ends(Opened([w EXCEPT !.writes = @ + 1], fd, TRUE, TRUE),
            IF GetAttribute(IF OpenFds(w) = {} THEN DelStat(w) ELSE w).stat.size = 0 THEN "none" ELSE "stored")

(***************************************************************************)
(* s3fs_truncate, of a file that is open: the file is opened once more     *)
(* with the new size.  A size that another descriptor's writes forbid to   *)
(* reduce is left.                                                         *)
(***************************************************************************)
Truncate(size) ==
    /\ OpenFds(w) # {} /\ w.writes < MaxWrites /\ Room(w)
    /\ LET known  == GetAttribute([w EXCEPT !.writes = @ + 1])
           ignore == Cardinality(OpenFds(w)) <= 1
           seen   == IF KeepsSize(w, size, ignore) \/ size = Size(w) THEN known
                     ELSE [known EXCEPT !.view = CutTo(@, size), !.wanted.mtime = IF w.wanted.held THEN @ ELSE Now]
       IN  Quiet(Ok(OpenAgain(seen, size, ignore)))

(* s3fs_write; a write that is too far behind is refused (CheckFileSizeLimit). *)
Write(fd, start, size) ==
    /\ w.info[fd].state = "open" /\ w.info[fd].writable /\ w.writes < MaxWrites /\ Room(w)
    /\ start + size <= MaxSize
    /\ LET counted == [w EXCEPT !.writes = @ + 1,
                                !.wanted.mtime = IF w.wanted.held THEN @ ELSE Now]
           data    == [i \in 1..size |-> counted.writes * 10 + start + i]
       IN  Quiet(WriteData(counted, fd, start, data))

(***************************************************************************)
(* s3fs_read: the missing pages of the range, and of what follows it, are  *)
(* loaded.                                                                 *)
(***************************************************************************)
Read(start) ==
    /\ OpenFds(w) # {} /\ start < Size(w)
    /\ Unloaded(w, start, Size(w) - start, 0) > 0
    /\ Quiet(Then(ReserveDiskSpace(w), LAMBDA v : Load(v, start, Size(v) - start, LOADED)))

(* Mutant: the time of the last write replaces the time stamp that was set. *)
UpdateMtimeAlways(v) == [v EXCEPT !.orgmeta.mtime = v.file_mtime]

(* UpdateMtime: a time stamp the application has set is kept. *)
UpdateMtime(v) == IF v.holding_mtime = NoStamp THEN [v EXCEPT !.orgmeta.mtime = v.file_mtime] ELSE v

(* s3fs_flush. *)
Flush(fd) ==
    /\ w.info[fd].state = "open"
    /\ LET flushed == RowFlush(UpdateMtime(w), fd, FALSE)
           pending(v) == {IF o.ok THEN [o EXCEPT !.w = DelStat(o.w)] ELSE o : o \in UploadPending(v, fd)}
           outs == UNION {IF o.ok THEN pending(o.w) ELSE {[o EXCEPT !.w = DelStat(o.w)]} : o \in flushed}
       IN  Ends(outs, IF w.info[fd].writable THEN "flushed" ELSE "none")

(* s3fs_fsync; fdatasync leaves the metadata for later. *)
Fsync(fd, datasync) ==
    /\ w.info[fd].state = "open"
    /\ LET outs == RowFlush(IF datasync THEN w ELSE UpdateMtime(w), fd, FALSE)
           dirty(v) == IF datasync /\ v.pending_status = "NO_UPDATE_PENDING"
                       THEN [v EXCEPT !.pending_status = "UPDATE_META_PENDING"] ELSE v
           done == {[o EXCEPT !.w = DelStat(dirty(o.w))] : o \in outs}
       IN  Ends(done, IF w.info[fd].writable THEN "stored" ELSE "none")

(* s3fs_release: a modified file is flushed; the descriptor is closed in any case. *)
Release(fd) ==
    /\ w.info[fd].state = "open"
    /\ LET flushed == IF IsModified(w) THEN RowFlush(w, fd, FALSE) ELSE Ok(w)
           outs    == Then(flushed, LAMBDA v : UploadPending(IF w.info[fd].writable THEN DelStat(v) ELSE v, fd))
       IN  Quiet({[o EXCEPT !.w = CloseFd(o.w, fd)] : o \in outs})

(* MergeOrgMeta: metadata of a file with unsent data waits for the data. *)
Pending(v) ==
    IF v.pending_status = "NO_UPDATE_PENDING" /\ (IsModified(v) \/ \E fd \in Fds : IsUploading(v, fd))
    THEN "UPDATE_META_PENDING" ELSE v.pending_status

MergeOrgMeta(v, headers) ==
    [v EXCEPT !.orgmeta = headers, !.file_mtime = headers.mtime, !.pending_status = Pending(v)]

(* s3fs_chmod and s3fs_utimens of an open file. *)
ChangeMeta(v, headers, Held(_)) ==
    LET merged == MergeOrgMeta(v, headers)
    IN  IF merged.pending_status # "NO_UPDATE_PENDING" THEN Ok(Held([merged EXCEPT !.stat = headers]))
        ELSE {IF o.ok THEN [o EXCEPT !.w = Held(DelStat(o.w))] ELSE [o EXCEPT !.w = Excused(o.w, "meta_failed")] :
                 o \in PutHeaders(merged, headers)}

Chmod ==
    /\ OpenFds(w) # {} /\ w.metas < MaxMetas /\ Room(w)
    /\ LET v == [GetAttribute(w) EXCEPT !.metas = @ + 1, !.wanted.mode = w.metas + 1]
       IN  Quiet(ChangeMeta(v, [v.orgmeta EXCEPT !.mode = v.metas], LAMBDA x : x))

Utimens ==
    /\ OpenFds(w) # {} /\ w.metas < MaxMetas /\ Room(w)
    /\ LET v == [GetAttribute(w) EXCEPT !.metas = @ + 1,
                                        !.wanted = [@ EXCEPT !.mtime = w.metas + 1, !.held = TRUE]]
       IN  Quiet(ChangeMeta(v, [v.orgmeta EXCEPT !.mtime = v.metas], LAMBDA x : [x EXCEPT !.holding_mtime = v.metas]))

(* s3fs_getattr of an open file, as long as a handler may follow that looks into the cache. *)
Getattr == OpenFds(w) # {} /\ w.stat = NoHeaders /\ Room(w) /\ Quiet(Ok(GetAttribute(w)))

Next ==
    \/ \E fd \in Fds : Create(fd) \/ OpenTruncating(fd) \/ Flush(fd) \/ Release(fd)
    \/ \E fd \in Fds, flag \in BOOLEAN : Open(fd, flag) \/ Fsync(fd, flag)
    \/ \E size \in 0..MaxSize : Truncate(size)
    \/ \E fd \in Fds, start \in 0..MaxSize, size \in WriteSizes : Write(fd, start, size)
    \/ \E start \in 0..MaxSize : Read(start)
    \/ Chmod \/ Utimens \/ Getattr

Spec == Init /\ [][Next]_vars

-----------------------------------------------------------------------------
(* Types and bounds; the cache file is never longer than the file may be, also *)
(* where its space is given back.                                              *)
TypeOK ==
    /\ mode \in Modes
    /\ w.pending_status \in {"NO_UPDATE_PENDING", "UPDATE_META_PENDING", "CREATE_FILE_PENDING"}
    /\ w.outcome \in {"none", "stored", "flushed", "error"}
    /\ Size(w) <= MaxSize /\ Len(w.local) <= MaxSize /\ w.size_orgmeta <= MaxSize
    /\ \A fd \in Fds : w.info[fd].state \in {"new", "open", "closed"}

Stored(v) == v.outcome \in {"stored", "flushed"} => v.object.data = v.view

(***************************************************************************)
(* A flush, an fsync or an open with O_TRUNC that reports success          *)
(* (RowFlushHasLock) has stored what the application wrote: the three      *)
(* modes of RowFlush, with holes, loads, plans, retries after a failed     *)
(* request and a second descriptor, also when the upload was begun without *)
(* disk space ("given_back").  The other members of excuses are what the   *)
(* code does wrong.  "shared" is an upload that one descriptor began and   *)
(* another does not know of; "tail" is the write that begins an upload     *)
(* without disk space and reaches behind the block it sends:               *)
(* WriteMultipart truncates the file to 0 after each block, and the rest   *)
(* of the write with it.                                                   *)
(***************************************************************************)
UnspoiltFlushStoresFile ==
    [][w.excuses \subseteq {"given_back"} /\ w'.excuses \cap {"unfinished", "shared"} = {} => Stored(w')]_vars

DataExcuses == w.excuses \ {"reopened", "meta_failed"}

(***************************************************************************)
(* A file whose page list shows no modification (IsModified, by which a    *)
(* flush decides that there is nothing to do) is the object: no failure of *)
(* a request loses the mark.                                               *)
(***************************************************************************)
CleanMeansStored ==
    DataExcuses = {} /\ OpenFds(w) # {} /\ ~IsModified(w) => w.object.data = w.view

StatusAt(u) == P!StatusOf(w.pages, u)

(* What s3fs_read returns for the unit u: loaded now, or from the cache file. *)
ReadOf(u) ==
    LET st == StatusAt(u)
    IN  IF ~st.loaded /\ ~st.modified /\ u < w.size_orgmeta /\ u < Len(w.object.data) THEN w.object.data[u + 1]
        ELSE IF u < Len(w.local) THEN w.local[u + 1] ELSE -1

(***************************************************************************)
(* A read of an open file returns what was written last, through whichever *)
(* descriptor, and the size is what the application made it: page list,    *)
(* cache file, size_orgmeta and object always fit together.                *)
(***************************************************************************)
ReadYourWrites ==
    OpenFds(w) # {} /\ DataExcuses = {} =>
        /\ Size(w) = Len(w.view)
        /\ \A u \in 0..(Size(w) - 1) : ReadOf(u) = w.view[u + 1]

(***************************************************************************)
(* After a flush the object has the mode that was set last, and the time   *)
(* stamp if the application has set one after its last open with O_TRUNC:  *)
(* what chmod and utimens left to the flush of a modified file             *)
(* (MergeOrgMeta, pending_status, holding_mtime) is not lost.              *)
(***************************************************************************)
FlushStoresMetadata ==
    w.outcome = "flushed" /\ w.excuses = {} =>
        /\ w.object.mode = w.wanted.mode
        /\ w.wanted.held => w.object.mtime = w.wanted.mtime
=============================================================================
