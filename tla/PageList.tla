------------------------------ MODULE PageList ------------------------------
(***************************************************************************)
(* PageList (fdcache_page.cpp): which areas of a cache file hold data of   *)
(* the object (loaded) and which hold data to upload (modified), as a list *)
(* of pages.  The operators follow the methods; the state machine calls    *)
(* them the way FdEntity does.                                             *)
(***************************************************************************)
EXTENDS Integers, Sequences, FiniteSets, SequencesExt

CONSTANTS MaxSize,             \* bound on the size of the file, in units of data
          PageStatuses,        \* the page_status values passed to SetPageLoadedStatus
          MIN_MULTIPART_SIZE,  \* the least size of a part that is not the last one
          MaxPartSize          \* the multipart size, at least the minimum

ASSUME PageListAssumption ==
    /\ MaxSize \in Nat
    /\ MIN_MULTIPART_SIZE \in Nat \ {0}
    /\ MaxPartSize \in Nat /\ MaxPartSize >= MIN_MULTIPART_SIZE
    /\ PageStatuses \subseteq [loaded : BOOLEAN, modified : BOOLEAN]

VARIABLES pages,     \* the list
          is_shrink  \* it has been cut since the last ClearAllModified

vars == <<pages, is_shrink>>

Page(offset, bytes, loaded, modified) ==
    [offset |-> offset, bytes |-> bytes, loaded |-> loaded, modified |-> modified]

NextOf(p) == p.offset + p.bytes
EndOf(p)  == IF p.bytes > 0 THEN p.offset + p.bytes - 1 ELSE 0

Size(ps) == IF ps = <<>> THEN 0 ELSE NextOf(Last(ps))

SameStatus(p, q) == p.loaded = q.loaded /\ p.modified = q.modified

Unloaded(p) == ~p.loaded /\ ~p.modified

GrowLast(ps, n) == [ps EXCEPT ![Len(ps)].bytes = @ + n]

(* Mutant: pages of equal status are not merged. *)
CompressNoMerge(done, p) == Append(done, p)

(***************************************************************************)
(* Compress: neighbours of equal status become one page; a gap in the list *)
(* becomes an unloaded page, or widens the unloaded page before it.        *)
(***************************************************************************)
FillGap(done, gap) ==
    IF gap = 0 THEN done
    ELSE IF Unloaded(Last(done)) THEN GrowLast(done, gap)
    ELSE Append(done, Page(NextOf(Last(done)), gap, FALSE, FALSE))

MergePage(done, p) == IF SameStatus(Last(done), p) THEN GrowLast(done, p.bytes) ELSE Append(done, p)

CompressStep(done, p) ==
    IF done = <<>> THEN <<p>> ELSE MergePage(FillGap(done, p.offset - NextOf(Last(done))), p)

Compress(ps) == FoldLeft(CompressStep, <<>>, ps)

(***************************************************************************)
(* compress_fdpage_list and its variants: the same with empty pages left   *)
(* out and, when a flag is ignored, that flag cleared first.               *)
(***************************************************************************)
Project(p, ignore_load, ignore_modify) ==
    [p EXCEPT !.loaded = @ /\ ~ignore_load, !.modified = @ /\ ~ignore_modify]

raw_compress_fdpage_list(ps, ignore_load, ignore_modify) ==
    LET some == SelectSeq(ps, LAMBDA p : p.bytes # 0)
    IN  Compress([i \in DOMAIN some |-> Project(some[i], ignore_load, ignore_modify)])

InitPages(size, is_loaded, is_modified) == <<Page(0, size, is_loaded, is_modified)>>

(* Mutant: the second half keeps the size of the whole page. *)
ParseKeepsBytes(ps, new_pos) ==
    FlattenSeq([i \in DOMAIN ps |->
        IF ps[i].offset < new_pos /\ new_pos < NextOf(ps[i])
        THEN <<[ps[i] EXCEPT !.bytes = new_pos - ps[i].offset], [ps[i] EXCEPT !.offset = new_pos]>>
        ELSE <<ps[i]>>])

(* Parse: a page boundary at new_pos. *)
Parse(ps, new_pos) ==
    FlattenSeq([i \in DOMAIN ps |->
        IF ps[i].offset < new_pos /\ new_pos < NextOf(ps[i])
        THEN << [ps[i] EXCEPT !.bytes = new_pos - ps[i].offset],
                [ps[i] EXCEPT !.offset = new_pos, !.bytes = NextOf(ps[i]) - new_pos] >>
        ELSE <<ps[i]>>])

(* Mutant: pages behind the new end are cut instead of erased. *)
CutNoErase(ps, size) ==
    [i \in DOMAIN ps |-> IF NextOf(ps[i]) <= size THEN ps[i]
                         ELSE [ps[i] EXCEPT !.bytes = size - ps[i].offset]]

Cut(ps, size) ==
    FlattenSeq([i \in DOMAIN ps |->
        IF NextOf(ps[i]) <= size THEN <<ps[i]>>
        ELSE IF size <= ps[i].offset THEN <<>>
        ELSE <<[ps[i] EXCEPT !.bytes = size - ps[i].offset]>>])

Resized(ps, size, is_loaded, is_modified) ==
    LET total == Size(ps)
    IN  Compress(IF total = 0 THEN InitPages(size, is_loaded, is_modified)
                 ELSE IF total < size
                      THEN Append(ps, Page(total, size - total, is_loaded, is_modified))
                 ELSE IF size < total THEN Cut(ps, size)
                 ELSE ps)

(* Resize raises is_shrink when a modification cuts the list. *)
ShrinkFlag(ps, shrunk, size, is_modified) ==
    shrunk \/ (0 < Size(ps) /\ size < Size(ps) /\ is_modified)

WithStatus(ps, start, size, st) ==
    LET now == Size(ps)
        cut == IF now = start THEN ps ELSE Resized(ps, start, FALSE, now < start /\ st.modified)
        parsed == Parse(Parse(ps, start), start + size)
    IN  Compress(IF now <= start + size
                 THEN Resized(cut, start + size, st.loaded, st.modified)
                 ELSE [i \in DOMAIN parsed |->
                        IF EndOf(parsed[i]) < start \/ start + size <= parsed[i].offset
                        THEN parsed[i]
                        ELSE [parsed[i] EXCEPT !.loaded = st.loaded, !.modified = st.modified]])

Cleared(ps) == Compress([i \in DOMAIN ps |-> [ps[i] EXCEPT !.modified = FALSE]])

-----------------------------------------------------------------------------
(***************************************************************************)
(* The queries.  A size of 0 means up to the end of the file.              *)
(***************************************************************************)
IsPageLoaded(ps, start, size) ==
    LET seen == {i \in DOMAIN ps :
                    /\ EndOf(ps[i]) >= start
                    /\ \A k \in 1..(i - 1) :
                          ~(EndOf(ps[k]) >= start /\ size # 0 /\ start + size <= NextOf(ps[k]))}
    IN  \A i \in seen : ps[i].loaded

RangeEnd(ps, start, size) ==
    start + (IF size = 0 /\ start < Size(ps) THEN Size(ps) - start ELSE size)

GetTotalUnloadedPageSize(ps, start, size, limit_size) ==
    LET next == RangeEnd(ps, start, size)
        low(p)  == IF p.offset <= start THEN start ELSE p.offset
        high(p) == IF NextOf(p) <= next THEN NextOf(p) ELSE next
        add(sum, p) ==
            IF /\ start < NextOf(p) /\ p.offset < next /\ Unloaded(p)
               /\ (limit_size = 0 \/ high(p) - low(p) < limit_size)
            THEN sum + (high(p) - low(p)) ELSE sum
    IN  FoldLeft(add, 0, ps)

(* Mutant: pages are not clipped to the range. *)
UnloadedPagesUnclipped(ps, start, size) ==
    SelectSeq(ps, LAMBDA p : /\ start < NextOf(p) /\ p.offset < RangeEnd(ps, start, size)
                             /\ Unloaded(p))

GetUnloadedPages(ps, start, size) ==
    LET next == RangeEnd(ps, start, size)
        add(list, p) ==
            IF NextOf(p) <= start \/ next <= p.offset \/ ~Unloaded(p) THEN list
            ELSE LET from  == IF p.offset < start THEN start ELSE p.offset
                     bytes == (IF NextOf(p) < next THEN NextOf(p) ELSE next) - from
                 IN  IF list # <<>> /\ NextOf(Last(list)) = from
                     THEN GrowLast(list, bytes)
                     ELSE Append(list, Page(from, bytes, FALSE, FALSE))
    IN  FoldLeft(add, <<>>, ps)

IsModified(ps, shrunk) == shrunk \/ \E i \in DOMAIN ps : ps[i].modified

(* Called by PunchHole, for the whole file. *)
GetNoDataPageLists(ps) ==
    raw_compress_fdpage_list(SelectSeq(Compress(ps), LAMBDA p : ~p.modified), FALSE, FALSE)

(* Mutant: the old format, without the modified flag. *)
SerializeOldFormat(ps) ==
    [total |-> Size(ps), lines |-> [i \in DOMAIN ps |-> [ps[i] EXCEPT !.modified = FALSE]]]

(***************************************************************************)
(* The stat file: a head line with the size, one line per page.  Reading   *)
(* it back applies the lines one by one and compares the size.             *)
(***************************************************************************)
Serialize(ps) == [total |-> Size(ps), lines |-> ps]

Deserialize(file) ==
    LET line(ps, p) == WithStatus(ps, p.offset, p.bytes,
                                  [loaded |-> p.loaded, modified |-> p.modified])
        read == FoldLeft(line, <<>>, file.lines)
    IN  [ok |-> Size(read) = file.total,
         pages |-> IF Size(read) = file.total THEN read ELSE <<>>]

-----------------------------------------------------------------------------
(* Mutant: what is left of the current area after the missing bytes may be too small. *)
PlanStepSmallRest(a, cur) ==
    LET prev    == a.prev
        missing == MIN_MULTIPART_SIZE - prev.bytes
    IN  IF cur.modified = prev.modified
        THEN [a EXCEPT !.prev.bytes = @ + cur.bytes]
        ELSE IF ~cur.modified /\ prev.bytes < MIN_MULTIPART_SIZE /\ missing < cur.bytes
        THEN [dl   |-> Append(a.dl, Page(cur.offset, missing, FALSE, FALSE)),
              mix  |-> Append(a.mix, [prev EXCEPT !.bytes = MIN_MULTIPART_SIZE]),
              prev |-> [cur EXCEPT !.offset = @ + missing, !.bytes = @ - missing]]
        ELSE [a EXCEPT !.mix = Append(@, prev), !.prev = cur]

(* Mutant: a small unmodified area is uploaded without being downloaded. *)
PlanStepNoDownload(a, cur) ==
    LET small == a.prev.bytes < MIN_MULTIPART_SIZE
    IN  IF cur.modified = a.prev.modified \/ (~cur.modified /\ small)
        THEN [a EXCEPT !.prev.bytes = @ + cur.bytes]
        ELSE [a EXCEPT !.mix = Append(@, [a.prev EXCEPT !.modified = @ \/ small]), !.prev = cur]

(***************************************************************************)
(* GetPageListsForMultipartUpload: which areas of the object are uploaded, *)
(* which are copied on the server, and what must be downloaded first so    *)
(* that no part but the last is smaller than MIN_MULTIPART_SIZE.           *)
(***************************************************************************)
PlanStep(a, cur) ==
    LET prev    == a.prev
        small   == prev.bytes < MIN_MULTIPART_SIZE
        missing == MIN_MULTIPART_SIZE - prev.bytes
        grown   == [prev EXCEPT !.bytes = @ + cur.bytes]
    IN  CASE cur.modified = prev.modified ->
               [a EXCEPT !.prev = grown]
          [] cur.modified /\ ~prev.modified ->
               [dl   |-> IF small THEN Append(a.dl, prev) ELSE a.dl,
                mix  |-> Append(a.mix, [prev EXCEPT !.modified = small]),
                prev |-> cur]
          [] ~cur.modified /\ prev.modified /\ ~small ->
               [a EXCEPT !.mix = Append(@, prev), !.prev = cur]
          [] ~cur.modified /\ prev.modified /\ small /\ missing + MIN_MULTIPART_SIZE < cur.bytes ->
               [dl   |-> Append(a.dl, Page(cur.offset, missing, FALSE, FALSE)),
                mix  |-> Append(a.mix, [prev EXCEPT !.bytes = MIN_MULTIPART_SIZE]),
                prev |-> [cur EXCEPT !.offset = @ + missing, !.bytes = @ - missing]]
          [] ~cur.modified /\ prev.modified /\ small /\ missing + MIN_MULTIPART_SIZE >= cur.bytes ->
               [a EXCEPT !.dl = Append(@, cur), !.prev = grown]

(* A modified page in parts of MaxPartSize; the last one keeps up to twice as much. *)
SplitPage(p) ==
    LET twice == 2 * MaxPartSize
        full  == IF p.bytes <= twice THEN 0
                 ELSE (p.bytes - twice + MaxPartSize - 1) \div MaxPartSize
    IN  [i \in 1..(full + 1) |->
            [p EXCEPT !.offset = @ + (i - 1) * MaxPartSize,
                      !.bytes  = IF i <= full THEN MaxPartSize ELSE @ - full * MaxPartSize]]

parse_partsize_fdpage_list(ps) ==
    FlattenSeq([i \in DOMAIN ps |-> IF ps[i].modified THEN SplitPage(ps[i]) ELSE <<ps[i]>>])

GetPageListsForMultipartUpload(ps) ==
    LET flags == raw_compress_fdpage_list(Compress(ps), TRUE, FALSE)
        plan  == FoldLeft(PlanStep, [dl |-> <<>>, mix |-> <<>>, prev |-> Page(0, 0, FALSE, FALSE)], flags)
        mix   == IF plan.prev.bytes > 0 THEN Append(plan.mix, plan.prev) ELSE plan.mix
    IN  [dlpages    |-> parse_partsize_fdpage_list(raw_compress_fdpage_list(plan.dl, FALSE, TRUE)),
         mixuppages |-> parse_partsize_fdpage_list(raw_compress_fdpage_list(mix, TRUE, FALSE))]

-----------------------------------------------------------------------------
(***************************************************************************)
(* The state machine: the calls that change a list.                        *)
(***************************************************************************)
Init == pages = InitPages(0, FALSE, FALSE) /\ is_shrink = FALSE

(* PageList::Init, for an opened, a reset and a newly created file. *)
InitList(size, is_loaded, is_modified) ==
    /\ is_modified => size = 0
    /\ pages' = InitPages(size, is_loaded, is_modified)
    /\ is_shrink' = FALSE

Resize(size, is_modified) ==
    /\ pages' = Resized(pages, size, FALSE, is_modified)
    /\ is_shrink' = ShrinkFlag(pages, is_shrink, size, is_modified)

SetPageLoadedStatus(start, size, st) ==
    /\ start + size <= MaxSize
    /\ pages' = WithStatus(pages, start, size, st)
    /\ UNCHANGED is_shrink

ClearAllModified ==
    /\ pages' = Cleared(pages)
    /\ is_shrink' = FALSE

Next ==
    \/ \E size \in 0..MaxSize, is_loaded, is_modified \in BOOLEAN :
          InitList(size, is_loaded, is_modified)
    \/ \E size \in 0..MaxSize, is_modified \in BOOLEAN : Resize(size, is_modified)
    \/ \E start, size \in 0..MaxSize, st \in PageStatuses : SetPageLoadedStatus(start, size, st)
    \/ ClearAllModified

Spec == Init /\ [][Next]_vars

-----------------------------------------------------------------------------
TypeOK ==
    /\ pages \in Seq([offset : 0..MaxSize, bytes : 0..MaxSize,
                      loaded : BOOLEAN, modified : BOOLEAN])
    /\ is_shrink \in BOOLEAN

(***************************************************************************)
(* The status of each byte, read off the list: an operation on the list    *)
(* must change it as ByteStatus says.                                      *)
(***************************************************************************)
Covers(p, byte) == p.offset <= byte /\ byte < NextOf(p)

StatusOf(ps, byte) ==
    LET i == CHOOSE k \in DOMAIN ps : Covers(ps[k], byte)
    IN  [loaded |-> ps[i].loaded, modified |-> ps[i].modified]

PerByte == INSTANCE ByteStatus
               WITH status <- [i \in 1..Size(pages) |-> StatusOf(pages, i - 1)],
                    shrunk <- is_shrink

(***************************************************************************)
(* Splitting, cutting, merging and compressing pages never changes the     *)
(* status of a byte that the call did not name, nor the size of the file.  *)
(***************************************************************************)
ImplementsByteStatus == PerByte!Spec

(***************************************************************************)
(* The list is a partition of the file into maximal runs: it starts at 0,  *)
(* has no gap, no overlap and no empty page beside others, and no two      *)
(* neighbours have the same status.                                        *)
(***************************************************************************)
IsPartition(ps, size) ==
    /\ ps # <<>> => ps[1].offset = 0
    /\ \A i \in 1..(Len(ps) - 1) : NextOf(ps[i]) = ps[i + 1].offset
    /\ \A i \in DOMAIN ps : ps[i].bytes = 0 => Len(ps) = 1
    /\ Size(ps) = size

PagesPartitionFile ==
    /\ IsPartition(pages, Size(pages))
    /\ \A i \in 1..(Len(pages) - 1) : ~SameStatus(pages[i], pages[i + 1])

(***************************************************************************)
(* IsPageLoaded, GetUnloadedPages and GetTotalUnloadedPageSize agree with  *)
(* the bytes for every range: what Load downloads and what ReserveDiskSpace*)
(* asks for are exactly the bytes that are neither loaded nor modified.    *)
(***************************************************************************)
UnloadedBytes(start, next) ==
    {b \in 0..(Size(pages) - 1) : start <= b /\ b < next /\
                                  LET st == StatusOf(pages, b) IN ~st.loaded /\ ~st.modified}

BytesOf(ps) == UNION {ps[i].offset..(NextOf(ps[i]) - 1) : i \in DOMAIN ps}

QueriesExact ==
    \A start, size \in 0..MaxSize :
        LET missing == UnloadedBytes(start, RangeEnd(pages, start, size))
        IN  /\ BytesOf(GetUnloadedPages(pages, start, size)) = missing
            /\ GetTotalUnloadedPageSize(pages, start, size, 0) = Cardinality(missing)
            /\ size > 0 /\ start < Size(pages) =>
                  (IsPageLoaded(pages, start, size) <=>
                      \A b \in start..(start + size - 1) :
                          b < Size(pages) => StatusOf(pages, b).loaded)

(***************************************************************************)
(* The areas PunchHole gets reach from the first unmodified byte to the    *)
(* last one: modified pages between two of them are swallowed when the     *)
(* areas are merged.                                                       *)
(***************************************************************************)
NoDataAreasReach ==
    LET unmodified == {b \in 0..(Size(pages) - 1) : ~StatusOf(pages, b).modified}
    IN  BytesOf(GetNoDataPageLists(pages)) =
            {b \in 0..(Size(pages) - 1) : \E x, y \in unmodified : x <= b /\ b <= y}

(***************************************************************************)
(* A list written to the stat file is read back as it was.                 *)
(***************************************************************************)
StatFileRoundTrip == Deserialize(Serialize(pages)) = [ok |-> TRUE, pages |-> pages]

(* What the list answers, and what it leaves in the stat file, is what its bytes are. *)
ListExact ==
    TypeOK /\ PagesPartitionFile /\ QueriesExact /\ NoDataAreasReach /\ StatFileRoundTrip

(***************************************************************************)
(* The plan of a mixed multipart upload, made for files of at least one    *)
(* part.                                                                   *)
(***************************************************************************)
Plan == GetPageListsForMultipartUpload(pages)

Uploaded(ps) == SelectSeq(ps, LAMBDA p : p.modified)
Copied(ps)   == SelectSeq(ps, LAMBDA p : ~p.modified)

(* The parts make up the file, and S3 accepts their sizes. *)
PlanPartsAcceptable ==
    Size(pages) >= MaxPartSize =>
        LET parts == Plan.mixuppages
        IN  /\ IsPartition(parts, Size(pages))
            /\ \A i \in 1..(Len(parts) - 1) : parts[i].bytes >= MIN_MULTIPART_SIZE
            /\ \A i \in DOMAIN parts : parts[i].modified => parts[i].bytes <= 2 * MaxPartSize

(***************************************************************************)
(* No modified byte is copied from the old object, and every byte of an    *)
(* uploaded part is in the cache file or among the areas downloaded before.*)
(***************************************************************************)
PlanKeepsWrites ==
    Size(pages) >= MaxPartSize =>
        LET plan == Plan
        IN  /\ \A b \in BytesOf(Copied(plan.mixuppages)) : ~StatusOf(pages, b).modified
            /\ \A b \in BytesOf(Uploaded(plan.mixuppages)) :
                  LET st == StatusOf(pages, b)
                  IN  st.loaded \/ st.modified \/ b \in BytesOf(plan.dlpages)

(* The plan of a mixed multipart upload is one S3 takes and loses no write. *)
PlanSound == PlanPartsAcceptable /\ PlanKeepsWrites
=============================================================================
