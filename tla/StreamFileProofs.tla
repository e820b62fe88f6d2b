-------------------------- MODULE StreamFileProofs --------------------------
(***************************************************************************)
(* What a stream upload keeps of a file: as long as nothing has gone       *)
(* wrong, the object, the cache file and the parts on their way to S3 hold *)
(* what the application wrote, for any descriptors, sizes and writes.      *)
(***************************************************************************)
EXTENDS StreamUploadProofs

-----------------------------------------------------------------------------
(***************************************************************************)
(* The inductive invariant: types, whatever happens.  Positions are those  *)
(* of the sequences, from 1.                                               *)
(***************************************************************************)
Vals == Zero..MaxWrites

Datum(n) == [1..n -> Vals]

Mark == [loaded : BOOLEAN, modified : BOOLEAN]

Has(st, i) == st[i].loaded \/ st[i].modified

Mod(st, i) == st[i].modified

(* The positions of a part. *)
Span(e) == (e.start + 1)..(e.start + e.size)

FileTyped(loc, st, org) ==
    /\ Len(st) \in 0..MaxSize
    /\ loc \in Datum(Len(st)) /\ st \in [1..Len(st) -> Mark]
    /\ org \in 0..MaxSize

DataTyped(d) == Len(d) \in 0..MaxSize /\ d \in Datum(Len(d))

(* What Load takes from the object is there. *)
Reach(obj, st, org) == \A i \in 1..Len(st) : ~Has(st, i) /\ i <= org => i <= Len(obj)

EntryIn(e, size) ==
    /\ e \in PartEntries
    /\ e.start + e.size <= size
    /\ e.etag = NoEtag \/ e.etag \in Datum(e.size)

(* The worker has begun to read what it uploads. *)
Begun(j) == j.step = "stored" \/ (j.step = "sent" /\ ~j.entry.is_copy)

JobIn(j, size) ==
    /\ j.step \in {"queued", "sent", "stored"}
    /\ EntryIn(j.entry, size)
    /\ Begun(j) => j.body \in Datum(j.entry.size)

(* A pseudo descriptor but for its upload list. *)
InfTyped(inf) ==
    /\ inf.state \in {"new", "open", "closed"}
    /\ inf.upload_id \in {0} \cup Ids
    /\ inf.last_result \in {"ok", "error", "canceled"}

InfoTyped(I, size) == \A fd \in Fds : InfTyped(I[fd]) /\ \A e \in I[fd].upload_list : EntryIn(e, size)

JobsTyped(J, size) == \A j \in J : JobIn(j, size)

SamePart(e, f) == e.start = f.start /\ e.size = f.size /\ e.is_copy = f.is_copy

(* The ETag of a request goes to the entry it was made for. *)
Agree(I, J) ==
    \A j \in J : \A e \in I[j.fd].upload_list : e.cell = j.entry.cell => SamePart(e, j.entry)

(* The file, the object and what s3fs_write has left to do. *)
FileOK ==
    /\ FileTyped(local, status, size_orgmeta)
    /\ DataTyped(object) /\ DataTyped(view)
    /\ Reach(object, status, size_orgmeta)
    /\ OpenFds # {} => Len(view) = Size /\ Len(object) <= Size
    /\ due = "punch" => Size <= Len(object)
    /\ due \in {"nothing", "flush", "punch"}
    /\ outcome \in {"none", "ok", "error"}

(* The upload lists and the requests, for a file of a given size. *)
ListsOK(I, J, size) == InfoTyped(I, size) /\ JobsTyped(J, size) /\ Agree(I, J)

TypeInv == FileOK /\ ListsOK(info, jobs, Size)

(***************************************************************************)
(* Data, as long as nothing has gone wrong.  What is not modified is in    *)
(* the object, what the cache file has is what was written.  Every         *)
(* modified unit is in an untreated area, in a part that was handed over,  *)
(* or in one the handler is going to upload; and the parts of the one      *)
(* descriptor that uploads are right as long as nobody wrote to them.      *)
(***************************************************************************)
Kept(obj, vw, loc, st, org) ==
    \A i \in 1..Len(st) :
        /\ ~Mod(st, i) => i <= Len(obj) /\ obj[i] = vw[i]
        /\ Has(st, i) \/ org < i => loc[i] = vw[i]

Untreated(list, i) == i - 1 \in UP!Bytes(list)

Marked(st, list) == \A i \in Int : Untreated(list, i) => i \in 1..Len(st) /\ Mod(st, i)

(* Nobody wrote to the part since it was handed over. *)
Settled(list, e) == \A i \in Span(e) : ~Untreated(list, i)

Planning(h) == h.pc \in {"wait_cancelled", "start"}

Busy(h) == h.pc \in {"wait_cancelled", "start", "wait_all", "complete"}

Treated(I, h, st, list) ==
    \A i \in 1..Len(st) : Mod(st, i) =>
        \/ Untreated(list, i)
        \/ \E fd \in Fds : \E e \in I[fd].upload_list : i \in Span(e)
        \/ Planning(h) /\ \E p \in h.upload : i \in Span(p)

(* No other descriptor uploads. *)
Alone(I, fd) == \A g \in Fds \ {fd} : I[g].upload_id = 0

Holds(d, e, vw) == \A k \in 1..e.size : d[k] = vw[e.start + k]

RightEntry(fd, e, J, vw) ==
    /\ e.etag # NoEtag => Holds(e.etag, e, vw)
    /\ \A j \in J : j.fd = fd /\ j.entry.cell = e.cell /\ Begun(j) => Holds(j.body, e, vw)

Right(I, J, h, vw, list) ==
    \A fd \in Fds : Alone(I, fd) =>
        \A e \in I[fd].upload_list : Final(h, fd) \/ Settled(list, e) => RightEntry(fd, e, J, vw)

EntryData(h, fd, e, st) ==
    IF e.is_copy THEN Final(h, fd) /\ \A i \in Span(e) : ~Mod(st, i)
    ELSE \A i \in Span(e) : Has(st, i)

ListsData(I, h, st) == \A fd \in Fds : \A e \in I[fd].upload_list : EntryData(h, fd, e, st)

PlanData(I, h, st, list) ==
    Planning(h) =>
        /\ \A p \in h.upload : \A i \in Span(p) : Has(st, i)
        /\ \A p \in h.copy : \A i \in Span(p) : ~Mod(st, i)
        /\ \A e \in I[h.fd].upload_list : Settled(list, e)

NoUploads(I) == \A fd \in Fds : I[fd].upload_id = 0

Clean(st) == \A i \in 1..Len(st) : ~Mod(st, i)

Data ==
    /\ OpenFds # {} => /\ Kept(object, view, local, status, size_orgmeta)
                       /\ Treated(info, handler, status, untreated_list)
    /\ outcome = "ok" => object = view
    /\ Marked(status, untreated_list)
    /\ due = "punch" => handler.pc = "idle" /\ Clean(status) /\ NoUploads(info)
    /\ ListsData(info, handler, status)
    /\ Right(info, jobs, handler, view, untreated_list)
    /\ PlanData(info, handler, status, untreated_list)
    /\ Busy(handler) => Alone(info, handler.fd)

FileInv == TypeInv /\ (excuses = {} => Data)

-----------------------------------------------------------------------------
LEMMA Bounds == MaxSize \in Nat /\ MaxWrites \in Nat /\ MaxCells \in Nat /\ max_mp_size \in Nat \ {0}
BY StreamUploadAssumption

LEMMA FunctionLen ==
    ASSUME NEW S, NEW n \in Nat, NEW f \in [1..n -> S]
    PROVE  Len(f) = n /\ DOMAIN f = 1..n
<1>1. f = [i \in 1..n |-> f[i]]
  OBVIOUS
<1> QED BY <1>1, LenIs

LEMMA FileIs ==
    ASSUME NEW loc, NEW st, NEW org, FileTyped(loc, st, org)
    PROVE  /\ Len(st) \in Nat /\ Len(st) <= MaxSize
           /\ Len(loc) = Len(st) /\ DOMAIN loc = 1..Len(st) /\ DOMAIN st = 1..Len(st)
           /\ \A i \in 1..Len(st) : loc[i] \in Vals /\ st[i] \in Mark
           /\ org \in Nat /\ org <= MaxSize
<1>1. Len(st) \in 0..MaxSize
  BY DEF FileTyped
<1>2. Len(st) \in Nat /\ Len(st) <= MaxSize
  BY <1>1, Bounds
<1>3. loc \in [1..Len(st) -> Vals] /\ st \in [1..Len(st) -> Mark]
  BY DEF FileTyped, Datum
<1>4. org \in Nat /\ org <= MaxSize
  BY Bounds DEF FileTyped
<1>5. Len(loc) = Len(st)
  BY <1>2, <1>3, FunctionLen
<1> QED BY <1>2, <1>3, <1>4, <1>5

LEMMA DataIs ==
    ASSUME NEW d, DataTyped(d)
    PROVE  /\ Len(d) \in Nat /\ Len(d) <= MaxSize /\ DOMAIN d = 1..Len(d)
           /\ \A i \in 1..Len(d) : d[i] \in Vals
<1>1. Len(d) \in 0..MaxSize /\ d \in [1..Len(d) -> Vals]
  BY DEF DataTyped, Datum
<1> QED BY <1>1, Bounds

(* How a sequence is shown to be of its type. *)
LEMMA DatumIs ==
    ASSUME NEW n \in Nat, NEW d, d = [i \in 1..n |-> d[i]], \A i \in 1..n : d[i] \in Vals
    PROVE  d \in Datum(n) /\ Len(d) = n /\ (n <= MaxSize => DataTyped(d))
<1>1. d \in [1..n -> Vals]
  BY Zenon
<1>2. Len(d) = n
  BY <1>1, FunctionLen
<1> QED BY <1>1, <1>2, Bounds DEF DataTyped, Datum

LEMMA FileTypedIs ==
    ASSUME NEW n \in Nat, n <= MaxSize, NEW loc, NEW st, NEW org \in 0..MaxSize,
           loc = [i \in 1..n |-> loc[i]], st = [i \in 1..n |-> st[i]],
           \A i \in 1..n : loc[i] \in Vals /\ st[i] \in Mark
    PROVE  FileTyped(loc, st, org) /\ Len(st) = n
<1>1. loc \in [1..n -> Vals] /\ st \in [1..n -> Mark]
  BY Zenon
<1>2. Len(st) = n
  BY <1>1, FunctionLen
<1> QED BY <1>1, <1>2, Bounds DEF FileTyped, Datum

LEMMA MarkIs ==
    ASSUME NEW a \in BOOLEAN, NEW b \in BOOLEAN
    PROVE  [loaded |-> a, modified |-> b] \in Mark
BY DEF Mark

(* What the runs check of a state follows. *)
LEMMA FileType ==
    ASSUME UploadInv, TypeInv
    PROVE  TypeOK
<1>1. Len(local) = Size /\ Size <= MaxSize
  BY FileIs DEF TypeInv, FileOK, Size
<1>2. size_orgmeta \in 0..MaxSize /\ (OpenFds # {} => Len(view) = Size)
  BY DEF TypeInv, FileOK, FileTyped
<1>3. ASSUME NEW fd \in Fds
      PROVE  /\ info[fd].state \in {"new", "open", "closed"}
             /\ info[fd].upload_id \in {0} \cup Ids
             /\ info[fd].upload_list \subseteq PartEntries
             /\ info[fd].instruct_count \in Nat
             /\ info[fd].last_result \in {"ok", "error", "canceled"}
             /\ info[fd].uploaded_sem \in Nat
  <2>1. InfOK(info[fd])
    BY DEF UploadInv, Good, FdOK
  <2>2. \A e \in info[fd].upload_list : e \in PartEntries
    BY DEF TypeInv, ListsOK, InfoTyped, EntryIn
  <2>3. InfTyped(info[fd])
    BY DEF TypeInv, ListsOK, InfoTyped
  <2> QED BY <2>1, <2>2, <2>3 DEF InfOK, InfTyped
<1>4. \A j \in jobs : j.fd \in Fds /\ j.step \in {"queued", "sent", "stored"}
  BY JobFd DEF TypeInv, ListsOK, JobsTyped, JobIn
<1> QED BY <1>1, <1>2, <1>3, <1>4 DEF TypeOK, TypeInv, FileOK

LEMMA FileKeptHolds ==
    ASSUME UploadInv, FileInv
    PROVE  UnspoiltFileKept
<1>1. TypeOK
  BY FileType DEF FileInv
<1>2. ASSUME excuses = {}
      PROVE  FlushStoresFile /\ ReadYourWrites
  <2>1. FlushStoresFile
    BY <1>2 DEF FileInv, Data, FlushStoresFile
  <2>2. ASSUME OpenFds # {}, NEW u \in Units(0, Size)
        PROVE  ReadOf(u) = view[u + 1]
    <3>0. TypeInv /\ Data
      BY <1>2 DEF FileInv
    <3>1. FileTyped(local, status, size_orgmeta) /\ Reach(object, status, size_orgmeta) /\ DataTyped(object)
      BY <3>0 DEF TypeInv, FileOK
    <3>2. Kept(object, view, local, status, size_orgmeta)
      BY <2>2, <3>0 DEF Data
    <3> PICK n \in Nat, m \in Nat, org \in Nat : n = Len(status) /\ m = Len(object) /\ org = size_orgmeta
      BY <3>1, FileIs, DataIs
    <3>3. u \in 0..(n - 1)
      BY DEF Units, Size
    <3> PICK i \in 1..n : i = u + 1 /\ u < i
      BY <3>3
    <3>4. (u < org <=> i <= org) /\ (u < m <=> i <= m) /\ (i <= org \/ org < i)
      BY <3>3
    <3>5. HasData(u) <=> Has(status, i)
      BY DEF HasData, Has
    <3>6. /\ ~Mod(status, i) => object[i] = view[i]
          /\ Has(status, i) \/ org < i => local[i] = view[i]
          /\ ~Has(status, i) /\ i <= org => i <= m
      BY <3>1, <3>2 DEF Kept, Reach
    <3>7. ~Has(status, i) => ~Mod(status, i)
      BY DEF Has, Mod
    <3> QED BY <3>4, <3>5, <3>6, <3>7 DEF ReadOf
  <2> QED BY <2>1, <2>2 DEF ReadYourWrites
<1> QED BY <1>1, <1>2 DEF UnspoiltFileKept

-----------------------------------------------------------------------------
(***************************************************************************)
(* Types of the upload lists and the requests.                             *)
(***************************************************************************)
LEMMA EntryFacts ==
    ASSUME NEW e, NEW size, EntryIn(e, size)
    PROVE  /\ e.start \in Nat /\ e.size \in Nat /\ 0 < e.size /\ e.start + e.size <= size
           /\ e.part_num \in PartNums /\ e.is_copy \in BOOLEAN /\ e.cell \in 1..MaxCells
           /\ \A i \in Span(e) : i \in Nat /\ 0 < i /\ i - 1 >= e.start /\ i <= e.start + e.size
<1>1. e \in PartEntries /\ e.start + e.size <= size
  BY DEF EntryIn
<1>2. e.start \in Nat /\ e.size \in Nat /\ 0 < e.size
  BY <1>1, Bounds DEF PartEntries
<1>3. e.part_num \in PartNums /\ e.is_copy \in BOOLEAN /\ e.cell \in 1..MaxCells
  BY <1>1 DEF PartEntries
<1>4. \A i \in Span(e) : i \in Nat /\ 0 < i /\ i - 1 >= e.start /\ i <= e.start + e.size
  BY <1>2 DEF Span
<1> QED BY <1>1, <1>2, <1>3, <1>4

LEMMA EntryGrows ==
    ASSUME NEW size \in Nat, NEW size2 \in Nat, size <= size2
    PROVE  /\ \A e : EntryIn(e, size) => EntryIn(e, size2)
           /\ \A j : JobIn(j, size) => JobIn(j, size2)
<1>1. ASSUME NEW e, EntryIn(e, size)
      PROVE  EntryIn(e, size2)
  <2>1. e.start + e.size <= size2
    BY <1>1, EntryFacts
  <2> QED BY <1>1, <2>1 DEF EntryIn
<1> QED BY <1>1 DEF JobIn

LEMMA ListsShrink ==
    ASSUME NEW I, NEW J, NEW size \in Nat, ListsOK(I, J, size), \A j \in J : j.fd \in Fds,
           NEW L, NEW K, K \subseteq J, NEW size2 \in Nat, size <= size2,
           \A fd \in Fds : InfTyped(L[fd]) /\ L[fd].upload_list \subseteq I[fd].upload_list
    PROVE  ListsOK(L, K, size2)
<1>1. InfoTyped(L, size2)
  BY EntryGrows DEF ListsOK, InfoTyped
<1>2. JobsTyped(K, size2)
  BY EntryGrows DEF ListsOK, JobsTyped
<1>3. Agree(L, K)
  BY DEF ListsOK, Agree
<1> QED BY <1>1, <1>2, <1>3 DEF ListsOK

(* No request and no entry has the cell of one of these. *)
CellsFree(E, I, J) ==
    /\ \A e \in E : \A j \in J : j.entry.cell # e.cell
    /\ \A e \in E : \A g \in Fds : \A x \in I[g].upload_list : x.cell # e.cell
    /\ \A e, f \in E : e.cell = f.cell => e = f

EntriesIn(E, size) == \A e \in E : EntryIn(e, size)

JobFds(J) == \A j \in J : j.fd \in Fds

(* The lists of one descriptor get some of the entries E. *)
ListsGrow(I, L, fd, E) ==
    /\ \A g \in Fds : InfTyped(L[g])
    /\ \A g \in Fds : g # fd => L[g].upload_list = I[g].upload_list
    /\ L[fd].upload_list \subseteq I[fd].upload_list \cup E

LEMMA ListsAdd ==
    ASSUME NEW I, NEW J, NEW size, ListsOK(I, J, size), JobFds(J),
           NEW fd \in Fds, NEW id, NEW E, NEW L,
           EntriesIn(E, size),
           CellsFree(E, I, J),
           ListsGrow(I, L, fd, E)
    PROVE  ListsOK(L, J \cup Requests(fd, id, E), size)
<1>0. \A r \in Requests(fd, id, E) : r.fd = fd /\ r.entry \in E /\ r.step = "queued"
  BY DEF Requests
<1>00. /\ \A e \in E : \A j \in J : j.entry.cell # e.cell
       /\ \A e \in E : \A g \in Fds : \A x \in I[g].upload_list : x.cell # e.cell
       /\ \A e, f \in E : e.cell = f.cell => e = f
  BY DEF CellsFree
<1>01. /\ \A g \in Fds : InfTyped(L[g])
       /\ \A g \in Fds : g # fd => L[g].upload_list = I[g].upload_list
       /\ L[fd].upload_list \subseteq I[fd].upload_list \cup E
  BY DEF ListsGrow
<1>02. (\A e \in E : EntryIn(e, size)) /\ \A j \in J : j.fd \in Fds
  BY DEF EntriesIn, JobFds
<1>1. InfoTyped(L, size)
  <2> SUFFICES ASSUME NEW g \in Fds, NEW e \in L[g].upload_list PROVE EntryIn(e, size)
    BY <1>01 DEF InfoTyped
  <2>1. CASE g = fd
    BY <1>01, <1>02, <2>1 DEF ListsOK, InfoTyped
  <2>2. CASE g # fd
    BY <1>01, <2>2 DEF ListsOK, InfoTyped
  <2> QED BY <2>1, <2>2
<1>2. JobsTyped(J \cup Requests(fd, id, E), size)
  <2>1. \A r \in Requests(fd, id, E) : JobIn(r, size)
    BY <1>0, <1>02 DEF JobIn, Begun
  <2> QED BY <2>1 DEF ListsOK, JobsTyped
<1>3. Agree(L, J \cup Requests(fd, id, E))
  <2>1. ASSUME NEW j \in J, NEW e \in L[j.fd].upload_list, e.cell = j.entry.cell
        PROVE  SamePart(e, j.entry)
    <3>1. e \in I[j.fd].upload_list
      BY <1>00, <1>01, <1>02, <2>1
    <3> QED BY <2>1, <3>1 DEF ListsOK, Agree
  <2>2. ASSUME NEW r \in Requests(fd, id, E), NEW e \in L[r.fd].upload_list, e.cell = r.entry.cell
        PROVE  SamePart(e, r.entry)
    <3>1. e = r.entry
      BY <1>0, <1>00, <1>01, <2>2
    <3> QED BY <3>1 DEF SamePart
  <2> QED BY <2>1, <2>2 DEF Agree
<1> QED BY <1>1, <1>2, <1>3 DEF ListsOK

LEMMA ListsAdvance ==
    ASSUME NEW I, NEW J, NEW size, ListsOK(I, J, size), NEW j \in J, NEW k, JobIn(k, size),
           k.fd = j.fd, k.entry = j.entry
    PROVE  ListsOK(I, (J \ {j}) \cup {k}, size)
<1>1. JobsTyped((J \ {j}) \cup {k}, size)
  BY DEF ListsOK, JobsTyped
<1>2. Agree(I, (J \ {j}) \cup {k})
  BY DEF ListsOK, Agree
<1> QED BY <1>1, <1>2 DEF ListsOK

(* The entries whose ETag is set, and the others. *)
FromEntry(f, e, cell, etag) ==
    /\ f.start = e.start /\ f.size = e.size /\ f.part_num = e.part_num
    /\ f.is_copy = e.is_copy /\ f.cell = e.cell
    /\ f = IF e.cell = cell THEN [e EXCEPT !.etag = etag] ELSE e
    /\ f.etag = IF e.cell = cell THEN etag ELSE e.etag

LEMMA WithEtagIs ==
    ASSUME NEW E, \A e \in E : DOMAIN e = EntryFields, NEW cell, NEW etag
    PROVE  /\ \A f \in WithEtag(E, cell, etag) : \E e \in E : FromEntry(f, e, cell, etag)
           /\ \A e \in E : \E f \in WithEtag(E, cell, etag) : FromEntry(f, e, cell, etag)
<1> DEFINE New(e) == IF e.cell = cell THEN [e EXCEPT !.etag = etag] ELSE e
<1>1. \A f \in WithEtag(E, cell, etag) : \E e \in E : f = New(e)
  BY DEF WithEtag
<1>2. \A e \in E : New(e) \in WithEtag(E, cell, etag)
  BY DEF WithEtag
<1>3. \A e \in E : FromEntry(New(e), e, cell, etag)
  BY DEF FromEntry, EntryFields
<1> HIDE DEF New
<1> QED BY <1>1, <1>2, <1>3

LEMMA DatumSeq ==
    ASSUME NEW n \in Nat
    PROVE  Datum(n) \subseteq Seq(Vals)
BY SeqDef, Zenon DEF Datum

LEMMA EntryEtag ==
    ASSUME NEW e, NEW size, EntryIn(e, size), NEW etag \in Datum(e.size)
    PROVE  EntryIn([e EXCEPT !.etag = etag], size)
<1> PICK f : f = [e EXCEPT !.etag = etag]
  OBVIOUS
<1>1. e \in PartEntries /\ e.start + e.size <= size
  BY DEF EntryIn
<1>2. etag \in Seq(Zero..MaxWrites)
  BY EntryFacts, DatumSeq DEF Vals
<1>3. f \in PartEntries
  BY <1>1, <1>2 DEF PartEntries
<1>4. f.start = e.start /\ f.size = e.size /\ f.etag = etag
  BY <1>1 DEF PartEntries
<1> QED BY <1>1, <1>3, <1>4 DEF EntryIn

LEMMA ListsFinish ==
    ASSUME NEW I, NEW J, NEW size, ListsOK(I, J, size), NEW j \in J, j.step = "stored", j.fd \in Fds,
           \A fd \in Fds : \A e \in I[fd].upload_list : DOMAIN e = EntryFields,
           NEW L, \A fd \in Fds : InfTyped(L[fd]),
           \A g \in Fds : g # j.fd => L[g].upload_list = I[g].upload_list,
           L[j.fd].upload_list = WithEtag(I[j.fd].upload_list, j.entry.cell, j.body),
           NEW K, K \subseteq J, \A k \in J : k.fd \in Fds
    PROVE  ListsOK(L, K, size)
<1>0. JobIn(j, size) /\ j.body \in Datum(j.entry.size)
  BY DEF ListsOK, JobsTyped, JobIn, Begun
<1>1. ASSUME NEW f \in L[j.fd].upload_list
      PROVE  EntryIn(f, size) /\ \E e \in I[j.fd].upload_list : SamePart(f, e) /\ f.cell = e.cell
  <2>0. f \in WithEtag(I[j.fd].upload_list, j.entry.cell, j.body)
    BY <1>1
  <2> PICK e \in I[j.fd].upload_list : FromEntry(f, e, j.entry.cell, j.body)
    BY <2>0, WithEtagIs
  <2>00. /\ f.start = e.start /\ f.size = e.size /\ f.is_copy = e.is_copy /\ f.cell = e.cell
         /\ f = IF e.cell = j.entry.cell THEN [e EXCEPT !.etag = j.body] ELSE e
    BY DEF FromEntry
  <2>1. EntryIn(e, size)
    BY DEF ListsOK, InfoTyped
  <2>2. e.cell = j.entry.cell => e.size = j.entry.size
    BY DEF ListsOK, Agree, SamePart
  <2>3. EntryIn(f, size)
    BY <1>0, <2>00, <2>1, <2>2, EntryEtag
  <2> QED BY <2>00, <2>3 DEF SamePart
<1>2. InfoTyped(L, size)
  BY <1>1 DEF ListsOK, InfoTyped
<1>3. Agree(L, K)
  <2> SUFFICES ASSUME NEW k \in K, NEW f \in L[k.fd].upload_list, f.cell = k.entry.cell
               PROVE  SamePart(f, k.entry)
    BY DEF Agree
  <2>1. \E e \in I[k.fd].upload_list : SamePart(f, e) /\ f.cell = e.cell
    BY <1>1 DEF SamePart
  <2> QED BY <2>1 DEF ListsOK, Agree, SamePart
<1> QED BY <1>2, <1>3 DEF ListsOK, JobsTyped
-----------------------------------------------------------------------------
(***************************************************************************)
(* Steps that leave the file, the areas and the lists as they are.         *)
(***************************************************************************)
SameDue ==
    /\ due' \in {"nothing", "flush", "punch"} /\ (due' = "punch" => due = "punch")
    /\ outcome' \in {"none", "ok", "error"}

SameLists ==
    \A fd \in Fds : /\ InfTyped(info'[fd]) /\ info'[fd].upload_list = info[fd].upload_list
                    /\ info'[fd].upload_id = info[fd].upload_id
                    /\ info'[fd].state = "open" => info[fd].state = "open" \/ OpenFds # {}

SameFile == UNCHANGED <<object, view, local, status, size_orgmeta, untreated_list>>

Quiet == SameFile /\ SameLists /\ SameDue /\ jobs' \subseteq jobs

LEMMA InfIsTyped ==
    ASSUME TypeInv, NEW fd \in Fds
    PROVE  InfTyped(info[fd]) /\ \A e \in info[fd].upload_list : EntryIn(e, Size)
BY DEF TypeInv, ListsOK, InfoTyped

LEMMA InvFacts ==
    ASSUME UploadInv, TypeInv
    PROVE  /\ Size \in Nat /\ Size <= MaxSize /\ DOMAIN info = Fds
           /\ \A fd \in Fds : InfOK(info[fd]) /\ DOMAIN info[fd] = InfFields
           /\ \A fd \in Fds : \A e \in info[fd].upload_list : DOMAIN e = EntryFields
           /\ \A j \in jobs : j.fd \in Fds /\ JobOK(j) /\ JobIn(j, Size)
           /\ FileTyped(local, status, size_orgmeta) /\ DataTyped(object) /\ DataTyped(view)
<1>1. FileTyped(local, status, size_orgmeta) /\ DataTyped(object) /\ DataTyped(view)
  BY DEF TypeInv, FileOK
<1>2. Size \in Nat /\ Size <= MaxSize
  BY <1>1, FileIs DEF Size
<1>3. DOMAIN info = Fds /\ \A fd \in Fds : InfOK(info[fd])
  BY DEF UploadInv, Good, FdOK
<1>4. \A j \in jobs : j.fd \in Fds /\ JobOK(j) /\ JobIn(j, Size)
  BY JobFd, JobInfo DEF TypeInv, ListsOK, JobsTyped
<1>5. \A fd \in Fds : DOMAIN info[fd] = InfFields
  BY <1>3 DEF InfOK
<1>6. \A fd \in Fds : \A e \in info[fd].upload_list : DOMAIN e = EntryFields
  BY <1>3 DEF InfOK, EntryOK
<1> QED BY <1>1, <1>2, <1>3, <1>4, <1>5, <1>6

LEMMA OpenSame ==
    ASSUME \A fd \in Fds : info'[fd].state = "open" => info[fd].state = "open" \/ OpenFds # {}
    PROVE  OpenFds' # {} => OpenFds # {}
BY DEF OpenFds

LEMMA FileSame ==
    ASSUME FileOK, UNCHANGED <<object, view, local, status, size_orgmeta>>, SameDue,
           OpenFds' # {} => OpenFds # {}
    PROVE  FileOK'
BY DEF FileOK, SameDue, Size

LEMMA ListsSame ==
    ASSUME UploadInv, TypeInv, jobs' \subseteq jobs, Size' \in Nat, Size <= Size',
           \A fd \in Fds : InfTyped(info'[fd]) /\ info'[fd].upload_list \subseteq info[fd].upload_list
    PROVE  ListsOK(info, jobs, Size)'
<1>1. ListsOK(info, jobs, Size) /\ Size \in Nat /\ \A j \in jobs : j.fd \in Fds
  BY InvFacts DEF TypeInv
<1>2. ListsOK(info', jobs', Size')
  BY <1>1, ListsShrink
<1> QED BY <1>2

LEMMA QuietType ==
    ASSUME UploadInv, TypeInv, Quiet
    PROVE  TypeInv'
<1>1. Size' = Size /\ Size \in Nat
  BY InvFacts DEF Quiet, SameFile, Size
<1>2. FileOK'
  BY OpenSame, FileSame DEF Quiet, SameFile, SameLists, TypeInv
<1>3. ListsOK(info, jobs, Size)'
  BY <1>1, ListsSame DEF Quiet, SameLists
<1> QED BY <1>2, <1>3 DEF TypeInv

(* The handler goes on with what it was to do. *)
SamePlan(h, k) ==
    /\ \A fd \in Fds : Final(k, fd) <=> Final(h, fd)
    /\ Planning(k) <=> Planning(h)
    /\ Planning(h) => k.fd = h.fd /\ k.upload = h.upload /\ k.copy = h.copy
    /\ Busy(k) => Busy(h) /\ k.fd = h.fd

LEMMA QuietData ==
    ASSUME UploadInv, TypeInv, Data, Quiet, SamePlan(handler, handler'),
           Busy(handler) => handler.fd \in Fds,
           due' = "punch" => handler'.pc = "idle",
           outcome' = "ok" => outcome = "ok" \/ object = view
    PROVE  Data'
<1>0. /\ SameFile /\ SameLists /\ SameDue /\ jobs' \subseteq jobs
      /\ \A fd \in Fds : info'[fd].upload_list = info[fd].upload_list /\ info'[fd].upload_id = info[fd].upload_id
  BY DEF Quiet, SameLists
<1>1. OpenFds' # {} => /\ Kept(object, view, local, status, size_orgmeta)'
                       /\ Treated(info, handler, status, untreated_list)'
  <2> SUFFICES ASSUME OpenFds' # {}
               PROVE  /\ Kept(object, view, local, status, size_orgmeta)'
                      /\ Treated(info, handler, status, untreated_list)'
    OBVIOUS
  <2>1. Kept(object, view, local, status, size_orgmeta) /\ Treated(info, handler, status, untreated_list)
    BY <1>0, OpenSame DEF SameLists, Data
  <2>2. Kept(object, view, local, status, size_orgmeta)'
    BY <2>1, <1>0 DEF SameFile
  <2>3. Treated(info', handler', status, untreated_list)
    BY <2>1, <1>0 DEF SamePlan, Treated
  <2> QED BY <2>2, <2>3, <1>0 DEF SameFile
<1>2. (outcome = "ok" => object = view)'
  BY <1>0 DEF Data, SameFile
<1>3. Marked(status, untreated_list)'
  BY <1>0 DEF Data, SameFile
<1>4. (due = "punch" => handler.pc = "idle" /\ Clean(status) /\ NoUploads(info))'
  BY <1>0 DEF Data, SameFile, SameDue, NoUploads
<1>5. ListsData(info, handler, status)'
  <2>1. ListsData(info', handler', status)
    BY <1>0 DEF Data, ListsData, EntryData, SamePlan
  <2> QED BY <2>1, <1>0 DEF SameFile
<1>6. Right(info, jobs, handler, view, untreated_list)'
  <2>1. Right(info', jobs', handler', view, untreated_list)
    <3> SUFFICES ASSUME NEW fd \in Fds, Alone(info', fd), NEW e \in info'[fd].upload_list,
                        Final(handler', fd) \/ Settled(untreated_list, e)
                 PROVE  RightEntry(fd, e, jobs', view)
      BY DEF Right
    <3>1. Alone(info, fd) /\ e \in info[fd].upload_list
      BY <1>0 DEF Alone
    <3>2. RightEntry(fd, e, jobs, view)
      BY <3>1 DEF Data, Right, SamePlan
    <3> QED BY <3>2, <1>0 DEF RightEntry
  <2> QED BY <2>1, <1>0 DEF SameFile
<1>7. PlanData(info, handler, status, untreated_list)'
  <2>1. Planning(handler) => handler.fd \in Fds
    BY DEF Planning, Busy
  <2>2. PlanData(info', handler', status, untreated_list)
    BY <1>0, <2>1 DEF Data, PlanData, SamePlan
  <2> QED BY <2>2, <1>0 DEF SameFile
<1>8. (Busy(handler) => Alone(info, handler.fd))'
  BY <1>0 DEF Data, SamePlan, Alone
<1> QED BY <1>1, <1>2, <1>3, <1>4, <1>5, <1>6, <1>7, <1>8 DEF Data

LEMMA BusyFd ==
    ASSUME UploadInv, handler.pc # "idle"
    PROVE  handler.fd \in Fds
BY HandlerInfo

LEMMA SameHandler == ASSUME handler' = handler PROVE SamePlan(handler, handler')
BY DEF SamePlan

(* A worker posts, and its request is over. *)
LEMMA PostedLists ==
    ASSUME UploadInv, TypeInv, NEW fd \in Fds, NEW result \in {"ok", "error", "canceled"}, Posted(fd, result)
    PROVE  SameLists
<1>1. DOMAIN info = Fds /\ DOMAIN info[fd] = InfFields /\ \A g \in Fds : InfTyped(info[g])
  BY InvFacts, InfIsTyped
<1>2. \A g \in Fds : g # fd => info'[g] = info[g]
  BY <1>1 DEF Posted
<1>3. /\ info'[fd].state = info[fd].state /\ info'[fd].upload_id = info[fd].upload_id
      /\ info'[fd].upload_list = info[fd].upload_list /\ info'[fd].last_result = result
  BY <1>1 DEF Posted, InfFields
<1>4. InfTyped(info'[fd])
  BY <1>1, <1>3 DEF InfTyped
<1> QED BY <1>1, <1>2, <1>3, <1>4 DEF SameLists

LEMMA SkipFile ==
    ASSUME UploadInv, TypeInv, NEW j \in jobs, Skip(j)
    PROVE  TypeInv' /\ (Data => Data')
<1>1. j.fd \in Fds /\ InfTyped(info[j.fd])
  BY InvFacts, InfIsTyped
<1>2. SameLists
  BY <1>1, PostedLists DEF Skip, InfTyped
<1>3. Quiet /\ handler' = handler /\ due' = due /\ outcome' = outcome
  BY <1>2 DEF Skip, Quiet, SameFile, SameDue, workerUnchanged, fileVars, areaVars, ghostVars, TypeInv, FileOK
<1>4. Busy(handler) => handler.fd \in Fds
  BY BusyFd DEF Busy
<1>5. Data => (due' = "punch" => handler'.pc = "idle")
  BY <1>3 DEF Data
<1> QED BY <1>3, <1>4, <1>5, SameHandler, QuietType, QuietData

LEMMA FailFile ==
    ASSUME UploadInv, TypeInv, NEW j \in jobs, Fail(j)
    PROVE  TypeInv' /\ (Data => Data')
<1>1. j.fd \in Fds
  BY InvFacts
<1>2. SameLists
  BY <1>1, PostedLists DEF Fail
<1>3. Quiet /\ handler' = handler /\ due' = due /\ outcome' = outcome
  BY <1>2 DEF Fail, Quiet, SameFile, SameDue, workerUnchanged, fileVars, areaVars, ghostVars, TypeInv, FileOK
<1>4. Busy(handler) => handler.fd \in Fds
  BY BusyFd DEF Busy
<1>5. Data => (due' = "punch" => handler'.pc = "idle")
  BY <1>3 DEF Data
<1> QED BY <1>3, <1>4, <1>5, SameHandler, QuietType, QuietData

-----------------------------------------------------------------------------
(* The steps of handlers that only wait, return or give up. *)
Keeps == TypeInv' /\ (Data /\ excuses = {} /\ excuses' = {} => Data')

LEMMA QuietKeeps ==
    ASSUME UploadInv, TypeInv, Quiet, SamePlan(handler, handler'),
           due' = "punch" => handler'.pc = "idle" \/ (due = "punch" /\ handler'.pc = handler.pc),
           outcome' = "ok" => outcome = "ok" \/ (Data => object = view)
    PROVE  Keeps
<1>1. Busy(handler) => handler.fd \in Fds
  BY BusyFd DEF Busy
<1>2. Data => (due' = "punch" => handler'.pc = "idle")
  BY DEF Data
<1> QED BY <1>1, <1>2, QuietType, QuietData DEF Keeps

LEMMA ErrorExcused ==
    ASSUME NEW forced, ReturnError(forced)
    PROVE  excuses' # {} /\ outcome' = "error" /\ (due' = due \/ due' = "nothing") /\ handler' = NoHandler
BY DEF ReturnError, Return

LEMMA DueTyped ==
    ASSUME TypeInv, outcome' \in {"none", "ok", "error"}, due' = due \/ due' = "nothing"
    PROVE  SameDue
BY DEF TypeInv, FileOK, SameDue

LEMMA WaitAcquireFile ==
    ASSUME UploadInv, TypeInv, WaitAcquire
    PROVE  Keeps
<1> PICK fd \in Fds : fd = handler.fd
  BY BusyFd DEF WaitAcquire, Waiting
<1>1. DOMAIN info = Fds /\ DOMAIN info[fd] = InfFields /\ \A g \in Fds : InfTyped(info[g])
  BY InvFacts, InfIsTyped
<1>2. \A g \in Fds : g # fd => info'[g] = info[g]
  BY <1>1 DEF WaitAcquire
<1>3. /\ info'[fd].state = info[fd].state /\ info'[fd].upload_id = info[fd].upload_id
      /\ info'[fd].upload_list = info[fd].upload_list /\ info'[fd].last_result = info[fd].last_result
  BY <1>1 DEF WaitAcquire, InfFields
<1>4. SameLists
  BY <1>1, <1>2, <1>3 DEF SameLists, InfTyped
<1>5. SameFile /\ jobs' = jobs /\ handler' = handler /\ due' = due /\ outcome' = outcome
  BY DEF WaitAcquire, SameFile, fileVars, areaVars, ghostVars
<1>6. SameDue
  BY <1>5, DueTyped DEF TypeInv, FileOK
<1>7. Quiet
  BY <1>4, <1>5, <1>6 DEF Quiet
<1> QED BY <1>5, <1>7, SameHandler, QuietKeeps

LEMMA InfoSame ==
    ASSUME TypeInv, info' = info
    PROVE  SameLists
BY InfIsTyped DEF SameLists

LEMMA ErrorKeeps ==
    ASSUME UploadInv, TypeInv, NEW forced, ReturnError(forced), UNCHANGED <<info, jobs>>, SameFile
    PROVE  Keeps
<1>1. excuses' # {} /\ outcome' = "error" /\ (due' = due \/ due' = "nothing")
  BY ErrorExcused
<1>2. SameDue
  BY <1>1, DueTyped
<1>3. Quiet
  BY <1>2, InfoSame DEF Quiet
<1> QED BY <1>1, <1>3, QuietType DEF Keeps

LEMMA CancelledEndedFile ==
    ASSUME UploadInv, TypeInv, CancelledEnded
    PROVE  Keeps
<1>1. SameFile /\ UNCHANGED <<info, jobs>> /\ handler.pc = "wait_cancelled" /\ DOMAIN handler = HandlerFields
  BY HandlerInfo DEF CancelledEnded, SameFile, fileVars, areaVars, WaitDone
<1>2. CASE handler' = [handler EXCEPT !.pc = "start"] /\ UNCHANGED <<due, ghostVars>>
  <2>1. due' = due /\ outcome' = outcome
    BY <1>2 DEF ghostVars
  <2>2. Quiet
    BY <1>1, <2>1, InfoSame, DueTyped DEF Quiet, TypeInv, FileOK
  <2>3. handler'.pc = "start" /\ handler'.fd = handler.fd /\ handler'.upload = handler.upload /\ handler'.copy = handler.copy
    BY <1>1, <1>2 DEF HandlerFields
  <2>4. SamePlan(handler, handler')
    BY <1>1, <2>3 DEF SamePlan, Final, Planning, Busy
  <2>5. Data => due # "punch"
    BY <1>1 DEF Data
  <2>6. due' = "punch" => (Data => Data')
    BY <2>1, <2>5
  <2>7. due' # "punch" => Keeps
    BY <2>1, <2>2, <2>4, QuietKeeps
  <2>8. TypeInv'
    BY <2>2, QuietType
  <2> QED BY <2>6, <2>7, <2>8 DEF Keeps
<1>3. CASE ReturnError(handler.forced)
  BY <1>1, <1>3, ErrorKeeps
<1> QED BY <1>2, <1>3 DEF CancelledEnded

(* The descriptor is reset; what it was to upload is forgotten. *)
LEMMA ResetFields ==
    ASSUME NEW inf, DOMAIN inf = InfFields, InfTyped(inf)
    PROVE  /\ InfTyped(ResetUploadInfo(inf)) /\ ResetUploadInfo(inf).upload_list = {}
           /\ ResetUploadInfo(inf).upload_id = 0 /\ ResetUploadInfo(inf).state = inf.state
           /\ DOMAIN ResetUploadInfo(inf) = InfFields
<1> PICK new : new = ResetUploadInfo(inf)
  OBVIOUS
<1>1. /\ new.upload_list = {} /\ new.upload_id = 0 /\ new.state = inf.state /\ new.last_result = "ok"
      /\ DOMAIN new = InfFields
  BY DEF ResetUploadInfo, InfFields
<1>2. InfTyped(new)
  BY <1>1 DEF InfTyped
<1> QED BY <1>1, <1>2

LEMMA ResetLists ==
    ASSUME UploadInv, TypeInv, NEW fd \in Fds, NEW new, info' = [info EXCEPT ![fd] = new],
           InfTyped(new), new.upload_list = {}, new.state = "open" => info[fd].state = "open"
    PROVE  /\ \A g \in Fds : InfTyped(info'[g]) /\ info'[g].upload_list \subseteq info[g].upload_list
           /\ \A g \in Fds : info'[g].state = "open" => info[g].state = "open"
           /\ info'[fd] = new /\ \A g \in Fds : g # fd => info'[g] = info[g]
<1>1. DOMAIN info = Fds /\ \A g \in Fds : InfTyped(info[g])
  BY InvFacts, InfIsTyped
<1>2. info'[fd] = new /\ \A g \in Fds : g # fd => info'[g] = info[g]
  BY <1>1
<1> QED BY <1>1, <1>2

LEMMA GiveUpFile ==
    ASSUME UploadInv, TypeInv, handler.pc # "idle", GiveUp,
           UNCHANGED <<object, view, local, status, size_orgmeta, jobs>>
    PROVE  Keeps
<1> PICK fd \in Fds : fd = handler.fd
  BY BusyFd
<1> PICK new : new = ResetUploadInfo(info[fd])
  OBVIOUS
<1>1. excuses' # {} /\ outcome' = "error" /\ (due' = due \/ due' = "nothing")
  BY ErrorExcused DEF GiveUp
<1>2. SameDue
  BY <1>1, DueTyped
<1>3. DOMAIN info = Fds
  BY InvFacts
<1>4. info' = [info EXCEPT ![fd] = new]
  BY <1>3 DEF GiveUp
<1>5. InfTyped(new) /\ new.upload_list = {} /\ new.state = info[fd].state
  BY ResetFields, InvFacts, InfIsTyped
<1>6. /\ \A g \in Fds : InfTyped(info'[g]) /\ info'[g].upload_list \subseteq info[g].upload_list
      /\ \A g \in Fds : info'[g].state = "open" => info[g].state = "open"
  BY <1>4, <1>5, ResetLists
<1>7. Size' = Size /\ Size \in Nat
  BY InvFacts DEF Size
<1>8. FileOK'
  BY <1>2, <1>6, OpenSame, FileSame DEF TypeInv
<1>9. ListsOK(info, jobs, Size)'
  BY <1>6, <1>7, ListsSame
<1> QED BY <1>1, <1>8, <1>9 DEF Keeps, TypeInv

LEMMA AllEndedFile ==
    ASSUME UploadInv, TypeInv, AllEnded
    PROVE  Keeps
<1>1. /\ UNCHANGED <<object, view, local, status, size_orgmeta, jobs>>
      /\ handler.pc = "wait_all" /\ DOMAIN handler = HandlerFields
  BY HandlerInfo DEF AllEnded, fileVars, WaitDone
<1>2. CASE handler' = [handler EXCEPT !.pc = "complete"] /\ UNCHANGED <<untreated_list, info, parts, due, ghostVars>>
  <2>1. due' = due /\ outcome' = outcome
    BY <1>2 DEF ghostVars
  <2>2. Quiet
    BY <1>1, <1>2, <2>1, InfoSame, DueTyped DEF Quiet, SameFile, TypeInv, FileOK
  <2>3. handler'.pc = "complete" /\ handler'.fd = handler.fd
    BY <1>1, <1>2 DEF HandlerFields
  <2>4. SamePlan(handler, handler')
    BY <1>1, <2>3 DEF SamePlan, Final, Planning, Busy
  <2>5. Data => due # "punch"
    BY <1>1 DEF Data
  <2>6. due' = "punch" => (Data => Data')
    BY <2>1, <2>5
  <2>7. due' # "punch" => Keeps
    BY <2>1, <2>2, <2>4, QuietKeeps
  <2>8. TypeInv'
    BY <2>2, QuietType
  <2> QED BY <2>6, <2>7, <2>8 DEF Keeps
<1>3. CASE GiveUp
  BY <1>1, <1>3, GiveUpFile
<1> QED BY <1>2, <1>3 DEF AllEnded

LEMMA CloseBeginFile ==
    ASSUME UploadInv, TypeInv, NEW fd \in Fds, CloseBegin(fd)
    PROVE  Keeps
<1>1. SameFile /\ jobs' = jobs /\ due' = due /\ due = "nothing" /\ outcome' = outcome /\ handler.pc = "idle"
  BY DEF CloseBegin, SameFile, fileVars, areaVars, ghostVars, Idle
<1>2. DOMAIN info = Fds /\ DOMAIN info[fd] = InfFields /\ \A g \in Fds : InfTyped(info[g])
  BY InvFacts, InfIsTyped
<1>4. SameLists
  <2>1. CASE info' = info
    BY <2>1, InfoSame
  <2>2. CASE info' = [info EXCEPT ![fd].last_result = "canceled"]
    <3>1. \A g \in Fds : g # fd => info'[g] = info[g]
      BY <1>2, <2>2
    <3>2. /\ info'[fd].state = info[fd].state /\ info'[fd].upload_id = info[fd].upload_id
          /\ info'[fd].upload_list = info[fd].upload_list /\ info'[fd].last_result = "canceled"
      BY <1>2, <2>2 DEF InfFields
    <3> QED BY <1>2, <3>1, <3>2 DEF SameLists, InfTyped
  <2> QED BY <2>1, <2>2 DEF CloseBegin
<1>5. Quiet
  BY <1>1, <1>4, DueTyped DEF Quiet, TypeInv, FileOK
<1>6. handler'.pc = "cancel"
  BY DEF CloseBegin, NoHandler
<1>7. SamePlan(handler, handler')
  BY <1>1, <1>6 DEF SamePlan, Final, Planning, Busy
<1> QED BY <1>1, <1>5, <1>7, QuietKeeps

LEMMA NotModified ==
    ASSUME UploadInv, TypeInv, Data, OpenFds # {}, ~IsModified
    PROVE  object = view
<1>1. FileTyped(local, status, size_orgmeta) /\ DataTyped(object) /\ DataTyped(view)
  BY InvFacts
<1> PICK n \in Nat : n = Len(status) /\ n = Size
  BY <1>1, FileIs DEF Size
<1>2. Len(view) = n /\ Len(object) <= n /\ Len(object) \in Nat
  BY <1>1, DataIs DEF TypeInv, FileOK
<1>3. \A i \in 1..n : ~Mod(status, i)
  BY DEF IsModified, Mod, Size
<1>4. \A i \in 1..n : i <= Len(object) /\ object[i] = view[i]
  BY <1>3 DEF Data, Kept
<1>5. Len(object) = n
  <2>1. n = 0 \/ n \in 1..n
    OBVIOUS
  <2> QED BY <1>2, <1>4, <2>1
<1>6. object \in [1..n -> Vals] /\ view \in [1..n -> Vals]
  BY <1>1, <1>2, <1>5 DEF DataTyped, Datum
<1> QED BY <1>4, <1>6

LEMMA FlushNothingFile ==
    ASSUME UploadInv, TypeInv, NEW fd \in Fds, FlushNothing(fd)
    PROVE  Keeps
<1>1. SameFile /\ UNCHANGED <<info, jobs>> /\ due' = due /\ outcome' = "ok" /\ handler.pc = "idle"
      /\ handler' = NoHandler
  BY DEF FlushNothing, SameFile, fileVars, areaVars, Idle, Return
<1>2. Quiet
  BY <1>1, InfoSame, DueTyped DEF Quiet
<1>3. handler'.pc = "idle"
  BY <1>1 DEF NoHandler
<1>4. SamePlan(handler, handler')
  BY <1>1, <1>3 DEF SamePlan, Final, Planning, Busy
<1>5. OpenFds # {}
  BY DEF FlushNothing, Idle, OpenFds
<1>6. Data => object = view
  BY <1>5, NotModified DEF FlushNothing
<1> QED BY <1>1, <1>2, <1>3, <1>4, <1>6, QuietKeeps

-----------------------------------------------------------------------------
(* No descriptor has anything in its list, and no flush goes on. *)
NoLists(I) == \A fd \in Fds : I[fd].upload_list = {}

LEMMA NoListsData ==
    ASSUME NoLists(info'), handler'.pc \in {"idle", "cancel"}
    PROVE  /\ ListsData(info, handler, status)'
           /\ Right(info, jobs, handler, view, untreated_list)'
           /\ PlanData(info, handler, status, untreated_list)'
           /\ (Busy(handler) => Alone(info, handler.fd))'
<1>1. ListsData(info, handler, status)'
  BY DEF NoLists, ListsData
<1>2. Right(info, jobs, handler, view, untreated_list)'
  BY DEF NoLists, Right
<1>3. PlanData(info, handler, status, untreated_list)'
  BY DEF PlanData, Planning
<1>4. (Busy(handler) => Alone(info, handler.fd))'
  BY DEF Busy
<1> QED BY <1>1, <1>2, <1>3, <1>4

LEMMA NoUploadNoList ==
    ASSUME UploadInv, NEW fd \in Fds, info[fd].upload_id = 0 \/ info[fd].state # "open"
    PROVE  info[fd].upload_list = {} /\ info[fd].upload_id = 0
BY DEF UploadInv, Good, FdOK, InfOK

LEMMA CloseEndFile ==
    ASSUME UploadInv, TypeInv, CloseEnd
    PROVE  Keeps
<1> PICK fd \in Fds : fd = handler.fd /\ handler.pc = "cancel"
  BY BusyFd DEF CloseEnd, WaitDone
<1> PICK new : new = [ResetUploadInfo(info[fd]) EXCEPT !.state = "closed"]
  OBVIOUS
<1>1. DOMAIN info = Fds /\ DOMAIN info[fd] = InfFields /\ InfTyped(info[fd])
  BY InvFacts, InfIsTyped
<1>2. info' = [info EXCEPT ![fd] = new]
  BY <1>1 DEF CloseEnd
<1>3. InfTyped(new) /\ new.upload_list = {} /\ new.state = "closed" /\ new.upload_id = 0
  <2>1. /\ InfTyped(ResetUploadInfo(info[fd])) /\ ResetUploadInfo(info[fd]).upload_list = {}
        /\ ResetUploadInfo(info[fd]).upload_id = 0 /\ DOMAIN ResetUploadInfo(info[fd]) = InfFields
    BY <1>1, ResetFields
  <2>2. /\ new.upload_list = {} /\ new.state = "closed" /\ new.upload_id = 0
        /\ new.last_result = ResetUploadInfo(info[fd]).last_result
    BY <2>1 DEF InfFields
  <2> QED BY <2>1, <2>2 DEF InfTyped
<1>4. /\ \A g \in Fds : InfTyped(info'[g]) /\ info'[g].upload_list \subseteq info[g].upload_list
      /\ \A g \in Fds : info'[g].state = "open" => info[g].state = "open"
      /\ info'[fd] = new /\ \A g \in Fds : g # fd => info'[g] = info[g]
  BY <1>2, <1>3, ResetLists
<1>5. /\ SameFile /\ jobs' = jobs /\ due' = due /\ outcome' = outcome /\ handler'.pc = "idle"
      /\ SameDue
  BY DEF CloseEnd, SameFile, fileVars, areaVars, SameDue, TypeInv, FileOK, NoHandler
<1>6. Size' = Size /\ Size \in Nat
  BY <1>5, InvFacts DEF SameFile, Size
<1>7. TypeInv'
  <2>1. FileOK'
    BY <1>4, <1>5, OpenSame, FileSame DEF TypeInv, SameFile
  <2>2. ListsOK(info, jobs, Size)'
    BY <1>4, <1>5, <1>6, ListsSame
  <2> QED BY <2>1, <2>2 DEF TypeInv
<1>8. CASE info[fd].upload_id = 0
  <2>1. info[fd].upload_list = {}
    BY <1>8, NoUploadNoList
  <2>2. SameLists
    BY <1>3, <1>4, <1>8, <2>1 DEF SameLists
  <2>3. SamePlan(handler, handler')
    BY <1>5 DEF SamePlan, Final, Planning, Busy
  <2> QED BY <1>5, <2>2, <2>3, QuietKeeps DEF Quiet
<1>9. CASE OpenFds = {fd}
  <2>1. \A g \in Fds : g # fd => info[g].upload_list = {} /\ info[g].state # "open"
    BY <1>9, NoUploadNoList DEF OpenFds
  <2>2. NoLists(info') /\ OpenFds' = {}
    <3>1. \A g \in Fds : info'[g].upload_list = {} /\ info'[g].state # "open"
      BY <1>3, <1>4, <2>1
    <3> QED BY <3>1 DEF NoLists, OpenFds
  <2>3. Data => due # "punch"
    BY DEF Data
  <2>4. Data => Data'
    <3>1. Data => Marked(status, untreated_list)' /\ (outcome = "ok" => object = view)'
      BY <1>5 DEF Data, SameFile
    <3> QED BY <1>5, <2>2, <2>3, <3>1, NoListsData DEF Data
  <2> QED BY <1>7, <2>4 DEF Keeps
<1>10. excuses' = {} => info[fd].upload_id = 0 \/ OpenFds = {fd}
  BY DEF CloseEnd, IsUploading
<1> QED BY <1>7, <1>8, <1>9, <1>10 DEF Keeps

-----------------------------------------------------------------------------
(***************************************************************************)
(* The workers that send, store and finish a part.                         *)
(***************************************************************************)
LEMMA JobsOnly ==
    ASSUME UploadInv, TypeInv, SameFile, UNCHANGED <<info, handler, due, outcome>>, ListsOK(info, jobs', Size),
           Data => Right(info, jobs', handler, view, untreated_list)
    PROVE  Keeps
<1>1. SameDue
  BY DueTyped DEF TypeInv, FileOK
<1>2. OpenFds' = OpenFds /\ Size' = Size
  BY DEF OpenFds, SameFile, Size
<1>3. FileOK'
  BY <1>1, <1>2, FileSame DEF TypeInv, SameFile
<1>4. ListsOK(info, jobs, Size)'
  BY <1>2
<1>5. ASSUME Data PROVE Data'
  <2>1. OpenFds' # {} => /\ Kept(object, view, local, status, size_orgmeta)'
                         /\ Treated(info, handler, status, untreated_list)'
    BY <1>2, <1>5 DEF SameFile, Data
  <2>2. Right(info, jobs, handler, view, untreated_list)'
    BY <1>5 DEF SameFile
  <2>3. Marked(status, untreated_list)' /\ (outcome = "ok" => object = view)'
    BY <1>5 DEF SameFile, Data
  <2>4. (due = "punch" => handler.pc = "idle" /\ Clean(status) /\ NoUploads(info))'
    BY <1>5 DEF SameFile, Data
  <2>5. ListsData(info, handler, status)' /\ PlanData(info, handler, status, untreated_list)'
    BY <1>5 DEF SameFile, Data
  <2>6. (Busy(handler) => Alone(info, handler.fd))'
    BY <1>5 DEF Data
  <2> QED BY <2>1, <2>2, <2>3, <2>4, <2>5, <2>6 DEF Data
<1> QED BY <1>3, <1>4, <1>5 DEF Keeps, TypeInv

LEMMA SpanIs ==
    ASSUME NEW e, NEW size \in Nat, EntryIn(e, size), NEW k \in 1..e.size
    PROVE  /\ e.start + k \in Span(e) /\ e.start + k \in Nat
           /\ 0 < e.start + k /\ e.start + k <= size /\ e.start + k <= e.start + e.size
<1>1. e.start \in Nat /\ e.size \in Nat /\ e.start + e.size <= size
  BY EntryFacts
<1> PICK a \in Nat, n \in Nat : a = e.start /\ n = e.size
  BY <1>1
<1>3. k \in Nat /\ 1 <= k /\ k <= n
  OBVIOUS
<1>4. a + k \in (a + 1)..(a + n) /\ a + k \in Nat /\ 0 < a + k /\ a + k <= a + n
  BY <1>3
<1> QED BY <1>1, <1>3, <1>4 DEF Span

(* What is read of the cache file, or copied from the object, for an entry. *)
LEMMA ContentHolds ==
    ASSUME UploadInv, TypeInv, Data, NEW fd \in Fds, NEW e \in info[fd].upload_list
    PROVE  \A k \in 1..e.size :
              /\ e.is_copy => object[e.start + k] = view[e.start + k]
              /\ ~e.is_copy => local[e.start + k] = view[e.start + k]
<1>1. EntryIn(e, Size)
  BY InfIsTyped
<1>2. OpenFds # {}
  BY NoUploadNoList DEF OpenFds
<1> TAKE k \in 1..e.size
<1> PICK i \in Nat : i = e.start + k /\ i \in Span(e) /\ 0 < i /\ i <= Size
  BY <1>1, SpanIs, InvFacts
<1>3. Kept(object, view, local, status, size_orgmeta) /\ EntryData(handler, fd, e, status)
  BY <1>2 DEF Data, ListsData
<1>4. i \in 1..Len(status)
  BY InvFacts DEF Size
<1>5. (~Mod(status, i) => object[i] = view[i]) /\ (Has(status, i) => local[i] = view[i])
  BY <1>3, <1>4 DEF Kept
<1>6. IF e.is_copy THEN ~Mod(status, i) ELSE Has(status, i)
  BY <1>3 DEF EntryData
<1> QED BY <1>5, <1>6

LEMMA ContentTyped ==
    ASSUME NEW e, NEW size \in Nat, EntryIn(e, size), NEW d, NEW n \in Nat, e.start + e.size <= n,
           \A i \in 1..n : d[i] \in Vals
    PROVE  Content(d, e) \in Datum(e.size) /\ \A k \in 1..e.size : Content(d, e)[k] = d[e.start + k]
<1>0. e.start \in Nat /\ e.size \in Nat
  BY EntryFacts
<1>1. Content(d, e) = [k \in 1..e.size |-> d[e.start + k]]
  BY DEF Content
<1>2. \A k \in 1..e.size : e.start + k \in 1..n
  BY <1>0
<1>3. \A k \in 1..e.size : d[e.start + k] \in Vals
  BY <1>2
<1> QED BY <1>1, <1>3 DEF Datum

(* A request goes on with the data of its part. *)
LEMMA AdvanceFile ==
    ASSUME UploadInv, TypeInv, NEW j \in jobs, NEW k, JobIn(k, Size), k.fd = j.fd, k.entry = j.entry,
           Advance(j, k), SameFile, UNCHANGED <<info, handler, due, outcome>>,
           ASSUME Data, NEW fd \in Fds, fd = j.fd, NEW e \in info[fd].upload_list, e.cell = j.entry.cell,
                  SamePart(e, j.entry), RightEntry(fd, e, jobs, view), Begun(k)
           PROVE  Holds(k.body, e, view)
    PROVE  Keeps
<1>1. jobs' = (jobs \ {j}) \cup {k}
  BY DEF Advance
<1>2. ListsOK(info, jobs', Size)
  BY <1>1, ListsAdvance DEF TypeInv
<1>3. ASSUME Data
      PROVE  Right(info, jobs', handler, view, untreated_list)
  <2> SUFFICES ASSUME NEW fd \in Fds, Alone(info, fd), NEW e \in info[fd].upload_list,
                      Final(handler, fd) \/ Settled(untreated_list, e)
               PROVE  RightEntry(fd, e, jobs', view)
    BY DEF Right
  <2>1. RightEntry(fd, e, jobs, view)
    BY <1>3 DEF Data, Right
  <2>2. ASSUME NEW m \in jobs', m.fd = fd, m.entry.cell = e.cell, Begun(m)
        PROVE  Holds(m.body, e, view)
    <3>1. CASE m \in jobs
      BY <2>1, <2>2, <3>1 DEF RightEntry
    <3>2. CASE m = k
      <4>1. fd = j.fd /\ e.cell = j.entry.cell
        BY <2>2, <3>2
      <4>2. SamePart(e, j.entry)
        BY <4>1 DEF TypeInv, ListsOK, Agree
      <4> QED BY <1>3, <2>1, <2>2, <3>2, <4>1, <4>2
    <3> QED BY <1>1, <3>1, <3>2
  <2> QED BY <2>1, <2>2 DEF RightEntry
<1> QED BY <1>2, <1>3, JobsOnly

LEMMA WorkerSame ==
    ASSUME UNCHANGED workerUnchanged
    PROVE  SameFile /\ UNCHANGED <<handler, due, outcome>>
BY DEF workerUnchanged, SameFile, fileVars, areaVars, ghostVars

LEMMA SendFile ==
    ASSUME UploadInv, TypeInv, NEW j \in jobs, Send(j)
    PROVE  Keeps
<1> PICK k : k = [j EXCEPT !.step = "sent", !.body = IF j.entry.is_copy THEN <<>> ELSE Content(local, j.entry)]
  OBVIOUS
<1>1. /\ k.fd = j.fd /\ k.entry = j.entry /\ k.step = "sent"
      /\ k.body = IF j.entry.is_copy THEN <<>> ELSE Content(local, j.entry)
  BY InvFacts DEF JobOK, JobFields
<1>2. Advance(j, k) /\ SameFile /\ UNCHANGED <<info, handler, due, outcome>>
  BY WorkerSame DEF Send
<1>3. EntryIn(j.entry, Size) /\ Size \in Nat
  BY InvFacts DEF JobIn
<1>4. Content(local, j.entry) \in Datum(j.entry.size)
      /\ \A i \in 1..j.entry.size : Content(local, j.entry)[i] = local[j.entry.start + i]
  <2>1. j.entry.start + j.entry.size <= Size
    BY <1>3 DEF EntryIn
  <2>2. \A i \in 1..Size : local[i] \in Vals
    BY InvFacts, FileIs DEF Size
  <2> QED BY <1>3, <2>1, <2>2, ContentTyped
<1>5. JobIn(k, Size)
  BY <1>1, <1>3, <1>4 DEF JobIn, Begun
<1>6. ASSUME Data, NEW fd \in Fds, fd = j.fd, NEW e \in info[fd].upload_list, e.cell = j.entry.cell,
             SamePart(e, j.entry), RightEntry(fd, e, jobs, view), Begun(k)
      PROVE  Holds(k.body, e, view)
  <2>1. ~e.is_copy /\ e.start = j.entry.start /\ e.size = j.entry.size /\ k.body = Content(local, j.entry)
    BY <1>1, <1>6 DEF Begun, SamePart
  <2>2. \A i \in 1..e.size : local[e.start + i] = view[e.start + i]
    BY <1>6, <2>1, ContentHolds
  <2> QED BY <1>4, <2>1, <2>2 DEF Holds
<1> QED BY <1>1, <1>2, <1>5, <1>6, AdvanceFile

LEMMA BodyIs ==
    ASSUME UploadInv, TypeInv, NEW j \in jobs, j.step = "sent", CanCopy(j), NEW body \in Bodies(j)
    PROVE  /\ body \in Datum(j.entry.size)
           /\ j.entry.is_copy => \A i \in 1..j.entry.size : body[i] = object[j.entry.start + i]
           /\ ~j.entry.is_copy => /\ Begun(j)
                                  /\ \A i \in 1..j.entry.size :
                                        body[i] = local[j.entry.start + i] \/ body[i] = j.body[i]
<1>1. EntryIn(j.entry, Size) /\ Size \in Nat /\ JobIn(j, Size)
  BY InvFacts DEF JobIn
<1>2. CASE j.entry.is_copy
  <2>1. body = Content(object, j.entry)
    BY <1>2 DEF Bodies
  <2>2. \A i \in 1..Len(object) : object[i] \in Vals
    BY InvFacts, DataIs
  <2>3. Len(object) \in Nat
    BY InvFacts, DataIs
  <2>4. j.entry.start + j.entry.size <= Len(object)
    BY <1>2 DEF CanCopy
  <2> QED BY <1>1, <1>2, <2>1, <2>2, <2>3, <2>4, ContentTyped
<1>3. CASE ~j.entry.is_copy
  <2> PICK late \in SUBSET (1..j.entry.size) :
          body = [i \in 1..j.entry.size |-> IF i \in late THEN local[j.entry.start + i] ELSE j.body[i]]
    BY <1>3 DEF Bodies
  <2>1. Begun(j) /\ j.body \in Datum(j.entry.size)
    BY <1>1, <1>3 DEF JobIn, Begun
  <2>2. \A i \in 1..j.entry.size : j.body[i] \in Vals
    BY <2>1 DEF Datum
  <2>3. \A i \in 1..j.entry.size : local[j.entry.start + i] \in Vals
    <3> TAKE i \in 1..j.entry.size
    <3>1. j.entry.start + i \in 1..Size
      BY <1>1, SpanIs
    <3> QED BY <3>1, InvFacts, FileIs DEF Size
  <2>4. body \in Datum(j.entry.size)
    BY <2>2, <2>3 DEF Datum
  <2> QED BY <1>3, <2>1, <2>4
<1> QED BY <1>2, <1>3

LEMMA ArriveFile ==
    ASSUME UploadInv, TypeInv, NEW j \in jobs, Arrive(j)
    PROVE  Keeps
<1> PICK body \in Bodies(j) : Advance(j, [j EXCEPT !.step = "stored", !.body = body])
  BY DEF Arrive
<1> PICK k : k = [j EXCEPT !.step = "stored", !.body = body]
  OBVIOUS
<1>1. k.fd = j.fd /\ k.entry = j.entry /\ k.step = "stored" /\ k.body = body
  BY InvFacts DEF JobOK, JobFields
<1>2. Advance(j, k) /\ SameFile /\ UNCHANGED <<info, handler, due, outcome>>
  BY WorkerSame DEF Arrive
<1>3. j.step = "sent" /\ CanCopy(j)
  BY DEF Arrive
<1>4. JobIn(k, Size)
  BY <1>1, <1>3, BodyIs, InvFacts DEF JobIn
<1>6. ASSUME Data, NEW fd \in Fds, fd = j.fd, NEW e \in info[fd].upload_list, e.cell = j.entry.cell,
             SamePart(e, j.entry), RightEntry(fd, e, jobs, view), Begun(k)
      PROVE  Holds(k.body, e, view)
  <2>1. e.is_copy = j.entry.is_copy /\ e.start = j.entry.start /\ e.size = j.entry.size
    BY <1>6 DEF SamePart
  <2>2. \A i \in 1..e.size : /\ e.is_copy => object[e.start + i] = view[e.start + i]
                             /\ ~e.is_copy => local[e.start + i] = view[e.start + i]
    BY <1>6, ContentHolds
  <2>3. CASE e.is_copy
    <3>1. j.entry.is_copy => \A i \in 1..j.entry.size : body[i] = object[j.entry.start + i]
      BY <1>3, BodyIs
    <3> QED BY <1>1, <2>1, <2>2, <2>3, <3>1 DEF Holds
  <2>4. CASE ~e.is_copy
    <3>1. Begun(j) /\ \A i \in 1..e.size : body[i] = local[e.start + i] \/ body[i] = j.body[i]
      BY <1>3, <2>1, <2>4, BodyIs
    <3>2. Holds(j.body, e, view)
      BY <1>6, <3>1 DEF RightEntry
    <3> QED BY <1>1, <2>2, <2>4, <3>1, <3>2 DEF Holds
  <2> QED BY <2>3, <2>4
<1> QED BY <1>1, <1>2, <1>4, <1>6, AdvanceFile

(* The lists with an ETag set, part by part. *)
SameParts(E, F) ==
    /\ \A e \in E : \E f \in F : e.start = f.start /\ e.size = f.size /\ e.is_copy = f.is_copy
    /\ \A f \in F : \E e \in E : e.start = f.start /\ e.size = f.size /\ e.is_copy = f.is_copy

LEMMA SpanSame ==
    ASSUME NEW e, NEW f, e.start = f.start, e.size = f.size
    PROVE  Span(e) = Span(f) /\ (\A list : Settled(list, e) <=> Settled(list, f))
           /\ \A d, vw : Holds(d, e, vw) <=> Holds(d, f, vw)
BY DEF Span, Settled, Holds

LEMMA PartsSameData ==
    ASSUME \A fd \in Fds : SameParts(info[fd].upload_list, info'[fd].upload_list),
           \A fd \in Fds : info'[fd].upload_id = info[fd].upload_id /\ info'[fd].state = info[fd].state,
           SameFile, UNCHANGED <<handler, due, outcome>>, Data, Busy(handler) => handler.fd \in Fds,
           Right(info', jobs', handler, view, untreated_list)
    PROVE  Data'
<1>0. OpenFds' = OpenFds
  BY DEF OpenFds
<1>1. OpenFds # {} => Treated(info', handler, status, untreated_list)
  <2> SUFFICES ASSUME OpenFds # {}, NEW i \in 1..Len(status), Mod(status, i), ~Untreated(untreated_list, i),
                      ~(Planning(handler) /\ \E p \in handler.upload : i \in Span(p))
               PROVE  \E fd \in Fds : \E e \in info'[fd].upload_list : i \in Span(e)
    BY DEF Treated
  <2>1. PICK fd \in Fds : \E e \in info[fd].upload_list : i \in Span(e)
    BY DEF Data, Treated
  <2>2. PICK e \in info[fd].upload_list : i \in Span(e)
    BY <2>1
  <2>3. PICK f \in info'[fd].upload_list : e.start = f.start /\ e.size = f.size
    BY DEF SameParts
  <2> QED BY <2>2, <2>3, SpanSame
<1>2. OpenFds' # {} => /\ Kept(object, view, local, status, size_orgmeta)'
                       /\ Treated(info, handler, status, untreated_list)'
  BY <1>0, <1>1 DEF SameFile, Data
<1>3. ListsData(info', handler, status)
  <2> SUFFICES ASSUME NEW fd \in Fds, NEW f \in info'[fd].upload_list
               PROVE  EntryData(handler, fd, f, status)
    BY DEF ListsData
  <2>1. PICK e \in info[fd].upload_list : e.start = f.start /\ e.size = f.size /\ e.is_copy = f.is_copy
    BY DEF SameParts
  <2>2. EntryData(handler, fd, e, status)
    BY DEF Data, ListsData
  <2> QED BY <2>1, <2>2, SpanSame DEF EntryData
<1>4. PlanData(info', handler, status, untreated_list)
  <2> SUFFICES ASSUME Planning(handler)
               PROVE  \A f \in info'[handler.fd].upload_list : Settled(untreated_list, f)
    BY DEF Data, PlanData
  <2> PICK fd \in Fds : fd = handler.fd
    BY DEF Planning, Busy
  <2> SUFFICES ASSUME NEW f \in info'[fd].upload_list
               PROVE  Settled(untreated_list, f)
    OBVIOUS
  <2>1. PICK e \in info[fd].upload_list : e.start = f.start /\ e.size = f.size
    BY DEF SameParts
  <2>2. Settled(untreated_list, e)
    BY DEF Data, PlanData
  <2> QED BY <2>1, <2>2, SpanSame
<1>5. (Busy(handler) => Alone(info, handler.fd))'
  BY DEF Data, Alone
<1>6. (due = "punch" => handler.pc = "idle" /\ Clean(status) /\ NoUploads(info))'
  BY DEF Data, SameFile, NoUploads
<1>7. Marked(status, untreated_list)' /\ (outcome = "ok" => object = view)'
  BY DEF Data, SameFile
<1>8. /\ ListsData(info, handler, status)' /\ PlanData(info, handler, status, untreated_list)'
      /\ Right(info, jobs, handler, view, untreated_list)'
  BY <1>3, <1>4 DEF SameFile
<1> QED BY <1>2, <1>5, <1>6, <1>7, <1>8 DEF Data

LEMMA FinishFile ==
    ASSUME UploadInv, TypeInv, NEW j \in jobs, Finish(j)
    PROVE  Keeps
<1> PICK fd \in Fds : fd = j.fd
  BY InvFacts
<1>1. DOMAIN info = Fds /\ DOMAIN info[fd] = InfFields /\ \A g \in Fds : InfTyped(info[g])
  BY InvFacts, InfIsTyped
<1>2. \A g \in Fds : g # fd => info'[g] = info[g]
  BY <1>1 DEF Finish
<1>3. /\ info'[fd].state = info[fd].state /\ info'[fd].upload_id = info[fd].upload_id
      /\ info'[fd].upload_list = WithEtag(info[fd].upload_list, j.entry.cell, j.body)
      /\ info'[fd].last_result = "ok"
  BY <1>1 DEF Finish, InfFields
<1>4. \A g \in Fds : InfTyped(info'[g])
  BY <1>1, <1>2, <1>3 DEF InfTyped
<1>5. j.step = "stored" /\ jobs' = jobs \ {j} /\ SameFile /\ UNCHANGED <<handler, due, outcome>>
  BY WorkerSame DEF Finish
<1>6. ListsOK(info', jobs', Size)
  <2>1. ListsOK(info, jobs, Size) /\ \A k \in jobs : k.fd \in Fds
    BY InvFacts DEF TypeInv
  <2>2. \A g \in Fds : \A e \in info[g].upload_list : DOMAIN e = EntryFields
    BY InvFacts
  <2>3. jobs' \subseteq jobs
    BY <1>5
  <2> QED BY <1>2, <1>3, <1>4, <1>5, <2>1, <2>2, <2>3, ListsFinish
<1>7. TypeInv'
  <2>1. Size' = Size
    BY <1>5 DEF SameFile, Size
  <2>2. OpenFds' = OpenFds
    BY <1>2, <1>3 DEF OpenFds
  <2>3. SameDue
    BY <1>5, DueTyped DEF TypeInv, FileOK
  <2>4. FileOK'
    BY <1>5, <2>2, <2>3, FileSame DEF TypeInv, SameFile
  <2> QED BY <1>6, <2>1, <2>4 DEF TypeInv
<1>7a. /\ \A f \in info'[fd].upload_list : \E e \in info[fd].upload_list : FromEntry(f, e, j.entry.cell, j.body)
       /\ \A e \in info[fd].upload_list : \E f \in info'[fd].upload_list : FromEntry(f, e, j.entry.cell, j.body)
  <2>1. \A e \in info[fd].upload_list : DOMAIN e = EntryFields
    BY InvFacts
  <2> QED BY <1>3, <2>1, WithEtagIs
<1>8. \A f \in info'[fd].upload_list : \E e \in info[fd].upload_list :
         /\ e.start = f.start /\ e.size = f.size /\ e.is_copy = f.is_copy /\ e.cell = f.cell
         /\ f.etag = IF e.cell = j.entry.cell THEN j.body ELSE e.etag
  BY <1>7a DEF FromEntry
<1>9. \A e \in info[fd].upload_list : \E f \in info'[fd].upload_list :
         e.start = f.start /\ e.size = f.size /\ e.is_copy = f.is_copy
  BY <1>7a DEF FromEntry
<1>10. \A g \in Fds : SameParts(info[g].upload_list, info'[g].upload_list)
  <2> TAKE g \in Fds
  <2>1. CASE g = fd
    BY <1>8, <1>9, <2>1 DEF SameParts
  <2>2. CASE g # fd
    BY <1>2, <2>2 DEF SameParts
  <2> QED BY <2>1, <2>2
<1>11. ASSUME Data
       PROVE  Right(info', jobs', handler, view, untreated_list)
  <2> SUFFICES ASSUME NEW g \in Fds, Alone(info', g), NEW f \in info'[g].upload_list,
                      Final(handler, g) \/ Settled(untreated_list, f)
               PROVE  RightEntry(g, f, jobs', view)
    BY DEF Right
  <2>1. Alone(info, g)
    BY <1>2, <1>3 DEF Alone
  <2>2. CASE g # fd
    <3>1. f \in info[g].upload_list
      BY <1>2, <2>2
    <3>2. RightEntry(g, f, jobs, view)
      BY <1>11, <2>1, <3>1 DEF Data, Right
    <3> QED BY <1>5, <3>2 DEF RightEntry
  <2>3. CASE g = fd
    <3>1. PICK e \in info[fd].upload_list :
               /\ e.start = f.start /\ e.size = f.size /\ e.cell = f.cell
               /\ f.etag = IF e.cell = j.entry.cell THEN j.body ELSE e.etag
      BY <1>8, <2>3
    <3>2. Final(handler, fd) \/ Settled(untreated_list, e)
      BY <2>3, <3>1, SpanSame
    <3>3. RightEntry(fd, e, jobs, view)
      BY <1>11, <2>1, <2>3, <3>2 DEF Data, Right
    <3>4. f.etag # NoEtag => Holds(f.etag, e, view)
      BY <1>5, <3>1, <3>3 DEF RightEntry, Begun
    <3>5. \A k \in jobs' : k.fd = fd /\ k.entry.cell = f.cell /\ Begun(k) => Holds(k.body, e, view)
      BY <1>5, <3>1, <3>3 DEF RightEntry
    <3>6. \A d : Holds(d, e, view) <=> Holds(d, f, view)
      BY <3>1, SpanSame
    <3> QED BY <2>3, <3>4, <3>5, <3>6 DEF RightEntry
  <2> QED BY <2>2, <2>3
<1>12. Busy(handler) => handler.fd \in Fds
  BY BusyFd DEF Busy
<1>13. \A g \in Fds : info'[g].upload_id = info[g].upload_id /\ info'[g].state = info[g].state
  BY <1>2, <1>3
<1> QED BY <1>5, <1>7, <1>10, <1>11, <1>12, <1>13, PartsSameData DEF Keeps

LEMMA WorkerFile ==
    ASSUME UploadInv, TypeInv, NEW j \in jobs, WorkerStep(j)
    PROVE  Keeps
BY SkipFile, SendFile, ArriveFile, FailFile, FinishFile DEF WorkerStep, Keeps

-----------------------------------------------------------------------------
(***************************************************************************)
(* Load, the flush of a small file, the hole and the first open.           *)
(***************************************************************************)
LEMMA NoBytes == \A i : ~Untreated(<<>>, i)
<1>1. DOMAIN <<>> = {}
  OBVIOUS
<1> QED BY <1>1 DEF Untreated, UP!Bytes

LEMMA MarkFacts ==
    ASSUME NEW m \in Mark
    PROVE  /\ [m EXCEPT !.loaded = TRUE] \in Mark /\ [m EXCEPT !.loaded = TRUE].loaded
           /\ [m EXCEPT !.loaded = TRUE].modified = m.modified
           /\ [m EXCEPT !.modified = FALSE] \in Mark /\ ~[m EXCEPT !.modified = FALSE].modified
           /\ [m EXCEPT !.modified = FALSE].loaded = m.loaded
           /\ m.loaded \in BOOLEAN /\ m.modified \in BOOLEAN
BY DEF Mark

LoadedAs(units, loc, st) ==
    /\ loc = [i \in 1..Size |-> loc[i]] /\ st = [i \in 1..Size |-> st[i]]
    /\ \A i \in 1..Size :
          /\ loc[i] \in Vals /\ st[i] \in Mark
          /\ Mod(st, i) <=> Mod(status, i)
          /\ Has(st, i) <=> Has(status, i) \/ i - 1 \in units
          /\ loc[i] = IF ~Has(status, i) /\ i - 1 \in units /\ i <= size_orgmeta THEN object[i] ELSE local[i]

LEMMA LoadIs ==
    ASSUME UploadInv, TypeInv, NEW units
    PROVE  LoadedAs(units, Loaded(units), LoadedStatus(units))
<1> PICK loc, st : loc = Loaded(units) /\ st = LoadedStatus(units)
  OBVIOUS
<1>1. DOMAIN local = 1..Size /\ DOMAIN status = 1..Size
      /\ \A i \in 1..Size : local[i] \in Vals /\ status[i] \in Mark
  BY InvFacts, FileIs DEF Size
<1>2. \A i \in 1..Size : i - 1 \in Missing(units) <=> i - 1 \in units /\ ~Has(status, i)
  <2> TAKE i \in 1..Size
  <2>1. (i - 1) + 1 = i
    OBVIOUS
  <2> QED BY <2>1 DEF Missing, HasData, Has
<1>3. loc = [i \in 1..Size |-> IF i - 1 \in Missing(units) /\ i <= size_orgmeta THEN object[i] ELSE local[i]]
  BY <1>1 DEF Loaded
<1>4. st = [i \in 1..Size |-> IF i - 1 \in Missing(units) THEN [status[i] EXCEPT !.loaded = TRUE] ELSE status[i]]
  BY <1>1 DEF LoadedStatus
<1>5. loc = [i \in 1..Size |-> loc[i]] /\ st = [i \in 1..Size |-> st[i]]
  BY <1>3, <1>4
<1>6. ASSUME NEW i \in 1..Size
      PROVE  /\ loc[i] \in Vals /\ st[i] \in Mark
             /\ Mod(st, i) <=> Mod(status, i)
             /\ Has(st, i) <=> Has(status, i) \/ i - 1 \in units
             /\ loc[i] = IF ~Has(status, i) /\ i - 1 \in units /\ i <= size_orgmeta THEN object[i] ELSE local[i]
  <2>1. loc[i] = IF ~Has(status, i) /\ i - 1 \in units /\ i <= size_orgmeta THEN object[i] ELSE local[i]
    BY <1>2, <1>3
  <2>2. st[i] = IF i - 1 \in units /\ ~Has(status, i) THEN [status[i] EXCEPT !.loaded = TRUE] ELSE status[i]
    BY <1>2, <1>4
  <2>3. ~Has(status, i) /\ i <= size_orgmeta => object[i] \in Vals
    <3>1. ~Has(status, i) /\ i <= size_orgmeta => i <= Len(object)
      BY DEF TypeInv, FileOK, Reach, Size
    <3>2. Len(object) \in Nat /\ \A k \in 1..Len(object) : object[k] \in Vals
      BY InvFacts, DataIs
    <3> QED BY <3>1, <3>2
  <2>4. loc[i] \in Vals
    BY <1>1, <2>1, <2>3
  <2>5. status[i] \in Mark
    BY <1>1
  <2>6. CASE i - 1 \in units /\ ~Has(status, i)
    <3> PICK m \in Mark : m = status[i]
      BY <2>5
    <3> PICK k : k = [m EXCEPT !.loaded = TRUE]
      OBVIOUS
    <3>1. k \in Mark /\ k.loaded /\ k.modified = m.modified
      BY MarkFacts
    <3>2. st[i] = k
      BY <2>2, <2>6
    <3> QED BY <2>1, <2>4, <2>6, <3>1, <3>2 DEF Mod, Has
  <2>7. CASE ~(i - 1 \in units /\ ~Has(status, i))
    BY <2>1, <2>2, <2>4, <2>5, <2>7 DEF Mod, Has
  <2> QED BY <2>6, <2>7
<1> QED BY <1>5, <1>6 DEF LoadedAs

LEMMA LoadKeeps ==
    ASSUME UploadInv, TypeInv, NEW units, NEW loc, NEW st, LoadedAs(units, loc, st)
    PROVE  /\ FileTyped(loc, st, size_orgmeta) /\ Len(st) = Size /\ Reach(object, st, size_orgmeta)
           /\ Kept(object, view, local, status, size_orgmeta) => Kept(object, view, loc, st, size_orgmeta)
<1>0. Size \in Nat /\ Size <= MaxSize /\ size_orgmeta \in 0..MaxSize /\ size_orgmeta \in Nat /\ Len(status) = Size
  BY InvFacts, FileIs DEF Size, FileTyped
<1>1. FileTyped(loc, st, size_orgmeta) /\ Len(st) = Size
  BY <1>0, FileTypedIs DEF LoadedAs
<1>2. Reach(object, st, size_orgmeta)
  BY <1>0, <1>1 DEF LoadedAs, Reach, TypeInv, FileOK
<1>3. ASSUME Kept(object, view, local, status, size_orgmeta)
      PROVE  Kept(object, view, loc, st, size_orgmeta)
  <2> SUFFICES ASSUME NEW i \in 1..Size
               PROVE  /\ ~Mod(st, i) => i <= Len(object) /\ object[i] = view[i]
                      /\ Has(st, i) \/ size_orgmeta < i => loc[i] = view[i]
    BY <1>1 DEF Kept
  <2>1. /\ ~Mod(status, i) => i <= Len(object) /\ object[i] = view[i]
        /\ Has(status, i) \/ size_orgmeta < i => local[i] = view[i]
    BY <1>0, <1>3 DEF Kept
  <2>2. /\ Mod(st, i) <=> Mod(status, i)
        /\ Has(st, i) <=> Has(status, i) \/ i - 1 \in units
        /\ loc[i] = IF ~Has(status, i) /\ i - 1 \in units /\ i <= size_orgmeta THEN object[i] ELSE local[i]
    BY DEF LoadedAs
  <2>3. ~Has(status, i) => ~Mod(status, i)
    BY DEF Has, Mod
  <2>4. i <= size_orgmeta \/ size_orgmeta < i
    BY <1>0
  <2>5. ~(i <= size_orgmeta /\ size_orgmeta < i)
    BY <1>0
  <2> QED BY <2>1, <2>2, <2>3, <2>4, <2>5
<1> QED BY <1>1, <1>2, <1>3

(* Everything is loaded. *)
LEMMA LoadAll ==
    ASSUME UploadInv, TypeInv, NEW i \in 1..Size
    PROVE  i - 1 \in Units(0, Size)
BY InvFacts DEF Units

LEMMA FlushSmallNotLoadedFile ==
    ASSUME UploadInv, TypeInv, NEW fd \in Fds, NEW forced \in BOOLEAN, FlushSmallNotLoaded(fd, forced)
    PROVE  Keeps
<1> PICK got : local' = Loaded(got) /\ status' = LoadedStatus(got) /\ ReturnError(forced)
  BY DEF FlushSmallNotLoaded, LoadFails
<1>1. UNCHANGED <<object, view, size_orgmeta, info, jobs>>
  BY DEF FlushSmallNotLoaded
<1>2. excuses' # {} /\ SameDue
  BY ErrorExcused, DueTyped
<1>3. LoadedAs(got, local', status')
  BY LoadIs
<1>4. FileTyped(local', status', size_orgmeta) /\ Len(status') = Size /\ Reach(object, status', size_orgmeta)
  BY <1>3, LoadKeeps
<1>5. Size' = Size /\ OpenFds' = OpenFds
  BY <1>1, <1>4 DEF Size, OpenFds
<1>6. FileOK'
  BY <1>1, <1>2, <1>4, <1>5 DEF TypeInv, FileOK, SameDue
<1>7. ListsOK(info, jobs, Size)'
  BY <1>1, <1>5 DEF TypeInv
<1> QED BY <1>2, <1>6, <1>7 DEF Keeps, TypeInv

LEMMA ClearedIs ==
    ASSUME NEW n \in Nat, NEW st, st = [i \in 1..n |-> st[i]], \A i \in 1..n : st[i] \in Mark
    PROVE  /\ AllCleared(st) = [i \in 1..n |-> AllCleared(st)[i]]
           /\ \A i \in 1..n : /\ AllCleared(st)[i] \in Mark /\ ~Mod(AllCleared(st), i)
                              /\ AllCleared(st)[i].loaded = st[i].loaded
<1>1. AllCleared(st) = [i \in 1..n |-> [st[i] EXCEPT !.modified = FALSE]]
  BY DEF AllCleared
<1>2. \A i \in 1..n : AllCleared(st)[i] = [st[i] EXCEPT !.modified = FALSE]
  BY <1>1
<1>3. AllCleared(st) = [i \in 1..n |-> AllCleared(st)[i]]
  BY <1>1
<1>4. ASSUME NEW i \in 1..n
      PROVE  AllCleared(st)[i] \in Mark /\ ~Mod(AllCleared(st), i) /\ AllCleared(st)[i].loaded = st[i].loaded
  <2> PICK m \in Mark : m = st[i]
    OBVIOUS
  <2>1. [m EXCEPT !.modified = FALSE] \in Mark /\ ~[m EXCEPT !.modified = FALSE].modified
        /\ [m EXCEPT !.modified = FALSE].loaded = m.loaded
    BY MarkFacts
  <2> QED BY <1>2, <2>1 DEF Mod
<1> QED BY <1>3, <1>4

LEMMA NobodyUploads ==
    ASSUME UploadInv, \A f \in OpenFds : ~IsUploading(info[f])
    PROVE  NoUploads(info) /\ NoLists(info)
BY NoUploadNoList DEF NoUploads, NoLists, OpenFds, IsUploading

LEMMA FlushSmallFile ==
    ASSUME UploadInv, TypeInv, NEW fd \in Fds, NEW forced \in BOOLEAN, FlushSmall(fd, forced)
    PROVE  Keeps
<1> PICK units, st : units = Units(0, Size) /\ st = LoadedStatus(units)
  OBVIOUS
<1> PICK n \in Nat : n = Size
  BY InvFacts
<1>1. /\ UNCHANGED <<view, info, jobs>> /\ size_orgmeta' = n /\ untreated_list' = <<>>
      /\ handler' = NoHandler /\ local' = Loaded(units)
      /\ \/ object' = local' /\ status' = AllCleared(st) /\ Return(forced, "ok")
            /\ excuses' = IF \E f \in OpenFds : IsUploading(info[f]) THEN excuses \cup {"put"} ELSE excuses
         \/ status' = st /\ ReturnError(forced) /\ object' = object
  BY DEF FlushSmall, Return, ReturnError
<1>2. LoadedAs(units, local', st)
  BY <1>1, LoadIs
<1>3. FileTyped(local', st, size_orgmeta) /\ Len(st) = n
  BY <1>2, LoadKeeps
<1>4. n <= MaxSize /\ n \in 0..MaxSize /\ OpenFds' = OpenFds /\ OpenFds # {}
  BY <1>1, InvFacts, Bounds DEF OpenFds, FlushSmall, Flushing, Idle
<1>5. /\ st = [i \in 1..n |-> st[i]] /\ local' = [i \in 1..n |-> local'[i]]
      /\ \A i \in 1..n : st[i] \in Mark /\ local'[i] \in Vals /\ Has(st, i)
  BY <1>2, LoadAll DEF LoadedAs
<1>6. Len(view) = n /\ Len(object) <= n
  BY <1>4 DEF TypeInv, FileOK
<1>7. CASE status' = st /\ ReturnError(forced) /\ object' = object
  <2>1. excuses' # {} /\ SameDue
    BY <1>7, ErrorExcused, DueTyped
  <2>2. FileTyped(local', st, n)
    BY <1>4, <1>5, FileTypedIs
  <2>3. Size' = n /\ Reach(object, st, n)
    BY <1>3, <1>5, <1>7 DEF Size, Reach
  <2>4. FileOK'
    BY <1>1, <1>4, <1>6, <1>7, <2>1, <2>2, <2>3 DEF TypeInv, FileOK, SameDue
  <2>5. ListsOK(info, jobs, Size)'
    BY <1>1, <2>3 DEF TypeInv
  <2> QED BY <2>1, <2>4, <2>5 DEF Keeps, TypeInv
<1>8. CASE /\ object' = local' /\ status' = AllCleared(st) /\ Return(forced, "ok")
           /\ excuses' = IF \E f \in OpenFds : IsUploading(info[f]) THEN excuses \cup {"put"} ELSE excuses
  <2>1. /\ status' = [i \in 1..n |-> status'[i]]
        /\ \A i \in 1..n : status'[i] \in Mark /\ ~Mod(status', i) /\ status'[i].loaded = st[i].loaded
    <3>1. st = [i \in 1..n |-> st[i]] /\ \A i \in 1..n : st[i] \in Mark
      BY <1>5
    <3>2. /\ AllCleared(st) = [i \in 1..n |-> AllCleared(st)[i]]
          /\ \A i \in 1..n : /\ AllCleared(st)[i] \in Mark /\ ~Mod(AllCleared(st), i)
                             /\ AllCleared(st)[i].loaded = st[i].loaded
      BY ONLY <3>1, n \in Nat, ClearedIs
    <3>3. status' = AllCleared(st)
      BY <1>8
    <3> QED BY <3>2, <3>3
  <2>2. FileTyped(local', status', n) /\ Len(status') = n
    BY <1>4, <1>5, <2>1, FileTypedIs
  <2>3. DataTyped(object') /\ Len(object') = n
    BY <1>4, <1>5, <1>8, DatumIs
  <2>4. Reach(object', status', n)
    BY <2>2, <2>3 DEF Reach
  <2>5. outcome' = "ok" /\ (due' = due \/ due' = "punch")
    BY <1>8 DEF Return
  <2>6. FileOK'
    <3>1. FileTyped(local, status, size_orgmeta)' /\ DataTyped(object)' /\ DataTyped(view)'
      BY <1>1, <2>2, <2>3, InvFacts
    <3>2. Reach(object, status, size_orgmeta)' /\ Size' = n
      BY <1>1, <2>2, <2>4 DEF Size
    <3>3. due' \in {"nothing", "flush", "punch"} /\ outcome' \in {"none", "ok", "error"}
      BY <2>5 DEF TypeInv, FileOK
    <3> QED BY <1>1, <1>6, <2>3, <3>1, <3>2, <3>3 DEF FileOK
  <2>7. ListsOK(info, jobs, Size)'
    BY <1>1, <2>2 DEF TypeInv, Size
  <2>8. ASSUME Data, excuses' = {}
        PROVE  Data'
    <3>1. NoUploads(info') /\ NoLists(info')
      BY <1>1, <1>8, <2>8, NobodyUploads
    <3>2. Kept(object, view, local', st, size_orgmeta)
      BY <1>2, <1>4, <2>8, LoadKeeps DEF Data
    <3>3. \A i \in 1..n : local'[i] = view[i]
      BY <1>3, <1>5, <3>2 DEF Kept
    <3>4. object' = view'
      <4>1. view \in [1..n -> Vals]
        BY <1>6, InvFacts DEF DataTyped, Datum
      <4>2. local' = [i \in 1..n |-> view[i]]
        BY <1>5, <3>3
      <4> QED BY <1>1, <1>8, <4>1, <4>2
    <3>5. Kept(object, view, local, status, size_orgmeta)'
      <4>1. \A i \in 1..n : i <= n
        OBVIOUS
      <4>2. Kept(object', view', local', status', n)
        BY <1>1, <1>8, <2>2, <2>3, <3>3, <4>1 DEF Kept
      <4> QED BY <1>1, <4>2
    <3>6. Treated(info, handler, status, untreated_list)' /\ Clean(status)'
      BY <2>1, <2>2 DEF Treated, Clean
    <3>7. Marked(status, untreated_list)'
      BY <1>1, NoBytes DEF Marked
    <3>8. handler'.pc = "idle"
      BY <1>1 DEF NoHandler
    <3> QED BY <3>1, <3>4, <3>5, <3>6, <3>7, <3>8, NoListsData DEF Data
  <2> QED BY <2>6, <2>7, <2>8 DEF Keeps, TypeInv
<1> QED BY <1>1, <1>7, <1>8

LEMMA PunchHoleFile ==
    ASSUME UploadInv, TypeInv, PunchHole
    PROVE  Keeps
<1> DEFINE punched == {i \in 1..Size : \E a, b \in {k \in 1..Size : ~status[k].modified} : a <= i /\ i <= b}
           hole == [loaded |-> FALSE, modified |-> FALSE]
<1>1. /\ UNCHANGED <<object, view, size_orgmeta, info, jobs, untreated_list, handler, outcome>>
      /\ handler.pc = "idle" /\ due = "punch" /\ due' = "nothing"
  BY DEF PunchHole, areaVars
<1>2. CASE UNCHANGED <<local, status, excuses>>
  <2>1. SameFile /\ SameDue
    BY <1>1, <1>2, DueTyped DEF SameFile, TypeInv, FileOK
  <2>2. Quiet
    BY <1>1, <2>1, InfoSame DEF Quiet
  <2> QED BY <1>1, <2>2, SameHandler, QuietKeeps
<1>3. CASE /\ local' = [i \in DOMAIN local |-> IF i \in punched THEN Zero ELSE local[i]]
           /\ status' = [i \in DOMAIN status |-> IF i \in punched THEN hole ELSE status[i]]
           /\ excuses' = IF \E i \in punched : i > size_orgmeta THEN excuses \cup {"punch"} ELSE excuses
  <2>0. punched \subseteq 1..Size
    OBVIOUS
  <2> HIDE DEF punched
  <2> PICK n \in Nat : n = Size /\ n = Len(status)
    BY InvFacts DEF Size
  <2>1. DOMAIN local = 1..n /\ DOMAIN status = 1..n /\ (\A i \in 1..n : local[i] \in Vals /\ status[i] \in Mark)
        /\ n <= MaxSize /\ size_orgmeta \in 0..MaxSize /\ size_orgmeta \in Nat
    BY InvFacts, FileIs DEF FileTyped, Size
  <2>2. hole \in Mark /\ Zero \in Vals
    <3>1. hole \in Mark
      BY MarkIs
    <3>2. MaxWrites \in Nat /\ Zero = -1
      BY Bounds DEF Zero
    <3>3. Zero \in Vals
      BY <3>2 DEF Vals
    <3> QED BY <3>1, <3>3
  <2>3. /\ local' = [i \in 1..n |-> local'[i]] /\ status' = [i \in 1..n |-> status'[i]]
        /\ \A i \in 1..n : /\ local'[i] = IF i \in punched THEN Zero ELSE local[i]
                           /\ status'[i] = IF i \in punched THEN hole ELSE status[i]
    BY <1>3, <2>1
  <2>4. \A i \in 1..n : local'[i] \in Vals /\ status'[i] \in Mark
    BY <2>1, <2>2, <2>3
  <2>5. FileTyped(local', status', size_orgmeta) /\ Len(status') = n
    BY <2>1, <2>3, <2>4, FileTypedIs
  <2>6. n <= Len(object) /\ Len(object) \in Nat
    BY <1>1, InvFacts, DataIs DEF TypeInv, FileOK
  <2>7. Reach(object, status', size_orgmeta)
    BY <2>5, <2>6 DEF Reach
  <2>8. FileOK'
    <3>1. Size' = Size /\ OpenFds' = OpenFds
      BY <1>1, <2>5 DEF Size, OpenFds
    <3> QED BY <1>1, <2>5, <2>7, <3>1 DEF TypeInv, FileOK
  <2>9. ListsOK(info, jobs, Size)'
    BY <1>1, <2>5 DEF TypeInv, Size
  <2>10. ASSUME Data, excuses' = {}
         PROVE  Data'
    <3>1. Clean(status) /\ NoUploads(info)
      BY <1>1, <2>10 DEF Data
    <3>2. NoLists(info')
      BY <1>1, <3>1, NoUploadNoList DEF NoUploads, NoLists
    <3>3. \A i \in punched : ~(size_orgmeta < i)
      BY <1>3, <2>10, <2>1, <2>0
    <3>4. ASSUME OpenFds # {}
          PROVE  Kept(object, view, local', status', size_orgmeta)
      <4> SUFFICES ASSUME NEW i \in 1..n
                   PROVE  /\ ~Mod(status', i) => i <= Len(object) /\ object[i] = view[i]
                          /\ Has(status', i) \/ size_orgmeta < i => local'[i] = view[i]
        BY <2>5 DEF Kept
      <4>1. i <= Len(object) /\ object[i] = view[i] /\ (Has(status, i) \/ size_orgmeta < i => local[i] = view[i])
        BY <2>10, <3>1, <3>4 DEF Data, Kept, Clean
      <4>2. CASE i \in punched
        <5>1. ~Has(status', i)
          BY <2>3, <4>2 DEF Has
        <5> QED BY <3>3, <4>1, <4>2, <5>1
      <4>3. CASE i \notin punched
        <5>1. status'[i] = status[i] /\ local'[i] = local[i]
          BY <2>3, <4>3
        <5> QED BY <4>1, <5>1 DEF Has
      <4> QED BY <4>2, <4>3
    <3>5. Clean(status')
      <4> SUFFICES ASSUME NEW i \in 1..n PROVE ~status'[i].modified
        BY <2>5 DEF Clean, Mod
      <4>1. ~status[i].modified /\ ~hole.modified
        BY <3>1 DEF Clean, Mod
      <4> QED BY <2>3, <4>1
    <3>6. Treated(info, handler, status, untreated_list)'
      BY <3>5 DEF Treated, Clean
    <3>7. Marked(status, untreated_list)'
      <4>1. \A i \in Int : ~Untreated(untreated_list, i)
        BY <2>10, <3>1 DEF Data, Marked, Clean
      <4> QED BY <1>1, <4>1 DEF Marked
    <3>8. OpenFds' = OpenFds /\ (outcome = "ok" => object = view)'
      BY <1>1, <2>10 DEF OpenFds, Data
    <3>9. OpenFds # {} => Kept(object, view, local, status, size_orgmeta)'
      BY <1>1, <3>4
    <3>10. handler'.pc = "idle"
      BY <1>1
    <3> QED BY <1>1, <3>2, <3>6, <3>7, <3>8, <3>9, <3>10, NoListsData DEF Data
  <2> QED BY <2>8, <2>9, <2>10 DEF Keeps, TypeInv
<1>4. (UNCHANGED <<local, status, excuses>>) \/
         /\ local' = [i \in DOMAIN local |-> IF i \in punched THEN Zero ELSE local[i]]
         /\ status' = [i \in DOMAIN status |-> IF i \in punched THEN hole ELSE status[i]]
         /\ excuses' = IF \E i \in punched : i > size_orgmeta THEN excuses \cup {"punch"} ELSE excuses
  BY DEF PunchHole
<1> QED BY <1>2, <1>3, <1>4

-----------------------------------------------------------------------------
(***************************************************************************)
(* The first open, and the entries a flush or a write adds.                *)
(***************************************************************************)
LEMMA OpenFile ==
    ASSUME UploadInv, TypeInv, NEW fd \in Fds, Open(fd)
    PROVE  Keeps
<1>1. /\ UNCHANGED <<object, jobs, handler, due, excuses>> /\ outcome' = "none" /\ handler.pc = "idle"
      /\ info' = [info EXCEPT ![fd].state = "open"]
  BY DEF Open
<1>2. DOMAIN info = Fds /\ DOMAIN info[fd] = InfFields /\ \A g \in Fds : InfTyped(info[g])
  BY InvFacts, InfIsTyped
<1>3. \A g \in Fds : g # fd => info'[g] = info[g]
  BY <1>1, <1>2
<1>4. /\ info'[fd].state = "open" /\ info'[fd].upload_id = info[fd].upload_id
      /\ info'[fd].upload_list = info[fd].upload_list /\ info'[fd].last_result = info[fd].last_result
  BY <1>1, <1>2 DEF InfFields
<1>5. \A g \in Fds : /\ InfTyped(info'[g]) /\ info'[g].upload_list = info[g].upload_list
                     /\ info'[g].upload_id = info[g].upload_id
  BY <1>2, <1>3, <1>4 DEF InfTyped
<1>6. SameDue
  BY <1>1, DueTyped
<1>7. CASE OpenFds # {}
  <2>1. SameFile
    BY <1>1, <1>7 DEF Open, SameFile, areaVars
  <2>2. SameLists
    BY <1>5, <1>7 DEF SameLists
  <2> QED BY <1>1, <1>6, <2>1, <2>2, SameHandler, QuietKeeps DEF Quiet
<1>8. CASE OpenFds = {}
  <2> DEFINE hole == [loaded |-> FALSE, modified |-> FALSE]
  <2> PICK n \in Nat : n = Len(object)
    BY InvFacts, DataIs
  <2>1. n <= MaxSize /\ DOMAIN object = 1..n /\ DataTyped(object) /\ n \in 0..MaxSize
        /\ \A i \in 1..n : object[i] \in Vals
    BY InvFacts, DataIs, Bounds
  <2>2. /\ local' = [i \in 1..n |-> Zero] /\ status' = [i \in 1..n |-> hole] /\ size_orgmeta' = n
        /\ untreated_list' = <<>> /\ view' = object
    BY <1>8, <2>1 DEF Open
  <2>3. /\ local' = [i \in 1..n |-> local'[i]] /\ status' = [i \in 1..n |-> status'[i]]
        /\ \A i \in 1..n : local'[i] = Zero /\ status'[i] = hole
    BY <2>2
  <2>4. hole \in Mark /\ Zero \in Vals
    <3>1. hole \in Mark
      BY MarkIs
    <3>2. MaxWrites \in Nat /\ Zero = -1
      BY Bounds DEF Zero
    <3>3. Zero \in Vals
      BY <3>2 DEF Vals
    <3> QED BY <3>1, <3>3
  <2>5. FileTyped(local', status', n) /\ Len(status') = n
    <3>1. \A i \in 1..n : local'[i] \in Vals /\ status'[i] \in Mark
      BY <2>3, <2>4
    <3>2. local' = [i \in 1..n |-> local'[i]] /\ status' = [i \in 1..n |-> status'[i]]
      BY <2>3
    <3> PICK loc, st : loc = local' /\ st = status'
      OBVIOUS
    <3> QED BY <2>1, <3>1, <3>2, FileTypedIs
  <2>6. FileOK'
    <3>1. Reach(object, status', n)
      BY <2>5 DEF Reach
    <3>2. Size' = n
      BY <2>5 DEF Size
    <3>3. FileTyped(local, status, size_orgmeta)' /\ Reach(object, status, size_orgmeta)'
      BY <1>1, <2>2, <2>5, <3>1
    <3>4. DataTyped(object)' /\ DataTyped(view)'
      BY <1>1, <2>1, <2>2
    <3>5. Len(view') = n /\ Len(object') = n
      BY <1>1, <2>2
    <3> QED BY <1>6, <3>2, <3>3, <3>4, <3>5 DEF FileOK, SameDue
  <2>7. \A g \in Fds : info[g].upload_list = {} /\ info[g].upload_id = 0
    BY <1>8, NoUploadNoList DEF OpenFds
  <2>8. jobs = {}
    <3>1. \A g \in Fds : Of(jobs, g) = {}
      BY <2>7, NoJobs
    <3> QED BY <3>1, InvFacts DEF Of
  <2>9. ListsOK(info, jobs, Size)'
    BY <1>1, <1>5, <2>7, <2>8 DEF ListsOK, InfoTyped, JobsTyped, Agree
  <2>10. ASSUME Data
         PROVE  Data'
    <3>1. NoLists(info') /\ NoUploads(info')
      BY <1>5, <2>7 DEF NoLists, NoUploads
    <3>2. \A i \in 1..n : ~Mod(status', i)
      BY <2>3 DEF Mod
    <3>3. Kept(object', view', local', status', n)
      <4>1. ASSUME NEW i \in 1..n
            PROVE  /\ i <= n /\ object'[i] = view'[i] /\ ~(n < i) /\ ~Has(status', i)
        BY <1>1, <2>2, <2>3 DEF Has
      <4>2. Len(object') = n
        BY <1>1
      <4> QED BY <2>5, <4>1, <4>2 DEF Kept
    <3>4. Treated(info, handler, status, untreated_list)' /\ Clean(status)'
      BY <2>5, <3>2 DEF Treated, Clean
    <3>5. Marked(status, untreated_list)'
      BY <2>2, NoBytes DEF Marked
    <3>6. Kept(object, view, local, status, size_orgmeta)'
      BY <2>2, <3>3
    <3> QED BY <1>1, <3>1, <3>4, <3>5, <3>6, NoListsData DEF Data
  <2> QED BY <2>6, <2>9, <2>10 DEF Keeps, TypeInv
<1> QED BY <1>7, <1>8

-----------------------------------------------------------------------------
(* Parts that lie in the file. *)
MpIn(p, size) ==
    /\ p.start \in Nat /\ p.size \in Nat /\ 0 < p.size /\ p.start + p.size <= size
    /\ p.part_num \in PartNums

LEMMA CutsGrow ==
    ASSUME NEW b \in Nat, NEW cut \in [0..b -> Nat], \A n \in 0..(b - 1) : cut[n] < cut[n + 1],
           NEW m \in 0..b, NEW n \in 0..b, m <= n
    PROVE  cut[m] <= cut[n] /\ (m < n => cut[m] < cut[n])
<1> DEFINE S == {k \in Nat : m + k <= b /\ cut[m + k] < cut[m]}
<1>0. m \in Nat /\ n \in Nat /\ m <= b /\ n <= b
  OBVIOUS
<1>1. ASSUME S # {}
      PROVE  FALSE
  <2>1. S \in SUBSET Nat
    OBVIOUS
  <2> PICK x \in S : \A y \in S : x <= y
    <3> HIDE DEF S
    <3> QED BY <1>1, <2>1, UP!LeastOf, AreasAssumption
  <2>2. x # 0
    BY <1>0
  <2> PICK y \in Nat : x = y + 1
    BY <2>2
  <2>3. y \notin S
    <3> HIDE DEF S
    <3> QED OBVIOUS
  <2>4. m + y \in 0..(b - 1) /\ m + y + 1 = m + x /\ m + y <= b /\ m + x \in 0..b
    BY <1>0
  <2>5. cut[m + y] \in Nat /\ cut[m] \in Nat /\ cut[m + x] \in Nat
    BY <1>0, <2>4
  <2>6. cut[m + y] < cut[m + x]
    BY <2>4
  <2>7. ~(cut[m + y] < cut[m])
    BY <2>3, <2>4
  <2>8. cut[m + x] < cut[m]
    OBVIOUS
  <2> QED BY ONLY <2>5, <2>6, <2>7, <2>8
<1>2. \A x, y \in 0..b : x = m /\ y = n => cut[x] <= cut[y]
  <2> PICK k \in Nat : n = m + k
    BY <1>0
  <2>1. ~(cut[n] < cut[m])
    BY <1>0, <1>1
  <2>2. cut[n] \in Nat /\ cut[m] \in Nat
    BY <1>0
  <2> QED BY <2>1, <2>2
<1>3. ASSUME m < n
      PROVE  cut[m] < cut[n]
  <2> DEFINE T == {k \in Nat : m + 1 + k <= b /\ ~(cut[m] < cut[m + 1 + k])}
  <2>1. ASSUME T # {}
        PROVE  FALSE
    <3>1. T \in SUBSET Nat
      OBVIOUS
    <3> PICK x \in T : \A y \in T : x <= y
      <4> HIDE DEF T
      <4> QED BY <2>1, <3>1, UP!LeastOf, AreasAssumption
    <3>2. m \in 0..(b - 1) /\ cut[m] < cut[m + 1]
      BY <1>0, <1>3
    <3>3. x # 0
      BY <1>0, <3>2
    <3> PICK y \in Nat : x = y + 1
      BY <3>3
    <3>4. y \notin T
      <4> HIDE DEF T
      <4> QED OBVIOUS
    <3>5. m + 1 + y \in 0..(b - 1) /\ m + 1 + y + 1 = m + 1 + x /\ m + 1 + y <= b /\ m + 1 + x \in 0..b
      BY <1>0
    <3>6. cut[m + 1 + y] \in Nat /\ cut[m] \in Nat /\ cut[m + 1 + x] \in Nat
      BY <1>0, <3>5
    <3>7. cut[m + 1 + y] < cut[m + 1 + x]
      BY <3>5
    <3>8. cut[m] < cut[m + 1 + y]
      BY <3>4, <3>5
    <3>9. ~(cut[m] < cut[m + 1 + x])
      OBVIOUS
    <3> QED BY ONLY <3>6, <3>7, <3>8, <3>9
  <2> PICK k \in Nat : n = m + 1 + k
    BY <1>0, <1>3
  <2> QED BY <1>0, <2>1
<1> QED BY <1>2, <1>3

LEMMA DivMono ==
    ASSUME NEW x \in Int, NEW y \in Int, x <= y
    PROVE  x \div max_mp_size <= y \div max_mp_size
<1> PICK m \in Nat \ {0} : m = max_mp_size
  BY Bounds
<1> PICK p \in Int, q \in Int : p = x \div m /\ q = y \div m
  OBVIOUS
<1>1. p * m <= x /\ y < q * m + m
  BY UP!DivBounds, AreasAssumption
<1>2. (q + 1) * m = q * m + m
  BY ONLY q \in Int, m \in Nat \ {0}
<1>2a. p * m \in Int /\ (q + 1) * m \in Int
  BY ONLY p \in Int, q \in Int, m \in Nat \ {0}
<1> PICK a \in Int, c \in Int : a = p * m /\ c = (q + 1) * m
  BY ONLY <1>2a
<1>3. a < c
  BY ONLY <1>1, <1>2, a = p * m, c = (q + 1) * m, x <= y, x \in Int, y \in Int, a \in Int, c \in Int
<1>4. p < q + 1
  BY <1>3, UP!TimesLess, AreasAssumption
<1> QED BY <1>4

LEMMA MakesFileIn ==
    ASSUME NEW P, NEW size \in Nat, size <= MaxSize, MakesFile(P, size), NEW p \in P
    PROVE  MpIn(p, size)
<1> PICK b, cut : b = BlocksOf(size) /\ Cuts(cut, P, b, size)
  BY DEF MakesFile
<1>1. /\ b \in Nat /\ b > 0 /\ cut \in [0..b -> Nat] /\ cut[b] = size
      /\ \A n \in 0..(b - 1) : cut[n] < cut[n + 1]
      /\ P = {MpPart(cut[n], cut[n + 1] - cut[n], n + 1) : n \in 0..(b - 1)}
  BY DEF Cuts
<1> PICK n \in 0..(b - 1) : p = MpPart(cut[n], cut[n + 1] - cut[n], n + 1)
  BY <1>1
<1>2. n \in 0..b /\ n + 1 \in 0..b /\ b \in 0..b /\ n + 1 <= b /\ n + 1 >= 1
  BY <1>1
<1>3. cut[n] \in Nat /\ cut[n + 1] \in Nat /\ cut[n] < cut[n + 1]
  BY <1>1, <1>2
<1>4. cut[n + 1] <= size
  BY <1>1, <1>2, CutsGrow
<1>5. p.start = cut[n] /\ p.size = cut[n + 1] - cut[n] /\ p.part_num = n + 1
  BY DEF MpPart
<1>6. p.start \in Nat /\ p.size \in Nat /\ 0 < p.size /\ p.start + p.size <= size
  BY <1>3, <1>4, <1>5
<1>7. n + 1 \in PartNums
  <2>1. size + max_mp_size - 1 \in Int /\ MaxSize + max_mp_size - 1 \in Int
        /\ size + max_mp_size - 1 <= MaxSize + max_mp_size - 1
    BY Bounds
  <2>2. b <= (MaxSize + max_mp_size - 1) \div max_mp_size
    BY <2>1, DivMono DEF BlocksOf
  <2>3. (MaxSize + max_mp_size - 1) \div max_mp_size \in Int
    BY Bounds
  <2> QED BY <1>1, <1>2, <2>2, <2>3 DEF PartNums
<1> QED BY <1>5, <1>6, <1>7 DEF MpIn

(* What ParallelMultipartUpload makes of the parts. *)
NewEntries(E, mplist, is_copy, size) ==
    /\ \A e \in E : /\ EntryIn(e, size) /\ e.etag = NoEtag /\ (e.is_copy <=> is_copy)
                    /\ \E p \in mplist : e.start = p.start /\ e.size = p.size /\ e.part_num = p.part_num
    /\ \A p \in mplist : \E e \in E : e.start = p.start /\ e.size = p.size /\ e.part_num = p.part_num

LEMMA NewEntriesOK ==
    ASSUME NEW mplist, NEW size \in Nat, size <= MaxSize, \A p \in mplist : MpIn(p, size),
           NEW skip, NEW is_copy \in BOOLEAN, NEW lo, NEW hi, Celled(WithCells(mplist, skip, is_copy), lo, hi)
    PROVE  NewEntries(WithCells(mplist, skip, is_copy), mplist, is_copy, size)
<1> DEFINE Cell(m) == FreeCell(skip + Cardinality({k \in mplist : k.part_num <= m.part_num}))
           Entry(m) == [start |-> m.start, size |-> m.size, part_num |-> m.part_num, is_copy |-> is_copy,
                        etag |-> NoEtag, cell |-> Cell(m)]
<1> PICK E : E = WithCells(mplist, skip, is_copy)
  OBVIOUS
<1>1. E = {Entry(m) : m \in mplist}
  BY DEF WithCells
<1> HIDE DEF Cell
<1>2. \A e \in E : e.cell \in 1..MaxCells
  BY DEF Celled, Free
<1>3. ASSUME NEW m \in mplist
      PROVE  /\ EntryIn(Entry(m), size) /\ Entry(m).etag = NoEtag /\ (Entry(m).is_copy <=> is_copy)
             /\ Entry(m).start = m.start /\ Entry(m).size = m.size /\ Entry(m).part_num = m.part_num
  <2>1. /\ m.start \in Nat /\ m.size \in Nat /\ 0 < m.size /\ m.start + m.size <= size
        /\ m.part_num \in PartNums
    BY DEF MpIn
  <2> PICK a \in Nat, z \in Nat : a = m.start /\ z = m.size
    BY <2>1
  <2>2. a \in 0..MaxSize /\ z \in 1..MaxSize
    BY <2>1, Bounds
  <2>3. Entry(m).cell \in 1..MaxCells
    BY <1>1, <1>2
  <2>4. Cell(m) \in 1..MaxCells
    BY <2>3
  <2>5. NoEtag \in Seq(Zero..MaxWrites)
    BY DEF NoEtag
  <2>6. Entry(m) \in PartEntries
    BY <2>1, <2>2, <2>4, <2>5 DEF PartEntries
  <2>7. Entry(m).start + Entry(m).size <= size
    BY <2>1
  <2> QED BY <2>6, <2>7 DEF EntryIn
<1> HIDE DEF Entry
<1>4. NewEntries(E, mplist, is_copy, size)
  BY <1>1, <1>3 DEF NewEntries
<1> QED BY <1>4

LEMMA CellsNew ==
    ASSUME NEW E, NEW lo, NEW hi, Celled(E, lo, hi)
    PROVE  CellsFree(E, info, jobs)
BY DEF CellsFree, Celled, Free, UsedCells

LEMMA NotBegun ==
    ASSUME NEW fd, NEW id, NEW E
    PROVE  \A r \in Requests(fd, id, E) : ~Begun(r)
<1>1. \A r \in Requests(fd, id, E) : r.step = "queued"
  BY DEF Requests
<1> QED BY <1>1 DEF Begun

(* Entries are added to an upload: what else of its record stays. *)
EntriesAdded(inf, E, new) ==
    /\ InfTyped(new) /\ new.upload_list = inf.upload_list \cup E
    /\ new.upload_id = inf.upload_id /\ new.state = inf.state

LEMMA StartedFields ==
    ASSUME NEW inf, DOMAIN inf = InfFields, InfTyped(inf), NEW E
    PROVE  EntriesAdded(inf, E, Started(inf, E))
<1> PICK new : new = Started(inf, E)
  OBVIOUS
<1>1. /\ new.upload_list = inf.upload_list \cup E /\ new.upload_id = inf.upload_id
      /\ new.state = inf.state /\ new.last_result = inf.last_result
  BY DEF Started, InfFields
<1>2. InfTyped(new)
  BY <1>1 DEF InfTyped
<1> QED BY <1>1, <1>2 DEF EntriesAdded

LEMMA PlannedIn ==
    ASSUME NEW L, NEW U1, NEW C, NEW size \in Nat, size <= MaxSize, Planned(L, U1, C, size)
    PROVE  \A p \in U1 \cup C : MpIn(p, size)
BY MakesFileIn DEF Planned

(* ParallelMultipartUploadAll: what was planned is in the list. *)
LEMMA UploadAllFile ==
    ASSUME UploadInv, TypeInv, UploadAll
    PROVE  Keeps
<1> PICK fd : fd = handler.fd
  OBVIOUS
<1> PICK old : old = info[fd]
  OBVIOUS
<1> PICK u, c : u = handler.upload /\ c = handler.copy
  OBVIOUS
<1> PICK E : E = WithCells(u, 0, FALSE)
  OBVIOUS
<1> PICK F : F = WithCells(c, Cardinality(u), TRUE)
  OBVIOUS
<1> PICK new : new = Started(old, E \cup F)
  OBVIOUS
<1>1. /\ handler.pc = "start" /\ HasCells(Cardinality(u) + Cardinality(c))
      /\ jobs' = jobs \cup Requests(fd, info[fd].upload_id, E \cup F)
      /\ handler' = [handler EXCEPT !.pc = "wait_all"]
      /\ SameFile /\ UNCHANGED <<due, outcome>>
  BY DEF UploadAll, SameFile, fileVars, areaVars, ghostVars
<1>2. /\ DOMAIN info = Fds /\ DOMAIN handler = HandlerFields
      /\ fd \in Fds /\ HandlerOK(handler, old, Size) /\ DOMAIN old = InfFields
      /\ Size \in Nat /\ Size <= MaxSize
  BY <1>1, HandlerInfo, InvFacts
<1>3. Planned(old.upload_list, u, c, Size)
  BY <1>1, <1>2 DEF HandlerOK
<1>4. Numbered(u) /\ Numbered(c)
  BY <1>3 DEF Planned
<1> PICK nu \in Nat, nc \in Nat : nu = Cardinality(u) /\ nc = Cardinality(c)
  BY <1>4, FS_CardinalityType DEF Numbered
<1>5. Celled(E \cup F, 0, nu + nc) /\ Celled(E, 0, nu) /\ Celled(F, nu, nu + nc)
  <2>1. nu \in Nat /\ nu = 0 + Cardinality(u) /\ nu + nc \in Nat /\ nu <= nu + nc /\ 0 \in Nat
    OBVIOUS
  <2>2. HasCells(nu + nc) /\ HasCells(nu)
    BY <1>1, FreeFacts DEF HasCells, Free
  <2>3. Celled(E, 0, nu)
    BY <1>4, <2>1, <2>2, WithCellsOK
  <2>4. Celled(F, nu, nu + nc)
    BY <1>4, <2>1, <2>2, WithCellsOK
  <2> QED BY <2>1, <2>3, <2>4, CelledBoth
<1>6. NewEntries(E, u, FALSE, Size) /\ NewEntries(F, c, TRUE, Size)
  <2>1. \A p \in u \cup c : MpIn(p, Size)
    BY <1>2, <1>3, PlannedIn
  <2>2. FALSE \in BOOLEAN /\ TRUE \in BOOLEAN
    OBVIOUS
  <2> PICK lo, hi : lo = nu /\ hi = nu + nc
    OBVIOUS
  <2>3. NewEntries(E, u, FALSE, Size)
    BY <1>2, <1>5, <2>1, <2>2, NewEntriesOK
  <2>4. NewEntries(F, c, TRUE, Size)
    BY <1>2, <1>5, <2>1, <2>2, NewEntriesOK
  <2> QED BY <2>3, <2>4
<1>7. /\ InfTyped(new) /\ new.upload_list = old.upload_list \cup (E \cup F)
      /\ new.upload_id = old.upload_id /\ new.state = old.state
  <2>1. DOMAIN old = InfFields /\ InfTyped(old)
    BY <1>2, InfIsTyped
  <2>2. EntriesAdded(old, E \cup F, Started(old, E \cup F))
    BY ONLY <2>1, StartedFields
  <2> QED BY <2>2 DEF EntriesAdded
<1>8. /\ info'[fd] = new /\ \A g \in Fds : g # fd => info'[g] = info[g]
      /\ \A g \in Fds : InfTyped(info'[g])
  <2>1. info' = [info EXCEPT ![fd] = new]
    BY <1>2 DEF UploadAll
  <2> QED BY <1>2, <1>7, <2>1, InfIsTyped
<1>6a. /\ \A e \in E : ~e.is_copy /\ e.etag = NoEtag /\ \E p \in u : e.start = p.start /\ e.size = p.size
       /\ \A e \in F : e.is_copy /\ e.etag = NoEtag /\ \E p \in c : e.start = p.start /\ e.size = p.size
       /\ \A p \in u : \E e \in E : e.start = p.start /\ e.size = p.size
  <2>1. ASSUME NEW e \in E
        PROVE  ~e.is_copy /\ e.etag = NoEtag /\ \E p \in u : e.start = p.start /\ e.size = p.size
    <3>1. e.is_copy <=> FALSE
      BY <1>6, Zenon DEF NewEntries
    <3>2. e.etag = NoEtag
      BY <1>6, Zenon DEF NewEntries
    <3>3. \E p \in u : e.start = p.start /\ e.size = p.size /\ e.part_num = p.part_num
      BY <1>6, Zenon DEF NewEntries
    <3>4. \E p \in u : e.start = p.start /\ e.size = p.size
      BY <3>3, Zenon
    <3> QED BY <3>1, <3>2, <3>4
  <2>2. ASSUME NEW e \in F
        PROVE  e.is_copy /\ e.etag = NoEtag /\ \E p \in c : e.start = p.start /\ e.size = p.size
    <3>1. e.is_copy <=> TRUE
      BY <1>6, Zenon DEF NewEntries
    <3>2. e.etag = NoEtag
      BY <1>6, Zenon DEF NewEntries
    <3>3. \E p \in c : e.start = p.start /\ e.size = p.size /\ e.part_num = p.part_num
      BY <1>6, Zenon DEF NewEntries
    <3>4. \E p \in c : e.start = p.start /\ e.size = p.size
      BY <3>3, Zenon
    <3> QED BY <3>1, <3>2, <3>4
  <2>3. \A p \in u : \E e \in E : e.start = p.start /\ e.size = p.size
    <3>1. \A p \in u : \E e \in E : e.start = p.start /\ e.size = p.size /\ e.part_num = p.part_num
      BY ONLY <1>6 DEF NewEntries
    <3> QED BY ONLY <3>1
  <2> QED BY <2>1, <2>2, <2>3
<1>9. CellsFree(E \cup F, info, jobs)
  BY <1>5, CellsNew
<1>10. ListsOK(info', jobs', Size)
  <2>1. \A e \in E \cup F : EntryIn(e, Size)
    BY <1>6 DEF NewEntries
  <2>2. ListsOK(info, jobs, Size) /\ \A j \in jobs : j.fd \in Fds
    BY InvFacts DEF TypeInv
  <2>3. \A g \in Fds : g # fd => info'[g].upload_list = info[g].upload_list
    BY <1>8
  <2>4. info'[fd].upload_list \subseteq info[fd].upload_list \cup (E \cup F)
    BY <1>7, <1>8
  <2> PICK id, I, L, G, J, n : id = info[fd].upload_id /\ I = info /\ L = info' /\ G = E \cup F /\ J = jobs /\ n = Size
    OBVIOUS
  <2>4a. ListsOK(I, J, n) /\ JobFds(J)
    BY <2>2 DEF JobFds
  <2>4b. EntriesIn(G, n) /\ CellsFree(G, I, J)
    BY <1>9, <2>1 DEF EntriesIn
  <2>4c. ListsGrow(I, L, fd, G)
    BY <1>8, <2>3, <2>4 DEF ListsGrow
  <2>4d. fd \in Fds
    BY <1>2
  <2>5. ListsOK(L, J \cup Requests(fd, id, G), n)
    BY ONLY <2>4a, <2>4b, <2>4c, <2>4d, ListsAdd
  <2> QED BY <1>1, <2>5
<1>11. TypeInv'
  <2>1. OpenFds' = OpenFds /\ Size' = Size
    BY <1>1, <1>7, <1>8 DEF OpenFds, SameFile, Size
  <2>2. SameDue
    BY <1>1, DueTyped DEF TypeInv, FileOK
  <2>3. FileOK'
    BY <1>1, <2>1, <2>2, FileSame DEF TypeInv, SameFile
  <2> QED BY <1>10, <2>1, <2>3 DEF TypeInv
<1>12. handler'.pc = "wait_all" /\ handler'.fd = fd
  BY <1>1, <1>2 DEF HandlerFields
<1>13. ASSUME Data
       PROVE  Data'
  <2>0. /\ Planning(handler) /\ ~Planning(handler') /\ Busy(handler)
        /\ \A g \in Fds : ~Final(handler, g) /\ (Final(handler', g) <=> g = fd)
    BY <1>1, <1>12 DEF Planning, Busy, Final
  <2>1. /\ \A p \in u : \A i \in Span(p) : Has(status, i)
        /\ \A p \in c : \A i \in Span(p) : ~Mod(status, i)
        /\ \A e \in old.upload_list : Settled(untreated_list, e)
    BY <1>13, <2>0 DEF Data, PlanData
  <2>2. OpenFds # {} => Treated(info', handler', status, untreated_list)
    <3> SUFFICES ASSUME OpenFds # {}, NEW i \in 1..Len(status), Mod(status, i), ~Untreated(untreated_list, i)
                 PROVE  \E g \in Fds : \E e \in info'[g].upload_list : i \in Span(e)
      BY DEF Treated
    <3>1. \/ \E g \in Fds : \E e \in info[g].upload_list : i \in Span(e)
          \/ \E p \in u : i \in Span(p)
      BY <1>13 DEF Data, Treated
    <3>2. CASE \E g \in Fds : \E e \in info[g].upload_list : i \in Span(e)
      <4> PICK g \in Fds : \E e \in info[g].upload_list : i \in Span(e)
        BY <3>2
      <4>1. info[g].upload_list \subseteq info'[g].upload_list
        BY <1>7, <1>8
      <4> QED BY <4>1
    <3>3. CASE \E p \in u : i \in Span(p)
      <4> PICK p \in u : i \in Span(p)
        BY <3>3
      <4> PICK e \in E : e.start = p.start /\ e.size = p.size
        BY <1>6a
      <4>1. e \in info'[fd].upload_list /\ fd \in Fds
        BY <1>2, <1>7, <1>8
      <4>2. i \in Span(e)
        BY SpanSame
      <4> QED BY <4>1, <4>2
    <3> QED BY <3>1, <3>2, <3>3
  <2>3. ListsData(info', handler', status)
    <3> SUFFICES ASSUME NEW g \in Fds, NEW e \in info'[g].upload_list
                 PROVE  EntryData(handler', g, e, status)
      BY DEF ListsData
    <3>1. CASE e \in info[g].upload_list
      <4>1. EntryData(handler, g, e, status)
        BY <1>13, <3>1 DEF Data, ListsData
      <4> QED BY <2>0, <4>1 DEF EntryData
    <3>2. CASE e \in E /\ g = fd
      <4> PICK p \in u : e.start = p.start /\ e.size = p.size
        BY <1>6a, <3>2
      <4>1. ~e.is_copy /\ Span(e) = Span(p)
        BY <1>6a, <3>2, SpanSame
      <4> QED BY <2>1, <4>1 DEF EntryData
    <3>3. CASE e \in F /\ g = fd
      <4> PICK p \in c : e.start = p.start /\ e.size = p.size
        BY <1>6a, <3>3
      <4>1. e.is_copy /\ Span(e) = Span(p)
        BY <1>6a, <3>3, SpanSame
      <4> QED BY <2>0, <2>1, <3>3, <4>1 DEF EntryData
    <3> QED BY <1>7, <1>8, <3>1, <3>2, <3>3
  <2>4. Right(info', jobs', handler', view, untreated_list)
    <3> SUFFICES ASSUME NEW g \in Fds, Alone(info', g), NEW e \in info'[g].upload_list,
                        Final(handler', g) \/ Settled(untreated_list, e)
                 PROVE  RightEntry(g, e, jobs', view)
      BY DEF Right
    <3>1. Alone(info, g)
      BY <1>7, <1>8 DEF Alone
    <3>2. \A r \in Requests(fd, info[fd].upload_id, E \cup F) : ~Begun(r)
      BY NotBegun
    <3>3. CASE e \in info[g].upload_list
      <4>1. Settled(untreated_list, e)
        BY <2>0, <2>1, <3>3
      <4>2. RightEntry(g, e, jobs, view)
        BY <1>13, <3>1, <3>3, <4>1 DEF Data, Right
      <4> QED BY <1>1, <3>2, <4>2 DEF RightEntry
    <3>4. CASE e \in E \cup F
      <4>1. e.etag = NoEtag
        BY <1>6a, <3>4
      <4>2. \A j \in jobs : j.entry.cell # e.cell
        BY <1>9, <3>4 DEF CellsFree
      <4> QED BY <1>1, <3>2, <4>1, <4>2 DEF RightEntry
    <3> QED BY <1>7, <1>8, <3>3, <3>4
  <2>5. Alone(info', fd)
    <3>1. Alone(info, fd)
      BY <1>13, <2>0 DEF Data
    <3> QED BY <1>8, <3>1 DEF Alone
  <2>6. PlanData(info', handler', status, untreated_list)
    BY <2>0 DEF PlanData
  <2>7. OpenFds' = OpenFds
    BY <1>7, <1>8 DEF OpenFds
  <2>8. OpenFds' # {} => /\ Kept(object, view, local, status, size_orgmeta)'
                         /\ Treated(info, handler, status, untreated_list)'
    BY <1>1, <1>13, <2>2, <2>7 DEF Data, SameFile
  <2>9. /\ ListsData(info, handler, status)' /\ Right(info, jobs, handler, view, untreated_list)'
        /\ PlanData(info, handler, status, untreated_list)'
    BY <1>1, <2>3, <2>4, <2>6 DEF SameFile
  <2>10. due' # "punch"
    BY <1>1, <1>13 DEF Data
  <2>11. Marked(status, untreated_list)' /\ (outcome = "ok" => object = view)'
    BY <1>1, <1>13 DEF Data, SameFile
  <2> QED BY <1>12, <2>5, <2>8, <2>9, <2>10, <2>11 DEF Data
<1> QED BY <1>11, <1>13 DEF Keeps

-----------------------------------------------------------------------------
(***************************************************************************)
(* The start of a flush: what it is to upload is in the cache file, what   *)
(* it is to copy is in the object, and the entries it keeps are settled.   *)
(***************************************************************************)
InBlock(n, i) == i - 1 \in Units(Block(n).start, Block(n).size)

LEMMA InBlockIs ==
    ASSUME Size \in Nat, NEW n \in Nat, NEW i \in Int
    PROVE  /\ InBlock(n, i) <=> Block(n).start < i /\ i <= Block(n).start + Block(n).size
           /\ i - 1 \in UntreatedIn(n) <=> InBlock(n, i) /\ Untreated(untreated_list, i)
<1> PICK s \in Nat, z \in Int : s = Block(n).start /\ z = Block(n).size
  BY BlockIs
<1>1. InBlock(n, i) <=> i - 1 \in s..(s + z - 1)
  BY DEF InBlock, Units
<1>2. i - 1 \in s..(s + z - 1) <=> s < i /\ i <= s + z
  OBVIOUS
<1>3. i - 1 \in UntreatedIn(n) <=> InBlock(n, i) /\ Untreated(untreated_list, i)
  BY SameBytes DEF UntreatedIn, InBlock, Untreated
<1> QED BY <1>1, <1>2, <1>3

(* The part of a block that is uploaded, and the one that is copied. *)
Rest(inf, n) == MpPart(Block(n).start + Joined(inf, n), Block(n).size - Joined(inf, n), n + 1)

Copy(inf, n) == MpPart(Block(n).start, Block(n).size + Joined(inf, n + 1), n + 1)

LEMMA RestIs ==
    ASSUME Size \in Nat, NEW inf, NEW n \in Nat, NEW i \in Int
    PROVE  /\ i \in Span(Rest(inf, n)) <=> InBlock(n, i) /\ Block(n).start + Joined(inf, n) < i
           /\ Joined(inf, n) = 0 => (i \in Span(Rest(inf, n)) <=> InBlock(n, i))
<1> PICK s \in Nat, z \in Int, j \in Nat : s = Block(n).start /\ z = Block(n).size /\ j = Joined(inf, n)
  BY BlockIs, JoinedIs
<1>1. Rest(inf, n).start = s + j /\ Rest(inf, n).size = z - j
  BY DEF Rest, MpPart
<1>2. i \in Span(Rest(inf, n)) <=> i \in (s + j + 1)..(s + j + (z - j))
  BY <1>1 DEF Span
<1>3. i \in (s + j + 1)..(s + j + (z - j)) <=> s + j < i /\ i <= s + z
  OBVIOUS
<1>4. InBlock(n, i) <=> s < i /\ i <= s + z
  BY InBlockIs
<1>5. /\ s + j < i /\ i <= s + z <=> (s < i /\ i <= s + z) /\ s + j < i
      /\ j = 0 => (s + j < i /\ i <= s + z <=> s < i /\ i <= s + z)
  OBVIOUS
<1> QED BY <1>2, <1>3, <1>4, <1>5

(* The downloads of a flush. *)
LEMMA ExtractLoads ==
    ASSUME NEW inf, NEW ext, ext = ExtractUploadPartsFromAllArea(inf),
           NEW n \in 0..(Blocks - 1), UploadedIn(inf, n) = {}, ~IsCopied(inf, n),
           NEW u \in Units(Rest(inf, n).start, Rest(inf, n).size), u \notin UntreatedIn(n)
    PROVE  u \in ext.download
<1> DEFINE blocks == 0..(Blocks - 1)
           load == {k \in blocks : UploadedIn(inf, k) = {} /\ ~IsCopied(inf, k)}
<1>1. ext.download = UNION {Units(Rest(inf, k).start, Rest(inf, k).size) \ UntreatedIn(k) : k \in load}
  BY DEF ExtractUploadPartsFromAllArea, ExtractBlocks, Blocks, BlocksOf, Rest
<1>2. n \in load
  OBVIOUS
<1> HIDE DEF load
<1> QED BY <1>1, <1>2

LEMMA ExtractParts ==
    ASSUME NEW inf, NEW ext, ext = ExtractUploadPartsFromAllArea(inf)
    PROVE  /\ ext.upload = {Rest(inf, n) : n \in Up(inf)}
           /\ ext.copy = {Copy(inf, n) : n \in Copied(inf)}
           /\ \A e \in ext.keep : /\ e \in inf.upload_list
                                  /\ \A n \in 0..(Blocks - 1) : UntreatedIn(n) # {} => e \notin UploadedIn(inf, n)
           /\ \A e \in inf.upload_list :
                 e \in ext.keep \/ \E n \in 0..(Blocks - 1) : UntreatedIn(n) # {} /\ e \in UploadedIn(inf, n)
BY ExtractIs DEF Rest, Copy

(* An entry that a write made spans a block of the file. *)
LEMMA EntryBlock ==
    ASSUME Size \in Nat, NEW E, BlockEntries(E, Size), NEW e \in E
    PROVE  \E n \in 0..(Blocks - 1) :
              /\ e.part_num = n + 1 /\ \A i \in Int : i \in Span(e) <=> InBlock(n, i)
<1> PICK m \in Nat \ {0} : m = max_mp_size
  BY MaxTagIs
<1> PICK s \in Nat : s = Size
  OBVIOUS
<1> PICK n \in Nat : e.start = n * m /\ e.size = m /\ e.part_num = n + 1 /\ (n + 1) * m <= s
  BY DEF BlockEntries
<1>1. n * m \in Nat /\ (n + 1) * m = n * m + m /\ Blocks \in Nat /\ (n < Blocks <=> n * m < s)
  BY BlocksAre
<1>2. n * m < s
  BY <1>1
<1>3. n \in 0..(Blocks - 1)
  BY <1>1, <1>2
<1>4. Block(n).start = n * m /\ Block(n).size = m
  BY <1>1 DEF Block
<1>5. ASSUME NEW i \in Int
      PROVE  i \in Span(e) <=> InBlock(n, i)
  <2> PICK a \in Nat : a = n * m
    BY <1>1
  <2>1. i \in Span(e) <=> i \in (a + 1)..(a + m)
    BY DEF Span
  <2>2. InBlock(n, i) <=> a < i /\ i <= a + m
    BY <1>4, InBlockIs
  <2>3. i \in (a + 1)..(a + m) <=> a < i /\ i <= a + m
    OBVIOUS
  <2> QED BY <2>1, <2>2, <2>3
<1> QED BY <1>3, <1>5

LEMMA BlockUnits ==
    ASSUME Size \in Nat, NEW n \in 0..(Blocks - 1), NEW i \in Int, InBlock(n, i)
    PROVE  i \in 1..Size
<1>1. n \in Nat /\ n < Blocks
  BY BlocksAre
<1> PICK s \in Nat, z \in Int : s = Block(n).start /\ z = Block(n).size
  BY <1>1, BlockIs
<1>2. s + z <= Size
  BY <1>1, BlockIs
<1>3. s < i /\ i <= s + z
  BY <1>1, InBlockIs
<1> QED BY <1>2, <1>3

(* A unit of a block that is neither in an untreated area nor in an upload. *)
LEMMA Untouched ==
    ASSUME UploadInv, TypeInv, Data, handler.pc = "idle", OpenFds # {}, NEW fd \in Fds, Alone(info, fd),
           NEW n \in 0..(Blocks - 1), UploadedIn(info[fd], n) = {}, NEW i \in Int, InBlock(n, i),
           i - 1 \notin UntreatedIn(n)
    PROVE  ~Mod(status, i)
<1>0. Size \in Nat /\ n \in Nat
  BY InvFacts, BlocksAre
<1>1. i \in 1..Size
  BY <1>0, BlockUnits
<1>2. ~Untreated(untreated_list, i)
  BY <1>0, InBlockIs
<1> SUFFICES ASSUME Mod(status, i) PROVE FALSE
  OBVIOUS
<1>3. Treated(info, handler, status, untreated_list) /\ ~Planning(handler)
  BY DEF Data, Planning
<1> PICK g \in Fds : \E e \in info[g].upload_list : i \in Span(e)
  BY <1>1, <1>2, <1>3 DEF Treated, Size
<1> PICK e \in info[g].upload_list : i \in Span(e)
  OBVIOUS
<1>4. g = fd
  <2>1. g # fd => info[g].upload_id = 0
    BY DEF Alone
  <2> QED BY <2>1, NoUploadNoList
<1>5. e \in UploadedIn(info[fd], n)
  <2> PICK a \in Nat, c \in Nat, s \in Nat, z \in Int :
        a = e.start /\ c = e.size /\ s = Block(n).start /\ z = Block(n).size
    BY <1>0, <1>4, InvFacts, EntryFacts, InfIsTyped, BlockIs
  <2>1. i \in (a + 1)..(a + c)
    BY DEF Span
  <2>2. s < i /\ i <= s + z
    BY <1>0, InBlockIs
  <2>3. a < s + z /\ s < a + c
    BY <2>1, <2>2
  <2> QED BY <1>4, <2>3 DEF UploadedIn, Overlaps
<1> QED BY <1>5

LEMMA PlanUpload ==
    ASSUME UploadInv, TypeInv, Data, handler.pc = "idle", NEW fd \in Fds, 0 < Size,
           NEW ext, ext = ExtractUploadPartsFromAllArea(info[fd]),
           NEW loc, NEW st, LoadedAs(ext.download, loc, st)
    PROVE  \A p \in ext.upload : \A i \in Span(p) : Has(st, i)
<1> PICK inf : inf = info[fd]
  OBVIOUS
<1>0. Size \in Nat /\ BlockEntries(inf.upload_list, Size)
  <2>1. ~Final(handler, fd)
    BY DEF Final
  <2> QED BY <2>1, InvFacts DEF UploadInv, Good
<1> SUFFICES ASSUME NEW n \in Up(inf), NEW i \in Span(Rest(inf, n))
             PROVE  Has(st, i)
  BY ExtractParts
<1>1. n \in 0..(Blocks - 1) /\ n \in Nat /\ n < Blocks /\ ~IsCopied(inf, n)
  BY <1>0, BlocksAre DEF Up
<1>2. i \in Int
  <2> PICK s \in Nat, z \in Int, j \in Nat : s = Block(n).start /\ z = Block(n).size /\ j = Joined(inf, n)
    BY <1>0, <1>1, BlockIs, JoinedIs
  <2> QED BY DEF Span, Rest, MpPart
<1>3. InBlock(n, i)
  BY <1>0, <1>1, <1>2, RestIs
<1>4. i \in 1..Size
  BY <1>0, <1>1, <1>2, <1>3, BlockUnits
<1>5. Has(st, i) <=> Has(status, i) \/ i - 1 \in ext.download
  BY <1>4 DEF LoadedAs
<1>6. CASE UploadedIn(inf, n) = {}
  <2>1. CASE i - 1 \in UntreatedIn(n)
    <3>1. Untreated(untreated_list, i)
      BY <1>0, <1>1, <1>2, <2>1, InBlockIs
    <3>2. Mod(status, i)
      BY <1>2, <3>1 DEF Data, Marked
    <3> QED BY <1>5, <3>2 DEF Has, Mod
  <2>2. CASE i - 1 \notin UntreatedIn(n)
    <3>1. i - 1 \in Units(Rest(inf, n).start, Rest(inf, n).size)
      <4> PICK a \in Int, z \in Int : a = Rest(inf, n).start /\ z = Rest(inf, n).size
        <5> PICK s \in Nat, y \in Int, j \in Nat : s = Block(n).start /\ y = Block(n).size /\ j = Joined(inf, n)
          BY <1>0, <1>1, BlockIs, JoinedIs
        <5> QED BY DEF Rest, MpPart
      <4>1. i \in (a + 1)..(a + z)
        BY DEF Span
      <4>2. i - 1 \in a..(a + z - 1)
        BY <1>2, <4>1
      <4> QED BY <4>2 DEF Units
    <3>2. i - 1 \in ext.download
      BY <1>1, <1>6, <2>2, <3>1, ExtractLoads
    <3> QED BY <1>5, <3>2
  <2> QED BY <2>1, <2>2
<1>7. CASE UploadedIn(inf, n) # {}
  <2> PICK e \in inf.upload_list : e \in UploadedIn(inf, n)
    BY <1>7 DEF UploadedIn
  <2>1. e.part_num = n + 1
    BY <1>0, <1>1, UploadedIs
  <2> PICK k \in 0..(Blocks - 1) : e.part_num = k + 1 /\ \A x \in Int : x \in Span(e) <=> InBlock(k, x)
    BY <1>0, EntryBlock
  <2>2. k = n
    BY <1>1, <2>1
  <2>3. i \in Span(e)
    BY <1>2, <1>3, <2>2
  <2>4. EntryData(handler, fd, e, status) /\ ~Final(handler, fd)
    BY DEF Data, ListsData, Final
  <2>5. Has(status, i)
    BY <2>3, <2>4 DEF EntryData
  <2> QED BY <1>5, <2>5
<1> QED BY <1>6, <1>7

LEMMA PlanCopy ==
    ASSUME UploadInv, TypeInv, Data, handler.pc = "idle", OpenFds # {}, NEW fd \in Fds, Alone(info, fd),
           NEW ext, ext = ExtractUploadPartsFromAllArea(info[fd])
    PROVE  \A p \in ext.copy : \A i \in Span(p) : i \in 1..Size /\ ~Mod(status, i)
<1> PICK inf : inf = info[fd]
  OBVIOUS
<1>0. Size \in Nat
  BY InvFacts
<1> SUFFICES ASSUME NEW n \in Copied(inf), NEW i \in Span(Copy(inf, n))
             PROVE  i \in 1..Size /\ ~Mod(status, i)
  BY ExtractParts
<1>1. n \in 0..(Blocks - 1) /\ n \in Nat /\ n < Blocks /\ IsCopied(inf, n) /\ n + 1 \in Nat
  BY <1>0, BlocksAre DEF Copied
<1> PICK s \in Nat, z \in Int, j \in Nat : s = Block(n).start /\ z = Block(n).size /\ j = Joined(inf, n + 1)
  BY <1>0, <1>1, BlockIs, JoinedIs
<1>2. i \in (s + 1)..(s + (z + j))
  BY DEF Span, Copy, MpPart
<1>3. i \in Int /\ s < i /\ i <= s + z + j
  BY <1>2
<1>4. CASE i <= s + z
  <2>1. InBlock(n, i)
    BY <1>0, <1>1, <1>3, <1>4, InBlockIs
  <2>2. UntreatedIn(n) = {} /\ UploadedIn(inf, n) = {}
    BY <1>1 DEF IsCopied
  <2> QED BY <1>0, <1>1, <1>3, <2>1, <2>2, Untouched, BlockUnits
<1>5. CASE ~(i <= s + z)
  <2>1. j # 0
    BY <1>3, <1>5
  <2>2. n + 1 < Blocks /\ UploadedIn(inf, n + 1) = {} /\ UntreatedIn(n + 1) # {} /\ Unifies(inf, n + 1) /\ j = Gap(n + 1)
    BY <1>0, <1>1, <2>1, JoinedIs DEF Joined
  <2> PICK k : k = n + 1
    OBVIOUS
  <2>3. k \in 0..(Blocks - 1) /\ k \in Nat
    BY <1>0, <1>1, <2>2, BlocksAre
  <2> PICK t \in Nat, y \in Int : t = Block(k).start /\ y = Block(k).size
    BY <1>0, <2>3, BlockIs
  <2>4. t = s + z
    <3>1. z = max_mp_size /\ s = n * max_mp_size /\ t = k * max_mp_size
      BY <1>0, <1>1, <2>2, <2>3, BlockIs
    <3>2. k * max_mp_size = n * max_mp_size + max_mp_size
      BY <1>0, <1>1, BlocksAre
    <3> QED BY <3>1, <3>2
  <2> PICK S : S = UntreatedIn(k)
    OBVIOUS
  <2>5. S \subseteq t..(t + y - 1) /\ S # {}
    BY <2>2 DEF UntreatedIn, Units
  <2>6. S \in SUBSET Nat
    BY <2>5
  <2> PICK least \in Nat : least = SetMin(S) /\ least \in S /\ \A x \in S : least <= x
    BY <2>5, <2>6, SetMinIs
  <2>7. j = least - t /\ least <= t + y - 1
    BY <2>2, <2>5 DEF Gap
  <2>8. t < i /\ i <= least
    BY <1>3, <1>5, <2>4, <2>7
  <2>9. i - 1 \notin S
    BY <1>3, <2>8
  <2>10. InBlock(k, i)
    <3>1. t < i /\ i <= t + y
      BY <1>3, <2>7, <2>8
    <3> QED BY <1>0, <1>3, <2>3, <3>1, InBlockIs
  <2> QED BY <1>0, <1>3, <2>2, <2>3, <2>9, <2>10, Untouched, BlockUnits
<1> QED BY <1>4, <1>5

LEMMA PlanKeep ==
    ASSUME UploadInv, TypeInv, handler.pc = "idle", NEW fd \in Fds,
           NEW ext, ext = ExtractUploadPartsFromAllArea(info[fd])
    PROVE  /\ \A e \in ext.keep : Settled(untreated_list, e)
           /\ \A e \in info[fd].upload_list : \A i \in Span(e) :
                 e \in ext.keep \/ \E p \in ext.upload : i \in Span(p)
<1> PICK inf : inf = info[fd]
  OBVIOUS
<1>0. Size \in Nat /\ BlockEntries(inf.upload_list, Size)
  <2>1. ~Final(handler, fd)
    BY DEF Final
  <2> QED BY <2>1, InvFacts DEF UploadInv, Good
<1>1. ASSUME NEW e \in inf.upload_list, NEW i \in Span(e)
      PROVE  \E n \in 0..(Blocks - 1) : /\ n \in Nat /\ i \in Int /\ InBlock(n, i) /\ e.part_num = n + 1
                                        /\ e \in UploadedIn(inf, n)
  <2> PICK n \in 0..(Blocks - 1) : e.part_num = n + 1 /\ \A x \in Int : x \in Span(e) <=> InBlock(n, x)
    BY <1>0, EntryBlock
  <2>1. n \in Nat /\ n < Blocks
    BY <1>0, BlocksAre
  <2>2. i \in Int
    BY InfIsTyped, EntryFacts
  <2>3. e \in UploadedIn(inf, n)
    BY <1>0, <2>1, UploadedIs
  <2> QED BY <2>1, <2>2, <2>3
<1>2. ASSUME NEW e \in ext.keep
      PROVE  Settled(untreated_list, e)
  <2> SUFFICES ASSUME NEW i \in Span(e), Untreated(untreated_list, i)
               PROVE  FALSE
    BY DEF Settled
  <2>0. /\ e \in inf.upload_list
        /\ \A n \in 0..(Blocks - 1) : UntreatedIn(n) # {} => e \notin UploadedIn(inf, n)
    BY <1>2, ExtractParts
  <2> PICK n \in 0..(Blocks - 1) : n \in Nat /\ i \in Int /\ InBlock(n, i) /\ e \in UploadedIn(inf, n)
    BY <1>1, <2>0
  <2>1. i - 1 \in UntreatedIn(n)
    BY <1>0, InBlockIs
  <2> QED BY <2>0, <2>1
<1>3. ASSUME NEW e \in inf.upload_list, NEW i \in Span(e), e \notin ext.keep
      PROVE  \E p \in ext.upload : i \in Span(p)
  <2> PICK k \in 0..(Blocks - 1) : UntreatedIn(k) # {} /\ e \in UploadedIn(inf, k)
    BY <1>3, ExtractParts
  <2> PICK n \in 0..(Blocks - 1) : n \in Nat /\ i \in Int /\ InBlock(n, i) /\ e.part_num = n + 1
    BY <1>1
  <2>1. k \in Nat /\ k < Blocks
    BY <1>0, BlocksAre
  <2>2. k = n
    <3>1. e.part_num = k + 1
      BY <1>0, <2>1, UploadedIs
    <3> QED BY <2>1, <3>1
  <2>3. n \in Up(inf)
    BY <2>2 DEF Up, IsCopied
  <2>4. Joined(inf, n) = 0
    BY <1>0, <2>2, JoinedIs
  <2>5. i \in Span(Rest(inf, n))
    BY <1>0, <2>4, RestIs
  <2>6. Rest(inf, n) \in ext.upload
    BY <2>3, ExtractParts
  <2> QED BY <2>5, <2>6
<1> QED BY <1>2, <1>3

LEMMA PreFields ==
    ASSUME DOMAIN info = Fds, NEW inf, DOMAIN inf = InfFields, InfTyped(inf),
           inf.upload_id = 0 => inf.upload_list = {}
    PROVE  LET new == PreMultipartUploadRequest(inf)
           IN  /\ InfTyped(new) /\ new.upload_list = inf.upload_list /\ new.state = inf.state
               /\ new.upload_id # 0 /\ DOMAIN new = InfFields
               /\ new.upload_id = inf.upload_id \/ inf.upload_id = 0
<1> PICK new : new = PreMultipartUploadRequest(inf)
  OBVIOUS
<1>1. CASE inf.upload_id # 0
  BY <1>1 DEF PreMultipartUploadRequest, IsUploading
<1>2. CASE inf.upload_id = 0
  <2> PICK reset : reset = ResetUploadInfo(inf)
    OBVIOUS
  <2>1. InfTyped(reset) /\ reset.upload_list = {} /\ reset.state = inf.state /\ DOMAIN reset = InfFields
    BY ResetFields
  <2>2. new = [reset EXCEPT !.upload_id = NextId]
    BY <1>2 DEF PreMultipartUploadRequest, IsUploading
  <2>3. NextId # 0 /\ NextId \in Ids
    BY NextIdIs
  <2>4. /\ new.upload_list = {} /\ new.state = inf.state /\ new.upload_id = NextId /\ DOMAIN new = InfFields
        /\ new.last_result = reset.last_result
    BY <2>1, <2>2 DEF InfFields
  <2>5. InfTyped(new)
    BY <2>1, <2>3, <2>4 DEF InfTyped
  <2> QED BY <1>2, <2>3, <2>4, <2>5
<1> QED BY <1>1, <1>2

LEMMA KeepFields ==
    ASSUME NEW inf, DOMAIN inf = InfFields, InfTyped(inf), NEW keep
    PROVE  LET new == [inf EXCEPT !.upload_list = keep]
           IN  /\ InfTyped(new) /\ new.upload_list = keep /\ new.state = inf.state
               /\ new.upload_id = inf.upload_id /\ DOMAIN new = InfFields
<1> PICK new : new = [inf EXCEPT !.upload_list = keep]
  OBVIOUS
<1>1. /\ new.upload_list = keep /\ new.state = inf.state /\ new.last_result = inf.last_result
      /\ new.upload_id = inf.upload_id /\ DOMAIN new = InfFields
  BY DEF InfFields
<1>2. InfTyped(new)
  BY <1>1 DEF InfTyped
<1> QED BY <1>1, <1>2

(* The types, whichever way the start of a flush ends. *)
LEMMA ExtractType ==
    ASSUME UploadInv, TypeInv, NEW fd \in Fds, NEW new, info' = [info EXCEPT ![fd] = new],
           InfTyped(new), new.state = info[fd].state, new.upload_list \subseteq info[fd].upload_list,
           NEW units, LoadedAs(units, local', status'), SameDue, UNCHANGED <<object, view, size_orgmeta, jobs>>
    PROVE  TypeInv' /\ Size' = Size /\ OpenFds' = OpenFds
<1>1. DOMAIN info = Fds /\ \A g \in Fds : InfTyped(info[g])
  BY InvFacts, InfIsTyped
<1>2. \A g \in Fds : InfTyped(info'[g]) /\ info'[g].upload_list \subseteq info[g].upload_list
                     /\ info'[g].state = info[g].state
  BY <1>1
<1>3. FileTyped(local', status', size_orgmeta) /\ Len(status') = Size /\ Reach(object, status', size_orgmeta)
  BY LoadKeeps
<1>4. Size' = Size /\ OpenFds' = OpenFds /\ Size \in Nat
  BY <1>2, <1>3, InvFacts DEF Size, OpenFds
<1>5. FileOK'
  BY <1>3, <1>4 DEF TypeInv, FileOK, SameDue
<1>6. ListsOK(info, jobs, Size)'
  BY <1>2, <1>4, ListsSame
<1> QED BY <1>4, <1>5, <1>6 DEF TypeInv

LEMMA FlushExtractFile ==
    ASSUME UploadInv, TypeInv, NEW fd \in Fds, NEW forced \in BOOLEAN, FlushExtract(fd, forced)
    PROVE  Keeps
<1> PICK old : old = info[fd]
  OBVIOUS
<1> PICK ext : ext = ExtractUploadPartsFromAllArea(old)
  OBVIOUS
<1> PICK inf : inf = [old EXCEPT !.upload_list = ext.keep]
  OBVIOUS
<1> PICK new : new = PreMultipartUploadRequest(inf)
  OBVIOUS
<1> PICK k : k = [pc |-> IF ext.wait THEN "wait_cancelled" ELSE "start", fd |-> fd,
                  forced |-> forced, upload |-> ext.upload, copy |-> ext.copy]
  OBVIOUS
<1>0. LoadAndStart(fd, forced, ext) /\ Idle(fd) /\ (forced => due = "flush") /\ (forced \/ IsModified) /\ Size > max_mp_size
  BY DEF FlushExtract, Flushing
<1>1. /\ handler.pc = "idle" /\ old.state = "open" /\ UNCHANGED <<object, view, size_orgmeta, jobs, untreated_list>>
  BY <1>0 DEF LoadAndStart, Idle, areaVars
<1>2. \/ /\ info' = [info EXCEPT ![fd] = inf] /\ ReturnError(forced)
         /\ \E got : local' = Loaded(got) /\ status' = LoadedStatus(got)
      \/ /\ info' = [info EXCEPT ![fd] = new] /\ handler' = k
         /\ local' = Loaded(ext.download) /\ status' = LoadedStatus(ext.download)
         /\ UNCHANGED <<outcome, due>>
         /\ excuses' = IF \E f \in OpenFds \ {fd} : IsUploading(info[f])
                       THEN excuses \cup {"shared"} ELSE excuses
  BY <1>0 DEF LoadAndStart, LoadFails
<1>3. /\ DOMAIN info = Fds /\ DOMAIN old = InfFields /\ InfTyped(old) /\ Size \in Nat /\ 0 < Size
      /\ (old.upload_id = 0 => old.upload_list = {}) /\ BlockEntries(old.upload_list, Size) /\ ~Final(handler, fd)
  <2>1. ~Final(handler, fd)
    BY <1>1 DEF Final
  <2>2. BlockEntries(old.upload_list, Size)
    BY <2>1 DEF UploadInv, Good
  <2>3. Size \in Nat /\ 0 < Size
    BY <1>0, InvFacts, MaxTagIs
  <2> QED BY <2>1, <2>2, <2>3, InvFacts, InfIsTyped, NoUploadNoList
<1>4. ext.keep \subseteq old.upload_list
  BY ExtractParts
<1>5. /\ InfTyped(inf) /\ inf.upload_list = ext.keep /\ inf.state = old.state
      /\ inf.upload_id = old.upload_id /\ DOMAIN inf = InfFields
  <2> PICK keep : keep = ext.keep
    OBVIOUS
  <2> QED BY <1>3, KeepFields
<1>6. /\ InfTyped(new) /\ new.upload_list = ext.keep /\ new.state = old.state /\ new.upload_id # 0
  <2>1. inf.upload_id = 0 => inf.upload_list = {}
    BY <1>3, <1>4, <1>5
  <2> QED BY <1>3, <1>5, <2>1, PreFields
<1>7. CASE /\ info' = [info EXCEPT ![fd] = inf] /\ ReturnError(forced)
           /\ \E got : local' = Loaded(got) /\ status' = LoadedStatus(got)
  <2> PICK got : local' = Loaded(got) /\ status' = LoadedStatus(got)
    BY <1>7
  <2>1. LoadedAs(got, local', status')
    BY LoadIs
  <2>2. excuses' # {} /\ SameDue
    BY <1>7, ErrorExcused, DueTyped
  <2>3. TypeInv'
    BY <1>1, <1>4, <1>5, <1>7, <2>1, <2>2, ExtractType
  <2> QED BY <2>2, <2>3 DEF Keeps
<1>8. CASE /\ info' = [info EXCEPT ![fd] = new] /\ handler' = k
           /\ local' = Loaded(ext.download) /\ status' = LoadedStatus(ext.download)
           /\ UNCHANGED <<outcome, due>>
           /\ excuses' = IF \E f \in OpenFds \ {fd} : IsUploading(info[f])
                         THEN excuses \cup {"shared"} ELSE excuses
  <2>1. LoadedAs(ext.download, local', status')
    BY <1>8, LoadIs
  <2>2. SameDue
    BY <1>8, DueTyped DEF TypeInv, FileOK
  <2>3. TypeInv' /\ Size' = Size /\ OpenFds' = OpenFds
    BY <1>1, <1>4, <1>6, <1>8, <2>1, <2>2, ExtractType
  <2>4. ASSUME Data, excuses' = {}
        PROVE  Data'
    <3>1. Alone(info, fd)
      <4>1. \A g \in OpenFds \ {fd} : info[g].upload_id = 0
        BY <1>8, <2>4 DEF IsUploading
      <4> QED BY <4>1, NoUploadNoList DEF Alone, OpenFds
    <3>2. OpenFds # {} /\ fd \in OpenFds
      BY <1>1 DEF OpenFds
    <3>3. /\ info'[fd] = new /\ \A g \in Fds : g # fd => info'[g] = info[g]
      BY <1>3, <1>8
    <3>4. /\ handler'.pc \in {"wait_cancelled", "start"} /\ handler'.fd = fd
          /\ handler'.upload = ext.upload /\ handler'.copy = ext.copy
      BY <1>8
    <3>5. /\ Planning(handler') /\ Busy(handler') /\ ~Planning(handler)
          /\ \A g \in Fds : ~Final(handler', g) /\ ~Final(handler, g)
      BY <1>1, <3>4 DEF Planning, Busy, Final
    <3>6. /\ Len(status') = Size /\ Len(status) = Size
          /\ \A i \in 1..Size : /\ Mod(status', i) <=> Mod(status, i)
                                /\ Has(status, i) => Has(status', i)
      BY <2>1, <2>3 DEF LoadedAs, Size
    <3>7. Alone(info', fd) /\ \A g \in Fds : Alone(info', g) => g = fd
      BY <1>6, <3>1, <3>3 DEF Alone
    <3>8. Kept(object, view, local, status, size_orgmeta)'
      <4>1. Kept(object, view, local, status, size_orgmeta)
        BY <2>4, <3>2 DEF Data
      <4>2. Kept(object, view, local', status', size_orgmeta)
        BY <2>1, <4>1, LoadKeeps
      <4> QED BY <1>1, <4>2
    <3>9. /\ \A p \in ext.upload : \A i \in Span(p) : Has(status', i)
          /\ \A p \in ext.copy : \A i \in Span(p) : i \in 1..Size /\ ~Mod(status, i)
          /\ \A e \in ext.keep : Settled(untreated_list, e)
          /\ \A e \in old.upload_list : \A i \in Span(e) : e \in ext.keep \/ \E p \in ext.upload : i \in Span(p)
      <4> PICK loc, st : loc = local' /\ st = status'
        OBVIOUS
      <4>1. LoadedAs(ext.download, loc, st)
        BY <2>1
      <4>2. \A p \in ext.upload : \A i \in Span(p) : Has(st, i)
        BY <1>1, <1>3, <2>4, <4>1, PlanUpload
      <4>3. \A p \in ext.copy : \A i \in Span(p) : i \in 1..Size /\ ~Mod(status, i)
        BY <1>1, <2>4, <3>1, <3>2, PlanCopy
      <4>4. /\ \A e \in ext.keep : Settled(untreated_list, e)
            /\ \A e \in info[fd].upload_list : \A i \in Span(e) : e \in ext.keep \/ \E p \in ext.upload : i \in Span(p)
        BY <1>1, PlanKeep
      <4> QED BY <4>2, <4>3, <4>4
    <3>10. Treated(info', handler', status', untreated_list)
      <4> SUFFICES ASSUME NEW i \in 1..Size, Mod(status', i), ~Untreated(untreated_list, i)
                   PROVE  \/ \E g \in Fds : \E e \in info'[g].upload_list : i \in Span(e)
                          \/ \E p \in ext.upload : i \in Span(p)
        BY <3>4, <3>5, <3>6 DEF Treated
      <4>1. Mod(status, i)
        BY <3>6
      <4>2. \E g \in Fds : \E e \in info[g].upload_list : i \in Span(e)
        BY <2>4, <3>2, <3>5, <3>6, <4>1 DEF Data, Treated
      <4> PICK g \in Fds : \E e \in info[g].upload_list : i \in Span(e)
        BY <4>2
      <4> PICK e \in info[g].upload_list : i \in Span(e)
        OBVIOUS
      <4>3. CASE g = fd
        <5>1. e \in ext.keep \/ \E p \in ext.upload : i \in Span(p)
          BY <3>9, <4>3
        <5>2. e \in ext.keep => e \in info'[fd].upload_list
          BY <1>6, <3>3
        <5> QED BY <5>1, <5>2
      <4>4. CASE g # fd
        BY <3>3, <4>4
      <4> QED BY <4>3, <4>4
    <3>11. Marked(status', untreated_list)
      BY <2>4, <3>6 DEF Data, Marked
    <3>12. due' # "punch"
      <4>1. CASE forced
        BY <1>0, <1>8, <4>1
      <4>2. CASE ~forced
        <5>1. ~Clean(status)
          BY <1>0, <4>2 DEF IsModified, Clean, Mod, Size
        <5> QED BY <1>8, <2>4, <5>1 DEF Data
      <4> QED BY <4>1, <4>2
    <3>13. ListsData(info', handler', status')
      <4> SUFFICES ASSUME NEW g \in Fds, NEW e \in info'[g].upload_list
                   PROVE  EntryData(handler', g, e, status')
        BY DEF ListsData
      <4>1. e \in info[g].upload_list
        BY <1>4, <1>6, <3>3
      <4>2. EntryData(handler, g, e, status)
        BY <2>4, <4>1 DEF Data, ListsData
      <4>3. ~e.is_copy /\ \A i \in Span(e) : Has(status, i)
        BY <3>5, <4>2 DEF EntryData
      <4>4. \A i \in Span(e) : i \in 1..Size
        <5>1. EntryIn(e, Size)
          BY <4>1, InfIsTyped
        <5> TAKE i \in Span(e)
        <5>2. i \in Nat /\ 0 < i /\ i <= e.start + e.size /\ e.start + e.size <= Size
              /\ e.start \in Nat /\ e.size \in Nat
          BY <5>1, EntryFacts
        <5> QED BY <1>3, <5>2
      <4> QED BY <3>6, <4>3, <4>4 DEF EntryData
    <3>14. Right(info', jobs', handler', view, untreated_list)
      <4> SUFFICES ASSUME NEW g \in Fds, Alone(info', g), NEW e \in info'[g].upload_list,
                          Final(handler', g) \/ Settled(untreated_list, e)
                   PROVE  RightEntry(g, e, jobs', view)
        BY DEF Right
      <4>1. g = fd /\ Settled(untreated_list, e) /\ e \in info[fd].upload_list
        BY <1>4, <1>6, <3>3, <3>5, <3>7
      <4>2. RightEntry(fd, e, jobs, view)
        BY <2>4, <3>1, <4>1 DEF Data, Right
      <4> QED BY <1>1, <4>1, <4>2
    <3>15. PlanData(info', handler', status', untreated_list)
      <4>1. \A p \in ext.copy : \A i \in Span(p) : ~Mod(status', i)
        BY <3>6, <3>9
      <4> QED BY <1>6, <3>3, <3>4, <3>9, <4>1 DEF PlanData
    <3>16. Alone(info', handler'.fd)
      BY <3>4, <3>7
    <3>17. (outcome = "ok" => object = view)'
      BY <1>1, <1>8, <2>4 DEF Data
    <3>18. /\ Treated(info, handler, status, untreated_list)' /\ Marked(status, untreated_list)'
           /\ ListsData(info, handler, status)' /\ Right(info, jobs, handler, view, untreated_list)'
           /\ PlanData(info, handler, status, untreated_list)'
      BY <1>1, <3>10, <3>11, <3>13, <3>14, <3>15
    <3> QED BY <3>8, <3>12, <3>16, <3>17, <3>18 DEF Data
  <2> QED BY <2>3, <2>4 DEF Keeps
<1> QED BY <1>2, <1>7, <1>8

-----------------------------------------------------------------------------
(***************************************************************************)
(* The object that S3 puts together: the unit at a position is that of the *)
(* part which lies there.                                                  *)
(***************************************************************************)
LEMMA RankIs ==
    ASSUME NEW size \in Nat, NEW S, NEW pos \in [S -> 1..size], \A i \in 1..size : \E u \in S : pos[u] = i,
           \A u, v \in S : pos[u] = pos[v] => u = v, NEW k \in 0..size
    PROVE  Cardinality({v \in S : pos[v] <= k}) = k
<1> DEFINE T == {v \in S : pos[v] <= k}
           f == [i \in 1..k |-> CHOOSE u \in S : pos[u] = i]
<1>1. \A i \in 1..k : i \in 1..size
  OBVIOUS
<1>2. \A i \in 1..k : f[i] \in S /\ pos[f[i]] = i
  BY <1>1
<1>3. f \in [1..k -> T]
  BY <1>2
<1>4. \A y \in T : pos[y] \in 1..k /\ f[pos[y]] = y
  BY <1>2
<1>5. \A x, y \in 1..k : f[x] = f[y] => x = y
  BY <1>2
<1>6. IsFiniteSet(1..k) /\ Cardinality(1..k) = k
  <2>1. IsFiniteSet(1..k) /\ Cardinality(1..k) = IF 1 > k THEN 0 ELSE k - 1 + 1
    BY FS_Interval
  <2> QED BY <2>1
<1>8. \A y \in T : \E x \in 1..k : f[x] = y
  BY <1>4
<1> HIDE DEF f, T
<1>7. Cardinality(T) = Cardinality(1..k)
  BY <1>3, <1>5, <1>6, <1>8, ImageFinite
<1> QED BY <1>6, <1>7 DEF T

(* Every position of the file lies in one part. *)
LEMMA CutOf ==
    ASSUME NEW P, NEW b, NEW cut, NEW size \in Nat, Cuts(cut, P, b, size), NEW i \in 1..size
    PROVE  \E n \in 0..(b - 1) : cut[n] < i /\ i <= cut[n + 1]
<1> DEFINE S == {n \in 0..b : i <= cut[n]}
<1>1. /\ b \in Nat /\ 0 < b /\ cut \in [0..b -> Nat] /\ cut[0] = 0 /\ cut[b] = size
  BY DEF Cuts
<1>2. S \in SUBSET Nat /\ b \in S
  BY <1>1
<1> HIDE DEF S
<1> PICK x \in S : \A y \in S : x <= y
  BY <1>2, UP!LeastOf, AreasAssumption
<1>3. x \in 0..b /\ i <= cut[x]
  BY DEF S
<1>4. x # 0
  BY <1>1, <1>3
<1> PICK n \in 0..(b - 1) : x = n + 1
  <2>1. x - 1 \in 0..(b - 1) /\ x = (x - 1) + 1
    BY <1>1, <1>3, <1>4
  <2> QED BY <2>1
<1>5. n \notin S /\ n \in 0..b
  BY <1>1
<1>6. ~(i <= cut[n]) /\ cut[n] \in Nat
  BY <1>1, <1>5 DEF S
<1> QED BY <1>3, <1>6

(* The units of the parts, in the order of the part numbers. *)
PartUnits(E) == UNION {{<<p.part_num, k>> : k \in 1..Len(p.etag)} : p \in E}

Before(v, u) == v[1] < u[1] \/ (v[1] = u[1] /\ v[2] <= u[2])

EtagsWhole(E) == \A p \in E : Len(p.etag) = p.size

(* A unit is that of the block n, its position is k behind the cut. *)
UnitAt(u, n, k, cut) == u = <<n + 1, k>> /\ k \in 1..(cut[n + 1] - cut[n])

LEMMA PartUnitsAre ==
    ASSUME NEW E, NEW b, NEW cut, NEW size \in Nat, Cuts(cut, Shapes(E), b, size), EtagsWhole(E)
    PROVE  /\ \A u \in PartUnits(E) : \E n \in 0..(b - 1) : \E k \in Nat : UnitAt(u, n, k, cut)
           /\ \A n \in 0..(b - 1) : \A k \in 1..(cut[n + 1] - cut[n]) : <<n + 1, k>> \in PartUnits(E)
           /\ \A n \in 0..(b - 1) : \E e \in E : e.start = cut[n] /\ e.size = cut[n + 1] - cut[n] /\ e.part_num = n + 1
<1>1. Shapes(E) = {MpPart(cut[n], cut[n + 1] - cut[n], n + 1) : n \in 0..(b - 1)}
  BY DEF Cuts
<1>2. ASSUME NEW e \in E
      PROVE  \E n \in 0..(b - 1) : e.start = cut[n] /\ e.size = cut[n + 1] - cut[n] /\ e.part_num = n + 1
  <2>1. Shape(e) \in Shapes(E)
    BY DEF Shapes
  <2>2. PICK n \in 0..(b - 1) : Shape(e) = MpPart(cut[n], cut[n + 1] - cut[n], n + 1)
    BY <1>1, <2>1
  <2> QED BY <2>2 DEF Shape, MpPart
<1>3. ASSUME NEW n \in 0..(b - 1)
      PROVE  \E e \in E : e.start = cut[n] /\ e.size = cut[n + 1] - cut[n] /\ e.part_num = n + 1
  <2>1. MpPart(cut[n], cut[n + 1] - cut[n], n + 1) \in Shapes(E)
    BY <1>1
  <2>2. PICK e \in E : Shape(e) = MpPart(cut[n], cut[n + 1] - cut[n], n + 1)
    BY <2>1 DEF Shapes
  <2> QED BY <2>2 DEF Shape, MpPart
<1>4. ASSUME NEW u \in PartUnits(E)
      PROVE  \E n \in 0..(b - 1) : \E k \in Nat : UnitAt(u, n, k, cut)
  <2> PICK p \in E : u \in {<<p.part_num, k>> : k \in 1..Len(p.etag)}
    BY DEF PartUnits
  <2> PICK k \in 1..Len(p.etag) : u = <<p.part_num, k>>
    OBVIOUS
  <2> PICK n \in 0..(b - 1) : p.size = cut[n + 1] - cut[n] /\ p.part_num = n + 1
    BY <1>2
  <2>1. k \in 1..(cut[n + 1] - cut[n])
    BY DEF EtagsWhole
  <2>2. cut[n] \in Nat /\ cut[n + 1] \in Nat
    BY DEF Cuts
  <2>3. k \in Nat
    BY <2>1, <2>2
  <2> QED BY <2>1, <2>3 DEF UnitAt
<1>5. ASSUME NEW n \in 0..(b - 1), NEW k \in 1..(cut[n + 1] - cut[n])
      PROVE  <<n + 1, k>> \in PartUnits(E)
  <2> PICK p \in E : p.size = cut[n + 1] - cut[n] /\ p.part_num = n + 1
    BY <1>3
  <2>1. k \in 1..Len(p.etag)
    BY DEF EtagsWhole
  <2>2. <<n + 1, k>> \in {<<p.part_num, i>> : i \in 1..Len(p.etag)}
    BY <2>1
  <2> QED BY <2>2 DEF PartUnits
<1> QED BY <1>3, <1>4, <1>5

(* The order of the units is that of their positions. *)
LEMMA UnitOrder ==
    ASSUME NEW P, NEW b, NEW cut, NEW size \in Nat, Cuts(cut, P, b, size),
           NEW u, NEW n \in 0..(b - 1), NEW k, UnitAt(u, n, k, cut),
           NEW v, NEW m \in 0..(b - 1), NEW j, UnitAt(v, m, j, cut)
    PROVE  /\ Before(v, u) <=> cut[m] + j <= cut[n] + k
           /\ cut[m] + j = cut[n] + k => v = u
           /\ cut[n] + k \in 1..size
<1>1. b \in Nat /\ cut \in [0..b -> Nat] /\ cut[b] = size /\ \A x \in 0..(b - 1) : cut[x] < cut[x + 1]
  BY DEF Cuts
<1>2. n \in Nat /\ m \in Nat /\ n + 1 <= b /\ m + 1 <= b /\ n \in 0..b /\ m \in 0..b /\ n + 1 \in 0..b /\ m + 1 \in 0..b
      /\ b \in 0..b
  BY <1>1
<1> PICK c \in Nat, d \in Nat, x \in Nat, y \in Nat : c = cut[n] /\ d = cut[n + 1] /\ x = cut[m] /\ y = cut[m + 1]
  BY <1>1, <1>2
<1>3. k \in 1..(d - c) /\ j \in 1..(y - x) /\ u = <<n + 1, k>> /\ v = <<m + 1, j>>
  BY DEF UnitAt
<1>4. k \in Nat /\ j \in Nat /\ 0 < k /\ 0 < j /\ c + k <= d /\ x + j <= y
  BY <1>3
<1>5. d <= size
  <2>1. cut[n + 1] <= cut[b]
    BY <1>1, <1>2, CutsGrow
  <2> QED BY <1>1, <2>1
<1>6. u[1] = n + 1 /\ u[2] = k /\ v[1] = m + 1 /\ v[2] = j
  BY <1>3
<1>7. CASE m = n
  <2>1. x = c
    BY <1>7
  <2>2. Before(v, u) <=> j <= k
    BY <1>2, <1>6, <1>7 DEF Before
  <2>3. (x + j <= c + k <=> j <= k) /\ (x + j = c + k => j = k)
    BY <1>4, <2>1
  <2> QED BY <1>3, <1>4, <1>5, <1>7, <2>2, <2>3
<1>8. CASE m < n
  <2>1. m + 1 <= n
    BY <1>2, <1>8
  <2>2. y <= c
    BY <1>1, <1>2, <2>1, CutsGrow
  <2>3. Before(v, u)
    BY <1>2, <1>6, <1>8 DEF Before
  <2> QED BY <1>4, <1>5, <2>2, <2>3
<1>9. CASE n < m
  <2>1. n + 1 <= m
    BY <1>2, <1>9
  <2>2. d <= x
    BY <1>1, <1>2, <2>1, CutsGrow
  <2>3. ~Before(v, u)
    BY <1>2, <1>6, <1>9 DEF Before
  <2> QED BY <1>4, <1>5, <2>2, <2>3
<1> QED BY <1>2, <1>7, <1>8, <1>9

RankOf(S, u) == Cardinality({v \in S : Before(v, u)})

UnitOf(S, i) == CHOOSE u \in S : RankOf(S, u) = i

LEMMA AssembledUnits ==
    ASSUME NEW inf
    PROVE  Assembled(inf) = [i \in 1..Cardinality(PartUnits(inf.upload_list)) |->
                                parts[inf.upload_id][UnitOf(PartUnits(inf.upload_list), i)[1]]
                                                    [UnitOf(PartUnits(inf.upload_list), i)[2]]]
  BY Zenon DEF Assembled, PartUnits, Before, RankOf, UnitOf

LEMMA AssembledIs ==
    ASSUME NEW inf, NEW size \in Nat, MakesFile(Shapes(inf.upload_list), size), EtagsWhole(inf.upload_list)
    PROVE  /\ Assembled(inf) = [i \in 1..size |-> Assembled(inf)[i]]
           /\ \A i \in 1..size : \E p \in inf.upload_list : \E k \in 1..p.size :
                 p.start + k = i /\ Assembled(inf)[i] = parts[inf.upload_id][p.part_num][k]
<1> PICK E : E = inf.upload_list
  OBVIOUS
<1> PICK b, cut : b = BlocksOf(size) /\ Cuts(cut, Shapes(E), b, size)
  BY DEF MakesFile
<1> DEFINE units == PartUnits(E)
           pos == [u \in units |-> cut[u[1] - 1] + u[2]]
           rank(u) == RankOf(units, u)
           unit(i) == UnitOf(units, i)
           byte(i) == parts[inf.upload_id][unit(i)[1]][unit(i)[2]]
<1>0. b \in Nat /\ \A n \in 0..b : cut[n] \in Nat
  BY DEF Cuts
<1>1. /\ \A u \in units : \E n \in 0..(b - 1) : \E k \in Nat : UnitAt(u, n, k, cut)
      /\ \A n \in 0..(b - 1) : \A k \in 1..(cut[n + 1] - cut[n]) : <<n + 1, k>> \in units
      /\ \A n \in 0..(b - 1) : \E e \in E : e.start = cut[n] /\ e.size = cut[n + 1] - cut[n] /\ e.part_num = n + 1
  BY PartUnitsAre
<1>2. ASSUME NEW u \in units, NEW n \in 0..(b - 1), NEW k \in Nat, UnitAt(u, n, k, cut)
      PROVE  pos[u] = cut[n] + k
  <2>1. u[1] - 1 = n /\ u[2] = k
    BY <1>0, <1>2 DEF UnitAt
  <2> QED BY <2>1
<1> HIDE DEF pos, units
<1>3. \A u, v \in units : /\ Before(v, u) <=> pos[v] <= pos[u]
                          /\ pos[u] = pos[v] => u = v
                          /\ pos[u] \in 1..size
  <2> TAKE u, v \in units
  <2> PICK n \in 0..(b - 1), k \in Nat : UnitAt(u, n, k, cut)
    BY <1>1
  <2> PICK m \in 0..(b - 1), j \in Nat : UnitAt(v, m, j, cut)
    BY <1>1
  <2>1. pos[u] = cut[n] + k /\ pos[v] = cut[m] + j
    BY <1>2
  <2>2. /\ Before(v, u) <=> cut[m] + j <= cut[n] + k
        /\ cut[m] + j = cut[n] + k => v = u
        /\ cut[n] + k \in 1..size
    BY UnitOrder
  <2> QED BY <2>1, <2>2
<1>4. pos \in [units -> 1..size]
  BY <1>3 DEF pos
<1>5. \A i \in 1..size : \E u \in units : pos[u] = i
  <2> TAKE i \in 1..size
  <2> PICK n \in 0..(b - 1) : cut[n] < i /\ i <= cut[n + 1]
    BY CutOf
  <2>0. n \in 0..b /\ n + 1 \in 0..b
    BY <1>0
  <2> PICK c \in Nat, d \in Nat : c = cut[n] /\ d = cut[n + 1]
    BY <1>0, <2>0
  <2> PICK k \in Nat : k = i - c
    OBVIOUS
  <2>1. k \in 1..(d - c) /\ c + k = i
    OBVIOUS
  <2> PICK u : u = <<n + 1, k>>
    OBVIOUS
  <2>2. u \in units
    BY <1>1, <2>1
  <2>3. UnitAt(u, n, k, cut)
    BY <2>1 DEF UnitAt
  <2> QED BY <1>2, <2>1, <2>2, <2>3
<1>6. \A k \in 0..size : Cardinality({v \in units : pos[v] <= k}) = k
  BY <1>3, <1>4, <1>5, RankIs
<1>7. Cardinality(units) = size
  <2>1. {v \in units : pos[v] <= size} = units
    BY <1>3
  <2> QED BY <1>6, <2>1
<1>8. \A u \in units : rank(u) = pos[u]
  <2> TAKE u \in units
  <2>1. {v \in units : Before(v, u)} = {v \in units : pos[v] <= pos[u]}
    BY <1>3
  <2>3. rank(u) = Cardinality({v \in units : Before(v, u)})
    BY DEF RankOf
  <2>2. pos[u] \in 0..size
    BY <1>3
  <2> HIDE DEF rank
  <2> QED BY <1>6, <2>1, <2>2, <2>3
<1> PICK g : g = Assembled(inf)
  OBVIOUS
<1>9. g = [i \in 1..Cardinality(units) |-> byte(i)]
  BY Zenon, AssembledUnits DEF units
<1>10. \A i \in 1..size : unit(i) \in units /\ pos[unit(i)] = i
  <2> TAKE i \in 1..size
  <2>1. \E u \in units : rank(u) = i
    BY <1>5, <1>8
  <2>2. unit(i) \in units /\ rank(unit(i)) = i
    BY <2>1, Zenon DEF UnitOf
  <2> HIDE DEF rank, unit
  <2> QED BY <1>8, <2>2
<1> HIDE DEF unit
<1>11. g = [i \in 1..size |-> byte(i)]
  BY <1>7, <1>9
<1>12. g = [i \in 1..size |-> g[i]]
  BY <1>11
<1>13. ASSUME NEW i \in 1..size
       PROVE  \E p \in E : \E k \in 1..p.size : p.start + k = i /\ g[i] = parts[inf.upload_id][p.part_num][k]
  <2>1. g[i] = byte(i)
    BY <1>11
  <2> PICK u \in units : u = unit(i) /\ pos[u] = i
    BY <1>10
  <2> PICK n \in 0..(b - 1), k \in Nat : UnitAt(u, n, k, cut)
    BY <1>1
  <2>2. cut[n] + k = i
    BY <1>2
  <2>3. u[1] = n + 1 /\ u[2] = k /\ k \in 1..(cut[n + 1] - cut[n])
    BY DEF UnitAt
  <2> PICK p \in E : p.start = cut[n] /\ p.size = cut[n + 1] - cut[n] /\ p.part_num = n + 1
    BY <1>1
  <2>4. g[i] = parts[inf.upload_id][p.part_num][k]
    BY <2>1, <2>3
  <2>5. k \in 1..p.size /\ p.start + k = i
    BY <2>2, <2>3
  <2> QED BY <2>4, <2>5
<1> QED BY <1>12, <1>13

-----------------------------------------------------------------------------
(* What S3 puts together of the parts of a flush that has ended. *)
(* An object of n bytes, put together from the bodies of these entries. *)
MadeOf(obj, list, n) ==
    /\ obj = [i \in 1..n |-> obj[i]]
    /\ \A i \in 1..n : obj[i] \in Vals
    /\ \A i \in 1..n : \E p \in list : \E k \in 1..p.size :
          p.start + k = i /\ p.etag # NoEtag /\ obj[i] = p.etag[k]

LEMMA CompletedObject ==
    ASSUME UploadInv, TypeInv, handler.pc = "complete", NEW inf, inf = info[handler.fd], Acceptable(inf)
    PROVE  MadeOf(Assembled(inf), inf.upload_list, Size)
<1>1. handler.fd \in Fds /\ HandlerOK(handler, inf, Size) /\ Size \in Nat
  BY HandlerInfo, InvFacts
<1>2. MakesFile(Shapes(inf.upload_list), Size)
  BY <1>1 DEF HandlerOK
<1>3. ASSUME NEW p \in inf.upload_list
      PROVE  /\ p.etag # NoEtag /\ p.etag \in Datum(p.size) /\ p.size \in Nat /\ Len(p.etag) = p.size
             /\ parts[inf.upload_id][p.part_num] = p.etag
  <2>1. p.etag # NoEtag /\ parts[inf.upload_id][p.part_num] = p.etag
    BY DEF Acceptable
  <2>2. EntryIn(p, Size)
    BY <1>1, InfIsTyped
  <2>3. p.size \in Nat
    BY <2>2, EntryFacts
  <2>4. p.etag \in Datum(p.size)
    BY <2>1, <2>2 DEF EntryIn
  <2>5. Len(p.etag) = p.size
    BY <2>3, <2>4, FunctionLen DEF Datum
  <2> QED BY <2>1, <2>3, <2>4, <2>5
<1>4. EtagsWhole(inf.upload_list)
  BY <1>3 DEF EtagsWhole
<1> PICK d : d = Assembled(inf)
  OBVIOUS
<1>5. /\ d = [i \in 1..Size |-> d[i]]
      /\ \A i \in 1..Size : \E p \in inf.upload_list : \E k \in 1..p.size :
            p.start + k = i /\ d[i] = parts[inf.upload_id][p.part_num][k]
  BY <1>1, <1>2, <1>4, AssembledIs
<1>6. \A i \in 1..Size : \E p \in inf.upload_list : \E k \in 1..p.size :
         p.start + k = i /\ p.etag # NoEtag /\ d[i] = p.etag[k]
  BY <1>3, <1>5
<1>7. ASSUME NEW i \in 1..Size
      PROVE  d[i] \in Vals
  <2> PICK p \in inf.upload_list : \E k \in 1..p.size : p.start + k = i /\ p.etag # NoEtag /\ d[i] = p.etag[k]
    BY <1>6
  <2> PICK k \in 1..p.size : d[i] = p.etag[k]
    OBVIOUS
  <2> QED BY <1>3 DEF Datum
<1> QED BY <1>5, <1>6, <1>7 DEF MadeOf

(* The upload is completed: the object is the file. *)
LEMMA CompletedFile ==
    ASSUME UploadInv, TypeInv, handler.pc = "complete", NEW inf, inf = info[handler.fd], Acceptable(inf),
           object' = Assembled(inf), untreated_list' = <<>>,
           info' = [info EXCEPT ![handler.fd] = ResetUploadInfo(inf)],
           status' = AllCleared(status), Return(handler.forced, "ok"),
           UNCHANGED <<local, size_orgmeta, view, jobs>>
    PROVE  TypeInv' /\ (Data => Data')
<1> PICK fd : fd = handler.fd
  OBVIOUS
<1> PICK n \in Nat : n = Size
  BY InvFacts
<1>1. fd \in Fds /\ DOMAIN info[fd] = InfFields /\ InfTyped(info[fd]) /\ n <= MaxSize
      /\ FileTyped(local, status, size_orgmeta) /\ DataTyped(view)
  BY HandlerInfo, InvFacts, InfIsTyped
<1>2. /\ \A g \in Fds : InfTyped(info'[g]) /\ info'[g].upload_list \subseteq info[g].upload_list
      /\ \A g \in Fds : info'[g].state = "open" => info[g].state = "open"
      /\ info'[fd].upload_list = {} /\ info'[fd].upload_id = 0
      /\ \A g \in Fds : g # fd => info'[g] = info[g]
  <2>1. /\ InfTyped(ResetUploadInfo(inf)) /\ ResetUploadInfo(inf).upload_list = {}
        /\ ResetUploadInfo(inf).upload_id = 0 /\ ResetUploadInfo(inf).state = info[fd].state
    BY <1>1, ResetFields
  <2>2. /\ \A g \in Fds : InfTyped(info'[g]) /\ info'[g].upload_list \subseteq info[g].upload_list
        /\ \A g \in Fds : info'[g].state = "open" => info[g].state = "open"
        /\ info'[fd] = ResetUploadInfo(inf) /\ \A g \in Fds : g # fd => info'[g] = info[g]
    BY <1>1, <2>1, ResetLists
  <2> QED BY <2>1, <2>2
<1>3. /\ local = [i \in 1..n |-> local[i]] /\ status = [i \in 1..n |-> status[i]]
      /\ \A i \in 1..n : local[i] \in Vals /\ status[i] \in Mark
  BY <1>1 DEF FileTyped, Datum, Size
<1>4. /\ status' = [i \in 1..n |-> status'[i]]
      /\ \A i \in 1..n : status'[i] \in Mark /\ ~Mod(status', i) /\ status'[i].loaded = status[i].loaded
  <2>1. /\ AllCleared(status) = [i \in 1..n |-> AllCleared(status)[i]]
        /\ \A i \in 1..n : /\ AllCleared(status)[i] \in Mark /\ ~Mod(AllCleared(status), i)
                           /\ AllCleared(status)[i].loaded = status[i].loaded
    BY ONLY <1>3, n \in Nat, ClearedIs
  <2> QED BY <2>1
<1>5. FileTyped(local', status', size_orgmeta') /\ Len(status') = n
  <2> PICK st : st = status'
    OBVIOUS
  <2>1. st = [i \in 1..n |-> st[i]] /\ \A i \in 1..n : local[i] \in Vals /\ st[i] \in Mark
    BY <1>3, <1>4
  <2>2. n \in Nat /\ n <= MaxSize /\ size_orgmeta \in 0..MaxSize /\ local = [i \in 1..n |-> local[i]]
    BY <1>1, <1>3 DEF FileTyped
  <2>3. FileTyped(local, st, size_orgmeta) /\ Len(st) = n
    BY ONLY <2>1, <2>2, FileTypedIs
  <2> QED BY <2>3
<1>6. /\ object' = [i \in 1..n |-> object'[i]]
      /\ \A i \in 1..n : object'[i] \in Vals
      /\ \A i \in 1..n : \E p \in info[fd].upload_list : \E k \in 1..p.size :
            p.start + k = i /\ p.etag # NoEtag /\ object'[i] = p.etag[k]
  <2>1. MadeOf(Assembled(inf), inf.upload_list, Size)
    BY CompletedObject
  <2>2. MadeOf(object', info[fd].upload_list, n)
    BY <2>1
  <2> QED BY <2>2 DEF MadeOf
<1>7. DataTyped(object') /\ Len(object') = n
  <2> PICK d : d = object'
    OBVIOUS
  <2>1. d = [i \in 1..n |-> d[i]] /\ \A i \in 1..n : d[i] \in Vals
    BY <1>6
  <2>2. DataTyped(d) /\ Len(d) = n
    BY ONLY <2>1, n \in Nat, <1>1, DatumIs
  <2> QED BY <2>2
<1>8. outcome' = "ok" /\ (due' = due \/ due' = "punch") /\ handler'.pc = "idle"
  BY DEF Return, NoHandler
<1>9. OpenFds' # {} => OpenFds # {}
  BY <1>2 DEF OpenFds
<1>10. FileOK'
  <2>1. Reach(object', status', size_orgmeta')
    BY <1>5, <1>7 DEF Reach
  <2>2. due' \in {"nothing", "flush", "punch"} /\ outcome' \in {"none", "ok", "error"}
    BY <1>8 DEF TypeInv, FileOK
  <2>3. Size' = n
    BY <1>5 DEF Size
  <2>4. OpenFds' # {} => Len(view') = n
    BY <1>9 DEF TypeInv, FileOK
  <2> QED BY <1>1, <1>5, <1>7, <2>1, <2>2, <2>3, <2>4 DEF FileOK
<1>11. ListsOK(info, jobs, Size)'
  <2>1. Size' \in Nat /\ Size <= Size' /\ jobs' \subseteq jobs
    BY <1>5 DEF Size
  <2> QED BY <1>2, <2>1, ListsSame
<1>12. ASSUME Data
       PROVE  Data'
  <2>1. Busy(handler) /\ Final(handler, fd)
    BY DEF Busy, Final
  <2>2. Alone(info, fd)
    BY <1>12, <2>1 DEF Data
  <2>3. NoLists(info') /\ NoUploads(info')
    <3>1. ASSUME NEW g \in Fds
          PROVE  info'[g].upload_list = {} /\ info'[g].upload_id = 0
      <4>1. g # fd => info[g].upload_list = {} /\ info[g].upload_id = 0
        BY <2>2, NoUploadNoList DEF Alone
      <4> QED BY <1>2, <4>1
    <3> QED BY <3>1 DEF NoLists, NoUploads
  <2>4. OpenFds # {} /\ Len(view) = n
    <3>1. info[fd].upload_list # {}
      BY DEF Acceptable
    <3>2. info[fd].state = "open"
      BY <1>1, <3>1, NoUploadNoList
    <3> QED BY <1>1, <3>2 DEF OpenFds, TypeInv, FileOK
  <2>5. \A i \in 1..n : object'[i] = view[i]
    <3> TAKE i \in 1..n
    <3> PICK p \in info[fd].upload_list : \E k \in 1..p.size :
                p.start + k = i /\ p.etag # NoEtag /\ object'[i] = p.etag[k]
      BY <1>6
    <3> PICK k \in 1..p.size : p.start + k = i /\ p.etag # NoEtag /\ object'[i] = p.etag[k]
      OBVIOUS
    <3>1. RightEntry(fd, p, jobs, view)
      BY <1>1, <1>12, <2>1, <2>2 DEF Data, Right
    <3> QED BY <3>1 DEF RightEntry, Holds
  <2>6. object' = view'
    <3>1. view \in [1..n -> Vals]
      BY <1>1, <2>4 DEF DataTyped, Datum
    <3> QED BY <1>6, <2>5, <3>1
  <2>7. Kept(object, view, local, status, size_orgmeta)'
    <3>1. Kept(object, view, local, status, size_orgmeta)
      BY <1>12, <2>4 DEF Data
    <3>2. ASSUME NEW i \in 1..n
          PROVE  /\ i <= n /\ object'[i] = view[i]
                 /\ Has(status', i) \/ size_orgmeta < i => local[i] = view[i]
      <4>1. Has(status', i) => Has(status, i)
        BY <1>4 DEF Has, Mod
      <4>2. Has(status, i) \/ size_orgmeta < i => local[i] = view[i]
        BY <3>1 DEF Kept, Size
      <4> QED BY <2>5, <4>1, <4>2
    <3>3. Kept(object', view, local, status', size_orgmeta)
      BY <1>5, <1>7, <3>2 DEF Kept
    <3> QED BY <3>3
  <2>8. Treated(info, handler, status, untreated_list)' /\ Clean(status)'
    BY <1>4, <1>5 DEF Treated, Clean
  <2>9. Marked(status, untreated_list)'
    BY NoBytes DEF Marked
  <2> QED BY <1>8, <2>3, <2>6, <2>7, <2>8, <2>9, NoListsData DEF Data
<1> QED BY <1>10, <1>11, <1>12 DEF TypeInv

LEMMA CompleteFile ==
    ASSUME UploadInv, TypeInv, Complete
    PROVE  Keeps
<1> PICK inf : inf = info[handler.fd]
  OBVIOUS
<1>1. handler.pc = "complete" /\ UNCHANGED <<local, size_orgmeta, view, jobs>>
  BY DEF Complete
<1>2. CASE GiveUp /\ UNCHANGED <<object, status>>
  BY <1>1, <1>2, GiveUpFile
<1>3. CASE /\ Acceptable(inf) /\ object' = Assembled(inf) /\ untreated_list' = <<>>
           /\ info' = [info EXCEPT ![handler.fd] = ResetUploadInfo(@)]
           /\ status' = AllCleared(status) /\ Return(handler.forced, "ok")
  <2>1. info' = [info EXCEPT ![handler.fd] = ResetUploadInfo(inf)]
    BY <1>3, HandlerInfo, <1>1
  <2>2. TypeInv' /\ (Data => Data')
    BY <1>1, <1>3, <2>1, CompletedFile
  <2> QED BY <2>2 DEF Keeps
<1> QED BY <1>2, <1>3 DEF Complete

-----------------------------------------------------------------------------
(***************************************************************************)
(* A write: the file it leaves, and the areas it adds.                     *)
(***************************************************************************)
Written(start, size, i) == start < i /\ i <= start + size

(* What was written, or lies between the end of the file and it. *)
Touched(start, size, i) == Written(start, size, i) \/ (Size < i /\ i <= start)

OverwrittenAs(new, seq, n, m, start, size, fill, value) ==
    /\ new = [i \in 1..m |-> new[i]]
    /\ \A i \in 1..m : new[i] = IF Written(start, size, i) THEN value ELSE IF i <= n THEN seq[i] ELSE fill

LEMMA OverwriteUnits ==
    ASSUME NEW seq, NEW n \in Nat, Len(seq) = n, NEW start \in Nat, NEW size \in Nat, NEW fill, NEW value,
           NEW m \in Nat, m = IF start + size > n THEN start + size ELSE n
    PROVE  OverwrittenAs(Overwrite(seq, start, size, fill, value), seq, n, m, start, size, fill, value)
<1> PICK new : new = Overwrite(seq, start, size, fill, value)
  OBVIOUS
<1>1. new = [i \in 1..m |-> IF i - 1 \in Units(start, size) THEN value ELSE IF i <= n THEN seq[i] ELSE fill]
  BY DEF Overwrite
<1>2. \A i \in 1..m : i - 1 \in Units(start, size) <=> Written(start, size, i)
  BY DEF Units, Written
<1>3. new = [i \in 1..m |-> new[i]]
  BY <1>1
<1>4. \A i \in 1..m : new[i] = IF Written(start, size, i) THEN value ELSE IF i <= n THEN seq[i] ELSE fill
  BY <1>1, <1>2
<1> QED BY <1>3, <1>4 DEF OverwrittenAs

WrittenAs(start, size, n, m, loc, vw, st) ==
    /\ n \in Nat /\ m \in Nat /\ n <= m /\ m <= MaxSize /\ start + size <= m
    /\ loc = [i \in 1..m |-> loc[i]] /\ vw = [i \in 1..m |-> vw[i]] /\ st = [i \in 1..m |-> st[i]]
    /\ \A i \in 1..m :
          /\ loc[i] \in Vals /\ vw[i] \in Vals /\ st[i] \in Mark
          /\ Touched(start, size, i) => loc[i] = vw[i] /\ Mod(st, i)
          /\ ~Touched(start, size, i) => i \in 1..n /\ loc[i] = local[i] /\ vw[i] = view[i] /\ st[i] = status[i]

LEMMA WriteIs ==
    ASSUME UploadInv, TypeInv, NEW fd \in Fds, NEW start \in 0..MaxSize, NEW size \in 0..MaxSize,
           Write(fd, start, size)
    PROVE  \E m \in Nat : WrittenAs(start, size, Size, m, local', view', status')
<1>1. /\ start \in Nat /\ size \in Nat /\ size > 0 /\ start + size <= MaxSize
  BY WriteFileOK
<1> PICK n \in Nat : n = Size /\ n <= MaxSize
  BY InvFacts
<1>2. /\ FileTyped(local, status, size_orgmeta) /\ DataTyped(view)
      /\ Len(local) = n /\ Len(status) = n /\ Len(view) = n
  <2>1. FileTyped(local, status, size_orgmeta) /\ DataTyped(view)
    BY InvFacts
  <2>2. OpenFds # {}
    BY DEF Write, Idle, OpenFds
  <2>3. Len(local) = n /\ Len(status) = n
    BY <2>1, FileIs DEF Size
  <2>4. Len(view) = n
    BY <2>2 DEF TypeInv, FileOK
  <2> QED BY <2>1, <2>3, <2>4
<1>3. \A i \in 1..n : local[i] \in Vals /\ status[i] \in Mark /\ view[i] \in Vals
  BY <1>2, FileIs, DataIs
<1> PICK m \in Nat : m = IF start + size > n THEN start + size ELSE n
  BY <1>1
<1>4. n <= m /\ m <= MaxSize /\ start + size <= m
  BY <1>1, Bounds
<1> PICK w : w = writes + 1
  OBVIOUS
<1> PICK hole, full : hole = [loaded |-> FALSE, modified |-> TRUE] /\ full = [loaded |-> TRUE, modified |-> TRUE]
  OBVIOUS
<1> PICK loc, vw, st : loc = local' /\ vw = view' /\ st = status'
  OBVIOUS
<1>5. /\ loc = Overwrite(local, start, size, Zero, w)
      /\ vw = Overwrite(view, start, size, Zero, w)
      /\ st = Overwrite(status, start, size, hole, full)
  BY DEF Write
<1>6. w \in Vals /\ Zero \in Vals
  <2>1. writes \in Nat /\ writes < MaxWrites /\ MaxWrites \in Nat /\ Zero = -1
    BY Bounds DEF Write, UploadInv, AreasOK, Zero
  <2> QED BY <2>1 DEF Vals
<1>7. hole \in Mark /\ full \in Mark /\ hole.modified /\ full.modified
  BY DEF Mark
<1>8. /\ loc = [i \in 1..m |-> loc[i]]
      /\ \A i \in 1..m : loc[i] = IF Written(start, size, i) THEN w ELSE IF i <= n THEN local[i] ELSE Zero
  <2>1. Len(local) = n /\ start \in Nat /\ size \in Nat
    BY <1>1, <1>2
  <2>2. OverwrittenAs(Overwrite(local, start, size, Zero, w), local, n, m, start, size, Zero, w)
    BY ONLY <2>1, n \in Nat, m \in Nat, m = IF start + size > n THEN start + size ELSE n, OverwriteUnits
  <2>3. OverwrittenAs(loc, local, n, m, start, size, Zero, w)
    BY <1>5, <2>2
  <2> QED BY ONLY <2>3 DEF OverwrittenAs
<1>9. /\ vw = [i \in 1..m |-> vw[i]]
      /\ \A i \in 1..m : vw[i] = IF Written(start, size, i) THEN w ELSE IF i <= n THEN view[i] ELSE Zero
  <2>1. Len(view) = n /\ start \in Nat /\ size \in Nat
    BY <1>1, <1>2
  <2>2. OverwrittenAs(Overwrite(view, start, size, Zero, w), view, n, m, start, size, Zero, w)
    BY ONLY <2>1, n \in Nat, m \in Nat, m = IF start + size > n THEN start + size ELSE n, OverwriteUnits
  <2>3. OverwrittenAs(vw, view, n, m, start, size, Zero, w)
    BY <1>5, <2>2
  <2> QED BY ONLY <2>3 DEF OverwrittenAs
<1>10. /\ st = [i \in 1..m |-> st[i]]
       /\ \A i \in 1..m : st[i] = IF Written(start, size, i) THEN full ELSE IF i <= n THEN status[i] ELSE hole
  <2>1. Len(status) = n /\ start \in Nat /\ size \in Nat
    BY <1>1, <1>2
  <2>2. OverwrittenAs(Overwrite(status, start, size, hole, full), status, n, m, start, size, hole, full)
    BY ONLY <2>1, n \in Nat, m \in Nat, m = IF start + size > n THEN start + size ELSE n, OverwriteUnits
  <2>3. OverwrittenAs(st, status, n, m, start, size, hole, full)
    BY <1>5, <2>2
  <2> QED BY ONLY <2>3 DEF OverwrittenAs
<1>11. ASSUME NEW i \in 1..m
       PROVE  /\ Touched(start, size, i) <=> Written(start, size, i) \/ ~(i <= n)
              /\ i <= n => i \in 1..n
  <2>1. ~Written(start, size, i) /\ ~(i <= n) => i <= start
    BY <1>1 DEF Written
  <2> QED BY <1>1, <2>1 DEF Touched, Written
<1>12. ASSUME NEW i \in 1..m
       PROVE  /\ loc[i] \in Vals /\ vw[i] \in Vals /\ st[i] \in Mark
              /\ Touched(start, size, i) => loc[i] = vw[i] /\ Mod(st, i)
              /\ ~Touched(start, size, i) => i \in 1..n /\ loc[i] = local[i] /\ vw[i] = view[i] /\ st[i] = status[i]
  <2>1. loc[i] = IF Written(start, size, i) THEN w ELSE IF i <= n THEN local[i] ELSE Zero
    BY <1>8
  <2>2. vw[i] = IF Written(start, size, i) THEN w ELSE IF i <= n THEN view[i] ELSE Zero
    BY <1>9
  <2>3. st[i] = IF Written(start, size, i) THEN full ELSE IF i <= n THEN status[i] ELSE hole
    BY <1>10
  <2>4. CASE Touched(start, size, i)
    <3>1. Written(start, size, i) \/ ~(i <= n)
      BY <1>11, <2>4
    <3>2. (loc[i] = w /\ vw[i] = w) \/ (loc[i] = Zero /\ vw[i] = Zero)
      BY <2>1, <2>2, <3>1
    <3>3. st[i] = full \/ st[i] = hole
      BY <2>3, <3>1
    <3> QED BY <1>6, <1>7, <2>4, <3>2, <3>3 DEF Mod
  <2>5. CASE ~Touched(start, size, i)
    <3>1. ~Written(start, size, i) /\ i <= n /\ i \in 1..n
      BY <1>11, <2>5
    <3> QED BY <1>3, <2>1, <2>2, <2>3, <2>5, <3>1
  <2> QED BY <2>4, <2>5
<1>13. WrittenAs(start, size, n, m, loc, vw, st)
  BY <1>4, <1>8, <1>9, <1>10, <1>12 DEF WrittenAs
<1> QED BY <1>13

(* An area is added: its bytes are, too. *)
LEMMA AddedBytes ==
    ASSUME NEW list, NEW tag, NEW most \in Nat, NEW size, AreaList(list, tag, most, size),
           most < 3 * MaxWrites,
           NEW start \in Nat, NEW end \in Nat, start < end, end <= MaxSize
    PROVE  \A i \in Int : Untreated(U!Added(list, start, end - start, tag + 1), i) <=>
                             Untreated(list, i) \/ (start < i /\ i <= end)
<1>1. /\ tag \in Nat /\ tag + 1 \in 1..(3 * MaxWrites)
      /\ UP!Apart(list) /\ UP!Tagged(list, tag)
  BY MaxTagIs DEF AreaList
<1>2. \A k \in 1..Len(list) : list[k].tag < tag + 1
  <2> TAKE k \in 1..Len(list)
  <2>1. list[k].tag <= tag
    BY <1>1 DEF UP!Tagged
  <2>2. list[k] \in UP!Areas
    BY <1>1, UP!ApartFacts, AreasAssumption
  <2>3. list[k].tag \in Nat
    BY <2>2, UP!AreaFacts, AreasAssumption
  <2> QED BY <1>1, <2>1, <2>3
<1> PICK new : new = UP!Added(list, start, end - start, tag + 1)
  OBVIOUS
<1>4. UP!Holds(new, tag + 1, UP!Bytes(list) \cup (start..(end - 1)))
  BY <1>1, <1>2, UP!AddedOK, AreasAssumption
<1>5. UP!Bytes(new) = UP!Bytes(list) \cup (start..(end - 1))
  BY <1>4 DEF UP!Holds
<1>6. \A i \in Int : i - 1 \in start..(end - 1) <=> start < i /\ i <= end
  OBVIOUS
<1>7. \A i \in Int : Untreated(new, i) <=> Untreated(list, i) \/ (start < i /\ i <= end)
  BY <1>5, <1>6 DEF Untreated
<1> QED BY <1>7, SameAdded

LEMMA WriteBytes ==
    ASSUME NEW most \in Nat, most + 2 <= 3 * MaxWrites, AreaList(untreated_list, last_tag, most, Size),
           Size \in Nat, NEW start \in Nat, NEW size \in Nat, 0 < size, start + size <= MaxSize
    PROVE  \A i \in Int : Untreated(UntreatedByWrite(start, size).list, i) <=>
                             Untreated(untreated_list, i) \/ Touched(start, size, i)
<1> DEFINE gap == IF Size < start
                  THEN [list |-> U!Added(untreated_list, Size, start - Size, last_tag + 1),
                        tag  |-> last_tag + 1]
                  ELSE [list |-> untreated_list, tag |-> last_tag]
           mid == IF Size < start THEN start ELSE Size
<1>0. last_tag \in Nat /\ MaxSize \in Nat /\ 3 * MaxWrites \in Nat
  BY MaxTagIs DEF AreaList
<1>00. mid \in Nat /\ Size <= mid /\ start <= mid
  OBVIOUS
<1>1. AreaList(untreated_list, last_tag, most, mid)
  <2>1. \A u \in UP!Bytes(untreated_list) : u \in Int
    <3> TAKE u \in UP!Bytes(untreated_list)
    <3>1. PICK i \in 1..Len(untreated_list) : u \in UP!PartBytes(untreated_list[i])
      BY UP!BytesOf, AreasAssumption DEF AreaList
    <3> QED BY <3>1 DEF UP!PartBytes
  <2> HIDE DEF mid
  <2> QED BY <1>00, <2>1 DEF AreaList
<1>2. /\ AreaList(gap.list, gap.tag, most + 1, mid)
      /\ \A i \in Int : Untreated(gap.list, i) <=> Untreated(untreated_list, i) \/ (Size < i /\ i <= start)
  <2>1. CASE Size < start
    <3>1. Size < start /\ start <= MaxSize /\ start <= mid /\ most < 3 * MaxWrites /\ mid \in Nat
      BY <1>0, <2>1
    <3> HIDE DEF mid
    <3>2. AreaList(U!Added(untreated_list, Size, start - Size, last_tag + 1), last_tag + 1, most + 1, mid)
      BY <1>1, <3>1, AreaAdded
    <3>3. \A i \in Int : Untreated(U!Added(untreated_list, Size, start - Size, last_tag + 1), i) <=>
                            Untreated(untreated_list, i) \/ (Size < i /\ i <= start)
      BY <1>1, <3>1, AddedBytes
    <3> QED BY <2>1, <3>2, <3>3
  <2>2. CASE ~(Size < start)
    <3>1. gap.list = untreated_list /\ gap.tag = last_tag
      BY <2>2
    <3> HIDE DEF gap, mid
    <3>2. \A i \in Int : ~(Size < i /\ i <= start)
      BY <2>2
    <3>3. AreaList(gap.list, gap.tag, most + 1, mid)
      BY <1>0, <1>1, <3>1 DEF AreaList
    <3> QED BY <3>1, <3>2, <3>3
  <2> QED BY <2>1, <2>2
<1>3. UntreatedByWrite(start, size).list = U!Added(gap.list, start, size, gap.tag + 1)
  BY DEF UntreatedByWrite
<1> HIDE DEF gap, mid
<1>5. PICK stop \in Nat : stop = start + size /\ size = stop - start /\ start < stop /\ stop <= MaxSize
  OBVIOUS
<1>6. most + 1 \in Nat /\ most + 1 < 3 * MaxWrites
  BY <1>0
<1>7. \A i \in Int : Untreated(U!Added(gap.list, start, stop - start, gap.tag + 1), i) <=>
                        Untreated(gap.list, i) \/ (start < i /\ i <= stop)
  BY <1>2, <1>5, <1>6, AddedBytes
<1>8. \A i \in Int : Untreated(U!Added(gap.list, start, size, gap.tag + 1), i) <=>
                        Untreated(gap.list, i) \/ (start < i /\ i <= start + size)
  BY <1>5, <1>7
<1> QED BY <1>2, <1>3, <1>8 DEF Touched, Written

(* The blocks that leave the areas were all in them. *)
InBlocks(a, b, i) == a * max_mp_size < i /\ i <= b * max_mp_size

BlocksLeave(a, b, blocks, list, new, size) ==
    /\ blocks.start = a * max_mp_size /\ blocks.start + blocks.size = b * max_mp_size
    /\ a < b /\ b * max_mp_size <= size
    /\ \A i \in Int : InBlocks(a, b, i) => Untreated(list, i)
    /\ \A i \in Int : Untreated(new, i) <=> Untreated(list, i) /\ ~InBlocks(a, b, i)

LEMMA ReplacedBytes ==
    ASSUME NEW most \in Nat, most < 3 * MaxWrites, NEW size \in Nat, NEW list, NEW tag, AreaList(list, tag, most, size),
           UP!LastUpdated(list, tag) # {}, LastBlocks(list, tag).size > 0
    PROVE  \E a, b \in Nat : BlocksLeave(a, b, LastBlocks(list, tag), list, U!Replaced(list, tag).list, size)
<1> PICK blocks : blocks = LastBlocks(list, tag) /\ blocks.size > 0
  OBVIOUS
<1>1. /\ tag \in Nat /\ tag <= most /\ tag < 3 * MaxWrites
      /\ UP!Apart(list) /\ UP!Tagged(list, tag) /\ \A u \in UP!Bytes(list) : u < size
  BY MaxTagIs DEF AreaList
<1> PICK i : i = UP!LastUpdatePart(list, tag)
  OBVIOUS
<1>3. i \in 1..Len(list)
  BY <1>1, UP!LastIs, AreasAssumption
<1> PICK p : p = list[i]
  OBVIOUS
<1>5. p \in UP!Areas
  BY <1>1, <1>3, UP!ApartFacts, AreasAssumption
<1>6. blocks = UP!Aligned(p)
  BY SameLast, SameAligned DEF LastBlocks
<1> PICK a \in Nat, b \in Nat :
         /\ blocks.start = a * max_mp_size /\ blocks.start + blocks.size = b * max_mp_size
         /\ p.start <= a * max_mp_size
         /\ b * max_mp_size <= UP!PartEnd(p) /\ a * max_mp_size < b * max_mp_size
  BY <1>5, <1>6, UP!AlignedIs, AreasAssumption
<1> PICK x \in Nat, y \in Nat : x = a * max_mp_size /\ y = b * max_mp_size
  BY MaxTagIs
<1>8. a < b
  BY MaxTagIs, UP!TimesLess, AreasAssumption
<1>9. UP!PartEnd(p) \in Nat /\ p.start \in Nat
  BY <1>5, UP!AreaFacts, AreasAssumption
<1>10. x..(y - 1) \subseteq UP!Bytes(list)
  <2>1. x..(y - 1) \subseteq UP!PartBytes(p)
    BY <1>9 DEF UP!PartBytes
  <2> QED BY <1>1, <1>3, <2>1, UP!BytesOf, AreasAssumption
<1>11. y <= size
  <2>1. y - 1 \in x..(y - 1)
    OBVIOUS
  <2>2. y - 1 < size
    BY <1>1, <1>10, <2>1
  <2> QED BY <2>2
<1> PICK new : new = UP!Replaced(list, tag)
  OBVIOUS
<1>12. x = UP!Aligned(list[i]).start /\ y = UP!Aligned(list[i]).start + UP!Aligned(list[i]).size
       /\ UP!Aligned(list[i]).size > 0
  BY <1>6
<1>13. UP!Bytes(new.list) = UP!Bytes(list) \ (x..(y - 1))
  <2>1. UP!Holds(new.list, new.tag, UP!Bytes(list) \ (x..(y - 1)))
    BY <1>1, <1>12, UP!ReplacedOK, AreasAssumption
  <2> QED BY <2>1 DEF UP!Holds
<1>14. \A k \in Int : k - 1 \in x..(y - 1) <=> InBlocks(a, b, k)
  BY DEF InBlocks
<1>15. BlocksLeave(a, b, blocks, list, new.list, size)
  <2>1. \A k \in Int : InBlocks(a, b, k) => Untreated(list, k)
    BY <1>10, <1>14 DEF Untreated
  <2>2. \A k \in Int : Untreated(new.list, k) <=> Untreated(list, k) /\ ~InBlocks(a, b, k)
    BY <1>13, <1>14 DEF Untreated
  <2> QED BY <1>8, <1>11, <2>1, <2>2 DEF BlocksLeave
<1> QED BY <1>15, SameReplaced

(* The file of a write, whatever becomes of its blocks. *)
WroteFile(start, size, area) ==
    /\ start \in Nat /\ size \in Nat
    /\ WrittenAs(start, size, Size, Size', local', view', status')
    /\ \A i \in Int : Untreated(area, i) <=> Untreated(untreated_list, i) \/ Touched(start, size, i)
    /\ UNCHANGED <<object, size_orgmeta, handler>>
    /\ handler.pc = "idle" /\ OpenFds # {} /\ OpenFds' # {}
    /\ due' \in {"nothing", "flush"} /\ outcome' = "none"

LEMMA WriteFileType ==
    ASSUME UploadInv, TypeInv, NEW start, NEW size, NEW area, WroteFile(start, size, area)
    PROVE  FileOK'
<1> PICK n \in Nat, m \in Nat : n = Size /\ m = Size' /\ n <= m /\ m <= MaxSize
  BY InvFacts DEF WroteFile, WrittenAs
<1> PICK loc, vw, st : loc = local' /\ vw = view' /\ st = status'
  OBVIOUS
<1>1. /\ loc = [i \in 1..m |-> loc[i]] /\ vw = [i \in 1..m |-> vw[i]] /\ st = [i \in 1..m |-> st[i]]
      /\ \A i \in 1..m :
            /\ loc[i] \in Vals /\ vw[i] \in Vals /\ st[i] \in Mark
            /\ Touched(start, size, i) => Mod(st, i)
            /\ ~Touched(start, size, i) => i \in 1..n /\ st[i] = status[i]
  BY DEF WroteFile, WrittenAs
<1>2. size_orgmeta \in 0..MaxSize
  BY InvFacts DEF FileTyped
<1>3. FileTyped(loc, st, size_orgmeta) /\ Len(st) = m
  <2>1. \A i \in 1..m : loc[i] \in Vals /\ st[i] \in Mark
    BY <1>1
  <2>2. loc = [i \in 1..m |-> loc[i]] /\ st = [i \in 1..m |-> st[i]]
    BY <1>1
  <2> QED BY ONLY <1>2, <2>1, <2>2, m \in Nat, m <= MaxSize, FileTypedIs
<1>4. DataTyped(vw) /\ Len(vw) = m
  <2>1. vw = [i \in 1..m |-> vw[i]] /\ \A i \in 1..m : vw[i] \in Vals
    BY <1>1
  <2> QED BY ONLY <2>1, m \in Nat, m <= MaxSize, DatumIs
<1>5. Reach(object, st, size_orgmeta)
  <2>1. Reach(object, status, size_orgmeta)
    BY DEF TypeInv, FileOK
  <2>2. ASSUME NEW i \in 1..m, ~Has(st, i), i <= size_orgmeta
        PROVE  i <= Len(object)
    <3>1. i \in 1..n /\ st[i] = status[i]
      BY <1>1, <2>2 DEF Has, Mod
    <3> QED BY <2>1, <2>2, <3>1 DEF Reach, Has, Size
  <2> QED BY <1>3, <2>2 DEF Reach
<1>6. Len(object) <= m
  <2>1. Len(object) <= n /\ Len(object) \in Nat
    BY InvFacts, DataIs DEF TypeInv, FileOK, WroteFile
  <2> QED BY <2>1
<1>7. due' \in {"nothing", "flush", "punch"} /\ due' # "punch" /\ outcome' \in {"none", "ok", "error"}
      /\ object' = object /\ size_orgmeta' = size_orgmeta
  BY DEF WroteFile
<1> QED BY <1>3, <1>4, <1>5, <1>6, <1>7, InvFacts DEF FileOK

(* What a write does to the data, before its blocks are looked at. *)
WroteData(area) ==
    /\ Kept(object, view, local, status, size_orgmeta)'
    /\ Marked(status', area)
    /\ \A i \in 1..Len(status') : Mod(status', i) =>
          Untreated(area, i) \/ \E g \in Fds : \E e \in info[g].upload_list : i \in Span(e)
    /\ \A g \in Fds : \A e \in info[g].upload_list :
          /\ ~e.is_copy /\ \A i \in Span(e) : Has(status', i)
          /\ Settled(area, e) => /\ Settled(untreated_list, e)
                                 /\ \A d : Holds(d, e, view) => Holds(d, e, view')

LEMMA WriteFileData ==
    ASSUME UploadInv, TypeInv, Data, NEW start, NEW size, NEW area, WroteFile(start, size, area)
    PROVE  WroteData(area)
<1> PICK n \in Nat, m \in Nat : n = Size /\ m = Size' /\ n <= m /\ m <= MaxSize
  BY InvFacts DEF WroteFile, WrittenAs
<1> PICK loc, vw, st : loc = local' /\ vw = view' /\ st = status'
  OBVIOUS
<1> PICK org \in Nat : org = size_orgmeta
  BY InvFacts, FileIs
<1>0. Len(status) = n /\ Len(st) = m
  BY DEF Size
<1>1. \A i \in 1..m :
         /\ Touched(start, size, i) => loc[i] = vw[i] /\ Mod(st, i)
         /\ ~Touched(start, size, i) => i \in 1..n /\ loc[i] = local[i] /\ vw[i] = view[i] /\ st[i] = status[i]
  BY DEF WroteFile, WrittenAs
<1>2. \A i \in Int : Untreated(area, i) <=> Untreated(untreated_list, i) \/ Touched(start, size, i)
  BY DEF WroteFile
<1>3. \A i \in Int : Touched(start, size, i) => i \in 1..m
  <2>1. /\ start + size <= m /\ start \in Nat /\ size \in Nat
    BY DEF WroteFile, WrittenAs
  <2> QED BY <2>1 DEF Touched, Written
<1>4. Kept(object, view, local, status, org) /\ Treated(info, handler, status, untreated_list)
      /\ Marked(status, untreated_list) /\ ListsData(info, handler, status) /\ handler.pc = "idle"
      /\ object' = object /\ size_orgmeta' = org
  BY DEF Data, WroteFile
<1>5. Kept(object, vw, loc, st, org)
  <2> SUFFICES ASSUME NEW i \in 1..m
               PROVE  /\ ~Mod(st, i) => i <= Len(object) /\ object[i] = vw[i]
                      /\ Has(st, i) \/ org < i => loc[i] = vw[i]
    BY <1>0 DEF Kept
  <2>1. CASE Touched(start, size, i)
    BY <1>1, <2>1
  <2>2. CASE ~Touched(start, size, i)
    <3>1. i \in 1..n /\ loc[i] = local[i] /\ vw[i] = view[i] /\ st[i] = status[i]
      BY <1>1, <2>2
    <3>2. /\ ~Mod(status, i) => i <= Len(object) /\ object[i] = view[i]
          /\ Has(status, i) \/ org < i => local[i] = view[i]
      BY <1>0, <1>4, <3>1 DEF Kept
    <3> QED BY <3>1, <3>2 DEF Mod, Has
  <2> QED BY <2>1, <2>2
<1>6. \A i \in 1..n : i \in 1..m
  OBVIOUS
<1>7. \A i \in 1..n : (Mod(status, i) => Mod(st, i)) /\ (Has(status, i) => Has(st, i))
  <2> TAKE i \in 1..n
  <2>1. i \in 1..m
    BY <1>6
  <2>2. Mod(st, i) \/ st[i] = status[i]
    BY <1>1, <2>1
  <2> QED BY <2>2 DEF Mod, Has
<1>8. Marked(st, area)
  <2> SUFFICES ASSUME NEW i \in Int, Untreated(area, i)
               PROVE  i \in 1..m /\ Mod(st, i)
    BY <1>0 DEF Marked
  <2>1. CASE Touched(start, size, i)
    BY <1>1, <1>3, <2>1
  <2>2. CASE Untreated(untreated_list, i)
    <3>1. i \in 1..n /\ Mod(status, i)
      BY <1>0, <1>4, <2>2 DEF Marked
    <3> QED BY <1>6, <1>7, <3>1
  <2> QED BY <1>2, <2>1, <2>2
<1>9. ASSUME NEW i \in 1..m, Mod(st, i)
      PROVE  Untreated(area, i) \/ \E g \in Fds : \E e \in info[g].upload_list : i \in Span(e)
  <2>1. CASE Touched(start, size, i)
    BY <1>2, <2>1
  <2>2. CASE ~Touched(start, size, i)
    <3>1. i \in 1..n /\ st[i] = status[i]
      BY <1>1, <2>2
    <3>2. Mod(status, i) /\ i \in 1..Len(status)
      BY <1>0, <1>9, <3>1 DEF Mod
    <3>3. Untreated(untreated_list, i) \/ \E g \in Fds : \E e \in info[g].upload_list : i \in Span(e)
      BY <1>4, <3>2 DEF Treated, Planning
    <3> QED BY <1>2, <3>3
  <2> QED BY <2>1, <2>2
<1>10. ASSUME NEW g \in Fds, NEW e \in info[g].upload_list
       PROVE  /\ ~e.is_copy /\ \A i \in Span(e) : Has(st, i)
              /\ Settled(area, e) => /\ Settled(untreated_list, e)
                                     /\ \A d : Holds(d, e, view) => Holds(d, e, vw)
  <2>1. EntryIn(e, n)
    BY InfIsTyped
  <2>2. EntryData(handler, g, e, status)
    BY <1>4 DEF ListsData
  <2>3. ~e.is_copy /\ \A i \in Span(e) : Has(status, i)
    BY <1>4, <2>2 DEF EntryData, Final
  <2>4. \A i \in Span(e) : i \in 1..n /\ i \in Int
    BY <2>1, EntryFacts
  <2>5. ASSUME Settled(area, e)
        PROVE  /\ Settled(untreated_list, e)
               /\ \A i \in Span(e) : vw[i] = view[i]
    <3>1. \A i \in Span(e) : ~Untreated(untreated_list, i) /\ ~Touched(start, size, i)
      BY <1>2, <2>4, <2>5 DEF Settled
    <3> QED BY <1>1, <1>6, <2>4, <3>1 DEF Settled
  <2>6. ASSUME Settled(area, e), NEW d, Holds(d, e, view)
        PROVE  Holds(d, e, vw)
    <3>1. \A k \in 1..e.size : e.start + k \in Span(e)
      BY <2>1, SpanIs
    <3> QED BY <2>5, <2>6, <3>1 DEF Holds
  <2>7. \A i \in Span(e) : Has(st, i)
    BY <1>7, <2>3, <2>4
  <2> QED BY <2>3, <2>5, <2>6, <2>7
<1>11. Kept(object, view, local, status, size_orgmeta)'
  BY <1>4, <1>5
<1> QED BY <1>0, <1>8, <1>9, <1>10, <1>11 DEF WroteData

(* No whole block, or no upload id: the areas stay untreated. *)
LEMMA WriteWaits ==
    ASSUME UploadInv, TypeInv, NEW start, NEW size, NEW area, WroteFile(start, size, area),
           untreated_list' = area, UNCHANGED <<info, jobs>>
    PROVE  Keeps
<1>1. FileOK'
  BY WriteFileType
<1>2. ListsOK(info, jobs, Size)'
  <2>1. Size' \in Nat /\ Size <= Size'
    BY DEF WroteFile, WrittenAs
  <2>2. \A fd \in Fds : InfTyped(info'[fd]) /\ info'[fd].upload_list \subseteq info[fd].upload_list
    BY InfIsTyped
  <2> QED BY <2>1, <2>2, ListsSame
<1>3. ASSUME Data
      PROVE  Data'
  <2>1. WroteData(area)
    BY <1>3, WriteFileData
  <2>2. handler' = handler /\ handler.pc = "idle" /\ due' # "punch" /\ outcome' # "ok"
    BY DEF WroteFile
  <2>3. Kept(object, view, local, status, size_orgmeta)'
    BY <2>1 DEF WroteData
  <2>4. Treated(info, handler, status, untreated_list)'
    BY <2>1 DEF WroteData, Treated
  <2>5. Marked(status, untreated_list)'
    BY <2>1 DEF WroteData
  <2>6. ListsData(info, handler, status)'
    <3>1. ListsData(info, handler', status')
      BY <2>1 DEF WroteData, ListsData, EntryData
    <3> QED BY <3>1
  <2>7. Right(info, jobs, handler, view, untreated_list)'
    <3>1. Right(info, jobs, handler, view', area)
      <4> SUFFICES ASSUME NEW g \in Fds, Alone(info, g), NEW e \in info[g].upload_list,
                          Final(handler, g) \/ Settled(area, e)
                   PROVE  RightEntry(g, e, jobs, view')
        BY DEF Right
      <4>1. Settled(area, e)
        BY <2>2 DEF Final
      <4>2. Settled(untreated_list, e) /\ \A d : Holds(d, e, view) => Holds(d, e, view')
        BY <2>1, <4>1 DEF WroteData
      <4>3. RightEntry(g, e, jobs, view)
        BY <1>3, <4>2 DEF Data, Right
      <4> QED BY <4>2, <4>3 DEF RightEntry
    <3> QED BY <2>2, <3>1
  <2>8. PlanData(info, handler, status, untreated_list)' /\ ~Busy(handler')
    BY <2>2 DEF PlanData, Planning, Busy
  <2> QED BY <2>2, <2>3, <2>4, <2>5, <2>6, <2>7, <2>8 DEF Data
<1> QED BY <1>1, <1>2, <1>3 DEF Keeps, TypeInv

(***************************************************************************)
(* The blocks of a write and the parts that are made of them.              *)
(***************************************************************************)
BlockParts(inf, ext, a, b, end) ==
    /\ ext.keep \subseteq inf.upload_list
    /\ \A p \in ext.list : MpIn(p, end) /\ \A i \in Span(p) : InBlocks(a, b, i)
    /\ \A i \in Int : InBlocks(a, b, i) => \E p \in ext.list : i \in Span(p)
    /\ \A e \in ext.keep : \A i \in Span(e) : ~InBlocks(a, b, i)
    /\ \A e \in inf.upload_list : e \in ext.keep \/ \A i \in Span(e) : InBlocks(a, b, i)

LEMMA PartOfBlock ==
    ASSUME NEW n \in Nat, NEW a \in Nat, NEW b \in Nat, NEW e, e.start = n * max_mp_size, e.size = max_mp_size
    PROVE  /\ a <= n /\ n < b => \A i \in Span(e) : InBlocks(a, b, i)
           /\ ~(a <= n /\ n < b) => /\ \A i \in Span(e) : ~InBlocks(a, b, i)
                                    /\ e.start >= b * max_mp_size \/ a * max_mp_size >= e.start + e.size
           /\ a <= n /\ n < b => e.start < b * max_mp_size /\ a * max_mp_size < e.start + e.size
<1> PICK m \in Nat \ {0} : m = max_mp_size
  BY MaxTagIs
<1> PICK x \in Nat, y \in Nat, z \in Nat : x = a * m /\ y = b * m /\ z = n * m
  OBVIOUS
<1>1. (n + 1) * m = z + m
  BY ONLY n \in Nat, m \in Nat \ {0}, z = n * m
<1>2. a <= n => x <= z
  BY ONLY n \in Nat, a \in Nat, m \in Nat \ {0}, z = n * m, x = a * m
<1>3. n + 1 <= b => z + m <= y
  BY ONLY n \in Nat, b \in Nat, m \in Nat \ {0}, y = b * m, <1>1, (n + 1) * m <= b * m \/ ~(n + 1 <= b), UP!TimesMono
<1>4. n + 1 <= a => z + m <= x
  BY ONLY n \in Nat, a \in Nat, m \in Nat \ {0}, x = a * m, <1>1, (n + 1) * m <= a * m \/ ~(n + 1 <= a), UP!TimesMono
<1>5. b <= n => y <= z
  BY ONLY n \in Nat, b \in Nat, m \in Nat \ {0}, z = n * m, y = b * m
<1>6. Span(e) = (z + 1)..(z + m)
  BY DEF Span
<1>7. \A i \in Int : InBlocks(a, b, i) <=> x < i /\ i <= y
  BY DEF InBlocks
<1>8. CASE a <= n /\ n < b
  <2>1. x <= z /\ z + m <= y
    BY <1>2, <1>3, <1>8
  <2> QED BY <1>6, <1>7, <1>8, <2>1
<1>9. CASE ~(a <= n /\ n < b)
  <2>1. z + m <= x \/ y <= z
    BY <1>4, <1>5, <1>9
  <2> QED BY <1>6, <1>7, <1>9, <2>1
<1> QED BY <1>8, <1>9

LEMMA BlockPartsAre ==
    ASSUME NEW inf, NEW a \in Nat, NEW b \in Nat, a < b, NEW end \in Nat, end <= MaxSize, b * max_mp_size <= end,
           BlockEntries(inf.upload_list, end),
           NEW start, start = a * max_mp_size, NEW len, start + len = b * max_mp_size
    PROVE  BlockParts(inf, ExtractUploadPartsFromUntreatedArea(inf, start, len), a, b, end)
<1> PICK ext : ext = ExtractUploadPartsFromUntreatedArea(inf, start, len)
  OBVIOUS
<1> PICK m \in Nat \ {0} : m = max_mp_size
  BY MaxTagIs
<1> DEFINE P(n) == MpPart(n * m, m, n + 1)
           In == a..(b - 1)
<1>1. /\ ext.keep = {p \in inf.upload_list : ~Overlaps(p, start, len)}
      /\ ext.list = {P(n) : n \in In}
  <2>1. start \div max_mp_size = a /\ (start + len) \div max_mp_size = b
    BY DivIs
  <2> QED BY <2>1 DEF ExtractUploadPartsFromUntreatedArea
<1>2. \A n \in In : /\ n \in Nat /\ a <= n /\ n < b
                    /\ P(n).start = n * max_mp_size /\ P(n).size = max_mp_size /\ P(n).part_num = n + 1
  BY DEF MpPart
<1>3. \A n \in Nat : a <= n /\ n < b => n \in In
  OBVIOUS
<1> HIDE DEF P, In
<1>4. ASSUME NEW n \in In
      PROVE  MpIn(P(n), end) /\ \A i \in Span(P(n)) : InBlocks(a, b, i)
  <2>1. \A i \in Span(P(n)) : InBlocks(a, b, i)
    BY <1>2, PartOfBlock
  <2>2. n \in Nat /\ n + 1 <= b
    BY <1>2
  <2> PICK z \in Nat, y \in Nat : z = n * m /\ y = b * m
    BY <2>2
  <2>3. (n + 1) * m = z + m
    BY ONLY <2>2, m \in Nat \ {0}, z = n * m
  <2>4. z + m <= y
    BY ONLY <2>2, <2>3, b \in Nat, m \in Nat \ {0}, y = b * m, (n + 1) * m <= b * m \/ ~(n + 1 <= b), UP!TimesMono
  <2>5. z + m <= end /\ z + m <= MaxSize + m - 1 /\ MaxSize \in Nat
    BY <2>4, MaxTagIs
  <2>6. n + 1 \in PartNums
    <3>1. (z + m) \div max_mp_size = n + 1
      BY <2>2, <2>3, DivIs
    <3>2. (z + m) \div max_mp_size <= (MaxSize + max_mp_size - 1) \div max_mp_size
      <4> PICK x \in Int, x2 \in Int : x = z + m /\ x2 = MaxSize + m - 1
        BY <2>5
      <4>1. x \div max_mp_size <= x2 \div max_mp_size
        BY ONLY <2>5, x \in Int, x2 \in Int, x = z + m, x2 = MaxSize + m - 1, DivMono
      <4> QED BY <4>1
    <3>3. (MaxSize + m - 1) \div m \in Int
      BY <2>5
    <3> QED BY <2>2, <3>1, <3>2, <3>3 DEF PartNums
  <2> QED BY <1>2, <2>1, <2>5, <2>6 DEF MpIn
<1>5. ASSUME NEW i \in Int, InBlocks(a, b, i)
      PROVE  \E p \in ext.list : i \in Span(p)
  <2> PICK x \in Nat, y \in Nat : x = a * m /\ y = b * m
    OBVIOUS
  <2> PICK u \in Nat : u = i - 1 /\ x <= u /\ u < y
    BY <1>5 DEF InBlocks
  <2> PICK n \in Int : n = u \div m /\ n * m <= u /\ u < n * m + m
    BY UP!DivBounds, AreasAssumption
  <2>1. n * m < b * m
    OBVIOUS
  <2>2. n < b
    BY <2>1, UP!TimesLess, AreasAssumption
  <2>3. (n + 1) * m = n * m + m
    BY UP!TimesNext, AreasAssumption
  <2>4. a * m < (n + 1) * m
    BY <2>3
  <2>5. a < n + 1
    BY <2>4, UP!TimesLess, AreasAssumption
  <2>6. n \in In
    BY <1>3, <2>2, <2>5
  <2>7. i \in Span(P(n))
    BY <1>2, <2>6 DEF Span
  <2> QED BY <1>1, <2>6, <2>7
<1>6. ASSUME NEW e \in inf.upload_list
      PROVE  /\ e \in ext.keep => \A i \in Span(e) : ~InBlocks(a, b, i)
             /\ e \notin ext.keep => \A i \in Span(e) : InBlocks(a, b, i)
  <2> PICK n \in Nat : e.start = n * max_mp_size /\ e.size = max_mp_size
    BY DEF BlockEntries
  <2>1. e \in ext.keep <=> ~(e.start < b * max_mp_size /\ a * max_mp_size < e.start + e.size)
    BY <1>1 DEF Overlaps
  <2>2. n * m \in Nat /\ a * m \in Nat /\ b * m \in Nat
    OBVIOUS
  <2>3. e.start >= b * m \/ a * m >= e.start + e.size => ~(e.start < b * m /\ a * m < e.start + e.size)
    BY <2>2
  <2> QED BY <2>1, <2>3, PartOfBlock
<1>7. BlockParts(inf, ext, a, b, end)
  BY <1>1, <1>4, <1>5, <1>6 DEF BlockParts
<1> QED BY <1>7

(* The parts of the blocks are in the list, their requests are queued. *)
WroteParts(fd, keep, mplist, E, new) ==
    /\ info[fd].state = "open"
    /\ E = WithCells(mplist, 0, FALSE) /\ HasCells(Cardinality(mplist)) /\ Numbered(mplist)
    /\ new = Started([PreMultipartUploadRequest(info[fd]) EXCEPT !.upload_list = keep], E)
    /\ info' = [info EXCEPT ![fd] = new]
    /\ jobs' = jobs \cup Requests(fd, new.upload_id, E)

PartsWritten(fd, keep, mplist, E, new, end) ==
    /\ InfTyped(new) /\ new.upload_list = keep \cup E /\ new.upload_id # 0 /\ new.state = "open"
    /\ info'[fd] = new /\ \A g \in Fds : g # fd => info'[g] = info[g]
    /\ \A e \in E : EntryIn(e, end) /\ e.etag = NoEtag
    /\ \A e \in E : ~e.is_copy /\ \E p \in mplist : e.start = p.start /\ e.size = p.size
    /\ \A p \in mplist : \E e \in E : e.start = p.start /\ e.size = p.size
    /\ CellsFree(E, info, jobs)

LEMMA PartsWrittenAre ==
    ASSUME UploadInv, TypeInv, NEW fd \in Fds, NEW keep, NEW mplist, NEW E, NEW new,
           WroteParts(fd, keep, mplist, E, new), NEW end \in Nat, end <= MaxSize, \A p \in mplist : MpIn(p, end)
    PROVE  PartsWritten(fd, keep, mplist, E, new, end)
<1> PICK inf : inf = info[fd]
  OBVIOUS
<1> PICK pre : pre = PreMultipartUploadRequest(inf)
  OBVIOUS
<1> PICK base : base = [pre EXCEPT !.upload_list = keep]
  OBVIOUS
<1>1. /\ inf.state = "open" /\ E = WithCells(mplist, 0, FALSE) /\ HasCells(Cardinality(mplist)) /\ Numbered(mplist)
      /\ new = Started(base, E)
      /\ info' = [info EXCEPT ![fd] = new]
  BY DEF WroteParts
<1>2. DOMAIN info = Fds /\ DOMAIN inf = InfFields /\ InfTyped(inf) /\ (inf.upload_id = 0 => inf.upload_list = {})
  BY InvFacts, InfIsTyped, NoUploadNoList
<1>3. InfTyped(pre) /\ pre.state = inf.state /\ pre.upload_id # 0 /\ DOMAIN pre = InfFields
  BY <1>2, PreFields
<1>4. InfTyped(base) /\ base.upload_list = keep /\ base.state = inf.state /\ base.upload_id # 0 /\ DOMAIN base = InfFields
  BY <1>3, KeepFields
<1>5. InfTyped(new) /\ new.upload_list = keep \cup E /\ new.upload_id # 0 /\ new.state = "open"
  <2>1. EntriesAdded(base, E, Started(base, E))
    BY ONLY <1>4, StartedFields
  <2> QED BY <1>1, <1>4, <2>1 DEF EntriesAdded
<1>6. info'[fd] = new /\ \A g \in Fds : g # fd => info'[g] = info[g]
  BY <1>1, <1>2
<1> PICK hi \in Nat : hi = Cardinality(mplist) /\ Celled(E, 0, hi)
  <2> PICK hi \in Nat : hi = Cardinality(mplist)
    BY <1>1, FS_CardinalityType DEF Numbered
  <2>1. hi = 0 + Cardinality(mplist) /\ 0 \in Nat
    BY ONLY hi \in Nat, hi = Cardinality(mplist)
  <2>2. HasCells(hi) /\ Numbered(mplist)
    BY <1>1
  <2>3. Celled(WithCells(mplist, 0, FALSE), 0, hi)
    BY <2>1, <2>2, WithCellsOK
  <2> QED BY <1>1, <2>3
<1>7. CellsFree(E, info, jobs)
  BY CellsNew
<1>8. NewEntries(E, mplist, FALSE, end)
  <2>1. FALSE \in BOOLEAN /\ Celled(WithCells(mplist, 0, FALSE), 0, hi)
    BY <1>1
  <2>2. NewEntries(WithCells(mplist, 0, FALSE), mplist, FALSE, end)
    BY <2>1, NewEntriesOK
  <2> QED BY <1>1, <2>2
<1>9. ASSUME NEW e \in E
      PROVE  /\ EntryIn(e, end) /\ e.etag = NoEtag /\ ~e.is_copy
             /\ \E p \in mplist : e.start = p.start /\ e.size = p.size
  <2>1. e.is_copy <=> FALSE
    BY <1>8, Zenon DEF NewEntries
  <2>2. e.etag = NoEtag
    BY <1>8, Zenon DEF NewEntries
  <2>3. \E p \in mplist : e.start = p.start /\ e.size = p.size /\ e.part_num = p.part_num
    BY <1>8, Zenon DEF NewEntries
  <2>4. \E p \in mplist : e.start = p.start /\ e.size = p.size
    BY <2>3, Zenon
  <2>5. EntryIn(e, end)
    BY <1>8, Zenon DEF NewEntries
  <2> QED BY <2>1, <2>2, <2>4, <2>5
<1>10. \A p \in mplist : \E e \in E : e.start = p.start /\ e.size = p.size
  BY <1>8 DEF NewEntries
<1> QED BY <1>5, <1>6, <1>7, <1>9, <1>10, Zenon DEF PartsWritten

LEMMA WriteLists ==
    ASSUME UploadInv, TypeInv, NEW fd \in Fds, NEW keep, NEW mplist, NEW E, NEW new,
           WroteParts(fd, keep, mplist, E, new), PartsWritten(fd, keep, mplist, E, new, Size'),
           keep \subseteq info[fd].upload_list, Size' \in Nat, Size <= Size'
    PROVE  ListsOK(info, jobs, Size)'
<1> PICK id, I, L, J, n : id = new.upload_id /\ I = info /\ L = info' /\ J = jobs /\ n = Size'
  OBVIOUS
<1>1. ListsOK(I, J, Size) /\ JobFds(J) /\ Size \in Nat /\ n \in Nat /\ Size <= n
  BY InvFacts DEF TypeInv, JobFds
<1>2. \A g \in Fds : InfTyped(I[g]) /\ I[g].upload_list \subseteq I[g].upload_list
  BY InfIsTyped
<1>3. ListsOK(I, J, n)
  BY ONLY <1>1, <1>2, ListsShrink DEF JobFds
<1>4. EntriesIn(E, n) /\ CellsFree(E, I, J)
  BY DEF PartsWritten, EntriesIn
<1>5. ListsGrow(I, L, fd, E)
  <2>1. \A g \in Fds : g # fd => L[g].upload_list = I[g].upload_list
    BY DEF PartsWritten
  <2>2. L[fd].upload_list \subseteq I[fd].upload_list \cup E
    BY DEF PartsWritten
  <2>3. \A g \in Fds : InfTyped(L[g])
    BY InfIsTyped DEF PartsWritten
  <2> QED BY <2>1, <2>2, <2>3 DEF ListsGrow
<1>6. ListsOK(L, J \cup Requests(fd, id, E), n)
  BY ONLY fd \in Fds, <1>1, <1>3, <1>4, <1>5, ListsAdd
<1> QED BY <1>6 DEF WroteParts

(* Whole blocks are handed to the workers. *)
LEMMA WriteUploads ==
    ASSUME UploadInv, TypeInv, NEW start, NEW size, NEW area, WroteFile(start, size, area),
           NEW fd \in Fds, NEW ext, NEW a, NEW b, BlockParts(info[fd], ext, a, b, Size'),
           NEW E, NEW new, WroteParts(fd, ext.keep, ext.list, E, new),
           \A i \in Int : InBlocks(a, b, i) => Untreated(area, i),
           \A i \in Int : Untreated(untreated_list', i) <=> Untreated(area, i) /\ ~InBlocks(a, b, i)
    PROVE  Keeps
<1> PICK n \in Nat, m \in Nat : n = Size /\ m = Size' /\ n <= m /\ m <= MaxSize
  BY InvFacts DEF WroteFile, WrittenAs
<1> PICK keep, mplist, list : keep = ext.keep /\ mplist = ext.list /\ list = untreated_list'
  OBVIOUS
<1>1. /\ keep \subseteq info[fd].upload_list
      /\ \A p \in mplist : MpIn(p, m)
      /\ \A p \in mplist : \A i \in Span(p) : InBlocks(a, b, i)
      /\ \A i \in Int : InBlocks(a, b, i) => \E p \in mplist : i \in Span(p)
      /\ \A e \in keep : \A i \in Span(e) : ~InBlocks(a, b, i)
      /\ \A e \in info[fd].upload_list : e \in keep \/ \A i \in Span(e) : InBlocks(a, b, i)
  BY DEF BlockParts
<1>2. WroteParts(fd, keep, mplist, E, new)
  OBVIOUS
<1>3. PartsWritten(fd, keep, mplist, E, new, m)
  BY <1>1, <1>2, PartsWrittenAre
<1>4. FileOK'
  BY WriteFileType
<1>5. ListsOK(info, jobs, Size)'
  BY <1>1, <1>2, <1>3, WriteLists
<1>6. /\ new.upload_list = keep \cup E /\ new.upload_id # 0
      /\ info'[fd] = new /\ \A g \in Fds : g # fd => info'[g] = info[g]
      /\ \A e \in E : EntryIn(e, m) /\ e.etag = NoEtag
      /\ \A e \in E : ~e.is_copy /\ \E p \in mplist : e.start = p.start /\ e.size = p.size
      /\ \A p \in mplist : \E e \in E : e.start = p.start /\ e.size = p.size
      /\ \A e \in E : \A j \in jobs : j.entry.cell # e.cell
  BY <1>3 DEF PartsWritten, CellsFree
<1>7. jobs' = jobs \cup Requests(fd, new.upload_id, E)
  BY <1>2 DEF WroteParts
<1>8. \A r \in Requests(fd, new.upload_id, E) : ~Begun(r)
  BY NotBegun
<1>9. /\ \A i \in Int : InBlocks(a, b, i) => \E e \in E : i \in Span(e)
      /\ \A e \in E : \A i \in Span(e) : i \in Int /\ InBlocks(a, b, i)
  <2>1. ASSUME NEW i \in Int, InBlocks(a, b, i)
        PROVE  \E e \in E : i \in Span(e)
    <3> PICK p \in mplist : i \in Span(p)
      BY <1>1, <2>1
    <3> PICK e \in E : e.start = p.start /\ e.size = p.size
      BY <1>6
    <3> QED BY SpanSame
  <2>2. ASSUME NEW e \in E, NEW i \in Span(e)
        PROVE  i \in Int /\ InBlocks(a, b, i)
    <3> PICK p \in mplist : e.start = p.start /\ e.size = p.size
      BY <1>6
    <3>1. i \in Span(p)
      BY SpanSame
    <3>2. i \in Int
      BY <1>6, EntryFacts
    <3> QED BY <1>1, <3>1, <3>2
  <2> QED BY <2>1, <2>2
<1>10. handler' = handler /\ handler.pc = "idle" /\ due' # "punch" /\ outcome' # "ok"
  BY DEF WroteFile
<1>11. ASSUME Data
       PROVE  Data'
  <2>1. WroteData(area)
    BY <1>11, WriteFileData
  <2>2. Kept(object, view, local, status, size_orgmeta)'
    BY <2>1 DEF WroteData
  <2>3. Treated(info', handler', status', list)
    <3> SUFFICES ASSUME NEW i \in 1..Len(status'), Mod(status', i), ~Untreated(list, i)
                 PROVE  \E g \in Fds : \E e \in info'[g].upload_list : i \in Span(e)
      BY DEF Treated
    <3>1. i \in Int
      OBVIOUS
    <3>2. CASE InBlocks(a, b, i)
      <4> PICK e \in E : i \in Span(e)
        BY <1>9, <3>1, <3>2
      <4> QED BY <1>6
    <3>3. CASE ~InBlocks(a, b, i)
      <4>1. ~Untreated(area, i)
        BY <3>1, <3>3
      <4>2. \E g \in Fds : \E e \in info[g].upload_list : i \in Span(e)
        BY <2>1, <4>1 DEF WroteData
      <4> PICK g \in Fds : \E e \in info[g].upload_list : i \in Span(e)
        BY <4>2
      <4> PICK e \in info[g].upload_list : i \in Span(e)
        OBVIOUS
      <4>3. g = fd => e \in keep
        BY <1>1, <3>3
      <4>4. e \in info'[g].upload_list
        BY <1>6, <4>3
      <4> QED BY <4>4
    <3> QED BY <3>2, <3>3
  <2>4. Marked(status', list)
    BY <2>1 DEF WroteData, Marked
  <2>5. ListsData(info', handler', status')
    <3> SUFFICES ASSUME NEW g \in Fds, NEW e \in info'[g].upload_list
                 PROVE  EntryData(handler', g, e, status')
      BY DEF ListsData
    <3>1. CASE e \in info[g].upload_list
      BY <2>1, <3>1 DEF WroteData, EntryData
    <3>2. CASE e \in E
      <4>1. ASSUME NEW i \in Span(e)
            PROVE  Has(status', i)
        <5>1. i \in Int /\ Untreated(area, i)
          BY <1>9, <3>2
        <5>2. Mod(status', i)
          BY <2>1, <5>1 DEF WroteData, Marked
        <5> QED BY <5>2 DEF Has, Mod
      <4> QED BY <1>6, <3>2, <4>1 DEF EntryData
    <3> QED BY <1>1, <1>6, <3>1, <3>2
  <2>6. Right(info', jobs', handler', view', list)
    <3> SUFFICES ASSUME NEW g \in Fds, Alone(info', g), NEW e \in info'[g].upload_list,
                        Final(handler', g) \/ Settled(list, e)
                 PROVE  RightEntry(g, e, jobs', view')
      BY DEF Right
    <3>1. g = fd /\ Settled(list, e)
      BY <1>6, <1>10 DEF Alone, Final
    <3>2. CASE e \in keep
      <4>1. e \in info[fd].upload_list /\ Alone(info, fd)
        BY <1>1, <1>6, <3>1, <3>2 DEF Alone
      <4>2. \A i \in Span(e) : i \in Int
        BY <4>1, InfIsTyped, EntryFacts
      <4>3. Settled(area, e)
        BY <1>1, <3>1, <3>2, <4>2 DEF Settled
      <4>4. Settled(untreated_list, e) /\ \A d : Holds(d, e, view) => Holds(d, e, view')
        BY <2>1, <4>1, <4>3 DEF WroteData
      <4>5. RightEntry(fd, e, jobs, view)
        BY <1>11, <4>1, <4>4 DEF Data, Right
      <4>6. RightEntry(fd, e, jobs, view')
        BY <4>4, <4>5 DEF RightEntry
      <4> QED BY <1>7, <1>8, <3>1, <4>6 DEF RightEntry
    <3>3. CASE e \in E
      BY <1>6, <1>7, <1>8, <3>3 DEF RightEntry
    <3> QED BY <1>6, <3>1, <3>2, <3>3
  <2>7. PlanData(info, handler, status, untreated_list)' /\ ~Busy(handler')
    BY <1>10 DEF PlanData, Planning, Busy
  <2>8. /\ Treated(info, handler, status, untreated_list)' /\ Marked(status, untreated_list)'
        /\ ListsData(info, handler, status)' /\ Right(info, jobs, handler, view, untreated_list)'
    BY <2>3, <2>4, <2>5, <2>6
  <2> QED BY <1>10, <2>2, <2>7, <2>8 DEF Data
<1> QED BY <1>4, <1>5, <1>11 DEF Keeps, TypeInv

(* A descriptor with the parts that a write hands over. *)
Handed(inf, keep, E) == Started([PreMultipartUploadRequest(inf) EXCEPT !.upload_list = keep], E)

LEMMA WriteFile ==
    ASSUME UploadInv, TypeInv, NEW fd \in Fds, NEW start \in 0..MaxSize, NEW size \in 0..MaxSize,
           Write(fd, start, size)
    PROVE  Keeps
<1> PICK area : area = UntreatedByWrite(start, size)
  OBVIOUS
<1> PICK blocks : blocks = LastBlocks(area.list, area.tag)
  OBVIOUS
<1> PICK inf : inf = info[fd]
  OBVIOUS
<1> PICK ext : ext = ExtractUploadPartsFromUntreatedArea(inf, blocks.start, blocks.size)
  OBVIOUS
<1> PICK E : E = WithCells(ext.list, 0, FALSE)
  OBVIOUS
<1> PICK rest : rest = U!Replaced(area.list, area.tag)
  OBVIOUS
<1> PICK new : new = Handed(inf, ext.keep, E)
  OBVIOUS
<1> PICK end : end = Size'
  OBVIOUS
<1>1. /\ handler.pc = "idle" /\ inf.state = "open" /\ writes < MaxWrites
      /\ UNCHANGED <<object, size_orgmeta, handler>>
      /\ due' \in {"nothing", "flush"} /\ outcome' = "none"
  BY DEF Write, Idle
<1>2. \/ AreasWait(area)
      \/ /\ blocks.size > 0 /\ HasCells(Cardinality(ext.list)) /\ untreated_list' = rest.list
         /\ info' = [info EXCEPT ![fd] = new]
         /\ jobs' = jobs \cup Requests(fd, new.upload_id, E)
  BY DEF Write, Handed, AreasWait, LastBlocks
<1>3. /\ Size \in Nat /\ end \in Nat /\ start + size <= end /\ Size <= end
      /\ start \in Nat /\ size \in Nat /\ 0 < size /\ start + size <= MaxSize
  BY WriteFileOK
<1>4. WrittenAs(start, size, Size, end, local', view', status') /\ end <= MaxSize
  <2> PICK m \in Nat : WrittenAs(start, size, Size, m, local', view', status')
    BY WriteIs
  <2> PICK st : st = status'
    OBVIOUS
  <2>1. st = [i \in 1..m |-> st[i]] /\ m <= MaxSize
    BY DEF WrittenAs
  <2>2. Len(st) = m
    BY <2>1, LenIs
  <2>3. end = m
    BY <2>2 DEF Size
  <2> QED BY <2>1, <2>3
<1> PICK w \in Nat : w = writes /\ w + 1 <= MaxWrites
  BY <1>1, MaxTagIs DEF UploadInv, AreasOK
<1>5. 3 * w \in Nat /\ 3 * w + 2 \in Nat /\ 3 * w + 2 <= 3 * MaxWrites /\ 3 * w + 2 < 3 * MaxWrites
  BY MaxTagIs
<1>6. AreaList(untreated_list, last_tag, 3 * w, Size)
  BY DEF UploadInv, AreasOK
<1>7. /\ AreaList(area.list, area.tag, 3 * w + 2, end)
      /\ UP!LastUpdated(area.list, area.tag) # {}
  BY <1>3, <1>5, <1>6, WriteAreas
<1>8. \A i \in Int : Untreated(area.list, i) <=> Untreated(untreated_list, i) \/ Touched(start, size, i)
  BY <1>3, <1>5, <1>6, WriteBytes
<1>9. ASSUME OpenFds' # {}
      PROVE  WroteFile(start, size, area.list)
  <2>1. OpenFds # {}
    BY <1>1 DEF OpenFds
  <2> QED BY <1>1, <1>3, <1>4, <1>8, <1>9, <2>1 DEF WroteFile
<1>10. CASE AreasWait(area)
  <2>1. OpenFds' # {}
    BY <1>1, <1>10 DEF OpenFds, AreasWait
  <2>2. WroteFile(start, size, area.list)
    BY <1>9, <2>1
  <2> QED BY <1>10, <2>2, WriteWaits DEF AreasWait
<1>11. CASE ~AreasWait(area)
  <2> PICK list, tag : list = area.list /\ tag = area.tag
    OBVIOUS
  <2>1. /\ blocks.size > 0 /\ HasCells(Cardinality(ext.list)) /\ untreated_list' = rest.list
        /\ info' = [info EXCEPT ![fd] = new]
        /\ jobs' = jobs \cup Requests(fd, new.upload_id, E)
    BY <1>2, <1>11
  <2> PICK a \in Nat, b \in Nat : BlocksLeave(a, b, blocks, list, rest.list, end)
    <3>1. /\ AreaList(list, tag, 3 * w + 2, end) /\ UP!LastUpdated(list, tag) # {}
          /\ LastBlocks(list, tag) = blocks /\ LastBlocks(list, tag).size > 0
      BY <1>7, <2>1
    <3>2. \E a, b \in Nat : BlocksLeave(a, b, LastBlocks(list, tag), list, U!Replaced(list, tag).list, end)
      BY ONLY <1>3, <1>5, <3>1, ReplacedBytes
    <3> QED BY <3>1, <3>2
  <2>2. /\ blocks.start = a * max_mp_size /\ blocks.start + blocks.size = b * max_mp_size
        /\ a < b /\ b * max_mp_size <= end
        /\ \A i \in Int : InBlocks(a, b, i) => Untreated(list, i)
        /\ \A i \in Int : Untreated(rest.list, i) <=> Untreated(list, i) /\ ~InBlocks(a, b, i)
    BY DEF BlocksLeave
  <2>3. BlockEntries(inf.upload_list, end)
    <3>1. \A g \in Fds : BlockEntries(info[g].upload_list, Size)
      BY <1>1 DEF UploadInv, Good, FdOK, Final
    <3> QED BY <1>3, <3>1, BlockSome
  <2>4. BlockParts(inf, ext, a, b, end) /\ Numbered(ext.list)
    <3> PICK first, len : first = blocks.start /\ len = blocks.size
      OBVIOUS
    <3>1. first = a * max_mp_size /\ first + len = b * max_mp_size /\ a < b /\ b * max_mp_size <= end
      BY <2>2
    <3>2. BlockParts(inf, ExtractUploadPartsFromUntreatedArea(inf, first, len), a, b, end)
      BY ONLY a \in Nat, b \in Nat, <1>3, <1>4, <2>3, <3>1, BlockPartsAre
    <3>3. ExtractedAs(inf, ExtractUploadPartsFromUntreatedArea(inf, first, len), end)
      BY ONLY a \in Nat, b \in Nat, <1>3, <2>3, <3>1, ExtractAreaOK
    <3> QED BY <3>2, <3>3 DEF ExtractedAs
  <2>5. WroteParts(fd, ext.keep, ext.list, E, new)
    BY <1>1, <2>1, <2>4 DEF WroteParts, Handed
  <2>6. OpenFds' # {}
    <3>1. \A p \in ext.list : MpIn(p, end)
      BY <2>4 DEF BlockParts
    <3>2. PartsWritten(fd, ext.keep, ext.list, E, new, end)
      BY <1>3, <1>4, <2>5, <3>1, PartsWrittenAre
    <3>3. info'[fd] = new /\ new.state = "open"
      BY <3>2, Zenon DEF PartsWritten
    <3> QED BY <3>3 DEF OpenFds
  <2>7. WroteFile(start, size, list)
    BY <1>9, <2>6
  <2>8. BlockParts(info[fd], ext, a, b, Size')
    BY <2>4
  <2>9. \A i \in Int : Untreated(untreated_list', i) <=> Untreated(list, i) /\ ~InBlocks(a, b, i)
    BY <2>1, <2>2
  <2> QED BY <2>2, <2>5, <2>7, <2>8, <2>9, WriteUploads
<1> QED BY <1>10, <1>11

-----------------------------------------------------------------------------
LEMMA FileInit ==
    ASSUME Init
    PROVE  FileInv
<1>1. /\ local = <<>> /\ status = <<>> /\ size_orgmeta = 0 /\ untreated_list = <<>>
      /\ info = [fd \in Fds |-> NewInfo] /\ jobs = {} /\ handler = NoHandler
      /\ view = object /\ due = "nothing" /\ outcome = "none"
      /\ \E n \in InitSizes : object = [i \in 1..n |-> Old]
  BY DEF Init
<1>2. \A fd \in Fds : /\ info[fd].state = "new" /\ info[fd].upload_list = {} /\ info[fd].upload_id = 0
                      /\ info[fd].last_result = "ok"
  BY <1>1 DEF NewInfo
<1>3. OpenFds = {}
  BY <1>2 DEF OpenFds
<1>4. DataTyped(object)
  <2> PICK n \in InitSizes : object = [i \in 1..n |-> Old]
    BY <1>1
  <2>1. n \in Nat /\ n <= MaxSize
    BY StreamUploadAssumption
  <2>2. Old \in Vals
    BY MaxTagIs DEF Vals, Old, Zero
  <2>3. object = [i \in 1..n |-> object[i]] /\ \A i \in 1..n : object[i] \in Vals
    BY <2>2
  <2> QED BY <2>1, <2>3, DatumIs
<1>5. Len(status) = 0 /\ FileTyped(local, status, size_orgmeta)
  <2> PICK f : f = <<>>
    OBVIOUS
  <2>1. f = [i \in 1..0 |-> f[i]] /\ \A i \in 1..0 : f[i] \in Vals /\ f[i] \in Mark
    OBVIOUS
  <2>2. 0 \in Nat /\ 0 <= MaxSize /\ 0 \in 0..MaxSize
    BY MaxTagIs
  <2>3. FileTyped(f, f, 0) /\ Len(f) = 0
    BY <2>1, <2>2, FileTypedIs
  <2> QED BY <1>1, <2>3
<1>6. FileOK
  <2>1. Reach(object, status, size_orgmeta)
    BY <1>5 DEF Reach
  <2> QED BY <1>1, <1>3, <1>4, <1>5, <2>1 DEF FileOK
<1>7. ListsOK(info, jobs, Size)
  <2>1. \A fd \in Fds : InfTyped(info[fd])
    BY <1>2 DEF InfTyped
  <2> QED BY <1>1, <1>2, <2>1 DEF ListsOK, InfoTyped, JobsTyped, Agree
<1>8. handler.pc = "idle"
  BY <1>1 DEF NoHandler
<1>9. Data
  <2>1. Marked(status, untreated_list)
    BY <1>1, NoBytes DEF Marked
  <2>2. ListsData(info, handler, status)
    BY <1>2 DEF ListsData
  <2>3. Right(info, jobs, handler, view, untreated_list)
    BY <1>2 DEF Right
  <2>4. PlanData(info, handler, status, untreated_list) /\ ~Busy(handler)
    BY <1>8 DEF PlanData, Planning, Busy
  <2> QED BY <1>1, <1>3, <2>1, <2>2, <2>3, <2>4 DEF Data
<1> QED BY <1>6, <1>7, <1>9 DEF FileInv, TypeInv

(* What has gone wrong is not forgotten. *)
LEMMA ExcusesHandler ==
    ASSUME HandlerStep
    PROVE  excuses \subseteq excuses'
BY DEF HandlerStep, WaitAcquire, CancelledEnded, UploadAll, AllEnded, Complete, CloseEnd, GiveUp, ReturnError, ghostVars

LEMMA ExcusesWorker ==
    ASSUME NEW j, WorkerStep(j)
    PROVE  excuses' = excuses
BY DEF WorkerStep, Skip, Send, Arrive, Fail, Finish, workerUnchanged, ghostVars

LEMMA ExcusesFlush ==
    ASSUME NEW fd, NEW forced, FlushSmallNotLoaded(fd, forced) \/ FlushSmall(fd, forced) \/ FlushExtract(fd, forced)
    PROVE  excuses \subseteq excuses'
<1>1. CASE FlushSmallNotLoaded(fd, forced)
  BY <1>1 DEF FlushSmallNotLoaded, LoadFails, ReturnError
<1>2. CASE FlushSmall(fd, forced)
  BY <1>2 DEF FlushSmall, ReturnError
<1>3. CASE FlushExtract(fd, forced)
  <2> PICK ext : LoadAndStart(fd, forced, ext)
    BY <1>3 DEF FlushExtract
  <2> QED BY DEF LoadAndStart, LoadFails, ReturnError
<1> QED BY <1>1, <1>2, <1>3

LEMMA KeepsInv ==
    ASSUME FileInv, Keeps, excuses \subseteq excuses'
    PROVE  FileInv'
BY DEF FileInv, Keeps

LEMMA FileInvStep ==
    ASSUME UploadInv, FileInv, [Next]_vars
    PROVE  FileInv'
<1>0. TypeInv
  BY DEF FileInv
<1>1. ASSUME NEW fd \in Fds, Open(fd) \/ FlushNothing(fd) \/ CloseBegin(fd)
      PROVE  FileInv'
  <2>1. Keeps
    BY <1>0, <1>1, OpenFile, FlushNothingFile, CloseBeginFile
  <2>2. excuses \subseteq excuses'
    BY <1>1 DEF Open, FlushNothing, CloseBegin, ghostVars
  <2> QED BY <2>1, <2>2, KeepsInv
<1>2. ASSUME NEW fd \in Fds, NEW start \in 0..MaxSize, NEW size \in WriteSizes, Write(fd, start, size)
      PROVE  FileInv'
  <2>1. size \in 0..MaxSize
    BY StreamUploadAssumption
  <2>2. Keeps
    BY <1>0, <1>2, <2>1, WriteFile
  <2>3. excuses' = excuses
    BY <1>2 DEF Write
  <2> QED BY <2>2, <2>3, KeepsInv
<1>3. ASSUME NEW fd \in Fds, NEW forced \in BOOLEAN,
             FlushSmallNotLoaded(fd, forced) \/ FlushSmall(fd, forced) \/ FlushExtract(fd, forced)
      PROVE  FileInv'
  <2>1. Keeps
    BY <1>0, <1>3, FlushSmallNotLoadedFile, FlushSmallFile, FlushExtractFile
  <2>2. excuses \subseteq excuses'
    BY <1>3, ExcusesFlush
  <2> QED BY <2>1, <2>2, KeepsInv
<1>4. CASE PunchHole
  <2>1. excuses \subseteq excuses'
    BY <1>4 DEF PunchHole
  <2> QED BY <1>0, <1>4, <2>1, PunchHoleFile, KeepsInv
<1>5. CASE HandlerStep
  <2>1. Keeps
    BY <1>0, <1>5, WaitAcquireFile, CancelledEndedFile, UploadAllFile, AllEndedFile, CompleteFile, CloseEndFile
       DEF HandlerStep
  <2> QED BY <1>5, <2>1, ExcusesHandler, KeepsInv
<1>6. ASSUME NEW j \in jobs, WorkerStep(j)
      PROVE  FileInv'
  <2>1. Keeps
    BY <1>0, <1>6, WorkerFile
  <2> QED BY <1>6, <2>1, ExcusesWorker, KeepsInv
<1>7. CASE UNCHANGED vars
  <2>1. UNCHANGED <<object, view, local, status, size_orgmeta, untreated_list, info, jobs, handler,
                    due, outcome, excuses>>
    BY <1>7 DEF vars
  <2>2. SameFile /\ Quiet
    BY <1>0, <2>1, InfIsTyped DEF SameFile, SameLists, SameDue, Quiet, TypeInv, FileOK
  <2>3. Keeps
    BY <1>0, <2>1, <2>2, SameHandler, QuietKeeps
  <2> QED BY <2>1, <2>3, KeepsInv
<1> QED BY <1>1, <1>2, <1>3, <1>4, <1>5, <1>6, <1>7 DEF Next, WorkersStep

(***************************************************************************)
(* UnspoiltFileKept for any descriptors, sizes and writes: unless one of   *)
(* the named mishaps happened, a flush that succeeds leaves in the object  *)
(* what the application wrote, and a read returns it.                      *)
(***************************************************************************)
THEOREM UnspoiltFilesAreKept == Spec => []UnspoiltFileKept
<1>1. Init => UploadInv /\ FileInv
  BY UploadInit, FileInit
<1>2. UploadInv /\ FileInv /\ [Next]_vars => (UploadInv /\ FileInv)'
  BY UploadStep, FileInvStep
<1>3. UploadInv /\ FileInv => UnspoiltFileKept
  BY FileKeptHolds
<1> QED BY <1>1, <1>2, <1>3, PTL DEF Spec
=============================================================================
