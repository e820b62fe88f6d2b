------------------------- MODULE StreamUploadProofs -------------------------
(***************************************************************************)
(* The requests of a stream upload are counted, what it completes is the   *)
(* file, and no flush sends a part that is still being sent, for any       *)
(* descriptors, sizes, writes and failures.                                *)
(***************************************************************************)
EXTENDS StreamUpload, SequenceTheorems, FiniteSetTheorems, NaturalsInduction, TLAPS

(* The facts about untreated areas, for the areas of this module. *)
UP == INSTANCE UntreatedPartsProofs WITH MaxTag <- 3 * MaxWrites

LEMMA AreasAssumption == UP!UntreatedPartsAssumption
BY StreamUploadAssumption DEF UP!UntreatedPartsAssumption

LEMMA SameMin ==
    ASSUME NEW S
    PROVE  U!Min(S) = UP!Min(S)
BY DEF U!Min, UP!Min

LEMMA SameMax ==
    ASSUME NEW S
    PROVE  U!Max(S) = UP!Max(S)
BY DEF U!Max, UP!Max

LEMMA SameSpliced ==
    ASSUME NEW list, NEW a, NEW b, NEW new
    PROVE  U!Spliced(list, a, b, new) = UP!Spliced(list, a, b, new)
BY DEF U!Spliced, UP!Spliced

LEMMA SameTouches ==
    ASSUME NEW p, NEW q
    PROVE  U!Touches(p, q) = UP!Touches(p, q)
BY DEF U!Touches, UP!Touches, U!PartEnd, UP!PartEnd

LEMMA SameStretched ==
    ASSUME NEW list, NEW i, NEW k, NEW p
    PROVE  U!Stretched(list, i, k, p) = UP!Stretched(list, i, k, p)
BY SameMin, SameMax DEF U!Stretched, UP!Stretched, U!PartEnd, UP!PartEnd, U!Part, UP!Part

LEMMA SameAbsorb ==
    ASSUME NEW list, NEW i, NEW p
    PROVE  U!Absorb(list, i, p) = UP!Absorb(list, i, p)
BY SameMin, SameStretched, SameSpliced, SameTouches DEF U!Absorb, UP!Absorb

LEMMA SameAdded ==
    ASSUME NEW list, NEW start, NEW size, NEW tag
    PROVE  U!Added(list, start, size, tag) = UP!Added(list, start, size, tag)
BY SameMin, SameAbsorb, SameSpliced, SameTouches
   DEF U!Added, UP!Added, U!PartEnd, UP!PartEnd, U!Part, UP!Part

LEMMA SameLast ==
    ASSUME NEW list, NEW tag
    PROVE  U!LastUpdatePart(list, tag) = UP!LastUpdatePart(list, tag)
BY DEF U!LastUpdatePart, UP!LastUpdatePart, U!LastUpdated, UP!LastUpdated

LEMMA SameAligned ==
    ASSUME NEW p
    PROVE  U!Aligned(p) = UP!Aligned(p)
BY DEF U!Aligned, UP!Aligned, U!PartEnd, UP!PartEnd

LEMMA SameReplaced ==
    ASSUME NEW list, NEW tag
    PROVE  U!Replaced(list, tag) = UP!Replaced(list, tag)
BY SameAdded, SameLast, SameAligned, SameSpliced
   DEF U!Replaced, UP!Replaced, U!PartEnd, UP!PartEnd, U!Part, UP!Part

LEMMA SameBytes ==
    ASSUME NEW list
    PROVE  U!Bytes(list) = UP!Bytes(list)
BY DEF U!Bytes, UP!Bytes, U!PartBytes, UP!PartBytes, U!PartEnd, UP!PartEnd

-----------------------------------------------------------------------------
(* A function over 1..n has the length n. *)
Shaped(f) == \E n \in Nat : f = [i \in 1..n |-> f[i]]

LEMMA LenIs ==
    ASSUME NEW n \in Nat, NEW f, f = [i \in 1..n |-> f[i]]
    PROVE  Len(f) = n /\ DOMAIN f = 1..n /\ Shaped(f)
<1>1. f \in [1..n -> {f[i] : i \in 1..n}]
  OBVIOUS
<1>2. f \in Seq({f[i] : i \in 1..n})
  BY <1>1, SeqDef, Zenon
<1>3. DOMAIN f = 1..n
  BY <1>1
<1>4. Len(f) \in Nat /\ DOMAIN f = 1..Len(f)
  BY <1>2, LenProperties, Zenon
<1>5. Len(f) = n
  BY <1>3, <1>4
<1> QED BY <1>3, <1>5 DEF Shaped

LEMMA ShapedFacts ==
    ASSUME NEW f, Shaped(f)
    PROVE  Len(f) \in Nat /\ DOMAIN f = 1..Len(f)
<1> PICK n \in Nat : f = [i \in 1..n |-> f[i]]
  BY DEF Shaped
<1> QED BY LenIs, Zenon

(* Of n numbers up to m, one is the first, one the second, and so on. *)
LEMMA RankExists ==
    ASSUME NEW m \in Nat, NEW S \in SUBSET (1..m), NEW n \in 1..Cardinality(S)
    PROVE  \E c \in S : Cardinality({d \in S : d <= c}) = n
<1> DEFINE Upto(c) == {d \in S : d <= c}
           Many == {c \in Nat : Cardinality(Upto(c)) >= n}
<1>0. /\ \A d \in S : d \in Nat /\ 1 <= d /\ d <= m
      /\ n \in Nat /\ 0 < n
  OBVIOUS
<1>1. IsFiniteSet(S) /\ Cardinality(S) \in Nat /\ n <= Cardinality(S)
  <2>1. IsFiniteSet(1..m)
    BY FS_Interval
  <2>2. IsFiniteSet(S)
    BY <2>1, FS_Subset
  <2> QED BY <2>2, FS_CardinalityType
<1>2. \A c \in Nat : IsFiniteSet(Upto(c)) /\ Cardinality(Upto(c)) \in Nat
  <2> TAKE c \in Nat
  <2>1. Upto(c) \subseteq S
    OBVIOUS
  <2> QED BY <1>1, <2>1, FS_Subset, FS_CardinalityType
<1>3. m \in Many
  <2>1. Upto(m) = S
    BY <1>0
  <2> QED BY <2>1, <1>1
<1>4. PICK c \in Many : \A y \in Many : c <= y
  <2> HIDE DEF Many
  <2>1. Many \in SUBSET Nat
    BY DEF Many
  <2> QED BY <2>1, <1>3, UP!LeastOf, AreasAssumption
<1>4a. c \in Nat /\ n <= Cardinality(Upto(c))
  BY <1>4
<1>5. c # 0
  <2>0. \A d \in S : ~(d <= 0)
    BY <1>0
  <2>1. Upto(0) = {}
    BY <2>0
  <2> HIDE DEF Upto
  <2> QED BY <2>1, <1>0, <1>4a, FS_EmptySet
<1>6. PICK b \in Nat : c = b + 1
  BY <1>4a, <1>5
<1>7. Cardinality(Upto(b)) < n
  <2>1. ~(c <= b)
    BY <1>6
  <2>2. b \notin Many
    BY <1>4, <2>1
  <2> HIDE DEF Upto
  <2> QED BY <1>0, <1>2, <2>2
<1>8. CASE c \in S
  <2>0. (\A d \in S : d <= c <=> d <= b \/ d = c) /\ ~(c <= b)
    BY <1>0, <1>6
  <2>1. Upto(c) = Upto(b) \cup {c} /\ c \notin Upto(b)
    BY <1>8, <2>0
  <2>2. Cardinality(Upto(c)) = Cardinality(Upto(b)) + 1
    <3> HIDE DEF Upto
    <3> QED BY <2>1, <1>2, FS_AddElement
  <2>3. Cardinality(Upto(c)) = n
    <3> HIDE DEF Upto
    <3> QED BY <2>2, <1>0, <1>2, <1>4a, <1>7
  <2> QED BY <2>3, <1>8
<1>9. CASE c \notin S
  <2>0. \A d \in S : d <= c <=> d <= b
    BY <1>0, <1>6, <1>9
  <2>1. Upto(c) = Upto(b)
    BY <2>0
  <2> HIDE DEF Upto
  <2> QED BY <2>1, <1>0, <1>2, <1>4a, <1>7
<1> QED BY <1>8, <1>9

-----------------------------------------------------------------------------
(* The image of a finite set under a function, and under one that is one to one. *)
LEMMA ImageFinite ==
    ASSUME NEW S, IsFiniteSet(S), NEW T, NEW f \in [S -> T], \A y \in T : \E x \in S : f[x] = y
    PROVE  /\ IsFiniteSet(T) /\ Cardinality(T) \in Nat /\ Cardinality(T) <= Cardinality(S)
           /\ (\A x, y \in S : f[x] = f[y] => x = y) => Cardinality(T) = Cardinality(S)
<1>1. f \in Surjection(S, T)
  BY DEF Surjection
<1>2. (\A x, y \in S : f[x] = f[y] => x = y) => f \in Injection(S, T)
  BY DEF Injection, IsInjective
<1> QED BY <1>1, <1>2, FS_Surjection, FS_CardinalityType

(***************************************************************************)
(* Cells: a request is told from another by the cell of its ETag entity.   *)
(* FreeCell(n) is the n-th free one.                                       *)
(***************************************************************************)
Free == (1..MaxCells) \ UsedCells

Rank(c) == Cardinality({d \in Free : d <= c})

LEMMA FreeFacts == IsFiniteSet(Free) /\ Cardinality(Free) \in Nat /\ MaxCells \in Nat
<1>1. MaxCells \in Nat
  BY StreamUploadAssumption
<1>2. IsFiniteSet(1..MaxCells)
  BY <1>1, FS_Interval
<1>3. Free \subseteq 1..MaxCells
  BY DEF Free
<1>4. IsFiniteSet(Free)
  BY <1>2, <1>3, FS_Subset
<1> QED BY <1>1, <1>4, FS_CardinalityType

LEMMA FreeCellOK ==
    ASSUME NEW n \in Nat, 0 < n, HasCells(n)
    PROVE  FreeCell(n) \in Free /\ Rank(FreeCell(n)) = n
<1>1. n \in 1..Cardinality(Free) /\ Free \in SUBSET (1..MaxCells)
  BY FreeFacts DEF HasCells, Free
<1>2. \E c \in Free : Cardinality({d \in Free : d <= c}) = n
  BY <1>1, FreeFacts, RankExists
<1> QED BY <1>2 DEF FreeCell, Free, Rank

EntryFields == {"start", "size", "part_num", "is_copy", "etag", "cell"}

EntryOK(e) ==
    /\ DOMAIN e = EntryFields
    /\ e.start \in Nat /\ e.size \in Nat /\ e.part_num \in Nat
    /\ Len(e.etag) \in Nat

(* The parts of a list have numbers of their own. *)
Numbered(mplist) ==
    /\ IsFiniteSet(mplist)
    /\ \A m \in mplist : m.start \in Nat /\ m.size \in Nat /\ m.part_num \in Nat
    /\ \A k, m \in mplist : k.part_num = m.part_num => k = m

(* New entries with free cells of their own, of the ranks lo + 1 to hi. *)
Celled(entries, lo, hi) ==
    /\ IsFiniteSet(entries)
    /\ \A e \in entries :
          EntryOK(e) /\ e.cell \in Free /\ lo < Rank(e.cell) /\ Rank(e.cell) <= hi
    /\ \A e, f \in entries : e.cell = f.cell => e = f

Place(mplist, m) == Cardinality({k \in mplist : k.part_num <= m.part_num})

LEMMA PlaceOK ==
    ASSUME NEW mplist, Numbered(mplist)
    PROVE  /\ \A m \in mplist : Place(mplist, m) \in 1..Cardinality(mplist)
           /\ \A k, m \in mplist : Place(mplist, k) = Place(mplist, m) => k = m
<1> DEFINE Before(m) == {k \in mplist : k.part_num <= m.part_num}
<1>1. IsFiniteSet(mplist) /\ \A m \in mplist : m.part_num \in Nat
  BY DEF Numbered
<1>2. \A m \in mplist : /\ IsFiniteSet(Before(m)) /\ Cardinality(Before(m)) \in Nat
                        /\ Cardinality(Before(m)) <= Cardinality(mplist)
  <2> TAKE m \in mplist
  <2>1. Before(m) \in SUBSET mplist
    OBVIOUS
  <2> QED BY <1>1, <2>1, FS_Subset, FS_CardinalityType
<1>3. \A m \in mplist : m \in Before(m)
  BY <1>1
<1>4. \A m \in mplist : Place(mplist, m) = Cardinality(Before(m))
  BY DEF Place
<1>5. ASSUME NEW k \in mplist, NEW m \in mplist, k.part_num < m.part_num
      PROVE  Cardinality(Before(k)) # Cardinality(Before(m))
  <2>1. \A x \in mplist : x.part_num <= k.part_num => x.part_num <= m.part_num
    BY <1>1, <1>5
  <2>2. ~(m.part_num <= k.part_num)
    BY <1>1, <1>5
  <2>3. Before(k) \in SUBSET Before(m) /\ m \notin Before(k)
    BY <2>1, <2>2
  <2> HIDE DEF Before
  <2> QED BY <2>3, <1>2, <1>3, FS_Subset
<1>6. ASSUME NEW k \in mplist, NEW m \in mplist, Cardinality(Before(k)) = Cardinality(Before(m))
      PROVE  k = m
  <2>1. k.part_num = m.part_num \/ k.part_num < m.part_num \/ m.part_num < k.part_num
    BY <1>1
  <2>2. ~(k.part_num < m.part_num) /\ ~(m.part_num < k.part_num)
    <3> HIDE DEF Before
    <3> QED BY <1>5, <1>6
  <2> QED BY <2>1, <2>2 DEF Numbered
<1>7. \A m \in mplist : Cardinality(Before(m)) \in 1..Cardinality(mplist)
  <2> TAKE m \in mplist
  <2> HIDE DEF Before
  <2>1. Cardinality(Before(m)) # 0
    BY <1>2, <1>3, FS_EmptySet
  <2>2. Cardinality(mplist) \in Nat
    BY <1>1, FS_CardinalityType
  <2> QED BY <1>2, <2>1, <2>2
<1> HIDE DEF Before
<1> QED BY <1>4, <1>6, <1>7

(* ParallelMultipartUpload: what it adds to upload_list. *)
LEMMA WithCellsOK ==
    ASSUME NEW mplist, Numbered(mplist), NEW skip \in Nat, NEW hi, hi = skip + Cardinality(mplist),
           HasCells(hi), NEW is_copy
    PROVE  Celled(WithCells(mplist, skip, is_copy), skip, hi)
<1> DEFINE Entry(m) == [start |-> m.start, size |-> m.size, part_num |-> m.part_num, is_copy |-> is_copy,
                        etag |-> NoEtag, cell |-> FreeCell(skip + Place(mplist, m))]
           E == {Entry(m) : m \in mplist}
<1>1. WithCells(mplist, skip, is_copy) = E
  BY DEF WithCells, Place
<1>2. IsFiniteSet(mplist) /\ Cardinality(mplist) \in Nat /\ hi \in Nat
  BY FS_CardinalityType DEF Numbered
<1>3. \A m \in mplist : /\ Place(mplist, m) \in Nat /\ 0 < Place(mplist, m) /\ Place(mplist, m) <= Cardinality(mplist)
                        /\ skip + Place(mplist, m) \in Nat /\ 0 < skip + Place(mplist, m)
                        /\ skip + Place(mplist, m) <= hi
  BY <1>2, PlaceOK
<1>4. \A m \in mplist : FreeCell(skip + Place(mplist, m)) \in Free
                     /\ Rank(FreeCell(skip + Place(mplist, m))) = skip + Place(mplist, m)
  <2> TAKE m \in mplist
  <2>1. HasCells(skip + Place(mplist, m))
    BY <1>2, <1>3, FreeFacts DEF HasCells, Free
  <2> QED BY <1>3, <2>1, FreeCellOK
<1>5. Len(NoEtag) = 0
  BY DEF NoEtag
<1>6. \A m \in mplist : /\ EntryOK(Entry(m)) /\ Entry(m).cell = FreeCell(skip + Place(mplist, m))
  BY <1>5 DEF Numbered, EntryOK, EntryFields
<1>7. IsFiniteSet(E)
  <2> DEFINE f == [m \in mplist |-> Entry(m)]
  <2>1. f \in [mplist -> E] /\ \A y \in E : \E x \in mplist : f[x] = y
    OBVIOUS
  <2> HIDE DEF f, E
  <2> QED BY <1>2, <2>1, ImageFinite
<1>8. ASSUME NEW k \in mplist, NEW m \in mplist, Entry(k).cell = Entry(m).cell
      PROVE  k = m
  <2>1. skip + Place(mplist, k) = skip + Place(mplist, m)
    BY <1>4, <1>6, <1>8
  <2>2. Place(mplist, k) = Place(mplist, m)
    BY <1>3, <2>1
  <2> QED BY <2>2, PlaceOK
<1>9. ASSUME NEW e \in E
      PROVE  EntryOK(e) /\ e.cell \in Free /\ skip < Rank(e.cell) /\ Rank(e.cell) <= hi
  <2> PICK m \in mplist : e = Entry(m)
    OBVIOUS
  <2> HIDE DEF Entry
  <2> QED BY <1>3, <1>4, <1>6
<1>10. \A e, f \in E : e.cell = f.cell => e = f
  <2> SUFFICES ASSUME NEW k \in mplist, NEW m \in mplist, Entry(k).cell = Entry(m).cell
               PROVE  Entry(k) = Entry(m)
    BY ZenonT(30)
  <2> HIDE DEF Entry
  <2> QED BY <1>8
<1> HIDE DEF E
<1> QED BY <1>1, <1>7, <1>9, <1>10 DEF Celled

-----------------------------------------------------------------------------
(***************************************************************************)
(* The requests given to the workers.                                      *)
(***************************************************************************)
JobFields == {"fd", "id", "entry", "step", "body"}

JobOK(j) ==
    /\ DOMAIN j = JobFields
    /\ j.fd \in Fds /\ EntryOK(j.entry) /\ j.entry.cell \in 1..MaxCells
    /\ j.step = "stored" => Len(j.body) \in Nat

JobSet(J) ==
    /\ IsFiniteSet(J)
    /\ \A j \in J : JobOK(j)
    /\ \A j, k \in J : j.entry.cell = k.entry.cell => j = k

Of(J, fd) == {j \in J : j.fd = fd}

Count(J, fd) == Cardinality(Of(J, fd))

LEMMA OfFinite ==
    ASSUME NEW J, JobSet(J), NEW fd
    PROVE  IsFiniteSet(Of(J, fd)) /\ Count(J, fd) \in Nat
<1>1. Of(J, fd) \in SUBSET J /\ IsFiniteSet(J)
  BY DEF Of, JobSet
<1> QED BY <1>1, FS_Subset, FS_CardinalityType DEF Count

(* What a job set becomes: nobody's requests but those of fd change, and these by n. *)
Grown(J, K, fd, n) ==
    /\ JobSet(K)
    /\ Count(K, fd) = Count(J, fd) + n
    /\ \A g \in Fds \ {fd} : Count(K, g) = Count(J, g)

LEMMA MoreRequests ==
    ASSUME JobSet(jobs), NEW fd \in Fds, NEW id, NEW E, NEW hi, Celled(E, 0, hi)
    PROVE  Grown(jobs, jobs \cup Requests(fd, id, E), fd, Cardinality(E))
<1> DEFINE Job(e) == [fd |-> fd, id |-> id, entry |-> e, step |-> "queued", body |-> <<>>]
           R == {Job(e) : e \in E}
           K == jobs \cup R
<1>1. Requests(fd, id, E) = R
  BY DEF Requests
<1>2. \A e \in E : /\ EntryOK(e) /\ e.cell \in 1..MaxCells /\ e.cell \notin UsedCells
                   /\ JobOK(Job(e)) /\ Job(e).entry = e /\ Job(e).fd = fd
  BY DEF Celled, Free, JobOK, JobFields
<1>3. IsFiniteSet(E) /\ \A e, f \in E : e.cell = f.cell => e = f
  BY DEF Celled
<1>4. IsFiniteSet(R) /\ Cardinality(R) = Cardinality(E)
  <2> DEFINE f == [e \in E |-> Job(e)]
  <2>1. f \in [E -> R] /\ \A y \in R : \E x \in E : f[x] = y
    OBVIOUS
  <2>2. \A x, y \in E : f[x] = f[y] => x = y
    <3> SUFFICES ASSUME NEW x \in E, NEW y \in E, Job(x) = Job(y)
                 PROVE  x = y
      BY Zenon
    <3> HIDE DEF Job
    <3> QED BY <1>2
  <2> HIDE DEF f, R
  <2> QED BY <1>3, <2>1, <2>2, ImageFinite
<1>5. \A r \in R : JobOK(r) /\ r.entry \in E /\ r = Job(r.entry) /\ r.fd = fd
  <2> SUFFICES ASSUME NEW e \in E
               PROVE  JobOK(Job(e)) /\ Job(e).entry \in E /\ Job(e) = Job(Job(e).entry) /\ Job(e).fd = fd
    BY Zenon
  <2> HIDE DEF Job
  <2> QED BY <1>2
<1>6. \A j \in jobs, r \in R : j.entry.cell # r.entry.cell
  <2>1. \A j \in jobs : j.entry.cell \in UsedCells
    BY DEF UsedCells
  <2> HIDE DEF R
  <2> QED BY <1>2, <1>5, <2>1
<1>7. JobSet(K)
  <2>1. IsFiniteSet(K)
    BY <1>4, FS_Union DEF JobSet
  <2>2. \A j \in K : JobOK(j)
    <3> HIDE DEF R
    <3> QED BY <1>5 DEF JobSet
  <2>3. \A j, k \in K : j.entry.cell = k.entry.cell => j = k
    <3> SUFFICES ASSUME NEW j \in K, NEW k \in K, j.entry.cell = k.entry.cell
                 PROVE  j = k
      BY Zenon
    <3> HIDE DEF R, Job
    <3>1. CASE j \in jobs /\ k \in jobs
      BY <3>1 DEF JobSet
    <3>2. CASE j \in R /\ k \in R
      BY <1>3, <1>5, <3>2
    <3> QED BY <1>6, <3>1, <3>2
  <2> HIDE DEF K
  <2> QED BY <2>1, <2>2, <2>3 DEF JobSet
<1>8. Count(K, fd) = Count(jobs, fd) + Cardinality(E)
  <2> HIDE DEF R
  <2>1. Of(K, fd) = Of(jobs, fd) \cup R
    BY <1>5 DEF Of
  <2>2. Of(jobs, fd) \cap R = {}
    BY <1>6 DEF Of
  <2>3. Cardinality(R) \in Nat /\ Cardinality({}) = 0
    BY <1>4, FS_CardinalityType, FS_EmptySet
  <2>4. Cardinality(Of(K, fd)) = Cardinality(Of(jobs, fd)) + Cardinality(R) - Cardinality({})
    BY <1>4, <2>1, <2>2, OfFinite, FS_Union, ZenonT(30)
  <2>5. Count(jobs, fd) \in Nat
    BY OfFinite
  <2> QED BY <1>4, <2>3, <2>4, <2>5 DEF Count
<1>9. \A g \in Fds \ {fd} : Count(K, g) = Count(jobs, g)
  <2> TAKE g \in Fds \ {fd}
  <2> HIDE DEF R
  <2>1. Of(K, g) = Of(jobs, g)
    BY <1>5 DEF Of
  <2> QED BY <2>1 DEF Count
<1> HIDE DEF K
<1> QED BY <1>1, <1>7, <1>8, <1>9 DEF Grown, K

(* A request ends. *)
LEMMA JobEnds ==
    ASSUME JobSet(jobs), NEW j \in jobs
    PROVE  /\ Count(jobs, j.fd) >= 1 /\ j.fd \in Fds
           /\ Grown(jobs, jobs \ {j}, j.fd, -1)
<1> DEFINE K == jobs \ {j}
<1>1. JobSet(K)
  BY FS_RemoveElement DEF JobSet
<1>2. Of(K, j.fd) = Of(jobs, j.fd) \ {j} /\ j \in Of(jobs, j.fd)
  BY DEF Of
<1>3. Count(K, j.fd) = Count(jobs, j.fd) - 1
  BY <1>2, OfFinite, FS_RemoveElement DEF Count
<1>4. \A g \in Fds \ {j.fd} : Count(K, g) = Count(jobs, g)
  <2> TAKE g \in Fds \ {j.fd}
  <2>1. Of(K, g) = Of(jobs, g)
    BY DEF Of
  <2> QED BY <2>1 DEF Count
<1>5. Count(K, j.fd) \in Nat /\ Count(jobs, j.fd) \in Nat
  BY <1>1, OfFinite
<1>6. j.fd \in Fds
  BY DEF JobSet, JobOK
<1> HIDE DEF K
<1> QED BY <1>1, <1>3, <1>4, <1>5, <1>6 DEF Grown, K

(* A request makes a step. *)
LEMMA JobAdvances ==
    ASSUME JobSet(jobs), NEW j \in jobs, NEW k, JobOK(k), k.fd = j.fd, k.entry = j.entry
    PROVE  Grown(jobs, (jobs \ {j}) \cup {k}, j.fd, 0)
<1> DEFINE L == jobs \ {j}
           K == L \cup {k}
<1>1. JobSet(L) /\ Count(L, j.fd) = Count(jobs, j.fd) - 1 /\ Count(jobs, j.fd) \in Nat
      /\ \A g \in Fds \ {j.fd} : Count(L, g) = Count(jobs, g)
  BY JobEnds, OfFinite DEF Grown
<1>2. \A x \in L : x.entry.cell # k.entry.cell
  BY DEF JobSet
<1>3. k \notin L
  BY <1>2
<1>4. JobSet(K)
  <2> HIDE DEF L
  <2>1. IsFiniteSet(K)
    BY <1>1, FS_AddElement DEF JobSet
  <2> QED BY <1>1, <1>2, <2>1 DEF JobSet
<1>5. Count(K, j.fd) = Count(jobs, j.fd)
  <2> HIDE DEF L
  <2>1. Of(K, j.fd) = Of(L, j.fd) \cup {k} /\ k \notin Of(L, j.fd)
    BY <1>3 DEF Of
  <2>2. Cardinality(Of(K, j.fd)) = Cardinality(Of(L, j.fd)) + 1
    BY <1>1, <2>1, OfFinite, FS_AddElement
  <2> QED BY <1>1, <2>2 DEF Count
<1>6. \A g \in Fds \ {j.fd} : Count(K, g) = Count(jobs, g)
  <2> TAKE g \in Fds \ {j.fd}
  <2>1. Of(K, g) = Of(L, g)
    BY DEF Of
  <2> QED BY <1>1, <2>1 DEF Count
<1>7. Count(K, j.fd) = Count(jobs, j.fd) + 0
  <2> HIDE DEF K, L
  <2> QED BY <1>1, <1>5
<1>8. Grown(jobs, K, j.fd, 0)
  <2> HIDE DEF K
  <2> QED BY <1>4, <1>6, <1>7 DEF Grown
<1> QED BY <1>8

-----------------------------------------------------------------------------
(***************************************************************************)
(* The untreated areas of a file of a given size.                          *)
(***************************************************************************)
AreaList(list, tag, most, size) ==
    /\ tag \in Nat /\ tag <= most
    /\ UP!Apart(list) /\ UP!Tagged(list, tag)
    /\ \A u \in UP!Bytes(list) : u < size

LEMMA MaxTagIs == MaxSize \in Nat /\ MaxWrites \in Nat /\ 3 * MaxWrites \in Nat /\ max_mp_size \in Nat \ {0}
BY StreamUploadAssumption

LEMMA AreaAdded ==
    ASSUME NEW list, NEW tag, NEW most \in Nat, NEW size \in Nat, AreaList(list, tag, most, size),
           most < 3 * MaxWrites,
           NEW start \in Nat, NEW end \in Nat, start < end, end <= MaxSize, end <= size
    PROVE  /\ AreaList(U!Added(list, start, end - start, tag + 1), tag + 1, most + 1, size)
           /\ UP!LastUpdated(U!Added(list, start, end - start, tag + 1), tag + 1) # {}
<1>1. /\ tag \in Nat /\ tag + 1 \in 1..(3 * MaxWrites) /\ tag + 1 <= most + 1
      /\ UP!Apart(list) /\ UP!Tagged(list, tag) /\ \A u \in UP!Bytes(list) : u < size
  BY MaxTagIs DEF AreaList
<1>2. \A k \in 1..Len(list) : list[k].tag < tag + 1
  <2> TAKE k \in 1..Len(list)
  <2>1. list[k].tag <= tag
    BY <1>1 DEF UP!Tagged
  <2>2. list[k] \in UP!Areas
    BY <1>1, UP!ApartFacts, AreasAssumption
  <2>3. list[k].tag \in Nat
    BY <2>2, UP!AreaFacts, AreasAssumption
  <2> QED BY <1>1, <2>1, <2>3
<1>3. PICK new : new = UP!Added(list, start, end - start, tag + 1)
  OBVIOUS
<1>4. /\ UP!Holds(new, tag + 1, UP!Bytes(list) \cup (start..(end - 1)))
      /\ UP!LastUpdated(new, tag + 1) # {}
  BY <1>1, <1>2, <1>3, UP!AddedOK, AreasAssumption
<1>5. UP!Apart(new) /\ UP!Tagged(new, tag + 1) /\ UP!Bytes(new) = UP!Bytes(list) \cup (start..(end - 1))
  BY <1>4 DEF UP!Holds
<1>6. \A u \in start..(end - 1) : u < size
  OBVIOUS
<1>7. AreaList(new, tag + 1, most + 1, size)
  BY <1>1, <1>5, <1>6 DEF AreaList
<1> QED BY <1>3, <1>4, <1>7, SameAdded

LEMMA WriteAreas ==
    ASSUME NEW most \in Nat, most + 2 <= 3 * MaxWrites, AreaList(untreated_list, last_tag, most, Size),
           Size \in Nat, NEW start \in Nat, NEW size \in Nat, 0 < size, start + size <= MaxSize,
           NEW end \in Nat, start + size <= end, Size <= end,
           NEW area, area = UntreatedByWrite(start, size)
    PROVE  /\ AreaList(area.list, area.tag, most + 2, end)
           /\ UP!LastUpdated(area.list, area.tag) # {}
<1> DEFINE gap == IF Size < start
                  THEN [list |-> U!Added(untreated_list, Size, start - Size, last_tag + 1),
                        tag  |-> last_tag + 1]
                  ELSE [list |-> untreated_list, tag |-> last_tag]
<1>0. last_tag \in Nat /\ MaxSize \in Nat /\ 3 * MaxWrites \in Nat
  BY MaxTagIs DEF AreaList
<1>1. AreaList(untreated_list, last_tag, most, end)
  <2>1. \A u \in UP!Bytes(untreated_list) : u \in Int
    <3> TAKE u \in UP!Bytes(untreated_list)
    <3>1. PICK i \in 1..Len(untreated_list) : u \in UP!PartBytes(untreated_list[i])
      BY UP!BytesOf, AreasAssumption DEF AreaList
    <3> QED BY <3>1 DEF UP!PartBytes
  <2> QED BY <2>1 DEF AreaList
<1>2. AreaList(gap.list, gap.tag, most + 1, end)
  <2>1. CASE Size < start
    <3>1. Size < start /\ start <= MaxSize /\ start <= end /\ most < 3 * MaxWrites
      BY <1>0, <2>1
    <3>2. AreaList(U!Added(untreated_list, Size, start - Size, last_tag + 1), last_tag + 1, most + 1, end)
      BY <1>1, <3>1, AreaAdded
    <3> QED BY <2>1, <3>2
  <2>2. CASE ~(Size < start)
    <3>1. gap.list = untreated_list /\ gap.tag = last_tag
      BY <2>2
    <3> HIDE DEF gap
    <3> QED BY <1>0, <1>1, <3>1 DEF AreaList
  <2> QED BY <2>1, <2>2
<1>3. area = [list |-> U!Added(gap.list, start, size, gap.tag + 1), tag |-> gap.tag + 1]
  BY DEF UntreatedByWrite
<1>4. area.list = U!Added(gap.list, start, size, gap.tag + 1) /\ area.tag = gap.tag + 1
  BY <1>3
<1> HIDE DEF gap
<1>5. PICK stop \in Nat : stop = start + size /\ size = stop - start /\ start < stop /\ stop <= MaxSize /\ stop <= end
  OBVIOUS
<1>6. most + 1 \in Nat /\ most + 1 < 3 * MaxWrites /\ most + 1 + 1 = most + 2
  BY <1>0
<1>7. /\ AreaList(U!Added(gap.list, start, stop - start, gap.tag + 1), gap.tag + 1, most + 1 + 1, end)
      /\ UP!LastUpdated(U!Added(gap.list, start, stop - start, gap.tag + 1), gap.tag + 1) # {}
  BY <1>2, <1>5, <1>6, AreaAdded
<1> QED BY <1>4, <1>5, <1>6, <1>7

(* The blocks of the last updated area, and what their replacement leaves. *)
LastBlocks(list, tag) == U!Aligned(list[U!LastUpdatePart(list, tag)])

LEMMA LastArea ==
    ASSUME NEW most \in Nat, most < 3 * MaxWrites, NEW size \in Nat, NEW list, NEW tag, AreaList(list, tag, most, size),
           UP!LastUpdated(list, tag) # {}, LastBlocks(list, tag).size > 0
    PROVE  /\ \E a, b \in Nat :
                 /\ LastBlocks(list, tag).start = a * max_mp_size
                 /\ LastBlocks(list, tag).start + LastBlocks(list, tag).size = b * max_mp_size
                 /\ a < b /\ b * max_mp_size <= size
           /\ AreaList(U!Replaced(list, tag).list, U!Replaced(list, tag).tag, most + 1, size)
<1> PICK blocks : blocks = LastBlocks(list, tag) /\ blocks.size > 0
  OBVIOUS
<1>1. /\ tag \in Nat /\ tag <= most /\ tag < 3 * MaxWrites
      /\ UP!Apart(list) /\ UP!Tagged(list, tag) /\ \A u \in UP!Bytes(list) : u < size
  BY MaxTagIs DEF AreaList
<1>2. PICK i : i = UP!LastUpdatePart(list, tag)
  OBVIOUS
<1>3. i \in 1..Len(list)
  BY <1>1, <1>2, UP!LastIs, AreasAssumption
<1>4. PICK p : p = list[i]
  OBVIOUS
<1>5. p \in UP!Areas
  BY <1>1, <1>3, <1>4, UP!ApartFacts, AreasAssumption
<1>6. blocks = UP!Aligned(p)
  BY <1>2, <1>4, SameLast, SameAligned DEF LastBlocks
<1>7. PICK a \in Nat, b \in Nat :
         /\ blocks.start = a * max_mp_size /\ blocks.start + blocks.size = b * max_mp_size
         /\ b * max_mp_size <= UP!PartEnd(p) /\ a * max_mp_size < b * max_mp_size
  BY <1>5, <1>6, UP!AlignedIs, AreasAssumption
<1>8. a < b
  BY <1>7, MaxTagIs, UP!TimesLess, AreasAssumption
<1>9. UP!PartEnd(p) <= size
  <2>1. UP!PartEnd(p) \in Nat /\ p.start \in Nat /\ p.start < UP!PartEnd(p)
    BY <1>5, UP!AreaFacts, AreasAssumption
  <2>2. UP!PartEnd(p) - 1 \in UP!PartBytes(p)
    BY <2>1 DEF UP!PartBytes
  <2>3. UP!PartEnd(p) - 1 \in UP!Bytes(list)
    BY <1>1, <1>3, <1>4, <2>2, UP!BytesOf, AreasAssumption
  <2>4. UP!PartEnd(p) - 1 < size
    BY <1>1, <2>3
  <2> QED BY <2>1, <2>4
<1>10. b * max_mp_size <= size
  <2>1. b * max_mp_size \in Int /\ UP!PartEnd(p) \in Nat
    BY <1>5, MaxTagIs, UP!AreaFacts, AreasAssumption
  <2> QED BY <1>7, <1>9, <2>1
<1>11. PICK new : new = UP!Replaced(list, tag)
  OBVIOUS
<1>12. PICK from : from = UP!Aligned(list[i]).start
  OBVIOUS
<1>13. PICK rear : rear = UP!Aligned(list[i]).start + UP!Aligned(list[i]).size
  OBVIOUS
<1>14. UP!Aligned(list[i]).size > 0
  BY <1>4, <1>6
<1>15. new.tag \in Nat /\ UP!Holds(new.list, new.tag, UP!Bytes(list) \ (from..(rear - 1)))
  BY <1>1, <1>2, <1>11, <1>12, <1>13, <1>14, UP!ReplacedOK, AreasAssumption
<1>16. new.tag <= most + 1
  <2>1. new.tag = tag + 1 \/ new.tag = tag
    BY <1>11 DEF UP!Replaced
  <2> QED BY <1>1, <2>1
<1>17. AreaList(new.list, new.tag, most + 1, size)
  BY <1>1, <1>15, <1>16 DEF AreaList, UP!Holds
<1> QED BY <1>7, <1>8, <1>10, <1>11, <1>17, SameReplaced

-----------------------------------------------------------------------------
(***************************************************************************)
(* The blocks of the file and what the extractions make of them.           *)
(***************************************************************************)
BlocksOf(size) == (size + max_mp_size - 1) \div max_mp_size

Blocks == BlocksOf(Size)

LEMMA BlocksAre ==
    ASSUME Size \in Nat
    PROVE  /\ Blocks \in Nat /\ Size <= Blocks * max_mp_size /\ Blocks * max_mp_size < Size + max_mp_size
           /\ \A n \in Nat :
                 /\ n * max_mp_size \in Nat /\ (n + 1) * max_mp_size = n * max_mp_size + max_mp_size
                 /\ n < Blocks <=> n * max_mp_size < Size
                 /\ n + 1 < Blocks <=> (n + 1) * max_mp_size < Size
<1> PICK m \in Nat \ {0} : m = max_mp_size
  BY MaxTagIs
<1>1. PICK x \in Nat : x = Size
  OBVIOUS
<1>2. PICK b \in Int : b = (x + m - 1) \div m
  OBVIOUS
<1>3. b * m <= x + m - 1 /\ x + m - 1 < b * m + m /\ b * m \in Int
  BY ONLY <1>2, x \in Nat, m \in Nat \ {0}, b \in Int
<1>4. x <= b * m /\ b * m < x + m
  BY ONLY <1>3, x \in Nat, m \in Nat \ {0}
<1>5. b \in Nat
  <2>1. ~(b < 0)
    <3> SUFFICES ASSUME b < 0
                 PROVE  FALSE
      OBVIOUS
    <3>1. (b + 1) * m <= 0 * m
      BY ONLY b < 0, b \in Int, m \in Nat \ {0}
    <3>2. (b + 1) * m = b * m + m
      BY ONLY b \in Int, m \in Nat \ {0}
    <3> QED BY ONLY <3>1, <3>2, <1>3, <1>4, x \in Nat, m \in Nat \ {0}
  <2> QED BY <2>1
<1>6. ASSUME NEW n \in Nat
      PROVE  n * m \in Nat /\ (n + 1) * m = n * m + m /\ (n < b <=> n * m < x)
  <2>1. n * m \in Nat /\ (n + 1) * m = n * m + m
    BY ONLY n \in Nat, m \in Nat \ {0}
  <2>2. CASE n < b
    <3>1. (n + 1) * m <= b * m
      BY ONLY <2>2, n \in Nat, b \in Nat, m \in Nat \ {0}, <1>5
    <3>2. n * m + m < x + m
      BY ONLY <1>3, <1>4, <2>1, <3>1, x \in Nat, m \in Nat \ {0}
    <3> QED BY ONLY <2>1, <2>2, <3>2, x \in Nat, m \in Nat \ {0}
  <2>3. CASE ~(n < b)
    <3>1. b * m <= n * m
      BY ONLY <2>3, n \in Nat, b \in Nat, m \in Nat \ {0}, <1>5
    <3> QED BY ONLY <1>3, <1>4, <2>1, <2>3, <3>1, x \in Nat, m \in Nat \ {0}
  <2> QED BY <2>1, <2>2, <2>3
<1>7. \A n \in Nat : n + 1 \in Nat
  OBVIOUS
<1>8. Blocks = b
  BY <1>1, <1>2 DEF Blocks, BlocksOf
<1> HIDE DEF Blocks
<1>9. /\ b \in Nat /\ x <= b * m /\ b * m < x + m
      /\ \A n \in Nat : /\ n * m \in Nat /\ (n + 1) * m = n * m + m
                        /\ (n < b <=> n * m < x) /\ (n + 1 < b <=> (n + 1) * m < x)
  BY ONLY <1>4, <1>5, <1>6, <1>7, Zenon
<1> QED BY ONLY <1>1, <1>8, <1>9, m = max_mp_size, Zenon

(* A block is whole but for the last one; behind the last one nothing is left. *)
LEMMA BlockIs ==
    ASSUME Size \in Nat, NEW n \in Nat
    PROVE  /\ Block(n).start = n * max_mp_size /\ Block(n).start \in Nat /\ Block(n).size \in Int
           /\ Block(n).size <= max_mp_size
           /\ n < Blocks => Block(n).size > 0 /\ Block(n).start + Block(n).size <= Size
           /\ n + 1 < Blocks => Block(n).size = max_mp_size
           /\ n + 1 = Blocks => Block(n).start + Block(n).size = Size
           /\ ~(n < Blocks) => Block(n).size <= 0
<1> PICK m \in Nat \ {0} : m = max_mp_size
  BY MaxTagIs
<1> PICK b : b = Blocks
  OBVIOUS
<1> PICK y : y = n * max_mp_size
  OBVIOUS
<1> PICK z : z = (n + 1) * max_mp_size
  OBVIOUS
<1> PICK s \in Nat : s = Size
  OBVIOUS
<1>0. n + 1 \in Nat
  OBVIOUS
<1>1. /\ b \in Nat /\ y \in Nat /\ z = y + m
      /\ n < b <=> y < s
      /\ n + 1 < b <=> z < s
  BY BlocksAre
<1>2. n + 1 = b => s <= z
  BY BlocksAre
<1>3. Block(n) = [start |-> y, size |-> IF z <= s THEN m ELSE s - y]
  BY DEF Block
<1>4. PICK w \in Int : w = IF z <= s THEN m ELSE s - y
  BY <1>1
<1>5. Block(n).start = y /\ Block(n).size = w
  BY <1>3, <1>4
<1>6. /\ w <= m
      /\ n < b => w > 0 /\ y + w <= s
      /\ n + 1 < b => w = m
      /\ n + 1 = b => y + w = s
      /\ ~(n < b) => w <= 0
  BY ONLY <1>1, <1>2, <1>4, n \in Nat, m \in Nat \ {0}, s \in Nat, w \in Int
<1> QED BY <1>1, <1>5, <1>6

LEMMA SetMinIs ==
    ASSUME NEW S \in SUBSET Nat, S # {}
    PROVE  SetMin(S) \in S /\ \A y \in S : SetMin(S) <= y
<1>1. SetMin(S) = UP!Min(S)
  BY DEF SetMin, UP!Min
<1> QED BY <1>1, UP!LeastOf, AreasAssumption

(* The gap that joins the copied part before a block leaves enough of the block. *)
LEMMA JoinedIs ==
    ASSUME Size \in Nat, NEW inf, NEW n \in Nat
    PROVE  /\ Joined(inf, n) \in Nat
           /\ Joined(inf, n) # 0 => /\ n < Blocks /\ n > 0 /\ IsCopied(inf, n - 1)
                                    /\ UploadedIn(inf, n) = {} /\ UntreatedIn(n) # {}
                                    /\ Block(n).size - Joined(inf, n) >= MIN_MULTIPART_SIZE
<1>1. CASE ~Unifies(inf, n)
  BY <1>1 DEF Joined
<1>2. CASE Unifies(inf, n)
  <2>1. Joined(inf, n) = Gap(n)
    BY <1>2 DEF Joined
  <2>2. PICK s \in Nat, z \in Int : s = Block(n).start /\ z = Block(n).size
    BY BlockIs
  <2>3. UntreatedIn(n) \in SUBSET (s..(s + z - 1)) /\ UntreatedIn(n) # {}
    BY <1>2, <2>2 DEF UntreatedIn, Units, Unifies
  <2>4. UntreatedIn(n) \in SUBSET Nat
    BY <2>3
  <2>5. SetMin(UntreatedIn(n)) \in s..(s + z - 1)
    BY <2>3, <2>4, SetMinIs
  <2>6. Gap(n) = SetMin(UntreatedIn(n)) - s
    BY <2>2 DEF Gap
  <2>7. Gap(n) \in Nat /\ z > 0
    BY <2>5, <2>6
  <2>8. n < Blocks
    BY <2>2, <2>7, BlockIs
  <2> QED BY <1>2, <2>1, <2>7, <2>8 DEF Unifies
<1> QED BY <1>1, <1>2

(***************************************************************************)
(* Parts that make a file: cut from 0 to the end, one for each block, none *)
(* but the last one smaller than S3 allows.                                *)
(***************************************************************************)
Shape(e) == MpPart(e.start, e.size, e.part_num)

Shapes(entries) == {Shape(e) : e \in entries}

Cuts(cut, P, b, size) ==
    /\ b \in Nat /\ b > 0
    /\ cut \in [0..b -> Nat] /\ cut[0] = 0 /\ cut[b] = size
    /\ \A n \in 0..(b - 1) : cut[n] < cut[n + 1]
    /\ \A n \in 0..(b - 2) : cut[n + 1] - cut[n] >= MIN_MULTIPART_SIZE
    /\ P = {MpPart(cut[n], cut[n + 1] - cut[n], n + 1) : n \in 0..(b - 1)}

MakesFile(P, size) == \E cut : Cuts(cut, P, BlocksOf(size), size)

OneEach(entries) == \A e, f \in entries : e.part_num = f.part_num => e = f

(* No part of one set has the number of a part of the other. *)
Disjoint(P, Q) == \A p \in P, q \in Q : p.part_num # q.part_num

(* What writes leave in upload_list: whole blocks of the file. *)
BlockEntries(entries, size) ==
    /\ OneEach(entries)
    /\ \A e \in entries : \E n \in Nat : /\ e.start = n * max_mp_size /\ e.size = max_mp_size /\ e.part_num = n + 1
                                         /\ (n + 1) * max_mp_size <= size

(* ExtractUploadPartsFromAllArea by classes of blocks. *)
Up(inf) == {n \in 0..(Blocks - 1) : ~IsCopied(inf, n) /\ (UntreatedIn(n) # {} \/ UploadedIn(inf, n) = {})}

Copied(inf) == {n \in 0..(Blocks - 1) : IsCopied(inf, n)}

LEMMA ExtractIs ==
    ASSUME NEW inf, NEW ext, ext = ExtractUploadPartsFromAllArea(inf)
    PROVE  /\ ext.keep = {p \in inf.upload_list :
                             \A n \in 0..(Blocks - 1) : UntreatedIn(n) # {} => p \notin UploadedIn(inf, n)}
           /\ ext.upload = {MpPart(Block(n).start + Joined(inf, n), Block(n).size - Joined(inf, n), n + 1) : n \in Up(inf)}
           /\ ext.copy = {MpPart(Block(n).start, Block(n).size + Joined(inf, n + 1), n + 1) : n \in Copied(inf)}
<1> DEFINE blocks == 0..(Blocks - 1)
           reupload == {n \in blocks : UntreatedIn(n) # {} /\ UploadedIn(inf, n) # {}}
           load == {n \in blocks : UploadedIn(inf, n) = {} /\ ~IsCopied(inf, n)}
<1>1. reupload \cup load = Up(inf)
  BY DEF Up, IsCopied
<1>2. /\ ext.keep = {p \in inf.upload_list : \A n \in reupload : p \notin UploadedIn(inf, n)}
      /\ ext.upload = {MpPart(Block(n).start + Joined(inf, n), Block(n).size - Joined(inf, n), n + 1) :
                          n \in reupload \cup load}
      /\ ext.copy = {MpPart(Block(n).start, Block(n).size + Joined(inf, n + 1), n + 1) : n \in Copied(inf)}
  BY DEF ExtractUploadPartsFromAllArea, ExtractBlocks, Blocks, BlocksOf, Copied
<1>3. ext.keep = {p \in inf.upload_list :
                     \A n \in 0..(Blocks - 1) : UntreatedIn(n) # {} => p \notin UploadedIn(inf, n)}
  BY <1>2
<1> QED BY <1>1, <1>2, <1>3

(* A block that was uploaded is overlapped by its own entry only. *)
LEMMA UploadedIs ==
    ASSUME Size \in Nat, NEW inf, BlockEntries(inf.upload_list, Size), NEW n \in Nat, n < Blocks, NEW e \in inf.upload_list
    PROVE  e \in UploadedIn(inf, n) <=> e.part_num = n + 1
<1> PICK m \in Nat \ {0} : m = max_mp_size
  BY MaxTagIs
<1>1. PICK k \in Nat : /\ e.start = k * m /\ e.size = m /\ e.part_num = k + 1 /\ (k + 1) * m <= Size
  BY DEF BlockEntries
<1>2. PICK z \in Int : z = Block(n).size /\ Block(n).start = n * m /\ 0 < z /\ z <= m
  BY BlockIs
<1>3. e \in UploadedIn(inf, n) <=> k * m < n * m + z /\ n * m < k * m + m
  BY <1>1, <1>2 DEF UploadedIn, Overlaps
<1>4. n * m \in Nat /\ k * m \in Nat /\ (n + 1) * m = n * m + m /\ (k + 1) * m = k * m + m
  BY ONLY n \in Nat, k \in Nat, m \in Nat \ {0}
<1>5. CASE k = n
  BY <1>1, <1>2, <1>3, <1>4, <1>5
<1>6. CASE k < n
  <2>1. (k + 1) * m <= n * m
    BY ONLY <1>6, n \in Nat, k \in Nat, m \in Nat \ {0}
  <2>2. ~(n * m < k * m + m)
    BY ONLY <1>4, <2>1, m \in Nat \ {0}
  <2> QED BY <1>1, <1>3, <1>6, <2>2
<1>7. CASE n < k
  <2>1. (n + 1) * m <= k * m
    BY ONLY <1>7, n \in Nat, k \in Nat, m \in Nat \ {0}
  <2>2. ~(k * m < n * m + z)
    BY ONLY <1>2, <1>4, <2>1, m \in Nat \ {0}, z \in Int
  <2> QED BY <1>1, <1>3, <1>7, <2>2
<1> QED BY <1>5, <1>6, <1>7

(* What a flush plans: entries that stay, uploads and copies make the file, a part of each number. *)
Planned(entries, upload, copy, size) ==
    /\ OneEach(entries) /\ Numbered(upload) /\ Numbered(copy)
    /\ Disjoint(upload, copy) /\ Disjoint(entries, upload) /\ Disjoint(entries, copy)
    /\ MakesFile(Shapes(entries) \cup upload \cup copy, size)

LEMMA ExtractOK ==
    ASSUME Size \in Nat, 0 < Size, NEW inf, BlockEntries(inf.upload_list, Size),
           NEW ext, ext = ExtractUploadPartsFromAllArea(inf)
    PROVE  ext.keep \subseteq inf.upload_list /\ Planned(ext.keep, ext.upload, ext.copy, Size)
<1> PICK m \in Nat \ {0} : m = max_mp_size
  BY MaxTagIs
<1> PICK b : b = Blocks
  OBVIOUS
<1> PICK s \in Nat : s = Size
  OBVIOUS
<1>0. MIN_MULTIPART_SIZE \in Nat /\ 1 <= MIN_MULTIPART_SIZE /\ MIN_MULTIPART_SIZE <= m
  BY StreamUploadAssumption
<1>1. b \in Nat /\ 0 < b
  <2>1. b \in Nat /\ s <= b * m
    BY BlocksAre
  <2>2. CASE b = 0
    BY ONLY <2>1, <2>2, 0 < Size, s = Size, s \in Nat, m \in Nat \ {0}
  <2> QED BY <2>1, <2>2
<1> DEFINE J(n) == Joined(inf, n)
           st(n) == Block(n).start
           sz(n) == Block(n).size
           cut == [n \in 0..b |-> IF n = b THEN s ELSE n * m + J(n)]
           T(n) == MpPart(cut[n], cut[n + 1] - cut[n], n + 1)
           In == 0..(b - 1)
<1>2. \A n \in In : /\ n \in Nat /\ n + 1 \in Nat /\ n < b /\ (n + 1 < b \/ n + 1 = b)
                    /\ n \in 0..b /\ n + 1 \in 0..b
  BY <1>1
<1>3. \A n \in In : /\ st(n) \in Nat /\ sz(n) \in Nat /\ 0 < sz(n) /\ st(n) = n * m
                    /\ n + 1 < b => sz(n) = m /\ st(n) + sz(n) = (n + 1) * m
                    /\ n + 1 = b => st(n) + sz(n) = s
                    /\ sz(n) <= m
  <2> TAKE n \in In
  <2>1. n \in Nat /\ n < Blocks
    BY <1>2
  <2>2. /\ Block(n).start = n * m /\ Block(n).start \in Nat /\ Block(n).size \in Int
        /\ Block(n).size > 0 /\ Block(n).size <= m
        /\ n + 1 < b => Block(n).size = m
        /\ n + 1 = b => Block(n).start + Block(n).size = s
    BY <2>1, BlockIs
  <2>3. (n + 1) * m = n * m + m
    BY ONLY <2>1, m \in Nat \ {0}
  <2> QED BY <2>2, <2>3
<1>4. \A n \in In : /\ J(n) \in Nat /\ J(n + 1) \in Nat
                    /\ J(n) # 0 => /\ UploadedIn(inf, n) = {} /\ UntreatedIn(n) # {}
                                   /\ sz(n) - J(n) >= MIN_MULTIPART_SIZE /\ n # 0
                    /\ J(n + 1) # 0 => IsCopied(inf, n) /\ n + 1 < b
  <2> TAKE n \in In
  <2>1. n + 1 - 1 = n
    BY <1>2
  <2> QED BY <1>2, <2>1, JoinedIs
<1> HIDE DEF J, st, sz, In
<1>5. \A n \in In : cut[n] = st(n) + J(n) /\ cut[n + 1] = st(n) + sz(n) + J(n + 1)
  <2> TAKE n \in In
  <2>1. cut[n] = n * m + J(n)
    BY <1>2
  <2>2. CASE n + 1 < b
    <3>1. cut[n + 1] = (n + 1) * m + J(n + 1)
      BY <1>2, <2>2
    <3> QED BY <1>3, <2>1, <2>2, <3>1
  <2>3. CASE n + 1 = b
    <3>1. cut[n + 1] = s /\ J(n + 1) = 0
      BY <1>2, <1>4, <2>3
    <3> QED BY <1>3, <2>1, <2>3, <3>1
  <2> QED BY <1>2, <2>2, <2>3
<1>6. cut \in [0..b -> Nat] /\ cut[0] = 0 /\ cut[b] = s
  <2>1. \A n \in 0..b : n # b => n \in In
    BY <1>1 DEF In
  <2>2. \A n \in 0..b : cut[n] \in Nat
    <3> TAKE n \in 0..b
    <3>1. CASE n = b
      BY <3>1
    <3>2. CASE n # b
      BY <1>3, <1>4, <1>5, <2>1, <3>2
    <3> QED BY <3>1, <3>2
  <2>3. 0 \in In /\ 0 * m = 0
    BY <1>1 DEF In
  <2>4. J(0) = 0
    BY <1>4, <2>3
  <2>5. cut[0] = 0
    <3>1. st(0) = 0 * m
      BY <1>3, <2>3
    <3>2. cut[0] = st(0) + J(0)
      BY <1>5, <2>3
    <3> QED BY <2>3, <2>4, <3>1, <3>2
  <2>6. b \in 0..b
    BY <1>1
  <2>7. cut[b] = s
    BY <2>6
  <2>8. cut = [n \in 0..b |-> cut[n]]
    OBVIOUS
  <2> HIDE DEF cut
  <2> QED BY <2>2, <2>5, <2>7, <2>8
<1> HIDE DEF cut
<1>7. \A n \in In : /\ n \in Up(inf) => T(n) = MpPart(st(n) + J(n), sz(n) - J(n), n + 1)
                    /\ n \in Copied(inf) => T(n) = MpPart(st(n), sz(n) + J(n + 1), n + 1)
                    /\ n \notin Up(inf) /\ n \notin Copied(inf) =>
                          /\ UntreatedIn(n) = {} /\ UploadedIn(inf, n) # {}
                          /\ T(n) = MpPart(st(n), sz(n), n + 1)
                    /\ cut[n] < cut[n + 1]
                    /\ n + 1 < b => cut[n + 1] - cut[n] >= MIN_MULTIPART_SIZE
  <2> TAKE n \in In
  <2>1. n \in Up(inf) <=> ~IsCopied(inf, n) /\ (UntreatedIn(n) # {} \/ UploadedIn(inf, n) = {})
    BY DEF Up, In
  <2>2. n \in Copied(inf) <=> IsCopied(inf, n)
    BY DEF Copied, In
  <2>3. IsCopied(inf, n) => UntreatedIn(n) = {}
    BY DEF IsCopied
  <2>4. n \notin Copied(inf) => J(n + 1) = 0
    BY <1>4, <2>2
  <2>5. UntreatedIn(n) = {} => J(n) = 0
    BY <1>4
  <2>6. PICK x \in Nat, y \in Nat, i \in Nat, k \in Nat : x = st(n) /\ y = sz(n) /\ i = J(n) /\ k = J(n + 1)
    BY <1>3, <1>4
  <2>7. cut[n] = x + i /\ cut[n + 1] = x + y + k /\ 0 < y
    BY <1>3, <1>5, <2>6
  <2>8. (i # 0 => y - i >= MIN_MULTIPART_SIZE) /\ (n + 1 < b => y = m)
    BY <1>3, <1>4, <2>6
  <2>9. cut[n + 1] - cut[n] = y + k - i
    BY ONLY <2>7, x \in Nat, y \in Nat, i \in Nat, k \in Nat
  <2>10. cut[n] < cut[n + 1] /\ (n + 1 < b => cut[n + 1] - cut[n] >= MIN_MULTIPART_SIZE)
    BY ONLY <1>0, <2>7, <2>8, <2>9, x \in Nat, y \in Nat, i \in Nat, k \in Nat, m \in Nat \ {0}
  <2>11. CASE n \in Up(inf)
    <3>1. k = 0 /\ y + k - i = y - i /\ n \notin Copied(inf)
      BY <2>1, <2>2, <2>4, <2>6, <2>11
    <3> QED BY <2>6, <2>7, <2>9, <2>10, <2>11, <3>1
  <2>12. CASE n \in Copied(inf)
    <3>1. i = 0 /\ y + k - i = y + k /\ x + i = x /\ n \notin Up(inf)
      BY <2>1, <2>2, <2>3, <2>5, <2>6, <2>12
    <3> QED BY <2>6, <2>7, <2>9, <2>10, <2>12, <3>1
  <2>13. CASE n \notin Up(inf) /\ n \notin Copied(inf)
    <3>1. UntreatedIn(n) = {} /\ UploadedIn(inf, n) # {}
      BY <2>1, <2>2, <2>13
    <3>2. i = 0 /\ k = 0 /\ y + k - i = y /\ x + i = x
      BY <2>4, <2>5, <2>6, <2>13, <3>1
    <3> QED BY <2>6, <2>7, <2>9, <2>10, <2>13, <3>1, <3>2
  <2> QED BY <2>11, <2>12, <2>13
<1>8. /\ ext.keep = {p \in inf.upload_list : \A n \in In : UntreatedIn(n) # {} => p \notin UploadedIn(inf, n)}
      /\ ext.upload = {T(n) : n \in Up(inf)}
      /\ ext.copy = {T(n) : n \in Copied(inf)}
  <2>1. Up(inf) \subseteq In /\ Copied(inf) \subseteq In
    BY DEF Up, Copied, In
  <2>2. /\ ext.upload = {MpPart(st(n) + J(n), sz(n) - J(n), n + 1) : n \in Up(inf)}
        /\ ext.copy = {MpPart(st(n), sz(n) + J(n + 1), n + 1) : n \in Copied(inf)}
    BY ExtractIs DEF st, sz, J
  <2>3. ext.upload = {T(n) : n \in Up(inf)}
    <3> HIDE DEF T
    <3> QED BY <1>7, <2>1, <2>2
  <2>4. ext.copy = {T(n) : n \in Copied(inf)}
    <3> HIDE DEF T
    <3> QED BY <1>7, <2>1, <2>2
  <2> QED BY <2>3, <2>4, ExtractIs DEF In
<1>9. ASSUME NEW e \in ext.keep
      PROVE  \E n \in In : e.part_num = n + 1 /\ n \notin Up(inf) /\ n \notin Copied(inf) /\ Shape(e) = T(n)
  <2>1. e \in inf.upload_list
    BY <1>8
  <2>2. PICK n \in Nat : e.start = n * m /\ e.size = m /\ e.part_num = n + 1 /\ (n + 1) * m <= s
    BY <2>1 DEF BlockEntries
  <2>3. n * m \in Nat /\ (n + 1) * m = n * m + m
    BY ONLY n \in Nat, m \in Nat \ {0}
  <2>4. n * m < s
    BY ONLY <2>2, <2>3, m \in Nat \ {0}, s \in Nat
  <2>5. n < b /\ n \in In
    BY <1>1, <2>4, BlocksAre DEF In
  <2>6. e \in UploadedIn(inf, n)
    BY <2>1, <2>2, <2>5, UploadedIs
  <2>7. UntreatedIn(n) = {}
    BY <1>8, <2>5, <2>6
  <2>8. n \notin Up(inf) /\ n \notin Copied(inf)
    BY <2>6, <2>7 DEF Up, Copied, IsCopied
  <2>9. sz(n) = m
    <3>1. CASE n + 1 < b
      BY <1>3, <2>5, <3>1
    <3>2. CASE n + 1 = b
      BY <1>3, <2>2, <2>3, <2>5, <3>2
    <3> QED BY <1>2, <2>5, <3>1, <3>2
  <2>10. T(n) = MpPart(n * m, m, n + 1)
    BY <1>3, <1>7, <2>5, <2>8, <2>9
  <2> HIDE DEF T
  <2> QED BY <2>2, <2>5, <2>8, <2>10 DEF Shape
<1>10. ASSUME NEW n \in In, n \notin Up(inf), n \notin Copied(inf)
       PROVE  \E e \in ext.keep : Shape(e) = T(n)
  <2>1. UntreatedIn(n) = {} /\ UploadedIn(inf, n) # {}
    BY <1>7, <1>10
  <2>2. PICK e \in inf.upload_list : e \in UploadedIn(inf, n)
    BY <2>1 DEF UploadedIn
  <2>3. e.part_num = n + 1
    BY <1>2, <2>2, UploadedIs
  <2>4. \A k \in In : e \in UploadedIn(inf, k) => k = n
    BY <1>2, <2>3, UploadedIs
  <2>5. e \in ext.keep
    BY <1>8, <2>1, <2>4
  <2>6. PICK k \in In : e.part_num = k + 1 /\ Shape(e) = T(k)
    BY <1>9, <2>5
  <2>7. k = n
    BY <1>2, <2>3, <2>6
  <2> QED BY <2>5, <2>6, <2>7
<1>11. /\ \A n \in In : T(n).part_num = n + 1 /\ T(n).start \in Nat /\ T(n).size \in Nat /\ T(n).part_num \in Nat
       /\ \A n, k \in In : T(n).part_num = T(k).part_num => n = k
  <2>1. \A n \in In : cut[n] \in Nat /\ cut[n + 1] \in Nat
    BY <1>2, <1>6
  <2>2. \A n \in In : T(n).part_num = n + 1 /\ T(n).start \in Nat /\ T(n).size \in Nat
    <3> TAKE n \in In
    <3> PICK x \in Nat, y \in Nat : x = cut[n] /\ y = cut[n + 1]
      BY <2>1
    <3>1. x < y
      BY <1>7
    <3>2. y - x \in Nat
      BY <3>1
    <3>3. T(n) = [start |-> x, size |-> y - x, part_num |-> n + 1]
      BY DEF MpPart
    <3> HIDE DEF T
    <3> QED BY <3>2, <3>3
  <2> HIDE DEF T
  <2> QED BY <1>2, <2>2
<1> HIDE DEF T
<1>12. ASSUME NEW S \in SUBSET In
       PROVE  Numbered({T(n) : n \in S})
  <2>1. IsFiniteSet(S)
    <3>1. IsFiniteSet(In)
      BY <1>1, FS_Interval DEF In
    <3> QED BY <3>1, FS_Subset
  <2>2. IsFiniteSet({T(n) : n \in S})
    <3> DEFINE f == [n \in S |-> T(n)]
               R == {T(n) : n \in S}
    <3>1. f \in [S -> R] /\ \A y \in R : \E x \in S : f[x] = y
      OBVIOUS
    <3> HIDE DEF f, R
    <3>2. IsFiniteSet(R)
      BY <2>1, <3>1, ImageFinite
    <3> QED BY <3>2 DEF R
  <2> QED BY <1>11, <2>2 DEF Numbered
<1>13. Up(inf) \in SUBSET In /\ Copied(inf) \in SUBSET In /\ Up(inf) \cap Copied(inf) = {}
  BY DEF Up, Copied, In
<1>14. Numbered(ext.upload) /\ Numbered(ext.copy)
  BY <1>8, <1>12, <1>13
<1>15. Disjoint(ext.upload, ext.copy) /\ Disjoint(ext.keep, ext.upload) /\ Disjoint(ext.keep, ext.copy)
  <2>1. Disjoint(ext.upload, ext.copy)
    BY <1>8, <1>11, <1>13 DEF Disjoint
  <2>2. ASSUME NEW e \in ext.keep, NEW k \in In, k \in Up(inf) \/ k \in Copied(inf)
        PROVE  e.part_num # T(k).part_num
    <3>1. PICK n \in In : e.part_num = n + 1 /\ n \notin Up(inf) /\ n \notin Copied(inf)
      BY <1>9
    <3>2. n # k
      BY <2>2, <3>1
    <3> QED BY <1>2, <1>11, <3>1, <3>2
  <2> QED BY <1>8, <1>13, <2>1, <2>2 DEF Disjoint
<1>16. OneEach(ext.keep) /\ ext.keep \subseteq inf.upload_list
  BY <1>8 DEF BlockEntries, OneEach
<1>17. MakesFile(Shapes(ext.keep) \cup ext.upload \cup ext.copy, Size)
  <2> DEFINE P == Shapes(ext.keep) \cup ext.upload \cup ext.copy
  <2>1. P = {T(n) : n \in In}
    <3>1. ASSUME NEW p \in P
          PROVE  p \in {T(n) : n \in In}
      <4>1. CASE p \in Shapes(ext.keep)
        BY <1>9, <4>1 DEF Shapes
      <4>2. CASE p \in ext.upload \cup ext.copy
        BY <1>8, <1>13, <4>2
      <4> QED BY <4>1, <4>2
    <3>2. ASSUME NEW n \in In
          PROVE  T(n) \in P
      <4>1. CASE n \in Up(inf) \/ n \in Copied(inf)
        BY <1>8, <4>1
      <4>2. CASE n \notin Up(inf) /\ n \notin Copied(inf)
        BY <1>10, <4>2 DEF Shapes
      <4> QED BY <4>1, <4>2
    <3> HIDE DEF P
    <3> QED BY <3>1, <3>2
  <2>2. P = {MpPart(cut[n], cut[n + 1] - cut[n], n + 1) : n \in 0..(b - 1)}
    BY <2>1 DEF T, In
  <2>3. \A n \in 0..(b - 2) : n \in In /\ n + 1 < b
    BY <1>1 DEF In
  <2>4. \A n \in 0..(b - 1) : cut[n] < cut[n + 1]
    BY <1>7 DEF In
  <2>5. \A n \in 0..(b - 2) : cut[n + 1] - cut[n] >= MIN_MULTIPART_SIZE
    BY <1>7, <2>3
  <2> HIDE DEF P
  <2>6. Cuts(cut, P, b, s)
    BY <1>1, <1>6, <2>2, <2>4, <2>5 DEF Cuts
  <2> QED BY <2>6 DEF MakesFile, P, Blocks
<1> QED BY <1>14, <1>15, <1>16, <1>17 DEF Planned


-----------------------------------------------------------------------------
(***************************************************************************)
(* The inductive invariant.  Good relates the pseudo descriptors, the      *)
(* requests and the handler to one another and to the size of the file.    *)
(* When no flush is at its end, an upload list holds whole blocks, one for *)
(* each number; from the extraction to the upload, the list and the        *)
(* handler's plan make the file; from there on, the list alone does.       *)
(***************************************************************************)
InfFields == {"state", "upload_id", "upload_list", "instruct_count", "last_result", "uploaded_sem"}

InfOK(inf) ==
    /\ DOMAIN inf = InfFields
    /\ IsFiniteSet(inf.upload_list) /\ \A e \in inf.upload_list : EntryOK(e)
    /\ inf.instruct_count \in Nat /\ inf.uploaded_sem \in Nat
    /\ inf.upload_id = 0 => inf.upload_list = {} /\ inf.instruct_count = 0
    /\ inf.state # "open" => inf.upload_id = 0

HandlerFields == {"pc", "fd", "forced", "upload", "copy"}

HandlerOK(h, inf, size) ==
    /\ h.pc \in {"wait_cancelled", "start", "wait_all", "complete", "cancel"}
    /\ h.pc \in {"wait_cancelled", "start"} =>
          /\ inf.upload_id # 0
          /\ Planned(inf.upload_list, h.upload, h.copy, size)
    /\ h.pc \in {"wait_all", "complete"} =>
          /\ OneEach(inf.upload_list)
          /\ MakesFile(Shapes(inf.upload_list), size)
    /\ h.pc = "complete" => inf.instruct_count = 0

(* The list of the descriptor is that of a flush at its end. *)
Final(h, fd) == h.pc \in {"wait_all", "complete"} /\ h.fd = fd

FdOK(fd, inf, J) ==
    InfOK(inf) /\ inf.instruct_count = Count(J, fd) + inf.uploaded_sem

Good(I, J, h, size) ==
    /\ DOMAIN I = Fds /\ JobSet(J)
    /\ \A fd \in Fds :
          /\ FdOK(fd, I[fd], J)
          /\ ~Final(h, fd) => BlockEntries(I[fd].upload_list, size)
    /\ DOMAIN h = HandlerFields
    /\ h.pc # "idle" => h.fd \in Fds /\ HandlerOK(h, I[h.fd], size)

AreasOK ==
    /\ writes \in Nat /\ writes <= MaxWrites
    /\ AreaList(untreated_list, last_tag, 3 * writes, Size)

UploadInv ==
    /\ Good(info, jobs, handler, Size)
    /\ AreasOK
    /\ Shaped(local) /\ Shaped(status) /\ Shaped(object)

-----------------------------------------------------------------------------
(* One descriptor, the requests and the handler change. *)
LEMMA GoodChange ==
    ASSUME NEW I, NEW J, NEW h, NEW size, Good(I, J, h, size),
           NEW fd \in Fds, NEW inf, NEW K, NEW n, NEW k, Grown(J, K, fd, n), FdOK(fd, inf, K),
           h.pc = "idle" \/ h.fd = fd \/ k = h,
           ~Final(k, fd) => BlockEntries(inf.upload_list, size),
           DOMAIN k = HandlerFields,
           k.pc # "idle" => (k.fd = fd /\ HandlerOK(k, inf, size)) \/ (k.fd # fd /\ k = h)
    PROVE  Good([I EXCEPT ![fd] = inf], K, k, size)
<1> PICK L : L = [I EXCEPT ![fd] = inf]
  OBVIOUS
<1>1. DOMAIN L = Fds /\ L[fd] = inf /\ \A g \in Fds \ {fd} : L[g] = I[g]
  BY DEF Good
<1>2. JobSet(K) /\ \A g \in Fds \ {fd} : Count(K, g) = Count(J, g)
  BY DEF Grown
<1>3. ASSUME NEW g \in Fds
      PROVE  FdOK(g, L[g], K) /\ (~Final(k, g) => BlockEntries(L[g].upload_list, size))
  <2>1. CASE g = fd
    BY <1>1, <2>1
  <2>2. CASE g # fd
    <3>1. L[g] = I[g] /\ Count(K, g) = Count(J, g)
      BY <1>1, <1>2, <2>2
    <3>2. FdOK(g, I[g], J) /\ (~Final(h, g) => BlockEntries(I[g].upload_list, size))
      BY DEF Good
    <3>3. ~Final(k, g) => ~Final(h, g)
      BY <2>2 DEF Final
    <3> QED BY <3>1, <3>2, <3>3 DEF FdOK
  <2> QED BY <2>1, <2>2
<1>4. k.pc # "idle" => k.fd \in Fds /\ HandlerOK(k, L[k.fd], size)
  <2> SUFFICES ASSUME k.pc # "idle"
               PROVE  k.fd \in Fds /\ HandlerOK(k, L[k.fd], size)
    OBVIOUS
  <2>1. CASE k.fd = fd /\ HandlerOK(k, inf, size)
    BY <1>1, <2>1
  <2>2. CASE k.fd # fd /\ k = h
    BY <1>1, <2>2 DEF Good
  <2> QED BY <2>1, <2>2
<1>5. Good(L, K, k, size)
  BY <1>1, <1>2, <1>3, <1>4 DEF Good
<1> QED BY <1>5

LEMMA SameJobs ==
    ASSUME NEW J, JobSet(J), NEW fd \in Fds
    PROVE  Grown(J, J, fd, 0)
<1>1. Count(J, fd) \in Nat
  BY OfFinite
<1>2. Count(J, fd) = Count(J, fd) + 0
  BY <1>1
<1> QED BY <1>2 DEF Grown

(* The handler returns, or gives a descriptor to a new one. *)
LEMMA GoodIdle ==
    ASSUME NEW I, NEW J, NEW h, NEW size, Good(I, J, h, size),
           \A fd \in Fds : ~Final(h, fd)
    PROVE  Good(I, J, NoHandler, size)
<1>1. DOMAIN NoHandler = HandlerFields /\ NoHandler.pc = "idle"
  BY DEF NoHandler, HandlerFields
<1> QED BY <1>1 DEF Good

-----------------------------------------------------------------------------
(* Results, ETags and posts: the shape of an upload list stays. *)
Alike(inf, new) ==
    /\ InfOK(new)
    /\ new.upload_id = inf.upload_id
    /\ new.instruct_count <= inf.instruct_count
    /\ Shapes(new.upload_list) = Shapes(inf.upload_list)
    /\ OneEach(inf.upload_list) => OneEach(new.upload_list)

LEMMA ShapeIs ==
    ASSUME NEW e
    PROVE  Shape(e).start = e.start /\ Shape(e).size = e.size /\ Shape(e).part_num = e.part_num
BY DEF Shape, MpPart

LEMMA SameShapes ==
    ASSUME NEW E, NEW F, Shapes(E) = Shapes(F), NEW e \in E
    PROVE  \E f \in F : f.start = e.start /\ f.size = e.size /\ f.part_num = e.part_num
<1>1. Shape(e) \in Shapes(F)
  BY DEF Shapes
<1>2. PICK f \in F : Shape(f) = Shape(e)
  BY <1>1 DEF Shapes
<1> QED BY <1>2, ShapeIs

LEMMA AlikeKeeps ==
    ASSUME NEW inf, NEW new, Alike(inf, new), NEW size
    PROVE  /\ BlockEntries(inf.upload_list, size) => BlockEntries(new.upload_list, size)
           /\ \A k : HandlerOK(k, inf, size) /\ InfOK(inf) => HandlerOK(k, new, size)
<1> PICK E : E = inf.upload_list
  OBVIOUS
<1> PICK F : F = new.upload_list
  OBVIOUS
<1>1. Shapes(F) = Shapes(E) /\ (OneEach(E) => OneEach(F))
  BY DEF Alike
<1>2. BlockEntries(E, size) => BlockEntries(F, size)
  <2> SUFFICES ASSUME BlockEntries(E, size)
               PROVE  BlockEntries(F, size)
    OBVIOUS
  <2>1. ASSUME NEW f \in F
        PROVE  \E n \in Nat : /\ f.start = n * max_mp_size /\ f.size = max_mp_size /\ f.part_num = n + 1
                              /\ (n + 1) * max_mp_size <= size
    <3>1. PICK e \in E : e.start = f.start /\ e.size = f.size /\ e.part_num = f.part_num
      BY <1>1, SameShapes
    <3>2. PICK n \in Nat : /\ e.start = n * max_mp_size /\ e.size = max_mp_size /\ e.part_num = n + 1
                           /\ (n + 1) * max_mp_size <= size
      BY DEF BlockEntries
    <3> QED BY <3>1, <3>2
  <2> QED BY <1>1, <2>1 DEF BlockEntries
<1>3. ASSUME NEW P, Disjoint(E, P)
      PROVE  Disjoint(F, P)
  <2> SUFFICES ASSUME NEW f \in F, NEW p \in P
               PROVE  f.part_num # p.part_num
    BY DEF Disjoint
  <2>1. PICK e \in E : e.part_num = f.part_num
    BY <1>1, SameShapes
  <2> QED BY <1>3, <2>1 DEF Disjoint
<1>4. \A u, c : Planned(E, u, c, size) => Planned(F, u, c, size)
  BY <1>1, <1>3 DEF Planned
<1>5. ASSUME NEW k, HandlerOK(k, inf, size), InfOK(inf)
      PROVE  HandlerOK(k, new, size)
  <2>1. k.pc \in {"wait_cancelled", "start"} => new.upload_id # 0 /\ Planned(F, k.upload, k.copy, size)
    BY <1>4, <1>5 DEF HandlerOK, Alike
  <2>2. k.pc \in {"wait_all", "complete"} => OneEach(F) /\ MakesFile(Shapes(F), size)
    BY <1>1, <1>5 DEF HandlerOK
  <2>3. k.pc = "complete" => new.instruct_count = 0
    <3>1. new.instruct_count \in Nat /\ inf.instruct_count \in Nat
      BY <1>5 DEF Alike, InfOK
    <3> QED BY <1>5, <3>1 DEF HandlerOK, Alike
  <2> QED BY <1>5, <2>1, <2>2, <2>3 DEF HandlerOK
<1> QED BY <1>2, <1>5

LEMMA GoodAlike ==
    ASSUME NEW I, NEW J, NEW h, NEW size, Good(I, J, h, size),
           NEW fd \in Fds, NEW inf, Alike(I[fd], inf), NEW K, NEW n, Grown(J, K, fd, n),
           inf.instruct_count = Count(K, fd) + inf.uploaded_sem
    PROVE  Good([I EXCEPT ![fd] = inf], K, h, size)
<1>1. FdOK(fd, inf, K)
  BY DEF Alike, FdOK
<1>2. InfOK(I[fd]) /\ (~Final(h, fd) => BlockEntries(I[fd].upload_list, size))
      /\ DOMAIN h = HandlerFields
      /\ (h.pc # "idle" /\ h.fd = fd => HandlerOK(h, I[fd], size))
  BY DEF Good, FdOK
<1>3. ~Final(h, fd) => BlockEntries(inf.upload_list, size)
  BY <1>2, AlikeKeeps
<1>4. h.pc # "idle" /\ h.fd = fd => HandlerOK(h, inf, size)
  BY <1>2, AlikeKeeps
<1> QED BY <1>1, <1>2, <1>3, <1>4, GoodChange

-----------------------------------------------------------------------------
(* Steps that leave the size of the file, the areas and the object alone. *)
LEMMA AreasGrow ==
    ASSUME NEW list, NEW tag, NEW most \in Nat, NEW size \in Nat, AreaList(list, tag, most, size),
           NEW most2 \in Nat, NEW size2 \in Nat, most <= most2, size <= size2
    PROVE  AreaList(list, tag, most2, size2)
<1>1. \A u \in UP!Bytes(list) : u \in Int
  <2> TAKE u \in UP!Bytes(list)
  <2>1. PICK i \in 1..Len(list) : u \in UP!PartBytes(list[i])
    BY UP!BytesOf, AreasAssumption DEF AreaList
  <2> QED BY <2>1 DEF UP!PartBytes
<1> QED BY <1>1 DEF AreaList

LEMMA AreaNone ==
    ASSUME NEW tag \in Nat, NEW most \in Nat, tag <= most, NEW size
    PROVE  AreaList(<<>>, tag, most, size)
<1>1. <<>> \in Seq(UP!Areas) /\ Len(<<>>) = 0 /\ DOMAIN <<>> = {}
  OBVIOUS
<1>2. UP!Apart(<<>>) /\ UP!Tagged(<<>>, tag)
  BY <1>1 DEF UP!Apart, UP!Tagged
<1>3. UP!Bytes(<<>>) = {}
  BY <1>1 DEF UP!Bytes
<1> QED BY <1>2, <1>3 DEF AreaList

LEMMA AreasNone ==
    ASSUME UploadInv, untreated_list' = <<>>, last_tag' \in {0, last_tag}, writes' = writes
    PROVE  AreasOK'
<1> PICK w \in Nat : w = writes /\ w <= MaxWrites
  BY DEF UploadInv, AreasOK
<1>1. 3 * w \in Nat
  OBVIOUS
<1>2. last_tag \in Nat /\ last_tag <= 3 * w
  BY DEF UploadInv, AreasOK, AreaList
<1> PICK tag \in Nat : tag = last_tag' /\ tag <= 3 * w
  BY <1>1, <1>2
<1> PICK s : s = Size'
  OBVIOUS
<1>3. AreaList(<<>>, tag, 3 * w, s)
  BY <1>1, AreaNone
<1> QED BY <1>3 DEF AreasOK

LEMMA AreasKept ==
    ASSUME UploadInv, UNCHANGED <<untreated_list, last_tag, writes>>, Size' = Size
    PROVE  AreasOK'
<1> PICK list, tag, w, s : list = untreated_list /\ tag = last_tag /\ w = writes /\ s = Size
  OBVIOUS
<1>1. w \in Nat /\ w <= MaxWrites /\ AreaList(list, tag, 3 * w, s)
  BY DEF UploadInv, AreasOK
<1> QED BY <1>1 DEF AreasOK

LEMMA SameLength ==
    ASSUME NEW f, Shaped(f), NEW g, g = [i \in DOMAIN f |-> g[i]]
    PROVE  Shaped(g) /\ Len(g) = Len(f)
<1>1. Len(f) \in Nat /\ DOMAIN f = 1..Len(f)
  BY ShapedFacts
<1>2. g = [i \in 1..Len(f) |-> g[i]]
  BY <1>1
<1> QED BY <1>1, <1>2, LenIs, Zenon

(* The file keeps its length. *)
LEMMA FileKept ==
    ASSUME UploadInv, status' = [i \in DOMAIN status |-> status'[i]]
    PROVE  Shaped(status)' /\ Size' = Size
<1>1. Shaped(status)
  BY DEF UploadInv
<1> PICK g : g = status'
  OBVIOUS
<1>2. Shaped(g) /\ Len(g) = Len(status)
  BY <1>1, SameLength
<1> QED BY <1>2 DEF Size

LEMMA SameStatus ==
    ASSUME UploadInv, status' = status
    PROVE  Shaped(status)' /\ Size' = Size
<1> PICK g : g = status
  OBVIOUS
<1> QED BY DEF UploadInv, Size

LEMMA SameData ==
    ASSUME UploadInv
    PROVE  /\ local' = local => Shaped(local)'
           /\ object' = object => Shaped(object)'
<1> PICK f, g : f = local /\ g = object
  OBVIOUS
<1> QED BY DEF UploadInv

LEMMA DataKept ==
    ASSUME UploadInv, local' = [i \in DOMAIN local |-> local'[i]]
    PROVE  Shaped(local)'
<1>1. Shaped(local)
  BY DEF UploadInv
<1> PICK g : g = local'
  OBVIOUS
<1>2. Shaped(g)
  BY <1>1, SameLength
<1> QED BY <1>2

(* Only the descriptors, the requests and the handler change. *)
LEMMA OnlyGood ==
    ASSUME UploadInv, UNCHANGED <<local, status, object, untreated_list, last_tag, writes>>,
           Good(info', jobs', handler', Size)
    PROVE  UploadInv'
<1>1. Shaped(status)' /\ Size' = Size
  BY SameStatus
<1>2. AreasOK'
  BY <1>1, AreasKept
<1>3. Shaped(local)' /\ Shaped(object)'
  BY SameData
<1>4. Good(info, jobs, handler, Size)'
  BY <1>1
<1> QED BY <1>1, <1>2, <1>3, <1>4 DEF UploadInv

-----------------------------------------------------------------------------
(* The workers. *)
LEMMA WithEtagOK ==
    ASSUME NEW E, IsFiniteSet(E), \A e \in E : EntryOK(e), NEW cell, NEW etag, Len(etag) \in Nat,
           NEW F, F = WithEtag(E, cell, etag)
    PROVE  /\ IsFiniteSet(F) /\ \A f \in F : EntryOK(f)
           /\ Shapes(F) = Shapes(E) /\ (OneEach(E) => OneEach(F))
           /\ E = {} => F = {}
<1> DEFINE new(e) == IF e.cell = cell THEN [e EXCEPT !.etag = etag] ELSE e
<1>1. F = {new(e) : e \in E}
  BY DEF WithEtag
<1>2. \A e \in E : EntryOK(new(e)) /\ Shape(new(e)) = Shape(e) /\ new(e).part_num = e.part_num
  <2> TAKE e \in E
  <2>1. DOMAIN e = EntryFields /\ EntryOK(e)
    BY DEF EntryOK
  <2>2. CASE e.cell = cell
    <3>1. new(e) = [e EXCEPT !.etag = etag]
      BY <2>2
    <3>2. DOMAIN new(e) = EntryFields /\ new(e).start = e.start /\ new(e).size = e.size
          /\ new(e).part_num = e.part_num /\ new(e).etag = etag
      BY <2>1, <3>1 DEF EntryFields
    <3> HIDE DEF new
    <3> QED BY <2>1, <3>2 DEF EntryOK, Shape
  <2>3. CASE e.cell # cell
    BY <2>1, <2>3
  <2> QED BY <2>2, <2>3
<1>3. IsFiniteSet(F)
  <2> DEFINE f == [e \in E |-> new(e)]
  <2>1. f \in [E -> F] /\ \A y \in F : \E x \in E : f[x] = y
    BY <1>1
  <2> HIDE DEF f
  <2> QED BY <2>1, ImageFinite
<1> HIDE DEF new
<1>4. \A f \in F : EntryOK(f)
  BY <1>1, <1>2
<1>5. Shapes(F) = Shapes(E)
  BY <1>1, <1>2 DEF Shapes
<1>6. OneEach(E) => OneEach(F)
  BY <1>1, <1>2 DEF OneEach
<1>7. E = {} => F = {}
  BY <1>1
<1> QED BY <1>3, <1>4, <1>5, <1>6, <1>7

(* The end of a request: it leaves the jobs and is posted. *)
LEMMA EndStep ==
    ASSUME UploadInv, NEW j \in jobs, jobs' = jobs \ {j},
           NEW inf, info' = [info EXCEPT ![j.fd] = inf], DOMAIN inf = InfFields,
           inf.state = info[j.fd].state, inf.upload_id = info[j.fd].upload_id,
           inf.instruct_count = info[j.fd].instruct_count,
           inf.uploaded_sem = info[j.fd].uploaded_sem + 1,
           NEW cell, NEW etag, Len(etag) \in Nat,
           inf.upload_list = info[j.fd].upload_list
              \/ inf.upload_list = WithEtag(info[j.fd].upload_list, cell, etag),
           UNCHANGED <<local, status, object, untreated_list, last_tag, writes, handler>>
    PROVE  UploadInv'
<1> PICK fd : fd = j.fd
  OBVIOUS
<1> PICK old : old = info[fd]
  OBVIOUS
<1>1. Good(info, jobs, handler, Size) /\ JobSet(jobs)
  BY DEF UploadInv, Good
<1>2. fd \in Fds /\ Grown(jobs, jobs \ {j}, fd, -1)
  BY <1>1, JobEnds
<1>3. InfOK(old) /\ old.instruct_count = Count(jobs, fd) + old.uploaded_sem
  BY <1>1, <1>2 DEF Good, FdOK
<1>4. Count(jobs, fd) \in Nat /\ Count(jobs \ {j}, fd) = Count(jobs, fd) - 1
  BY <1>1, <1>2, OfFinite DEF Grown
<1>5. old.instruct_count \in Nat /\ old.uploaded_sem \in Nat
  BY <1>3 DEF InfOK
<1>6. inf.instruct_count = Count(jobs \ {j}, fd) + inf.uploaded_sem
  BY <1>3, <1>4, <1>5
<1>7. /\ IsFiniteSet(inf.upload_list) /\ \A f \in inf.upload_list : EntryOK(f)
      /\ Shapes(inf.upload_list) = Shapes(old.upload_list)
      /\ OneEach(old.upload_list) => OneEach(inf.upload_list)
      /\ old.upload_list = {} => inf.upload_list = {}
  <2> PICK E : E = old.upload_list
    OBVIOUS
  <2> PICK F : F = inf.upload_list
    OBVIOUS
  <2>1. IsFiniteSet(E) /\ \A e \in E : EntryOK(e)
    BY <1>3 DEF InfOK
  <2>2. CASE F = E
    BY <2>1, <2>2
  <2>3. CASE F = WithEtag(E, cell, etag)
    BY <2>1, <2>3, WithEtagOK
  <2> QED BY <2>2, <2>3
<1>8. inf.uploaded_sem \in Nat
  BY <1>5
<1>9. InfOK(inf)
  BY <1>3, <1>5, <1>7, <1>8 DEF InfOK
<1>10. Alike(old, inf)
  BY <1>5, <1>7, <1>9 DEF Alike
<1>11. Good([info EXCEPT ![fd] = inf], jobs \ {j}, handler, Size)
  BY <1>1, <1>2, <1>6, <1>10, GoodAlike
<1> QED BY <1>11, OnlyGood

LEMMA PostedIs ==
    ASSUME DOMAIN info = Fds, NEW fd \in Fds, DOMAIN info[fd] = InfFields, NEW result, Posted(fd, result)
    PROVE  \E inf : /\ info' = [info EXCEPT ![fd] = inf] /\ DOMAIN inf = InfFields
                    /\ inf.state = info[fd].state /\ inf.upload_id = info[fd].upload_id
                    /\ inf.instruct_count = info[fd].instruct_count
                    /\ inf.uploaded_sem = info[fd].uploaded_sem + 1
                    /\ inf.upload_list = info[fd].upload_list
<1> PICK inf : inf = [info[fd] EXCEPT !.last_result = result, !.uploaded_sem = @ + 1]
  OBVIOUS
<1>1. info' = [info EXCEPT ![fd] = inf]
  BY DEF Posted, InfFields
<1>2. /\ DOMAIN inf = InfFields
      /\ inf.state = info[fd].state /\ inf.upload_id = info[fd].upload_id
      /\ inf.instruct_count = info[fd].instruct_count
      /\ inf.uploaded_sem = info[fd].uploaded_sem + 1
      /\ inf.upload_list = info[fd].upload_list
  BY DEF InfFields
<1> QED BY <1>1, <1>2

LEMMA JobInfo ==
    ASSUME UploadInv, NEW j \in jobs
    PROVE  /\ JobOK(j) /\ JobSet(jobs) /\ DOMAIN info = Fds
           /\ InfOK(info[j.fd]) /\ DOMAIN info[j.fd] = InfFields
<1>1. JobOK(j) /\ j.fd \in Fds
  BY DEF UploadInv, Good, JobSet, JobOK
<1> QED BY <1>1 DEF UploadInv, Good, FdOK, InfOK

LEMMA PostStep ==
    ASSUME UploadInv, NEW j \in jobs, jobs' = jobs \ {j}, NEW result, Posted(j.fd, result),
           UNCHANGED <<local, status, object, untreated_list, last_tag, writes, handler>>
    PROVE  UploadInv'
<1> PICK fd : fd = j.fd
  OBVIOUS
<1>1. fd \in Fds /\ DOMAIN info = Fds /\ DOMAIN info[fd] = InfFields
  BY JobInfo DEF JobOK
<1>2. PICK inf : /\ info' = [info EXCEPT ![fd] = inf] /\ DOMAIN inf = InfFields
                 /\ inf.state = info[fd].state /\ inf.upload_id = info[fd].upload_id
                 /\ inf.instruct_count = info[fd].instruct_count
                 /\ inf.uploaded_sem = info[fd].uploaded_sem + 1
                 /\ inf.upload_list = info[fd].upload_list
  BY <1>1, PostedIs
<1> PICK etag : Len(etag) \in Nat
  <2>1. Len(<<>>) = 0
    OBVIOUS
  <2> QED BY <2>1
<1> PICK cell : cell = 0
  OBVIOUS
<1>3. inf.upload_list = info[j.fd].upload_list \/ inf.upload_list = WithEtag(info[j.fd].upload_list, cell, etag)
  BY <1>2
<1>4. info' = [info EXCEPT ![j.fd] = inf]
  BY <1>2
<1>5. inf.state = info[j.fd].state /\ inf.upload_id = info[j.fd].upload_id
      /\ inf.instruct_count = info[j.fd].instruct_count
      /\ inf.uploaded_sem = info[j.fd].uploaded_sem + 1
  BY <1>2
<1> QED BY <1>2, <1>3, <1>4, <1>5, EndStep, Zenon

LEMMA SkipStep ==
    ASSUME UploadInv, NEW j \in jobs, Skip(j)
    PROVE  UploadInv'
<1>1. /\ jobs' = jobs \ {j} /\ Posted(j.fd, info[j.fd].last_result)
      /\ UNCHANGED <<local, status, object, untreated_list, last_tag, writes, handler>>
  BY DEF Skip, workerUnchanged, fileVars, areaVars
<1> QED BY <1>1, PostStep

LEMMA FailStep ==
    ASSUME UploadInv, NEW j \in jobs, Fail(j)
    PROVE  UploadInv'
<1>1. /\ jobs' = jobs \ {j} /\ Posted(j.fd, "error")
      /\ UNCHANGED <<local, status, object, untreated_list, last_tag, writes, handler>>
  BY DEF Fail, workerUnchanged, fileVars, areaVars
<1> QED BY <1>1, PostStep

LEMMA FinishStep ==
    ASSUME UploadInv, NEW j \in jobs, Finish(j)
    PROVE  UploadInv'
<1>1. /\ jobs' = jobs \ {j}
      /\ UNCHANGED <<local, status, object, untreated_list, last_tag, writes, handler>>
  BY DEF Finish, workerUnchanged, fileVars, areaVars
<1>2. j.fd \in Fds /\ DOMAIN info = Fds /\ DOMAIN info[j.fd] = InfFields
  BY JobInfo DEF JobOK
<1>3. Len(j.body) \in Nat
  BY JobInfo DEF JobOK, Finish
<1> PICK fd : fd = j.fd
  OBVIOUS
<1> PICK list : list = WithEtag(info[fd].upload_list, j.entry.cell, j.body)
  OBVIOUS
<1> PICK inf : inf = [info[fd] EXCEPT !.last_result = "ok", !.uploaded_sem = @ + 1, !.upload_list = list]
  OBVIOUS
<1>4. info' = [info EXCEPT ![fd] = inf]
  BY <1>2 DEF Finish, InfFields
<1>5. /\ DOMAIN inf = InfFields
      /\ inf.state = info[fd].state /\ inf.upload_id = info[fd].upload_id
      /\ inf.instruct_count = info[fd].instruct_count
      /\ inf.uploaded_sem = info[fd].uploaded_sem + 1
      /\ inf.upload_list = list
  BY <1>2 DEF InfFields
<1> PICK cell, etag : cell = j.entry.cell /\ etag = j.body
  OBVIOUS
<1>6. /\ Len(etag) \in Nat
      /\ \/ inf.upload_list = info[j.fd].upload_list
         \/ inf.upload_list = WithEtag(info[j.fd].upload_list, cell, etag)
  BY <1>3, <1>5
<1>7. info' = [info EXCEPT ![j.fd] = inf] /\ inf.state = info[j.fd].state
      /\ inf.upload_id = info[j.fd].upload_id
      /\ inf.instruct_count = info[j.fd].instruct_count
      /\ inf.uploaded_sem = info[j.fd].uploaded_sem + 1
  BY <1>4, <1>5
<1> QED BY ONLY UploadInv, j \in jobs, <1>1, <1>5, <1>6, <1>7, EndStep, Zenon

(* A request makes a step of its own. *)
LEMMA AdvanceStep ==
    ASSUME UploadInv, NEW j \in jobs, NEW k, JobOK(k), k.fd = j.fd, k.entry = j.entry, Advance(j, k),
           UNCHANGED <<local, status, object, untreated_list, last_tag, writes, handler, info>>
    PROVE  UploadInv'
<1> PICK fd : fd = j.fd
  OBVIOUS
<1>1. Good(info, jobs, handler, Size) /\ JobSet(jobs) /\ fd \in Fds /\ DOMAIN info = Fds
  BY JobInfo DEF UploadInv, Good, JobOK
<1> PICK K : K = (jobs \ {j}) \cup {k}
  OBVIOUS
<1>2. Grown(jobs, K, fd, 0) /\ jobs' = K
  BY <1>1, JobAdvances DEF Advance
<1>3. FdOK(fd, info[fd], jobs) /\ InfOK(info[fd])
  BY <1>1 DEF Good, FdOK
<1>4. Alike(info[fd], info[fd])
  BY <1>3 DEF Alike, InfOK
<1>5. Count(K, fd) = Count(jobs, fd)
  BY <1>1, <1>2, OfFinite DEF Grown
<1>6. info[fd].instruct_count = Count(K, fd) + info[fd].uploaded_sem
  BY <1>3, <1>5 DEF FdOK
<1>7. Good([info EXCEPT ![fd] = info[fd]], K, handler, Size)
  BY <1>1, <1>2, <1>4, <1>6, GoodAlike
<1>8. [info EXCEPT ![fd] = info[fd]] = [g \in DOMAIN info |-> info[g]]
  BY <1>1
<1>9. \A g \in Fds : [info EXCEPT ![fd] = info[fd]][g] = info[g]
  BY <1>1
<1>10. Good(info, K, handler, Size)
  BY <1>1, <1>7, <1>9 DEF Good
<1> QED BY <1>2, <1>10, OnlyGood

LEMMA SendStep ==
    ASSUME UploadInv, NEW j \in jobs, Send(j)
    PROVE  UploadInv'
<1>1. UNCHANGED <<local, status, object, untreated_list, last_tag, writes, handler, info>>
  BY DEF Send, workerUnchanged, fileVars, areaVars
<1> PICK body : Advance(j, [j EXCEPT !.step = "sent", !.body = body])
  BY DEF Send
<1> PICK k : k = [j EXCEPT !.step = "sent", !.body = body]
  OBVIOUS
<1>2. JobOK(k) /\ k.fd = j.fd /\ k.entry = j.entry
  <2>1. JobOK(j) /\ DOMAIN j = JobFields
    BY JobInfo DEF JobOK
  <2>2. DOMAIN k = JobFields /\ k.fd = j.fd /\ k.entry = j.entry /\ k.step = "sent"
    BY <2>1 DEF JobFields
  <2> QED BY <2>1, <2>2 DEF JobOK
<1> QED BY <1>1, <1>2, AdvanceStep

LEMMA BodyLength ==
    ASSUME NEW j, JobOK(j), NEW body \in Bodies(j)
    PROVE  Len(body) \in Nat
<1>1. j.entry.size \in Nat
  BY DEF JobOK, EntryOK
<1>2. body = [i \in 1..j.entry.size |-> body[i]]
  <2>1. CASE j.entry.is_copy
    BY <2>1 DEF Bodies, Content
  <2>2. CASE ~j.entry.is_copy
    BY <2>2 DEF Bodies
  <2> QED BY <2>1, <2>2
<1> QED BY <1>1, <1>2, LenIs

LEMMA ArriveStep ==
    ASSUME UploadInv, NEW j \in jobs, Arrive(j)
    PROVE  UploadInv'
<1>1. UNCHANGED <<local, status, object, untreated_list, last_tag, writes, handler, info>>
  BY DEF Arrive, workerUnchanged, fileVars, areaVars
<1> PICK body \in Bodies(j) : Advance(j, [j EXCEPT !.step = "stored", !.body = body])
  BY DEF Arrive
<1> PICK k : k = [j EXCEPT !.step = "stored", !.body = body]
  OBVIOUS
<1>2. JobOK(k) /\ k.fd = j.fd /\ k.entry = j.entry
  <2>1. JobOK(j) /\ DOMAIN j = JobFields
    BY JobInfo DEF JobOK
  <2>2. DOMAIN k = JobFields /\ k.fd = j.fd /\ k.entry = j.entry /\ k.body = body
    BY <2>1 DEF JobFields
  <2>3. Len(body) \in Nat
    BY <2>1, BodyLength
  <2> QED BY <2>1, <2>2, <2>3 DEF JobOK
<1> QED BY <1>1, <1>2, AdvanceStep

LEMMA WorkerStepOK ==
    ASSUME UploadInv, NEW j \in jobs, WorkerStep(j)
    PROVE  UploadInv'
BY SkipStep, SendStep, ArriveStep, FailStep, FinishStep DEF WorkerStep

-----------------------------------------------------------------------------
(* What the handlers make of a pseudo descriptor. *)
KeepAs(inf, keep, new) ==
    /\ InfOK(new) /\ new.upload_list = keep /\ new.state = inf.state
    /\ new.upload_id = inf.upload_id /\ new.instruct_count = inf.instruct_count
    /\ new.uploaded_sem = inf.uploaded_sem

LEMMA KeepOK ==
    ASSUME NEW inf, InfOK(inf), NEW keep, keep \subseteq inf.upload_list
    PROVE  KeepAs(inf, keep, [inf EXCEPT !.upload_list = keep])
<1> PICK new : new = [inf EXCEPT !.upload_list = keep]
  OBVIOUS
<1>1. /\ DOMAIN new = InfFields /\ new.upload_list = keep /\ new.state = inf.state
      /\ new.upload_id = inf.upload_id /\ new.instruct_count = inf.instruct_count
      /\ new.uploaded_sem = inf.uploaded_sem
  BY DEF InfOK, InfFields
<1>2. IsFiniteSet(keep)
  BY FS_Subset DEF InfOK
<1>3. KeepAs(inf, keep, new)
  BY <1>1, <1>2 DEF InfOK, KeepAs
<1> QED BY <1>3

LEMMA ResetOK ==
    ASSUME NEW inf, InfOK(inf), NEW new, new = ResetUploadInfo(inf)
    PROVE  /\ InfOK(new) /\ new.upload_list = {} /\ new.state = inf.state
           /\ new.upload_id = 0 /\ new.instruct_count = 0
           /\ new.uploaded_sem = inf.uploaded_sem
<1>1. /\ DOMAIN new = InfFields /\ new.upload_list = {} /\ new.state = inf.state
      /\ new.upload_id = 0 /\ new.instruct_count = 0
      /\ new.uploaded_sem = inf.uploaded_sem
  BY DEF InfOK, InfFields, ResetUploadInfo
<1> QED BY <1>1, FS_EmptySet DEF InfOK

StartedAs(inf, E, new) ==
    /\ InfOK(new) /\ new.upload_list = inf.upload_list \cup E
    /\ new.upload_id = inf.upload_id
    /\ new.instruct_count = inf.instruct_count + Cardinality(E)
    /\ new.uploaded_sem = inf.uploaded_sem

LEMMA StartedOK ==
    ASSUME NEW inf, InfOK(inf), inf.upload_id # 0, NEW E, NEW hi, Celled(E, 0, hi)
    PROVE  StartedAs(inf, E, Started(inf, E))
<1> PICK new : new = Started(inf, E)
  OBVIOUS
<1>1. /\ DOMAIN new = InfFields /\ new.upload_list = inf.upload_list \cup E /\ new.state = inf.state
      /\ new.upload_id = inf.upload_id
      /\ new.instruct_count = inf.instruct_count + Cardinality(E)
      /\ new.uploaded_sem = inf.uploaded_sem
  BY DEF InfOK, InfFields, Started
<1>2. IsFiniteSet(E) /\ Cardinality(E) \in Nat /\ \A e \in E : EntryOK(e)
  BY FS_CardinalityType DEF Celled
<1>3. IsFiniteSet(inf.upload_list \cup E) /\ \A e \in inf.upload_list \cup E : EntryOK(e)
  BY <1>2, FS_Union DEF InfOK
<1>4. new.instruct_count \in Nat
  BY <1>1, <1>2 DEF InfOK
<1>5. StartedAs(inf, E, new)
  BY <1>1, <1>3, <1>4 DEF InfOK, StartedAs
<1> QED BY <1>5

(* There is an upload id for every descriptor, and one more. *)
LEMMA NextIdIs ==
    ASSUME DOMAIN info = Fds
    PROVE  NextId # 0 /\ NextId \in Ids /\ \A fd \in Fds : info[fd].upload_id # NextId
<1> DEFINE taken == {info[fd].upload_id : fd \in Fds}
<1>1. IsFiniteSet(Fds) /\ Cardinality(Fds) \in Nat
  BY StreamUploadAssumption, FS_CardinalityType
<1>2. IsFiniteSet(taken) /\ Cardinality(taken) <= Cardinality(Fds) /\ Cardinality(taken) \in Nat
  <2> DEFINE f == [fd \in Fds |-> info[fd].upload_id]
  <2>1. f \in [Fds -> taken] /\ \A y \in taken : \E x \in Fds : f[x] = y
    OBVIOUS
  <2> HIDE DEF f, taken
  <2> QED BY <1>1, <2>1, ImageFinite
<1> HIDE DEF taken
<1>3. IsFiniteSet(Ids) /\ Cardinality(Ids) = Cardinality(Fds) + 1
  <2> PICK n \in Nat : n = Cardinality(Fds)
    BY <1>1
  <2>1. Cardinality(1..(n + 1)) = n + 1 /\ IsFiniteSet(1..(n + 1))
    <3> PICK k \in Nat : k = n + 1 /\ 1 <= k
      OBVIOUS
    <3>1. IsFiniteSet(1..k) /\ Cardinality(1..k) = IF 1 > k THEN 0 ELSE k - 1 + 1
      BY FS_Interval
    <3> QED BY <3>1
  <2> QED BY <2>1 DEF Ids
<1>4. ~(Ids \subseteq taken)
  <2> SUFFICES ASSUME Ids \subseteq taken
               PROVE  FALSE
    OBVIOUS
  <2>1. Cardinality(Ids) <= Cardinality(taken)
    BY <1>2, FS_Subset
  <2> QED BY <1>1, <1>2, <1>3, <2>1
<1>5. Ids \ taken \in SUBSET Nat /\ Ids \ taken # {} /\ \A n \in Ids : n # 0
  BY <1>1, <1>4 DEF Ids
<1>6. NextId = SetMin(Ids \ taken)
  BY DEF NextId, taken
<1>7. SetMin(Ids \ taken) \in Ids \ taken
  BY <1>5, SetMinIs
<1>8. \A fd \in Fds : info[fd].upload_id \in taken
  BY DEF taken
<1> QED BY <1>5, <1>6, <1>7, <1>8

PreAs(inf, new) ==
    /\ InfOK(new) /\ new.upload_list = inf.upload_list
    /\ new.upload_id # 0 /\ new.instruct_count = inf.instruct_count
    /\ new.uploaded_sem = inf.uploaded_sem
    /\ \/ new.upload_id = inf.upload_id
       \/ inf.upload_id = 0 /\ \A fd \in Fds : info[fd].upload_id # new.upload_id

LEMMA PreOK ==
    ASSUME DOMAIN info = Fds, NEW inf, InfOK(inf), inf.state = "open"
    PROVE  PreAs(inf, PreMultipartUploadRequest(inf))
<1> PICK new : new = PreMultipartUploadRequest(inf)
  OBVIOUS
<1>1. CASE inf.upload_id # 0
  BY <1>1 DEF PreMultipartUploadRequest, IsUploading, PreAs
<1>2. CASE inf.upload_id = 0
  <2> PICK old : old = ResetUploadInfo(inf)
    OBVIOUS
  <2> PICK id : id = NextId
    OBVIOUS
  <2>1. new = [old EXCEPT !.upload_id = id] /\ id # 0 /\ \A fd \in Fds : info[fd].upload_id # id
    BY <1>2, NextIdIs DEF PreMultipartUploadRequest, IsUploading
  <2>2. /\ InfOK(old) /\ old.upload_list = {} /\ old.state = "open" /\ old.instruct_count = 0
        /\ old.uploaded_sem = inf.uploaded_sem
    BY ResetOK
  <2>3. /\ DOMAIN new = InfFields /\ new.upload_list = {} /\ new.state = "open"
        /\ new.upload_id = id /\ new.instruct_count = 0 /\ new.uploaded_sem = inf.uploaded_sem
    BY <2>1, <2>2 DEF InfOK, InfFields
  <2>4. inf.upload_list = {} /\ inf.instruct_count = 0
    BY <1>2 DEF InfOK
  <2>5. InfOK(new)
    BY <2>1, <2>2, <2>3 DEF InfOK
  <2> QED BY <1>2, <2>1, <2>3, <2>4, <2>5 DEF PreAs
<1> QED BY <1>1, <1>2

(* The entries made of planned parts. *)
LEMMA WithCellsFrom ==
    ASSUME NEW mplist, Numbered(mplist), NEW skip, NEW is_copy
    PROVE  /\ \A e \in WithCells(mplist, skip, is_copy) : Shape(e) \in {MpPart(p.start, p.size, p.part_num) : p \in mplist}
           /\ \A p \in mplist : \E e \in WithCells(mplist, skip, is_copy) : Shape(e) = MpPart(p.start, p.size, p.part_num)
           /\ OneEach(WithCells(mplist, skip, is_copy))
<1> DEFINE Entry(m) == [start |-> m.start, size |-> m.size, part_num |-> m.part_num, is_copy |-> is_copy,
                        etag |-> NoEtag, cell |-> FreeCell(skip + Place(mplist, m))]
<1> PICK E : E = WithCells(mplist, skip, is_copy)
  OBVIOUS
<1>1. E = {Entry(m) : m \in mplist}
  BY DEF WithCells, Place
<1>2. \A m : Entry(m).part_num = m.part_num /\ Shape(Entry(m)) = MpPart(m.start, m.size, m.part_num)
  BY DEF Shape
<1> HIDE DEF Entry
<1>3. OneEach(E)
  <2> SUFFICES ASSUME NEW e \in E, NEW f \in E, e.part_num = f.part_num
               PROVE  e = f
    BY DEF OneEach
  <2> PICK k \in mplist, m \in mplist : e = Entry(k) /\ f = Entry(m)
    BY <1>1
  <2>1. k = m
    BY <1>2 DEF Numbered
  <2> QED BY <2>1
<1>4. \A e \in E : Shape(e) \in {MpPart(p.start, p.size, p.part_num) : p \in mplist}
  BY <1>1, <1>2
<1>5. \A p \in mplist : \E e \in E : Shape(e) = MpPart(p.start, p.size, p.part_num)
  BY <1>1, <1>2
<1> QED BY <1>3, <1>4, <1>5

LEMMA WithCellsShapes ==
    ASSUME NEW mplist, Numbered(mplist), NEW skip, NEW is_copy,
           \A p \in mplist : p = MpPart(p.start, p.size, p.part_num)
    PROVE  OneEach(WithCells(mplist, skip, is_copy)) /\ Shapes(WithCells(mplist, skip, is_copy)) = mplist
<1> PICK E : E = WithCells(mplist, skip, is_copy)
  OBVIOUS
<1>1. OneEach(E) /\ (\A e \in E : Shape(e) \in mplist) /\ (\A p \in mplist : \E e \in E : Shape(e) = p)
  BY WithCellsFrom
<1>2. Shapes(E) = mplist
  BY <1>1 DEF Shapes
<1> QED BY <1>1, <1>2

(* The uploads and the copies of a flush get cells of their own. *)
LEMMA CelledBoth ==
    ASSUME NEW E, NEW F, NEW lo \in Nat, NEW hi \in Nat, lo <= hi, Celled(E, 0, lo), Celled(F, lo, hi)
    PROVE  Celled(E \cup F, 0, hi)
<1>1. \A e \in E : EntryOK(e) /\ e.cell \in Free /\ 0 < Rank(e.cell) /\ Rank(e.cell) <= lo
  BY DEF Celled
<1>2. \A e \in F : EntryOK(e) /\ e.cell \in Free /\ lo < Rank(e.cell) /\ Rank(e.cell) <= hi
  BY DEF Celled
<1>3. \A c \in Free : Rank(c) \in Nat
  <2> TAKE c \in Free
  <2>1. {d \in Free : d <= c} \in SUBSET Free
    OBVIOUS
  <2> QED BY <2>1, FreeFacts, FS_Subset, FS_CardinalityType DEF Rank
<1>4. \A e \in E, f \in F : e.cell # f.cell
  BY <1>1, <1>2, <1>3
<1>5. \A e \in E \cup F : EntryOK(e) /\ e.cell \in Free /\ 0 < Rank(e.cell) /\ Rank(e.cell) <= hi
  BY <1>1, <1>2, <1>3
<1>6. IsFiniteSet(E \cup F)
  BY FS_Union DEF Celled
<1>7. \A e, f \in E \cup F : e.cell = f.cell => e = f
  BY <1>4 DEF Celled
<1> QED BY <1>5, <1>6, <1>7 DEF Celled

-----------------------------------------------------------------------------
(* The end of a flush or a close, whose descriptor and requests stay. *)
LEMMA ReturnsOK ==
    ASSUME UploadInv, handler' = NoHandler, UNCHANGED <<info, jobs>>,
           handler.pc \notin {"wait_all", "complete"}
    PROVE  Good(info', jobs', handler', Size)
<1>1. Good(info, jobs, handler, Size) /\ \A fd \in Fds : ~Final(handler, fd)
  BY DEF UploadInv, Final
<1>2. Good(info, jobs, NoHandler, Size)
  BY <1>1, GoodIdle
<1> QED BY <1>2

(* The file may change, but not its length. *)
LEMMA FileStep ==
    ASSUME UploadInv, status' = [i \in DOMAIN status |-> status'[i]], local' = [i \in DOMAIN local |-> local'[i]],
           Good(info', jobs', handler', Size), AreasOK', Shaped(object)'
    PROVE  UploadInv'
<1>1. Shaped(status)' /\ Size' = Size
  BY FileKept
<1>2. Shaped(local)'
  BY DataKept
<1>3. Good(info, jobs, handler, Size)'
  BY <1>1
<1> QED BY <1>1, <1>2, <1>3 DEF UploadInv

LEMMA FlushNothingStep ==
    ASSUME UploadInv, NEW fd \in Fds, FlushNothing(fd)
    PROVE  UploadInv'
<1>1. /\ handler.pc = "idle" /\ handler' = NoHandler
      /\ UNCHANGED <<local, status, object, untreated_list, last_tag, writes, info, jobs>>
  BY DEF FlushNothing, Idle, Return, fileVars, areaVars
<1>2. Good(info', jobs', handler', Size)
  BY <1>1, ReturnsOK
<1> QED BY <1>1, <1>2, OnlyGood

LEMMA FlushSmallNotLoadedStep ==
    ASSUME UploadInv, NEW fd \in Fds, NEW forced \in BOOLEAN, FlushSmallNotLoaded(fd, forced)
    PROVE  UploadInv'
<1>1. /\ handler.pc = "idle" /\ handler' = NoHandler
      /\ UNCHANGED <<object, untreated_list, last_tag, writes, info, jobs>>
  BY DEF FlushSmallNotLoaded, Flushing, Idle, LoadFails, ReturnError, Return, areaVars
<1>2. PICK got : local' = Loaded(got) /\ status' = LoadedStatus(got)
  BY DEF FlushSmallNotLoaded, LoadFails
<1>3. status' = [i \in DOMAIN status |-> status'[i]] /\ local' = [i \in DOMAIN local |-> local'[i]]
  BY <1>2 DEF Loaded, LoadedStatus
<1>4. Good(info', jobs', handler', Size)
  BY <1>1, ReturnsOK
<1>5. AreasOK'
  BY <1>1, <1>3, FileKept, AreasKept
<1>6. Shaped(object)'
  BY <1>1, SameData
<1> QED BY <1>3, <1>4, <1>5, <1>6, FileStep

LEMMA FlushSmallStep ==
    ASSUME UploadInv, NEW fd \in Fds, NEW forced \in BOOLEAN, FlushSmall(fd, forced)
    PROVE  UploadInv'
<1>1. /\ handler.pc = "idle" /\ handler' = NoHandler
      /\ untreated_list' = <<>> /\ local' = Loaded(Units(0, Size))
      /\ UNCHANGED <<last_tag, writes, info, jobs>>
  BY DEF FlushSmall, Flushing, Idle, ReturnError, Return
<1>2. local' = [i \in DOMAIN local |-> local'[i]]
  BY <1>1 DEF Loaded
<1>3. status' = [i \in DOMAIN status |-> status'[i]]
  <2>1. CASE status' = AllCleared(LoadedStatus(Units(0, Size)))
    BY <2>1 DEF AllCleared, LoadedStatus
  <2>2. CASE status' = LoadedStatus(Units(0, Size))
    BY <2>2 DEF LoadedStatus
  <2> QED BY <2>1, <2>2 DEF FlushSmall
<1>4. Good(info', jobs', handler', Size)
  BY <1>1, ReturnsOK
<1>5. AreasOK'
  BY <1>1, AreasNone
<1>6. Shaped(local)'
  BY <1>2, DataKept
<1>7. Shaped(object)'
  <2>1. CASE object' = local'
    <3> PICK g : g = local'
      OBVIOUS
    <3> QED BY <1>6, <2>1
  <2>2. CASE object' = object
    BY <2>2, SameData
  <2> QED BY <2>1, <2>2 DEF FlushSmall
<1> QED BY <1>2, <1>3, <1>4, <1>5, <1>7, FileStep

LEMMA PunchHoleStep ==
    ASSUME UploadInv, PunchHole
    PROVE  UploadInv'
<1>1. UNCHANGED <<object, untreated_list, last_tag, writes, info, jobs, handler>>
  BY DEF PunchHole, areaVars
<1>2. Shaped(local) /\ Shaped(status)
  BY DEF UploadInv
<1>3. local = [i \in DOMAIN local |-> local[i]] /\ status = [i \in DOMAIN status |-> status[i]]
  BY <1>2 DEF Shaped
<1>4. local' = [i \in DOMAIN local |-> local'[i]] /\ status' = [i \in DOMAIN status |-> status'[i]]
  <2>1. CASE UNCHANGED <<local, status>>
    BY <1>3, <2>1
  <2>2. CASE ~UNCHANGED <<local, status>>
    BY <2>2 DEF PunchHole
  <2> QED BY <2>1, <2>2
<1>5. Good(info', jobs', handler', Size)
  BY <1>1 DEF UploadInv
<1>6. AreasOK'
  BY <1>1, <1>4, FileKept, AreasKept
<1>7. Shaped(object)'
  BY <1>1, SameData
<1> QED BY <1>4, <1>5, <1>6, <1>7, FileStep

-----------------------------------------------------------------------------
(* The waits of a handler. *)
LEMMA HandlerInfo ==
    ASSUME UploadInv, handler.pc # "idle"
    PROVE  /\ Good(info, jobs, handler, Size) /\ JobSet(jobs) /\ DOMAIN info = Fds
           /\ DOMAIN handler = HandlerFields
           /\ handler.fd \in Fds /\ HandlerOK(handler, info[handler.fd], Size)
           /\ InfOK(info[handler.fd]) /\ FdOK(handler.fd, info[handler.fd], jobs)
           /\ ~Final(handler, handler.fd) => BlockEntries(info[handler.fd].upload_list, Size)
<1>1. Good(info, jobs, handler, Size)
  BY DEF UploadInv
<1> QED BY <1>1 DEF Good, FdOK

LEMMA WaitAcquireStep ==
    ASSUME UploadInv, WaitAcquire
    PROVE  UploadInv'
<1> PICK fd : fd = handler.fd
  OBVIOUS
<1>0. handler.pc # "idle" /\ UNCHANGED <<local, status, object, untreated_list, last_tag, writes, handler, jobs>>
  BY DEF WaitAcquire, Waiting, fileVars, areaVars
<1>1. /\ Good(info, jobs, handler, Size) /\ JobSet(jobs) /\ DOMAIN info = Fds
      /\ fd \in Fds /\ InfOK(info[fd]) /\ FdOK(fd, info[fd], jobs)
  BY <1>0, HandlerInfo
<1> PICK old : old = info[fd]
  OBVIOUS
<1> PICK inf : inf = [old EXCEPT !.instruct_count = @ - 1, !.uploaded_sem = @ - 1]
  OBVIOUS
<1>2. /\ DOMAIN inf = InfFields /\ inf.upload_list = old.upload_list /\ inf.state = old.state
      /\ inf.upload_id = old.upload_id /\ inf.instruct_count = old.instruct_count - 1
      /\ inf.uploaded_sem = old.uploaded_sem - 1
  BY <1>1 DEF InfOK, InfFields
<1>3. info' = [info EXCEPT ![fd] = inf]
  BY <1>1 DEF WaitAcquire, InfOK, InfFields
<1>4. old.instruct_count \in Nat /\ old.uploaded_sem \in Nat /\ old.instruct_count > 0 /\ old.uploaded_sem > 0
  BY <1>1 DEF WaitAcquire, InfOK
<1>5. inf.instruct_count \in Nat /\ inf.uploaded_sem \in Nat /\ inf.instruct_count <= old.instruct_count
      /\ old.instruct_count # 0
  BY <1>2, <1>4
<1>6. InfOK(inf)
  BY <1>1, <1>2, <1>5 DEF InfOK
<1>7. Alike(old, inf)
  BY <1>2, <1>5, <1>6 DEF Alike
<1>8. Count(jobs, fd) \in Nat
  BY <1>1, OfFinite
<1>9. inf.instruct_count = Count(jobs, fd) + inf.uploaded_sem
  BY <1>1, <1>2, <1>4, <1>8 DEF FdOK
<1>10. Good([info EXCEPT ![fd] = inf], jobs, handler, Size)
  BY <1>1, <1>7, <1>9, SameJobs, GoodAlike
<1> QED BY <1>0, <1>3, <1>10, OnlyGood

LEMMA CancelledEndedStep ==
    ASSUME UploadInv, CancelledEnded
    PROVE  UploadInv'
<1>1. /\ handler.pc = "wait_cancelled"
      /\ UNCHANGED <<local, status, object, untreated_list, last_tag, writes, info, jobs>>
  BY DEF CancelledEnded, WaitDone, fileVars, areaVars
<1>2. CASE handler' = NoHandler
  BY <1>1, <1>2, ReturnsOK, OnlyGood
<1>3. CASE handler' = [handler EXCEPT !.pc = "start"]
  <2> PICK fd : fd = handler.fd
    OBVIOUS
  <2> PICK k : k = [handler EXCEPT !.pc = "start"]
    OBVIOUS
  <2>1. /\ Good(info, jobs, handler, Size) /\ DOMAIN handler = HandlerFields
        /\ fd \in Fds /\ HandlerOK(handler, info[fd], Size)
    BY <1>1, HandlerInfo
  <2>2. DOMAIN k = HandlerFields /\ k.pc = "start" /\ k.fd = fd /\ k.upload = handler.upload /\ k.copy = handler.copy
    BY <2>1 DEF HandlerFields
  <2>3. HandlerOK(k, info[fd], Size)
    BY <1>1, <2>1, <2>2 DEF HandlerOK
  <2>4. \A g \in Fds : Final(k, g) <=> Final(handler, g)
    BY <1>1, <2>2 DEF Final
  <2>5. Good(info, jobs, k, Size)
    BY <2>1, <2>2, <2>3, <2>4 DEF Good
  <2>6. Good(info', jobs', handler', Size)
    BY <1>1, <1>3, <2>5
  <2> QED BY <1>1, <2>6, OnlyGood
<1> QED BY <1>2, <1>3 DEF CancelledEnded, ReturnError, Return

-----------------------------------------------------------------------------
(* What a flush planned is uploaded. *)
LEMMA PlannedShapes ==
    ASSUME NEW entries, NEW upload, NEW copy, NEW size, Planned(entries, upload, copy, size)
    PROVE  \A p \in upload \cup copy : p = MpPart(p.start, p.size, p.part_num)
<1>1. PICK cut : Cuts(cut, Shapes(entries) \cup upload \cup copy, BlocksOf(size), size)
  BY DEF Planned, MakesFile
<1>2. \A p \in upload \cup copy : \E x, y, z : p = MpPart(x, y, z)
  BY <1>1 DEF Cuts
<1> QED BY <1>2 DEF MpPart

LEMMA PlannedBecomes ==
    ASSUME NEW L, NEW E, OneEach(E), NEW F, OneEach(F), NEW size, Planned(L, Shapes(E), Shapes(F), size)
    PROVE  OneEach(L \cup (E \cup F)) /\ MakesFile(Shapes(L \cup (E \cup F)), size)
<1>1. (\A e \in E : Shape(e) \in Shapes(E)) /\ (\A e \in F : Shape(e) \in Shapes(F))
  BY DEF Shapes
<1>2. \A e : Shape(e).part_num = e.part_num
  BY ShapeIs
<1>3. Disjoint(Shapes(E), Shapes(F)) /\ Disjoint(L, Shapes(E)) /\ Disjoint(L, Shapes(F)) /\ OneEach(L)
  BY DEF Planned
<1>4. ASSUME NEW e \in L, NEW f \in E \cup F
      PROVE  e.part_num # f.part_num
  BY <1>1, <1>2, <1>3 DEF Disjoint
<1>5. ASSUME NEW e \in E, NEW f \in F
      PROVE  e.part_num # f.part_num
  BY <1>1, <1>2, <1>3 DEF Disjoint
<1>6. OneEach(L \cup (E \cup F))
  <2> SUFFICES ASSUME NEW e \in L \cup (E \cup F), NEW f \in L \cup (E \cup F), e.part_num = f.part_num
               PROVE  e = f
    BY DEF OneEach
  <2>1. CASE e \in L \/ f \in L
    BY <1>3, <1>4, <2>1 DEF OneEach
  <2>2. CASE e \in E \cup F /\ f \in E \cup F
    BY <1>5, <2>2 DEF OneEach
  <2> QED BY <2>1, <2>2
<1>7. Shapes(L \cup (E \cup F)) = Shapes(L) \cup Shapes(E) \cup Shapes(F)
  BY DEF Shapes
<1> QED BY <1>6, <1>7 DEF Planned

LEMMA UploadAllStep ==
    ASSUME UploadInv, UploadAll
    PROVE  UploadInv'
<1> PICK fd : fd = handler.fd
  OBVIOUS
<1> PICK old : old = info[fd]
  OBVIOUS
<1> PICK u, c : u = handler.upload /\ c = handler.copy
  OBVIOUS
<1> PICK E : E = WithCells(u, 0, FALSE)
  OBVIOUS
<1> PICK F : F = WithCells(c, Cardinality(u), TRUE)
  OBVIOUS
<1> PICK k : k = [handler EXCEPT !.pc = "wait_all"]
  OBVIOUS
<1>1. /\ handler.pc = "start" /\ HasCells(Cardinality(u) + Cardinality(c))
      /\ info' = [info EXCEPT ![fd] = Started(info[fd], E \cup F)]
      /\ jobs' = jobs \cup Requests(fd, info[fd].upload_id, E \cup F)
      /\ handler' = k
      /\ UNCHANGED <<local, status, object, untreated_list, last_tag, writes>>
  BY DEF UploadAll, fileVars, areaVars
<1>2. /\ Good(info, jobs, handler, Size) /\ JobSet(jobs) /\ DOMAIN info = Fds /\ DOMAIN handler = HandlerFields
      /\ fd \in Fds /\ HandlerOK(handler, old, Size) /\ InfOK(old) /\ FdOK(fd, old, jobs)
  BY <1>1, HandlerInfo
<1>3. old.upload_id # 0 /\ Planned(old.upload_list, u, c, Size)
  BY <1>1, <1>2 DEF HandlerOK
<1>4. Numbered(u) /\ Numbered(c)
  BY <1>3 DEF Planned
<1> PICK nu \in Nat, nc \in Nat : nu = Cardinality(u) /\ nc = Cardinality(c)
  BY <1>4, FS_CardinalityType DEF Numbered
<1>5. Celled(E \cup F, 0, nu + nc)
  <2>1. nu \in Nat /\ nu = 0 + Cardinality(u) /\ nu + nc \in Nat /\ nu <= nu + nc /\ 0 \in Nat
    OBVIOUS
  <2>2. HasCells(nu + nc) /\ HasCells(nu)
    BY <1>1, FreeFacts DEF HasCells, Free
  <2>3. Celled(E, 0, nu)
    BY <1>4, <2>1, <2>2, WithCellsOK
  <2>4. Celled(F, nu, nu + nc)
    BY <1>4, <2>1, <2>2, WithCellsOK
  <2> QED BY <2>1, <2>3, <2>4, CelledBoth
<1> PICK new : new = Started(old, E \cup F)
  OBVIOUS
<1>6. /\ InfOK(new) /\ new.upload_list = old.upload_list \cup (E \cup F)
      /\ new.upload_id = old.upload_id
      /\ new.instruct_count = old.instruct_count + Cardinality(E \cup F)
      /\ new.uploaded_sem = old.uploaded_sem
  <2> PICK hi : hi = nu + nc
    OBVIOUS
  <2>1. StartedAs(old, E \cup F, Started(old, E \cup F))
    BY <1>2, <1>3, <1>5, StartedOK
  <2> QED BY <2>1 DEF StartedAs
<1> PICK K : K = jobs \cup Requests(fd, old.upload_id, E \cup F)
  OBVIOUS
<1>7. Grown(jobs, K, fd, Cardinality(E \cup F))
  BY <1>2, <1>5, MoreRequests
<1>8. FdOK(fd, new, K)
  <2>1. Count(jobs, fd) \in Nat /\ Cardinality(E \cup F) \in Nat /\ old.uploaded_sem \in Nat
    BY <1>2, <1>5, OfFinite, FS_CardinalityType DEF InfOK, Celled
  <2>2. Count(K, fd) = Count(jobs, fd) + Cardinality(E \cup F)
    BY <1>7 DEF Grown
  <2> QED BY <1>2, <1>6, <2>1, <2>2 DEF FdOK
<1>9. OneEach(new.upload_list) /\ MakesFile(Shapes(new.upload_list), Size)
  <2>1. \A p \in u \cup c : p = MpPart(p.start, p.size, p.part_num)
    BY <1>3, PlannedShapes
  <2>2. OneEach(E) /\ Shapes(E) = u
    BY <1>4, <2>1, WithCellsShapes
  <2>3. OneEach(F) /\ Shapes(F) = c
    BY <1>4, <2>1, WithCellsShapes
  <2> PICK L : L = old.upload_list
    OBVIOUS
  <2>4. OneEach(L \cup (E \cup F)) /\ MakesFile(Shapes(L \cup (E \cup F)), Size)
    <3>1. Planned(L, Shapes(E), Shapes(F), Size)
      BY <1>3, <2>2, <2>3
    <3> QED BY <2>2, <2>3, <3>1, PlannedBecomes
  <2> QED BY <1>6, <2>4
<1>10. DOMAIN k = HandlerFields /\ k.pc = "wait_all" /\ k.fd = fd
  BY <1>2 DEF HandlerFields
<1>11. HandlerOK(k, new, Size) /\ Final(k, fd)
  BY <1>9, <1>10 DEF HandlerOK, Final
<1>12. Good([info EXCEPT ![fd] = new], K, k, Size)
  BY <1>2, <1>7, <1>8, <1>10, <1>11, GoodChange
<1>13. Good(info', jobs', handler', Size)
  BY <1>1, <1>12
<1> QED BY <1>1, <1>13, OnlyGood

-----------------------------------------------------------------------------
(* The upload of the handler's descriptor is over. *)
LEMMA ResetGood ==
    ASSUME UploadInv, handler.pc # "idle", info[handler.fd].instruct_count = 0,
           NEW new, InfOK(new), new.upload_list = {}, new.instruct_count = 0,
           new.uploaded_sem = info[handler.fd].uploaded_sem
    PROVE  Good([info EXCEPT ![handler.fd] = new], jobs, NoHandler, Size)
<1> PICK fd : fd = handler.fd
  OBVIOUS
<1>1. /\ Good(info, jobs, handler, Size) /\ JobSet(jobs) /\ fd \in Fds /\ FdOK(fd, info[fd], jobs)
  BY HandlerInfo
<1>2. FdOK(fd, new, jobs)
  BY <1>1 DEF FdOK
<1>3. BlockEntries(new.upload_list, Size)
  BY DEF BlockEntries, OneEach
<1>4. DOMAIN NoHandler = HandlerFields /\ NoHandler.pc = "idle"
  BY DEF NoHandler, HandlerFields
<1>5. Good([info EXCEPT ![fd] = new], jobs, NoHandler, Size)
  BY <1>1, <1>2, <1>3, <1>4, SameJobs, GoodChange
<1> QED BY <1>5

LEMMA GiveUpStep ==
    ASSUME UploadInv, handler.pc # "idle", info[handler.fd].instruct_count = 0, GiveUp,
           UNCHANGED <<local, status, object, last_tag, writes, jobs>>
    PROVE  UploadInv'
<1> PICK fd : fd = handler.fd
  OBVIOUS
<1> PICK new : new = ResetUploadInfo(info[fd])
  OBVIOUS
<1>1. InfOK(info[fd])
  BY HandlerInfo
<1>2. /\ InfOK(new) /\ new.upload_list = {} /\ new.instruct_count = 0
      /\ new.uploaded_sem = info[fd].uploaded_sem
  BY <1>1, ResetOK
<1>3. Good([info EXCEPT ![handler.fd] = new], jobs, NoHandler, Size)
  BY <1>2, ResetGood
<1>4. info' = [info EXCEPT ![handler.fd] = new] /\ handler' = NoHandler /\ untreated_list' = <<>>
  BY DEF GiveUp, ReturnError, Return
<1>5. Good(info', jobs', handler', Size)
  BY <1>3, <1>4
<1>6. Shaped(status)' /\ Size' = Size /\ Shaped(local)' /\ Shaped(object)'
  BY SameStatus, SameData
<1>7. AreasOK'
  BY <1>4, AreasNone
<1>8. Good(info, jobs, handler, Size)'
  BY <1>5, <1>6
<1> QED BY <1>6, <1>7, <1>8 DEF UploadInv

LEMMA AllEndedStep ==
    ASSUME UploadInv, AllEnded
    PROVE  UploadInv'
<1>1. /\ handler.pc = "wait_all" /\ info[handler.fd].instruct_count = 0
      /\ UNCHANGED <<local, status, object, last_tag, writes, jobs>>
  BY DEF AllEnded, WaitDone, fileVars
<1>2. CASE GiveUp
  BY <1>1, <1>2, GiveUpStep
<1>3. CASE ~GiveUp
  <2> PICK fd : fd = handler.fd
    OBVIOUS
  <2> PICK k : k = [handler EXCEPT !.pc = "complete"]
    OBVIOUS
  <2>1. handler' = k /\ UNCHANGED <<untreated_list, info>>
    BY <1>3 DEF AllEnded
  <2>2. /\ Good(info, jobs, handler, Size) /\ DOMAIN handler = HandlerFields
        /\ fd \in Fds /\ HandlerOK(handler, info[fd], Size)
    BY <1>1, HandlerInfo
  <2>3. DOMAIN k = HandlerFields /\ k.pc = "complete" /\ k.fd = fd
    BY <2>2 DEF HandlerFields
  <2>4. HandlerOK(k, info[fd], Size)
    BY <1>1, <2>2, <2>3 DEF HandlerOK
  <2>5. \A g \in Fds : Final(k, g) <=> Final(handler, g)
    BY <1>1, <2>3 DEF Final
  <2>6. Good(info, jobs, k, Size)
    BY <2>2, <2>3, <2>4, <2>5 DEF Good
  <2>7. Good(info', jobs', handler', Size)
    BY <1>1, <2>1, <2>6
  <2> QED BY <1>1, <2>1, <2>7, OnlyGood
<1> QED BY <1>2, <1>3

LEMMA AssembledShaped ==
    ASSUME NEW inf, InfOK(inf)
    PROVE  Shaped(Assembled(inf))
<1> DEFINE of(p) == {<<p.part_num, k>> : k \in 1..Len(p.etag)}
           sets == {of(p) : p \in inf.upload_list}
           units == UNION sets
<1>1. \A p \in inf.upload_list : IsFiniteSet(of(p))
  <2> TAKE p \in inf.upload_list
  <2> PICK n \in Nat : n = Len(p.etag)
    BY DEF InfOK, EntryOK
  <2> DEFINE f == [k \in 1..n |-> <<p.part_num, k>>]
  <2>1. f \in [1..n -> of(p)] /\ \A y \in of(p) : \E x \in 1..n : f[x] = y
    OBVIOUS
  <2>2. IsFiniteSet(1..n)
    BY FS_Interval
  <2> HIDE DEF f, of
  <2> QED BY <2>1, <2>2, ImageFinite
<1>2. IsFiniteSet(sets)
  <2> DEFINE f == [p \in inf.upload_list |-> of(p)]
  <2>1. f \in [inf.upload_list -> sets] /\ \A y \in sets : \E x \in inf.upload_list : f[x] = y
    OBVIOUS
  <2>2. IsFiniteSet(inf.upload_list)
    BY DEF InfOK
  <2> HIDE DEF f, sets
  <2> QED BY <2>1, <2>2, ImageFinite
<1>3. IsFiniteSet(units)
  <2>1. \A S \in sets : IsFiniteSet(S)
    BY <1>1
  <2> HIDE DEF sets
  <2> QED BY <1>2, <2>1, FS_UNION
<1>4. Cardinality(units) \in Nat
  BY <1>3, FS_CardinalityType
<1> PICK g : g = Assembled(inf)
  OBVIOUS
<1>5. g = [i \in 1..Cardinality(units) |-> g[i]]
  <2> DEFINE rank(u) == Cardinality({v \in units : v[1] < u[1] \/ (v[1] = u[1] /\ v[2] <= u[2])})
             unit(i) == CHOOSE u \in units : rank(u) = i
             byte(i) == parts[inf.upload_id][unit(i)[1]][unit(i)[2]]
  <2>1. g = [i \in 1..Cardinality(units) |-> byte(i)]
    BY Zenon DEF Assembled
  <2> HIDE DEF byte, units
  <2> QED BY <2>1
<1> HIDE DEF units
<1> QED BY <1>4, <1>5, LenIs

LEMMA CompleteStep ==
    ASSUME UploadInv, Complete
    PROVE  UploadInv'
<1> PICK fd : fd = handler.fd
  OBVIOUS
<1>1. handler.pc = "complete" /\ UNCHANGED <<local, last_tag, writes, jobs>>
  BY DEF Complete
<1>2. /\ DOMAIN info = Fds /\ HandlerOK(handler, info[fd], Size) /\ InfOK(info[fd])
  BY <1>1, HandlerInfo
<1>3. info[fd].instruct_count = 0
  BY <1>1, <1>2 DEF HandlerOK
<1>4. CASE GiveUp /\ UNCHANGED <<object, status>>
  BY <1>1, <1>3, <1>4, GiveUpStep
<1>5. CASE ~(GiveUp /\ UNCHANGED <<object, status>>)
  <2>1. /\ object' = Assembled(info[fd]) /\ untreated_list' = <<>>
        /\ info' = [info EXCEPT ![handler.fd] = ResetUploadInfo(info[handler.fd])]
        /\ status' = AllCleared(status) /\ handler' = NoHandler
    BY <1>5 DEF Complete, Return
  <2> PICK new : new = ResetUploadInfo(info[fd])
    OBVIOUS
  <2>2. /\ InfOK(new) /\ new.upload_list = {} /\ new.instruct_count = 0
        /\ new.uploaded_sem = info[fd].uploaded_sem
    BY <1>2, ResetOK
  <2>3. Good([info EXCEPT ![handler.fd] = new], jobs, NoHandler, Size)
    BY <1>1, <1>3, <2>2, ResetGood
  <2>4. Good(info', jobs', handler', Size)
    BY <1>1, <2>1, <2>3
  <2>5. status' = [i \in DOMAIN status |-> status'[i]]
    BY <2>1 DEF AllCleared
  <2>6. local' = [i \in DOMAIN local |-> local'[i]]
    <3>1. Shaped(local)
      BY DEF UploadInv
    <3> QED BY <1>1, <3>1 DEF Shaped
  <2>7. AreasOK'
    BY <1>1, <2>1, AreasNone
  <2>8. Shaped(object)'
    <3> PICK g : g = Assembled(info[fd])
      OBVIOUS
    <3>1. Shaped(g)
      BY <1>2, AssembledShaped
    <3> QED BY <2>1, <3>1
  <2> QED BY <2>4, <2>5, <2>6, <2>7, <2>8, FileStep
<1> QED BY <1>4, <1>5

LEMMA CloseBeginStep ==
    ASSUME UploadInv, NEW fd \in Fds, CloseBegin(fd)
    PROVE  UploadInv'
<1> PICK k : k = [NoHandler EXCEPT !.pc = "cancel", !.fd = fd]
  OBVIOUS
<1>1. /\ handler.pc = "idle" /\ handler' = k
      /\ UNCHANGED <<local, status, object, untreated_list, last_tag, writes, jobs>>
  BY DEF CloseBegin, Idle, fileVars, areaVars
<1> PICK old : old = info[fd]
  OBVIOUS
<1>2. /\ Good(info, jobs, handler, Size) /\ JobSet(jobs) /\ DOMAIN info = Fds
      /\ FdOK(fd, old, jobs) /\ InfOK(old) /\ BlockEntries(old.upload_list, Size)
  BY <1>1 DEF UploadInv, Good, FdOK, Final
<1>3. DOMAIN k = HandlerFields /\ k.pc = "cancel" /\ k.fd = fd
  BY DEF NoHandler, HandlerFields
<1> PICK new : new = IF old.instruct_count > 0 THEN [old EXCEPT !.last_result = "canceled"] ELSE old
  OBVIOUS
<1> PICK L : L = [info EXCEPT ![fd] = new]
  OBVIOUS
<1>4. DOMAIN info' = Fds /\ DOMAIN L = Fds /\ \A g \in Fds : info'[g] = L[g]
  <2>1. CASE info' = [info EXCEPT ![fd].last_result = "canceled"] /\ old.instruct_count > 0
    BY <1>2, <2>1
  <2>2. CASE info' = info /\ ~(old.instruct_count > 0)
    BY <1>2, <2>2
  <2> QED BY <2>1, <2>2 DEF CloseBegin
<1>5. InfOK(new) /\ FdOK(fd, new, jobs) /\ new.upload_list = old.upload_list
  <2>1. /\ DOMAIN new = InfFields /\ new.upload_list = old.upload_list /\ new.state = old.state
        /\ new.upload_id = old.upload_id /\ new.instruct_count = old.instruct_count
        /\ new.uploaded_sem = old.uploaded_sem
    BY <1>2 DEF InfOK, InfFields
  <2> QED BY <1>2, <2>1 DEF InfOK, FdOK
<1>6. HandlerOK(k, new, Size)
  BY <1>3 DEF HandlerOK
<1>7. Good([info EXCEPT ![fd] = new], jobs, k, Size)
  BY <1>1, <1>2, <1>3, <1>5, <1>6, SameJobs, GoodChange
<1> PICK I : I = info'
  OBVIOUS
<1>8. Good(I, jobs, k, Size)
  BY <1>3, <1>4, <1>7 DEF Good
<1>9. Good(info', jobs', handler', Size)
  BY <1>1, <1>8
<1> QED BY <1>1, <1>9, OnlyGood

LEMMA CloseEndStep ==
    ASSUME UploadInv, CloseEnd
    PROVE  UploadInv'
<1> PICK fd : fd = handler.fd
  OBVIOUS
<1>1. /\ handler.pc = "cancel" /\ info[fd].instruct_count = 0 /\ handler' = NoHandler
      /\ UNCHANGED <<local, status, object, untreated_list, last_tag, writes, jobs>>
  BY DEF CloseEnd, WaitDone, fileVars, areaVars
<1>2. DOMAIN info = Fds /\ InfOK(info[fd])
  BY <1>1, HandlerInfo
<1> PICK old : old = ResetUploadInfo(info[fd])
  OBVIOUS
<1> PICK new : new = [old EXCEPT !.state = "closed"]
  OBVIOUS
<1>3. /\ InfOK(old) /\ old.upload_list = {} /\ old.upload_id = 0 /\ old.instruct_count = 0
      /\ old.uploaded_sem = info[fd].uploaded_sem
  BY <1>2, ResetOK
<1>4. /\ DOMAIN new = InfFields /\ new.upload_list = {} /\ new.upload_id = 0 /\ new.instruct_count = 0
      /\ new.uploaded_sem = info[fd].uploaded_sem
  BY <1>3 DEF InfOK, InfFields
<1>5. InfOK(new)
  BY <1>3, <1>4 DEF InfOK
<1>6. Good([info EXCEPT ![handler.fd] = new], jobs, NoHandler, Size)
  BY <1>1, <1>4, <1>5, ResetGood
<1>7. info' = [info EXCEPT ![handler.fd] = new]
  BY DEF CloseEnd
<1>8. Good(info', jobs', handler', Size)
  BY <1>1, <1>6, <1>7
<1> QED BY <1>1, <1>8, OnlyGood

-----------------------------------------------------------------------------
LEMMA BlockSome ==
    ASSUME NEW E, NEW size \in Nat, BlockEntries(E, size), NEW F, F \subseteq E, NEW size2 \in Nat, size <= size2
    PROVE  BlockEntries(F, size2)
<1>1. OneEach(F)
  BY DEF BlockEntries, OneEach
<1>2. ASSUME NEW e \in F
      PROVE  \E n \in Nat : /\ e.start = n * max_mp_size /\ e.size = max_mp_size /\ e.part_num = n + 1
                            /\ (n + 1) * max_mp_size <= size2
  <2>1. PICK n \in Nat : /\ e.start = n * max_mp_size /\ e.size = max_mp_size /\ e.part_num = n + 1
                         /\ (n + 1) * max_mp_size <= size
    BY DEF BlockEntries
  <2>2. (n + 1) * max_mp_size \in Int
    BY MaxTagIs
  <2>3. (n + 1) * max_mp_size <= size2
    BY <2>1, <2>2
  <2> QED BY <2>1, <2>3
<1> QED BY <1>1, <1>2 DEF BlockEntries

(* The file gets another size between two handlers. *)
LEMMA GoodResized ==
    ASSUME NEW I, NEW J, NEW h, NEW size, Good(I, J, h, size), h.pc = "idle",
           NEW size2, \A fd \in Fds : BlockEntries(I[fd].upload_list, size2)
    PROVE  Good(I, J, h, size2)
BY DEF Good

LEMMA OpenStep ==
    ASSUME UploadInv, NEW fd \in Fds, Open(fd)
    PROVE  UploadInv'
<1> PICK old : old = info[fd]
  OBVIOUS
<1> PICK new : new = [old EXCEPT !.state = "open"]
  OBVIOUS
<1>1. handler.pc = "idle" /\ UNCHANGED <<object, jobs, handler, writes>> /\ info' = [info EXCEPT ![fd] = new]
  <2>1. handler.pc = "idle" /\ UNCHANGED <<object, jobs, handler, writes>>
    BY DEF Open
  <2>2. DOMAIN info = Fds
    BY DEF UploadInv, Good
  <2> QED BY <2>1, <2>2 DEF Open
<1>2. /\ Good(info, jobs, handler, Size) /\ JobSet(jobs) /\ DOMAIN handler = HandlerFields
      /\ FdOK(fd, old, jobs) /\ InfOK(old) /\ BlockEntries(old.upload_list, Size)
      /\ \A g \in Fds : InfOK(info[g])
  BY <1>1 DEF UploadInv, Good, FdOK, Final
<1>3. /\ DOMAIN new = InfFields /\ new.upload_list = old.upload_list /\ new.state = "open"
      /\ new.upload_id = old.upload_id /\ new.instruct_count = old.instruct_count
      /\ new.uploaded_sem = old.uploaded_sem
  BY <1>2 DEF InfOK, InfFields
<1>4. InfOK(new) /\ FdOK(fd, new, jobs)
  BY <1>2, <1>3 DEF InfOK, FdOK
<1>5. Good([info EXCEPT ![fd] = new], jobs, handler, Size)
  BY <1>1, <1>2, <1>3, <1>4, SameJobs, GoodChange
<1>6. Shaped(object)' /\ Shaped(object)
  BY <1>1, SameData DEF UploadInv
<1>7. CASE OpenFds = {}
  <2>1. /\ local' = [i \in DOMAIN object |-> Zero]
        /\ status' = [i \in DOMAIN object |-> [loaded |-> FALSE, modified |-> FALSE]]
        /\ untreated_list' = <<>> /\ last_tag' = 0
    BY <1>7 DEF Open
  <2> PICK f : f = local'
    OBVIOUS
  <2> PICK g : g = status'
    OBVIOUS
  <2>2. f = [i \in DOMAIN object |-> f[i]] /\ g = [i \in DOMAIN object |-> g[i]]
    BY <2>1
  <2>3. Shaped(f) /\ Shaped(g)
    BY <1>6, <2>2, SameLength
  <2>4. AreasOK'
    BY <1>1, <2>1, AreasNone
  <2>5. \A h \in Fds : [info EXCEPT ![fd] = new][h].upload_list = {}
    <3> TAKE h \in Fds
    <3>1. info[h].state # "open" /\ old.state # "open"
      BY <1>7 DEF OpenFds
    <3>2. info[h].upload_list = {} /\ old.upload_list = {}
      BY <1>2, <3>1 DEF InfOK
    <3>3. [info EXCEPT ![fd] = new][h] = IF h = fd THEN new ELSE info[h]
      BY DEF UploadInv, Good
    <3> QED BY <1>3, <3>2, <3>3
  <2> PICK I : I = [info EXCEPT ![fd] = new]
    OBVIOUS
  <2> PICK s : s = Size'
    OBVIOUS
  <2>6. \A h \in Fds : BlockEntries(I[h].upload_list, s)
    BY <2>5 DEF BlockEntries, OneEach
  <2>7. Good(I, jobs, handler, s)
    BY <1>1, <1>5, <2>6, GoodResized
  <2>8. Good(info, jobs, handler, Size)'
    BY <1>1, <2>7
  <2>9. Shaped(local)' /\ Shaped(status)'
    BY <2>3
  <2> QED BY <1>6, <2>4, <2>8, <2>9 DEF UploadInv
<1>8. CASE OpenFds # {}
  <2>1. UNCHANGED <<local, status, object, untreated_list, last_tag, writes>>
    BY <1>1, <1>8 DEF Open, areaVars
  <2>2. Good(info', jobs', handler', Size)
    BY <1>1, <1>5
  <2> QED BY <2>1, <2>2, OnlyGood
<1> QED BY <1>7, <1>8

-----------------------------------------------------------------------------
LEMMA FlushExtractStep ==
    ASSUME UploadInv, NEW fd \in Fds, NEW forced \in BOOLEAN, FlushExtract(fd, forced)
    PROVE  UploadInv'
<1> PICK old : old = info[fd]
  OBVIOUS
<1> PICK ext : ext = ExtractUploadPartsFromAllArea(old)
  OBVIOUS
<1> PICK inf : inf = [old EXCEPT !.upload_list = ext.keep]
  OBVIOUS
<1> PICK new : new = PreMultipartUploadRequest(inf)
  OBVIOUS
<1> PICK k : k = [pc |-> IF ext.wait THEN "wait_cancelled" ELSE "start", fd |-> fd,
                  forced |-> forced, upload |-> ext.upload, copy |-> ext.copy]
  OBVIOUS
<1>0. Idle(fd) /\ Size > max_mp_size /\ LoadAndStart(fd, forced, ext)
  BY DEF FlushExtract, Flushing
<1>1. /\ handler.pc = "idle" /\ old.state = "open" /\ Size > max_mp_size
      /\ UNCHANGED <<object, untreated_list, last_tag, writes, jobs>>
  BY <1>0 DEF LoadAndStart, Idle, areaVars
<1>2. /\ \/ info' = [info EXCEPT ![fd] = inf] /\ handler' = NoHandler
         \/ info' = [info EXCEPT ![fd] = new] /\ handler' = k
      /\ \E got : local' = Loaded(got) /\ status' = LoadedStatus(got)
  BY <1>0 DEF LoadAndStart, LoadFails, ReturnError, Return
<1>3. /\ Good(info, jobs, handler, Size) /\ JobSet(jobs) /\ DOMAIN info = Fds
      /\ FdOK(fd, old, jobs) /\ InfOK(old) /\ BlockEntries(old.upload_list, Size)
  BY <1>1 DEF UploadInv, Good, FdOK, Final
<1>4. Size \in Nat /\ 0 < Size
  <2>1. Size \in Nat
    BY ShapedFacts DEF UploadInv, Size
  <2> QED BY <1>1, <2>1, MaxTagIs
<1>5. ext.keep \subseteq old.upload_list /\ Planned(ext.keep, ext.upload, ext.copy, Size)
  BY <1>3, <1>4, ExtractOK
<1>6. /\ InfOK(inf) /\ inf.upload_list = ext.keep /\ inf.state = old.state
      /\ inf.upload_id = old.upload_id /\ inf.instruct_count = old.instruct_count
      /\ inf.uploaded_sem = old.uploaded_sem
  <2> PICK keep : keep = ext.keep
    OBVIOUS
  <2>1. KeepAs(old, keep, [old EXCEPT !.upload_list = keep])
    BY <1>3, <1>5, KeepOK
  <2> QED BY <2>1 DEF KeepAs
<1>7. /\ InfOK(new) /\ new.upload_list = ext.keep /\ new.upload_id # 0
      /\ new.instruct_count = old.instruct_count
      /\ new.uploaded_sem = old.uploaded_sem
  <2>1. inf.state = "open"
    BY <1>1, <1>6
  <2>2. PreAs(inf, PreMultipartUploadRequest(inf))
    BY <1>3, <1>6, <2>1, PreOK
  <2> QED BY <1>6, <2>2 DEF PreAs
<1>8. FdOK(fd, inf, jobs) /\ FdOK(fd, new, jobs)
  BY <1>3, <1>6, <1>7 DEF FdOK
<1>9. BlockEntries(ext.keep, Size)
  <2>1. Size <= Size
    BY <1>4
  <2> QED BY <1>3, <1>4, <1>5, <2>1, BlockSome
<1>10. Good([info EXCEPT ![fd] = inf], jobs, NoHandler, Size)
  <2>1. DOMAIN NoHandler = HandlerFields /\ NoHandler.pc = "idle"
    BY DEF NoHandler, HandlerFields
  <2> QED BY <1>1, <1>3, <1>6, <1>8, <1>9, <2>1, SameJobs, GoodChange
<1>11. Good([info EXCEPT ![fd] = new], jobs, k, Size)
  <2>1. /\ DOMAIN k = HandlerFields /\ k.pc \in {"wait_cancelled", "start"} /\ k.fd = fd
        /\ k.upload = ext.upload /\ k.copy = ext.copy
    BY DEF HandlerFields
  <2>2. HandlerOK(k, new, Size)
    BY <1>5, <1>7, <2>1 DEF HandlerOK
  <2>3. BlockEntries(new.upload_list, Size)
    BY <1>7, <1>9
  <2>4. Grown(jobs, jobs, fd, 0)
    BY <1>3, SameJobs
  <2> QED BY ONLY fd \in Fds, <1>1, <1>3, <1>8, <2>1, <2>2, <2>3, <2>4, GoodChange
<1>12. Good(info', jobs', handler', Size)
  BY <1>1, <1>2, <1>10, <1>11
<1>13. status' = [i \in DOMAIN status |-> status'[i]] /\ local' = [i \in DOMAIN local |-> local'[i]]
  BY <1>2 DEF Loaded, LoadedStatus
<1>14. AreasOK'
  BY <1>1, <1>13, FileKept, AreasKept
<1>15. Shaped(object)'
  BY <1>1, SameData
<1> QED BY <1>12, <1>13, <1>14, <1>15, FileStep

-----------------------------------------------------------------------------
(* A write: the file grows to what was written, whole blocks are uploaded. *)
LEMMA OverwriteIs ==
    ASSUME NEW seq, Shaped(seq), NEW start \in Nat, NEW size \in Nat, NEW fill, NEW value
    PROVE  /\ Shaped(Overwrite(seq, start, size, fill, value))
           /\ Len(Overwrite(seq, start, size, fill, value)) =
                 IF start + size > Len(seq) THEN start + size ELSE Len(seq)
<1> PICK end : end = IF start + size > Len(seq) THEN start + size ELSE Len(seq)
  OBVIOUS
<1> PICK g : g = Overwrite(seq, start, size, fill, value)
  OBVIOUS
<1>1. Len(seq) \in Nat
  BY ShapedFacts
<1>2. end \in Nat
  BY <1>1
<1>3. g = [i \in 1..end |-> g[i]]
  BY DEF Overwrite
<1>4. Shaped(g) /\ Len(g) = end
  BY <1>2, <1>3, LenIs
<1> QED BY <1>4

LEMMA DivIs ==
    ASSUME NEW a \in Nat
    PROVE  (a * max_mp_size) \div max_mp_size = a
<1> PICK m \in Nat \ {0} : m = max_mp_size
  BY MaxTagIs
<1> PICK q \in Int : q = (a * m) \div m
  OBVIOUS
<1>1. q * m <= a * m /\ a * m < q * m + m
  BY ONLY q = (a * m) \div m, q \in Int, a \in Nat, m \in Nat \ {0}
<1>2. CASE q < a
  <2>1. (q + 1) * m <= a * m
    BY ONLY <1>2, q \in Int, a \in Nat, m \in Nat \ {0}
  <2>2. (q + 1) * m = q * m + m /\ q * m \in Int /\ a * m \in Int
    BY ONLY q \in Int, a \in Nat, m \in Nat \ {0}
  <2> QED BY ONLY <1>1, <2>1, <2>2, m \in Nat \ {0}
<1>3. CASE a < q
  <2>1. (a + 1) * m <= q * m
    BY ONLY <1>3, q \in Int, a \in Nat, m \in Nat \ {0}
  <2>2. (a + 1) * m = a * m + m /\ q * m \in Int /\ a * m \in Int
    BY ONLY q \in Int, a \in Nat, m \in Nat \ {0}
  <2> QED BY ONLY <1>1, <2>1, <2>2, m \in Nat \ {0}
<1> QED BY <1>2, <1>3

HasNum(E, n) == \E e \in E : e.part_num = n

ExtractedAs(inf, ext, end) ==
    /\ ext.keep \subseteq inf.upload_list /\ Numbered(ext.list)
    /\ BlockEntries(ext.keep \cup WithCells(ext.list, 0, FALSE), end)
    /\ \A e \in inf.upload_list : HasNum(ext.keep \cup WithCells(ext.list, 0, FALSE), e.part_num)

(* The blocks a write uploads, and the entries they leave in the list. *)
LEMMA ExtractAreaOK ==
    ASSUME NEW inf, NEW a \in Nat, NEW b \in Nat, a < b, NEW end \in Nat, b * max_mp_size <= end,
           BlockEntries(inf.upload_list, end),
           NEW start, start = a * max_mp_size, NEW len, start + len = b * max_mp_size
    PROVE  ExtractedAs(inf, ExtractUploadPartsFromUntreatedArea(inf, start, len), end)
<1> PICK ext : ext = ExtractUploadPartsFromUntreatedArea(inf, start, len)
  OBVIOUS
<1> PICK m \in Nat \ {0} : m = max_mp_size
  BY MaxTagIs
<1> PICK E : E = WithCells(ext.list, 0, FALSE)
  OBVIOUS
<1> DEFINE P(n) == MpPart(n * m, m, n + 1)
           In == a..(b - 1)
<1>1. /\ ext.keep = {p \in inf.upload_list : ~Overlaps(p, start, len)}
      /\ ext.list = {P(n) : n \in In}
  <2>1. start \div max_mp_size = a /\ (start + len) \div max_mp_size = b
    BY DivIs
  <2> QED BY <2>1 DEF ExtractUploadPartsFromUntreatedArea
<1>2. \A n \in In : /\ n \in Nat /\ n * m \in Nat /\ n < b
                    /\ P(n).start = n * m /\ P(n).size = m /\ P(n).part_num = n + 1
  BY DEF MpPart
<1> HIDE DEF P, In
<1>3. Numbered(ext.list)
  <2>1. IsFiniteSet(In)
    BY FS_Interval DEF In
  <2>2. IsFiniteSet(ext.list)
    <3> DEFINE R == {P(n) : n \in In}
               f == [n \in In |-> P(n)]
    <3>1. f \in [In -> R] /\ \A y \in R : \E x \in In : f[x] = y
      OBVIOUS
    <3> HIDE DEF f, R
    <3>2. IsFiniteSet(R)
      BY <2>1, <3>1, ImageFinite
    <3> QED BY <1>1, <3>2 DEF R
  <2>3. \A n \in In : P(n).start \in Nat /\ P(n).size \in Nat /\ P(n).part_num \in Nat
    BY <1>2
  <2>4. \A n, k \in In : P(n).part_num = P(k).part_num => n = k
    BY <1>2
  <2> QED BY <1>1, <2>2, <2>3, <2>4 DEF Numbered
<1>4. ASSUME NEW e \in E
      PROVE  \E n \in In : e.start = n * m /\ e.size = m /\ e.part_num = n + 1
  <2>0. Shape(e) \in {MpPart(p.start, p.size, p.part_num) : p \in ext.list}
    <3> PICK L : L = ext.list
      OBVIOUS
    <3>1. e \in WithCells(L, 0, FALSE) /\ Numbered(L)
      BY <1>3
    <3>2. Shape(e) \in {MpPart(p.start, p.size, p.part_num) : p \in L}
      BY <3>1, WithCellsFrom
    <3> QED BY <3>2
  <2>1. PICK p \in ext.list : Shape(e) = MpPart(p.start, p.size, p.part_num)
    BY <2>0
  <2>2. PICK n \in In : p = P(n)
    BY <1>1
  <2>3. e.start = p.start /\ e.size = p.size /\ e.part_num = p.part_num
    BY <2>1 DEF Shape, MpPart
  <2> QED BY <1>2, <2>2, <2>3
<1>5. ASSUME NEW e \in ext.keep, NEW n \in In, e.part_num = n + 1
      PROVE  FALSE
  <2>1. PICK k \in Nat : e.start = k * m /\ e.size = m /\ e.part_num = k + 1
    BY <1>1 DEF BlockEntries
  <2>2. k = n /\ n \in Nat /\ n \in Int /\ a <= n /\ n < b
    BY <1>2, <1>5, <2>1 DEF In
  <2>3. ~(n * m < b * m /\ a * m < n * m + m)
    BY <1>1, <2>1, <2>2 DEF Overlaps
  <2>4. (n + 1) * m = n * m + m /\ n * m \in Nat /\ a * m \in Nat /\ b * m \in Nat
    BY ONLY <2>2, m \in Nat \ {0}, a \in Nat, b \in Nat
  <2>5. (n + 1) * m <= b * m /\ a * m <= n * m
    BY ONLY <2>2, m \in Nat \ {0}, a \in Nat, b \in Nat
  <2> QED BY ONLY <2>3, <2>4, <2>5, m \in Nat \ {0}
<1>6. OneEach(ext.keep \cup E)
  <2> SUFFICES ASSUME NEW e \in ext.keep \cup E, NEW f \in ext.keep \cup E, e.part_num = f.part_num
               PROVE  e = f
    BY DEF OneEach
  <2>1. CASE e \in ext.keep /\ f \in ext.keep
    BY <1>1, <2>1 DEF BlockEntries, OneEach
  <2>2. CASE e \in E /\ f \in E
    <3>1. OneEach(E)
      BY <1>3, WithCellsFrom
    <3> QED BY <2>2, <3>1 DEF OneEach
  <2>3. ~(e \in ext.keep /\ f \in E) /\ ~(e \in E /\ f \in ext.keep)
    BY <1>4, <1>5, ZenonT(30)
  <2> QED BY <2>1, <2>2, <2>3
<1>7. ASSUME NEW e \in ext.keep \cup E
      PROVE  \E n \in Nat : /\ e.start = n * m /\ e.size = m /\ e.part_num = n + 1
                            /\ (n + 1) * m <= end
  <2>1. CASE e \in ext.keep
    BY <1>1, <2>1 DEF BlockEntries
  <2>2. CASE e \in E
    <3>1. PICK n \in In : e.start = n * m /\ e.size = m /\ e.part_num = n + 1
      BY <1>4, <2>2
    <3>2. n \in Nat /\ n < b
      BY <1>2
    <3>3. (n + 1) * m <= b * m /\ (n + 1) * m \in Nat /\ b * m \in Nat
      BY ONLY <3>2, m \in Nat \ {0}, b \in Nat
    <3>4. (n + 1) * m <= end
      BY <3>3
    <3> QED BY <3>1, <3>2, <3>4
  <2> QED BY <2>1, <2>2
<1>8. BlockEntries(ext.keep \cup E, end)
  BY <1>6, <1>7 DEF BlockEntries
<1>9. ASSUME NEW e \in inf.upload_list
      PROVE  HasNum(ext.keep \cup E, e.part_num)
  <2>1. CASE e \in ext.keep
    BY <2>1 DEF HasNum
  <2>2. CASE e \notin ext.keep
    <3>1. PICK k \in Nat : e.start = k * m /\ e.size = m /\ e.part_num = k + 1
      BY DEF BlockEntries
    <3>2. k * m < b * m /\ a * m < k * m + m
      BY <1>1, <2>2, <3>1 DEF Overlaps
    <3>3. k * m \in Nat /\ (k + 1) * m = k * m + m /\ a * m \in Nat /\ b * m \in Nat
      BY ONLY k \in Nat, m \in Nat \ {0}, a \in Nat, b \in Nat
    <3>4. ~(b <= k)
      <4>1. b <= k => b * m <= k * m
        BY ONLY k \in Nat, m \in Nat \ {0}, b \in Nat
      <4> QED BY ONLY <3>2, <3>3, <4>1
    <3>5. ~(k + 1 <= a)
      <4>1. k + 1 <= a => (k + 1) * m <= a * m
        BY ONLY k \in Nat, m \in Nat \ {0}, a \in Nat
      <4> QED BY ONLY <3>2, <3>3, <4>1, m \in Nat \ {0}
    <3>6. k \in In
      BY <3>4, <3>5 DEF In
    <3>7. PICK f \in E : Shape(f) = MpPart(P(k).start, P(k).size, P(k).part_num)
      <4> PICK L : L = ext.list
        OBVIOUS
      <4> PICK p : p = P(k) /\ p \in L
        BY <1>1, <3>6
      <4>1. Numbered(L)
        BY <1>3
      <4>2. \A q \in L : \E g \in WithCells(L, 0, FALSE) : Shape(g) = MpPart(q.start, q.size, q.part_num)
        BY ONLY <4>1, WithCellsFrom
      <4>3. \E g \in WithCells(L, 0, FALSE) : Shape(g) = MpPart(p.start, p.size, p.part_num)
        BY <4>2
      <4> QED BY <4>3
    <3>8. f.part_num = k + 1
      BY <1>2, <3>6, <3>7 DEF Shape, MpPart
    <3> QED BY <3>1, <3>8 DEF HasNum
  <2> QED BY <2>1, <2>2
<1> QED BY <1>1, <1>3, <1>8, <1>9 DEF ExtractedAs

LEMMA WriteFileOK ==
    ASSUME UploadInv, NEW fd \in Fds, NEW start \in 0..MaxSize, NEW size \in 0..MaxSize, Write(fd, start, size)
    PROVE  /\ Size \in Nat /\ Size' \in Nat /\ start + size <= Size' /\ Size <= Size'
           /\ Shaped(local)' /\ Shaped(status)' /\ Shaped(object)'
           /\ start \in Nat /\ size \in Nat /\ size > 0 /\ start + size <= MaxSize
<1>1. start \in Nat /\ size \in Nat /\ size > 0 /\ start + size <= MaxSize
  <2>1. size > 0 /\ start + size <= MaxSize
    BY DEF Write
  <2> QED BY <2>1, MaxTagIs
<1>2. Shaped(local) /\ Shaped(status) /\ Size \in Nat
  BY ShapedFacts DEF UploadInv, Size
<1>3. PICK fill, value : status' = Overwrite(status, start, size, fill, value)
  BY DEF Write
<1>4. PICK byte : local' = Overwrite(local, start, size, Zero, byte)
  BY DEF Write
<1> PICK f : f = local'
  OBVIOUS
<1> PICK g : g = status'
  OBVIOUS
<1>5. Shaped(f)
  BY <1>1, <1>2, <1>4, OverwriteIs
<1>6. Shaped(g) /\ Len(g) = IF start + size > Len(status) THEN start + size ELSE Len(status)
  BY <1>1, <1>2, <1>3, OverwriteIs
<1>7. Size' = IF start + size > Size THEN start + size ELSE Size
  BY <1>6 DEF Size
<1>8. Shaped(object)'
  BY SameData DEF Write
<1>9. Size' \in Nat /\ start + size <= Size' /\ Size <= Size'
  BY <1>1, <1>2, <1>7
<1> QED BY <1>1, <1>2, <1>5, <1>6, <1>8, <1>9

(* What a write adds to the upload list and to the requests of its descriptor. *)
Adds(fd, I, J, L, K) ==
    \/ L = I /\ K = J
    \/ \E new, E :
          /\ L = [I EXCEPT ![fd] = new]
          /\ K = J \cup Requests(fd, new.upload_id, E)
          /\ \/ new.upload_id = I[fd].upload_id
             \/ I[fd].upload_id = 0 /\ \A g \in Fds : I[g].upload_id # new.upload_id
          /\ E \subseteq new.upload_list
          /\ \A e \in I[fd].upload_list : HasNum(new.upload_list, e.part_num)

(* A write leaves its areas untreated. *)
AreasWait(area) ==
    /\ untreated_list' = area.list /\ last_tag' = area.tag
    /\ UNCHANGED <<info, jobs>>

LEMMA WriteStep ==
    ASSUME UploadInv, NEW fd \in Fds, NEW start \in 0..MaxSize, NEW size \in 0..MaxSize, Write(fd, start, size)
    PROVE  UploadInv' /\ Adds(fd, info, jobs, info', jobs')
<1> PICK area : area = UntreatedByWrite(start, size)
  OBVIOUS
<1> PICK blocks : blocks = LastBlocks(area.list, area.tag)
  OBVIOUS
<1> PICK inf : inf = info[fd]
  OBVIOUS
<1> PICK ext : ext = ExtractUploadPartsFromUntreatedArea(inf, blocks.start, blocks.size)
  OBVIOUS
<1> PICK E : E = WithCells(ext.list, 0, FALSE)
  OBVIOUS
<1> PICK rest : rest = U!Replaced(area.list, area.tag)
  OBVIOUS
<1> PICK end : end = Size'
  OBVIOUS
<1> PICK w \in Nat : w = writes /\ w + 1 <= MaxWrites
  <2>1. writes < MaxWrites
    BY DEF Write
  <2>2. writes \in Nat
    BY DEF UploadInv, AreasOK
  <2> QED BY <2>1, <2>2, MaxTagIs
<1>1. /\ handler.pc = "idle" /\ inf.state = "open" /\ handler' = handler /\ writes' = w + 1
      /\ \/ AreasWait(area)
         \/ /\ blocks.size > 0 /\ HasCells(Cardinality(ext.list))
            /\ LET started == Started([PreMultipartUploadRequest(inf) EXCEPT !.upload_list = ext.keep], E)
               IN  /\ info' = [info EXCEPT ![fd] = started]
                   /\ jobs' = jobs \cup Requests(fd, started.upload_id, E)
            /\ untreated_list' = rest.list /\ last_tag' = rest.tag
  BY DEF Write, Idle, AreasWait, LastBlocks
<1>2. /\ Size \in Nat /\ end \in Nat /\ start + size <= end /\ Size <= end
      /\ Shaped(local)' /\ Shaped(status)' /\ Shaped(object)'
      /\ start \in Nat /\ size \in Nat /\ 0 < size /\ start + size <= MaxSize
  BY WriteFileOK
<1>3. 3 * w \in Nat /\ 3 * w + 2 <= 3 * MaxWrites /\ 3 * w + 2 < 3 * MaxWrites
      /\ 3 * w + 2 \in Nat /\ 3 * (w + 1) = 3 * w + 2 + 1 /\ 3 * (w + 1) \in Nat
      /\ 3 * w + 2 <= 3 * (w + 1) /\ w + 1 \in Nat
  BY MaxTagIs
<1>4. AreaList(untreated_list, last_tag, 3 * w, Size)
  BY DEF UploadInv, AreasOK
<1>5. /\ AreaList(area.list, area.tag, 3 * w + 2, end)
      /\ UP!LastUpdated(area.list, area.tag) # {}
  BY <1>2, <1>3, <1>4, WriteAreas
<1>6. /\ Good(info, jobs, handler, Size) /\ JobSet(jobs) /\ DOMAIN info = Fds /\ DOMAIN handler = HandlerFields
      /\ \A g \in Fds : BlockEntries(info[g].upload_list, Size)
      /\ FdOK(fd, inf, jobs) /\ InfOK(inf)
  BY <1>1 DEF UploadInv, Good, FdOK, Final
<1>7. \A g \in Fds : BlockEntries(info[g].upload_list, end)
  BY <1>2, <1>6, BlockSome
<1>8. Good(info, jobs, handler, end)
  BY <1>1, <1>6, <1>7, GoodResized
<1>9. CASE AreasWait(area)
  <2>1. AreaList(area.list, area.tag, 3 * (w + 1), end)
    <3>1. end <= end
      BY <1>2
    <3> QED BY <1>2, <1>3, <1>5, <3>1, AreasGrow
  <2>2. AreasOK'
    BY <1>1, <1>3, <1>9, <2>1 DEF AreasOK, AreasWait
  <2>3. Good(info, jobs, handler, Size)'
    BY <1>1, <1>8, <1>9 DEF AreasWait
  <2>4. UploadInv'
    BY <1>2, <2>2, <2>3 DEF UploadInv
  <2> QED BY <1>9, <2>4 DEF Adds, AreasWait
<1>10. CASE ~AreasWait(area)
  <2> PICK pre : pre = PreMultipartUploadRequest(inf)
    OBVIOUS
  <2> PICK base : base = [pre EXCEPT !.upload_list = ext.keep]
    OBVIOUS
  <2> PICK new : new = Started(base, E)
    OBVIOUS
  <2>1. /\ blocks.size > 0 /\ HasCells(Cardinality(ext.list))
        /\ info' = [info EXCEPT ![fd] = new]
        /\ jobs' = jobs \cup Requests(fd, new.upload_id, E)
        /\ untreated_list' = rest.list /\ last_tag' = rest.tag
    BY <1>1, <1>10
  <2>2. /\ \E a, b \in Nat :
              /\ blocks.start = a * max_mp_size /\ blocks.start + blocks.size = b * max_mp_size
              /\ a < b /\ b * max_mp_size <= end
        /\ AreaList(rest.list, rest.tag, 3 * w + 2 + 1, end)
    <3> PICK list, tag : list = area.list /\ tag = area.tag
      OBVIOUS
    <3>1. /\ AreaList(list, tag, 3 * w + 2, end) /\ UP!LastUpdated(list, tag) # {}
          /\ LastBlocks(list, tag) = blocks /\ LastBlocks(list, tag).size > 0
      BY <1>5, <2>1
    <3>2. /\ \E a, b \in Nat :
                /\ LastBlocks(list, tag).start = a * max_mp_size
                /\ LastBlocks(list, tag).start + LastBlocks(list, tag).size = b * max_mp_size
                /\ a < b /\ b * max_mp_size <= end
          /\ AreaList(U!Replaced(list, tag).list, U!Replaced(list, tag).tag, 3 * w + 2 + 1, end)
      BY ONLY <1>2, <1>3, <3>1, LastArea
    <3> QED BY <3>1, <3>2
  <2>3. /\ ext.keep \subseteq inf.upload_list /\ Numbered(ext.list)
        /\ BlockEntries(ext.keep \cup E, end)
        /\ \A e \in inf.upload_list : HasNum(ext.keep \cup E, e.part_num)
    <3> PICK first, len : first = blocks.start /\ len = blocks.size
      OBVIOUS
    <3> PICK a \in Nat, b \in Nat :
          first = a * max_mp_size /\ first + len = b * max_mp_size /\ a < b /\ b * max_mp_size <= end
      BY <2>2
    <3>1. end \in Nat /\ BlockEntries(inf.upload_list, end)
      BY <1>2, <1>6, <1>7
    <3>2. first = a * max_mp_size /\ first + len = b * max_mp_size /\ a < b /\ b * max_mp_size <= end
      OBVIOUS
    <3>3. ExtractedAs(inf, ExtractUploadPartsFromUntreatedArea(inf, first, len), end)
      BY ONLY a \in Nat, b \in Nat, <3>1, <3>2, ExtractAreaOK
    <3> QED BY <3>3 DEF ExtractedAs
  <2>4. /\ InfOK(pre) /\ pre.upload_list = inf.upload_list
        /\ pre.upload_id # 0 /\ pre.instruct_count = inf.instruct_count
        /\ pre.uploaded_sem = inf.uploaded_sem
        /\ \/ pre.upload_id = inf.upload_id
           \/ inf.upload_id = 0 /\ \A g \in Fds : info[g].upload_id # pre.upload_id
    <3>1. PreAs(inf, PreMultipartUploadRequest(inf))
      BY <1>1, <1>6, PreOK
    <3> QED BY <3>1 DEF PreAs
  <2>5. /\ InfOK(base) /\ base.upload_list = ext.keep
        /\ base.upload_id # 0 /\ base.upload_id = pre.upload_id /\ base.instruct_count = inf.instruct_count
        /\ base.uploaded_sem = inf.uploaded_sem
    <3> PICK keep : keep = ext.keep
      OBVIOUS
    <3>1. KeepAs(pre, keep, [pre EXCEPT !.upload_list = keep])
      BY <2>3, <2>4, KeepOK
    <3> QED BY <2>4, <3>1 DEF KeepAs
  <2>6. PICK hi \in Nat : hi = Cardinality(ext.list) /\ Celled(E, 0, hi)
    <3> PICK L : L = ext.list
      OBVIOUS
    <3> PICK hi \in Nat : hi = Cardinality(L)
      BY <2>3, FS_CardinalityType DEF Numbered
    <3>1. hi = 0 + Cardinality(L) /\ 0 \in Nat
      BY ONLY hi \in Nat, hi = Cardinality(L)
    <3>2. HasCells(hi) /\ Numbered(L)
      BY <2>1, <2>3
    <3>3. Celled(WithCells(L, 0, FALSE), 0, hi)
      BY <3>1, <3>2, WithCellsOK
    <3> QED BY <3>3
  <2>7. /\ InfOK(new) /\ new.upload_list = ext.keep \cup E
        /\ new.instruct_count = inf.instruct_count + Cardinality(E)
        /\ new.uploaded_sem = inf.uploaded_sem /\ new.upload_id = pre.upload_id
    <3>1. StartedAs(base, E, Started(base, E))
      BY <2>5, <2>6, StartedOK
    <3> QED BY <2>5, <3>1 DEF StartedAs
  <2> PICK K : K = jobs \cup Requests(fd, new.upload_id, E)
    OBVIOUS
  <2>8. Grown(jobs, K, fd, Cardinality(E))
    BY <1>6, <2>6, MoreRequests
  <2>9. FdOK(fd, new, K)
    <3>1. Count(jobs, fd) \in Nat /\ Cardinality(E) \in Nat /\ inf.uploaded_sem \in Nat
      BY <1>6, <2>6, OfFinite, FS_CardinalityType DEF InfOK, Celled
    <3>2. Count(K, fd) = Count(jobs, fd) + Cardinality(E)
      BY <2>8 DEF Grown
    <3>3. inf.instruct_count = Count(jobs, fd) + inf.uploaded_sem
      BY <1>6 DEF FdOK
    <3>4. new.instruct_count = Count(K, fd) + new.uploaded_sem
      BY ONLY <2>7, <3>1, <3>2, <3>3
    <3> QED BY <2>7, <3>4 DEF FdOK
  <2>10. BlockEntries(new.upload_list, end)
    BY <2>3, <2>7
  <2>11. Good([info EXCEPT ![fd] = new], K, handler, end)
    BY ONLY fd \in Fds, <1>1, <1>6, <1>8, <2>8, <2>9, <2>10, GoodChange
  <2>12. Good(info, jobs, handler, Size)'
    BY <1>1, <2>1, <2>11
  <2>13. AreasOK'
    BY <1>1, <1>3, <2>1, <2>2 DEF AreasOK
  <2>14. UploadInv'
    BY <1>2, <2>12, <2>13 DEF UploadInv
  <2>15. /\ \/ new.upload_id = inf.upload_id
            \/ inf.upload_id = 0 /\ \A g \in Fds : info[g].upload_id # new.upload_id
         /\ E \subseteq new.upload_list
         /\ \A e \in inf.upload_list : HasNum(new.upload_list, e.part_num)
    <3>1. new.upload_id = pre.upload_id /\ new.upload_list = ext.keep \cup E
      BY <2>7
    <3>2. \/ new.upload_id = inf.upload_id
          \/ inf.upload_id = 0 /\ \A g \in Fds : info[g].upload_id # new.upload_id
      BY ONLY <2>4, <3>1
    <3>3. \A e \in inf.upload_list : HasNum(new.upload_list, e.part_num)
      BY ONLY <2>3, <3>1
    <3>4. E \subseteq new.upload_list
      BY ONLY <3>1
    <3> QED BY ONLY <3>2, <3>3, <3>4
  <2>16. Adds(fd, info, jobs, info', jobs')
    <3>1. Adds(fd, info, jobs, [info EXCEPT ![fd] = new], K)
      <4> PICK I : I = info
        OBVIOUS
      <4>1. I[fd] = inf
        OBVIOUS
      <4>2. /\ \/ new.upload_id = I[fd].upload_id
               \/ I[fd].upload_id = 0 /\ \A g \in Fds : I[g].upload_id # new.upload_id
            /\ E \subseteq new.upload_list
            /\ \A e \in I[fd].upload_list : HasNum(new.upload_list, e.part_num)
        BY <2>15, <4>1
      <4> QED BY ONLY <4>2, K = jobs \cup Requests(fd, new.upload_id, E), I = info DEF Adds
    <3> QED BY <2>1, <3>1
  <2> QED BY <2>14, <2>16
<1> QED BY <1>9, <1>10

-----------------------------------------------------------------------------
LEMMA UploadStep ==
    ASSUME UploadInv, [Next]_vars
    PROVE  UploadInv'
<1>1. ASSUME NEW fd \in Fds, Open(fd) \/ FlushNothing(fd) \/ CloseBegin(fd)
      PROVE  UploadInv'
  BY <1>1, OpenStep, FlushNothingStep, CloseBeginStep
<1>2. ASSUME NEW fd \in Fds, NEW start \in 0..MaxSize, NEW size \in WriteSizes, Write(fd, start, size)
      PROVE  UploadInv'
  <2>1. size \in 0..MaxSize
    BY StreamUploadAssumption
  <2> QED BY <1>2, <2>1, WriteStep
<1>3. ASSUME NEW fd \in Fds, NEW forced \in BOOLEAN,
             FlushSmallNotLoaded(fd, forced) \/ FlushSmall(fd, forced) \/ FlushExtract(fd, forced)
      PROVE  UploadInv'
  BY <1>3, FlushSmallNotLoadedStep, FlushSmallStep, FlushExtractStep
<1>4. CASE HandlerStep
  BY <1>4, WaitAcquireStep, CancelledEndedStep, UploadAllStep, AllEndedStep, CompleteStep, CloseEndStep
     DEF HandlerStep
<1>5. ASSUME NEW j \in jobs, WorkerStep(j)
      PROVE  UploadInv'
  BY <1>5, WorkerStepOK
<1>6. CASE UNCHANGED vars
  <2>1. UNCHANGED <<local, status, object, untreated_list, last_tag, writes, info, jobs, handler>>
    BY <1>6 DEF vars
  <2>2. Good(info', jobs', handler', Size)
    BY <2>1 DEF UploadInv
  <2> QED BY <2>1, <2>2, OnlyGood
<1> QED BY <1>1, <1>2, <1>3, <1>4, <1>5, <1>6, PunchHoleStep DEF Next, WorkersStep

LEMMA UploadInit ==
    ASSUME Init
    PROVE  UploadInv
<1>1. /\ local = <<>> /\ status = <<>> /\ untreated_list = <<>> /\ last_tag = 0 /\ writes = 0
      /\ info = [fd \in Fds |-> NewInfo] /\ jobs = {} /\ handler = NoHandler
      /\ \E n \in InitSizes : object = [i \in 1..n |-> Old]
  BY DEF Init
<1>2. Shaped(object)
  <2> PICK n \in InitSizes : object = [i \in 1..n |-> Old]
    BY <1>1
  <2>1. n \in Nat
    BY StreamUploadAssumption
  <2> QED BY <2>1, LenIs
<1>3. Shaped(<<>>) /\ Len(<<>>) = 0
  <2>1. <<>> = [i \in 1..0 |-> i]
    OBVIOUS
  <2>2. \E f : f = [i \in 1..0 |-> i] /\ f = [i \in 1..0 |-> f[i]]
    OBVIOUS
  <2> QED BY <2>1, <2>2, LenIs
<1>4. Size = 0
  BY <1>1, <1>3 DEF Size
<1>5. AreasOK
  <2>1. 0 \in Nat /\ 0 <= 3 * 0 /\ 3 * 0 \in Nat /\ 0 <= MaxWrites
    BY MaxTagIs
  <2>2. AreaList(<<>>, 0, 3 * 0, Size)
    BY <2>1, AreaNone
  <2> QED BY <1>1, <2>1, <2>2 DEF AreasOK
<1>6. JobSet(jobs) /\ \A fd \in Fds : Count(jobs, fd) = 0
  <2>1. \A fd : Of(jobs, fd) = {}
    BY <1>1 DEF Of
  <2> QED BY <1>1, <2>1, FS_EmptySet DEF JobSet, Count
<1>7. DOMAIN info = Fds /\ \A fd \in Fds : info[fd] = NewInfo
  BY <1>1
<1>8. /\ InfOK(NewInfo) /\ NewInfo.instruct_count = 0 /\ NewInfo.uploaded_sem = 0
      /\ NewInfo.upload_list = {}
  BY FS_EmptySet DEF NewInfo, InfOK, InfFields
<1>9. \A fd \in Fds : FdOK(fd, info[fd], jobs) /\ BlockEntries(info[fd].upload_list, Size)
  BY <1>6, <1>7, <1>8 DEF FdOK, BlockEntries, OneEach
<1>10. DOMAIN handler = HandlerFields /\ handler.pc = "idle"
  BY <1>1 DEF NoHandler, HandlerFields
<1>11. Good(info, jobs, handler, Size)
  BY <1>6, <1>7, <1>9, <1>10 DEF Good
<1> QED BY <1>1, <1>2, <1>3, <1>5, <1>11 DEF UploadInv

(***************************************************************************)
(* InstructionsCounted for any number of descriptors and requests: a       *)
(* handler that waits in WaitAllThreadsExit waits for as many posts of     *)
(* uploaded_sem as are to come, and a pseudo descriptor is destroyed only  *)
(* when no request points to it.                                           *)
(***************************************************************************)
THEOREM RequestsAreCounted == Spec => []InstructionsCounted
<1>1. Init => UploadInv
  BY UploadInit
<1>2. UploadInv /\ [Next]_vars => UploadInv'
  BY UploadStep
<1>3. UploadInv => InstructionsCounted
  <2>1. \A fd : JobsOf(fd) = Of(jobs, fd)
    BY DEF JobsOf, Of
  <2> QED BY <2>1 DEF UploadInv, Good, FdOK, Count, InstructionsCounted
<1> QED BY <1>1, <1>2, <1>3, PTL DEF Spec

-----------------------------------------------------------------------------
(* The parts of a file, numbered one by one, lie at the place of their number. *)
LEMMA NumberedFromOne ==
    ASSUME NEW E, OneEach(E), NEW b \in Nat, \A i \in 1..b : \E e \in E : e.part_num = i,
           \A e \in E : e.part_num \in 1..b, NEW k \in 0..b
    PROVE  Cardinality({q \in E : q.part_num <= k}) = k
<1> DEFINE T == {q \in E : q.part_num <= k}
           f == [i \in 1..k |-> CHOOSE e \in E : e.part_num = i]
<1>1. \A i \in 1..k : i \in 1..b
  OBVIOUS
<1>2. \A i \in 1..k : f[i] \in E /\ f[i].part_num = i
  BY <1>1
<1>3. f \in [1..k -> T]
  BY <1>2
<1>4. \A y \in T : y.part_num \in 1..k /\ f[y.part_num] = y
  BY <1>2 DEF OneEach
<1>5. \A x, y \in 1..k : f[x] = f[y] => x = y
  BY <1>2
<1>6. IsFiniteSet(1..k) /\ Cardinality(1..k) = k
  <2>1. IsFiniteSet(1..k) /\ Cardinality(1..k) = IF 1 > k THEN 0 ELSE k - 1 + 1
    BY FS_Interval
  <2> QED BY <2>1
<1> HIDE DEF f, T
<1>7. Cardinality(T) = Cardinality(1..k)
  BY <1>3, <1>4, <1>5, <1>6, ImageFinite
<1> QED BY <1>6, <1>7 DEF T

LEMMA PartsAreFile ==
    ASSUME NEW E, OneEach(E), NEW size \in Nat, MakesFile(Shapes(E), size),
           NEW list, list = ByPartNum(E)
    PROVE  /\ list[1].start = 0
           /\ \A i \in 1..(Len(list) - 1) :
                 /\ list[i].start + list[i].size = list[i + 1].start
                 /\ list[i].part_num < list[i + 1].part_num
                 /\ list[i].size >= MIN_MULTIPART_SIZE
           /\ Last(list).start + Last(list).size = size
<1> PICK b : b = BlocksOf(size)
  OBVIOUS
<1> PICK cut : Cuts(cut, Shapes(E), b, size)
  BY DEF MakesFile
<1>1. /\ b \in Nat /\ 0 < b /\ cut[0] = 0 /\ cut[b] = size
      /\ \A n \in 0..b : cut[n] \in Nat
      /\ \A n \in 0..(b - 2) : cut[n + 1] - cut[n] >= MIN_MULTIPART_SIZE
  BY DEF Cuts
<1>2. Shapes(E) = {MpPart(cut[n], cut[n + 1] - cut[n], n + 1) : n \in 0..(b - 1)}
  BY DEF Cuts
<1>3. \A n \in 0..(b - 1) : n \in 0..b /\ n + 1 \in 0..b /\ n + 1 \in 1..b
  BY <1>1
<1>4. ASSUME NEW e \in E
      PROVE  \E n \in 0..(b - 1) : e.start = cut[n] /\ e.size = cut[n + 1] - cut[n] /\ e.part_num = n + 1
  <2>1. Shape(e) \in Shapes(E)
    BY DEF Shapes
  <2>2. PICK n \in 0..(b - 1) : Shape(e) = MpPart(cut[n], cut[n + 1] - cut[n], n + 1)
    BY <1>2, <2>1
  <2> QED BY <2>2 DEF Shape, MpPart
<1>5. \A e \in E : e.part_num \in 1..b
  BY <1>3, <1>4
<1>6. \A i \in 1..b : \E e \in E : e.part_num = i
  <2> TAKE i \in 1..b
  <2> PICK n \in 0..(b - 1) : i = n + 1
    <3>1. i - 1 \in 0..(b - 1) /\ i = (i - 1) + 1
      BY <1>1
    <3> QED BY <3>1
  <2>1. MpPart(cut[n], cut[n + 1] - cut[n], n + 1) \in Shapes(E)
    BY <1>2
  <2>2. PICK e \in E : Shape(e) = MpPart(cut[n], cut[n + 1] - cut[n], n + 1)
    BY <2>1 DEF Shapes
  <2> QED BY <2>2 DEF Shape, MpPart
<1>7. \A k \in 0..b : Cardinality({q \in E : q.part_num <= k}) = k
  BY <1>1, <1>5, <1>6, NumberedFromOne
<1>8. Cardinality(E) = b
  <2>1. \A e \in E : e.part_num <= b
    BY <1>1, <1>5
  <2>2. {q \in E : q.part_num <= b} = E
    BY <2>1
  <2>3. b \in 0..b
    BY <1>1
  <2> QED BY <1>7, <2>2, <2>3
<1>9. \A e \in E : Place(E, e) = e.part_num
  <2> TAKE e \in E
  <2>1. e.part_num \in 0..b
    BY <1>1, <1>5
  <2> QED BY <1>7, <2>1 DEF Place
<1>10. list = [i \in 1..b |-> CHOOSE p \in E : Place(E, p) = i]
  BY <1>8 DEF ByPartNum, Place
<1>11. \A i \in 1..b : list[i] \in E /\ list[i].part_num = i
  BY <1>6, <1>9, <1>10
<1>12. Len(list) = b
  <2>1. list = [i \in 1..b |-> list[i]]
    BY <1>10
  <2> QED BY <1>1, <2>1, LenIs
<1>13. \A n \in 0..(b - 1) : list[n + 1].start = cut[n] /\ list[n + 1].size = cut[n + 1] - cut[n]
  <2> TAKE n \in 0..(b - 1)
  <2>1. list[n + 1] \in E /\ list[n + 1].part_num = n + 1
    BY <1>3, <1>11
  <2>2. PICK k \in 0..(b - 1) : /\ list[n + 1].start = cut[k] /\ list[n + 1].size = cut[k + 1] - cut[k]
                                /\ list[n + 1].part_num = k + 1
    BY <1>4, <2>1
  <2>3. k = n
    BY <2>1, <2>2
  <2> QED BY <2>2, <2>3
<1>14. list[1].start = 0
  <2>1. 0 \in 0..(b - 1) /\ 0 + 1 = 1
    BY <1>1
  <2> QED BY <1>1, <1>13, <2>1
<1>15. ASSUME NEW i \in 1..(Len(list) - 1)
       PROVE  /\ list[i].start + list[i].size = list[i + 1].start
              /\ list[i].part_num < list[i + 1].part_num
              /\ list[i].size >= MIN_MULTIPART_SIZE
  <2> PICK n \in 0..(b - 2) : i = n + 1
    <3>1. i - 1 \in 0..(b - 2) /\ i = (i - 1) + 1
      BY <1>1, <1>12
    <3> QED BY <3>1
  <2>1. n \in 0..(b - 1) /\ n + 1 \in 0..(b - 1) /\ n \in 0..b /\ n + 1 \in 0..b /\ i \in 1..b /\ i + 1 \in 1..b
    BY <1>1
  <2>2. /\ list[n + 1].start = cut[n] /\ list[n + 1].size = cut[n + 1] - cut[n]
        /\ list[(n + 1) + 1].start = cut[n + 1]
    BY <1>13, <2>1
  <2> PICK x \in Nat, y \in Nat : x = cut[n] /\ y = cut[n + 1]
    BY <1>1, <2>1
  <2>3. x + (y - x) = y
    OBVIOUS
  <2>4. list[i].part_num = i /\ list[i + 1].part_num = i + 1
    BY <1>11, <2>1
  <2>5. i < i + 1
    BY <2>1
  <2> QED BY <1>1, <2>2, <2>3, <2>4, <2>5
<1>16. Last(list).start + Last(list).size = size
  <2> PICK n \in 0..(b - 1) : b = n + 1
    <3>1. b - 1 \in 0..(b - 1) /\ b = (b - 1) + 1
      BY <1>1
    <3> QED BY <3>1
  <2>1. Last(list) = list[n + 1]
    BY <1>12 DEF Last
  <2>2. n \in 0..b /\ n + 1 \in 0..b
    BY <1>3
  <2> PICK x \in Nat : x = cut[n]
    BY <1>1, <2>2
  <2>3. x + (size - x) = size
    OBVIOUS
  <2>4. list[n + 1].start = x /\ list[n + 1].size = size - x
    BY <1>1, <1>13
  <2> QED BY <2>1, <2>3, <2>4
<1> QED BY <1>14, <1>15, <1>16

(***************************************************************************)
(* PartsMakeFile for any size of the file and of the parts, and any mix of *)
(* blocks that were uploaded by writes, changed since, never written or    *)
(* joined to a copied part: what CompleteMultipartUpload names lies end to *)
(* end from 0 to the size of the file, and only the last part may be       *)
(* smaller than S3 allows.                                                 *)
(***************************************************************************)
THEOREM CompletedPartsAreTheFile == Spec => []PartsMakeFile
<1>1. Init => UploadInv
  BY UploadInit
<1>2. UploadInv /\ [Next]_vars => UploadInv'
  BY UploadStep
<1>3. UploadInv => PartsMakeFile
  <2> SUFFICES ASSUME UploadInv, handler.pc = "complete"
               PROVE  PartsMakeFile
    BY DEF PartsMakeFile
  <2> PICK E, list : E = info[handler.fd].upload_list /\ list = ByPartNum(E)
    OBVIOUS
  <2>1. OneEach(E) /\ MakesFile(Shapes(E), Size)
    BY HandlerInfo DEF HandlerOK
  <2>2. Size \in Nat
    BY ShapedFacts DEF UploadInv, Size
  <2>3. /\ list[1].start = 0
        /\ \A i \in 1..(Len(list) - 1) :
              /\ list[i].start + list[i].size = list[i + 1].start
              /\ list[i].part_num < list[i + 1].part_num
              /\ list[i].size >= MIN_MULTIPART_SIZE
        /\ Last(list).start + Last(list).size = Size
    BY <2>1, <2>2, PartsAreFile
  <2> QED BY <2>3 DEF PartsMakeFile
<1> QED BY <1>1, <1>2, <1>3, PTL DEF Spec

-----------------------------------------------------------------------------
(***************************************************************************)
(* The requests of a flush are alone with their numbers.  Every request    *)
(* belongs to the upload of its descriptor, no two descriptors share an    *)
(* upload, and as long as nothing has gone wrong a number that is being    *)
(* uploaded is in the list, unless a flush waits for the request.          *)
(***************************************************************************)
Listed(j) == HasNum(info[j.fd].upload_list, j.entry.part_num)

Awaited(j) == handler.pc = "wait_cancelled" /\ handler.fd = j.fd

AloneInv ==
    /\ \A j \in jobs : j.id = info[j.fd].upload_id
    /\ \A f, g \in Fds : info[f].upload_id # 0 /\ info[f].upload_id = info[g].upload_id => f = g
    /\ excuses = {} => \A j \in jobs : Listed(j) \/ Awaited(j)

(* The number of a request that was listed or awaited stays so. *)
NumbersKept(fd) == \A e \in info[fd].upload_list : HasNum(info'[fd].upload_list, e.part_num)

StillAwaited ==
    \/ handler.pc # "wait_cancelled"
    \/ handler'.pc = "wait_cancelled" /\ handler'.fd = handler.fd
    \/ Of(jobs, handler.fd) = {}

SameRequest(k, j) == k.fd = j.fd /\ k.id = j.id /\ k.entry = j.entry

LEMMA NoJobs ==
    ASSUME UploadInv, NEW fd \in Fds, info[fd].instruct_count = 0 \/ info[fd].upload_id = 0
    PROVE  Of(jobs, fd) = {}
<1>1. FdOK(fd, info[fd], jobs) /\ JobSet(jobs)
  BY DEF UploadInv, Good
<1>2. info[fd].instruct_count = 0 /\ info[fd].uploaded_sem \in Nat
  BY <1>1 DEF FdOK, InfOK
<1>3. Count(jobs, fd) \in Nat /\ IsFiniteSet(Of(jobs, fd))
  BY <1>1, OfFinite
<1>4. Count(jobs, fd) = 0
  BY <1>1, <1>2, <1>3 DEF FdOK
<1> QED BY <1>3, <1>4, FS_EmptySet DEF Count

LEMMA JobFd ==
    ASSUME UploadInv, NEW j \in jobs
    PROVE  j.fd \in Fds
BY JobInfo DEF JobOK

LEMMA AloneKept ==
    ASSUME UploadInv, AloneInv,
           \A fd \in Fds : info'[fd].upload_id = info[fd].upload_id,
           \A k \in jobs' : \E j \in jobs : SameRequest(k, j),
           excuses' = {} => excuses = {} /\ StillAwaited /\ \A fd \in Fds : NumbersKept(fd)
    PROVE  AloneInv'
<1>1. ASSUME NEW k \in jobs'
      PROVE  k.id = info'[k.fd].upload_id
  <2>1. PICK j \in jobs : SameRequest(k, j)
    OBVIOUS
  <2> QED BY <2>1, JobFd DEF AloneInv, SameRequest
<1>2. \A f, g \in Fds : info'[f].upload_id # 0 /\ info'[f].upload_id = info'[g].upload_id => f = g
  BY DEF AloneInv
<1>3. ASSUME excuses' = {}, NEW k \in jobs'
      PROVE  Listed(k)' \/ Awaited(k)'
  <2>1. PICK j \in jobs : SameRequest(k, j)
    OBVIOUS
  <2>2. k.fd = j.fd /\ k.entry = j.entry /\ j.fd \in Fds
    BY <2>1, JobFd DEF SameRequest
  <2>3. CASE Listed(j)
    <3>1. PICK e \in info[j.fd].upload_list : e.part_num = j.entry.part_num
      BY <2>3 DEF Listed, HasNum
    <3>2. HasNum(info'[j.fd].upload_list, j.entry.part_num)
      BY <1>3, <2>2, <3>1 DEF NumbersKept
    <3> QED BY <2>2, <3>2 DEF Listed
  <2>4. CASE Awaited(j)
    <3>1. j \in Of(jobs, handler.fd)
      BY <2>4 DEF Of, Awaited
    <3>2. handler'.pc = "wait_cancelled" /\ handler'.fd = handler.fd
      BY <1>3, <2>4, <3>1 DEF StillAwaited, Awaited
    <3> QED BY <2>2, <2>4, <3>2 DEF Awaited
  <2> QED BY <1>3, <2>3, <2>4 DEF AloneInv
<1> QED BY <1>1, <1>2, <1>3 DEF AloneInv

(* An upload is over: its descriptor has no requests. *)
LEMMA AloneReset ==
    ASSUME UploadInv, AloneInv, NEW fd \in Fds, info[fd].instruct_count = 0, handler.pc # "wait_cancelled",
           NEW new, new.upload_id = 0, info' = [info EXCEPT ![fd] = new], jobs' = jobs,
           excuses' = {} => excuses = {}
    PROVE  AloneInv'
<1>1. DOMAIN info = Fds /\ Of(jobs, fd) = {}
  BY NoJobs DEF UploadInv, Good
<1>2. \A j \in jobs : j.fd # fd
  BY <1>1 DEF Of
<1>3. info'[fd] = new /\ \A g \in Fds : g # fd => info'[g] = info[g]
  BY <1>1
<1>4. \A j \in jobs' : j.id = info'[j.fd].upload_id
  BY <1>2, <1>3, JobFd DEF AloneInv
<1>5. \A f, g \in Fds : info'[f].upload_id # 0 /\ info'[f].upload_id = info'[g].upload_id => f = g
  BY <1>3 DEF AloneInv
<1>6. ASSUME excuses' = {}, NEW j \in jobs'
      PROVE  Listed(j)'
  <2>1. Listed(j)
    BY <1>6 DEF AloneInv, Awaited
  <2>2. info'[j.fd] = info[j.fd]
    BY <1>2, <1>3, <1>6, JobFd
  <2> QED BY <2>1, <2>2 DEF Listed
<1> QED BY <1>4, <1>5, <1>6 DEF AloneInv

(* The numbers of a descriptor are listed still, or awaited. *)
Covered(fd, new) ==
    \/ \A e \in info[fd].upload_list : HasNum(new.upload_list, e.part_num)
    \/ handler'.pc = "wait_cancelled" /\ handler'.fd = fd

SameOrFresh(fd, id) ==
    id = info[fd].upload_id \/ (info[fd].upload_id = 0 /\ \A g \in Fds : info[g].upload_id # id)

LEMMA AloneAdds ==
    ASSUME UploadInv, AloneInv, handler.pc # "wait_cancelled", NEW fd \in Fds, NEW new, NEW E,
           info' = [info EXCEPT ![fd] = new], jobs' = jobs \cup Requests(fd, new.upload_id, E),
           SameOrFresh(fd, new.upload_id), E \subseteq new.upload_list, Covered(fd, new),
           excuses' = {} => excuses = {}
    PROVE  AloneInv'
<1>1. DOMAIN info = Fds
  BY DEF UploadInv, Good
<1>2. info'[fd] = new /\ \A g \in Fds : g # fd => info'[g] = info[g]
  BY <1>1
<1>3. \A j \in jobs : j.fd = fd => new.upload_id = info[fd].upload_id
  <2>1. CASE info[fd].upload_id = 0
    <3>1. Of(jobs, fd) = {}
      BY <2>1, NoJobs
    <3> QED BY <3>1 DEF Of
  <2>2. CASE info[fd].upload_id # 0
    BY <2>2 DEF SameOrFresh
  <2> QED BY <2>1, <2>2
<1>4. \A k \in Requests(fd, new.upload_id, E) : k.fd = fd /\ k.id = new.upload_id /\ k.entry \in new.upload_list
  BY DEF Requests
<1>5. \A k \in jobs' : k.id = info'[k.fd].upload_id
  BY <1>2, <1>3, <1>4, JobFd DEF AloneInv
<1>6. \A f, g \in Fds : info'[f].upload_id # 0 /\ info'[f].upload_id = info'[g].upload_id => f = g
  BY <1>2 DEF AloneInv, SameOrFresh
<1>7. ASSUME excuses' = {}, NEW k \in jobs'
      PROVE  Listed(k)' \/ Awaited(k)'
  <2>1. CASE k \in jobs
    <3>1. Listed(k) /\ k.fd \in Fds
      BY <1>7, <2>1, JobFd DEF AloneInv, Awaited
    <3>2. CASE k.fd # fd
      BY <1>2, <3>1, <3>2 DEF Listed
    <3>3. CASE k.fd = fd
      <4>1. PICK e \in info[fd].upload_list : e.part_num = k.entry.part_num
        BY <3>1, <3>3 DEF Listed, HasNum
      <4>2. HasNum(new.upload_list, k.entry.part_num) \/ (handler'.pc = "wait_cancelled" /\ handler'.fd = fd)
        BY <4>1 DEF Covered
      <4> QED BY <1>2, <3>3, <4>2 DEF Listed, Awaited
    <3> QED BY <3>2, <3>3
  <2>2. CASE k \in Requests(fd, new.upload_id, E)
    <3>1. HasNum(new.upload_list, k.entry.part_num) /\ k.fd = fd
      BY <1>4, <2>2 DEF HasNum
    <3> QED BY <1>2, <3>1 DEF Listed
  <2> QED BY <1>7, <2>1, <2>2
<1> QED BY <1>5, <1>6, <1>7 DEF AloneInv

-----------------------------------------------------------------------------
LEMMA SameNumbers ==
    ASSUME NEW fd, info'[fd].upload_list = info[fd].upload_list
    PROVE  NumbersKept(fd)
BY DEF NumbersKept, HasNum

LEMMA SameJob ==
    ASSUME jobs' \subseteq jobs
    PROVE  \A k \in jobs' : \E j \in jobs : SameRequest(k, j)
BY DEF SameRequest

(* A handler that leaves the upload lists alone. *)
LEMMA AloneSame ==
    ASSUME UploadInv, AloneInv, UNCHANGED <<info, jobs>>, excuses' = {} => excuses = {} /\ StillAwaited
    PROVE  AloneInv'
<1>1. \A fd \in Fds : info'[fd].upload_id = info[fd].upload_id /\ NumbersKept(fd)
  BY SameNumbers
<1> QED BY <1>1, SameJob, AloneKept

LEMMA AloneOpen ==
    ASSUME UploadInv, AloneInv, NEW fd \in Fds, Open(fd)
    PROVE  AloneInv'
<1>1. DOMAIN info = Fds /\ DOMAIN info[fd] = InfFields
  BY DEF UploadInv, Good, FdOK, InfOK
<1>2. info' = [info EXCEPT ![fd].state = "open"] /\ UNCHANGED <<jobs, handler, excuses>>
  BY DEF Open
<1>3. \A g \in Fds : info'[g].upload_id = info[g].upload_id /\ info'[g].upload_list = info[g].upload_list
  BY <1>1, <1>2 DEF InfFields
<1>4. handler.pc # "wait_cancelled"
  BY DEF Open
<1> QED BY <1>2, <1>3, <1>4, SameNumbers, SameJob, AloneKept DEF StillAwaited

LEMMA AloneFlushed ==
    ASSUME UploadInv, AloneInv, NEW fd \in Fds, NEW forced,
           FlushNothing(fd) \/ FlushSmallNotLoaded(fd, forced) \/ FlushSmall(fd, forced)
    PROVE  AloneInv'
<1>1. handler.pc = "idle" /\ UNCHANGED <<info, jobs>>
  BY DEF FlushNothing, FlushSmallNotLoaded, FlushSmall, Flushing, Idle
<1>2. excuses' = {} => excuses = {}
  <2>1. excuses \subseteq excuses'
    BY DEF FlushNothing, FlushSmallNotLoaded, FlushSmall, LoadFails, ReturnError
  <2> QED BY <2>1
<1> QED BY <1>1, <1>2, AloneSame DEF StillAwaited

LEMMA AlonePunched ==
    ASSUME UploadInv, AloneInv, PunchHole
    PROVE  AloneInv'
<1>1. handler.pc = "idle" /\ UNCHANGED <<info, jobs>>
  BY DEF PunchHole
<1>2. excuses \subseteq excuses'
  BY DEF PunchHole
<1> QED BY <1>1, <1>2, AloneSame DEF StillAwaited

LEMMA AloneCloseBegin ==
    ASSUME UploadInv, AloneInv, NEW fd \in Fds, CloseBegin(fd)
    PROVE  AloneInv'
<1>1. DOMAIN info = Fds /\ DOMAIN info[fd] = InfFields
  BY DEF UploadInv, Good, FdOK, InfOK
<1>2. handler.pc = "idle" /\ jobs' = jobs /\ excuses' = excuses
  BY DEF CloseBegin, Idle, ghostVars
<1>3. info' = [info EXCEPT ![fd].last_result = "canceled"] \/ info' = info
  BY DEF CloseBegin
<1>4. \A g \in Fds : info'[g].upload_id = info[g].upload_id /\ info'[g].upload_list = info[g].upload_list
  BY <1>1, <1>3 DEF InfFields
<1> QED BY <1>2, <1>4, SameNumbers, SameJob, AloneKept DEF StillAwaited

LEMMA AloneWaits ==
    ASSUME UploadInv, AloneInv, WaitAcquire
    PROVE  AloneInv'
<1> PICK fd : fd = handler.fd
  OBVIOUS
<1>1. UNCHANGED <<jobs, handler, excuses>> /\ handler.pc # "idle"
  BY DEF WaitAcquire, Waiting, ghostVars
<1>2. fd \in Fds /\ DOMAIN info = Fds /\ DOMAIN info[fd] = InfFields
  BY <1>1, HandlerInfo DEF InfOK
<1>3. info' = [info EXCEPT ![fd].instruct_count = @ - 1, ![fd].uploaded_sem = @ - 1]
  BY DEF WaitAcquire
<1>4. \A g \in Fds : info'[g].upload_id = info[g].upload_id /\ info'[g].upload_list = info[g].upload_list
  BY <1>2, <1>3 DEF InfFields
<1>5. StillAwaited
  BY <1>1 DEF StillAwaited
<1> QED BY <1>1, <1>4, <1>5, SameNumbers, SameJob, AloneKept

LEMMA AloneCancelled ==
    ASSUME UploadInv, AloneInv, CancelledEnded
    PROVE  AloneInv'
<1>1. UNCHANGED <<info, jobs>> /\ handler.pc # "idle" /\ info[handler.fd].instruct_count = 0
  BY DEF CancelledEnded, WaitDone
<1>2. handler.fd \in Fds
  BY <1>1, HandlerInfo
<1>3. StillAwaited
  BY <1>1, <1>2, NoJobs DEF StillAwaited
<1>4. excuses \subseteq excuses'
  BY DEF CancelledEnded, ReturnError, ghostVars
<1> QED BY <1>1, <1>3, <1>4, AloneSame

LEMMA AloneGivesUp ==
    ASSUME UploadInv, AloneInv, handler.pc \in {"wait_all", "complete"}, info[handler.fd].instruct_count = 0,
           info' = [info EXCEPT ![handler.fd] = ResetUploadInfo(@)], jobs' = jobs, excuses' = {} => excuses = {}
    PROVE  AloneInv'
<1> PICK fd : fd = handler.fd
  OBVIOUS
<1> PICK new : new = ResetUploadInfo(info[fd])
  OBVIOUS
<1>1. fd \in Fds /\ InfOK(info[fd])
  BY HandlerInfo
<1>2. new.upload_id = 0
  BY <1>1, ResetOK
<1>3. info' = [info EXCEPT ![fd] = new] /\ info[fd].instruct_count = 0 /\ handler.pc # "wait_cancelled"
  OBVIOUS
<1> QED BY <1>1, <1>2, <1>3, AloneReset

LEMMA AloneAllEnded ==
    ASSUME UploadInv, AloneInv, AllEnded
    PROVE  AloneInv'
<1>1. handler.pc = "wait_all" /\ info[handler.fd].instruct_count = 0 /\ jobs' = jobs
  BY DEF AllEnded, WaitDone
<1>2. excuses \subseteq excuses'
  BY DEF AllEnded, GiveUp, ReturnError, ghostVars
<1>3. CASE info' = info
  BY <1>1, <1>2, <1>3, AloneSame DEF StillAwaited
<1>4. CASE info' = [info EXCEPT ![handler.fd] = ResetUploadInfo(@)]
  BY <1>1, <1>2, <1>4, AloneGivesUp
<1> QED BY <1>3, <1>4 DEF AllEnded, GiveUp

LEMMA AloneComplete ==
    ASSUME UploadInv, AloneInv, Complete
    PROVE  AloneInv'
<1>1. handler.pc = "complete" /\ jobs' = jobs
  BY DEF Complete
<1>2. info[handler.fd].instruct_count = 0
  BY <1>1, HandlerInfo DEF HandlerOK
<1>3. info' = [info EXCEPT ![handler.fd] = ResetUploadInfo(@)]
  BY DEF Complete, GiveUp
<1>4. excuses \subseteq excuses'
  BY DEF Complete, GiveUp, ReturnError
<1> QED BY <1>1, <1>2, <1>3, <1>4, AloneGivesUp

LEMMA AloneCloseEnd ==
    ASSUME UploadInv, AloneInv, CloseEnd
    PROVE  AloneInv'
<1> PICK fd : fd = handler.fd
  OBVIOUS
<1> PICK old : old = ResetUploadInfo(info[fd])
  OBVIOUS
<1> PICK new : new = [old EXCEPT !.state = "closed"]
  OBVIOUS
<1>1. handler.pc = "cancel" /\ info[fd].instruct_count = 0 /\ jobs' = jobs /\ excuses \subseteq excuses'
  BY DEF CloseEnd, WaitDone
<1>2. fd \in Fds /\ InfOK(info[fd])
  BY <1>1, HandlerInfo
<1>3. InfOK(old) /\ old.upload_id = 0
  BY <1>2, ResetOK
<1>4. new.upload_id = 0
  BY <1>3 DEF InfOK, InfFields
<1>5. info' = [info EXCEPT ![fd] = new]
  BY DEF CloseEnd
<1>6. handler.pc # "wait_cancelled"
  BY <1>1
<1> QED BY <1>1, <1>2, <1>4, <1>5, <1>6, AloneReset

(* The workers: a request goes on, or leaves its result and ends. *)
LEMMA NumbersWithEtag ==
    ASSUME NEW L, \A e \in L : EntryOK(e), NEW cell, NEW etag, NEW e \in L
    PROVE  HasNum(WithEtag(L, cell, etag), e.part_num)
<1> PICK f : f = IF e.cell = cell THEN [e EXCEPT !.etag = etag] ELSE e
  OBVIOUS
<1>1. f \in WithEtag(L, cell, etag)
  BY DEF WithEtag
<1>2. f.part_num = e.part_num
  BY DEF EntryOK, EntryFields
<1> QED BY <1>1, <1>2 DEF HasNum

LEMMA AlonePosted ==
    ASSUME UploadInv, AloneInv, NEW j \in jobs, jobs' = jobs \ {j}, NEW result, Posted(j.fd, result),
           UNCHANGED <<handler, excuses>>
    PROVE  AloneInv'
<1> PICK fd : fd = j.fd
  OBVIOUS
<1>1. fd \in Fds /\ DOMAIN info = Fds /\ DOMAIN info[fd] = InfFields
  BY JobInfo DEF JobOK
<1>2. \A g \in Fds : info'[g].upload_id = info[g].upload_id /\ info'[g].upload_list = info[g].upload_list
  BY <1>1, PostedIs
<1>3. StillAwaited
  BY DEF StillAwaited
<1> QED BY <1>2, <1>3, SameNumbers, SameJob, AloneKept

LEMMA AloneFinish ==
    ASSUME UploadInv, AloneInv, NEW j \in jobs, Finish(j)
    PROVE  AloneInv'
<1> PICK fd : fd = j.fd
  OBVIOUS
<1> PICK list : list = WithEtag(info[fd].upload_list, j.entry.cell, j.body)
  OBVIOUS
<1>1. fd \in Fds /\ DOMAIN info = Fds /\ DOMAIN info[fd] = InfFields /\ InfOK(info[fd])
  BY JobInfo DEF JobOK
<1>2. /\ jobs' = jobs \ {j} /\ UNCHANGED <<handler, excuses>>
      /\ info' = [info EXCEPT ![fd].last_result = "ok", ![fd].uploaded_sem = @ + 1, ![fd].upload_list = list]
  BY <1>1 DEF Finish, workerUnchanged, ghostVars, InfFields
<1>3. /\ info'[fd].upload_id = info[fd].upload_id /\ info'[fd].upload_list = list
      /\ \A g \in Fds : g # fd => info'[g] = info[g]
  BY <1>1, <1>2 DEF InfFields
<1>4. \A e \in info[fd].upload_list : HasNum(list, e.part_num)
  BY <1>1, NumbersWithEtag DEF InfOK
<1>5. \A g \in Fds : info'[g].upload_id = info[g].upload_id /\ NumbersKept(g)
  BY <1>3, <1>4, SameNumbers DEF NumbersKept
<1>6. StillAwaited
  BY <1>2 DEF StillAwaited
<1> QED BY <1>2, <1>5, <1>6, SameJob, AloneKept

LEMMA AloneAdvance ==
    ASSUME UploadInv, AloneInv, NEW j \in jobs, NEW k, SameRequest(k, j), Advance(j, k),
           UNCHANGED <<info, handler, excuses>>
    PROVE  AloneInv'
<1>1. \A l \in jobs' : \E m \in jobs : SameRequest(l, m)
  BY DEF Advance, SameRequest
<1>2. \A fd \in Fds : NumbersKept(fd)
  BY SameNumbers
<1>3. StillAwaited
  BY DEF StillAwaited
<1> QED BY <1>1, <1>2, <1>3, AloneKept

LEMMA AloneWorker ==
    ASSUME UploadInv, AloneInv, NEW j \in jobs, WorkerStep(j)
    PROVE  AloneInv'
<1>1. DOMAIN j = JobFields
  BY JobInfo DEF JobOK
<1>2. CASE Skip(j)
  BY <1>2, AlonePosted DEF Skip, workerUnchanged, ghostVars
<1>3. CASE Fail(j)
  BY <1>3, AlonePosted DEF Fail, workerUnchanged, ghostVars
<1>4. CASE Send(j)
  <2>1. UNCHANGED <<info, handler, excuses>>
    BY <1>4 DEF Send, workerUnchanged, ghostVars
  <2> PICK body : Advance(j, [j EXCEPT !.step = "sent", !.body = body])
    BY <1>4 DEF Send
  <2> PICK k : k = [j EXCEPT !.step = "sent", !.body = body]
    OBVIOUS
  <2>2. SameRequest(k, j)
    BY <1>1 DEF SameRequest, JobFields
  <2> QED BY <2>1, <2>2, AloneAdvance
<1>5. CASE Arrive(j)
  <2>1. UNCHANGED <<info, handler, excuses>>
    BY <1>5 DEF Arrive, workerUnchanged, ghostVars
  <2> PICK body : Advance(j, [j EXCEPT !.step = "stored", !.body = body])
    BY <1>5 DEF Arrive
  <2> PICK k : k = [j EXCEPT !.step = "stored", !.body = body]
    OBVIOUS
  <2>2. SameRequest(k, j)
    BY <1>1 DEF SameRequest, JobFields
  <2> QED BY <2>1, <2>2, AloneAdvance
<1>6. CASE Finish(j)
  BY <1>6, AloneFinish
<1> QED BY <1>2, <1>3, <1>4, <1>5, <1>6 DEF WorkerStep

-----------------------------------------------------------------------------
(* A write and a flush add requests, whose numbers are listed. *)
LEMMA AloneWrite ==
    ASSUME UploadInv, AloneInv, NEW fd \in Fds, NEW start \in 0..MaxSize, NEW size \in 0..MaxSize,
           Write(fd, start, size)
    PROVE  AloneInv'
<1>1. handler.pc # "wait_cancelled" /\ UNCHANGED <<handler, excuses>>
  BY DEF Write, Idle
<1>2. Adds(fd, info, jobs, info', jobs')
  BY WriteStep
<1>3. CASE info' = info /\ jobs' = jobs
  BY <1>1, <1>3, AloneSame DEF StillAwaited
<1>4. CASE ~(info' = info /\ jobs' = jobs)
  <2>1. PICK new, E :
           /\ info' = [info EXCEPT ![fd] = new]
           /\ jobs' = jobs \cup Requests(fd, new.upload_id, E)
           /\ \/ new.upload_id = info[fd].upload_id
              \/ info[fd].upload_id = 0 /\ \A g \in Fds : info[g].upload_id # new.upload_id
           /\ E \subseteq new.upload_list
           /\ \A e \in info[fd].upload_list : HasNum(new.upload_list, e.part_num)
    BY <1>2, <1>4 DEF Adds
  <2>2. SameOrFresh(fd, new.upload_id) /\ Covered(fd, new)
    BY <2>1 DEF SameOrFresh, Covered
  <2> QED BY <1>1, <2>1, <2>2, AloneAdds
<1> QED BY <1>3, <1>4

LEMMA AloneUploadAll ==
    ASSUME UploadInv, AloneInv, UploadAll
    PROVE  AloneInv'
<1> PICK fd : fd = handler.fd
  OBVIOUS
<1> PICK old : old = info[fd]
  OBVIOUS
<1> PICK E : E = WithCells(handler.upload, 0, FALSE) \cup WithCells(handler.copy, Cardinality(handler.upload), TRUE)
  OBVIOUS
<1> PICK new : new = Started(old, E)
  OBVIOUS
<1>1. /\ handler.pc = "start" /\ excuses' = excuses
      /\ info' = [info EXCEPT ![fd] = new]
      /\ jobs' = jobs \cup Requests(fd, old.upload_id, E)
  BY DEF UploadAll, ghostVars
<1>2. fd \in Fds /\ InfOK(old)
  BY <1>1, HandlerInfo
<1>3. new.upload_id = old.upload_id /\ new.upload_list = old.upload_list \cup E
  BY <1>2 DEF Started, InfOK, InfFields
<1>4. \A e \in old.upload_list : HasNum(new.upload_list, e.part_num)
  BY <1>3 DEF HasNum
<1>5. SameOrFresh(fd, new.upload_id) /\ Covered(fd, new) /\ E \subseteq new.upload_list
  BY <1>3, <1>4 DEF SameOrFresh, Covered
<1>6. handler.pc # "wait_cancelled" /\ jobs' = jobs \cup Requests(fd, new.upload_id, E)
  BY <1>1, <1>3
<1> QED BY <1>1, <1>2, <1>5, <1>6, AloneAdds

LEMMA AloneFlushExtract ==
    ASSUME UploadInv, AloneInv, NEW fd \in Fds, NEW forced \in BOOLEAN, FlushExtract(fd, forced)
    PROVE  AloneInv'
<1> PICK old : old = info[fd]
  OBVIOUS
<1> PICK ext : ext = ExtractUploadPartsFromAllArea(old)
  OBVIOUS
<1> PICK inf : inf = [old EXCEPT !.upload_list = ext.keep]
  OBVIOUS
<1> PICK new : new = PreMultipartUploadRequest(inf)
  OBVIOUS
<1>0. Idle(fd) /\ Size > max_mp_size /\ LoadAndStart(fd, forced, ext)
  BY DEF FlushExtract, Flushing
<1>1. /\ handler.pc = "idle" /\ old.state = "open" /\ Size > max_mp_size /\ jobs' = jobs
      /\ \/ info' = [info EXCEPT ![fd] = inf] /\ excuses' = excuses \cup {"failed"}
         \/ /\ info' = [info EXCEPT ![fd] = new] /\ excuses \subseteq excuses'
            /\ handler'.pc = (IF ext.wait THEN "wait_cancelled" ELSE "start") /\ handler'.fd = fd
  BY <1>0 DEF LoadAndStart, Idle, LoadFails, ReturnError
<1>2. DOMAIN info = Fds /\ InfOK(old) /\ BlockEntries(old.upload_list, Size)
  BY <1>1 DEF UploadInv, Good, FdOK, Final
<1>3. Size \in Nat /\ 0 < Size
  <2>1. Size \in Nat
    BY ShapedFacts DEF UploadInv, Size
  <2> QED BY <1>1, <2>1, MaxTagIs
<1>4. ext.keep \subseteq old.upload_list
  BY <1>2, <1>3, ExtractOK
<1>5. InfOK(inf) /\ inf.upload_list = ext.keep /\ inf.state = old.state /\ inf.upload_id = old.upload_id
  <2> PICK keep : keep = ext.keep
    OBVIOUS
  <2>1. KeepAs(old, keep, [old EXCEPT !.upload_list = keep])
    BY <1>2, <1>4, KeepOK
  <2> QED BY <2>1 DEF KeepAs
<1>6. CASE info' = [info EXCEPT ![fd] = inf] /\ excuses' = excuses \cup {"failed"}
  <2>1. \A g \in Fds : info'[g].upload_id = info[g].upload_id
    BY <1>2, <1>5, <1>6
  <2>2. excuses' # {}
    BY <1>6
  <2> QED BY <1>1, <2>1, <2>2, SameJob, AloneKept
<1>7. CASE /\ info' = [info EXCEPT ![fd] = new] /\ excuses \subseteq excuses'
           /\ handler'.pc = (IF ext.wait THEN "wait_cancelled" ELSE "start") /\ handler'.fd = fd
  <2>1. new.upload_list = ext.keep /\ SameOrFresh(fd, new.upload_id)
    <3>1. inf.state = "open"
      BY <1>1, <1>5
    <3>2. PreAs(inf, PreMultipartUploadRequest(inf))
      BY <1>2, <1>5, <3>1, PreOK
    <3> QED BY <1>5, <3>2 DEF PreAs, SameOrFresh
  <2>2. Covered(fd, new)
    <3>1. CASE ext.wait
      <4>1. handler'.pc = "wait_cancelled" /\ handler'.fd = fd
        BY <1>7, <3>1
      <4> QED BY <4>1 DEF Covered
    <3>2. CASE ~ext.wait
      <4>1. ext.keep = old.upload_list
        BY <3>2 DEF ExtractUploadPartsFromAllArea, ExtractBlocks
      <4> QED BY <2>1, <4>1 DEF Covered, HasNum
    <3> QED BY <3>1, <3>2
  <2> PICK none : none = {}
    OBVIOUS
  <2>3. jobs' = jobs \cup Requests(fd, new.upload_id, none)
    BY <1>1 DEF Requests
  <2>4. none \subseteq new.upload_list /\ handler.pc # "wait_cancelled"
    BY <1>1
  <2>5. info' = [info EXCEPT ![fd] = new] /\ (excuses' = {} => excuses = {}) /\ SameOrFresh(fd, new.upload_id)
    BY <1>7, <2>1
  <2> QED BY ONLY UploadInv, AloneInv, fd \in Fds, <2>2, <2>3, <2>4, <2>5, AloneAdds
<1> QED BY <1>1, <1>6, <1>7

LEMMA AloneInit == Init => AloneInv
BY DEF Init, AloneInv, NewInfo

LEMMA AloneStep ==
    ASSUME UploadInv, AloneInv, [Next]_vars
    PROVE  AloneInv'
<1>1. ASSUME NEW fd \in Fds, Open(fd) \/ FlushNothing(fd) \/ CloseBegin(fd)
      PROVE  AloneInv'
  BY <1>1, AloneOpen, AloneFlushed, AloneCloseBegin
<1>2. ASSUME NEW fd \in Fds, NEW start \in 0..MaxSize, NEW size \in WriteSizes, Write(fd, start, size)
      PROVE  AloneInv'
  <2>1. size \in 0..MaxSize
    BY StreamUploadAssumption
  <2> QED BY <1>2, <2>1, AloneWrite
<1>3. ASSUME NEW fd \in Fds, NEW forced \in BOOLEAN,
             FlushSmallNotLoaded(fd, forced) \/ FlushSmall(fd, forced) \/ FlushExtract(fd, forced)
      PROVE  AloneInv'
  BY <1>3, AloneFlushed, AloneFlushExtract
<1>4. CASE HandlerStep
  BY <1>4, AloneWaits, AloneCancelled, AloneUploadAll, AloneAllEnded, AloneComplete, AloneCloseEnd
     DEF HandlerStep
<1>5. ASSUME NEW j \in jobs, WorkerStep(j)
      PROVE  AloneInv'
  BY <1>5, AloneWorker
<1>6. CASE UNCHANGED vars
  BY <1>6, AloneSame DEF vars, ghostVars, StillAwaited
<1> QED BY <1>1, <1>2, <1>3, <1>4, <1>5, <1>6, AlonePunched DEF Next, WorkersStep

LEMMA RequestsAre ==
    ASSUME NEW fd, NEW id, NEW E
    PROVE  \A r \in Requests(fd, id, E) : r.fd = fd /\ r.id = id /\ r.entry \in E
BY DEF Requests

(* The numbers a flush planned are not in the list, those of the requests are. *)
LEMMA UploadsAlone ==
    ASSUME UploadInv, AloneInv, UploadAll, excuses = {}, NEW j \in jobs, NEW k \in jobs' \ jobs, j.id = k.id
    PROVE  j.entry.part_num # k.entry.part_num
<1> PICK fd : fd = handler.fd
  OBVIOUS
<1> PICK old : old = info[fd]
  OBVIOUS
<1> PICK u, c, skip : u = handler.upload /\ c = handler.copy /\ skip = Cardinality(u)
  OBVIOUS
<1>1. /\ handler.pc = "start"
      /\ jobs' = jobs \cup Requests(fd, old.upload_id, WithCells(u, 0, FALSE) \cup WithCells(c, skip, TRUE))
  BY DEF UploadAll
<1>2. fd \in Fds /\ HandlerOK(handler, old, Size)
  BY <1>1, HandlerInfo
<1>3. old.upload_id # 0 /\ Planned(old.upload_list, u, c, Size)
  BY <1>1, <1>2 DEF HandlerOK
<1>4. k.id = old.upload_id /\ k.entry \in WithCells(u, 0, FALSE) \cup WithCells(c, skip, TRUE)
  <2> PICK E : E = WithCells(u, 0, FALSE) \cup WithCells(c, skip, TRUE)
    OBVIOUS
  <2>1. k \in Requests(fd, old.upload_id, E)
    BY <1>1
  <2> PICK id : id = old.upload_id
    OBVIOUS
  <2>2. \A r \in Requests(fd, id, E) : r.fd = fd /\ r.id = id /\ r.entry \in E
    BY ONLY RequestsAre
  <2>3. k.id = old.upload_id /\ k.entry \in E
    BY <2>1, <2>2
  <2> QED BY <2>3
<1>5. PICK p \in u \cup c : k.entry.part_num = p.part_num
  <2>1. Numbered(u) /\ Numbered(c)
    BY <1>3 DEF Planned
  <2>2. \A e \in WithCells(u, 0, FALSE) : Shape(e) \in {MpPart(p.start, p.size, p.part_num) : p \in u}
    BY <2>1, WithCellsFrom
  <2>3. \A e \in WithCells(c, skip, TRUE) : Shape(e) \in {MpPart(p.start, p.size, p.part_num) : p \in c}
    BY <2>1, WithCellsFrom
  <2>4. PICK p \in u \cup c : Shape(k.entry) = MpPart(p.start, p.size, p.part_num)
    BY <1>4, <2>2, <2>3
  <2> QED BY <2>4 DEF Shape, MpPart
<1>6. j.fd = fd
  BY <1>2, <1>3, <1>4, JobFd DEF AloneInv
<1>7. Listed(j)
  BY <1>1 DEF AloneInv, Awaited
<1>8. PICK e \in old.upload_list : e.part_num = j.entry.part_num
  BY <1>6, <1>7 DEF Listed, HasNum
<1>9. e.part_num # p.part_num
  BY <1>3 DEF Planned, Disjoint
<1> QED BY <1>5, <1>8, <1>9

(***************************************************************************)
(* FlushUploadsAlone for any number of descriptors, requests and workers:  *)
(* as long as no flush failed, what ParallelMultipartUploadAll sends is    *)
(* alone with its upload id and part number, so that the ETag CompleteMul- *)
(* tipartUpload names is that of the part S3 got last.                     *)
(***************************************************************************)
THEOREM FlushesUploadAlone == Spec => FlushUploadsAlone
<1>1. Init => UploadInv /\ AloneInv
  BY UploadInit, AloneInit
<1>2. UploadInv /\ AloneInv /\ [Next]_vars => (UploadInv /\ AloneInv)'
  BY UploadStep, AloneStep
<1>3. UploadInv /\ AloneInv /\ [Next]_vars =>
         [UploadAll /\ excuses = {} =>
              \A j \in jobs, k \in jobs' \ jobs : j.id = k.id => j.entry.part_num # k.entry.part_num]_vars
  BY UploadsAlone
<1> QED BY <1>1, <1>2, <1>3, PTL DEF Spec, FlushUploadsAlone
=============================================================================
