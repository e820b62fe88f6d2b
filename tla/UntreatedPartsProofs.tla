------------------------ MODULE UntreatedPartsProofs ------------------------
(***************************************************************************)
(* The list of untreated areas is the normal form of a set of bytes, and   *)
(* does with that set what UntreatedBytes promises, for any size of a      *)
(* file, any multipart size and any number of writes.                      *)
(***************************************************************************)
EXTENDS UntreatedParts, SequenceTheorems, FiniteSetTheorems, NaturalsInduction, TLAPS

(* Areas of the file. *)
Areas == {p \in [start : 0..MaxSize, size : 1..MaxSize, tag : 1..MaxTag] : PartEnd(p) <= MaxSize}

(* In order, neither overlapping nor adjacent: for any two areas, not only for neighbours. *)
Apart(list) ==
    /\ list \in Seq(Areas)
    /\ \A i, j \in 1..Len(list) : i < j => PartEnd(list[i]) < list[j].start

(* The last tag is the newest and is carried by one area at most. *)
Tagged(list, tag) ==
    /\ \A i \in 1..Len(list) : list[i].tag <= tag
    /\ \A i, j \in 1..Len(list) : list[i].tag = tag /\ list[j].tag = tag => i = j

(* The inductive invariant. *)
AreasInv ==
    /\ last_tag \in 0..MaxTag
    /\ Apart(untreated_list)
    /\ Tagged(untreated_list, last_tag)

-----------------------------------------------------------------------------
(* The least of a set of numbers, and the greatest of two. *)
LEMMA LeastOf ==
    ASSUME NEW S \in SUBSET Nat, S # {}
    PROVE  Min(S) \in S /\ \A y \in S : Min(S) <= y
<1>1. PICK x \in S : \A y \in S : ~(<<y, x>> \in OpToRel(<, Nat))
  BY NatLessThanWellFounded, WFMin, Zenon
<1>2. \A y \in S : ~(y < x)
  BY <1>1 DEF OpToRel
<1>3. \A y \in S : x <= y
  BY <1>2
<1> QED BY <1>3 DEF Min

LEMMA MinIs ==
    ASSUME NEW S \in SUBSET Int, NEW x \in S, \A y \in S : x <= y
    PROVE  Min(S) = x
<1>1. \A z \in S : (\A y \in S : z <= y) => z = x
  OBVIOUS
<1>2. Min(S) \in S /\ \A y \in S : Min(S) <= y
  BY DEF Min
<1> QED BY <1>1, <1>2

LEMMA MaxIs ==
    ASSUME NEW S \in SUBSET Int, NEW x \in S, \A y \in S : y <= x
    PROVE  Max(S) = x
<1>1. \A z \in S : (\A y \in S : z >= y) => z = x
  OBVIOUS
<1>2. Max(S) \in S /\ \A y \in S : Max(S) >= y
  BY DEF Max
<1> QED BY <1>1, <1>2

LEMMA AreaFacts ==
    ASSUME NEW p \in Areas
    PROVE  /\ p.start \in Nat /\ p.size \in Nat /\ p.size > 0 /\ p.tag \in Nat
           /\ PartEnd(p) = p.start + p.size /\ PartEnd(p) \in Nat /\ PartEnd(p) <= MaxSize
           /\ p.start < PartEnd(p)
BY UntreatedPartsAssumption DEF Areas, PartEnd

LEMMA AreaOf ==
    ASSUME NEW start \in Nat, NEW end \in Nat, start < end, end <= MaxSize, NEW tag \in 1..MaxTag
    PROVE  /\ Part(start, end - start, tag) \in Areas
           /\ PartEnd(Part(start, end - start, tag)) = end
           /\ Part(start, end - start, tag).start = start
           /\ Part(start, end - start, tag).tag = tag
BY UntreatedPartsAssumption DEF Areas, Part, PartEnd

-----------------------------------------------------------------------------
(* The elements of a concatenation. *)
LEMMA ConcatElements ==
    ASSUME NEW S, NEW f \in Seq(S), NEW g \in Seq(S)
    PROVE  /\ f \o g \in Seq(S) /\ Len(f \o g) = Len(f) + Len(g)
           /\ \A k \in 1..Len(f) : (f \o g)[k] = f[k]
           /\ \A k \in 1..Len(g) : (f \o g)[Len(f) + k] = g[k]
<1>1. Len(f) \in Nat /\ Len(g) \in Nat
  BY LenProperties
<1>2. /\ f \o g \in Seq(S) /\ Len(f \o g) = Len(f) + Len(g)
      /\ \A k \in 1..(Len(f) + Len(g)) : (f \o g)[k] = IF k <= Len(f) THEN f[k] ELSE g[k - Len(f)]
  BY ConcatProperties, Zenon
<1>3. \A k \in 1..Len(f) : k \in 1..(Len(f) + Len(g)) /\ k <= Len(f)
  BY <1>1
<1>4. \A k \in 1..Len(g) : Len(f) + k \in 1..(Len(f) + Len(g)) /\ Len(f) + k - Len(f) = k /\ ~(Len(f) + k <= Len(f))
  BY <1>1
<1> QED BY <1>2, <1>3, <1>4

(* The elements of a part of a sequence. *)
LEMMA SubSeqElements ==
    ASSUME NEW S, NEW list \in Seq(S), NEW m \in Nat, NEW n \in Nat,
           1 <= m, m <= Len(list) + 1, m - 1 <= n, n <= Len(list)
    PROVE  /\ SubSeq(list, m, n) \in Seq(S) /\ Len(SubSeq(list, m, n)) = n - m + 1
           /\ \A k \in 1..(n - m + 1) : SubSeq(list, m, n)[k] = list[m - 1 + k]
<1>0. Len(list) \in Nat /\ \A k \in 1..Len(list) : list[k] \in S
  BY ElementOfSeq, LenProperties
<1>1. m \in Int /\ n \in Int /\ \A k \in m..n : list[k] \in S
  BY <1>0
<1>2. /\ SubSeq(list, m, n) \in Seq(S)
      /\ Len(SubSeq(list, m, n)) = IF m <= n THEN n - m + 1 ELSE 0
      /\ \A k \in 1..(n - m + 1) : SubSeq(list, m, n)[k] = list[m + k - 1]
  BY <1>1, SubSeqProperties
<1>3. (IF m <= n THEN n - m + 1 ELSE 0) = n - m + 1
  BY <1>0
<1>4. \A k \in 1..(n - m + 1) : m + k - 1 = m - 1 + k
  BY <1>0
<1> QED BY <1>2, <1>3, <1>4, Zenon

(* What a splice makes of a sequence. *)
SplicedAs(s, list, a, b, new, S) ==
    /\ s \in Seq(S) /\ Len(s) = a - 1 + Len(new) + Len(list) - b
    /\ \A k \in 1..(a - 1) : s[k] = list[k]
    /\ \A k \in 1..Len(new) : s[a - 1 + k] = new[k]
    /\ \A k \in (b + 1)..Len(list) : s[a - 1 + Len(new) + k - b] = list[k]

LEMMA SpliceElements ==
    ASSUME NEW S, NEW list \in Seq(S), NEW a \in 1..(Len(list) + 1), NEW b \in (a - 1)..Len(list), NEW new \in Seq(S),
           NEW s, s = Spliced(list, a, b, new)
    PROVE  SplicedAs(s, list, a, b, new, S)
<1>0. Len(list) \in Nat /\ Len(new) \in Nat
  BY LenProperties
<1>1. PICK f : f = SubSeq(list, 1, a - 1)
  OBVIOUS
<1>2. PICK r : r = SubSeq(list, b + 1, Len(list))
  OBVIOUS
<1>3. f \in Seq(S) /\ Len(f) = a - 1 /\ \A k \in 1..(a - 1) : f[k] = list[k]
  <2>1. PICK n \in Nat : n = a - 1
    BY <1>0
  <2>2. 1 \in Nat /\ 1 <= 1 /\ 1 <= Len(list) + 1 /\ 1 - 1 <= n /\ n <= Len(list)
    BY <1>0, <2>1
  <2>3. /\ SubSeq(list, 1, n) \in Seq(S) /\ Len(SubSeq(list, 1, n)) = n - 1 + 1
        /\ \A k \in 1..(n - 1 + 1) : SubSeq(list, 1, n)[k] = list[1 - 1 + k]
    BY ONLY <2>2, list \in Seq(S), n \in Nat, SubSeqElements
  <2>4. f = SubSeq(list, 1, n)
    BY <1>1, <2>1
  <2>5. n - 1 + 1 = a - 1 /\ \A k \in 1..(a - 1) : 1 - 1 + k = k
    BY <1>0, <2>1
  <2> QED BY ONLY <2>3, <2>4, <2>5
<1>4. r \in Seq(S) /\ Len(r) = Len(list) - b /\ \A k \in 1..(Len(list) - b) : r[k] = list[b + k]
  <2>1. PICK m \in Nat : m = b + 1
    BY <1>0
  <2>2. PICK n \in Nat : n = Len(list)
    BY <1>0
  <2>3. 1 <= m /\ m <= Len(list) + 1 /\ m - 1 <= n /\ n <= Len(list)
    BY <1>0, <2>1, <2>2
  <2>4. /\ SubSeq(list, m, n) \in Seq(S) /\ Len(SubSeq(list, m, n)) = n - m + 1
        /\ \A k \in 1..(n - m + 1) : SubSeq(list, m, n)[k] = list[m - 1 + k]
    BY ONLY <2>3, list \in Seq(S), m \in Nat, n \in Nat, SubSeqElements
  <2>5. r = SubSeq(list, m, n)
    BY <1>2, <2>1, <2>2
  <2>6. n - m + 1 = Len(list) - b /\ m - 1 = b
    BY <1>0, <2>1, <2>2
  <2> QED BY ONLY <2>4, <2>5, <2>6
<1>5. PICK h : h = f \o new
  OBVIOUS
<1>6. /\ h \in Seq(S) /\ Len(h) = a - 1 + Len(new)
      /\ \A k \in 1..(a - 1) : h[k] = list[k]
      /\ \A k \in 1..Len(new) : h[a - 1 + k] = new[k]
  <2>1. /\ h \in Seq(S) /\ Len(h) = Len(f) + Len(new)
        /\ \A k \in 1..Len(f) : h[k] = f[k]
        /\ \A k \in 1..Len(new) : h[Len(f) + k] = new[k]
    <3>1. /\ f \o new \in Seq(S) /\ Len(f \o new) = Len(f) + Len(new)
          /\ \A k \in 1..Len(f) : (f \o new)[k] = f[k]
          /\ \A k \in 1..Len(new) : (f \o new)[Len(f) + k] = new[k]
      <4>1. f \in Seq(S) /\ new \in Seq(S)
        BY <1>3
      <4> QED BY ONLY <4>1, ConcatElements
    <3> QED BY ONLY <3>1, <1>5, Zenon
  <2> QED BY <1>3, <2>1
<1>7. s = h \o r
  BY <1>1, <1>2, <1>5 DEF Spliced
<1>8. /\ s \in Seq(S) /\ Len(s) = a - 1 + Len(new) + Len(list) - b
      /\ \A k \in 1..(a - 1 + Len(new)) : s[k] = h[k]
      /\ \A k \in 1..(Len(list) - b) : s[a - 1 + Len(new) + k] = list[b + k]
  <2>1. /\ s \in Seq(S) /\ Len(s) = Len(h) + Len(r)
        /\ \A k \in 1..Len(h) : s[k] = h[k]
        /\ \A k \in 1..Len(r) : s[Len(h) + k] = r[k]
    <3>1. /\ h \o r \in Seq(S) /\ Len(h \o r) = Len(h) + Len(r)
          /\ \A k \in 1..Len(h) : (h \o r)[k] = h[k]
          /\ \A k \in 1..Len(r) : (h \o r)[Len(h) + k] = r[k]
      <4>1. h \in Seq(S) /\ r \in Seq(S)
        BY <1>4, <1>6
      <4> QED BY ONLY <4>1, ConcatElements
    <3> QED BY ONLY <3>1, <1>7, Zenon
  <2>2. Len(s) = a - 1 + Len(new) + Len(list) - b
    BY <1>0, <1>4, <1>6, <2>1
  <2> QED BY <1>4, <1>6, <2>1, <2>2
<1>9. /\ \A k \in 1..(a - 1) : s[k] = list[k]
      /\ \A k \in 1..Len(new) : s[a - 1 + k] = new[k]
  <2>1. \A k \in 1..(a - 1) : k \in 1..(a - 1 + Len(new))
    BY <1>0
  <2>2. \A k \in 1..Len(new) : a - 1 + k \in 1..(a - 1 + Len(new))
    BY <1>0
  <2> QED BY <1>6, <1>8, <2>1, <2>2
<1>10. \A k \in (b + 1)..Len(list) : s[a - 1 + Len(new) + k - b] = list[k]
  <2> TAKE k \in (b + 1)..Len(list)
  <2>1. k - b \in 1..(Len(list) - b) /\ b + (k - b) = k /\ a - 1 + Len(new) + (k - b) = a - 1 + Len(new) + k - b
    BY <1>0
  <2> QED BY <1>8, <2>1
<1> QED BY <1>8, <1>9, <1>10 DEF SplicedAs

(* Where an element of a splice comes from. *)
LEMMA SpliceCases ==
    ASSUME NEW S, NEW list \in Seq(S), NEW a \in 1..(Len(list) + 1), NEW b \in (a - 1)..Len(list), NEW new \in Seq(S),
           NEW s, s = Spliced(list, a, b, new), NEW k \in 1..Len(s)
    PROVE  \/ k \in 1..Len(list) /\ k < a /\ s[k] = list[k]
           \/ \E j \in 1..Len(new) : k = a - 1 + j /\ s[k] = new[j]
           \/ \E i \in 1..Len(list) : b < i /\ k = a - 1 + Len(new) + i - b /\ s[k] = list[i]
<1>0. Len(list) \in Nat /\ Len(new) \in Nat
  BY LenProperties
<1>1. /\ Len(s) = a - 1 + Len(new) + Len(list) - b
      /\ \A n \in 1..(a - 1) : s[n] = list[n]
      /\ \A n \in 1..Len(new) : s[a - 1 + n] = new[n]
      /\ \A n \in (b + 1)..Len(list) : s[a - 1 + Len(new) + n - b] = list[n]
  <2>1. SplicedAs(s, list, a, b, new, S)
    BY SpliceElements
  <2> QED BY <2>1 DEF SplicedAs
<1>2. CASE k < a
  BY <1>0, <1>1, <1>2
<1>3. CASE a <= k /\ k <= a - 1 + Len(new)
  <2>1. k - (a - 1) \in 1..Len(new) /\ k = a - 1 + (k - (a - 1))
    BY <1>0, <1>3
  <2> QED BY <1>1, <2>1
<1>4. CASE a - 1 + Len(new) < k
  <2>1. PICK i \in Int : i = k - (a - 1) - Len(new) + b
    <3>1. a \in Int /\ b \in Int /\ k \in Int /\ Len(new) \in Int
      BY <1>0
    <3>2. k - (a - 1) - Len(new) + b \in Int
      BY ONLY <3>1
    <3> QED BY ONLY <3>2, Zenon
  <2>2. i \in (b + 1)..Len(list) /\ i \in 1..Len(list) /\ b < i /\ k = a - 1 + Len(new) + i - b
    BY <1>0, <1>1, <1>4, <2>1
  <2> QED BY <1>1, <2>2
<1> QED BY <1>0, <1>2, <1>3, <1>4

(* The areas of new fit between those of the list that stay, and carry the last tag or an older one. *)
Fits(list, a, b, new, tag) ==
    /\ new \in Seq(Areas) /\ Len(new) <= 1
    /\ \A i \in 1..Len(list) : i < a \/ b < i => list[i].tag < tag
    /\ \A k \in 1..Len(new) :
          /\ new[k].tag <= tag
          /\ \A i \in 1..Len(list) : /\ i < a => PartEnd(list[i]) < new[k].start
                                     /\ b < i => PartEnd(new[k]) < list[i].start

(* What one operation leaves: a list in normal form that holds a given set of bytes. *)
Holds(s, tag, B) == Apart(s) /\ Tagged(s, tag) /\ Bytes(s) = B

(* The bytes of the areas that stay. *)
Kept(list, a, b) == UNION {PartBytes(list[i]) : i \in {k \in 1..Len(list) : k < a \/ b < k}}

(***************************************************************************)
(* A splice of one area at most, apart from the areas that stay, keeps the *)
(* normal form; its bytes are those of the new area and of the ones that   *)
(* stay.                                                                   *)
(***************************************************************************)
LEMMA SpliceOK ==
    ASSUME NEW list, Apart(list), NEW tag \in Nat,
           NEW a \in 1..(Len(list) + 1), NEW b \in (a - 1)..Len(list),
           NEW new, Fits(list, a, b, new, tag)
    PROVE  Holds(Spliced(list, a, b, new), tag, Kept(list, a, b) \cup Bytes(new))
<1> PICK s : s = Spliced(list, a, b, new)
  OBVIOUS
<1>a. /\ new \in Seq(Areas) /\ Len(new) <= 1
      /\ \A i \in 1..Len(list) : i < a \/ b < i => list[i].tag < tag
      /\ \A k \in 1..Len(new) :
            /\ new[k].tag <= tag
            /\ \A i \in 1..Len(list) : /\ i < a => PartEnd(list[i]) < new[k].start
                                       /\ b < i => PartEnd(new[k]) < list[i].start
  BY DEF Fits
<1>0. Len(list) \in Nat /\ Len(new) \in Nat /\ list \in Seq(Areas)
  BY <1>a, LenProperties DEF Apart
<1>1. /\ s \in Seq(Areas) /\ Len(s) = a - 1 + Len(new) + Len(list) - b
      /\ \A n \in 1..(a - 1) : s[n] = list[n]
      /\ \A n \in 1..Len(new) : s[a - 1 + n] = new[n]
      /\ \A n \in (b + 1)..Len(list) : s[a - 1 + Len(new) + n - b] = list[n]
  <2>1. SplicedAs(s, list, a, b, new, Areas)
    BY <1>a, <1>0, SpliceElements
  <2> QED BY <2>1 DEF SplicedAs
<1>2. \A k \in 1..Len(s) :
           \/ k \in 1..Len(list) /\ k < a /\ s[k] = list[k]
           \/ \E j \in 1..Len(new) : k = a - 1 + j /\ s[k] = new[j]
           \/ \E i \in 1..Len(list) : b < i /\ k = a - 1 + Len(new) + i - b /\ s[k] = list[i]
  <2> TAKE k \in 1..Len(s)
  <2> QED BY ONLY <1>0, a \in 1..(Len(list) + 1), b \in (a - 1)..Len(list), <1>a,
                  s = Spliced(list, a, b, new), k \in 1..Len(s), SpliceCases
<1>3. /\ \A i \in 1..Len(list) : list[i] \in Areas
      /\ \A i \in 1..Len(new) : new[i] \in Areas
  BY <1>a, <1>0, ElementOfSeq
<1>4. /\ \A i \in 1..Len(list) : list[i].start \in Nat /\ PartEnd(list[i]) \in Nat /\ list[i].tag \in Nat
      /\ \A i \in 1..Len(new) : new[i].start \in Nat /\ PartEnd(new[i]) \in Nat /\ new[i].tag \in Nat
      /\ \A i \in 1..Len(list) : list[i].start < PartEnd(list[i])
      /\ \A i \in 1..Len(new) : new[i].start < PartEnd(new[i])
  BY <1>3, AreaFacts
<1>5. \A i, j \in 1..Len(list) : i < j => PartEnd(list[i]) < list[j].start
  BY DEF Apart
<1>6. \A m, n \in 1..Len(s) : m < n => PartEnd(s[m]) < s[n].start
  <2> SUFFICES ASSUME NEW m \in 1..Len(s), NEW n \in 1..Len(s), m < n
               PROVE  PartEnd(s[m]) < s[n].start
    OBVIOUS
  <2>1. CASE m \in 1..Len(list) /\ m < a /\ s[m] = list[m]
    <3>1. CASE n \in 1..Len(list) /\ n < a /\ s[n] = list[n]
      BY <1>5, <2>1, <3>1
    <3>2. CASE \E j \in 1..Len(new) : n = a - 1 + j /\ s[n] = new[j]
      BY <1>a, <2>1, <3>2
    <3>3. CASE \E i \in 1..Len(list) : b < i /\ n = a - 1 + Len(new) + i - b /\ s[n] = list[i]
      <4>1. PICK i \in 1..Len(list) : b < i /\ s[n] = list[i]
        BY <3>3
      <4>2. m < i
        BY <1>0, <2>1, <4>1
      <4> QED BY <1>5, <2>1, <4>1, <4>2
    <3> QED BY <1>2, <3>1, <3>2, <3>3
  <2>2. CASE \E j \in 1..Len(new) : m = a - 1 + j /\ s[m] = new[j]
    <3>1. PICK j \in 1..Len(new) : m = a - 1 + j /\ s[m] = new[j]
      BY <2>2
    <3>2. n > a - 1 + Len(new)
      BY <1>a, <1>0, <3>1
    <3>3. PICK i \in 1..Len(list) : b < i /\ s[n] = list[i]
      BY <1>0, <1>2, <3>2, SMTT(30)
    <3> QED BY <1>a, <3>1, <3>3
  <2>3. CASE \E i \in 1..Len(list) : b < i /\ m = a - 1 + Len(new) + i - b /\ s[m] = list[i]
    <3>1. PICK i \in 1..Len(list) : b < i /\ m = a - 1 + Len(new) + i - b /\ s[m] = list[i]
      BY <2>3
    <3>2. n > a - 1 + Len(new) + 1
      BY <1>0, <3>1
    <3>3. PICK e \in 1..Len(list) : b < e /\ n = a - 1 + Len(new) + e - b /\ s[n] = list[e]
      <4>1. ~(n < a) /\ \A j \in 1..Len(new) : n # a - 1 + j
        BY <1>0, <3>2
      <4> QED BY <1>2, <4>1
    <3>4. i < e
      BY <1>0, <3>1, <3>3
    <3> QED BY <1>5, <3>1, <3>3, <3>4
  <2> QED BY <1>2, <2>1, <2>2, <2>3
<1>7. Apart(s)
  BY <1>1, <1>6 DEF Apart
<1>8. \A m \in 1..Len(s) : s[m].tag <= tag /\ (s[m].tag = tag => m = a)
  <2> TAKE m \in 1..Len(s)
  <2>1. CASE m \in 1..Len(list) /\ m < a /\ s[m] = list[m]
    BY <1>a, <1>4, <2>1
  <2>2. CASE \E j \in 1..Len(new) : m = a - 1 + j /\ s[m] = new[j]
    <3>1. PICK j \in 1..Len(new) : m = a - 1 + j /\ s[m] = new[j]
      BY <2>2
    <3>2. m = a
      BY <1>a, <1>0, <3>1
    <3> QED BY <1>a, <3>1, <3>2
  <2>3. CASE \E i \in 1..Len(list) : b < i /\ m = a - 1 + Len(new) + i - b /\ s[m] = list[i]
    BY <1>a, <1>4, <2>3
  <2> QED BY <1>2, <2>1, <2>2, <2>3
<1>9. Tagged(s, tag)
  BY <1>8 DEF Tagged
<1>10. Len(s) \in Nat /\ DOMAIN s = 1..Len(s)
  BY <1>1, LenProperties
<1>11. ASSUME NEW x, x \in Bytes(s)
       PROVE  \/ \E i \in 1..Len(list) : (i < a \/ b < i) /\ x \in PartBytes(list[i])
              \/ \E k \in 1..Len(new) : x \in PartBytes(new[k])
  <2>1. PICK m \in 1..Len(s) : x \in PartBytes(s[m])
    BY <1>10, <1>11 DEF Bytes
  <2>2. CASE m \in 1..Len(list) /\ m < a /\ s[m] = list[m]
    BY <2>1, <2>2
  <2>3. CASE \E j \in 1..Len(new) : m = a - 1 + j /\ s[m] = new[j]
    BY <2>1, <2>3
  <2>4. CASE \E i \in 1..Len(list) : b < i /\ m = a - 1 + Len(new) + i - b /\ s[m] = list[i]
    BY <2>1, <2>4
  <2> QED BY <1>2, <2>2, <2>3, <2>4
<1>12. ASSUME NEW x, NEW i \in 1..Len(list), i < a \/ b < i, x \in PartBytes(list[i])
       PROVE  x \in Bytes(s)
  <2>1. PICK m \in 1..Len(s) : s[m] = list[i]
    <3>1. CASE i < a
      <4>1. i \in 1..(a - 1) /\ i \in 1..Len(s)
        BY <1>0, <1>1, <3>1
      <4> QED BY <1>1, <4>1
    <3>2. CASE b < i
      <4>1. i \in (b + 1)..Len(list) /\ a - 1 + Len(new) + i - b \in 1..Len(s)
        BY <1>0, <1>1, <3>2
      <4> QED BY <1>1, <4>1
    <3> QED BY <1>12, <3>1, <3>2
  <2> QED BY <1>10, <1>12, <2>1 DEF Bytes
<1>13. ASSUME NEW x, NEW k \in 1..Len(new), x \in PartBytes(new[k])
       PROVE  x \in Bytes(s)
  <2>1. a - 1 + k \in 1..Len(s) /\ s[a - 1 + k] = new[k]
    BY <1>0, <1>1
  <2> QED BY <1>10, <1>13, <2>1 DEF Bytes
<1>14. Bytes(s) = Kept(list, a, b) \cup Bytes(new)
  <2>1. DOMAIN new = 1..Len(new)
    BY <1>a, LenProperties
  <2>2. \A x : x \in Bytes(new) <=> \E k \in 1..Len(new) : x \in PartBytes(new[k])
    BY <2>1 DEF Bytes
  <2>3. \A x : x \in Kept(list, a, b) <=> \E i \in 1..Len(list) : (i < a \/ b < i) /\ x \in PartBytes(list[i])
    BY DEF Kept
  <2> QED BY <1>11, <1>12, <1>13, <2>2, <2>3
<1> QED BY <1>7, <1>9, <1>14 DEF Holds

-----------------------------------------------------------------------------
(* Facts of every list in normal form. *)
LEMMA ApartFacts ==
    ASSUME NEW list, Apart(list)
    PROVE  /\ list \in Seq(Areas) /\ Len(list) \in Nat /\ DOMAIN list = 1..Len(list)
           /\ \A i \in 1..Len(list) :
                 /\ list[i] \in Areas /\ list[i].start \in Nat /\ PartEnd(list[i]) \in Nat
                 /\ list[i].start < PartEnd(list[i]) /\ PartEnd(list[i]) <= MaxSize /\ list[i].tag \in Nat
           /\ \A i, j \in 1..Len(list) : i < j => PartEnd(list[i]) < list[j].start
<1>1. /\ list \in Seq(Areas) /\ Len(list) \in Nat /\ DOMAIN list = 1..Len(list)
      /\ \A i \in 1..Len(list) : list[i] \in Areas
  BY LenProperties, ElementOfSeq DEF Apart
<1>2. \A i \in 1..Len(list) :
         /\ list[i].start \in Nat /\ PartEnd(list[i]) \in Nat
         /\ list[i].start < PartEnd(list[i]) /\ PartEnd(list[i]) <= MaxSize /\ list[i].tag \in Nat
  BY <1>1, AreaFacts
<1> QED BY <1>1, <1>2 DEF Apart

LEMMA BytesOf ==
    ASSUME NEW list, Apart(list)
    PROVE  \A x : x \in Bytes(list) <=> \E i \in 1..Len(list) : x \in PartBytes(list[i])
BY ApartFacts DEF Bytes

(***************************************************************************)
(* untreatedpart::stretch: the area at i and the ones behind it up to k    *)
(* are in order, so that the first of them and the last of them decide.    *)
(***************************************************************************)
LEMMA StretchedIs ==
    ASSUME NEW list, Apart(list), NEW p \in Areas, NEW i \in 1..Len(list), NEW k \in i..Len(list)
    PROVE  LET q == Stretched(list, i, k, p)
           IN  /\ q \in Areas /\ q.tag = p.tag
               /\ q.start = IF p.start <= list[i].start THEN p.start ELSE list[i].start
               /\ PartEnd(q) = IF PartEnd(p) >= PartEnd(list[k]) THEN PartEnd(p) ELSE PartEnd(list[k])
<1> DEFINE all == {p} \cup {list[j] : j \in i..k}
           lo == IF p.start <= list[i].start THEN p.start ELSE list[i].start
           hi == IF PartEnd(p) >= PartEnd(list[k]) THEN PartEnd(p) ELSE PartEnd(list[k])
           starts == {q.start : q \in all}
           ends == {PartEnd(q) : q \in all}
<1>1. /\ Len(list) \in Nat /\ i \in Int /\ k \in Int /\ i <= k /\ k \in 1..Len(list)
      /\ \A j \in 1..Len(list) :
            /\ list[j] \in Areas /\ list[j].start \in Nat /\ PartEnd(list[j]) \in Nat
            /\ list[j].start < PartEnd(list[j]) /\ PartEnd(list[j]) <= MaxSize
      /\ \A j, n \in 1..Len(list) : j < n => PartEnd(list[j]) < list[n].start
  BY ApartFacts
<1>2. p.start \in Nat /\ PartEnd(p) \in Nat /\ p.start < PartEnd(p) /\ PartEnd(p) <= MaxSize /\ p.tag \in 1..MaxTag
  BY AreaFacts DEF Areas
<1>3. \A j \in i..k : j \in 1..Len(list) /\ list[i].start <= list[j].start /\ PartEnd(list[j]) <= PartEnd(list[k])
  <2> TAKE j \in i..k
  <2>1. j \in 1..Len(list) /\ (i = j \/ i < j) /\ (j = k \/ j < k)
    BY <1>1
  <2>2. list[i].start <= list[j].start
    BY <1>1, <2>1
  <2>3. PartEnd(list[j]) <= PartEnd(list[k])
    BY <1>1, <2>1
  <2> QED BY <2>1, <2>2, <2>3
<1>4. i \in i..k /\ k \in i..k
  BY <1>1
<1>5. lo \in Nat /\ hi \in Nat /\ lo < hi /\ hi <= MaxSize
  BY <1>1, <1>2
<1>6. Min(starts) = lo
  <2>1. \A y \in starts : y \in Int /\ lo <= y
    <3>a. p.start \in Int /\ lo <= p.start
      BY <1>1, <1>2
    <3>b. \A j \in i..k : list[j].start \in Int /\ lo <= list[j].start
      BY <1>1, <1>2, <1>3
    <3>1. \A q \in all : q.start \in Int /\ lo <= q.start
      <4> HIDE DEF lo
      <4> QED BY <3>a, <3>b
    <3> QED BY <3>1
  <2>2. lo \in starts
    <3>1. p \in all /\ list[i] \in all
      BY <1>4
    <3>2. lo = p.start \/ lo = list[i].start
      OBVIOUS
    <3> QED BY <3>1, <3>2
  <2>3. starts \in SUBSET Int
    BY <2>1
  <2> HIDE DEF starts, lo
  <2> QED BY <2>1, <2>2, <2>3, MinIs
<1>7. Max(ends) = hi
  <2>1. \A y \in ends : y \in Int /\ y <= hi
    <3>1. \A q \in all : PartEnd(q) \in Int /\ PartEnd(q) <= hi
      BY <1>1, <1>2, <1>3
    <3> QED BY <3>1
  <2>2. hi \in ends
    <3>1. p \in all /\ list[k] \in all
      BY <1>4
    <3>2. hi = PartEnd(p) \/ hi = PartEnd(list[k])
      OBVIOUS
    <3> QED BY <3>1, <3>2
  <2>3. ends \in SUBSET Int
    BY <2>1
  <2> HIDE DEF ends, hi
  <2> QED BY <2>1, <2>2, <2>3, MaxIs
<1>8. Stretched(list, i, k, p) = Part(lo, hi - lo, p.tag)
  BY <1>6, <1>7, Zenon DEF Stretched
<1>9. /\ Part(lo, hi - lo, p.tag) \in Areas
      /\ PartEnd(Part(lo, hi - lo, p.tag)) = hi
      /\ Part(lo, hi - lo, p.tag).start = lo
      /\ Part(lo, hi - lo, p.tag).tag = p.tag
  <2> HIDE DEF lo, hi
  <2> QED BY <1>2, <1>5, AreaOf
<1> HIDE DEF lo, hi
<1>10. LET q == Stretched(list, i, k, p)
       IN  q \in Areas /\ q.tag = p.tag /\ q.start = lo /\ PartEnd(q) = hi
  BY <1>8, <1>9, Zenon
<1> QED BY <1>10 DEF lo, hi

(* The two splices there are: one area or none in the place of those at a to b. *)
FitsOne(list, a, b, q, tag) ==
    /\ q \in Areas /\ q.tag <= tag
    /\ \A i \in 1..Len(list) :
          /\ i < a \/ b < i => list[i].tag < tag
          /\ i < a => PartEnd(list[i]) < q.start
          /\ b < i => PartEnd(q) < list[i].start

LEMMA SpliceOneOK ==
    ASSUME NEW list, Apart(list), NEW tag \in Nat,
           NEW a \in 1..(Len(list) + 1), NEW b \in (a - 1)..Len(list),
           NEW q, FitsOne(list, a, b, q, tag)
    PROVE  Holds(Spliced(list, a, b, <<q>>), tag, Kept(list, a, b) \cup PartBytes(q))
<1>1. PICK new : new = <<q>>
  OBVIOUS
<1>2. new \in Seq(Areas) /\ Len(new) = 1 /\ new[1] = q
  BY <1>1 DEF FitsOne
<1>3. Fits(list, a, b, new, tag)
  <2>1. \A k \in 1..Len(new) : new[k] = q
    BY <1>2
  <2> QED BY <1>2, <2>1 DEF Fits, FitsOne
<1>4. Bytes(new) = PartBytes(q)
  <2>1. DOMAIN new = {1}
    BY <1>1
  <2> QED BY <1>2, <2>1 DEF Bytes
<1>5. Holds(Spliced(list, a, b, new), tag, Kept(list, a, b) \cup Bytes(new))
  BY <1>3, SpliceOK
<1> QED BY ONLY <1>1, <1>4, <1>5, Zenon

(* The new area is in the list. *)
LEMMA SpliceOneIn ==
    ASSUME NEW list, Apart(list), NEW a \in 1..(Len(list) + 1), NEW b \in (a - 1)..Len(list), NEW q \in Areas
    PROVE  LastUpdated(Spliced(list, a, b, <<q>>), q.tag) # {}
<1>1. list \in Seq(Areas) /\ Len(list) \in Nat /\ <<q>> \in Seq(Areas) /\ Len(<<q>>) = 1 /\ <<q>>[1] = q
  BY ApartFacts
<1>2. PICK s : s = Spliced(list, a, b, <<q>>)
  OBVIOUS
<1>3. SplicedAs(s, list, a, b, <<q>>, Areas)
  BY <1>1, <1>2, SpliceElements
<1>4. s \in Seq(Areas) /\ Len(s) = a - 1 + 1 + Len(list) - b /\ s[a - 1 + 1] = q
  BY <1>1, <1>3 DEF SplicedAs
<1>5. a - 1 + 1 = a /\ a \in 1..Len(s)
  BY <1>1, <1>4
<1>6. DOMAIN s = 1..Len(s)
  BY <1>4, LenProperties, Zenon
<1> QED BY <1>2, <1>4, <1>5, <1>6 DEF LastUpdated

LEMMA SpliceNoneOK ==
    ASSUME NEW list, Apart(list), NEW tag \in Nat,
           NEW a \in 1..(Len(list) + 1), NEW b \in (a - 1)..Len(list),
           \A i \in 1..Len(list) : i < a \/ b < i => list[i].tag < tag
    PROVE  Holds(Spliced(list, a, b, <<>>), tag, Kept(list, a, b))
<1>1. PICK new : new = <<>>
  OBVIOUS
<1>2. new \in Seq(Areas) /\ Len(new) = 0
  BY <1>1
<1>3. Fits(list, a, b, new, tag)
  BY <1>2 DEF Fits
<1>4. Kept(list, a, b) \cup Bytes(new) = Kept(list, a, b)
  <2>1. DOMAIN new = {}
    BY <1>1
  <2> QED BY <2>1 DEF Bytes
<1>5. Holds(Spliced(list, a, b, new), tag, Kept(list, a, b) \cup Bytes(new))
  BY <1>3, SpliceOK
<1> QED BY ONLY <1>1, <1>4, <1>5, Zenon

(***************************************************************************)
(* AddPart keeps the normal form and adds exactly the bytes written.       *)
(***************************************************************************)
LEMMA AddedOK ==
    ASSUME NEW list, Apart(list), NEW start \in Nat, NEW end \in Nat, start < end, end <= MaxSize,
           NEW tag \in 1..MaxTag, \A k \in 1..Len(list) : list[k].tag < tag
    PROVE  /\ Holds(Added(list, start, end - start, tag), tag, Bytes(list) \cup (start..(end - 1)))
           /\ LastUpdated(Added(list, start, end - start, tag), tag) # {}
<1>1. /\ list \in Seq(Areas) /\ Len(list) \in Nat /\ DOMAIN list = 1..Len(list)
      /\ \A k \in 1..Len(list) :
            /\ list[k] \in Areas /\ list[k].start \in Nat /\ PartEnd(list[k]) \in Nat
            /\ list[k].start < PartEnd(list[k]) /\ PartEnd(list[k]) <= MaxSize
      /\ \A j, k \in 1..Len(list) : j < k => PartEnd(list[j]) < list[k].start
  BY ApartFacts
<1>2. PICK p : p = Part(start, end - start, tag)
  OBVIOUS
<1>3. p \in Areas /\ PartEnd(p) = end /\ p.start = start /\ p.tag = tag
  BY <1>2, AreaOf
<1> DEFINE stop == {Len(list) + 1} \cup
                   {k \in DOMAIN list : Touches(list[k], p) \/ PartEnd(p) < list[k].start}
<1>4. PICK i : i = Min(stop)
  OBVIOUS
<1>5. i \in stop /\ \A y \in stop : i <= y
  <2>1. stop \in SUBSET Nat /\ stop # {}
    BY <1>1
  <2> HIDE DEF stop
  <2> QED BY <1>4, <2>1, LeastOf
<1>6. i \in 1..(Len(list) + 1)
  BY <1>1, <1>5
<1>7. \A k \in 1..Len(list) : k < i => PartEnd(list[k]) < start
  <2> SUFFICES ASSUME NEW k \in 1..Len(list), k < i
               PROVE  PartEnd(list[k]) < start
    OBVIOUS
  <2>1. k \notin stop
    BY <1>1, <1>5, <1>6
  <2>2. ~Touches(list[k], p) /\ ~(PartEnd(p) < list[k].start)
    BY <1>1, <2>1
  <2> QED BY <1>1, <1>3, <2>2 DEF Touches
<1>8. Added(list, start, end - start, tag) =
         IF i <= Len(list) /\ Touches(list[i], p) THEN Absorb(list, i, p) ELSE Spliced(list, i, i - 1, <<p>>)
  BY <1>2, <1>4 DEF Added
<1>9. \A x : x \in PartBytes(p) <=> x \in start..(end - 1)
  BY <1>3 DEF PartBytes
<1>10. CASE i <= Len(list) /\ Touches(list[i], p)
  <2>1. i \in 1..Len(list) /\ PartEnd(p) >= list[i].start /\ PartEnd(list[i]) >= p.start
    BY <1>6, <1>10 DEF Touches
  <2> DEFINE K == {k \in i..Len(list) :
                      k = Len(list) \/ ~Touches(Stretched(list, i, k, p), list[k + 1])}
  <2>2. PICK last : last = Min(K)
    OBVIOUS
  <2>3. last \in K /\ \A y \in K : last <= y
    <3>1. K \in SUBSET Nat /\ Len(list) \in K
      BY <1>1, <2>1
    <3> HIDE DEF K
    <3> QED BY <2>2, <3>1, LeastOf
  <2>4. last \in i..Len(list)
    BY <2>3
  <2>5. PICK q : q = Stretched(list, i, last, p)
    OBVIOUS
  <2>6. /\ q \in Areas /\ q.tag = tag
        /\ q.start = IF p.start <= list[i].start THEN p.start ELSE list[i].start
        /\ PartEnd(q) = IF PartEnd(p) >= PartEnd(list[last]) THEN PartEnd(p) ELSE PartEnd(list[last])
    BY <1>3, <2>1, <2>4, <2>5, StretchedIs
  <2>7. PICK s : s = Spliced(list, i, last, <<q>>)
    OBVIOUS
  <2>8. Added(list, start, end - start, tag) = s
    BY <1>8, <1>10, <2>2, <2>5, <2>7, Zenon DEF Absorb
  <2>9. \A k \in i..last : k # i => list[k].start <= end
    <3> SUFFICES ASSUME NEW k \in i..last, k # i
                 PROVE  list[k].start <= end
      OBVIOUS
    <3>1. PICK j \in Int : j = k - 1
      BY <2>1, <2>4
    <3>2. j \in i..Len(list) /\ j < last /\ j # Len(list) /\ j + 1 = k
          /\ j \in 1..Len(list) /\ k \in 1..Len(list) /\ j < k
      BY <1>1, <2>1, <2>4, <3>1
    <3>3. j \notin K
      BY <2>3, <2>4, <3>2
    <3>4. Touches(Stretched(list, i, j, p), list[j + 1])
      BY <3>2, <3>3
    <3>5. PICK r : r = Stretched(list, i, j, p)
      OBVIOUS
    <3>6. PartEnd(r) = IF PartEnd(p) >= PartEnd(list[j]) THEN PartEnd(p) ELSE PartEnd(list[j])
      BY <1>3, <2>1, <3>2, <3>5, StretchedIs
    <3>7. PartEnd(r) >= list[k].start
      BY <3>2, <3>4, <3>5 DEF Touches
    <3>8. PartEnd(list[j]) < list[k].start
      BY <1>1, <3>2
    <3> QED
      <4>1. PartEnd(list[j]) \in Nat /\ list[k].start \in Nat /\ PartEnd(p) = end
        BY <1>1, <1>3, <3>2
      <4> QED BY <3>6, <3>7, <3>8, <4>1
  <2>10. \A k \in 1..Len(list) : k < i => PartEnd(list[k]) < q.start
    BY <1>1, <1>3, <1>7, <2>1, <2>6
  <2>11. \A k \in 1..Len(list) : last < k => PartEnd(q) < list[k].start
    <3> SUFFICES ASSUME NEW k \in 1..Len(list), last < k
                 PROVE  PartEnd(q) < list[k].start
      OBVIOUS
    <3>1. PICK j \in 1..Len(list) : j = last + 1
      BY <1>1, <2>1, <2>4
    <3>2. ~Touches(q, list[j])
      <4>a. last \in Nat /\ j \in Nat /\ j <= Len(list)
        BY <1>1, <2>1, <2>4, <3>1
      <4>1. last # Len(list)
        <5>1. Len(list) \in Nat
          BY <1>1
        <5>2. last < Len(list)
          BY ONLY <4>a, <3>1, <5>1
        <5> QED BY ONLY <4>a, <5>1, <5>2
      <4> QED BY <2>3, <2>5, <3>1, <4>1
    <3>3. i < j /\ (j = k \/ j < k)
      BY <2>1, <2>4, <3>1
    <3>4. PartEnd(list[j]) >= q.start
      <4>1. i \in 1..Len(list) /\ list[i] \in Areas /\ list[j] \in Areas /\ PartEnd(list[i]) < list[j].start
        BY <1>1, <2>1, <3>1, <3>3
      <4>2. q.start <= list[i].start
        BY <1>3, <2>6, <4>1, AreaFacts
      <4>3. q.start \in Nat
        BY <2>6, AreaFacts
      <4> QED BY ONLY <4>1, <4>2, <4>3, AreaFacts
    <3>5. PartEnd(q) < list[j].start
      <4>1. PartEnd(q) \in Nat /\ list[j].start \in Nat
        BY <1>1, <2>6, <3>1, AreaFacts
      <4>2. ~(PartEnd(q) >= list[j].start)
        BY <3>2, <3>4 DEF Touches
      <4> QED BY ONLY <4>1, <4>2
    <3> QED BY <1>1, <2>6, <3>1, <3>3, <3>5, AreaFacts
  <2>12. Holds(s, tag, Kept(list, i, last) \cup PartBytes(q))
    <3>1. tag \in Nat /\ last \in (i - 1)..Len(list)
      BY <1>1, <2>1, <2>4
    <3>2. \A k \in 1..Len(list) :
             /\ k < i \/ last < k => list[k].tag < tag
             /\ k < i => PartEnd(list[k]) < q.start
             /\ last < k => PartEnd(q) < list[k].start
      BY <2>10, <2>11
    <3>3. q.tag <= tag
      BY <2>6, <3>1
    <3>4. FitsOne(list, i, last, q, tag)
      BY <2>6, <3>2, <3>3 DEF FitsOne
    <3> QED BY <1>6, <2>7, <3>1, <3>4, SpliceOneOK
  <2>13. \A x : x \in PartBytes(q) <=>
                   x \in start..(end - 1) \/ \E k \in i..last : x \in PartBytes(list[k])
    <3>1. ASSUME NEW x, x \in PartBytes(q), x \notin start..(end - 1)
          PROVE  x \in PartBytes(list[i]) \/ x \in PartBytes(list[last])
      <4>0. last \in 1..Len(list) /\ i \in i..last /\ last \in i..last
        BY <1>1, <2>1, <2>4
      <4>1. x \in Int /\ q.start <= x /\ x < PartEnd(q) /\ (x < start \/ end <= x)
        BY <1>3, <2>6, <3>1, AreaFacts DEF PartBytes
      <4>2. CASE x < start
        BY <1>1, <1>3, <2>1, <2>6, <4>1, <4>2 DEF PartBytes
      <4>3. CASE end <= x
        <5>1. list[last].start <= end
          BY <1>3, <2>1, <2>9, <4>0
        <5> QED BY <1>1, <1>3, <2>6, <4>0, <4>1, <4>3, <5>1 DEF PartBytes
      <4> QED BY <4>1, <4>2, <4>3
    <3>2. ASSUME NEW x, x \in start..(end - 1)
          PROVE  x \in PartBytes(q)
      BY <1>1, <1>3, <2>1, <2>4, <2>6, <3>2 DEF PartBytes
    <3>3. ASSUME NEW x, NEW k \in i..last, x \in PartBytes(list[k])
          PROVE  x \in PartBytes(q)
      <4>1. k \in 1..Len(list) /\ last \in 1..Len(list) /\ (i = k \/ i < k) /\ (k = last \/ k < last)
        BY <1>1, <2>1, <2>4
      <4>2. q.start <= list[k].start
        BY <1>1, <1>3, <2>1, <2>6, <4>1
      <4>3. PartEnd(list[k]) <= PartEnd(q)
        BY <1>1, <1>3, <2>1, <2>6, <4>1, SMTT(30)
      <4>4. x \in Int /\ list[k].start <= x /\ x < PartEnd(list[k])
        BY <1>1, <3>3, <4>1 DEF PartBytes
      <4>5. q.start \in Nat /\ PartEnd(q) \in Nat /\ list[k].start \in Nat /\ PartEnd(list[k]) \in Nat
        BY <1>1, <2>6, <4>1, AreaFacts
      <4>6. q.start <= x /\ x <= PartEnd(q) - 1
        BY ONLY <4>2, <4>3, <4>4, <4>5
      <4> QED BY ONLY <4>4, <4>5, <4>6 DEF PartBytes
    <3>4. i \in i..last /\ last \in i..last
      BY <1>1, <2>1, <2>4
    <3> QED BY <3>1, <3>2, <3>3, <3>4
  <2>14. Bytes(s) = Bytes(list) \cup (start..(end - 1))
    <3>1. \A x : x \in Bytes(s) <=> \/ \E k \in 1..Len(list) : (k < i \/ last < k) /\ x \in PartBytes(list[k])
                                    \/ x \in PartBytes(q)
      BY <2>12 DEF Holds, Kept
    <3>2. \A k \in 1..Len(list) : k < i \/ last < k \/ k \in i..last
      BY <1>1, <2>1, <2>4
    <3>3. \A k \in i..last : k \in 1..Len(list)
      BY <1>1, <2>1, <2>4
    <3>4. \A x : x \in Bytes(list) <=> \E k \in 1..Len(list) : x \in PartBytes(list[k])
      BY BytesOf
    <3> QED BY <2>13, <3>1, <3>2, <3>3, <3>4
  <2>15. LastUpdated(s, tag) # {}
    BY <1>6, <2>1, <2>4, <2>6, <2>7, SpliceOneIn
  <2> QED BY <2>8, <2>12, <2>14, <2>15 DEF Holds
<1>11. CASE ~(i <= Len(list) /\ Touches(list[i], p))
  <2>1. PICK s : s = Spliced(list, i, i - 1, <<p>>)
    OBVIOUS
  <2>2. Added(list, start, end - start, tag) = s
    BY <1>8, <1>11, <2>1
  <2>3. \A k \in 1..Len(list) : i - 1 < k => PartEnd(p) < list[k].start
    <3> SUFFICES ASSUME NEW k \in 1..Len(list), i - 1 < k
                 PROVE  PartEnd(p) < list[k].start
      OBVIOUS
    <3>1. i \in 1..Len(list) /\ (i = k \/ i < k)
      BY <1>1, <1>6
    <3>2. PartEnd(p) < list[i].start
      BY <1>1, <1>5, <1>11, <3>1
    <3> QED BY <1>1, <1>3, <3>1, <3>2
  <2>4. Holds(s, tag, Kept(list, i, i - 1) \cup PartBytes(p))
    <3>1. tag \in Nat /\ i - 1 \in (i - 1)..Len(list) /\ p.tag <= tag
      BY <1>1, <1>3, <1>6
    <3>2. \A k \in 1..Len(list) :
             /\ k < i \/ i - 1 < k => list[k].tag < tag
             /\ k < i => PartEnd(list[k]) < p.start
             /\ i - 1 < k => PartEnd(p) < list[k].start
      BY <1>3, <1>7, <2>3
    <3>3. FitsOne(list, i, i - 1, p, tag)
      BY <1>3, <3>1, <3>2 DEF FitsOne
    <3> QED BY <1>6, <2>1, <3>1, <3>3, SpliceOneOK
  <2>5. Bytes(s) = Bytes(list) \cup (start..(end - 1))
    <3>1. \A x : x \in Bytes(s) <=> \/ \E k \in 1..Len(list) : (k < i \/ i - 1 < k) /\ x \in PartBytes(list[k])
                                    \/ x \in PartBytes(p)
      BY <2>4 DEF Holds, Kept
    <3>2. \A k \in 1..Len(list) : k < i \/ i - 1 < k
      BY <1>1, <1>6
    <3>3. \A x : x \in Bytes(list) <=> \E k \in 1..Len(list) : x \in PartBytes(list[k])
      BY BytesOf
    <3> QED BY <1>9, <3>1, <3>2, <3>3
  <2>6. LastUpdated(s, tag) # {}
    <3>1. i - 1 \in (i - 1)..Len(list)
      BY <1>1, <1>6
    <3> QED BY <1>3, <1>6, <2>1, <3>1, SpliceOneIn
  <2> QED BY <2>2, <2>4, <2>5, <2>6 DEF Holds
<1> QED BY <1>10, <1>11

(* A byte lies in one area at most, and none lies just in front of an area or just behind it. *)
LEMMA RunEnds ==
    ASSUME NEW list, Apart(list), NEW i \in 1..Len(list)
    PROVE  /\ PartBytes(list[i]) \subseteq Bytes(list)
           /\ list[i].start - 1 \notin Bytes(list)
           /\ PartEnd(list[i]) \notin Bytes(list)
           /\ Kept(list, i, i) = Bytes(list) \ PartBytes(list[i])
<1>1. /\ Len(list) \in Nat
      /\ \A k \in 1..Len(list) :
            /\ list[k].start \in Nat /\ PartEnd(list[k]) \in Nat /\ list[k].start < PartEnd(list[k])
      /\ \A j, k \in 1..Len(list) : j < k => PartEnd(list[j]) < list[k].start
  BY ApartFacts
<1>2. \A x : x \in Bytes(list) <=> \E k \in 1..Len(list) : x \in PartBytes(list[k])
  BY BytesOf
<1>3. \A k \in 1..Len(list) : \A x \in PartBytes(list[k]) :
         x \in Int /\ list[k].start <= x /\ x < PartEnd(list[k])
  BY <1>1 DEF PartBytes
<1>4. \A k \in 1..Len(list) : k < i \/ i < k \/ k = i
  BY <1>1
<1>5. \A k \in 1..Len(list) : \A x \in PartBytes(list[k]) :
         k # i => x < list[i].start - 1 \/ PartEnd(list[i]) < x
  <2> TAKE k \in 1..Len(list)
  <2> TAKE x \in PartBytes(list[k])
  <2>1. x \in Int /\ list[k].start <= x /\ x < PartEnd(list[k])
    BY <1>3
  <2>2. CASE k < i
    BY <1>1, <2>1, <2>2
  <2>3. CASE i < k
    BY <1>1, <2>1, <2>3
  <2> QED BY <1>4, <2>2, <2>3
<1>6. PartBytes(list[i]) \subseteq Bytes(list)
  BY <1>2
<1>7. list[i].start - 1 \notin Bytes(list)
  <2> SUFFICES ASSUME NEW k \in 1..Len(list), list[i].start - 1 \in PartBytes(list[k])
               PROVE  FALSE
    BY <1>2
  <2>a. list[i].start \in Nat /\ PartEnd(list[i]) \in Nat /\ list[i].start < PartEnd(list[i])
    BY <1>1
  <2>b. k # i => list[i].start - 1 < list[i].start - 1 \/ PartEnd(list[i]) < list[i].start - 1
    BY ONLY <1>5, list[i].start - 1 \in PartBytes(list[k]), k \in 1..Len(list), Zenon
  <2>1. k = i
    BY ONLY <2>a, <2>b
  <2> QED BY <1>1, <1>3, <2>1, SMTT(30)
<1>8. PartEnd(list[i]) \notin Bytes(list)
  <2> SUFFICES ASSUME NEW k \in 1..Len(list), PartEnd(list[i]) \in PartBytes(list[k])
               PROVE  FALSE
    BY <1>2
  <2>a. list[i].start \in Nat /\ PartEnd(list[i]) \in Nat /\ list[i].start < PartEnd(list[i])
    BY <1>1
  <2>b. k # i => PartEnd(list[i]) < list[i].start - 1 \/ PartEnd(list[i]) < PartEnd(list[i])
    BY ONLY <1>5, PartEnd(list[i]) \in PartBytes(list[k]), k \in 1..Len(list), Zenon
  <2>1. k = i
    BY ONLY <2>a, <2>b
  <2> QED BY <1>1, <1>3, <2>1
<1>9. Kept(list, i, i) = Bytes(list) \ PartBytes(list[i])
  <2>1. \A x : x \in Kept(list, i, i) <=> \E k \in 1..Len(list) : (k < i \/ i < k) /\ x \in PartBytes(list[k])
    BY DEF Kept
  <2>2. \A k \in 1..Len(list) : k < i \/ i < k => \A x \in PartBytes(list[k]) : x \notin PartBytes(list[i])
    <3> SUFFICES ASSUME NEW k \in 1..Len(list), k < i \/ i < k, NEW x \in PartBytes(list[k])
                 PROVE  x \notin PartBytes(list[i])
      OBVIOUS
    <3>1. k # i
      BY <1>1
    <3>2. x < list[i].start - 1 \/ PartEnd(list[i]) < x
      BY ONLY <1>5, <3>1, k \in 1..Len(list), x \in PartBytes(list[k]), Zenon
    <3>3. x \in PartBytes(list[i]) => list[i].start <= x /\ x < PartEnd(list[i])
      BY <1>3
    <3>4. list[i].start \in Nat /\ PartEnd(list[i]) \in Nat /\ x \in Int
      BY <1>1, <1>3
    <3> QED BY ONLY <3>2, <3>3, <3>4
  <2> QED BY <1>2, <1>4, <2>1, <2>2
<1> QED BY <1>6, <1>7, <1>8, <1>9

(***************************************************************************)
(* ClearParts of the first bytes of the last updated area takes exactly    *)
(* them.                                                                   *)
(***************************************************************************)
LEMMA TakenOK ==
    ASSUME NEW list, Apart(list), NEW tag \in Nat, Tagged(list, tag),
           NEW i \in 1..Len(list), list[i].tag = tag, NEW n \in 1..list[i].size
    PROVE  Holds(Cleared(list, list[i].start, n), tag, Bytes(list) \ (list[i].start..(list[i].start + n - 1)))
<1>1. /\ Len(list) \in Nat /\ DOMAIN list = 1..Len(list)
      /\ \A k \in 1..Len(list) :
            /\ list[k] \in Areas /\ list[k].start \in Nat /\ PartEnd(list[k]) \in Nat
            /\ list[k].start < PartEnd(list[k]) /\ PartEnd(list[k]) <= MaxSize
      /\ \A j, k \in 1..Len(list) : j < k => PartEnd(list[j]) < list[k].start
  BY ApartFacts
<1>2. PICK p : p = list[i]
  OBVIOUS
<1>3. PICK start \in Nat : start = p.start
  BY <1>1, <1>2
<1>4. n \in Nat /\ n # 0 /\ start < start + n /\ start + n <= PartEnd(p) /\ start + n \in Nat
      /\ PartEnd(p) \in Nat /\ PartEnd(p) <= MaxSize /\ p.tag = tag /\ tag \in 1..MaxTag
  <2>1. p.size \in Nat /\ PartEnd(p) = start + p.size
    BY <1>1, <1>2, <1>3, AreaFacts
  <2>2. p.tag \in 1..MaxTag /\ p.tag = tag
    BY <1>1, <1>2 DEF Areas
  <2>3. n \in 1..p.size
    BY <1>2
  <2>4. PartEnd(p) \in Nat /\ PartEnd(p) <= MaxSize
    BY <1>1, <1>2
  <2> QED BY <2>1, <2>2, <2>3, <2>4
<1> DEFINE met == {k \in DOMAIN list : start < PartEnd(list[k]) /\ (n # 0 => list[k].start < start + n)}
<1>5. met = {i}
  <2>1. i \in met
    BY <1>1, <1>2, <1>3, <1>4
  <2>2. ASSUME NEW k \in met
        PROVE  k = i
    <3>1. k \in 1..Len(list) /\ start < PartEnd(list[k]) /\ list[k].start < start + n
      BY <1>1, <1>4, <2>2
    <3>2. ~(k < i)
      BY <1>1, <1>2, <1>3, <3>1
    <3>3. ~(i < k)
      <4>1. i < k => PartEnd(p) < list[k].start
        BY <1>1, <1>2, <3>1
      <4> QED BY <1>1, <1>4, <3>1, <4>1
    <3> QED BY <1>1, <3>1, <3>2, <3>3
  <2> QED BY <2>1, <2>2
<1>6. Min(met) = i /\ Max(met) = i
  <2>1. {i} \in SUBSET Int /\ i \in {i} /\ \A y \in {i} : i <= y /\ y <= i
    BY <1>1
  <2>2. Min({i}) = i /\ Max({i}) = i
    BY <2>1, MinIs, MaxIs
  <2> QED BY <1>5, <2>2, Zenon
<1> DEFINE end == start + n
           rest == IF PartEnd(p) <= end THEN <<>> ELSE <<Part(end, PartEnd(p) - end, p.tag)>>
<1>7. Cleared(list, start, n) = Spliced(list, i, i, rest)
  <2> DEFINE front == IF p.start < start THEN <<Part(p.start, start - p.start, p.tag)>> ELSE <<>>
             rear  == IF n = 0 \/ PartEnd(p) <= end THEN <<>>
                      ELSE IF p.start < start THEN <<Part(0, 0, 0)>>
                      ELSE <<Part(end, PartEnd(p) - end, p.tag)>>
  <2>1. Cleared(list, start, n) = IF met = {} THEN list ELSE Spliced(list, Min(met), Max(met), front \o rear)
    BY <1>2, <1>6 DEF Cleared
  <2>2. front = <<>> /\ rear = rest
    BY <1>3, <1>4
  <2>3. <<>> \o rest = rest
    OBVIOUS
  <2>4. met # {}
    BY <1>5
  <2> HIDE DEF met, front, rear, rest
  <2> QED BY <1>6, <2>1, <2>2, <2>3, <2>4, Zenon
<1>8. /\ i \in 1..(Len(list) + 1) /\ i \in (i - 1)..Len(list)
      /\ \A k \in 1..Len(list) : k < i \/ i < k => list[k].tag < tag
  <2>1. \A k \in 1..Len(list) : list[k].tag \in Nat /\ list[k].tag <= tag
    BY ApartFacts DEF Tagged
  <2>2. \A k \in 1..Len(list) : k < i \/ i < k => list[k].tag # tag
    BY <1>1 DEF Tagged
  <2> QED BY <1>1, <2>1, <2>2
<1>9. Kept(list, i, i) = Bytes(list) \ PartBytes(p) /\ PartBytes(p) \subseteq Bytes(list)
  BY <1>2, RunEnds
<1>10. \A x : x \in PartBytes(p) <=> x \in Int /\ start <= x /\ x < PartEnd(p)
  BY <1>3, <1>4 DEF PartBytes
<1>11. CASE PartEnd(p) <= end
  <2>1. Holds(Spliced(list, i, i, <<>>), tag, Kept(list, i, i))
    BY <1>8, SpliceNoneOK
  <2>2. Kept(list, i, i) = Bytes(list) \ (start..(start + n - 1))
    BY <1>4, <1>9, <1>10, <1>11
  <2>3. Cleared(list, start, n) = Spliced(list, i, i, <<>>)
    BY <1>7, <1>11
  <2>4. Holds(Cleared(list, start, n), tag, Bytes(list) \ (start..(start + n - 1)))
    BY <2>1, <2>2, <2>3, Zenon
  <2> QED BY <1>2, <1>3, <2>4, Zenon
<1>12. CASE end < PartEnd(p)
  <2>1. PICK q : q = Part(end, PartEnd(p) - end, p.tag)
    OBVIOUS
  <2>2. q \in Areas /\ q.tag = tag /\ q.start = end /\ PartEnd(q) = PartEnd(p)
    BY <1>4, <1>12, <2>1, AreaOf
  <2>3. FitsOne(list, i, i, q, tag)
    <3>1. \A k \in 1..Len(list) : k < i => PartEnd(list[k]) < q.start
      BY <1>1, <1>2, <1>3, <1>4, <2>2
    <3>2. \A k \in 1..Len(list) : i < k => PartEnd(q) < list[k].start
      BY <1>1, <1>2, <2>2
    <3> QED BY <1>8, <2>2, <3>1, <3>2 DEF FitsOne
  <2>4. Holds(Spliced(list, i, i, <<q>>), tag, Kept(list, i, i) \cup PartBytes(q))
    BY <1>8, <2>3, SpliceOneOK
  <2>5. Kept(list, i, i) \cup PartBytes(q) = Bytes(list) \ (start..(start + n - 1))
    <3>1. \A x : x \in PartBytes(q) <=> x \in Int /\ end <= x /\ x < PartEnd(p)
      BY <1>4, <2>2 DEF PartBytes
    <3> QED BY <1>4, <1>9, <1>10, <3>1
  <2>6. Cleared(list, start, n) = Spliced(list, i, i, <<q>>)
    BY <1>4, <1>7, <1>12, <2>1
  <2>7. Holds(Cleared(list, start, n), tag, Bytes(list) \ (start..(start + n - 1)))
    BY <2>4, <2>5, <2>6, Zenon
  <2> QED BY <1>2, <1>3, <2>7, Zenon
<1> QED BY <1>4, <1>11, <1>12

(* ClearParts(0, 0) takes everything. *)
LEMMA ClearedAllOK ==
    ASSUME NEW list, Apart(list), NEW tag \in Nat, Tagged(list, tag)
    PROVE  Holds(Cleared(list, 0, 0), tag, {})
<1>1. /\ Len(list) \in Nat /\ DOMAIN list = 1..Len(list)
      /\ \A k \in 1..Len(list) :
            /\ list[k].start \in Nat /\ PartEnd(list[k]) \in Nat /\ list[k].start < PartEnd(list[k])
  BY ApartFacts
<1> DEFINE met == {k \in DOMAIN list : 0 < PartEnd(list[k]) /\ (0 # 0 => list[k].start < 0 + 0)}
<1>2. met = 1..Len(list)
  BY <1>1
<1>3. CASE Len(list) = 0
  <2>1. Cleared(list, 0, 0) = list
    BY <1>1, <1>2, <1>3 DEF Cleared
  <2>2. Bytes(list) = {}
    BY <1>1, <1>3 DEF Bytes
  <2> QED BY <2>1, <2>2 DEF Holds
<1>4. CASE Len(list) > 0
  <2>1. Min(met) = 1 /\ Max(met) = Len(list)
    <3>1. /\ 1..Len(list) \in SUBSET Int /\ 1 \in 1..Len(list) /\ Len(list) \in 1..Len(list)
          /\ \A y \in 1..Len(list) : 1 <= y /\ y <= Len(list)
      BY <1>1, <1>4
    <3>2. Min(1..Len(list)) = 1 /\ Max(1..Len(list)) = Len(list)
      BY <3>1, MinIs, MaxIs
    <3> QED BY <1>2, <3>2, Zenon
  <2>2. Cleared(list, 0, 0) = Spliced(list, 1, Len(list), <<>>)
    <3> DEFINE front == IF list[1].start < 0 THEN <<Part(list[1].start, 0 - list[1].start, list[1].tag)>> ELSE <<>>
    <3>1. met # {} /\ 1 \in 1..Len(list)
      BY <1>1, <1>2, <1>4
    <3>2. Cleared(list, 0, 0) = Spliced(list, 1, Len(list), front \o <<>>)
      <4>1. Cleared(list, 0, 0) = IF met = {} THEN list ELSE Spliced(list, Min(met), Max(met),
               (IF list[Min(met)].start < 0
                THEN <<Part(list[Min(met)].start, 0 - list[Min(met)].start, list[Min(met)].tag)>> ELSE <<>>) \o <<>>)
        BY DEF Cleared
      <4> HIDE DEF met
      <4> QED BY <2>1, <3>1, <4>1, Zenon
    <3>3. front = <<>>
      BY <1>1, <3>1
    <3>4. <<>> \o <<>> = <<>>
      OBVIOUS
    <3> HIDE DEF front
    <3> QED BY <3>2, <3>3, <3>4, Zenon
  <2>3. Holds(Spliced(list, 1, Len(list), <<>>), tag, Kept(list, 1, Len(list)))
    <3>1. /\ 1 \in 1..(Len(list) + 1) /\ Len(list) \in (1 - 1)..Len(list)
          /\ \A k \in 1..Len(list) : ~(k < 1 \/ Len(list) < k)
      BY <1>1
    <3>2. \A k \in 1..Len(list) : k < 1 \/ Len(list) < k => list[k].tag < tag
      BY <3>1
    <3> QED BY <3>1, <3>2, SpliceNoneOK
  <2>4. Kept(list, 1, Len(list)) = {}
    <3>1. {k \in 1..Len(list) : k < 1 \/ Len(list) < k} = {}
      BY <1>1
    <3> QED BY <3>1 DEF Kept
  <2> QED BY <2>2, <2>3, <2>4, Zenon
<1> QED BY <1>1, <1>3, <1>4

-----------------------------------------------------------------------------
(* Whole blocks. *)
LEMMA DivBounds ==
    ASSUME NEW x \in Int, NEW m \in Nat \ {0}
    PROVE  x \div m \in Int /\ (x \div m) * m <= x /\ x < (x \div m) * m + m
OBVIOUS

LEMMA TimesLess ==
    ASSUME NEW x \in Int, NEW y \in Int, NEW m \in Nat \ {0}, x * m < y * m
    PROVE  x < y
OBVIOUS

LEMMA TimesMono ==
    ASSUME NEW x \in Int, NEW y \in Int, NEW m \in Nat \ {0}, x <= y
    PROVE  x * m <= y * m
OBVIOUS

LEMMA TimesNext ==
    ASSUME NEW x \in Int, NEW m \in Nat \ {0}
    PROVE  (x + 1) * m = x * m + m
OBVIOUS

LEMMA TimesPlus ==
    ASSUME NEW x \in Int, NEW y \in Int, NEW m \in Nat \ {0}
    PROVE  (x + y) * m = x * m + y * m
OBVIOUS

(* UploadBoundaryLastUntreatedArea takes the blocks a to b - 1 of the area, all that lie in it. *)
LEMMA AlignedIs ==
    ASSUME NEW p \in Areas, Aligned(p).size > 0
    PROVE  \E a, b \in Nat :
              /\ Aligned(p).start = a * max_mp_size
              /\ Aligned(p).start + Aligned(p).size = b * max_mp_size
              /\ Aligned(p).start \in Nat /\ Aligned(p).start + Aligned(p).size \in Nat
              /\ p.start <= a * max_mp_size /\ a * max_mp_size < p.start + max_mp_size
              /\ b * max_mp_size <= PartEnd(p) /\ PartEnd(p) < b * max_mp_size + max_mp_size
              /\ a * max_mp_size < b * max_mp_size
<1> PICK m \in Nat \ {0} : m = max_mp_size
  BY UntreatedPartsAssumption
<1>1. PICK x \in Nat : x = p.start
  BY AreaFacts
<1>2. PICK y \in Nat : y = PartEnd(p)
  BY AreaFacts
<1>3. PICK a \in Int : a = (x + m - 1) \div m
  <2>1. x + m - 1 \in Int
    OBVIOUS
  <2> QED BY <2>1, DivBounds
<1>4. PICK start \in Int : start = a * m
  OBVIOUS
<1>5. PICK n \in Int : n = (y - start) \div m
  <2>1. y - start \in Int
    OBVIOUS
  <2> QED BY <2>1, DivBounds
<1>6. Aligned(p).start = start /\ Aligned(p).size = IF y <= start THEN 0 ELSE n * m
  BY <1>1, <1>2, <1>3, <1>4, <1>5 DEF Aligned
<1>7. /\ ~(y <= start) /\ Aligned(p).size = n * m /\ 0 * m < n * m
  <2>1. ~(y <= start)
    BY <1>6
  <2>2. 0 * m = 0
    OBVIOUS
  <2> QED BY <1>6, <2>1, <2>2
<1>8. x <= start /\ start < x + m
  <2>1. x + m - 1 \in Int /\ start \in Int
    OBVIOUS
  <2>2. start <= x + m - 1 /\ x + m - 1 < start + m
    BY <1>3, <1>4, <2>1, DivBounds
  <2> QED BY <2>1, <2>2
<1>9. n > 0
  BY <1>7, TimesLess
<1>10. n * m <= y - start /\ y - start < n * m + m
  <2>1. y - start \in Int
    OBVIOUS
  <2> QED BY <1>5, <2>1, DivBounds
<1>11. PICK b \in Int : b = a + n
  OBVIOUS
<1>12. b * m = start + n * m
  BY <1>4, <1>11, TimesPlus
<1>13. n * m \in Int
  OBVIOUS
<1>14. a >= 0
  <2>1. 0 <= a \/ a + 1 <= 0
    OBVIOUS
  <2>2. a + 1 <= 0 => start + m <= 0
    <3>1. (a + 1) * m = a * m + m /\ 0 * m = 0
      BY TimesNext
    <3> QED BY <1>4, <3>1, TimesMono
  <2>3. start + m > 0
    BY <1>8
  <2> QED BY <2>1, <2>2, <2>3
<1>15. a \in Nat /\ b \in Nat
  BY <1>9, <1>11, <1>14
<1>16. b * m <= y /\ y < b * m + m /\ a * m < b * m /\ start \in Nat /\ start + n * m \in Nat
  <2>1. n * m > 0
    BY <1>7
  <2>2. b * m <= y /\ y < b * m + m
    BY ONLY <1>10, <1>12, <1>13, start \in Int, y \in Nat, m \in Nat \ {0}
  <2>3. a * m < b * m
    BY ONLY <1>4, <1>12, <1>13, <2>1, start \in Int
  <2>4. start \in Nat /\ start + n * m \in Nat
    BY ONLY <1>8, <1>13, <2>1, start \in Int, x \in Nat
  <2> QED BY <2>2, <2>3, <2>4
<1>17. /\ Aligned(p).start = a * m
       /\ Aligned(p).start + Aligned(p).size = b * m
       /\ Aligned(p).start \in Nat /\ Aligned(p).start + Aligned(p).size \in Nat
       /\ p.start <= a * m /\ a * m < p.start + m
       /\ b * m <= PartEnd(p) /\ PartEnd(p) < b * m + m
       /\ a * m < b * m
  <2>1. Aligned(p).start = start /\ Aligned(p).size = n * m
    BY <1>6, <1>7
  <2> QED BY ONLY <2>1, <1>1, <1>2, <1>4, <1>8, <1>12, <1>16
<1> QED BY <1>15, <1>17

(* The blocks that lie in from..to are the blocks a to b - 1. *)
LEMMA BlocksIn ==
    ASSUME NEW from \in Nat, NEW end \in Nat, end <= MaxSize, NEW a \in Nat, NEW b \in Nat,
           from <= a * max_mp_size, a * max_mp_size < from + max_mp_size,
           b * max_mp_size <= end, end < b * max_mp_size + max_mp_size
    PROVE  UNION {AsBytes!Block(n) : n \in {k \in 0..MaxSize : AsBytes!Block(k) \subseteq from..(end - 1)}}
              = (a * max_mp_size)..(b * max_mp_size - 1)
<1> PICK m \in Nat \ {0} : m = max_mp_size
  BY UntreatedPartsAssumption
<1> DEFINE In(k) == AsBytes!Block(k) \subseteq from..(end - 1)
<1>0. /\ from <= a * m /\ a * m < from + m /\ b * m <= end /\ end < b * m + m
      /\ a * m \in Int /\ b * m \in Int
  OBVIOUS
<1>1. \A k \in Nat : /\ AsBytes!Block(k) = (k * m)..(k * m + m - 1)
                     /\ k * m \in Nat /\ (k + 1) * m = k * m + m
  <2> TAKE k \in Nat
  <2>1. (k + 1) * m = k * m + m
    BY TimesNext
  <2>2. k * m \in Nat
    <3>1. 0 * m <= k * m /\ 0 * m = 0 /\ k * m \in Int
      BY TimesMono
    <3> QED BY <3>1
  <2>3. AsBytes!Block(k) = (k * m)..((k + 1) * m - 1)
    BY DEF AsBytes!Block
  <2> QED BY <2>1, <2>2, <2>3
<1>2. \A k \in Nat : In(k) <=> a <= k /\ k < b
  <2> TAKE k \in Nat
  <2>1. PICK f \in Nat : f = k * m
    BY <1>1
  <2>2. AsBytes!Block(k) = f..(f + m - 1) /\ (k + 1) * m = f + m
    BY <1>1, <2>1
  <2>3. ASSUME In(k)
        PROVE  a <= k /\ k < b
    <3>1. f \in f..(f + m - 1) /\ f + m - 1 \in f..(f + m - 1)
      OBVIOUS
    <3>2. f \in from..(end - 1) /\ f + m - 1 \in from..(end - 1)
      BY <2>2, <2>3, <3>1
    <3>3. from <= f /\ f + m <= end
      BY <3>2
    <3>4. a < k + 1
      <4>1. a * m < (k + 1) * m
        BY <1>0, <2>2, <3>3
      <4>2. k + 1 \in Int /\ a \in Int
        OBVIOUS
      <4> QED BY <4>1, <4>2, TimesLess
    <3>5. k < b
      <4>1. k * m < b * m
        BY <1>0, <2>1, <3>3
      <4> QED BY <4>1, TimesLess
    <3> QED BY <3>4, <3>5
  <2>4. ASSUME a <= k, k < b
        PROVE  In(k)
    <3>1. a * m <= f
      BY <2>1, <2>4, TimesMono
    <3>2. f + m <= b * m
      <4>1. k + 1 <= b /\ k + 1 \in Int
        BY <2>4
      <4>2. (k + 1) * m <= b * m
        BY <4>1, TimesMono
      <4> QED BY <2>2, <4>2
    <3>3. from <= f /\ f + m <= end
      BY <1>0, <3>1, <3>2
    <3> QED BY <2>2, <3>3
  <2> QED BY <2>3, <2>4
<1>3. \A k \in Nat : k < b => k \in 0..MaxSize
  <2> SUFFICES ASSUME NEW k \in Nat, k < b
               PROVE  k <= MaxSize
    BY UntreatedPartsAssumption
  <2>1. b <= b * m
    OBVIOUS
  <2> QED BY <1>0, <2>1, UntreatedPartsAssumption
<1> DEFINE whole == {k \in 0..MaxSize : In(k)}
<1>4. \A k : k \in whole <=> k \in Nat /\ a <= k /\ k < b
  <2>1. \A k \in 0..MaxSize : k \in Nat
    BY UntreatedPartsAssumption
  <2> HIDE DEF In
  <2> QED BY <1>2, <1>3, <2>1
<1>5. ASSUME NEW k \in whole, NEW x \in AsBytes!Block(k)
      PROVE  x \in (a * m)..(b * m - 1)
  <2>1. k \in Nat /\ a <= k /\ k < b
    BY <1>4
  <2>2. PICK f \in Nat : f = k * m
    BY <1>1, <2>1
  <2>3. x \in f..(f + m - 1) /\ (k + 1) * m = f + m
    BY <1>1, <2>1, <2>2
  <2>4. a * m <= f
    BY <2>1, <2>2, TimesMono
  <2>5. f + m <= b * m
    <3>1. k + 1 <= b /\ k + 1 \in Int
      BY <2>1
    <3>2. (k + 1) * m <= b * m
      BY <3>1, TimesMono
    <3> QED BY <2>3, <3>2
  <2> QED BY <1>0, <2>3, <2>4, <2>5
<1>6. ASSUME NEW x \in (a * m)..(b * m - 1)
      PROVE  \E k \in whole : x \in AsBytes!Block(k)
  <2>1. x \in Int /\ a * m <= x /\ x < b * m
    BY <1>0
  <2>2. PICK k \in Int : k = x \div m
    BY <2>1, DivBounds
  <2>3. k * m <= x /\ x < k * m + m
    BY <2>1, <2>2, DivBounds
  <2>4. k * m \in Int
    OBVIOUS
  <2>5. a < k + 1
    <3>1. (k + 1) * m = k * m + m
      BY TimesNext
    <3>2. a * m < (k + 1) * m /\ k + 1 \in Int
      BY <1>0, <2>1, <2>3, <2>4, <3>1
    <3> QED BY <3>2, TimesLess
  <2>6. k < b
    <3>1. k * m < b * m
      BY <1>0, <2>1, <2>3, <2>4
    <3> QED BY <3>1, TimesLess
  <2>7. k \in Nat /\ k \in whole
    BY <1>4, <2>5, <2>6
  <2>8. AsBytes!Block(k) = (k * m)..(k * m + m - 1)
    BY <1>1, <2>7
  <2>9. x \in AsBytes!Block(k)
    BY <2>1, <2>3, <2>4, <2>8
  <2> QED BY <2>7, <2>9
<1>7. UNION {AsBytes!Block(n) : n \in whole} = (a * m)..(b * m - 1)
  <2> HIDE DEF whole
  <2> QED BY <1>5, <1>6
<1> QED BY <1>7

-----------------------------------------------------------------------------
(* The last updated area, when there is one. *)
LEMMA LastIs ==
    ASSUME NEW list, Apart(list), NEW tag, LastUpdated(list, tag) # {}
    PROVE  LastUpdatePart(list, tag) \in 1..Len(list) /\ list[LastUpdatePart(list, tag)].tag = tag
BY ApartFacts DEF LastUpdatePart, LastUpdated

(***************************************************************************)
(* ReplaceLastUpdateUntreatedPart leaves the remainders of the area: what  *)
(* goes are the blocks.                                                    *)
(***************************************************************************)
LEMMA ReplacedOK ==
    ASSUME NEW list, Apart(list), NEW tag \in Nat, tag < MaxTag, Tagged(list, tag),
           LastUpdated(list, tag) # {}, NEW i, i = LastUpdatePart(list, tag),
           Aligned(list[i]).size > 0,
           NEW from, from = Aligned(list[i]).start,
           NEW rear, rear = Aligned(list[i]).start + Aligned(list[i]).size
    PROVE  LET new == Replaced(list, tag)
           IN  /\ new.tag \in Nat /\ new.tag <= MaxTag
               /\ Holds(new.list, new.tag, Bytes(list) \ (from..(rear - 1)))
<1>1. i \in 1..Len(list) /\ list[i].tag = tag
  BY LastIs
<1>2. /\ Len(list) \in Nat
      /\ \A k \in 1..Len(list) :
            /\ list[k] \in Areas /\ list[k].start \in Nat /\ PartEnd(list[k]) \in Nat
            /\ list[k].start < PartEnd(list[k]) /\ PartEnd(list[k]) <= MaxSize
      /\ \A j, k \in 1..Len(list) : j < k => PartEnd(list[j]) < list[k].start
  BY ApartFacts
<1>3. PICK p : p = list[i]
  OBVIOUS
<1>4. p \in Areas /\ p.tag = tag /\ tag \in 1..MaxTag /\ tag + 1 \in 1..MaxTag
  <2>1. p \in Areas /\ p.tag = tag
    BY <1>1, <1>2, <1>3
  <2>2. tag \in 1..MaxTag
    BY <2>1 DEF Areas
  <2> QED BY <2>1, <2>2, UntreatedPartsAssumption
<1>5. /\ from \in Nat /\ rear \in Nat /\ p.start <= from /\ from < rear /\ rear <= PartEnd(p)
  <2>1. PICK a, b \in Nat :
           /\ Aligned(p).start = a * max_mp_size
           /\ Aligned(p).start + Aligned(p).size = b * max_mp_size
           /\ Aligned(p).start \in Nat /\ Aligned(p).start + Aligned(p).size \in Nat
           /\ p.start <= a * max_mp_size /\ a * max_mp_size < p.start + max_mp_size
           /\ b * max_mp_size <= PartEnd(p) /\ PartEnd(p) < b * max_mp_size + max_mp_size
           /\ a * max_mp_size < b * max_mp_size
    BY <1>3, <1>4, AlignedIs
  <2>2. from = a * max_mp_size /\ rear = b * max_mp_size
    BY <1>3, <2>1, Zenon
  <2> QED BY <1>3, <2>1, <2>2
<1>6. PICK start \in Nat : start = p.start
  BY <1>4, AreaFacts
<1>7. PICK end \in Nat : end = PartEnd(p)
  BY <1>4, AreaFacts
<1>8. end <= MaxSize /\ start <= from /\ from < rear /\ rear <= end
  BY <1>4, <1>5, <1>6, <1>7, AreaFacts
<1> DEFINE kept == Spliced(list, i, i, IF from - start > 0 THEN <<Part(start, from - start, tag)>> ELSE <<>>)
<1>9. Replaced(list, tag) = IF rear < end
                            THEN [list |-> Added(kept, rear, end - rear, tag + 1), tag |-> tag + 1]
                            ELSE [list |-> kept, tag |-> tag]
  <2> DEFINE blocks == Aligned(p)
             front == blocks.start - p.start
             behind == blocks.start + blocks.size
             stay == Spliced(list, i, i, IF front > 0 THEN <<Part(p.start, front, tag)>> ELSE <<>>)
  <2>1. Replaced(list, tag) = IF behind < PartEnd(p)
                              THEN [list |-> Added(stay, behind, PartEnd(p) - behind, tag + 1), tag |-> tag + 1]
                              ELSE [list |-> stay, tag |-> tag]
    BY <1>3, Zenon DEF Replaced
  <2>2. front = from - start /\ behind = rear
    BY <1>3, <1>6, Zenon
  <2> QED BY <1>6, <1>7, <2>1, <2>2, Zenon
<1>10. /\ i \in 1..(Len(list) + 1) /\ i \in (i - 1)..Len(list)
       /\ \A k \in 1..Len(list) : k < i \/ i < k => list[k].tag < tag
  <2>1. \A k \in 1..Len(list) : list[k].tag \in Nat /\ list[k].tag <= tag
    BY ApartFacts DEF Tagged
  <2>2. \A k \in 1..Len(list) : k < i \/ i < k => list[k].tag # tag
    BY <1>1, <1>2 DEF Tagged
  <2> QED BY <1>1, <1>2, <2>1, <2>2
<1>11. Kept(list, i, i) = Bytes(list) \ PartBytes(p) /\ PartBytes(p) \subseteq Bytes(list)
  BY <1>1, <1>3, RunEnds
<1>12. \A x : x \in PartBytes(p) <=> x \in Int /\ start <= x /\ x < end
  BY <1>6, <1>7 DEF PartBytes
<1>13. Holds(kept, tag, Bytes(list) \ (from..(end - 1)))
  <2>1. CASE from - start > 0
    <3>1. PICK q : q = Part(start, from - start, tag)
      OBVIOUS
    <3>2. q \in Areas /\ q.tag = tag /\ q.start = start /\ PartEnd(q) = from
      <4>1. start < from /\ from <= MaxSize
        BY <1>4, <1>5, <1>8, <2>1, UntreatedPartsAssumption
      <4> QED BY <1>4, <1>5, <3>1, <4>1, AreaOf
    <3>3. FitsOne(list, i, i, q, tag)
      <4>1. \A k \in 1..Len(list) : k < i => PartEnd(list[k]) < q.start
        BY <1>1, <1>2, <1>3, <1>6, <3>2
      <4>2. \A k \in 1..Len(list) : i < k => PartEnd(q) < list[k].start
        <5> SUFFICES ASSUME NEW k \in 1..Len(list), i < k
                     PROVE  from < list[k].start
          BY <3>2
        <5>1. end < list[k].start /\ list[k].start \in Nat
          BY <1>1, <1>2, <1>3, <1>7
        <5> QED BY <1>5, <1>8, <5>1
      <4> QED BY <1>10, <3>2, <4>1, <4>2 DEF FitsOne
    <3>4. Holds(Spliced(list, i, i, <<q>>), tag, Kept(list, i, i) \cup PartBytes(q))
      BY <1>10, <3>3, SpliceOneOK
    <3>5. Kept(list, i, i) \cup PartBytes(q) = Bytes(list) \ (from..(end - 1))
      <4>1. \A x : x \in PartBytes(q) <=> x \in Int /\ start <= x /\ x < from
        BY <1>5, <3>2 DEF PartBytes
      <4> QED BY <1>5, <1>8, <1>11, <1>12, <4>1
    <3>6. kept = Spliced(list, i, i, <<q>>)
      BY <2>1, <3>1
    <3> QED BY <3>4, <3>5, <3>6, Zenon
  <2>2. CASE ~(from - start > 0)
    <3>1. from = start
      BY <1>5, <1>8, <2>2
    <3>2. Holds(Spliced(list, i, i, <<>>), tag, Kept(list, i, i))
      BY <1>10, SpliceNoneOK
    <3>3. Kept(list, i, i) = Bytes(list) \ (from..(end - 1))
      BY <1>11, <1>12, <3>1
    <3>4. kept = Spliced(list, i, i, <<>>)
      BY <2>2
    <3> QED BY <3>2, <3>3, <3>4, Zenon
  <2> QED BY <2>1, <2>2
<1>14. CASE rear < end
  <2>1. PICK old : old = kept
    OBVIOUS
  <2>2. Apart(old) /\ Tagged(old, tag) /\ Bytes(old) = Bytes(list) \ (from..(end - 1))
    BY <1>13, <2>1 DEF Holds
  <2>3. \A k \in 1..Len(old) : old[k].tag < tag + 1
    <3>1. \A k \in 1..Len(old) : old[k].tag \in Nat /\ old[k].tag <= tag
      BY <2>2, ApartFacts DEF Tagged
    <3> QED BY <3>1
  <2>4. Holds(Added(old, rear, end - rear, tag + 1), tag + 1, Bytes(old) \cup (rear..(end - 1)))
    <3>1. PICK t \in 1..MaxTag : t = tag + 1
      BY <1>4
    <3>2. \A k \in 1..Len(old) : old[k].tag < t
      BY <2>3, <3>1
    <3>3. Holds(Added(old, rear, end - rear, t), t, Bytes(old) \cup (rear..(end - 1)))
      BY <1>5, <1>8, <1>14, <2>2, <3>2, AddedOK
    <3> QED BY <3>1, <3>3, Zenon
  <2>5. Bytes(old) \cup (rear..(end - 1)) = Bytes(list) \ (from..(rear - 1))
    BY <1>5, <1>8, <1>11, <1>12, <2>2
  <2>6. Replaced(list, tag) = [list |-> Added(old, rear, end - rear, tag + 1), tag |-> tag + 1]
    BY <1>9, <1>14, <2>1
  <2> HIDE DEF kept
  <2>7. PICK l : l = Added(old, rear, end - rear, tag + 1)
    OBVIOUS
  <2>8. Replaced(list, tag).list = l /\ Replaced(list, tag).tag = tag + 1
    BY <2>6, <2>7
  <2>9. Holds(l, tag + 1, Bytes(list) \ (from..(rear - 1)))
    BY <2>4, <2>5, <2>7, Zenon
  <2>10. tag + 1 \in Nat /\ tag + 1 <= MaxTag
    BY <1>4
  <2> QED BY <2>8, <2>9, <2>10, Zenon
<1>15. CASE ~(rear < end)
  <2>1. rear = end
    BY <1>5, <1>8, <1>15
  <2>2. Replaced(list, tag) = [list |-> kept, tag |-> tag]
    BY <1>9, <1>15
  <2> HIDE DEF kept
  <2>3. Replaced(list, tag).list = kept /\ Replaced(list, tag).tag = tag
    BY <2>2
  <2>4. tag \in Nat /\ tag <= MaxTag
    BY <1>4
  <2> QED BY <1>13, <2>1, <2>3, <2>4, Zenon
<1> QED BY <1>14, <1>15

-----------------------------------------------------------------------------
(* What each operation does with the set of bytes. *)
LEMMA AddStep ==
    ASSUME AreasInv, NEW start \in 0..MaxSize, NEW size \in 0..MaxSize, AddPart(start, size)
    PROVE  AreasInv' /\ AsBytes!Next
<1>1. /\ last_tag \in Nat /\ last_tag < MaxTag /\ last_tag' = last_tag + 1 /\ last_tag' \in 1..MaxTag
      /\ start \in Nat /\ size \in Nat /\ size > 0 /\ start + size <= MaxSize
      /\ untreated_list' = Added(untreated_list, start, size, last_tag')
  BY UntreatedPartsAssumption DEF AreasInv, AddPart
<1>2. PICK list : list = untreated_list
  OBVIOUS
<1>3. PICK tag \in 1..MaxTag : tag = last_tag'
  BY <1>1
<1>4. PICK end \in Nat : end = start + size
  BY <1>1
<1>5. start < end /\ end <= MaxSize /\ size = end - start
  BY <1>1, <1>4
<1>6. Apart(list) /\ \A k \in 1..Len(list) : list[k].tag < tag
  <2>1. Apart(list) /\ Tagged(list, last_tag)
    BY <1>2 DEF AreasInv
  <2>2. \A k \in 1..Len(list) : list[k].tag \in Nat /\ list[k].tag <= last_tag
    BY <2>1, ApartFacts DEF Tagged
  <2> QED BY <1>1, <1>3, <2>1, <2>2
<1>7. Holds(Added(list, start, end - start, tag), tag, Bytes(list) \cup (start..(end - 1)))
  BY <1>1, <1>5, <1>6, AddedOK
<1>8. Holds(untreated_list', last_tag', Bytes(untreated_list) \cup (start..(end - 1)))
  BY <1>1, <1>2, <1>3, <1>5, <1>7, Zenon
<1>9. AreasInv'
  <2>1. last_tag' \in 0..MaxTag
    BY <1>1
  <2> QED BY <1>8, <2>1, Zenon DEF AreasInv, Holds
<1>10. AsBytes!Add(start, end - 1)
  BY <1>8, Zenon DEF AsBytes!Add, Holds
<1>11. end - 1 \in start..MaxSize
  BY <1>1, <1>5, UntreatedPartsAssumption
<1> QED BY <1>9, <1>10, <1>11 DEF AsBytes!Next

LEMMA ClearUploadedStep ==
    ASSUME AreasInv, NEW min_size \in {0, MIN_MULTIPART_SIZE}, ClearUploaded(min_size)
    PROVE  AreasInv' /\ AsBytes!Next
<1>1. PICK list : list = untreated_list
  OBVIOUS
<1>2. PICK tag : tag = last_tag
  OBVIOUS
<1>3. tag \in Nat /\ tag \in 0..MaxTag /\ Apart(list) /\ Tagged(list, tag)
  BY <1>1, <1>2, UntreatedPartsAssumption DEF AreasInv
<1> DEFINE got == GetLastUpdatedPart(list, tag, max_mp_size, min_size)
<1>4. got # <<>> /\ untreated_list' = Cleared(list, got[1].start, got[1].size) /\ last_tag' = tag
  BY <1>1, <1>2 DEF ClearUploaded
<1>5. LastUpdated(list, tag) # {}
  BY <1>4 DEF GetLastUpdatedPart
<1>6. PICK i : i = LastUpdatePart(list, tag)
  OBVIOUS
<1>7. i \in 1..Len(list) /\ list[i].tag = tag
  BY <1>3, <1>5, <1>6, LastIs
<1>8. PICK p : p = list[i]
  OBVIOUS
<1>9. PICK n : n = IF p.size <= max_mp_size THEN p.size ELSE max_mp_size
  OBVIOUS
<1>10. got = <<[start |-> p.start, size |-> n]>>
  BY <1>4, <1>5, <1>6, <1>8, <1>9 DEF GetLastUpdatedPart
<1>11. got[1].start = p.start /\ got[1].size = n
  <2> HIDE DEF got
  <2> QED BY <1>10
<1>12. p \in Areas /\ p.start \in Nat /\ p.size \in Nat /\ p.size > 0 /\ PartEnd(p) = p.start + p.size
       /\ PartEnd(p) <= MaxSize /\ n \in 1..p.size /\ n <= max_mp_size
  <2>1. p \in Areas
    BY <1>3, <1>7, <1>8, ApartFacts
  <2>2. p.start \in Nat /\ p.size \in Nat /\ p.size > 0 /\ PartEnd(p) = p.start + p.size /\ PartEnd(p) <= MaxSize
    BY <2>1, AreaFacts
  <2> QED BY <1>9, <2>1, <2>2, UntreatedPartsAssumption
<1>13. Holds(Cleared(list, p.start, n), tag, Bytes(list) \ (p.start..(p.start + n - 1)))
  <2>1. n \in 1..list[i].size
    BY <1>8, <1>12
  <2>2. Holds(Cleared(list, list[i].start, n), tag, Bytes(list) \ (list[i].start..(list[i].start + n - 1)))
    BY <1>3, <1>7, <2>1, TakenOK
  <2> QED BY <1>8, <2>2, Zenon
<1> HIDE DEF got
<1>14. Holds(untreated_list', last_tag', Bytes(untreated_list) \ (p.start..(p.start + n - 1)))
  BY <1>1, <1>4, <1>11, <1>13, Zenon
<1>15. AreasInv'
  BY <1>2, <1>3, <1>4, <1>14, Zenon DEF AreasInv, Holds
<1>16. PICK from \in Nat : from = p.start
  BY <1>12
<1>17. PICK to \in Nat : to = from + n - 1
  BY <1>12, <1>16
<1>18. from \in 0..MaxSize /\ to \in from..MaxSize
  BY <1>12, <1>16, <1>17, UntreatedPartsAssumption
<1>19. AsBytes!TakeRun(from, to)
  <2>1. PartBytes(p) \subseteq Bytes(untreated_list) /\ p.start - 1 \notin Bytes(untreated_list)
        /\ PartEnd(p) \notin Bytes(untreated_list)
    BY <1>1, <1>3, <1>7, <1>8, RunEnds
  <2>2. from..to \subseteq Bytes(untreated_list)
    <3>1. from..to \subseteq PartBytes(p)
      BY <1>12, <1>16, <1>17 DEF PartBytes
    <3> QED BY <2>1, <3>1
  <2>3. from - 1 \notin Bytes(untreated_list)
    BY <1>16, <2>1
  <2>4. to - from < max_mp_size
    BY <1>12, <1>16, <1>17, UntreatedPartsAssumption
  <2>5. to - from + 1 = max_mp_size \/ to + 1 \notin Bytes(untreated_list)
    <3>1. CASE n = max_mp_size
      BY <1>12, <1>16, <1>17, <3>1
    <3>2. CASE n = p.size
      <4>1. to + 1 = PartEnd(p)
        BY <1>12, <1>16, <1>17, <3>2
      <4> QED BY <2>1, <4>1
    <3> QED BY <1>9, <3>1, <3>2
  <2>6. Bytes(untreated_list)' = Bytes(untreated_list) \ (from..to)
    BY <1>14, <1>16, <1>17 DEF Holds
  <2> QED BY <2>2, <2>3, <2>4, <2>5, <2>6 DEF AsBytes!TakeRun
<1> QED BY <1>15, <1>18, <1>19 DEF AsBytes!Next

LEMMA ReplaceUploadedStep ==
    ASSUME AreasInv, ReplaceUploaded
    PROVE  AreasInv' /\ AsBytes!Next
<1>1. PICK list : list = untreated_list
  OBVIOUS
<1>2. PICK tag : tag = last_tag
  OBVIOUS
<1>3. tag \in Nat /\ tag \in 0..MaxTag /\ Apart(list) /\ Tagged(list, tag)
  BY <1>1, <1>2, UntreatedPartsAssumption DEF AreasInv
<1>4. PICK i : i = LastUpdatePart(list, tag)
  OBVIOUS
<1>5. PICK p : p = list[i]
  OBVIOUS
<1>6. /\ tag < MaxTag /\ LastUpdated(list, tag) # {} /\ Aligned(p).size > 0
      /\ untreated_list' = Replaced(list, tag).list /\ last_tag' = Replaced(list, tag).tag
  BY <1>1, <1>2, <1>4, <1>5 DEF ReplaceUploaded
<1>7. i \in 1..Len(list) /\ p \in Areas
  <2>1. i \in 1..Len(list)
    BY <1>3, <1>4, <1>6, LastIs
  <2> QED BY <1>3, <1>5, <2>1, ApartFacts
<1>8. PICK from : from = Aligned(p).start
  OBVIOUS
<1>9. PICK rear : rear = Aligned(p).start + Aligned(p).size
  OBVIOUS
<1>10. /\ Replaced(list, tag).tag \in Nat /\ Replaced(list, tag).tag <= MaxTag
       /\ Holds(Replaced(list, tag).list, Replaced(list, tag).tag, Bytes(list) \ (from..(rear - 1)))
  BY <1>3, <1>4, <1>5, <1>6, <1>8, <1>9, ReplacedOK
<1>11. Holds(untreated_list', last_tag', Bytes(untreated_list) \ (from..(rear - 1)))
  BY <1>1, <1>6, <1>10, Zenon
<1>12. AreasInv'
  <2>1. last_tag' \in 0..MaxTag
    BY <1>6, <1>10, UntreatedPartsAssumption
  <2> QED BY <1>11, <2>1, Zenon DEF AreasInv, Holds
<1>13. PICK first \in Nat : first = p.start
  BY <1>7, AreaFacts
<1>14. PICK end \in Nat : end = PartEnd(p)
  BY <1>7, AreaFacts
<1>15. first < end /\ end <= MaxSize
  BY <1>7, <1>13, <1>14, AreaFacts
<1>16. AsBytes!TakeBlocks(first, end - 1)
  <2>1. PartBytes(p) \subseteq Bytes(untreated_list) /\ p.start - 1 \notin Bytes(untreated_list)
        /\ PartEnd(p) \notin Bytes(untreated_list)
    BY <1>1, <1>3, <1>5, <1>7, RunEnds
  <2>2. first..(end - 1) \subseteq Bytes(untreated_list) /\ first - 1 \notin Bytes(untreated_list)
        /\ end - 1 + 1 \notin Bytes(untreated_list)
    <3>1. end - 1 + 1 = end
      OBVIOUS
    <3> QED BY <1>13, <1>14, <2>1, <3>1 DEF PartBytes
  <2>3. PICK a, b \in Nat :
           /\ Aligned(p).start = a * max_mp_size
           /\ Aligned(p).start + Aligned(p).size = b * max_mp_size
           /\ Aligned(p).start \in Nat /\ Aligned(p).start + Aligned(p).size \in Nat
           /\ p.start <= a * max_mp_size /\ a * max_mp_size < p.start + max_mp_size
           /\ b * max_mp_size <= PartEnd(p) /\ PartEnd(p) < b * max_mp_size + max_mp_size
           /\ a * max_mp_size < b * max_mp_size
    BY <1>6, <1>7, AlignedIs
  <2>4. from = a * max_mp_size /\ rear = b * max_mp_size
    BY <1>8, <1>9, <2>3, Zenon
  <2>5. /\ first <= a * max_mp_size /\ a * max_mp_size < first + max_mp_size
        /\ b * max_mp_size <= end /\ end < b * max_mp_size + max_mp_size
    BY <1>13, <1>14, <2>3, Zenon
  <2>6. UNION {AsBytes!Block(n) : n \in {k \in 0..MaxSize : AsBytes!Block(k) \subseteq first..(end - 1)}}
           = (a * max_mp_size)..(b * max_mp_size - 1)
    BY <1>15, <2>5, BlocksIn
  <2>7. Bytes(untreated_list)' = Bytes(untreated_list) \
           UNION {AsBytes!Block(n) : n \in {k \in 0..MaxSize : AsBytes!Block(k) \subseteq first..(end - 1)}}
    BY <1>11, <2>4, <2>6, Zenon DEF Holds
  <2> QED BY <2>2, <2>7, Zenon DEF AsBytes!TakeBlocks
<1>17. first \in 0..MaxSize /\ end - 1 \in first..MaxSize
  BY <1>15, UntreatedPartsAssumption
<1> QED BY <1>12, <1>16, <1>17 DEF AsBytes!Next

LEMMA ClearAllStep ==
    ASSUME AreasInv, ClearAll
    PROVE  AreasInv' /\ AsBytes!Next
<1>1. PICK list : list = untreated_list
  OBVIOUS
<1>2. PICK tag : tag = last_tag
  OBVIOUS
<1>3. tag \in Nat /\ tag \in 0..MaxTag /\ Apart(list) /\ Tagged(list, tag)
  BY <1>1, <1>2, UntreatedPartsAssumption DEF AreasInv
<1>4. Holds(Cleared(list, 0, 0), tag, {})
  BY <1>3, ClearedAllOK
<1>5. Holds(untreated_list', last_tag', {}) /\ last_tag' = tag
  BY <1>1, <1>2, <1>4, Zenon DEF ClearAll
<1>6. AreasInv'
  BY <1>3, <1>5, Zenon DEF AreasInv, Holds
<1>7. AsBytes!Clear
  BY <1>5, Zenon DEF AsBytes!Clear, Holds
<1> QED BY <1>6, <1>7 DEF AsBytes!Next

LEMMA AreasStep ==
    ASSUME AreasInv, [Next]_vars
    PROVE  AreasInv' /\ [AsBytes!Next]_(Bytes(untreated_list))
<1>1. ASSUME NEW start \in 0..MaxSize, NEW size \in 0..MaxSize, AddPart(start, size)
      PROVE  AreasInv' /\ AsBytes!Next
  BY <1>1, AddStep
<1>2. ASSUME NEW min_size \in {0, MIN_MULTIPART_SIZE}, ClearUploaded(min_size)
      PROVE  AreasInv' /\ AsBytes!Next
  BY <1>2, ClearUploadedStep
<1>3. CASE ReplaceUploaded
  BY <1>3, ReplaceUploadedStep
<1>4. CASE ClearAll
  BY <1>4, ClearAllStep
<1>5. CASE UNCHANGED vars
  BY <1>5 DEF vars, AreasInv, Apart, Tagged, Bytes, PartBytes, PartEnd
<1> QED BY <1>1, <1>2, <1>3, <1>4, <1>5 DEF Next

LEMMA AreasInit ==
    ASSUME Init
    PROVE  AreasInv /\ AsBytes!Init
<1>1. untreated_list = <<>> /\ last_tag = 0
  BY DEF Init
<1>2. untreated_list \in Seq(Areas) /\ Len(untreated_list) = 0 /\ DOMAIN untreated_list = {}
  BY <1>1
<1>3. AreasInv
  BY <1>1, <1>2, UntreatedPartsAssumption DEF AreasInv, Apart, Tagged
<1>4. AsBytes!Init
  BY <1>2 DEF AsBytes!Init, Bytes
<1> QED BY <1>3, <1>4

(***************************************************************************)
(* AreasNormal for every size: after any sequence of writes, uploads of a  *)
(* part and uploads of whole blocks the list is in order without empty,    *)
(* overlapping or adjacent areas, and one area at most is the last updated *)
(* one, which WriteStreamUpload and WriteMultipart rely on.                *)
(***************************************************************************)
THEOREM ListStaysNormal == Spec => []AreasNormal
<1>1. Init => AreasInv
  BY AreasInit
<1>2. AreasInv /\ [Next]_vars => AreasInv'
  BY AreasStep
<1>3. AreasInv => AreasNormal
  <2> SUFFICES ASSUME AreasInv
               PROVE  AreasNormal
    OBVIOUS
  <2>0. Apart(untreated_list) /\ Tagged(untreated_list, last_tag) /\ last_tag \in 0..MaxTag
    BY DEF AreasInv
  <2>1. /\ untreated_list \in Seq(Areas) /\ Len(untreated_list) \in Nat
        /\ DOMAIN untreated_list = 1..Len(untreated_list)
        /\ \A i, j \in 1..Len(untreated_list) : i < j => PartEnd(untreated_list[i]) < untreated_list[j].start
    BY <2>0, ApartFacts
  <2>2. TypeOK
    <3> DEFINE Records == [start : 0..MaxSize, size : 1..MaxSize, tag : 1..MaxTag]
    <3>1. Areas \subseteq Records
      BY DEF Areas
    <3>2. untreated_list \in Seq(Areas)
      BY <2>1
    <3> HIDE DEF Records
    <3>3. untreated_list \in Seq(Records)
      BY ONLY <3>1, <3>2, SeqMonotonic
    <3> QED BY <2>0, <3>3 DEF TypeOK, Records
  <2>3. \A i \in 1..(Len(untreated_list) - 1) : PartEnd(untreated_list[i]) < untreated_list[i + 1].start
    <3> TAKE i \in 1..(Len(untreated_list) - 1)
    <3>1. i \in 1..Len(untreated_list) /\ i + 1 \in 1..Len(untreated_list) /\ i < i + 1
      BY <2>1
    <3> QED BY <2>1, <3>1
  <2>4. Cardinality(LastUpdated(untreated_list, last_tag)) <= 1
    <3> DEFINE S == LastUpdated(untreated_list, last_tag)
    <3>1. \A i, j \in S : i = j
      BY <2>0, <2>1 DEF Tagged, LastUpdated
    <3>2. CASE S = {}
      BY <3>2, FS_EmptySet
    <3>3. CASE S # {}
      <4>1. PICK i \in S : TRUE
        BY <3>3
      <4>2. S = {i}
        BY <3>1, <4>1
      <4> HIDE DEF S
      <4>3. Cardinality(S) = 1
        BY <4>2, FS_Singleton
      <4> QED BY <4>3 DEF S
    <3> QED BY <3>2, <3>3
  <2> QED BY <2>2, <2>3, <2>4 DEF AreasNormal
<1> QED BY <1>1, <1>2, <1>3, PTL DEF Spec

(***************************************************************************)
(* The list implements the set of bytes, for every size: no written byte   *)
(* is forgotten before it is uploaded, and what an upload takes is exactly *)
(* the start of a maximal run of written bytes, or all its whole blocks.   *)
(***************************************************************************)
THEOREM ListIsItsBytes == Spec => ImplementsUntreatedBytes
<1>1. Init => AreasInv /\ AsBytes!Init
  BY AreasInit
<1>2. AreasInv /\ [Next]_vars => AreasInv' /\ [AsBytes!Next]_(Bytes(untreated_list))
  BY AreasStep
<1> QED BY <1>1, <1>2, PTL DEF Spec, ImplementsUntreatedBytes, AsBytes!Spec

=============================================================================
