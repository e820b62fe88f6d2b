--------------------------- MODULE UntreatedParts ---------------------------
(***************************************************************************)
(* UntreatedParts (fdcache_untreated.cpp): the areas of a file that were   *)
(* written and not handed to an upload yet, and the tag that tells which   *)
(* of them the last write touched.                                         *)
(***************************************************************************)
EXTENDS Integers, Sequences, FiniteSets, SequencesExt

CONSTANTS MaxSize,    \* bound on the end of an area, in units of data
          MaxTag,     \* bound on the number of AddPart calls
          max_mp_size,        \* the multipart size, the boundary of stream uploads
          MIN_MULTIPART_SIZE  \* the least size of an area WriteMultipart uploads

ASSUME UntreatedPartsAssumption ==
    /\ MaxSize \in Nat /\ MaxTag \in Nat
    /\ max_mp_size \in Nat \ {0}
    /\ MIN_MULTIPART_SIZE \in 1..max_mp_size

VARIABLES untreated_list,  \* areas with their tags, by position
          last_tag         \* the tag of the last AddPart

vars == <<untreated_list, last_tag>>

Part(start, size, tag) == [start |-> start, size |-> size, tag |-> tag]

PartEnd(p) == p.start + p.size

(* untreatedpart::check_overlap: overlapping or adjacent. *)
Touches(p, q) == PartEnd(q) >= p.start /\ PartEnd(p) >= q.start

(* The areas at positions a to b give way to those of another list. *)
Spliced(list, a, b, new) == SubSeq(list, 1, a - 1) \o new \o SubSeq(list, b + 1, Len(list))

(* untreatedpart::stretch of p by the areas at i to k: the least area that holds them all. *)
Stretched(list, i, k, p) ==
    LET all  == {p} \cup {list[j] : j \in i..k}
        from == Min({q.start : q \in all})
    IN  Part(from, Max({PartEnd(q) : q \in all}) - from, p.tag)

(* Mutant: only the first overlapping area is stretched. *)
AbsorbOne(list, i, p) == Spliced(list, i, i, <<Stretched(list, i, i, p)>>)

(***************************************************************************)
(* The area at i is stretched by p, and then by every following area that  *)
(* touches it; the followers are erased up to the first that does not.     *)
(***************************************************************************)
Absorb(list, i, p) ==
    LET last == Min({k \in i..Len(list) :
                        k = Len(list) \/ ~Touches(Stretched(list, i, k, p), list[k + 1])})
    IN  Spliced(list, i, last, <<Stretched(list, i, last, p)>>)

(***************************************************************************)
(* AddPart walks to the first area that touches the new one or lies behind *)
(* it, or to the end.                                                      *)
(***************************************************************************)
Added(list, start, size, tag) ==
    LET p == Part(start, size, tag)
        i == Min({Len(list) + 1} \cup
                 {k \in DOMAIN list : Touches(list[k], p) \/ PartEnd(p) < list[k].start})
    IN  IF i <= Len(list) /\ Touches(list[i], p) THEN Absorb(list, i, p)
        ELSE Spliced(list, i, i - 1, <<p>>)

(***************************************************************************)
(* ClearParts: the areas that meet size bytes from start, or all the bytes *)
(* from start for size 0, leave what lies in front of these bytes and      *)
(* behind them.  The split of an area whose middle is cleared computes the *)
(* size of the second half after it shortened the first one, so that an    *)
(* area that is not positive in size comes out of the constructor as an    *)
(* empty part at 0; no caller clears the middle of an area.                *)
(***************************************************************************)
Cleared(list, start, size) ==
    LET end   == start + size
        met   == {i \in DOMAIN list : start < PartEnd(list[i]) /\ (size # 0 => list[i].start < end)}
        p     == list[Min(met)]
        q     == list[Max(met)]
        front == IF p.start < start THEN <<Part(p.start, start - p.start, p.tag)>> ELSE <<>>
        rear  == IF size = 0 \/ PartEnd(q) <= end THEN <<>>
                 ELSE IF q.start < start THEN <<Part(0, 0, 0)>>
                 ELSE <<Part(end, PartEnd(q) - end, q.tag)>>
    IN  IF met = {} THEN list ELSE Spliced(list, Min(met), Max(met), front \o rear)

(* The positions of the area with the last tag: one or none. *)
LastUpdated(list, tag) == {i \in DOMAIN list : list[i].tag = tag}

LastUpdatePart(list, tag) == CHOOSE i \in LastUpdated(list, tag) : TRUE

(***************************************************************************)
(* RowGetPart for the last part: what WriteMultipart uploads at once, if   *)
(* the area has at least min_size.                                         *)
(***************************************************************************)
GetLastUpdatedPart(list, tag, max_size, min_size) ==
    IF LastUpdated(list, tag) = {} THEN <<>>
    ELSE LET p == list[LastUpdatePart(list, tag)]
         IN  IF p.size < min_size THEN <<>>
             ELSE <<[start |-> p.start, size |-> IF p.size <= max_size THEN p.size ELSE max_size]>>

-----------------------------------------------------------------------------
(***************************************************************************)
(* UploadBoundaryLastUntreatedArea: the whole blocks of the last updated   *)
(* area, between the remainders in front of them and behind them.          *)
(***************************************************************************)
Aligned(p) ==
    LET start == ((p.start + max_mp_size - 1) \div max_mp_size) * max_mp_size
    IN  [start |-> start,
         size  |-> IF PartEnd(p) <= start THEN 0
                   ELSE ((PartEnd(p) - start) \div max_mp_size) * max_mp_size]

(* Mutant: the remainder behind the blocks is forgotten. *)
ReplacedDropsRest(list, tag) ==
    LET i == LastUpdatePart(list, tag)
        p == list[i]
        front == Aligned(p).start - p.start
    IN  [list |-> Spliced(list, i, i, IF front > 0 THEN <<Part(p.start, front, tag)>> ELSE <<>>),
         tag  |-> tag]

(***************************************************************************)
(* ReplaceLastUpdateUntreatedPart: the remainder in front keeps the place  *)
(* of the area, the one behind is added like a new area.                   *)
(***************************************************************************)
Replaced(list, tag) ==
    LET i      == LastUpdatePart(list, tag)
        p      == list[i]
        blocks == Aligned(p)
        front  == blocks.start - p.start
        rear   == blocks.start + blocks.size
        kept   == Spliced(list, i, i, IF front > 0 THEN <<Part(p.start, front, tag)>> ELSE <<>>)
    IN  IF rear < PartEnd(p)
        THEN [list |-> Added(kept, rear, PartEnd(p) - rear, tag + 1), tag |-> tag + 1]
        ELSE [list |-> kept, tag |-> tag]

-----------------------------------------------------------------------------
Init == untreated_list = <<>> /\ last_tag = 0

AddPart(start, size) ==
    /\ last_tag < MaxTag
    /\ size > 0 /\ start + size <= MaxSize
    /\ last_tag' = last_tag + 1
    /\ untreated_list' = Added(untreated_list, start, size, last_tag')

(* WriteMultipart and the flushes: upload a prefix of the last area, then ClearParts it. *)
ClearUploaded(min_size) ==
    LET got == GetLastUpdatedPart(untreated_list, last_tag, max_mp_size, min_size)
    IN  /\ got # <<>>
        /\ untreated_list' = Cleared(untreated_list, got[1].start, got[1].size)
        /\ UNCHANGED last_tag

(* WriteStreamUpload: hand the whole blocks of the last area to the upload. *)
ReplaceUploaded ==
    /\ last_tag < MaxTag
    /\ LastUpdated(untreated_list, last_tag) # {}
    /\ Aligned(untreated_list[LastUpdatePart(untreated_list, last_tag)]).size > 0
    /\ LET new == Replaced(untreated_list, last_tag)
       IN  untreated_list' = new.list /\ last_tag' = new.tag

ClearAll ==
    /\ untreated_list' = Cleared(untreated_list, 0, 0)
    /\ UNCHANGED last_tag

Next ==
    \/ \E start, size \in 0..MaxSize : AddPart(start, size)
    \/ \E min_size \in {0, MIN_MULTIPART_SIZE} : ClearUploaded(min_size)
    \/ ReplaceUploaded
    \/ ClearAll

Spec == Init /\ [][Next]_vars

-----------------------------------------------------------------------------
PartBytes(p) == p.start..(PartEnd(p) - 1)

Bytes(list) == UNION {PartBytes(list[i]) : i \in DOMAIN list}

TypeOK ==
    /\ untreated_list \in Seq([start : 0..MaxSize, size : 1..MaxSize, tag : 1..MaxTag])
    /\ last_tag \in 0..MaxTag

(***************************************************************************)
(* The list is the normal form of a set of bytes: areas of the file, none  *)
(* of them empty (TypeOK), in order, neither                               *)
(* overlapping nor adjacent, and never two that carry the last tag, so     *)
(* that "the last updated area" of WriteStreamUpload is one area.          *)
(***************************************************************************)
AreasNormal ==
    /\ TypeOK
    /\ \A i \in 1..(Len(untreated_list) - 1) :
          PartEnd(untreated_list[i]) < untreated_list[i + 1].start
    /\ Cardinality(LastUpdated(untreated_list, last_tag)) <= 1

(***************************************************************************)
(* No written byte is forgotten before it is uploaded: a clear or a        *)
(* replacement removes exactly the bytes that were given to the upload.    *)
(***************************************************************************)
AsBytes ==
    INSTANCE UntreatedBytes WITH bytes <- Bytes(untreated_list)

ImplementsUntreatedBytes == AsBytes!Spec
=============================================================================
