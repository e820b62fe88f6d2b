--------------------------- MODULE StatCacheProofs ---------------------------
(***************************************************************************)
(* What the stat cache keeps true for any set of paths, any size and any   *)
(* expire time: its types, with the list of the files that are not         *)
(* truncated, and how it makes room.                                       *)
(***************************************************************************)
EXTENDS StatCache, FiniteSetTheorems, TLAPS

(* What a cache holds: entries with a key and a date that is not in the future. *)
Entries == [cache_date : Int, meta : Metas \cup {[type |-> "none"]}, isforce : BOOLEAN,
            noobjcache : BOOLEAN, notruncate : Nat]
Links == [link : Targets, cache_date : Int]

StatsOK(f) ==
    /\ DOMAIN f \subseteq Keys
    /\ \A k \in DOMAIN f : f[k] \in Entries /\ f[k].cache_date <= now

LinksOK(f) ==
    /\ DOMAIN f \subseteq Keys
    /\ \A k \in DOMAIN f : ~k.slash /\ f[k] \in Links /\ f[k].cache_date <= now

(* The paths readdir adds: those of the entries with the flag set. *)
Flagged(f) == {x \in DOMAIN f : ~x.slash /\ f[x].notruncate > 0}
Listed(f) == {k.path : k \in Flagged(f)}

Frames(F, G, N) == [stat : F, symlink : G, notruncate : N]

CacheOK(c) ==
    /\ c \in Frames({c.stat}, {c.symlink}, {c.notruncate})
    /\ StatsOK(c.stat)
    /\ LinksOK(c.symlink)
    /\ c.notruncate = Listed(c.stat)

Clock == now \in Nat /\ opt \in Options

(* The inductive invariant. *)
CacheInv == Clock /\ CacheOK(sc)

-----------------------------------------------------------------------------
(* Keys and their twins. *)
LEMMA KeysAreRecords ==
    ASSUME NEW k \in Keys
    PROVE  k.path \in Paths /\ k.slash \in BOOLEAN /\ k = Key(k.path, k.slash)
                /\ k = [path |-> k.path, slash |-> k.slash]
<1>1. PICK p \in Paths, s \in BOOLEAN : k = Key(p, s)
  BY DEF Keys
<1>2. k.path = p /\ k.slash = (s \/ p = Root) /\ k = [path |-> k.path, slash |-> k.slash]
  BY <1>1 DEF Key
<1>3. k.slash \in BOOLEAN /\ (k.slash \/ p = Root) = k.slash
  BY <1>2
<1> QED BY <1>1, <1>2, <1>3 DEF Key

(* The entry of a path without a slash has one key. *)
LEMMA OnePlainKey ==
    ASSUME NEW k \in Keys, NEW l \in Keys, k.path = l.path, ~k.slash, ~l.slash
    PROVE  k = l
<1>1. k = [path |-> k.path, slash |-> k.slash] /\ k.slash = FALSE
  BY KeysAreRecords
<1>2. l = [path |-> l.path, slash |-> l.slash] /\ l.slash = FALSE
  BY KeysAreRecords
<1> QED BY <1>1, <1>2

LEMMA TwinsAreKeys ==
    ASSUME NEW k \in Keys
    PROVE  Twins(k) \subseteq Keys /\ k \in Twins(k) /\ \A x \in Twins(k) : x.path = k.path
<1>1. k.path \in Paths /\ k.slash \in BOOLEAN /\ k = Key(k.path, k.slash)
  BY KeysAreRecords
<1>2. \A s \in BOOLEAN : Key(k.path, s) \in Keys /\ Key(k.path, s).path = k.path
  BY <1>1 DEF Keys, Key
<1>3. k \in {Key(k.path, TRUE), Key(k.path, FALSE)}
  BY <1>1
<1> QED BY <1>2, <1>3 DEF Twins

(* A cache of the three parts. *)
LEMMA CacheOf ==
    ASSUME NEW f, NEW g, NEW n, StatsOK(f), LinksOK(g), n = Listed(f)
    PROVE  CacheOK([stat |-> f, symlink |-> g, notruncate |-> n])
BY DEF CacheOK, Frames

(* EXCEPT on a cache, as a record. *)
LEMMA CacheFields ==
    ASSUME NEW c, CacheOK(c), NEW f, NEW g
    PROVE  /\ [c EXCEPT !.stat = f] = [stat |-> f, symlink |-> c.symlink, notruncate |-> c.notruncate]
           /\ [c EXCEPT !.symlink = g] = [stat |-> c.stat, symlink |-> g, notruncate |-> c.notruncate]
<1> DEFINE r == [stat |-> c.stat, symlink |-> c.symlink, notruncate |-> c.notruncate]
<1>1. c = r
  BY DEF CacheOK, Frames
<1>2. [r EXCEPT !.stat = f] = [stat |-> f, symlink |-> c.symlink, notruncate |-> c.notruncate]
  OBVIOUS
<1>3. [r EXCEPT !.symlink = g] = [stat |-> c.stat, symlink |-> g, notruncate |-> c.notruncate]
  OBVIOUS
<1> HIDE DEF r
<1> QED BY ONLY <1>1, <1>2, <1>3, Zenon

LEMMA CacheStatAndList ==
    ASSUME NEW c, CacheOK(c), NEW f, NEW n
    PROVE  [c EXCEPT !.stat = f, !.notruncate = n] = [stat |-> f, symlink |-> c.symlink, notruncate |-> n]
<1> DEFINE r == [stat |-> c.stat, symlink |-> c.symlink, notruncate |-> c.notruncate]
<1>1. c = r
  BY DEF CacheOK, Frames
<1>2. [r EXCEPT !.stat = f] = [stat |-> f, symlink |-> c.symlink, notruncate |-> c.notruncate]
  OBVIOUS
<1>4. [r EXCEPT !.stat = f, !.notruncate = n] = [stat |-> f, symlink |-> c.symlink, notruncate |-> n]
  <2>1. [r EXCEPT !.stat = f, !.notruncate = n] = [[r EXCEPT !.stat = f] EXCEPT !.notruncate = n]
    OBVIOUS
  <2>2. [[stat |-> f, symlink |-> c.symlink, notruncate |-> c.notruncate] EXCEPT !.notruncate = n] = [stat |-> f, symlink |-> c.symlink, notruncate |-> n]
    OBVIOUS
  <2> HIDE DEF r
  <2> QED BY ONLY <2>1, <2>2, <1>2, Zenon
<1> HIDE DEF r
<1> QED BY ONLY <1>1, <1>4, Zenon

LEMMA CacheStatAndLinks ==
    ASSUME NEW c, CacheOK(c), NEW f, NEW g
    PROVE  [c EXCEPT !.stat = f, !.symlink = g] = [stat |-> f, symlink |-> g, notruncate |-> c.notruncate]
<1> DEFINE r == [stat |-> c.stat, symlink |-> c.symlink, notruncate |-> c.notruncate]
<1>1. c = r
  BY DEF CacheOK, Frames
<1>2. [r EXCEPT !.stat = f] = [stat |-> f, symlink |-> c.symlink, notruncate |-> c.notruncate]
  OBVIOUS
<1>5. [r EXCEPT !.stat = f, !.symlink = g] = [stat |-> f, symlink |-> g, notruncate |-> c.notruncate]
  <2>1. [r EXCEPT !.stat = f, !.symlink = g] = [[r EXCEPT !.stat = f] EXCEPT !.symlink = g]
    OBVIOUS
  <2>2. [[stat |-> f, symlink |-> c.symlink, notruncate |-> c.notruncate] EXCEPT !.symlink = g] = [stat |-> f, symlink |-> g, notruncate |-> c.notruncate]
    OBVIOUS
  <2> HIDE DEF r
  <2> QED BY ONLY <2>1, <2>2, <1>2, Zenon
<1> HIDE DEF r
<1> QED BY ONLY <1>1, <1>5, Zenon

-----------------------------------------------------------------------------
(* The cache of links. *)
LEMMA FewerLinks ==
    ASSUME NEW g, LinksOK(g), NEW S \in SUBSET DOMAIN g
    PROVE  LinksOK(Restrict(g, S))
BY DEF LinksOK, Restrict

LEMMA WithoutLink ==
    ASSUME NEW g, LinksOK(g), NEW k
    PROVE  LinksOK(Without(g, k))
BY FewerLinks DEF Without

LEMMA WithLink ==
    ASSUME NEW g, LinksOK(g), NEW k \in Keys, ~k.slash, NEW t \in Targets, now \in Nat
    PROVE  LinksOK(With(g, k, [link |-> t, cache_date |-> now]))
BY DEF LinksOK, With, Links

-----------------------------------------------------------------------------
(* Entries leave together with their paths in the list. *)
LEMMA FewerStats ==
    ASSUME NEW f, StatsOK(f), NEW S \in SUBSET DOMAIN f
    PROVE  StatsOK(Restrict(f, S)) /\ Flagged(Restrict(f, S)) = Flagged(f) \cap S
BY DEF StatsOK, Restrict, Flagged

LEMMA DelStatOK ==
    ASSUME NEW c, CacheOK(c), NEW k \in Keys
    PROVE  CacheOK(DelStat(c, k)) /\ DelStat(c, k).symlink = c.symlink
               /\ DOMAIN DelStat(c, k).stat = DOMAIN c.stat \ Twins(k)
<1> DEFINE gone == Twins(k) \cap DOMAIN c.stat
           S == DOMAIN c.stat \ gone
           f == Restrict(c.stat, S)
           n == c.notruncate \ {x.path : x \in {y \in gone : ~y.slash}}
<1>1. DelStat(c, k) = [stat |-> f, symlink |-> c.symlink, notruncate |-> n]
  <2>1. DelStat(c, k) = [c EXCEPT !.stat = f, !.notruncate = n]
    BY DEF DelStat
  <2> HIDE DEF f, n
  <2> QED BY <2>1, CacheStatAndList, Zenon
<1>2. StatsOK(f) /\ Flagged(f) = Flagged(c.stat) \cap S
  BY FewerStats DEF CacheOK
<1>3. n = Listed(f)
  <2>1. ASSUME NEW p \in n PROVE p \in Listed(f)
    <3>1. PICK x \in Flagged(c.stat) : p = x.path
      BY DEF CacheOK, Listed
    <3>2. x \notin gone
      BY <2>1, <3>1 DEF Flagged
    <3> QED BY <3>1, <3>2, <1>2 DEF Listed, Flagged
  <2>2. ASSUME NEW p \in Listed(f) PROVE p \in n
    <3>1. PICK x \in Flagged(c.stat) \cap S : p = x.path
      BY <1>2 DEF Listed
    <3>2. p \in c.notruncate
      BY <3>1 DEF CacheOK, Listed
    <3>3. ASSUME NEW y \in gone, ~y.slash, p = y.path PROVE FALSE
      BY <3>1, <3>3, OnePlainKey DEF Flagged, CacheOK, StatsOK
    <3> QED BY <3>2, <3>3
  <2> QED BY <2>1, <2>2
<1>4. DOMAIN f = S
  BY DEF Restrict
<1> HIDE DEF f, n
<1>5. CacheOK(DelStat(c, k))
  BY <1>1, <1>2, <1>3, CacheOf DEF CacheOK
<1>6. DelStat(c, k).symlink = c.symlink /\ DelStat(c, k).stat = f
  BY <1>1
<1> QED BY <1>4, <1>5, <1>6

(* New values with the same flags leave the list as it is. *)
LEMMA SameFlags ==
    ASSUME NEW c, CacheOK(c), NEW f, StatsOK(f), DOMAIN f = DOMAIN c.stat,
           \A x \in DOMAIN f : f[x].notruncate = c.stat[x].notruncate
    PROVE  CacheOK([c EXCEPT !.stat = f])
<1>1. Flagged(f) = Flagged(c.stat)
  BY DEF Flagged
<1>2. Listed(f) = c.notruncate
  BY <1>1 DEF Listed, CacheOK
<1>3. CacheOK([stat |-> f, symlink |-> c.symlink, notruncate |-> c.notruncate])
  BY <1>2, CacheOf DEF CacheOK
<1> QED BY <1>3, CacheFields

LEMMA AfterLookupOK ==
    ASSUME NEW c, CacheOK(c), Clock, NEW hit, NEW dead \in SUBSET Keys
    PROVE  CacheOK(AfterLookup(c, hit, dead)) /\ DOMAIN AfterLookup(c, hit, dead).stat \subseteq DOMAIN c.stat
               /\ AfterLookup(c, hit, dead).symlink = c.symlink
<1>1. CASE dead # {}
  <2>1. (CHOOSE x \in dead : TRUE) \in Keys
    BY <1>1
  <2>2. AfterLookup(c, hit, dead) = DelStat(c, CHOOSE x \in dead : TRUE)
    BY <1>1 DEF AfterLookup
  <2> DEFINE k == CHOOSE x \in dead : TRUE
  <2> HIDE DEF k
  <2>3. CacheOK(DelStat(c, k)) /\ DOMAIN DelStat(c, k).stat \subseteq DOMAIN c.stat
            /\ DelStat(c, k).symlink = c.symlink
    BY <2>1, DelStatOK DEF k
  <2> QED BY <2>2, <2>3 DEF k
<1>2. CASE dead = {} /\ opt.interval
  <2> DEFINE f == [x \in DOMAIN c.stat |-> IF x \in hit THEN [c.stat[x] EXCEPT !.cache_date = now] ELSE c.stat[x]]
  <2>1. AfterLookup(c, hit, dead) = [c EXCEPT !.stat = f]
    BY <1>2 DEF AfterLookup
  <2>2. ASSUME NEW x \in DOMAIN c.stat
        PROVE  f[x] \in Entries /\ f[x].cache_date <= now /\ f[x].notruncate = c.stat[x].notruncate
    <3>1. c.stat[x] \in Entries /\ c.stat[x].cache_date <= now
      BY DEF CacheOK, StatsOK
    <3> QED BY <3>1 DEF Entries, Clock
  <2>3. DOMAIN f = DOMAIN c.stat /\ StatsOK(f)
    BY <2>2 DEF CacheOK, StatsOK
  <2> HIDE DEF f
  <2>4. CacheOK([c EXCEPT !.stat = f])
    BY <2>2, <2>3, SameFlags
  <2>5. [c EXCEPT !.stat = f].stat = f /\ [c EXCEPT !.stat = f].symlink = c.symlink
    BY CacheFields
  <2> QED BY <2>1, <2>3, <2>4, <2>5
<1>3. CASE dead = {} /\ ~opt.interval
  BY <1>3 DEF AfterLookup
<1> QED BY <1>1, <1>2, <1>3

LEMMA FoundInCache ==
    ASSUME NEW c, CacheOK(c), NEW k \in Keys, NEW overcheck \in BOOLEAN
    PROVE  Found(c, k, overcheck) \subseteq Keys /\ Found(c, k, overcheck) \subseteq DOMAIN c.stat
BY DEF Found, CacheOK, StatsOK

LEMMA GetStatOK ==
    ASSUME NEW c, CacheOK(c), Clock, NEW k \in Keys, NEW overcheck \in BOOLEAN
    PROVE  LET d == GetStat(c, k, overcheck).cache
           IN  CacheOK(d) /\ DOMAIN d.stat \subseteq DOMAIN c.stat /\ d.symlink = c.symlink
<1> DEFINE found == Found(c, k, overcheck)
<1>1. Dead(c, found) \in SUBSET Keys
  BY FoundInCache DEF Dead
<1>2. GetStat(c, k, overcheck).cache = AfterLookup(c, Alive(c, found), Dead(c, found))
  BY DEF GetStat, StatsFound, StatAnswer
<1> QED BY <1>1, <1>2, AfterLookupOK

LEMMA IsNoObjectCacheOK ==
    ASSUME NEW c, CacheOK(c), Clock, NEW k \in Keys, NEW overcheck \in BOOLEAN
    PROVE  LET d == IsNoObjectCache(c, k, overcheck).cache
           IN  CacheOK(d) /\ DOMAIN d.stat \subseteq DOMAIN c.stat /\ d.symlink = c.symlink
<1> DEFINE found == {x \in Found(c, k, overcheck) : opt.negative /\ c.stat[x].noobjcache}
           dead == {x \in found : EntryExpired(c.stat[x])}
<1>1. dead \in SUBSET Keys
  BY FoundInCache
<1>2. IsNoObjectCache(c, k, overcheck).cache = AfterLookup(c, found, dead)
  BY DEF IsNoObjectCache, NegativesFound
<1> HIDE DEF found, dead
<1> QED BY <1>1, <1>2, AfterLookupOK

-----------------------------------------------------------------------------
(***************************************************************************)
(* Making room.                                                            *)
(***************************************************************************)
Permanent(f) == {x \in DOMAIN f : f[x].notruncate > 0}

(* r is c without entries that had expired or are among the oldest that may go, and a new *)
(* entry fits in.                                                                          *)
MakesRoom(c, r) ==
    /\ DOMAIN r.stat \subseteq DOMAIN c.stat
    /\ \A x \in DOMAIN r.stat : r.stat[x] = c.stat[x]
    /\ r.symlink = c.symlink
    /\ Permanent(c.stat) \subseteq DOMAIN r.stat
    /\ \A x \in DOMAIN c.stat \ DOMAIN r.stat :
          EntryExpired(c.stat[x])
          \/ \A y \in DOMAIN r.stat : c.stat[y].notruncate = 0 => c.stat[x].cache_date <= c.stat[y].cache_date
    /\ Cardinality(DOMAIN r.stat) + 1 <=
          CacheSize + Cardinality(Permanent(c.stat)) + (IF CacheSize = 0 THEN 1 ELSE 0)

LEMMA KeysAreFinite == IsFiniteSet(Keys)
<1> DEFINE pairs == Paths \X BOOLEAN
           f == [x \in pairs |-> Key(x[1], x[2])]
<1>1. IsFiniteSet(BOOLEAN)
  <2>1. BOOLEAN = ({} \cup {TRUE}) \cup {FALSE}
    OBVIOUS
  <2> QED BY <2>1, FS_EmptySet, FS_AddElement, ZenonT(30)
<1>2. IsFiniteSet(pairs)
  BY <1>1, FS_Product, StatCacheAssumption
<1>3. f \in Surjection(pairs, Keys)
  <2>1. \A x \in pairs : Key(x[1], x[2]) \in Keys
    BY DEF Keys
  <2>2. f \in [pairs -> Keys]
    BY <2>1
  <2>3. ASSUME NEW k \in Keys PROVE \E x \in pairs : f[x] = k
    <3>1. PICK p \in Paths, s \in BOOLEAN : k = Key(p, s)
      BY DEF Keys
    <3>2. <<p, s>> \in pairs /\ f[<<p, s>>] = k
      BY <3>1
    <3> QED BY <3>2
  <2> QED BY <2>2, <2>3 DEF Surjection
<1> QED BY <1>2, <1>3, FS_Surjection

LEMMA FiniteKeys ==
    ASSUME NEW S \in SUBSET Keys
    PROVE  IsFiniteSet(S) /\ Cardinality(S) \in Nat
BY KeysAreFinite, FS_Subset, FS_CardinalityType

(* The same cache, with fewer entries that may go. *)
LEMMA FewerEntriesOK ==
    ASSUME NEW c, CacheOK(c), NEW S \in SUBSET DOMAIN c.stat, Permanent(c.stat) \subseteq S
    PROVE  LET r == [c EXCEPT !.stat = Restrict(@, S)]
           IN  /\ CacheOK(r) /\ DOMAIN r.stat = S
               /\ r.symlink = c.symlink
               /\ \A x \in S : r.stat[x] = c.stat[x]
<1> DEFINE f == Restrict(c.stat, S)
<1>1. StatsOK(f) /\ Flagged(f) = Flagged(c.stat) \cap S
  BY FewerStats DEF CacheOK
<1>2. Flagged(f) = Flagged(c.stat)
  BY <1>1 DEF Flagged, Permanent
<1>3. Listed(f) = c.notruncate
  BY <1>2 DEF Listed, CacheOK
<1>4. DOMAIN f = S /\ \A x \in S : f[x] = c.stat[x]
  BY DEF Restrict
<1> HIDE DEF f
<1>5. [c EXCEPT !.stat = f] = [stat |-> f, symlink |-> c.symlink, notruncate |-> c.notruncate]
  BY CacheFields
<1>6. CacheOK([stat |-> f, symlink |-> c.symlink, notruncate |-> c.notruncate])
  BY <1>1, <1>3, CacheOf DEF CacheOK
<1> QED BY <1>4, <1>5, <1>6 DEF f

LEMMA TruncateMakesRoom ==
    ASSUME NEW c, CacheOK(c), Clock, NEW r \in TruncateCache(c)
    PROVE  CacheOK(r) /\ MakesRoom(c, r)
<1> DEFINE f == c.stat
           D == DOMAIN f
           kept == {x \in D : ~EntryExpired(f[x])}
           free == {x \in kept : f[x].notruncate = 0}
<1>1. /\ D \in SUBSET Keys /\ kept \in SUBSET Keys /\ free \in SUBSET Keys /\ Permanent(f) \in SUBSET Keys
      /\ \A x \in D : f[x].notruncate \in Nat /\ f[x].cache_date \in Int
  BY DEF CacheOK, StatsOK, Entries, Permanent
<1>2. CacheSize \in Nat
  BY StatCacheAssumption DEF Clock, CacheSize
<1>3. kept \ free = Permanent(f)
  BY <1>1 DEF Permanent, EntryExpired
<1>4. /\ Cardinality(D) \in Nat /\ Cardinality(kept) \in Nat /\ Cardinality(free) \in Nat
      /\ Cardinality(Permanent(f)) \in Nat /\ IsFiniteSet(kept) /\ IsFiniteSet(free)
  BY <1>1, FiniteKeys
<1>5. Cardinality(Permanent(f)) = Cardinality(kept) - Cardinality(free)
  <2>1. kept \cap free = free
    OBVIOUS
  <2> QED BY <1>3, <1>4, <2>1, FS_Difference
<1>6. CASE (f = << >> \/ Cardinality(D) < CacheSize) /\ r = c
  <2>1. f = << >> => Cardinality(D) = 0
    BY FS_EmptySet
  <2>2. Cardinality(D) + 1 <= CacheSize + Cardinality(Permanent(f)) + (IF CacheSize = 0 THEN 1 ELSE 0)
    BY <1>2, <1>4, <1>6, <2>1
  <2> QED BY <1>6, <2>2 DEF MakesRoom, Permanent
<1>7. ASSUME NEW S \in SUBSET kept, Permanent(f) \subseteq S, r = [c EXCEPT !.stat = Restrict(@, S)],
             Cardinality(S) + 1 <= CacheSize + Cardinality(Permanent(f)) + (IF CacheSize = 0 THEN 1 ELSE 0),
             \A x \in kept \ S, y \in S : f[y].notruncate = 0 => f[x].cache_date <= f[y].cache_date
      PROVE  CacheOK(r) /\ MakesRoom(c, r)
  <2>1. CacheOK(r) /\ DOMAIN r.stat = S /\ r.symlink = c.symlink /\ \A x \in S : r.stat[x] = f[x]
    BY <1>7, FewerEntriesOK
  <2> QED BY <1>7, <2>1 DEF MakesRoom
<1>8. CASE Cardinality(kept) < CacheSize /\ r = [c EXCEPT !.stat = Restrict(@, kept)]
  <2>1. Permanent(f) \subseteq kept
    BY <1>3
  <2>2. Cardinality(kept) + 1 <= CacheSize + Cardinality(Permanent(f)) + (IF CacheSize = 0 THEN 1 ELSE 0)
    BY <1>2, <1>4, <1>8
  <2> HIDE DEF kept
  <2> QED BY <1>7, <1>8, <2>1, <2>2
<1>9. ASSUME NEW old \in Evicted(f, kept), r = [c EXCEPT !.stat = Restrict(@, kept \ old)],
             ~(Cardinality(kept) < CacheSize)
      PROVE  CacheOK(r) /\ MakesRoom(c, r)
  <2> DEFINE count == Cardinality(kept) - CacheSize + 1 - Cardinality(kept \ free)
             S == kept \ old
  <2>1. count \in Int /\ count = Cardinality(free) - CacheSize + 1
    <3>1. Cardinality(kept \ free) = Cardinality(Permanent(f))
      BY ONLY <1>3
    <3> HIDE DEF kept, free
    <3> QED BY <1>2, <1>4, <1>5, <3>1
  <2>2. CASE count <= 0 /\ old = {}
    <3>1. S = kept
      BY <2>2
    <3>2. Cardinality(kept) + 1 <= CacheSize + Cardinality(Permanent(f)) + (IF CacheSize = 0 THEN 1 ELSE 0)
      BY <1>2, <1>4, <1>5, <2>1, <2>2
    <3> QED BY <1>3, <1>7, <1>9, <3>1, <3>2
  <2>3. CASE count > 0 /\ old \in Oldest(f, free, Smaller(count, Cardinality(free)))
    <3>1. /\ old \in SUBSET free /\ Cardinality(old) = Smaller(count, Cardinality(free))
          /\ \A x \in old, y \in free \ old : f[x].cache_date <= f[y].cache_date
      BY <2>3 DEF Oldest, Subsets
    <3>2. Permanent(f) \subseteq S
      BY <3>1, <1>3
    <3>3. Cardinality(S) = Cardinality(kept) - Cardinality(old)
      <4>1. kept \cap old = old
        BY <3>1
      <4> QED BY <1>4, <4>1, FS_Difference
    <3>4. Cardinality(S) + 1 <= CacheSize + Cardinality(Permanent(f)) + (IF CacheSize = 0 THEN 1 ELSE 0)
      BY <1>2, <1>4, <1>5, <2>1, <2>3, <3>1, <3>3 DEF Smaller
    <3>5. \A x \in kept \ S, y \in S : f[y].notruncate = 0 => f[x].cache_date <= f[y].cache_date
      BY <3>1
    <3> QED BY <1>7, <1>9, <3>2, <3>4, <3>5
  <2> QED BY <1>9, <2>1, <2>2, <2>3 DEF Evicted
<1> QED BY <1>6, <1>8, <1>9 DEF TruncateCache

-----------------------------------------------------------------------------
(***************************************************************************)
(* The methods that add.                                                   *)
(***************************************************************************)
(* An entry whose key is new, or was deleted before, enters the list if it has the flag. *)
LEMMA NewEntryOK ==
    ASSUME NEW c, CacheOK(c), NEW k \in Keys, k \notin DOMAIN c.stat, NEW e \in Entries, e.cache_date <= now
    PROVE  /\ StatsOK(With(c.stat, k, e)) /\ DOMAIN With(c.stat, k, e) = DOMAIN c.stat \cup {k}
           /\ Listed(With(c.stat, k, e)) =
                  IF ~k.slash /\ e.notruncate > 0 THEN c.notruncate \cup {k.path} ELSE c.notruncate
<1> DEFINE f == With(c.stat, k, e)
<1>1. DOMAIN f = DOMAIN c.stat \cup {k} /\ f[k] = e /\ \A x \in DOMAIN c.stat : f[x] = c.stat[x]
  BY DEF With
<1> HIDE DEF f
<1>2. StatsOK(f)
  BY <1>1 DEF StatsOK, CacheOK
<1>3. Flagged(f) = IF ~k.slash /\ e.notruncate > 0 THEN Flagged(c.stat) \cup {k} ELSE Flagged(c.stat)
  BY <1>1 DEF Flagged
<1>4. Listed(f) = IF ~k.slash /\ e.notruncate > 0 THEN c.notruncate \cup {k.path} ELSE c.notruncate
  BY <1>3 DEF Listed, CacheOK
<1> QED BY <1>1, <1>2, <1>4 DEF f

(* Room for a key: its entry is deleted with the twin, or other entries go. *)
LEMMA RoomOK ==
    ASSUME NEW c, CacheOK(c), Clock, NEW k \in Keys, NEW r \in Room(c, k)
    PROVE  /\ CacheOK(r) /\ k \notin DOMAIN r.stat /\ r.symlink = c.symlink
           /\ DOMAIN r.stat \subseteq DOMAIN c.stat
           /\ k \notin DOMAIN c.stat => MakesRoom(c, r)
<1>1. CASE k \in DOMAIN c.stat
  <2>1. r = DelStat(c, k)
    BY <1>1 DEF Room
  <2> QED BY <1>1, <2>1, DelStatOK, TwinsAreKeys
<1>2. CASE k \notin DOMAIN c.stat
  <2>1. r \in TruncateCache(c)
    BY <1>2 DEF Room
  <2>2. CacheOK(r) /\ MakesRoom(c, r)
    BY <2>1, TruncateMakesRoom
  <2> QED BY <1>2, <2>2 DEF MakesRoom
<1> QED BY <1>1, <1>2

(* What the cache is after an entry was added. *)
Enters(c, d, k) ==
    /\ CacheOK(d)
    /\ DOMAIN d.symlink \subseteq DOMAIN c.symlink
    /\ \E r : /\ DOMAIN d.stat = DOMAIN r.stat \cup {k}
              /\ DOMAIN r.stat \subseteq DOMAIN c.stat
              /\ k \notin DOMAIN c.stat => MakesRoom(c, r)

LEMMA AddStatOK ==
    ASSUME NEW c, CacheOK(c), Clock, NEW k \in Keys, NEW meta \in Metas, NEW forcedir \in BOOLEAN,
           NEW no_truncate \in BOOLEAN, k.slash => meta.type # "link",
           NEW d \in AddStat(c, k, meta, forcedir, no_truncate)
    PROVE  d = c \/ Enters(c, d, k)
<1>1. CASE ~no_truncate /\ CacheSize < 1
  BY <1>1 DEF AddStat
<1>2. CASE ~(~no_truncate /\ CacheSize < 1)
  <2> DEFINE e == [cache_date |-> now, meta |-> meta, isforce |-> forcedir, noobjcache |-> FALSE,
                   notruncate |-> IF no_truncate THEN 1 ELSE 0]
             g(r) == IF meta.type = "link" THEN r.symlink ELSE Without(r.symlink, k)
             n(r) == IF no_truncate /\ ~k.slash THEN r.notruncate \cup {k.path} ELSE r.notruncate
  <2>1. PICK r \in Room(c, k) : d = [stat |-> With(r.stat, k, e), symlink |-> g(r), notruncate |-> n(r)]
    BY <1>2 DEF AddStat
  <2>2. e \in Entries /\ e.cache_date <= now /\ (e.notruncate > 0 <=> no_truncate)
    BY DEF Entries, Clock
  <2> HIDE DEF e
  <2>3. /\ CacheOK(r) /\ k \notin DOMAIN r.stat /\ r.symlink = c.symlink
        /\ DOMAIN r.stat \subseteq DOMAIN c.stat /\ (k \notin DOMAIN c.stat => MakesRoom(c, r))
    BY RoomOK
  <2>4. /\ StatsOK(With(r.stat, k, e)) /\ DOMAIN With(r.stat, k, e) = DOMAIN r.stat \cup {k}
        /\ Listed(With(r.stat, k, e)) = n(r)
    BY <2>2, <2>3, NewEntryOK, ZenonT(30)
  <2>5. LinksOK(g(r)) /\ DOMAIN g(r) \subseteq DOMAIN c.symlink
    BY <2>3, WithoutLink DEF CacheOK, Without, Restrict
  <2> HIDE DEF g, n
  <2>6. CacheOK(d)
    BY <2>1, <2>4, <2>5, CacheOf
  <2>7. d.stat = With(r.stat, k, e) /\ d.symlink = g(r)
    BY <2>1
  <2> QED BY <2>3, <2>4, <2>5, <2>6, <2>7 DEF Enters
<1> QED BY <1>1, <1>2

LEMMA AddNoObjectCacheOK ==
    ASSUME NEW c, CacheOK(c), Clock, NEW k \in Keys, NEW d \in AddNoObjectCache(c, k)
    PROVE  d = c \/ Enters(c, d, k)
<1>1. CASE ~opt.negative \/ CacheSize < 1
  BY <1>1 DEF AddNoObjectCache
<1>2. CASE ~(~opt.negative \/ CacheSize < 1)
  <2> DEFINE e == [cache_date |-> now, meta |-> [type |-> "none"], isforce |-> FALSE, noobjcache |-> TRUE,
                   notruncate |-> 0]
  <2>1. PICK r \in Room(c, k) : d = [r EXCEPT !.stat = With(@, k, e), !.symlink = Without(@, k)]
    BY <1>2 DEF AddNoObjectCache
  <2>2. e \in Entries /\ e.cache_date <= now /\ ~(e.notruncate > 0)
    BY DEF Entries, Clock
  <2> HIDE DEF e
  <2>3. /\ CacheOK(r) /\ k \notin DOMAIN r.stat /\ r.symlink = c.symlink
        /\ DOMAIN r.stat \subseteq DOMAIN c.stat /\ (k \notin DOMAIN c.stat => MakesRoom(c, r))
    BY RoomOK
  <2>4. /\ StatsOK(With(r.stat, k, e)) /\ DOMAIN With(r.stat, k, e) = DOMAIN r.stat \cup {k}
        /\ Listed(With(r.stat, k, e)) = r.notruncate
    BY <2>2, <2>3, NewEntryOK
  <2>5. LinksOK(Without(r.symlink, k)) /\ DOMAIN Without(r.symlink, k) \subseteq DOMAIN c.symlink
    BY <2>3, WithoutLink DEF CacheOK, Without, Restrict
  <2>6. d = [stat |-> With(r.stat, k, e), symlink |-> Without(r.symlink, k), notruncate |-> r.notruncate]
    <3>a. PICK f : f = With(r.stat, k, e)
      OBVIOUS
    <3>b. PICK g : g = Without(r.symlink, k)
      OBVIOUS
    <3>1. d = [r EXCEPT !.stat = f, !.symlink = g]
      BY <2>1, <3>a, <3>b
    <3>2. [r EXCEPT !.stat = f, !.symlink = g] = [stat |-> f, symlink |-> g, notruncate |-> r.notruncate]
      BY <2>3, CacheStatAndLinks
    <3>3. d = [stat |-> f, symlink |-> g, notruncate |-> r.notruncate]
      BY ONLY <3>1, <3>2, Zenon
    <3> QED BY <3>3, <3>a, <3>b
  <2>7. CacheOK(d)
    BY <2>4, <2>5, <2>6, CacheOf
  <2>8. d.stat = With(r.stat, k, e) /\ d.symlink = Without(r.symlink, k)
    BY <2>6
  <2> QED BY <2>3, <2>4, <2>5, <2>7, <2>8 DEF Enters
<1> QED BY <1>1, <1>2

-----------------------------------------------------------------------------
(***************************************************************************)
(* The methods that change an entry, and those of the links.               *)
(***************************************************************************)
LEMMA UpdateMetaStatsOK ==
    ASSUME NEW c, CacheOK(c), Clock, NEW k \in Keys, NEW meta \in Metas
    PROVE  LET d == UpdateMetaStats(c, k, meta)
           IN  CacheOK(d) /\ DOMAIN d.stat = DOMAIN c.stat /\ d.symlink = c.symlink
<1>1. CASE CacheSize < 1 \/ k \notin DOMAIN c.stat
  BY <1>1 DEF UpdateMetaStats
<1>2. CASE ~(CacheSize < 1 \/ k \notin DOMAIN c.stat)
  <2>1. PICK e : e = [c.stat[k] EXCEPT !.meta = meta, !.cache_date = now]
    OBVIOUS
  <2>2. PICK f : f = [c.stat EXCEPT ![k] = e]
    OBVIOUS
  <2>3. UpdateMetaStats(c, k, meta) = [c EXCEPT !.stat = f]
    BY <1>2, <2>1, <2>2 DEF UpdateMetaStats
  <2>4. c.stat[k] \in Entries
    BY <1>2 DEF CacheOK, StatsOK
  <2>5. e \in Entries /\ e.cache_date = now /\ e.notruncate = c.stat[k].notruncate
    <3>1. PICK e0 : e0 = [c.stat[k] EXCEPT !.meta = meta]
      OBVIOUS
    <3>2. e0 \in Entries /\ e0.notruncate = c.stat[k].notruncate
      BY <2>4, <3>1 DEF Entries
    <3>3. e = [e0 EXCEPT !.cache_date = now]
      BY <2>1, <3>1
    <3> QED BY <3>2, <3>3 DEF Entries, Clock
  <2>6. DOMAIN f = DOMAIN c.stat /\ \A x \in DOMAIN f : f[x] = IF x = k THEN e ELSE c.stat[x]
    BY <1>2, <2>2
  <2>7. StatsOK(f) /\ \A x \in DOMAIN f : f[x].notruncate = c.stat[x].notruncate
    BY <2>5, <2>6 DEF CacheOK, StatsOK, Clock
  <2>8. CacheOK([c EXCEPT !.stat = f])
    BY <2>6, <2>7, SameFlags
  <2>9. [c EXCEPT !.stat = f].stat = f /\ [c EXCEPT !.stat = f].symlink = c.symlink
    BY CacheFields
  <2> QED BY <2>3, <2>6, <2>8, <2>9
<1> QED BY <1>1, <1>2

(* The last count of a flag takes the path from the list. *)
LEMMA ChangeNoTruncateFlagOK ==
    ASSUME NEW c, CacheOK(c), NEW k \in Keys
    PROVE  LET d == ChangeNoTruncateFlag(c, k, FALSE)
           IN  CacheOK(d) /\ DOMAIN d.stat = DOMAIN c.stat /\ d.symlink = c.symlink
<1>1. CASE k \notin DOMAIN c.stat
  BY <1>1 DEF ChangeNoTruncateFlag
<1>2. CASE k \in DOMAIN c.stat
  <2>1. c.stat[k] \in Entries /\ c.stat[k].cache_date <= now
    BY <1>2 DEF CacheOK, StatsOK
  <2>2. PICK m : m = c.stat[k].notruncate
    OBVIOUS
  <2>3. PICK after : after = IF m > 0 THEN m - 1 ELSE 0
    OBVIOUS
  <2>4. PICK named : named = IF k.slash THEN {} ELSE {k.path}
    OBVIOUS
  <2>5. PICK f : f = [c.stat EXCEPT ![k] = [c.stat[k] EXCEPT !.notruncate = after]]
    OBVIOUS
  <2>6. PICK n : n = IF m = 1 THEN c.notruncate \ named ELSE c.notruncate
    OBVIOUS
  <2>7. ChangeNoTruncateFlag(c, k, FALSE) = [c EXCEPT !.stat = f, !.notruncate = n]
    BY <1>2, <2>2, <2>3, <2>4, <2>5, <2>6 DEF ChangeNoTruncateFlag
  <2>8. m \in Nat /\ after \in Nat /\ (after > 0 <=> m > 1)
    BY <2>1, <2>2, <2>3 DEF Entries
  <2>9. /\ DOMAIN f = DOMAIN c.stat /\ \A x \in DOMAIN f : x # k => f[x] = c.stat[x]
        /\ f[k] \in Entries /\ f[k].cache_date <= now /\ f[k].notruncate = after
    BY <1>2, <2>1, <2>5, <2>8 DEF Entries
  <2>10. StatsOK(f)
    BY <2>9 DEF CacheOK, StatsOK
  <2>11. Flagged(f) = IF m = 1 THEN Flagged(c.stat) \ {k} ELSE Flagged(c.stat)
    BY <1>2, <2>2, <2>8, <2>9 DEF Flagged
  <2>12. n = Listed(f)
    <3>1. CASE m # 1
      BY <2>6, <2>11, <3>1 DEF Listed, CacheOK
    <3>2. CASE m = 1
      <4>1. ASSUME NEW p \in n PROVE p \in Listed(f)
        <5>1. p \in c.notruncate \ named
          BY <2>6, <3>2
        <5>2. PICK x \in Flagged(c.stat) : p = x.path
          BY <5>1 DEF CacheOK, Listed
        <5>3. x # k
          BY <5>1, <5>2, <2>4 DEF Flagged
        <5> QED BY <5>2, <5>3, <2>11, <3>2 DEF Listed
      <4>2. ASSUME NEW p \in Listed(f) PROVE p \in n
        <5>1. PICK x \in Flagged(c.stat) \ {k} : p = x.path
          BY <2>11, <3>2 DEF Listed
        <5>2. p \in c.notruncate
          BY <5>1 DEF CacheOK, Listed
        <5>3. x \in Keys /\ ~x.slash
          BY <5>1 DEF Flagged, CacheOK, StatsOK
        <5>4. p \notin named
          BY <5>1, <5>3, <2>4, OnePlainKey
        <5> QED BY <5>2, <5>4, <2>6, <3>2
      <4> QED BY <4>1, <4>2
    <3> QED BY <3>1, <3>2
  <2>13. [c EXCEPT !.stat = f, !.notruncate = n] = [stat |-> f, symlink |-> c.symlink, notruncate |-> n]
    BY CacheStatAndList
  <2>14. CacheOK([stat |-> f, symlink |-> c.symlink, notruncate |-> n])
    BY <2>10, <2>12, CacheOf DEF CacheOK
  <2> QED BY <2>7, <2>9, <2>13, <2>14
<1> QED BY <1>1, <1>2

(* A cache with other links. *)
LEMMA OtherLinksOK ==
    ASSUME NEW c, CacheOK(c), NEW g, LinksOK(g)
    PROVE  CacheOK([c EXCEPT !.symlink = g]) /\ [c EXCEPT !.symlink = g].stat = c.stat
               /\ [c EXCEPT !.symlink = g].symlink = g
<1>1. [c EXCEPT !.symlink = g] = [stat |-> c.stat, symlink |-> g, notruncate |-> c.notruncate]
  BY CacheFields
<1>2. CacheOK([stat |-> c.stat, symlink |-> g, notruncate |-> c.notruncate])
  BY CacheOf DEF CacheOK
<1> QED BY <1>1, <1>2

LEMMA DelSymlinkOK ==
    ASSUME NEW c, CacheOK(c), NEW k
    PROVE  LET d == DelSymlink(c, k)
           IN  CacheOK(d) /\ d.stat = c.stat /\ DOMAIN d.symlink = DOMAIN c.symlink \ {k}
<1>1. PICK g : g = Without(c.symlink, k)
  OBVIOUS
<1>2. LinksOK(g) /\ DOMAIN g = DOMAIN c.symlink \ {k}
  BY <1>1, WithoutLink DEF CacheOK, Without, Restrict
<1>3. DelSymlink(c, k) = [c EXCEPT !.symlink = g]
  BY <1>1 DEF DelSymlink
<1> QED BY <1>2, <1>3, OtherLinksOK

LEMMA GetSymlinkOK ==
    ASSUME NEW c, CacheOK(c), Clock, NEW k \in Keys
    PROVE  LET d == GetSymlink(c, k).cache
           IN  CacheOK(d) /\ d.stat = c.stat /\ DOMAIN d.symlink \subseteq DOMAIN c.symlink
<1> DEFINE hit == {x \in {k} \cap DOMAIN c.symlink : ~Expired(c.symlink[x].cache_date)}
<1>1. CASE hit = {}
  <2>1. GetSymlink(c, k).cache = DelSymlink(c, k)
    BY <1>1 DEF GetSymlink, DelSymlink
  <2> QED BY <2>1, DelSymlinkOK
<1>2. CASE hit # {} /\ opt.interval
  <2>1. k \in DOMAIN c.symlink
    BY <1>2
  <2>2. c.symlink[k] \in Links
    BY <2>1 DEF CacheOK, LinksOK
  <2>3. PICK e : e = [c.symlink[k] EXCEPT !.cache_date = now]
    OBVIOUS
  <2>4. PICK g : g = [c.symlink EXCEPT ![k] = e]
    OBVIOUS
  <2>5. GetSymlink(c, k).cache = [c EXCEPT !.symlink = g]
    BY <1>2, <2>3, <2>4 DEF GetSymlink
  <2>6. e \in Links /\ e.cache_date = now
    BY <2>2, <2>3 DEF Links, Clock
  <2>7. LinksOK(g) /\ DOMAIN g = DOMAIN c.symlink
    BY <2>1, <2>4, <2>6 DEF CacheOK, LinksOK, Clock
  <2> QED BY <2>5, <2>7, OtherLinksOK
<1>3. CASE hit # {} /\ ~opt.interval
  BY <1>3 DEF GetSymlink
<1> QED BY <1>1, <1>2, <1>3

(* A new link fits in, unless stat_cache was empty. *)
LEMMA TruncateSymlinkOK ==
    ASSUME NEW c, CacheOK(c), Clock, CacheSize >= 1, NEW r \in TruncateSymlink(c)
    PROVE  /\ CacheOK(r) /\ r.stat = c.stat /\ DOMAIN r.symlink \subseteq DOMAIN c.symlink
           /\ c.stat = << >> \/ Cardinality(DOMAIN r.symlink) < CacheSize
<1> DEFINE D == DOMAIN c.symlink
           kept == {x \in D : ~Expired(c.symlink[x].cache_date)}
           n == Cardinality(kept)
<1>1. D \in SUBSET Keys /\ kept \in SUBSET D /\ LinksOK(c.symlink)
  BY DEF CacheOK, LinksOK
<1>2. CacheSize \in Nat /\ n \in Nat /\ IsFiniteSet(kept)
  BY <1>1, FiniteKeys, StatCacheAssumption DEF Clock, CacheSize
<1> HIDE DEF kept
<1>3. ASSUME NEW S \in SUBSET D, r = [c EXCEPT !.symlink = Restrict(@, S)]
      PROVE  CacheOK(r) /\ r.stat = c.stat /\ DOMAIN r.symlink = S
  <2>1. PICK g : g = Restrict(c.symlink, S)
    OBVIOUS
  <2>2. LinksOK(g) /\ DOMAIN g = S
    BY <1>1, <2>1, FewerLinks DEF Restrict
  <2>3. r = [c EXCEPT !.symlink = g]
    BY <1>3, <2>1
  <2> QED BY <2>2, <2>3, OtherLinksOK
<1>4. CASE (c.stat = << >> \/ Cardinality(D) < CacheSize) /\ r = c
  BY <1>4
<1>5. CASE n < CacheSize /\ r = [c EXCEPT !.symlink = Restrict(@, kept)]
  BY <1>1, <1>3, <1>5
<1>6. ASSUME ~(n < CacheSize), NEW old \in Oldest(c.symlink, kept, Smaller(n - CacheSize + 1, n)),
             r = [c EXCEPT !.symlink = Restrict(@, kept \ old)]
      PROVE  /\ CacheOK(r) /\ r.stat = c.stat /\ DOMAIN r.symlink \subseteq D
             /\ Cardinality(DOMAIN r.symlink) < CacheSize
  <2>1. old \in SUBSET kept /\ Cardinality(old) = n - CacheSize + 1
    BY <1>2, <1>6 DEF Oldest, Subsets, Smaller
  <2>2. kept \cap old = old
    BY <2>1
  <2>3. Cardinality(kept \ old) = CacheSize - 1
    <3>1. Cardinality(kept \ old) = Cardinality(kept) - Cardinality(kept \cap old)
      BY <1>2, FS_Difference
    <3>2. Cardinality(kept \ old) = n - Cardinality(old)
      BY ONLY <2>2, <3>1
    <3> HIDE DEF n
    <3> QED BY <1>2, <2>1, <3>2
  <2>4. kept \ old \in SUBSET D
    BY <1>1
  <2>5. CacheOK(r) /\ r.stat = c.stat /\ DOMAIN r.symlink = kept \ old
    BY <1>3, <1>6, <2>4
  <2> QED BY <1>2, <2>3, <2>4, <2>5
<1> QED BY <1>1, <1>4, <1>5, <1>6 DEF TruncateSymlink, kept

LEMMA AddSymlinkOK ==
    ASSUME NEW c, CacheOK(c), Clock, NEW k \in Keys, ~k.slash, NEW t \in Targets, NEW d \in AddSymlink(c, k, t)
    PROVE  /\ CacheOK(d) /\ d.stat = c.stat
           /\ \/ DOMAIN d.symlink \subseteq DOMAIN c.symlink
              \/ c.stat = << >>
              \/ Cardinality(DOMAIN d.symlink) <= CacheSize
<1>1. CASE CacheSize < 1
  BY <1>1 DEF AddSymlink
<1>2. CASE ~(CacheSize < 1)
  <2>1. PICK r \in IF k \in DOMAIN c.symlink THEN {DelSymlink(c, k)} ELSE TruncateSymlink(c) :
             d = [r EXCEPT !.symlink = With(@, k, [link |-> t, cache_date |-> now])]
    BY <1>2 DEF AddSymlink
  <2>2. CacheSize \in Nat
    BY StatCacheAssumption DEF Clock, CacheSize
  <2>3. /\ CacheOK(r) /\ r.stat = c.stat /\ DOMAIN r.symlink \subseteq DOMAIN c.symlink
        /\ k \in DOMAIN c.symlink \/ c.stat = << >> \/ Cardinality(DOMAIN r.symlink) < CacheSize
    <3>1. CASE k \in DOMAIN c.symlink
      BY <2>1, <3>1, DelSymlinkOK
    <3>2. CASE k \notin DOMAIN c.symlink
      <4>1. r \in TruncateSymlink(c) /\ CacheSize >= 1
        BY <1>2, <2>1, <2>2, <3>2
      <4> QED BY <4>1, TruncateSymlinkOK
    <3> QED BY <3>1, <3>2
  <2>4. PICK g : g = With(r.symlink, k, [link |-> t, cache_date |-> now])
    OBVIOUS
  <2>5. LinksOK(g)
    BY <2>3, <2>4, WithLink DEF CacheOK, Clock
  <2>6. DOMAIN g = DOMAIN r.symlink \cup {k}
    BY <2>4 DEF With
  <2>7. d = [r EXCEPT !.symlink = g]
    BY <2>1, <2>4
  <2>8. CacheOK(d) /\ d.stat = c.stat /\ d.symlink = g
    BY <2>3, <2>5, <2>7, OtherLinksOK
  <2>9. IsFiniteSet(DOMAIN r.symlink) /\ Cardinality(DOMAIN r.symlink) \in Nat
    BY <2>3, FiniteKeys DEF CacheOK, LinksOK
  <2>10. Cardinality(DOMAIN g) <= Cardinality(DOMAIN r.symlink) + 1
    BY <2>6, <2>9, FS_AddElement
  <2>11. Cardinality(DOMAIN g) \in Nat
    BY <2>5, FiniteKeys DEF LinksOK
  <2> QED BY <2>2, <2>3, <2>6, <2>8, <2>9, <2>10, <2>11
<1> QED BY <1>1, <1>2

-----------------------------------------------------------------------------
(***************************************************************************)
(* The steps.                                                              *)
(***************************************************************************)
LEMMA InvInit == InitCache => CacheInv
<1> SUFFICES ASSUME InitCache PROVE CacheInv
  OBVIOUS
<1> DEFINE f == << >>
<1>1. DOMAIN f = {}
  OBVIOUS
<1>2. sc = [stat |-> f, symlink |-> f, notruncate |-> {}] /\ Clock
  BY DEF InitCache, EmptyCache, Clock
<1> HIDE DEF f
<1>3. StatsOK(f) /\ LinksOK(f)
  BY <1>1 DEF StatsOK, LinksOK
<1>4. Listed(f) = {}
  BY <1>1 DEF Listed, Flagged
<1>5. CacheOK([stat |-> f, symlink |-> f, notruncate |-> {}])
  BY <1>3, <1>4, CacheOf
<1> QED BY <1>2, <1>5 DEF CacheInv

(* What a step does to the cache it finds: entries and links leave, or one enters. *)
Step(c, d) ==
    \/ DOMAIN d.stat \subseteq DOMAIN c.stat /\ DOMAIN d.symlink \subseteq DOMAIN c.symlink
    \/ \E k \in Keys : Enters(c, d, k)
    \/ d.stat = c.stat /\ (c.stat = << >> \/ Cardinality(DOMAIN d.symlink) <= CacheSize)

LEMMA CallOK ==
    ASSUME CacheInv, NextCache, ~Tick
    PROVE  CacheOK(sc') /\ Step(sc, sc') /\ UNCHANGED <<opt, now>>
<1> USE DEF Leaves
<1>0. CacheOK(sc) /\ Clock
  BY DEF CacheInv
<1>1. ASSUME NEW k \in Keys, NEW b \in BOOLEAN, CallGetStat(k, b)
      PROVE  CacheOK(sc') /\ Step(sc, sc') /\ UNCHANGED <<opt, now>>
  BY <1>0, <1>1, GetStatOK DEF CallGetStat, Step
<1>2. ASSUME NEW k \in Keys, NEW b \in BOOLEAN, CallIsNoObjectCache(k, b)
      PROVE  CacheOK(sc') /\ Step(sc, sc') /\ UNCHANGED <<opt, now>>
  BY <1>0, <1>2, IsNoObjectCacheOK DEF CallIsNoObjectCache, Step
<1>3. ASSUME NEW k \in Keys, NEW m \in Metas, NEW b \in BOOLEAN, CallAddStat(k, m, b)
      PROVE  CacheOK(sc') /\ Step(sc, sc') /\ UNCHANGED <<opt, now>>
  <2>1. PICK d \in AddStat(sc, k, m, k.slash, b) : sc' = d /\ UNCHANGED <<opt, now>>
    BY <1>3 DEF CallAddStat
  <2>2. k.slash \in BOOLEAN /\ (k.slash => m.type # "link")
    BY <1>3, KeysAreRecords DEF CallAddStat
  <2>3. d = sc \/ Enters(sc, d, k)
    BY <1>0, <2>1, <2>2, AddStatOK
  <2> QED BY <1>0, <2>1, <2>3 DEF Step, Enters
<1>4. ASSUME NEW k \in Keys, NEW m \in Metas, CallUpdateMetaStats(k, m)
      PROVE  CacheOK(sc') /\ Step(sc, sc') /\ UNCHANGED <<opt, now>>
  BY <1>0, <1>4, UpdateMetaStatsOK DEF CallUpdateMetaStats, Step
<1>5. ASSUME NEW k \in Keys, CallChangeNoTruncateFlag(k)
      PROVE  CacheOK(sc') /\ Step(sc, sc') /\ UNCHANGED <<opt, now>>
  BY <1>0, <1>5, ChangeNoTruncateFlagOK DEF CallChangeNoTruncateFlag, Step
<1>6. ASSUME NEW k \in Keys, CallAddNoObjectCache(k)
      PROVE  CacheOK(sc') /\ Step(sc, sc') /\ UNCHANGED <<opt, now>>
  <2>1. PICK d \in AddNoObjectCache(sc, k) : sc' = d /\ UNCHANGED <<opt, now>>
    BY <1>6 DEF CallAddNoObjectCache
  <2>2. d = sc \/ Enters(sc, d, k)
    BY <1>0, <2>1, AddNoObjectCacheOK
  <2> QED BY <1>0, <2>1, <2>2 DEF Step, Enters
<1>7. ASSUME NEW k \in Keys, CallDelStat(k)
      PROVE  CacheOK(sc') /\ Step(sc, sc') /\ UNCHANGED <<opt, now>>
  <2>1. CacheOK(DelStat(sc, k)) /\ DelStat(sc, k).symlink = sc.symlink
            /\ DOMAIN DelStat(sc, k).stat = DOMAIN sc.stat \ Twins(k)
    BY <1>0, DelStatOK
  <2>2. sc' = DelStat(sc, k) /\ UNCHANGED <<opt, now>>
    BY <1>7 DEF CallDelStat
  <2> QED BY <2>1, <2>2 DEF Step
<1>8. ASSUME NEW p \in Paths \ {Root}
      PROVE  Key(p, FALSE) \in Keys /\ ~Key(p, FALSE).slash
  <2>1. \A q \in Paths, s \in BOOLEAN : Key(q, s) \in Keys
    BY DEF Keys
  <2> QED BY <2>1 DEF Key
<1>9. ASSUME NEW p \in Paths \ {Root}, CallGetSymlink(Key(p, FALSE))
      PROVE  CacheOK(sc') /\ Step(sc, sc') /\ UNCHANGED <<opt, now>>
  BY <1>0, <1>8, <1>9, GetSymlinkOK DEF CallGetSymlink, Step
<1>10. ASSUME NEW p \in Paths \ {Root}, CallDelSymlink(Key(p, FALSE))
       PROVE  CacheOK(sc') /\ Step(sc, sc') /\ UNCHANGED <<opt, now>>
  BY <1>0, <1>8, <1>10, DelSymlinkOK DEF CallDelSymlink, Step
<1>11. ASSUME NEW p \in Paths \ {Root}, NEW t \in Targets, CallAddSymlink(Key(p, FALSE), t)
       PROVE  CacheOK(sc') /\ Step(sc, sc') /\ UNCHANGED <<opt, now>>
  <2>1. PICK d \in AddSymlink(sc, Key(p, FALSE), t) : sc' = d /\ UNCHANGED <<opt, now>>
    BY <1>11 DEF CallAddSymlink
  <2>2. /\ CacheOK(d) /\ d.stat = sc.stat
        /\ \/ DOMAIN d.symlink \subseteq DOMAIN sc.symlink
           \/ sc.stat = << >>
           \/ Cardinality(DOMAIN d.symlink) <= CacheSize
    BY <1>0, <1>8, <2>1, AddSymlinkOK
  <2> QED BY <2>1, <2>2 DEF Step
<1> QED BY <1>1, <1>2, <1>3, <1>4, <1>5, <1>6, <1>7, <1>9, <1>10, <1>11 DEF NextCache

LEMMA InvNext == CacheInv /\ [NextCache]_cache_vars => CacheInv'
<1> SUFFICES ASSUME CacheInv, [NextCache]_cache_vars PROVE CacheInv'
  OBVIOUS
<1>1. CASE Tick
  <2>1. sc' = sc /\ opt' = opt /\ now' \in Nat /\ now <= now' /\ now \in Nat
    BY <1>1 DEF Tick, CacheInv, Clock
  <2>2. StatsOK(sc.stat)' /\ LinksOK(sc.symlink)'
    BY <2>1 DEF CacheInv, CacheOK, StatsOK, LinksOK, Entries, Links
  <2> QED BY <2>1, <2>2 DEF CacheInv, CacheOK, Clock
<1>2. CASE NextCache /\ ~Tick
  <2>1. CacheOK(sc') /\ opt' = opt /\ now' = now
    BY <1>2, CallOK
  <2> QED BY <2>1 DEF CacheInv, CacheOK, Clock, StatsOK, LinksOK
<1>3. CASE UNCHANGED cache_vars
  BY <1>3 DEF cache_vars, CacheInv, CacheOK, Clock, StatsOK, LinksOK
<1> QED BY <1>1, <1>2, <1>3

LEMMA StepGoesByAge ==
    CacheInv /\ [NextCache]_cache_vars => [OldestGo]_cache_vars
<1> SUFFICES ASSUME CacheInv, NextCache PROVE OldestGo
  BY DEF OldestGo
<1>1. CASE Tick
  BY <1>1 DEF Tick, OldestGo
<1>2. CASE ~Tick
  <2>1. Step(sc, sc') /\ CacheOK(sc) /\ Clock
    BY <1>2, CallOK DEF CacheInv
  <2>2. CASE DOMAIN sc'.stat \subseteq DOMAIN sc.stat
    BY <2>2 DEF OldestGo
  <2>3. ASSUME NEW k \in Keys, Enters(sc, sc', k), k \notin DOMAIN sc.stat
        PROVE  OldestGo
    <3>1. PICK r : /\ DOMAIN sc'.stat = DOMAIN r.stat \cup {k}
                   /\ DOMAIN r.stat \subseteq DOMAIN sc.stat /\ MakesRoom(sc, r)
      BY <2>3 DEF Enters
    <3>2. ASSUME NEW x \in DOMAIN sc.stat \ DOMAIN sc'.stat
          PROVE  /\ sc.stat[x].notruncate = 0
                 /\ \/ EntryExpired(sc.stat[x])
                    \/ \A y \in DOMAIN r.stat : sc.stat[y].notruncate = 0 =>
                           sc.stat[x].cache_date <= sc.stat[y].cache_date
      <4>1. x \in DOMAIN sc.stat \ DOMAIN r.stat
        BY <3>1
      <4>2. sc.stat[x].notruncate \in Nat
        BY <2>1 DEF CacheOK, StatsOK, Entries
      <4> QED BY <3>1, <4>1, <4>2 DEF MakesRoom, Permanent
    <3>3. DOMAIN sc.stat \cap DOMAIN sc'.stat \subseteq DOMAIN r.stat
      BY <2>3, <3>1
    <3> QED BY <3>2, <3>3 DEF OldestGo
  <2>4. ASSUME NEW k \in Keys, Enters(sc, sc', k), k \in DOMAIN sc.stat
        PROVE  DOMAIN sc'.stat \subseteq DOMAIN sc.stat
    BY <2>4 DEF Enters
  <2> QED BY <2>1, <2>2, <2>3, <2>4 DEF Step
<1> QED BY <1>1, <1>2

LEMMA StepKeepsSize ==
    CacheInv /\ [NextCache]_cache_vars => [GrowsToSize]_cache_vars
<1> SUFFICES ASSUME CacheInv, NextCache PROVE GrowsToSize
  BY DEF GrowsToSize
<1>1. CASE Tick
  BY <1>1 DEF Tick, GrowsToSize
<1>2. CASE ~Tick
  <2>1. Step(sc, sc') /\ CacheOK(sc) /\ CacheOK(sc') /\ Clock
    BY <1>2, CallOK DEF CacheInv
  <2>2. CASE DOMAIN sc'.stat \subseteq DOMAIN sc.stat /\ DOMAIN sc'.symlink \subseteq DOMAIN sc.symlink
    BY <2>2 DEF GrowsToSize
  <2>3. ASSUME NEW k \in Keys, Enters(sc, sc', k), k \notin DOMAIN sc.stat
        PROVE  GrowsToSize
    <3>1. PICK r : /\ DOMAIN sc'.stat = DOMAIN r.stat \cup {k}
                   /\ DOMAIN r.stat \subseteq DOMAIN sc.stat /\ MakesRoom(sc, r)
      BY <2>3 DEF Enters
    <3>2. DOMAIN sc'.symlink \subseteq DOMAIN sc.symlink
      BY <2>3 DEF Enters
    <3>3. DOMAIN r.stat \in SUBSET Keys /\ k \notin DOMAIN r.stat
      BY <2>1, <2>3, <3>1 DEF CacheOK, StatsOK
    <3>4. Cardinality(DOMAIN sc'.stat) = Cardinality(DOMAIN r.stat) + 1
      BY <3>1, <3>3, FiniteKeys, FS_AddElement
    <3>5. Cardinality(DOMAIN sc'.stat) <=
             CacheSize + Cardinality(Permanent(sc.stat)) + (IF CacheSize = 0 THEN 1 ELSE 0)
      BY <3>1, <3>4 DEF MakesRoom
    <3> QED BY <3>2, <3>5 DEF GrowsToSize, Permanent
  <2>4. ASSUME NEW k \in Keys, Enters(sc, sc', k), k \in DOMAIN sc.stat
        PROVE  DOMAIN sc'.stat \subseteq DOMAIN sc.stat /\ DOMAIN sc'.symlink \subseteq DOMAIN sc.symlink
    BY <2>4 DEF Enters
  <2>5. CASE sc'.stat = sc.stat /\ (sc.stat = << >> \/ Cardinality(DOMAIN sc'.symlink) <= CacheSize)
    BY <2>5 DEF GrowsToSize
  <2> QED BY <2>1, <2>2, <2>3, <2>4, <2>5 DEF Step
<1> QED BY <1>1, <1>2

-----------------------------------------------------------------------------
(* The invariant holds from start to end. *)
THEOREM CacheInvariant == SpecCache => []CacheInv
<1> QED BY InvInit, InvNext, PTL DEF SpecCache

(***************************************************************************)
(* For any paths, size and expire time: no entry is of the future, links   *)
(* have no slash, and the list of the files that are not truncated is that *)
(* of the entries with the flag, through every replacement, deletion of a  *)
(* twin, expiry and count.                                                 *)
(***************************************************************************)
THEOREM TypeCorrect == SpecCache => []CacheTypeOK
<1>1. CacheInv => CacheTypeOK
  BY DEF CacheInv, CacheOK, StatsOK, LinksOK, Entries, Listed, Flagged, CacheTypeOK
<1> QED BY <1>1, CacheInvariant, PTL

(***************************************************************************)
(* For any paths, size and expire time: what leaves to make room had       *)
(* expired or is the oldest that may go, and room is made: the caches keep *)
(* their size when something enters.                                       *)
(***************************************************************************)
THEOREM MakesRoomByAge == SpecCache => RoomIsMade
<1>1. SpecCache => OldestLeave
  BY CacheInvariant, StepGoesByAge, PTL DEF SpecCache, OldestLeave
<1>2. SpecCache => GrowthBounded
  BY CacheInvariant, StepKeepsSize, PTL DEF SpecCache, GrowthBounded
<1> QED BY <1>1, <1>2 DEF RoomIsMade
=============================================================================
