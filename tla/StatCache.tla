------------------------------ MODULE StatCache ------------------------------
(***************************************************************************)
(* StatCache (cache.cpp): what s3fs remembers of objects that exist, of    *)
(* objects that do not (negative entries) and of the targets of symbolic   *)
(* links, with expiry, eviction and the entries that are not truncated.    *)
(* Every method holds stat_cache_lock from its beginning to its end, so    *)
(* that a call is one step.  A clock may tick between two calls.           *)
(*                                                                         *)
(* The hit count, which orders entries of the same time for the eviction,  *)
(* is left out: any of them may go.                                        *)
(***************************************************************************)
EXTENDS Integers, FiniteSets, Functions

CONSTANTS Paths,       \* without a slash at the end
          Root,        \* the mount point
          Metas,       \* headers, records with the type of the object in "type"
          Targets,     \* of symbolic links
          ExpireTime,
          Options,     \* the size (CacheSize), whether entries expire (IsExpireTime),
                       \* from the last access (IsExpireIntervalType),
                       \* and negative entries are used (UseNegativeCache)
          MaxTime      \* bound on the clock

ASSUME StatCacheAssumption ==
    IsFiniteSet(Paths) /\ ExpireTime \in Nat /\ MaxTime \in Nat
    /\ Options \subseteq [size : Nat, expires : BOOLEAN, interval : BOOLEAN, negative : BOOLEAN]

VARIABLES
    sc,       \* the singleton: stat_cache, symlink_cache and notruncate_file_cache
    opt,      \* one of the Options
    now       \* the clock

cache_vars == <<sc, opt, now>>

(* A key is a path, or a path with a slash at its end. *)
Key(path, slash) == [path |-> path, slash |-> slash \/ path = Root]
Keys == {Key(p, s) : p \in Paths, s \in BOOLEAN}
Slashed(k) == Key(k.path, TRUE)

(* The same path with or without the slash. *)
Twins(k) == IF k.path = Root THEN {k} ELSE {Key(k.path, TRUE), Key(k.path, FALSE)}

EmptyCache == [stat |-> << >>, symlink |-> << >>, notruncate |-> {}]

InitCache ==
    /\ sc = EmptyCache
    /\ opt \in Options
    /\ now = 0

CacheSize == opt.size

Expired(date) == opt.expires /\ now - ExpireTime > date

EntryExpired(entry) == entry.notruncate = 0 /\ Expired(entry.cache_date)

-----------------------------------------------------------------------------
(* Mutant: the list of files that are not truncated is left as it is. *)
DelStatKeepsList(c, k) ==
    [c EXCEPT !.stat = Restrict(@, DOMAIN @ \ Twins(k))]


(* DelStatHasLock, with DelNotruncateCache: the key and its twin. *)
DelStat(c, k) ==
    LET gone == Twins(k) \cap DOMAIN c.stat
    IN  [c EXCEPT !.stat = Restrict(@, DOMAIN @ \ gone),
                  !.notruncate = @ \ {x.path : x \in {y \in gone : ~y.slash}}]

(* The key a lookup finds: with overcheck the one with a slash comes first. *)
Found(c, k, overcheck) ==
    IF overcheck /\ Slashed(k) \in DOMAIN c.stat THEN {Slashed(k)} ELSE {k} \cap DOMAIN c.stat

(* What a lookup leaves: of entries that are dead one is deleted, those that answer may live longer. *)
AfterLookup(c, hit, dead) ==
    IF dead # {} THEN DelStat(c, CHOOSE x \in dead : TRUE)
    ELSE IF opt.interval
    THEN [c EXCEPT !.stat = [x \in DOMAIN @ |-> IF x \in hit THEN [@[x] EXCEPT !.cache_date = now] ELSE @[x]]]
    ELSE c

(* GetStat: the entries it answers with, one or none, and the cache it leaves. *)
Dead(c, found) == {x \in found : EntryExpired(c.stat[x]) \/ (c.stat[x].noobjcache /\ ~opt.negative)}
Alive(c, found) == {x \in found : ~EntryExpired(c.stat[x]) /\ ~c.stat[x].noobjcache}

StatAnswer(c, hit, dead) == [hit |-> {c.stat[x] : x \in hit}, cache |-> AfterLookup(c, hit, dead)]
StatsFound(c, found) == StatAnswer(c, Alive(c, found), Dead(c, found))

GetStat(c, k, overcheck) == StatsFound(c, Found(c, k, overcheck))

(* IsNoObjectCache: the negative entries. *)
NegativesFound(c, found) ==
    [hit   |-> \E x \in found : ~EntryExpired(c.stat[x]),
     cache |-> AfterLookup(c, found, {x \in found : EntryExpired(c.stat[x])})]

IsNoObjectCache(c, k, overcheck) ==
    NegativesFound(c, {x \in Found(c, k, overcheck) : opt.negative /\ c.stat[x].noobjcache})

Smaller(a, b) == IF a < b THEN a ELSE b

Subsets(set, n) == {s \in SUBSET set : Cardinality(s) = n}

(* The sets of n keys of f that hold the oldest dates. *)
Oldest(f, set, n) == {s \in Subsets(set, n) : \A x \in s, y \in set \ s : f[x].cache_date <= f[y].cache_date}

(* Mutant: the newest entries are sorted to the front. *)
EvictedNewest(f, kept) ==
    LET free  == {x \in kept : f[x].notruncate = 0}
        count == Cardinality(kept) - CacheSize + 1 - Cardinality(kept \ free)
    IN  IF count <= 0 THEN {{}}
        ELSE {s \in Subsets(free, Smaller(count, Cardinality(free))) :
                  \A x \in s, y \in free \ s : f[x].cache_date >= f[y].cache_date}

(* What TruncateCache erases: each entry that is not truncated counts as one of those to go. *)
Evicted(f, kept) ==
    LET free  == {x \in kept : f[x].notruncate = 0}
        count == Cardinality(kept) - CacheSize + 1 - Cardinality(kept \ free)
    IN  IF count <= 0 THEN {{}} ELSE Oldest(f, free, Smaller(count, Cardinality(free)))

(* TruncateCache, before an entry with a new key is made. *)
TruncateCache(c) ==
    LET kept == {x \in DOMAIN c.stat : ~EntryExpired(c.stat[x])}
    IN  IF c.stat = << >> \/ Cardinality(DOMAIN c.stat) < CacheSize THEN {c}
        ELSE IF Cardinality(kept) < CacheSize THEN {[c EXCEPT !.stat = Restrict(@, kept)]}
        ELSE {[c EXCEPT !.stat = Restrict(@, kept \ old)] : old \in Evicted(c.stat, kept)}

Room(c, k) == IF k \in DOMAIN c.stat THEN {DelStat(c, k)} ELSE TruncateCache(c)

With(f, k, value) == [x \in DOMAIN f \cup {k} |-> IF x = k THEN value ELSE f[x]]
Without(f, k) == Restrict(f, DOMAIN f \ {k})

(* AddStat: the caches it may leave. *)
AddStat(c, k, meta, forcedir, no_truncate) ==
    IF ~no_truncate /\ CacheSize < 1 THEN {c}
    ELSE {[stat |-> With(r.stat, k, [cache_date |-> now, meta |-> meta, isforce |-> forcedir, noobjcache |-> FALSE,
                                      notruncate |-> IF no_truncate THEN 1 ELSE 0]),
           symlink |-> IF meta.type = "link" THEN r.symlink ELSE Without(r.symlink, k),
           notruncate |-> IF no_truncate /\ ~k.slash THEN r.notruncate \cup {k.path} ELSE r.notruncate] :
          r \in Room(c, k)}

(* UpdateMetaStats: new headers and time, the flags stay. *)
UpdateMetaStats(c, k, meta) ==
    IF CacheSize < 1 \/ k \notin DOMAIN c.stat THEN c
    ELSE [c EXCEPT !.stat[k] = [@ EXCEPT !.meta = meta, !.cache_date = now]]

(* AddNoObjectCache. *)
AddNoObjectCache(c, k) ==
    IF ~opt.negative \/ CacheSize < 1 THEN {c}
    ELSE {[r EXCEPT !.stat = With(@, k, [cache_date |-> now, meta |-> [type |-> "none"], isforce |-> FALSE,
                                          noobjcache |-> TRUE, notruncate |-> 0]),
                    !.symlink = Without(@, k)] :
          r \in Room(c, k)}

(* ChangeNoTruncateFlag counts the flags of one entry. *)
ChangeNoTruncateFlag(c, k, no_truncate) ==
    IF k \notin DOMAIN c.stat THEN c
    ELSE LET n     == c.stat[k].notruncate
             after == IF no_truncate THEN n + 1 ELSE IF n > 0 THEN n - 1 ELSE 0
             named == IF k.slash THEN {} ELSE {k.path}
         IN  [c EXCEPT !.stat[k].notruncate = after,
                       !.notruncate = IF n = 0 /\ no_truncate THEN @ \cup named
                                      ELSE IF n = 1 /\ ~no_truncate THEN @ \ named ELSE @]

-----------------------------------------------------------------------------
(* The cache of symbolic links; its keys have no slash. *)
GetSymlink(c, k) ==
    LET hit == {x \in {k} \cap DOMAIN c.symlink : ~Expired(c.symlink[x].cache_date)}
    IN  [hit   |-> {c.symlink[x].link : x \in hit},
         cache |-> IF hit = {} THEN [c EXCEPT !.symlink = Without(@, k)]
                   ELSE IF opt.interval THEN [c EXCEPT !.symlink[k].cache_date = now] ELSE c]

DelSymlink(c, k) == [c EXCEPT !.symlink = Without(@, k)]

(* Mutant: the cache of links is never truncated. *)
TruncateSymlinkNever(c) == {c}

(* TruncateSymlink looks whether stat_cache, not symlink_cache, is empty. *)
TruncateSymlink(c) ==
    LET kept == {x \in DOMAIN c.symlink : ~Expired(c.symlink[x].cache_date)}
        n    == Cardinality(kept)
    IN  IF c.stat = << >> \/ Cardinality(DOMAIN c.symlink) < CacheSize THEN {c}
        ELSE IF n < CacheSize THEN {[c EXCEPT !.symlink = Restrict(@, kept)]}
        ELSE {[c EXCEPT !.symlink = Restrict(@, kept \ old)] :
                 old \in Oldest(c.symlink, kept, Smaller(n - CacheSize + 1, n))}

AddSymlink(c, k, target) ==
    IF CacheSize < 1 THEN {c}
    ELSE {[r EXCEPT !.symlink = With(@, k, [link |-> target, cache_date |-> now])] :
          r \in IF k \in DOMAIN c.symlink THEN {DelSymlink(c, k)} ELSE TruncateSymlink(c)}

-----------------------------------------------------------------------------
(***************************************************************************)
(* The cache on its own: any method with any arguments.                    *)
(***************************************************************************)
Tick == now < MaxTime /\ now' = now + 1 /\ UNCHANGED <<sc, opt>>

Leaves(cache) == sc' = cache /\ UNCHANGED <<opt, now>>

CallGetStat(k, overcheck) == Leaves(GetStat(sc, k, overcheck).cache)
CallIsNoObjectCache(k, overcheck) == Leaves(IsNoObjectCache(sc, k, overcheck).cache)

(* Only a key with a slash at its end is a directory without an object (forcedir). *)
CallAddStat(k, meta, no_truncate) ==
    /\ k.slash => meta.type # "link"
    /\ \E c \in AddStat(sc, k, meta, k.slash, no_truncate) : Leaves(c)

CallUpdateMetaStats(k, meta) == Leaves(UpdateMetaStats(sc, k, meta))
CallAddNoObjectCache(k) == \E c \in AddNoObjectCache(sc, k) : Leaves(c)
CallDelStat(k) == Leaves(DelStat(sc, k))

(* s3fs_release; the flag is set by AddStat alone. *)
CallChangeNoTruncateFlag(k) == Leaves(ChangeNoTruncateFlag(sc, k, FALSE))

CallGetSymlink(k) == Leaves(GetSymlink(sc, k).cache)
CallAddSymlink(k, target) == \E c \in AddSymlink(sc, k, target) : Leaves(c)
CallDelSymlink(k) == Leaves(DelSymlink(sc, k))

NextCache ==
    \/ Tick
    \/ \E k \in Keys :
          \/ \E b \in BOOLEAN : CallGetStat(k, b) \/ CallIsNoObjectCache(k, b)
          \/ \E m \in Metas, b \in BOOLEAN : CallAddStat(k, m, b)
          \/ \E m \in Metas : CallUpdateMetaStats(k, m)
          \/ CallChangeNoTruncateFlag(k)
          \/ CallAddNoObjectCache(k) \/ CallDelStat(k)
    \/ \E p \in Paths \ {Root} :
          \/ CallGetSymlink(Key(p, FALSE)) \/ CallDelSymlink(Key(p, FALSE))
          \/ \E t \in Targets : CallAddSymlink(Key(p, FALSE), t)

SpecCache == InitCache /\ [][NextCache]_cache_vars

-----------------------------------------------------------------------------
(* Types; the files readdir adds (GetNotruncateCache) are exactly those with the flag set, *)
(* through every replacement, deletion of a twin, expiry and count of the flag.            *)
CacheTypeOK ==
    /\ DOMAIN sc.stat \subseteq Keys
    /\ \A k \in DOMAIN sc.stat : sc.stat[k].notruncate \in Nat /\ sc.stat[k].cache_date <= now
    /\ \A k \in DOMAIN sc.symlink : ~k.slash /\ sc.symlink[k].cache_date <= now
    /\ sc.notruncate = {k.path : k \in {x \in DOMAIN sc.stat : ~x.slash /\ sc.stat[x].notruncate > 0}}

(***************************************************************************)
(* Making room (TruncateCache) never takes an entry that is not to be      *)
(* truncated, and takes the oldest of the others: what leaves the cache    *)
(* when a new key enters it had expired, or is no newer than any entry     *)
(* that stays and could have gone.                                         *)
(***************************************************************************)
OldestGo ==
    LET new  == DOMAIN sc'.stat \ DOMAIN sc.stat
        gone == DOMAIN sc.stat \ DOMAIN sc'.stat
        stay == {x \in DOMAIN sc.stat \cap DOMAIN sc'.stat : sc.stat[x].notruncate = 0}
    IN  new # {} =>
           \A x \in gone :
              /\ sc.stat[x].notruncate = 0
              /\ \/ EntryExpired(sc.stat[x])
                 \/ \A y \in stay : sc.stat[x].cache_date <= sc.stat[y].cache_date

OldestLeave == [][OldestGo]_cache_vars

(***************************************************************************)
(* A new entry leaves the cache with at most CacheSize entries besides     *)
(* those that are not to be truncated, and a new link leaves at most       *)
(* CacheSize links, unless stat_cache was empty (TruncateSymlink tests the *)
(* wrong cache).                                                           *)
(***************************************************************************)
GrowsToSize ==
    /\ ~(DOMAIN sc'.stat \subseteq DOMAIN sc.stat) =>
          Cardinality(DOMAIN sc'.stat) <=
             CacheSize + Cardinality({x \in DOMAIN sc.stat : sc.stat[x].notruncate > 0})
                       + (IF CacheSize = 0 THEN 1 ELSE 0)
    /\ ~(DOMAIN sc'.symlink \subseteq DOMAIN sc.symlink) =>
          sc.stat = << >> \/ Cardinality(DOMAIN sc'.symlink) <= CacheSize

GrowthBounded == [][GrowsToSize]_cache_vars

(* What makes room goes by age and keeps the caches at their size. *)
RoomIsMade == OldestLeave /\ GrowthBounded
=============================================================================
