----------------------------- MODULE PartsProofs -----------------------------
(***************************************************************************)
(* Proofs about the parts PQueue, Cache, Recovery and OutputFile of the    *)
(* library, up to the refinement of their abstract specifications.         *)
(*                                                                         *)
(* Of Cache, for every number of sets and ways, every line size and every  *)
(* set of addresses. The inductive invariant adds to the types that loads  *)
(* are counted (which bounds the counters by the clock) and that the stamps*)
(* are distinct and the lines placed once: a miss stamps a way with a time *)
(* no way has, and puts in it a line no way of the set holds, which for that*)
(* reason no way of another set holds either.                              *)
(*                                                                         *)
(* Of Recovery, for every number of frames and every set of masks. The     *)
(* three invariants are inductive together: LegacyAnchored needs the guard *)
(* of gk_siguntrap, and ActiveBelowCur the types. With them every step is a*)
(* step of BindingStack.                                                   *)
(*                                                                         *)
(* Of OutputFile, for every set of writers, every number of names and every*)
(* length of output. The inductive invariant says of each transaction what *)
(* its place in the code implies for its fields (TxOK), of its mode that it*)
(* is the destination's (ModeOK), and of the file it owns that it has that *)
(* mode and, once closed without an error, every chunk (ContentOK). That is*)
(* what makes the rename a commit of the abstract file.                    *)
(*                                                                         *)
(* Of PQueue, for every size, every set of keys and both orders: it stays a*)
(* heap, its locator stays exact, and it implements PriorityMap. An        *)
(* operation leaves a hole that moves to where an entry may stay. What the *)
(* two filters make of a heap with a hole is proved by induction over the  *)
(* places, in two parts: Moved (where the entries and the locator are) and *)
(* Risen or Sunken (their order). The recursive functions are first shown  *)
(* to be the equations they are defined by (FilterUpRuns, FilterDownRuns). *)
(* Every operation is then putting a node in, IsWith, or taking one out,   *)
(* IsWithout.                                                              *)
(***************************************************************************)
EXTENDS PQueue, Cache, Recovery, OutputFile, FiniteSetTheorems, SequenceTheorems, WellFoundedInduction,
        NaturalsInduction, TLAPS

CacheInv ==
  CacheTypeOK /\ EveryLoadCounted /\ LinesPlacedOnce /\ TimesDistinct /\ BlocksExact

(* The ways of a line are ways of the cache.                               *)
LEMMA WaysOfLine ==
  ASSUME NEW line \in Nat
  PROVE  WaysOf(line) \subseteq Way
<1> DEFINE s == line % CSize
<1>1. s \in Nat /\ s <= CSize - 1
  BY CacheConstants
<1>2. s * NWay \in Nat /\ s * NWay <= (CSize - 1) * NWay
  BY <1>1, CacheConstants
<1>3. (CSize - 1) * NWay = CSize * NWay - NWay /\ CSize * NWay \in Nat
  BY CacheConstants
<1> QED
  BY <1>2, <1>3, CacheConstants DEF WaysOf, Way

LEMMA LinesAreNaturals == Lines \subseteq Nat
BY CacheConstants DEF Lines, LineOf

(* A touched way is one of the line's; and it holds the line on a hit.     *)
LEMMA TouchedWays ==
  ASSUME NEW c, NEW line, NEW w \in Touched(c, line)
  PROVE  /\ w \in WaysOf(line)
         /\ Hits(c, line) # {} => c.latimes[w] # 0 /\ c.clines[w] = line
BY DEF Touched, First, Hits, Oldest

(* A cache of unused ways satisfies the invariant.                         *)
LEMMA EmptyIsFine ==
  /\ Empty \in CacheState /\ Empty # NoCache
  /\ \A w \in Way : Empty.latimes[w] = 0
  /\ Empty.clock = 0 /\ Empty.nhits = 0 /\ Empty.nmisses = 0
<1>1. Empty \in CacheState
  BY CacheConstants DEF Empty, CacheState
<1>2. Empty.clock = 0 /\ NoCache.clock = -1
  BY DEF Empty, NoCache
<1> QED
  BY <1>1, <1>2 DEF Empty

LEMMA FreshInv ==
  ASSUME cache' = Empty, blocks' = 3
  PROVE  CacheInv'
<1>1. LiveWays' /\ Filled' = {}
  BY EmptyIsFine DEF LiveWays, Filled
<1> QED
  BY <1>1, EmptyIsFine, CacheConstants
  DEF CacheInv, CacheTypeOK, EveryLoadCounted, LinesPlacedOnce, TimesDistinct, BlocksExact

LEMMA CacheInitInv == CacheInit => CacheInv
BY DEF CacheInit, CacheInv, CacheTypeOK, EveryLoadCounted, LinesPlacedOnce, TimesDistinct,
       BlocksExact, LiveWays

LEMMA CreateInv == CacheInv /\ gk_cacheCreate => CacheInv'
<1> SUFFICES ASSUME CacheInv, gk_cacheCreate PROVE CacheInv'
  OBVIOUS
<1>1. blocks = 0 /\ cache = NoCache
  BY DEF CacheInv, BlocksExact, LiveWays, gk_cacheCreate
<1>2. CASE cache' = Empty /\ blocks' = blocks + 3
  BY <1>1, <1>2, FreshInv
<1>3. CASE cache' = NoCache /\ blocks' = 0
  BY <1>3 DEF CacheInv, CacheTypeOK, EveryLoadCounted, LinesPlacedOnce, TimesDistinct,
              BlocksExact, LiveWays
<1> QED
  BY <1>1, <1>2, <1>3 DEF gk_cacheCreate, BlocksAfterFailure

LEMMA ResetInv == CacheInv /\ gk_cacheReset => CacheInv'
BY FreshInv DEF CacheInv, BlocksExact, LiveWays, gk_cacheReset, ResetState

LEMMA DestroyInv == CacheInv /\ gk_cacheDestroy => CacheInv'
BY DEF CacheInv, CacheTypeOK, EveryLoadCounted, LinesPlacedOnce, TimesDistinct,
       BlocksExact, LiveWays, gk_cacheDestroy

(* What a load does to a cache: the way it touches has the line and the    *)
(* newest stamp, and every other way is as it was.                         *)
LoadedAt(w, line) ==
  /\ LiveWays' /\ w \in WaysOf(line) /\ w \in Way
  /\ cache'.clock = cache.clock + 1
  /\ \A u \in Way : cache'.latimes[u] =
                       IF u = w THEN cache.clock + 1 ELSE cache.latimes[u]
  /\ \A u \in Way : cache'.clines[u] = IF u = w THEN line ELSE cache.clines[u]
  /\ Filled' = Filled \cup {w}
  /\ cache'.nhits = IF Hits(cache, line) # {} THEN cache.nhits + 1 ELSE cache.nhits
  /\ cache'.nmisses = IF Hits(cache, line) # {} THEN cache.nmisses ELSE cache.nmisses + 1

LEMMA LoadEffect ==
  ASSUME CacheInv, NEW addr \in Addr, gk_cacheLoad(addr),
         NEW line, line = LineOf(addr)
  PROVE  /\ line \in Lines /\ line \in Nat /\ blocks' = blocks /\ LiveWays
         /\ cache.clock < MaxClock
         /\ \E w \in Touched(cache, line) : LoadedAt(w, line) /\ cache' \in CacheState
<1> DEFINE hit == Hits(cache, line) # {}
<1>1. line \in Lines /\ line \in Nat
  BY LinesAreNaturals DEF Lines
<1>2. PICK w \in Touched(cache, line) : cache' = Loaded(cache, line, w)
  BY DEF gk_cacheLoad
<1>3. /\ cache \in CacheState /\ cache # NoCache /\ cache.clock < MaxClock
      /\ cache.nhits + cache.nmisses = cache.clock
      /\ blocks' = blocks
  BY DEF CacheInv, CacheTypeOK, EveryLoadCounted, LiveWays, gk_cacheLoad
<1>4. w \in WaysOf(line) /\ w \in Way /\ (hit => cache.latimes[w] # 0 /\ cache.clines[w] = line)
  BY <1>1, TouchedWays, WaysOfLine
<1>5. /\ cache.clock \in 0 .. MaxClock /\ cache.nhits \in 0 .. MaxClock
      /\ cache.nmisses \in 0 .. MaxClock
      /\ cache.clines \in [Way -> Lines \cup {0}]
      /\ cache.latimes \in [Way -> 0 .. MaxClock]
  BY <1>3 DEF CacheState
<1> DEFINE hits == IF hit THEN cache.nhits + 1 ELSE cache.nhits
           misses == IF hit THEN cache.nmisses ELSE cache.nmisses + 1
<1>6. cache' = [clines |-> [cache.clines EXCEPT ![w] = line],
                latimes |-> [cache.latimes EXCEPT ![w] = cache.clock + 1],
                clock |-> cache.clock + 1, nhits |-> hits, nmisses |-> misses]
  BY <1>2, <1>3 DEF Loaded, CacheState
<1>7. /\ hits \in 0 .. MaxClock /\ misses \in 0 .. MaxClock
      /\ hits + misses = cache.clock + 1 /\ cache.clock + 1 \in 0 .. MaxClock
  BY <1>3, <1>5, CacheConstants
<1> HIDE DEF hits, misses
<1>8. /\ [cache.clines EXCEPT ![w] = line] \in [Way -> Lines \cup {0}]
      /\ [cache.latimes EXCEPT ![w] = cache.clock + 1] \in [Way -> 0 .. MaxClock]
  BY <1>1, <1>4, <1>5, <1>7
<1>9. cache' \in CacheState /\ LiveWays'
  <2>1. cache' \in CacheState
    BY <1>6, <1>7, <1>8 DEF CacheState
  <2>2. cache'.clock # -1
    BY <1>6, <1>7
  <2> QED
    BY <2>1, <2>2 DEF LiveWays, NoCache
<1>10. /\ cache'.clock = cache.clock + 1
       /\ cache'.nhits = hits /\ cache'.nmisses = misses
       /\ \A u \in Way : cache'.latimes[u] =
                           IF u = w THEN cache.clock + 1 ELSE cache.latimes[u]
       /\ \A u \in Way : cache'.clines[u] = IF u = w THEN line ELSE cache.clines[u]
  BY <1>5, <1>6
<1>11. Filled' = Filled \cup {w}
  BY <1>4, <1>5, <1>10 DEF Filled
<1> QED
  BY <1>1, <1>2, <1>3, <1>4, <1>9, <1>10, <1>11 DEF LoadedAt, LiveWays, hits, misses

LEMMA LoadInv ==
  ASSUME CacheInv, NEW addr \in Addr, gk_cacheLoad(addr)
  PROVE  CacheInv'
<1> DEFINE line == LineOf(addr)
           hit == Hits(cache, line) # {}
<1>1. /\ line \in Lines /\ line \in Nat /\ blocks' = blocks /\ cache # NoCache
      /\ cache.clock < MaxClock
  BY LoadEffect DEF LiveWays
<1>2. PICK w \in Touched(cache, line) : LoadedAt(w, line) /\ cache' \in CacheState
  BY LoadEffect
<1> HIDE DEF line
<1>3. /\ cache \in CacheState /\ cache # NoCache
      /\ cache.nhits + cache.nmisses = cache.clock
      /\ \A u \in Way : cache.latimes[u] <= cache.clock
      /\ blocks = 3 /\ blocks' = 3
  BY <1>1 DEF CacheInv, CacheTypeOK, EveryLoadCounted, BlocksExact, LiveWays
<1>4. w \in WaysOf(line) /\ w \in Way /\ (hit => cache.latimes[w] # 0 /\ cache.clines[w] = line)
  BY <1>1, TouchedWays, WaysOfLine
<1>5. /\ cache.clock \in 0 .. MaxClock /\ cache.nhits \in 0 .. MaxClock
      /\ cache.nmisses \in 0 .. MaxClock
      /\ cache.latimes \in [Way -> 0 .. MaxClock]
  BY <1>3 DEF CacheState
<1>6. cache' \in CacheState /\ LiveWays'
  BY <1>2 DEF LoadedAt
<1>7. /\ cache'.clock = cache.clock + 1
      /\ \A u \in Way : cache'.latimes[u] =
                          IF u = w THEN cache.clock + 1 ELSE cache.latimes[u]
      /\ \A u \in Way : cache'.clines[u] = IF u = w THEN line ELSE cache.clines[u]
      /\ cache'.nhits = IF hit THEN cache.nhits + 1 ELSE cache.nhits
      /\ cache'.nmisses = IF hit THEN cache.nmisses ELSE cache.nmisses + 1
  BY <1>2 DEF LoadedAt
<1>8. Filled' = Filled \cup {w}
  BY <1>2 DEF LoadedAt
<1>9. Filled \subseteq Way
  BY DEF Filled
<1>10. CacheTypeOK'
  BY <1>3, <1>5, <1>6, <1>7 DEF CacheTypeOK
<1>11. EveryLoadCounted'
  BY <1>3, <1>5, <1>7 DEF EveryLoadCounted
<1>12. TimesDistinct'
  <2> SUFFICES ASSUME NEW u \in Filled', NEW v \in Filled',
                      cache'.latimes[u] = cache'.latimes[v]
               PROVE  u = v
    BY DEF TimesDistinct
  <2>1. u \in Way /\ v \in Way
    BY <1>4, <1>8, <1>9
  <2>2. cache.clock \in Int /\ cache.latimes[u] \in Int /\ cache.latimes[v] \in Int
    BY <1>5, <2>1
  <2>3. cache.latimes[u] < cache.clock + 1 /\ cache.latimes[v] < cache.clock + 1
    BY <1>3, <2>1, <2>2
  <2>4. u = w <=> v = w
    BY <1>7, <2>1, <2>2, <2>3
  <2>5. CASE u # w
    <3>1. u \in Filled /\ v \in Filled /\ cache.latimes[u] = cache.latimes[v]
      BY <1>7, <1>8, <2>1, <2>4, <2>5
    <3> QED
      BY <1>3, <3>1 DEF CacheInv, TimesDistinct, LiveWays
  <2> QED
    BY <2>4, <2>5
<1>13. \A u \in Filled : cache.clines[u] = line => u = w
  <2> SUFFICES ASSUME NEW u \in Filled, cache.clines[u] = line PROVE u = w
    OBVIOUS
  <2>1. u \in WaysOf(line)
    BY <1>3 DEF CacheInv, LinesPlacedOnce, LiveWays
  <2>2. u \in Hits(cache, line)
    BY <2>1 DEF Hits, Filled
  <2>3. w \in Filled /\ cache.clines[w] = line
    BY <2>2, <1>4 DEF Filled
  <2> QED
    BY <2>3, <1>3 DEF CacheInv, LinesPlacedOnce, LiveWays
<1>14. LinesPlacedOnce'
  <2>1. ASSUME NEW u \in Filled'
        PROVE  u \in WaysOf(cache'.clines[u])
    BY <2>1, <1>3, <1>4, <1>7, <1>8, <1>9 DEF CacheInv, LinesPlacedOnce, LiveWays
  <2>2. ASSUME NEW u \in Filled', NEW v \in Filled', cache'.clines[u] = cache'.clines[v]
        PROVE  u = v
    <3>1. u \in Way /\ v \in Way
      BY <1>4, <1>8, <1>9
    <3>2. u = w <=> v = w
      BY <1>7, <1>8, <1>13, <2>2, <3>1
    <3>3. CASE u # w
      <4>1. u \in Filled /\ v \in Filled /\ cache.clines[u] = cache.clines[v]
        BY <1>7, <1>8, <2>2, <3>1, <3>2, <3>3
      <4> QED
        BY <1>3, <4>1 DEF CacheInv, LinesPlacedOnce, LiveWays
    <3> QED
      BY <3>2, <3>3
  <2> QED
    BY <2>1, <2>2 DEF LinesPlacedOnce, WaysOf
<1> QED
  BY <1>3, <1>6, <1>10, <1>11, <1>12, <1>14 DEF CacheInv, BlocksExact

LEMMA CacheNextInv == CacheInv /\ [CacheNext]_cacheVars => CacheInv'
<1> SUFFICES ASSUME CacheInv, [CacheNext]_cacheVars PROVE CacheInv'
  OBVIOUS
<1>1. CASE gk_cacheCreate
  BY <1>1, CreateInv
<1>2. CASE gk_cacheReset
  BY <1>2, ResetInv
<1>3. CASE gk_cacheDestroy
  BY <1>3, DestroyInv
<1>4. CASE \E addr \in Addr : gk_cacheLoad(addr)
  BY <1>4, LoadInv
<1>5. CASE UNCHANGED cacheVars
  BY <1>5 DEF cacheVars, CacheInv, CacheTypeOK, EveryLoadCounted, LinesPlacedOnce,
              TimesDistinct, BlocksExact, LiveWays, Filled
<1> QED
  BY <1>1, <1>2, <1>3, <1>4, <1>5 DEF CacheNext

(* The invariant is inductive: it holds in every run of the simulator.     *)
THEOREM CacheSpecInv == CacheSpec => []CacheInv
BY CacheInitInv, CacheNextInv, PTL DEF CacheSpec

(* The types hold in every run: no stamp is in the future and the counters *)
(* stay within the clock of src/src/cache.c.                               *)
THEOREM CacheTypeCorrect == CacheSpec => []CacheTypeOK
<1>1. CacheInv => CacheTypeOK
  BY DEF CacheInv
<1> QED
  BY <1>1, CacheSpecInv, PTL

(* A line is in one way at most, and in a way of its own set, and no two   *)
(* ways have the same time stamp, so that the way gk_cacheLoad replaces is *)
(* determined, after any history of loads and resets.                      *)
THEOREM WaysTheorem == CacheSpec => []WaysSound
<1>1. CacheInv => WaysSound
  BY DEF CacheInv, WaysSound
<1> QED
  BY <1>1, CacheSpecInv, PTL
-----------------------------------------------------------------------------
(* The refinement of LRUSets. The lines held are in one-to-one             *)
(* correspondence with the ways in use, the rivals of a line with those in *)
(* use of its set, and the order of the stamps is that of the last loads.  *)

(* Two sets have no way in common.                                         *)
LEMMA SetsDisjoint ==
  ASSUME NEW k \in Nat, NEW l \in Nat, NEW w, w \in WaysOf(k), w \in WaysOf(l)
  PROVE  k % CSize = l % CSize
<1> DEFINE a == k % CSize
           b == l % CSize
<1>1. a \in Nat /\ b \in Nat /\ NWay \in Nat
  BY CacheConstants
<1>2. a * NWay \in Nat /\ b * NWay \in Nat
  BY <1>1
<1>3. /\ w \in Int /\ a * NWay <= w /\ w < a * NWay + NWay
      /\ b * NWay <= w /\ w < b * NWay + NWay
  BY <1>1, <1>2 DEF WaysOf
<1> HIDE DEF a, b
<1>4. ASSUME NEW c \in Nat, NEW d \in Nat, c < d PROVE c * NWay + NWay <= d * NWay
  <2>1. PICK e \in Nat : d = c + 1 + e
    <3>1. d - c - 1 \in Nat /\ d = c + 1 + (d - c - 1)
      BY <1>4
    <3> QED BY <3>1
  <2>2. d * NWay = c * NWay + NWay + e * NWay
    BY <1>1, <2>1
  <2>3. e * NWay \in Nat /\ c * NWay \in Nat
    BY <1>1
  <2> QED BY <1>1, <2>2, <2>3
<1>5. ~(a < b)
  BY <1>1, <1>2, <1>3, <1>4
<1>6. ~(b < a)
  BY <1>1, <1>2, <1>3, <1>4
<1>7. a = b
  BY <1>1, <1>5, <1>6
<1> QED BY <1>7 DEF a, b

(* A way in use belongs to the set of a line if its line does.             *)
LEMMA InUseOfSet ==
  ASSUME CacheInv, LiveWays, NEW line \in Nat, NEW u \in Filled
  PROVE  cache.clines[u] % CSize = line % CSize <=> u \in WaysOf(line)
<1>1. u \in WaysOf(cache.clines[u])
  BY DEF CacheInv, LinesPlacedOnce
<1>2. cache.clines[u] \in Nat
  <2>1. u \in Way /\ cache.clines \in [Way -> Lines \cup {0}]
    BY DEF CacheInv, CacheTypeOK, CacheState, Filled
  <2>2. cache.clines[u] \in Lines \cup {0}
    BY <2>1
  <2>3. \A l \in Lines \cup {0} : l \in Nat
    BY LinesAreNaturals
  <2> QED BY <2>2, <2>3
<1>3. ASSUME cache.clines[u] % CSize = line % CSize PROVE u \in WaysOf(line)
  BY <1>1, <1>3 DEF WaysOf
<1>4. ASSUME u \in WaysOf(line) PROVE cache.clines[u] % CSize = line % CSize
  BY <1>1, <1>2, <1>4, SetsDisjoint
<1> QED BY <1>3, <1>4

(* The lines of a set are as many as its ways in use.                      *)
LEMMA RivalsCounted ==
  ASSUME CacheInv, LiveWays, NEW line \in Nat,
         NEW R, R = {cache.clines[u] : u \in WaysOf(line) \cap Filled}
  PROVE  Cardinality(R) < NWay <=> \E u \in WaysOf(line) : cache.latimes[u] = 0
<1> DEFINE W == WaysOf(line)
           F == W \cap Filled
           f == [u \in F |-> cache.clines[u]]
<1>1. IsFiniteSet(W) /\ Cardinality(W) = NWay
  <2> DEFINE a == (line % CSize) * NWay
  <2>1. a \in Int
    <3>1. line % CSize \in Int
      BY CacheConstants
    <3> QED BY <3>1, CacheConstants
  <2> HIDE DEF a
  <2>2. a + NWay - 1 \in Int /\ a <= a + NWay - 1 /\ (a + NWay - 1) - a + 1 = NWay
    BY <2>1, CacheConstants
  <2>3. W = a .. (a + NWay - 1)
    BY DEF WaysOf, a
  <2> HIDE DEF W
  <2>4. PICK b \in Int : b = a + NWay - 1
    BY <2>2
  <2>5. IsFiniteSet(a .. b) /\ Cardinality(a .. b) = (IF a > b THEN 0 ELSE b - a + 1)
    BY <2>1, <2>4, FS_Interval
  <2>6. b - a + 1 = NWay /\ ~(a > b) /\ W = a .. b
    BY <2>1, <2>2, <2>3, <2>4
  <2> QED BY <2>5, <2>6
<1>2. F \subseteq W /\ IsFiniteSet(F) /\ Cardinality(F) <= NWay
      /\ (Cardinality(F) = NWay => F = W)
  BY <1>1, FS_Subset
<1>3. f \in Bijection(F, R)
  <2>1. \A u, v \in F : cache.clines[u] = cache.clines[v] => u = v
    BY DEF CacheInv, LinesPlacedOnce
  <2>2. f \in [F -> R]
    OBVIOUS
  <2>3. \A r \in R : \E u \in F : f[u] = r
    OBVIOUS
  <2>4. IsInjective(f)
    BY <2>1 DEF IsInjective
  <2> QED BY <2>2, <2>3, <2>4 DEF Bijection, Injection, Surjection
<1>4. Cardinality(R) = Cardinality(F)
  BY <1>2, <1>3, FS_Bijection DEF ExistsBijection
<1>5. Cardinality(F) \in Nat /\ NWay \in Nat
  BY <1>2, FS_CardinalityType, CacheConstants
<1>6. F = W <=> ~ \E u \in W : cache.latimes[u] = 0
  BY WaysOfLine DEF Filled
<1>7. F = W => Cardinality(F) = NWay
  BY <1>1
<1> HIDE DEF F, W
<1>8. Cardinality(F) < NWay <=> F # W
  BY <1>2, <1>5, <1>7
<1> QED BY <1>4, <1>6, <1>8 DEF W

(* A cache whose ways are all unused is the cleared one.                   *)
LEMMA Clears ==
  ASSUME cache' = NoCache \/ cache' = Empty
  PROVE  LRU!Clear
<1>1. InUse' = {}
  BY EmptyIsFine DEF InUse, Filled, LiveWays
<1>2. Earlier' = {}
  BY <1>1 DEF Earlier
<1>3. LiveWays' => cache'.nhits = 0 /\ cache'.nmisses = 0
  BY EmptyIsFine DEF LiveWays
<1> QED BY <1>1, <1>2, <1>3 DEF LRU!Clear

(* A load is one of the textbook cache: the lines kept, K, are those of    *)
(* the ways other than the one touched, on a hit, with a way left, and     *)
(* when the oldest is evicted.                                             *)
LEMMA LoadIsLoad ==
  ASSUME CacheInv, NEW addr \in Addr, gk_cacheLoad(addr)
  PROVE  LRU!Load(LineOf(addr))
<1> DEFINE H == {cache.clines[u] : u \in InUse}
           B == {<<cache.clines[p[1]], cache.clines[p[2]]>> : p \in Earlier}
<1>1. PICK line : line = LineOf(addr)
  OBVIOUS
<1>2. /\ line \in Lines /\ line \in Nat /\ LiveWays /\ cache.clock < MaxClock
      /\ \E w \in Touched(cache, line) : LoadedAt(w, line) /\ cache' \in CacheState
  BY <1>1, LoadEffect
<1>3. PICK w \in Touched(cache, line) : LoadedAt(w, line)
  BY <1>2
<1>4. InUse = Filled /\ InUse' = Filled \cup {w} /\ LiveWays'
  BY <1>2, <1>3 DEF InUse, LoadedAt
<1>5. Filled \subseteq Way /\ w \in Way /\ w \in WaysOf(line) /\ WaysOf(line) \subseteq Way
  BY <1>2, <1>3, WaysOfLine DEF Filled, LoadedAt
<1>6. /\ cache.clock \in Nat
      /\ \A u \in Way : cache.latimes[u] \in Nat /\ cache.latimes[u] <= cache.clock
  <2>1. cache \in CacheState
    BY <1>2 DEF CacheInv, CacheTypeOK
  <2> QED BY <1>2, <2>1, CacheConstants DEF CacheInv, CacheTypeOK, CacheState
<1>7. \A u, v \in Filled : cache.clines[u] = cache.clines[v] => u = v
  BY <1>2 DEF CacheInv, LinesPlacedOnce
<1>8. line \in H <=> Hits(cache, line) # {}
  <2>1. ASSUME NEW u \in Filled, cache.clines[u] = line PROVE u \in Hits(cache, line)
    BY <1>2, <2>1 DEF CacheInv, LinesPlacedOnce, Hits, Filled
  <2>2. ASSUME NEW u \in Hits(cache, line) PROVE u \in Filled /\ cache.clines[u] = line
    BY <1>5 DEF Hits, Filled
  <2> QED BY <1>4, <2>1, <2>2
<1> DEFINE R == {l \in H : l % CSize = line % CSize}
<1>9. R = {cache.clines[u] : u \in WaysOf(line) \cap Filled}
  BY <1>2, <1>4, InUseOfSet
<1>10. Cardinality(R) < NWay <=> \E u \in WaysOf(line) : cache.latimes[u] = 0
  BY <1>2, <1>9, RivalsCounted
<1>11. ASSUME NEW u \in Filled, NEW v \in Filled
       PROVE  <<cache.clines[u], cache.clines[v]>> \in B <=> cache.latimes[u] < cache.latimes[v]
  <2>1. ASSUME cache.latimes[u] < cache.latimes[v]
        PROVE  <<cache.clines[u], cache.clines[v]>> \in B
    <3>1. <<u, v>> \in Earlier
      BY <1>4, <2>1 DEF Earlier
    <3> QED BY <3>1
  <2>2. ASSUME NEW p \in Earlier,
               <<cache.clines[u], cache.clines[v]>> = <<cache.clines[p[1]], cache.clines[p[2]]>>
        PROVE  cache.latimes[u] < cache.latimes[v]
    <3>1. p[1] \in Filled /\ p[2] \in Filled /\ cache.latimes[p[1]] < cache.latimes[p[2]]
      BY <1>4 DEF Earlier
    <3> QED BY <1>7, <2>2, <3>1
  <2> QED BY <2>1, <2>2
<1> DEFINE E == IF line \in H \/ Cardinality(R) < NWay THEN {}
                ELSE {l \in R : \A m \in R : <<m, l>> \notin B}
           K == (H \ E) \ {line}
<1> HIDE DEF H, B
<1>12. H = {cache.clines[u] : u \in Filled}
  BY <1>4 DEF H
<1> HIDE DEF R
<1>13. K = {cache.clines[u] : u \in Filled \ {w}}
  <2>1. CASE Hits(cache, line) # {}
    <3>1. w \in Filled /\ cache.clines[w] = line /\ E = {}
      BY <1>5, <1>8, <2>1, TouchedWays DEF Filled
    <3> QED BY <1>7, <1>12, <3>1
  <2>2. CASE Hits(cache, line) = {} /\ \E u \in WaysOf(line) : cache.latimes[u] = 0
    <3>1. cache.latimes[w] = 0
      BY <2>2 DEF Touched, First
    <3>2. E = {} /\ line \notin H /\ w \notin Filled
      BY <1>8, <1>10, <2>2, <3>1 DEF Filled
    <3> QED BY <1>12, <3>2
  <2>3. CASE Hits(cache, line) = {} /\ ~ \E u \in WaysOf(line) : cache.latimes[u] = 0
    <3>1. \A u \in WaysOf(line) : u \in Filled /\ cache.latimes[w] <= cache.latimes[u]
      BY <1>5, <2>3 DEF Touched, First, Oldest, Filled
    <3>2. line \notin H /\ E = {l \in R : \A m \in R : <<m, l>> \notin B}
      BY <1>8, <1>10, <2>3
    <3>3. R = {cache.clines[u] : u \in WaysOf(line)}
      BY <1>9, <3>1
    <3>4. cache.clines[w] \in E
      <4>1. \A u \in WaysOf(line) : ~ (cache.latimes[u] < cache.latimes[w])
        BY <1>5, <1>6, <3>1
      <4>2. \A u \in WaysOf(line) : <<cache.clines[u], cache.clines[w]>> \notin B
        BY <1>5, <1>11, <3>1, <4>1
      <4> HIDE DEF E
      <4> QED BY <1>5, <3>2, <3>3, <4>2
    <3>5. ASSUME NEW u \in WaysOf(line), cache.clines[u] \in E PROVE u = w
      <4>1. <<cache.clines[w], cache.clines[u]>> \notin B
        BY <1>5, <3>2, <3>3, <3>5
      <4>2. ~ (cache.latimes[w] < cache.latimes[u])
        BY <1>5, <1>11, <3>1, <4>1
      <4>3. cache.latimes[w] = cache.latimes[u]
        BY <1>5, <1>6, <3>1, <4>2
      <4> QED BY <1>2, <1>5, <3>1, <4>3 DEF CacheInv, TimesDistinct
    <3>6. E = {cache.clines[w]}
      <4>1. E \subseteq R
        BY <3>2
      <4> HIDE DEF E
      <4> QED BY <3>3, <3>4, <3>5, <4>1
    <3> HIDE DEF E
    <3>7. H \ {cache.clines[w]} = {cache.clines[u] : u \in Filled \ {w}}
      BY <1>5, <1>7, <1>12, <3>1
    <3>8. line \notin H \ {cache.clines[w]}
      BY <3>2
    <3> QED BY <3>6, <3>7, <3>8
  <2> QED BY <2>1, <2>2, <2>3
<1> HIDE DEF E, K
<1>14. /\ cache'.clines[w] = line /\ cache'.latimes[w] = cache.clock + 1
       /\ \A u \in Filled \ {w} : /\ cache'.clines[u] = cache.clines[u]
                                  /\ cache'.latimes[u] = cache.latimes[u]
  BY <1>3, <1>5 DEF LoadedAt
<1>15. {cache'.clines[u] : u \in InUse'} = K \cup {line}
  BY <1>4, <1>13, <1>14
<1>16. Earlier' = {p \in (Filled \cup {w}) \X (Filled \cup {w}) :
                     cache'.latimes[p[1]] < cache'.latimes[p[2]]}
  BY <1>4 DEF Earlier
<1>17. ASSUME NEW u \in Filled \cup {w}, NEW v \in Filled \cup {w}
       PROVE  cache'.latimes[u] < cache'.latimes[v]
                <=> u # w /\ (v = w \/ cache.latimes[u] < cache.latimes[v])
  <2>1. /\ cache.latimes[u] \in Nat /\ cache.latimes[u] <= cache.clock
        /\ cache.latimes[v] \in Nat /\ cache.latimes[v] <= cache.clock
    BY <1>5, <1>6
  <2> QED BY <1>6, <1>14, <2>1
<1>18. {<<cache'.clines[p[1]], cache'.clines[p[2]]>> : p \in Earlier'}
         = (B \cap (K \X K)) \cup (K \X {line})
  <2> DEFINE N == {<<cache'.clines[p[1]], cache'.clines[p[2]]>> : p \in Earlier'}
  <2>1. ASSUME NEW p \in Earlier'
        PROVE  <<cache'.clines[p[1]], cache'.clines[p[2]]>>
                 \in (B \cap (K \X K)) \cup (K \X {line})
    <3>1. PICK u \in Filled \cup {w}, v \in Filled \cup {w} :
            u = p[1] /\ v = p[2] /\ cache'.latimes[u] < cache'.latimes[v]
      BY <1>16
    <3>2. u \in Filled \ {w} /\ (v = w \/ (v \in Filled \ {w} /\ cache.latimes[u] < cache.latimes[v]))
      BY <1>17, <3>1
    <3>3. cache'.clines[u] = cache.clines[u] /\ cache.clines[u] \in K
      BY <1>13, <1>14, <3>2
    <3>4. CASE v = w
      BY <1>14, <3>1, <3>3, <3>4
    <3>5. CASE v \in Filled \ {w} /\ cache.latimes[u] < cache.latimes[v]
      <4>1. cache'.clines[v] = cache.clines[v] /\ cache.clines[v] \in K
        BY <1>13, <1>14, <3>5
      <4>2. <<cache.clines[u], cache.clines[v]>> \in B
        BY <1>11, <3>2, <3>5
      <4> QED BY <3>1, <3>3, <4>1, <4>2
    <3> QED BY <3>2, <3>4, <3>5
  <2>2. ASSUME NEW k \in K PROVE <<k, line>> \in N
    <3>1. PICK u \in Filled \ {w} : k = cache.clines[u]
      BY <1>13
    <3>2. <<u, w>> \in Earlier'
      BY <1>16, <1>17, <3>1
    <3> QED BY <1>14, <3>1, <3>2
  <2>3. ASSUME NEW k \in K, NEW l \in K, <<k, l>> \in B PROVE <<k, l>> \in N
    <3>1. PICK u \in Filled \ {w}, v \in Filled \ {w} :
            k = cache.clines[u] /\ l = cache.clines[v]
      BY <1>13
    <3>2. cache.latimes[u] < cache.latimes[v]
      BY <1>11, <2>3, <3>1
    <3>3. <<u, v>> \in Earlier'
      BY <1>16, <1>17, <3>1, <3>2
    <3> QED BY <1>14, <3>1, <3>3
  <2>4. N \subseteq (B \cap (K \X K)) \cup (K \X {line})
    BY <2>1
  <2> HIDE DEF N
  <2>5. (B \cap (K \X K)) \cup (K \X {line}) \subseteq N
    BY <2>2, <2>3
  <2>6. N = (B \cap (K \X K)) \cup (K \X {line})
    BY <2>4, <2>5
  <2> QED BY <2>6 DEF N
<1>19. /\ cache'.nhits = cache.nhits + (IF line \in H THEN 1 ELSE 0)
       /\ cache'.nmisses = cache.nmisses + (IF line \in H THEN 0 ELSE 1)
  <2>1. cache.nhits \in Nat /\ cache.nmisses \in Nat
    <3>1. cache \in CacheState
      BY <1>2 DEF CacheInv, CacheTypeOK
    <3> QED BY <3>1, CacheConstants DEF CacheState
  <2> QED BY <1>3, <1>8, <2>1 DEF LoadedAt
<1>20. LRU!Evicted(line) = E
  <2>1. LRU!Rivals(line) = R
    BY DEF LRU!Rivals, H, R
  <2>2. LRU!Evicted(line) =
          IF line \in H \/ Cardinality(LRU!Rivals(line)) < NWay THEN {}
          ELSE {l \in LRU!Rivals(line) : \A m \in LRU!Rivals(line) : <<m, l>> \notin B}
    <3>1. \A S : LRU!Cardinality(S) = Cardinality(S)
      BY DEF LRU!Cardinality, Cardinality
    <3> QED BY <3>1 DEF LRU!Evicted, H, B
  <2> QED BY <2>1, <2>2 DEF E
<1>21. K = (H \ LRU!Evicted(line)) \ {line}
  BY <1>20 DEF K
<1>22. LRU!Load(line) <=>
         /\ {cache'.clines[u] : u \in InUse'} = K \cup {line}
         /\ {<<cache'.clines[p[1]], cache'.clines[p[2]]>> : p \in Earlier'}
              = (B \cap (K \X K)) \cup (K \X {line})
         /\ cache'.nhits = cache.nhits + (IF line \in H THEN 1 ELSE 0)
         /\ cache'.nmisses = cache.nmisses + (IF line \in H THEN 0 ELSE 1)
  BY <1>2, <1>4, <1>21 DEF LRU!Load, H, B
<1> QED BY <1>1, <1>15, <1>18, <1>19, <1>22

LEMMA InitRefines == CacheInit => LRU!Init
BY DEF CacheInit, LRU!Init, InUse, Earlier, LiveWays

LEMMA NextRefines == CacheInv /\ [CacheNext]_cacheVars => [LRU!Next]_LRU!lvars
<1> SUFFICES ASSUME CacheInv, [CacheNext]_cacheVars PROVE [LRU!Next]_LRU!lvars
  OBVIOUS
<1>1. CASE gk_cacheCreate \/ gk_cacheReset \/ gk_cacheDestroy
  <2>1. cache' = NoCache \/ cache' = Empty
    BY <1>1 DEF gk_cacheCreate, gk_cacheReset, gk_cacheDestroy, ResetState
  <2> QED BY <2>1, Clears DEF LRU!Next
<1>2. ASSUME NEW addr \in Addr, gk_cacheLoad(addr) PROVE LRU!Next
  BY <1>2, LoadIsLoad DEF LRU!Next, Lines
<1>3. CASE UNCHANGED cacheVars
  BY <1>3 DEF cacheVars, LRU!lvars, InUse, Earlier, Filled, LiveWays
<1> QED BY <1>1, <1>2, <1>3 DEF CacheNext

(* For every geometry and every history of loads and resets, the simulator *)
(* of src/src/cache.c is the textbook cache: it hits when the textbook     *)
(* hits, and what it evicts is the line of the set loaded longest ago.     *)
THEOREM LRUTheorem == CacheSpec => LRUSpec
BY InitRefines, NextRefines, CacheSpecInv, PTL DEF CacheSpec, LRUSpec, LRU!Spec

-----------------------------------------------------------------------------
(* The stack of recovery bindings.                                         *)

RecoveryInv == RecoveryTypeOK /\ ActiveBelowCur /\ LegacyAnchored

LEMMA RecoveryInitInv == RecoveryInit => RecoveryInv
  <1> SUFFICES ASSUME RecoveryInit PROVE RecoveryInv
    OBVIOUS
  <1> USE JbufsPositive DEF RecoveryInit
  <1>1. RecoveryTypeOK
    BY DEF RecoveryTypeOK, Frames
  <1>2. ActiveBelowCur
    BY DEF ActiveBelowCur, Frames
  <1>3. LegacyAnchored
    BY DEF LegacyAnchored
  <1> QED
    BY <1>1, <1>2, <1>3 DEF RecoveryInv

(* Steps that leave the bindings alone keep the invariant, whatever they   *)
(* do to the mask, the process and the place of control.                   *)
LEMMA SameBindings ==
  ASSUME RecoveryInv, UNCHANGED bindings, mask' \in Mask, alive' \in BOOLEAN
  PROVE  RecoveryInv'
  BY DEF RecoveryInv, RecoveryTypeOK, ActiveBelowCur, LegacyAnchored, bindings

LEMMA RecoveryStepInv == RecoveryInv /\ [RecoveryNext]_recoveryVars => RecoveryInv'
  <1> SUFFICES ASSUME RecoveryInv, [RecoveryNext]_recoveryVars PROVE RecoveryInv'
    OBVIOUS
  <1> USE JbufsPositive
  <1>t. RecoveryTypeOK /\ ActiveBelowCur /\ LegacyAnchored
    BY DEF RecoveryInv
  <1>r. ASSUME NEW op, Refuses(op) PROVE RecoveryInv'
    BY <1>r, <1>t, SameBindings DEF Refuses, Returns, RecoveryTypeOK
  <1>j. ASSUME JumpOrRaise PROVE RecoveryInv'
    <2>1. UNCHANGED bindings
      BY <1>j DEF JumpOrRaise, gk_NonLocalExit_Handler, Resume, Raise, Die, Returns
    <2>2. alive' \in BOOLEAN
      BY <1>j, <1>t DEF JumpOrRaise, gk_NonLocalExit_Handler, Resume, Raise, Die,
         Returns, RecoveryTypeOK
    <2>3. mask' \in Mask
      BY <1>j, <1>t DEF JumpOrRaise, gk_NonLocalExit_Handler, gk_restore_mask, FrameInForce,
         Resume, Raise, Die, Returns, RecoveryTypeOK
    <2> QED
      BY <2>1, <2>2, <2>3, SameBindings
  <1>1. CASE gk_sigtrap
    <2> SUFFICES ASSUME CanTrap,
                        cur' = cur + 1,
                        active' = [active EXCEPT ![cur + 1] = TRUE],
                        masks' = [masks EXCEPT ![cur + 1] = mask],
                        UNCHANGED <<legacy, mask, alive>>
                 PROVE  RecoveryInv'
      BY <1>1, <1>r DEF gk_sigtrap, gk_save_mask, Returns
    <2>1. cur \in -1 .. MaxJbufs - 2 /\ cur + 1 \in Frames
      BY <1>t DEF RecoveryTypeOK, CanTrap, Frames
    <2>2. RecoveryTypeOK'
      BY <1>t, <2>1 DEF RecoveryTypeOK
    <2>3. ActiveBelowCur'
      BY <1>t, <2>1 DEF RecoveryTypeOK, ActiveBelowCur, Frames
    <2>4. LegacyAnchored'
      BY <1>t, <2>1 DEF RecoveryTypeOK, LegacyAnchored
    <2> QED
      BY <2>2, <2>3, <2>4 DEF RecoveryInv
  <1>2. CASE gk_siguntrap
    <2> SUFFICES ASSUME CanUntrap,
                        mask' = masks[cur],
                        active' = [active EXCEPT ![cur] = FALSE],
                        cur' = cur - 1,
                        UNCHANGED <<masks, legacy, alive>>
                 PROVE  RecoveryInv'
      BY <1>2, <1>r DEF gk_siguntrap, gk_restore_mask, Returns
    <2>1. cur \in Frames /\ (legacy.on => legacy.depth < cur)
      BY <1>t DEF RecoveryTypeOK, CanUntrap, FrameInForce, LegacyInnermost, Frames
    <2>2. RecoveryTypeOK'
      BY <1>t, <2>1 DEF RecoveryTypeOK, Frames
    <2>3. ActiveBelowCur'
      BY <1>t, <2>1 DEF RecoveryTypeOK, ActiveBelowCur, Frames
    <2>4. LegacyAnchored'
      BY <1>t, <2>1 DEF RecoveryTypeOK, LegacyAnchored, Frames
    <2> QED
      BY <2>2, <2>3, <2>4 DEF RecoveryInv
  <1>3. CASE gk_SetSignalHandlers
    <2> SUFFICES ASSUME legacy' = [on |-> TRUE, depth |-> cur, mask |-> mask],
                        UNCHANGED <<cur, active, masks, mask, alive>>
                 PROVE  RecoveryInv'
      BY <1>3, <1>r DEF gk_SetSignalHandlers, gk_save_mask, Returns
    <2> QED
      BY <1>t DEF RecoveryInv, RecoveryTypeOK, ActiveBelowCur, LegacyAnchored
  <1>4. CASE gk_UnsetSignalHandlers
    <2> SUFFICES ASSUME mask' = legacy.mask,
                        legacy' = [legacy EXCEPT !.on = FALSE, !.depth = -1],
                        UNCHANGED <<cur, active, masks, alive>>
                 PROVE  RecoveryInv'
      BY <1>4, <1>r DEF gk_UnsetSignalHandlers, gk_restore_mask, Returns
    <2>1. legacy' = [on |-> FALSE, depth |-> -1, mask |-> legacy.mask]
      BY <1>t DEF RecoveryTypeOK
    <2>a. legacy.mask \in Mask /\ -1 \in -1 .. MaxJbufs - 1
      BY <1>t DEF RecoveryTypeOK
    <2>b. legacy' \in [on : BOOLEAN, depth : -1 .. MaxJbufs - 1, mask : Mask]
      BY <2>1, <2>a
    <2>2. RecoveryTypeOK'
      BY <1>t, <2>a, <2>b DEF RecoveryTypeOK
    <2>3. ActiveBelowCur'
      BY <1>t DEF ActiveBelowCur
    <2>4. LegacyAnchored'
      BY <2>1 DEF LegacyAnchored
    <2> QED
      BY <2>2, <2>3, <2>4 DEF RecoveryInv
  <1>5. CASE gk_sigthrow
    BY <1>5, <1>j DEF gk_sigthrow
  <1>6. CASE LegacyJump
    BY <1>6, <1>j DEF LegacyJump, JumpOrRaise
  <1>7. ASSUME NEW exits \in BOOLEAN, NEW ours \in BOOLEAN, gk_errexit(exits, ours)
        PROVE  RecoveryInv'
    <2>1. CASE ~exits
      BY <1>7, <2>1, <1>r DEF gk_errexit
    <2>2. CASE Raise
      BY <2>2, <1>t, SameBindings DEF Raise, Die, Returns, RecoveryTypeOK
    <2>3. CASE JumpOrRaise
      BY <2>3, <1>j
    <2>4. ~exits \/ Raise \/ JumpOrRaise
      BY <1>7, Zenon DEF gk_errexit
    <2> QED
      BY <2>1, <2>2, <2>3, <2>4
  <1>e. ASSUME NEW exits \in BOOLEAN, errexit(exits) PROVE RecoveryInv'
    <2>1. CASE Die
      BY <2>1, <1>t, SameBindings DEF Die, RecoveryTypeOK
    <2> QED
      BY <1>e, <1>r, <2>1 DEF errexit
  <1>8. ASSUME NEW m \in Mask, SetMask(m) PROVE RecoveryInv'
    BY <1>8, <1>t, SameBindings DEF SetMask, Returns, RecoveryTypeOK
  <1>9. CASE UNCHANGED recoveryVars
    BY <1>9, <1>t, SameBindings DEF recoveryVars, bindings, RecoveryTypeOK
  <1> QED
    BY <1>1, <1>2, <1>3, <1>4, <1>5, <1>6, <1>7, <1>e, <1>8, <1>9
    DEF RecoveryNext, ExitOnError

(* The invariant behind every other fact about the protocol.               *)
THEOREM RecoverySpecInv == RecoverySpec => []RecoveryInv
  BY RecoveryInitInv, RecoveryStepInv, PTL DEF RecoverySpec

(* gk_cur_jbufs stays within gk_jbufs, and flags and masks keep their types*)
(* through every order of bindings, releases, refusals and jumps.          *)
THEOREM RecoveryTypeCorrect == RecoverySpec => []RecoveryTypeOK
  <1>1. RecoveryInv => RecoveryTypeOK
    BY DEF RecoveryInv
  <1> QED
    BY <1>1, RecoverySpecInv, PTL

(* The active frames are exactly those up to gk_cur_jbufs, and no frame    *)
(* older than the legacy binding is released before it.                    *)
THEOREM BindingsTheorem == RecoverySpec => []BindingsSound
  <1>1. RecoveryInv => BindingsSound
    BY DEF RecoveryInv, BindingsSound
  <1> QED
    BY <1>1, RecoverySpecInv, PTL
-----------------------------------------------------------------------------
(* The stack that the bindings are, and what is known of its members.      *)
Depth == cur + 1 + (IF legacy.on THEN 1 ELSE 0)
Binding == [kind : {"modern", "legacy"}, mask : Mask]
Legacy == [kind |-> "legacy", mask |-> legacy.mask]
OpenFacts ==
  /\ cur \in -1 .. MaxJbufs - 1 /\ Depth \in Nat /\ Older \in 0 .. cur + 1
  /\ legacy.on \/ Older = cur + 1
  /\ Open \in Seq(Binding) /\ Len(Open) = Depth
  /\ \A k \in 1 .. Depth :
       /\ k <= Older => Open[k] = Modern(k - 1)
       /\ k = Older + 1 => Open[k] = Legacy
       /\ k > Older + 1 => Open[k] = Modern(k - 2)

LEMMA OpenIsStack == RecoveryInv => OpenFacts
  <1> SUFFICES ASSUME RecoveryInv PROVE OpenFacts
    OBVIOUS
  <1> USE JbufsPositive
  <1>1. /\ cur \in -1 .. MaxJbufs - 1 /\ masks \in [Frames -> Mask] /\ legacy.mask \in Mask
        /\ legacy.on \in BOOLEAN /\ legacy.depth \in -1 .. MaxJbufs - 1
        /\ legacy.on => legacy.depth <= cur
    BY DEF RecoveryInv, RecoveryTypeOK, LegacyAnchored
  <1>2. /\ Depth \in Nat /\ Older \in 0 .. cur + 1
        /\ legacy.on \/ Older = cur + 1
        /\ legacy.on => Depth = cur + 2
        /\ ~legacy.on => Depth = cur + 1
    BY <1>1 DEF Depth, Older
  <1>3. Open = [k \in 1 .. Depth |-> IF k <= Older THEN Modern(k - 1)
                                    ELSE IF k = Older + 1 THEN Legacy ELSE Modern(k - 2)]
    BY DEF Open, Depth, Legacy
  <1>4. ASSUME NEW k \in 1 .. Depth PROVE Open[k] \in Binding
    <2>1. CASE k <= Older
      BY <1>1, <1>2, <1>3, <2>1 DEF Modern, Frames, Binding
    <2>2. CASE k = Older + 1
      BY <1>1, <1>2, <1>3, <2>2 DEF Legacy, Binding
    <2>3. CASE k > Older + 1
      BY <1>1, <1>2, <1>3, <2>3 DEF Modern, Frames, Binding
    <2> QED
      BY <1>2, <2>1, <2>2, <2>3
  <1>5. Open \in [1 .. Depth -> Binding]
    BY <1>3, <1>4
  <1>6. Open \in Seq(Binding) /\ Len(Open) = Depth
    <2>1. Open \in Seq(Binding)
      BY <1>2, <1>5, SeqDef
    <2>2. 1 .. Len(Open) = 1 .. Depth /\ Len(Open) \in Nat
      BY <2>1, <1>5, LenProperties
    <2> QED
      BY <2>1, <2>2, <1>2
  <1> QED
    BY <1>1, <1>2, <1>3, <1>6 DEF OpenFacts

LEMMA SameCardinality == \A S : Stack!Cardinality(S) = Cardinality(S)
  BY DEF Stack!Cardinality, Cardinality

(* How many bindings of a kind there are: there is room for another modern *)
(* one while gk_cur_jbufs has, and for a legacy one while there is none.   *)
LEMMA RoomThere ==
  ASSUME RecoveryInv
  PROVE  /\ CanTrap => Stack!Room("modern")
         /\ ~legacy.on => Stack!Room("legacy")
  <1> USE JbufsPositive
  <1>o. OpenFacts
    BY OpenIsStack
  <1>d. DOMAIN Open = 1 .. Depth
    BY <1>o, LenProperties DEF OpenFacts
  <1>1. ASSUME CanTrap PROVE Stack!Room("modern")
    <2> DEFINE M == {i \in DOMAIN Open : Open[i].kind = "modern"}
    <2>f. IsFiniteSet(1 .. Depth) /\ Cardinality(1 .. Depth) = Depth
      BY <1>o, FS_Interval DEF OpenFacts
    <2>1. IsFiniteSet(M) /\ Cardinality(M) <= cur + 1
      <3>1. CASE legacy.on
        <4>1. Older + 1 \in 1 .. Depth /\ Depth = cur + 2
          BY <3>1, <1>o DEF OpenFacts, Depth
        <4>2. Open[Older + 1].kind = "legacy"
          BY <4>1, <1>o DEF OpenFacts, Legacy
        <4>3. M \in SUBSET ((1 .. Depth) \ {Older + 1})
          BY <4>2, <1>d
        <4>4. IsFiniteSet((1 .. Depth) \ {Older + 1}) /\ Cardinality((1 .. Depth) \ {Older + 1}) = cur + 1
          <5> DEFINE all == 1 .. Depth   place == Older + 1
          <5>1. IsFiniteSet(all) /\ Cardinality(all) = cur + 2 /\ place \in all
            BY <4>1, <2>f
          <5> HIDE DEF all, place
          <5>2. IsFiniteSet(all \ {place}) /\ Cardinality(all \ {place}) = Cardinality(all) - 1
            BY <5>1, FS_RemoveElement
          <5>3. Cardinality(all \ {place}) = cur + 1
            BY <5>1, <5>2, <1>o DEF OpenFacts
          <5> QED
            BY <5>2, <5>3 DEF all, place
        <4> HIDE DEF M
        <4> QED
          BY ZenonT(60), <4>3, <4>4, FS_Subset
      <3>2. CASE ~legacy.on
        <4>1. M \in SUBSET (1 .. Depth) /\ Depth = cur + 1
          BY <3>2, <1>d, <1>o DEF OpenFacts, Depth
        <4> HIDE DEF M
        <4> QED
          BY <4>1, <2>f, FS_Subset
      <3> QED
        BY <3>1, <3>2
    <2>2. Cardinality(M) < MaxJbufs
      <3> HIDE DEF M
      <3>1. Cardinality(M) \in Nat
        BY <2>1, FS_CardinalityType
      <3> QED
        BY <2>1, <3>1, <1>1, <1>o DEF CanTrap, OpenFacts
    <2> QED
      BY <2>2, SameCardinality DEF Stack!Room, Stack!Count
  <1>2. ASSUME ~legacy.on PROVE Stack!Room("legacy")
    <2>1. {i \in DOMAIN Open : Open[i].kind = "legacy"} = {}
      BY <1>2, <1>o, <1>d DEF OpenFacts, Depth, Modern
    <2> QED
      BY <2>1, FS_EmptySet, SameCardinality DEF Stack!Room, Stack!Count
  <1> QED
    BY <1>1, <1>2

(* The innermost binding is the one that the code takes for it.            *)
LEMMA InnermostIs ==
  ASSUME RecoveryInv
  PROVE  /\ LegacyInnermost => Depth = Older + 1 /\ Depth > 0 /\ Open[Depth] = Legacy
         /\ cur \in Frames /\ ~LegacyInnermost =>
              /\ active[cur] /\ Depth > 0 /\ Open[Depth] = Modern(cur)
              /\ Depth = IF cur < Older THEN cur + 1 ELSE cur + 2
         /\ cur \notin Frames /\ ~LegacyInnermost => Depth = 0
  <1> USE JbufsPositive
  <1>o. OpenFacts
    BY OpenIsStack
  <1>t. /\ cur \in -1 .. MaxJbufs - 1 /\ legacy.on \in BOOLEAN /\ legacy.depth \in -1 .. MaxJbufs - 1
        /\ legacy.on => legacy.depth <= cur
        /\ cur \in Frames => active[cur]
    BY DEF RecoveryInv, RecoveryTypeOK, LegacyAnchored, ActiveBelowCur, Frames
  <1>1. ASSUME LegacyInnermost PROVE Depth = Older + 1 /\ Depth > 0 /\ Open[Depth] = Legacy
    <2>1. legacy.on /\ legacy.depth = cur
      BY <1>1, <1>t DEF LegacyInnermost
    <2>2. Depth = cur + 2 /\ Older = cur + 1
      BY <2>1, <1>t DEF Depth, Older
    <2> QED
      BY <2>2, <1>t, <1>o DEF OpenFacts
  <1>2. ASSUME cur \in Frames, ~LegacyInnermost
        PROVE  /\ Depth > 0 /\ Open[Depth] = Modern(cur)
               /\ Depth = IF cur < Older THEN cur + 1 ELSE cur + 2
    <2>1. CASE legacy.on
      <3>1. Depth = cur + 2 /\ Older <= cur /\ Older \in Nat
        BY <2>1, <1>2, <1>t DEF Depth, Older, LegacyInnermost
      <3> QED
        BY <3>1, <1>t, <1>o DEF OpenFacts
    <2>2. CASE ~legacy.on
      <3>1. Depth = cur + 1 /\ Older = cur + 1
        BY <2>2, <1>t DEF Depth, Older
      <3> QED
        BY <3>1, <1>2, <1>t, <1>o DEF OpenFacts, Frames
    <2> QED
      BY <2>1, <2>2, <1>t
  <1>3. ASSUME cur \notin Frames, ~LegacyInnermost PROVE Depth = 0
    BY <1>3, <1>t DEF Depth, LegacyInnermost, Frames
  <1> QED
    BY <1>1, <1>2, <1>3, <1>t

LEMMA OpenIsEmpty == ASSUME RecoveryInv PROVE Open = <<>> <=> Depth = 0
  <1>1. OpenFacts
    BY OpenIsStack
  <1> QED
    BY <1>1, EmptySeq DEF OpenFacts

(* Steps that leave the bindings alone leave the stack alone, and land     *)
(* where the buffer says.                                                  *)
LEMMA SameOpen ==
  ASSUME UNCHANGED bindings
  PROVE  /\ UNCHANGED Open
         /\ buffer' = NoJump => Landed' = 0
         /\ buffer' = AtLegacy => Landed' = Older + 1
         /\ \A i : buffer' = AtFrame(i) => Landed' = IF i < Older THEN i + 1 ELSE i + 2
  <1>1. Open' = Open /\ Older' = Older
    BY DEF bindings, Open, Older, Modern
  <1> QED
    BY <1>1 DEF Landed, NoJump, AtLegacy, AtFrame

LEMMA RefusalMapped == ASSUME NEW op \in {"bind", "release", "message"}, Refuses(op) PROVE Stack!Next
  BY SameOpen DEF Refuses, Did, Returns, Stack!Next, Stack!Refuse, Stack!Did, Stack!Stay

(* Without a binding an error is the host's.                               *)
LEMMA RaiseMapped ==
  ASSUME RecoveryInv, Did("signal") \/ (Depth = 0 /\ Did("report")), Raise
  PROVE  Stack!Next
  <1>1. UNCHANGED bindings /\ buffer' = NoJump /\ alive' \in BOOLEAN /\ UNCHANGED mask
    BY DEF Raise, Die, Returns, RecoveryInv, RecoveryTypeOK
  <1>2. Stack!RaiseToHost
    BY <1>1, SameOpen, OpenIsEmpty DEF Stack!RaiseToHost, Stack!Did, Did
  <1> QED
    BY <1>2 DEF Stack!Next

(* A jump resumes the innermost binding with the mask of its entry.        *)
LEMMA JumpMapped ==
  ASSUME RecoveryInv, Did("report"), JumpOrRaise
  PROVE  Stack!Next
  <1>o. OpenFacts
    BY OpenIsStack
  <1>r. ASSUME NEW m, NEW b, Resume(m, b), Open # <<>>, m = Open[Depth].mask,
               UNCHANGED bindings /\ buffer' = b => Landed' = Depth
        PROVE  Stack!Next
    <2>1. CASE mask' = m /\ buffer' = b /\ UNCHANGED <<bindings, alive>>
      <3>1. UNCHANGED Open /\ Landed' = Depth
        BY <2>1, <1>r, SameOpen
      <3>2. Stack!Report
        BY <2>1, <3>1, <1>r, <1>o DEF Stack!Report, Stack!Did, Stack!Innermost, Did, OpenFacts
      <3> QED
        BY <3>2 DEF Stack!Next
    <2>2. CASE Die
      <3>1. Stack!Report
        BY <2>2, <1>r, SameOpen DEF Die, Stack!Report, Stack!Did, Did
      <3> QED
        BY <3>1 DEF Stack!Next
    <2> QED
      BY <1>r, <2>1, <2>2 DEF Resume, gk_restore_mask
  <1>1. CASE LegacyInnermost
    <2>1. Resume(legacy.mask, AtLegacy)
      BY <1>1 DEF JumpOrRaise, gk_NonLocalExit_Handler
    <2>2. Open # <<>> /\ Depth = Older + 1 /\ legacy.mask = Open[Depth].mask
      BY <1>1, InnermostIs, OpenIsEmpty DEF Legacy
    <2> QED
      BY <2>1, <2>2, <1>r, SameOpen
  <1>2. CASE ~LegacyInnermost /\ cur \in Frames
    <2>1. FrameInForce
      BY <1>2 DEF FrameInForce, RecoveryInv, RecoveryTypeOK, ActiveBelowCur, Frames
    <2>3. Resume(masks[cur], AtFrame(cur))
      BY <1>2, <2>1 DEF JumpOrRaise
    <2>2. /\ Open # <<>> /\ masks[cur] = Open[Depth].mask
          /\ Depth = IF cur < Older THEN cur + 1 ELSE cur + 2
      BY <1>2, InnermostIs, OpenIsEmpty DEF Modern
    <2> QED
      BY <2>3, <2>2, <1>r, SameOpen
  <1>3. CASE ~LegacyInnermost /\ cur \notin Frames
    BY <1>3, InnermostIs, RaiseMapped DEF JumpOrRaise, FrameInForce
  <1> QED
    BY <1>1, <1>2, <1>3

LEMMA OpenIsStackNext == RecoveryInv' => OpenFacts'
  BY OpenIsStack, PTL

(* A step that adds one member on top pushes it.                           *)
LEMMA Pushed ==
  ASSUME RecoveryInv, RecoveryInv', Depth' = Depth + 1, NEW b,
         \A k \in 1 .. Depth : Open'[k] = Open[k],
         Open'[Depth + 1] = b
  PROVE  Open' = Append(Open, b)
  <1>1. OpenFacts /\ OpenFacts'
    BY OpenIsStack, OpenIsStackNext
  <1>2. /\ Open \in Seq(Binding) /\ Len(Open) = Depth /\ Depth \in Nat
        /\ Open' \in Seq(Binding') /\ Len(Open') = Depth + 1
    BY <1>1 DEF OpenFacts
  <1>3. Open'[Depth + 1] \in Binding'
    BY <1>2, ElementOfSeq
  <1>4. Binding' = Binding
    BY DEF Binding
  <1>5. Append(Open, b) \in Seq(Binding) /\ Len(Append(Open, b)) = Depth + 1
    BY <1>2, <1>3, <1>4, AppendProperties
  <1>6. \A k \in 1 .. Depth + 1 : Open'[k] = Append(Open, b)[k]
    BY <1>2, <1>3, <1>4, AppendProperties
  <1> QED
    BY <1>2, <1>4, <1>5, <1>6, SeqEqual

(* A step that takes the last member away pops it.                         *)
LEMMA Popped ==
  ASSUME RecoveryInv, RecoveryInv', Depth > 0, Depth' = Depth - 1,
         \A k \in 1 .. Depth - 1 : Open'[k] = Open[k]
  PROVE  Open' = SubSeq(Open, 1, Depth - 1)
  <1>1. OpenFacts /\ OpenFacts'
    BY OpenIsStack, OpenIsStackNext
  <1>2. /\ Open \in Seq(Binding) /\ Len(Open) = Depth /\ Depth \in Nat
        /\ Open' \in Seq(Binding) /\ Len(Open') = Depth - 1
    BY <1>1 DEF OpenFacts, Binding
  <1> DEFINE rest == SubSeq(Open, 1, Depth - 1)
  <1>3. rest \in Seq(Binding) /\ Len(rest) = Depth - 1
        /\ \A k \in 1 .. Depth - 1 : rest[k] = Open[k]
    BY <1>2, SubSeqProperties
  <1> QED
    BY <1>2, <1>3, SeqEqual

LEMMA TrapMapped == ASSUME RecoveryInv, RecoveryInv', gk_sigtrap PROVE Stack!Next
  <1> USE JbufsPositive
  <1>t. /\ RecoveryInv => RecoveryTypeOK /\ LegacyAnchored
        /\ OpenFacts /\ OpenFacts'
    BY OpenIsStack, OpenIsStackNext DEF RecoveryInv
  <1> SUFFICES ASSUME CanTrap, Did("bind"), cur' = cur + 1,
                      masks' = [masks EXCEPT ![cur + 1] = mask],
                      Returns, UNCHANGED <<legacy, mask>>
               PROVE  Stack!Next
    BY RefusalMapped DEF gk_sigtrap, gk_save_mask
  <1>1. /\ cur \in -1 .. MaxJbufs - 2 /\ cur + 1 \in Frames
        /\ masks \in [Frames -> Mask] /\ legacy.on \in BOOLEAN
        /\ legacy.depth \in -1 .. MaxJbufs - 1
        /\ legacy.on => legacy.depth <= cur
    BY <1>t DEF RecoveryTypeOK, LegacyAnchored, CanTrap, Frames
  <1>2. /\ Depth \in Nat /\ Depth' = Depth + 1 /\ Older \in 0 .. cur + 1
        /\ legacy.on => Older' = Older /\ Depth = cur + 2
        /\ ~legacy.on => Older' = cur + 2 /\ Depth = cur + 1 /\ Older = cur + 1
    BY <1>1 DEF Depth, Older
  <1>3. \A i \in Frames : i <= cur => Modern(i)' = Modern(i)
    BY <1>1 DEF Modern, Frames
  <1>4. \A i : i = cur + 1 => Modern(i)' = [kind |-> "modern", mask |-> mask]
    BY <1>1 DEF Modern
  <1>5. ASSUME NEW k \in 1 .. Depth PROVE Open'[k] = Open[k]
    <2>1. CASE k <= Older
      <3>0. k \in 1 .. Depth' /\ k <= Older'
        BY <2>1, <1>1, <1>2
      <3>1. Open[k] = Modern(k - 1) /\ Open'[k] = Modern(k - 1)'
        BY <3>0, <2>1, <1>t DEF OpenFacts
      <3>2. k - 1 \in Frames /\ k - 1 <= cur
        BY <2>1, <1>1, <1>2 DEF Frames
      <3> QED
        BY <3>1, <3>2, <1>3
    <2>2. CASE k = Older + 1
      <3>0. k \in 1 .. Depth' /\ k = Older' + 1
        BY <2>2, <1>1, <1>2
      <3>1. Open[k] = Legacy /\ Open'[k] = Legacy'
        BY <3>0, <2>2, <1>t DEF OpenFacts
      <3> QED
        BY <3>1 DEF Legacy
    <2>3. CASE k > Older + 1
      <3>0. k \in 1 .. Depth' /\ k > Older' + 1
        BY <2>3, <1>1, <1>2
      <3>1. Open[k] = Modern(k - 2) /\ Open'[k] = Modern(k - 2)'
        BY <3>0, <2>3, <1>t DEF OpenFacts
      <3>2. k - 2 \in Frames /\ k - 2 <= cur
        BY <2>3, <1>1, <1>2 DEF Frames
      <3> QED
        BY <3>1, <3>2, <1>3
    <2> QED
      BY <1>2, <2>1, <2>2, <2>3
  <1>6. Open'[Depth + 1] = [kind |-> "modern", mask |-> mask]
    <2>1. CASE legacy.on
      <3>1. Depth + 1 \in 1 .. Depth' /\ Depth + 1 > Older' + 1 /\ Depth + 1 - 2 = cur + 1
        BY <2>1, <1>1, <1>2
      <3>2. \A k : k = Depth + 1 => Open'[k] = Modern(k - 2)'
        BY <3>1, <1>t DEF OpenFacts
      <3> QED
        BY <3>1, <3>2, <1>4, <1>1, <1>2
    <2>2. CASE ~legacy.on
      <3>1. Depth + 1 \in 1 .. Depth' /\ Depth + 1 <= Older' /\ Depth + 1 - 1 = cur + 1
        BY <2>2, <1>1, <1>2
      <3>2. \A k : k = Depth + 1 => Open'[k] = Modern(k - 1)'
        BY <3>1, <1>t DEF OpenFacts
      <3> QED
        BY <3>1, <3>2, <1>4, <1>1, <1>2
    <2> QED
      BY <2>1, <2>2
  <1>7. Open' = Append(Open, [kind |-> "modern", mask |-> mask])
    BY <1>2, <1>5, <1>6, Pushed
  <1>8. Stack!Establish("modern")
    BY <1>7, RoomThere DEF Stack!Establish, Stack!Did, Stack!Stay, Did, Returns, Landed
  <1> QED
    BY <1>8 DEF Stack!Next, Stack!Kinds

LEMMA UntrapMapped == ASSUME RecoveryInv, RecoveryInv', gk_siguntrap PROVE Stack!Next
  <1> USE JbufsPositive
  <1>t. /\ RecoveryInv => RecoveryTypeOK /\ LegacyAnchored
        /\ OpenFacts /\ OpenFacts'
    BY OpenIsStack, OpenIsStackNext DEF RecoveryInv
  <1> SUFFICES ASSUME CanUntrap, Did("release"), mask' = masks[cur], cur' = cur - 1,
                      Returns, UNCHANGED <<masks, legacy>>
               PROVE  Stack!Next
    BY RefusalMapped DEF gk_siguntrap, gk_restore_mask
  <1>1. /\ cur \in Frames /\ ~LegacyInnermost /\ cur \in Nat
        /\ legacy.on \in BOOLEAN
        /\ legacy.depth \in -1 .. MaxJbufs - 1
        /\ legacy.on => legacy.depth < cur
    BY <1>t DEF RecoveryTypeOK, LegacyAnchored, CanUntrap, FrameInForce, Frames, LegacyInnermost
  <1>2. /\ Depth \in Nat /\ Depth' = Depth - 1 /\ Older \in 0 .. cur + 1
        /\ legacy.on => Older' = Older /\ Depth = cur + 2 /\ Older <= cur
        /\ ~legacy.on => Older' = cur /\ Depth = cur + 1 /\ Older = cur + 1
    BY <1>1 DEF Depth, Older
  <1>3. Depth > 0 /\ Open # <<>> /\ Open[Depth] = Modern(cur)
    BY <1>1, InnermostIs, OpenIsEmpty
  <1>4. ASSUME NEW k \in 1 .. Depth - 1 PROVE Open'[k] = Open[k]
    <2>1. CASE k <= Older
      <3>1. k \in 1 .. Depth /\ k \in 1 .. Depth' /\ k <= Older'
        BY <2>1, <1>1, <1>2
      <3>2. Open[k] = Modern(k - 1) /\ Open'[k] = Modern(k - 1)'
        BY <2>1, <3>1, <1>t DEF OpenFacts
      <3> QED
        BY <3>2 DEF Modern
    <2>2. CASE k = Older + 1
      <3>1. legacy.on
        BY <2>2, <1>1, <1>2
      <3>2. Open[k] = Legacy /\ Open'[k] = Legacy'
        BY <2>2, <3>1, <1>1, <1>2, <1>t DEF OpenFacts
      <3> QED
        BY <3>2 DEF Legacy
    <2>3. CASE k > Older + 1
      <3>1. legacy.on
        BY <2>3, <1>1, <1>2
      <3>2. Open[k] = Modern(k - 2) /\ Open'[k] = Modern(k - 2)'
        BY <2>3, <3>1, <1>1, <1>2, <1>t DEF OpenFacts
      <3> QED
        BY <3>2 DEF Modern
    <2> QED
      BY <1>2, <2>1, <2>2, <2>3
  <1>5. Open' = SubSeq(Open, 1, Depth - 1)
    BY <1>2, <1>3, <1>4, Popped
  <1>6. Len(Open) = Depth
    BY <1>t DEF OpenFacts
  <1>7. Stack!Release("modern")
    BY <1>3, <1>5, <1>6 DEF Stack!Release, Stack!Innermost, Stack!Did, Stack!Stay, Did, Returns,
       Landed, Modern
  <1> QED
    BY <1>7 DEF Stack!Next, Stack!Kinds

LEMMA SetMapped == ASSUME RecoveryInv, RecoveryInv', gk_SetSignalHandlers PROVE Stack!Next
  <1>t. /\ RecoveryInv => RecoveryTypeOK
        /\ OpenFacts /\ OpenFacts'
    BY OpenIsStack, OpenIsStackNext DEF RecoveryInv
  <1> SUFFICES ASSUME ~legacy.on, Did("bind"),
                      legacy' = [on |-> TRUE, depth |-> cur, mask |-> mask],
                      Returns, UNCHANGED <<cur, masks, mask>>
               PROVE  Stack!Next
    BY RefusalMapped DEF gk_SetSignalHandlers, gk_save_mask
  <1>1. cur \in -1 .. MaxJbufs - 1
    BY <1>t DEF RecoveryTypeOK
  <1>2. /\ Depth \in Nat /\ Depth = cur + 1 /\ Depth' = Depth + 1
        /\ Older = cur + 1 /\ Older' = cur + 1
    BY <1>1 DEF Depth, Older
  <1>3. ASSUME NEW k \in 1 .. Depth PROVE Open'[k] = Open[k]
    <2>1. k \in 1 .. Depth' /\ k <= Older /\ k <= Older'
      BY <1>1, <1>2
    <2>2. Open[k] = Modern(k - 1) /\ Open'[k] = Modern(k - 1)'
      BY <2>1, <1>t DEF OpenFacts
    <2> QED
      BY <2>2 DEF Modern
  <1>4. Open'[Depth + 1] = [kind |-> "legacy", mask |-> mask]
    <2>1. Depth + 1 \in 1 .. Depth' /\ Depth + 1 = Older' + 1
      BY <1>1, <1>2
    <2>2. Open'[Depth + 1] = Legacy'
      BY <2>1, <1>t DEF OpenFacts
    <2> QED
      BY <2>2 DEF Legacy
  <1>5. Open' = Append(Open, [kind |-> "legacy", mask |-> mask])
    BY <1>2, <1>3, <1>4, Pushed
  <1>6. Stack!Establish("legacy")
    BY <1>5, RoomThere DEF Stack!Establish, Stack!Did, Stack!Stay, Did, Returns, Landed
  <1> QED
    BY <1>6 DEF Stack!Next, Stack!Kinds

LEMMA UnsetMapped == ASSUME RecoveryInv, RecoveryInv', gk_UnsetSignalHandlers PROVE Stack!Next
  <1>t. /\ RecoveryInv => RecoveryTypeOK
        /\ OpenFacts /\ OpenFacts'
    BY OpenIsStack, OpenIsStackNext DEF RecoveryInv
  <1> SUFFICES ASSUME CanUnset, Did("release"), mask' = legacy.mask,
                      legacy' = [legacy EXCEPT !.on = FALSE, !.depth = -1],
                      Returns, UNCHANGED <<cur, masks>>
               PROVE  Stack!Next
    BY RefusalMapped DEF gk_UnsetSignalHandlers, gk_restore_mask
  <1>1. /\ cur \in -1 .. MaxJbufs - 1 /\ legacy.on /\ legacy.depth = cur
        /\ ~legacy'.on /\ LegacyInnermost
    BY <1>t DEF RecoveryTypeOK, CanUnset, LegacyInnermost
  <1>2. /\ Depth \in Nat /\ Depth = cur + 2 /\ Depth' = Depth - 1
        /\ Older = cur + 1 /\ Older' = cur + 1
    BY <1>1 DEF Depth, Older
  <1>3. Depth > 0 /\ Open # <<>> /\ Open[Depth] = Legacy
    BY <1>1, InnermostIs, OpenIsEmpty
  <1>4. ASSUME NEW k \in 1 .. Depth - 1 PROVE Open'[k] = Open[k]
    <2>1. k \in 1 .. Depth /\ k \in 1 .. Depth' /\ k <= Older /\ k <= Older'
      BY <1>1, <1>2
    <2>2. Open[k] = Modern(k - 1) /\ Open'[k] = Modern(k - 1)'
      BY <2>1, <1>t DEF OpenFacts
    <2> QED
      BY <2>2 DEF Modern
  <1>5. Open' = SubSeq(Open, 1, Depth - 1)
    BY <1>2, <1>3, <1>4, Popped
  <1>6. Len(Open) = Depth
    BY <1>t DEF OpenFacts
  <1>7. Stack!Release("legacy")
    BY <1>3, <1>5, <1>6 DEF Stack!Release, Stack!Innermost, Stack!Did, Stack!Stay, Did, Returns,
       Landed, Legacy
  <1> QED
    BY <1>7 DEF Stack!Next, Stack!Kinds

LEMMA ErrorMapped ==
  ASSUME RecoveryInv, NEW exits \in BOOLEAN, NEW ours \in BOOLEAN, gk_errexit(exits, ours)
  PROVE  Stack!Next
  <1>1. CASE ~exits
    BY <1>1, RefusalMapped DEF gk_errexit
  <1>2. CASE exits /\ ~ours
    BY <1>2, RaiseMapped DEF gk_errexit
  <1>3. CASE exits /\ ours /\ Bound
    BY <1>3, JumpMapped DEF gk_errexit
  <1>4. CASE exits /\ ours /\ ~Bound
    <2>1. Depth = 0
      BY <1>4, InnermostIs DEF Bound, FrameInForce, LegacyInnermost
    <2> QED
      BY <1>4, <2>1, RaiseMapped DEF gk_errexit
  <1> QED
    BY <1>1, <1>2, <1>3, <1>4

LEMMA FatalMapped == ASSUME NEW exits \in BOOLEAN, errexit(exits) PROVE Stack!Next
  <1>1. CASE ~exits
    BY <1>1, RefusalMapped DEF errexit
  <1>2. CASE exits
    <2>1. Did("fatal") /\ Die
      BY <1>2 DEF errexit
    <2>2. Stack!Exit
      BY <2>1, SameOpen DEF Die, Did, Stack!Exit, Stack!Did
    <2> QED
      BY <2>2 DEF Stack!Next
  <1> QED
    BY <1>1, <1>2

(* The refinement: the empty stack at the start, and every step maps.      *)
LEMMA InitMapped == RecoveryInit => Stack!Init
  <1> SUFFICES ASSUME RecoveryInit PROVE Stack!Init
    OBVIOUS
  <1>1. Depth = 0 /\ Landed = 0
    BY DEF RecoveryInit, Depth, Landed
  <1>2. Open = <<>>
    BY <1>1, RecoveryInitInv, OpenIsEmpty
  <1> QED
    BY <1>1, <1>2 DEF RecoveryInit, Stack!Init

LEMMA StepMapped ==
  RecoveryInv /\ RecoveryInv' /\ [RecoveryNext]_recoveryVars => [Stack!Next]_Stack!bvars
  <1> SUFFICES ASSUME RecoveryInv, RecoveryInv', [RecoveryNext]_recoveryVars PROVE [Stack!Next]_Stack!bvars
    OBVIOUS
  <1>1. ASSUME gk_sigthrow \/ LegacyJump PROVE Stack!Next
    BY <1>1, JumpMapped DEF gk_sigthrow, LegacyJump, JumpOrRaise
  <1>2. ASSUME NEW m \in Mask, SetMask(m) PROVE Stack!Next
    BY <1>2, SameOpen DEF SetMask, Did, Returns, Stack!Next, Stack!SetMask, Stack!Did, Stack!Stay
  <1>3. CASE UNCHANGED recoveryVars
    <2>1. UNCHANGED bindings /\ UNCHANGED buffer
      BY <1>3 DEF recoveryVars, bindings
    <2>2. UNCHANGED <<Open, Older>>
      BY <2>1 DEF bindings, Open, Older, Modern
    <2>3. UNCHANGED Landed
      BY <2>1, <2>2 DEF Landed
    <2> QED
      BY <1>3, <2>2, <2>3 DEF recoveryVars, Stack!bvars
  <1> QED
    BY <1>1, <1>2, <1>3, TrapMapped, UntrapMapped, SetMapped, UnsetMapped, ErrorMapped,
       FatalMapped
    DEF RecoveryNext, ExitOnError

(* For any number of frames, the frame numbers, flags and recorded depth of*)
(* error.c are one stack of bindings: only the most recent is released, an *)
(* error resumes it, and both restore the mask saved when it was made.     *)
THEOREM StackTheorem == RecoverySpec => StackSpec
  BY InitMapped, StepMapped, RecoverySpecInv, PTL DEF RecoverySpec, StackSpec, Stack!Spec

-----------------------------------------------------------------------------

TxOK(t) ==
  /\ t \in Transaction
  /\ t.pc = "idle" => /\ t.name = NoName /\ t.saved = t.first
                      /\ t.ret # "none" => (t.ret = "failed" <=> t.saved # "none")
  /\ t.pc \in {"create", "setup", "close", "rename", "remove"} => t.name # NoName
  /\ t.pc \in {"create", "setup", "write", "rename"} => t.saved = "none"
  /\ t.pc \in {"flush", "remove"} => t.saved # "none"
  /\ t.saved # "none" => t.first = t.saved
  /\ t.saved = "none" => t.first = IF t.ferror THEN "write" ELSE "none"
  /\ t.pc \in {"close", "rename"} /\ t.saved = "none" => ~t.ferror
  /\ t.pc \in {"create", "setup"} => ~t.ferror
  /\ t.pc # "idle" => t.ret = "none"

ModeOK(t, d) ==
  t.name # NoName => /\ d = Absent => t.mode = Umask
                     /\ d # Absent => t.mode = d.mode /\ d.mode # Link

ContentOK(t, f) ==
  /\ t.pc \in {"write", "flush", "close", "rename"} => f.mode = t.mode
  /\ t.pc \in {"close", "rename"} /\ t.saved = "none" => f.part = Chunks

OutputInv ==
  /\ OutputTypeOK
  /\ TempsOwned
  /\ \A w \in Writer : TxOK(tx[w]) /\ ModeOK(tx[w], dest)
  /\ \A w \in Writer, i \in Name : Owns(w, i) => ContentOK(tx[w], temp[i])

(* Files are not the absence of a file.                                    *)
LEMMA FileIsPresent == Absent \notin File
BY OutputConstants DEF File

-----------------------------------------------------------------------------
(* What the helpers do to a transaction.                                   *)
LEMMA SaveFields ==
  ASSUME NEW t \in Transaction, NEW e \in Error, e # "none"
  PROVE  /\ Save(t, e) \in Transaction
         /\ Save(t, e).pc = t.pc /\ Save(t, e).name = t.name
         /\ Save(t, e).mode = t.mode /\ Save(t, e).n = t.n
         /\ Save(t, e).ferror = t.ferror /\ Save(t, e).complete = t.complete
         /\ Save(t, e).ret = t.ret
         /\ Save(t, e).saved = IF t.saved = "none" THEN e ELSE t.saved
         /\ Save(t, e).first = IF t.first = "none" THEN e ELSE t.first
BY DEF Save, FirstError, Transaction

(* A transaction that is over is idle and keeps its errors; it is          *)
(* well-formed when it was told "failed" exactly when an error was saved.  *)
LEMMA OverOK ==
  ASSUME NEW ret \in {"none", "ok", "failed", "printed"}, NEW e \in Error,
         ret # "none" => (ret = "failed" <=> e # "none")
  PROVE  TxOK(Over(ret, e, e)) /\ Over(ret, e, e).pc = "idle"
<1> DEFINE t == Over(ret, e, e)
<1>1. t \in Transaction
  BY OutputConstants DEF Over, Transaction, Mode
<1>2. /\ t.pc = "idle" /\ t.name = NoName /\ t.ferror = FALSE
      /\ t.ret = ret /\ t.saved = e /\ t.first = e
  BY DEF Over
<1> HIDE DEF t
<1>3. TxOK(t)
  BY <1>1, <1>2 DEF TxOK
<1> QED
  BY <1>2, <1>3 DEF t

-----------------------------------------------------------------------------
(***************************************************************************)
(* Steps that touch one transaction and at most its own file, and neither  *)
(* take nor give up a file.                                                *)
(***************************************************************************)
LEMMA OwnStep ==
  ASSUME OutputInv, NEW w \in Writer, NEW t, TxOK(t),
         tx' = [tx EXCEPT ![w] = t], UNCHANGED <<dest, litter>>,
         \A i \in Name : t.pc \in Owning /\ t.name = i <=> Owns(w, i),
         ModeOK(t, dest),
         temp' \in [Name -> File \cup {Absent}],
         \A i \in Name : ~Owns(w, i) => temp'[i] = temp[i],
         \A i \in Name : Owns(w, i) => /\ temp'[i] # Absent /\ temp'[i].by = w
                                       /\ ContentOK(t, temp'[i])
  PROVE  OutputInv'
<1>1. /\ OutputTypeOK /\ TempsOwned
      /\ tx \in [Writer -> Transaction] /\ t \in Transaction
  BY DEF OutputInv, OutputTypeOK, TxOK
<1>2. tx'[w] = t /\ \A v \in Writer \ {w} : tx'[v] = tx[v]
  BY <1>1
<1>3. \A v \in Writer, i \in Name : Owns(v, i)' <=> Owns(v, i)
  BY <1>2 DEF Owns
<1>4. \A v \in Writer, i \in Name : Owns(v, i) /\ v # w => temp'[i] = temp[i]
  BY <1>1 DEF TempsOwned
<1>5. OutputTypeOK'
  BY <1>1 DEF OutputTypeOK
<1>6. TempsOwned'
  <2>1. \A i \in Name : temp'[i] # Absent <=> temp[i] # Absent
    BY <1>1 DEF TempsOwned
  <2>2. \A v \in Writer, i \in Name : Owns(v, i) => temp'[i].by = v
    BY <1>1, <1>4 DEF TempsOwned
  <2> QED
    BY <1>1, <1>3, <2>1, <2>2 DEF TempsOwned
<1>7. \A v \in Writer : TxOK(tx'[v]) /\ ModeOK(tx'[v], dest')
  BY <1>2 DEF OutputInv
<1>8. \A v \in Writer, i \in Name : Owns(v, i)' => ContentOK(tx'[v], temp'[i])
  BY <1>2, <1>3, <1>4 DEF OutputInv
<1> QED
  BY <1>5, <1>6, <1>7, <1>8 DEF OutputInv

(***************************************************************************)
(* Steps that end a transaction; its file, if it had one, is gone, or left *)
(* behind.                                                                 *)
(***************************************************************************)
LEMMA EndStep ==
  ASSUME OutputInv, NEW w \in Writer, NEW t, TxOK(t), t.pc = "idle",
         tx' = [tx EXCEPT ![w] = t],
         temp' \in [Name -> File \cup {Absent}], litter' \subseteq Name,
         dest' \in File \cup {Absent},
         \A v \in Writer : v # w => ModeOK(tx[v], dest'),
         \A i \in Name : ~Owns(w, i) => /\ temp'[i] = temp[i]
                                        /\ i \in litter' <=> i \in litter,
         \A i \in Name : Owns(w, i) => (temp'[i] # Absent <=> i \in litter')
  PROVE  OutputInv'
<1>1. /\ OutputTypeOK /\ TempsOwned /\ t.name = NoName
      /\ tx \in [Writer -> Transaction] /\ t \in Transaction
  BY DEF OutputInv, OutputTypeOK, TxOK
<1>2. tx'[w] = t /\ \A v \in Writer \ {w} : tx'[v] = tx[v]
  BY <1>1
<1>3. /\ \A i \in Name : ~Owns(w, i)'
      /\ \A v \in Writer, i \in Name : v # w => (Owns(v, i)' <=> Owns(v, i))
      /\ \A v \in Writer, i \in Name : Owns(v, i) /\ v # w => ~Owns(w, i)
  BY <1>1, <1>2 DEF Owns, Owning, TempsOwned
<1>4. OutputTypeOK'
  BY <1>1 DEF OutputTypeOK
<1>5. TempsOwned'
  <2>1. ASSUME NEW i \in Name
        PROVE  temp'[i] # Absent <=> i \in litter' \/ \E v \in Writer : Owns(v, i)'
    <3>1. CASE Owns(w, i)
      BY <3>1, <1>3
    <3>2. CASE ~Owns(w, i)
      BY <3>2, <1>1, <1>3 DEF TempsOwned
    <3> QED
      BY <3>1, <3>2
  <2>2. ASSUME NEW v \in Writer, NEW i \in Name, Owns(v, i)'
        PROVE  /\ i \notin litter' /\ temp'[i].by = v
               /\ \A u \in Writer : Owns(u, i)' => u = v
    BY <2>2, <1>1, <1>3 DEF TempsOwned
  <2> QED
    BY <2>1, <2>2 DEF TempsOwned
<1>6. \A v \in Writer : TxOK(tx'[v]) /\ ModeOK(tx'[v], dest')
  BY <1>1, <1>2 DEF OutputInv, ModeOK
<1>7. \A v \in Writer, i \in Name : Owns(v, i)' => ContentOK(tx'[v], temp'[i])
  BY <1>2, <1>3 DEF OutputInv
<1> QED
  BY <1>4, <1>5, <1>6, <1>7 DEF OutputInv

-----------------------------------------------------------------------------
LEMMA InitInv == OutputInit => OutputInv
<1> SUFFICES ASSUME OutputInit PROVE OutputInv
  OBVIOUS
<1> DEFINE idle == Idle
<1>1. TxOK(idle) /\ idle.pc = "idle"
  BY OverOK DEF Idle, Error
<1> HIDE DEF idle
<1>2. tx = [w \in Writer |-> idle]
  BY DEF OutputInit, idle
<1>3. OutputTypeOK
  <2>1. dest \in File \cup {Absent}
    BY OutputConstants DEF OutputInit, Before, File, Mode
  <2> QED
    BY <1>1, <1>2, <2>1 DEF OutputInit, OutputTypeOK, TxOK
<1>4. \A w \in Writer, i \in Name : ~Owns(w, i)
  BY <1>1, <1>2 DEF Owns, Owning
<1>5. TempsOwned
  BY <1>4 DEF OutputInit, TempsOwned
<1>6. TxOK(idle) /\ ModeOK(idle, dest)
  BY <1>1 DEF TxOK, ModeOK
<1> QED
  BY <1>2, <1>3, <1>4, <1>5, <1>6 DEF OutputInv

LEMMA CrashInv == OutputInv /\ Crash => OutputInv'
<1> SUFFICES ASSUME OutputInv, Crash PROVE OutputInv'
  OBVIOUS
<1> DEFINE idle == Idle
<1>1. TxOK(idle) /\ idle.pc = "idle"
  BY OverOK DEF Idle, Error
<1> HIDE DEF idle
<1>2. tx' = [w \in Writer |-> idle] /\ litter' = {i \in Name : temp[i] # Absent}
      /\ dest' = dest /\ temp' = temp
  BY DEF Crash, idle
<1>3. OutputTypeOK'
  BY <1>1, <1>2 DEF OutputInv, OutputTypeOK, TxOK
<1>4. \A w \in Writer, i \in Name : ~Owns(w, i)'
  BY <1>1, <1>2 DEF Owns, Owning
<1>5. TempsOwned'
  BY <1>2, <1>4 DEF TempsOwned
<1>6. TxOK(idle) /\ ModeOK(idle, dest')
  BY <1>1 DEF TxOK, ModeOK
<1> QED
  BY <1>2, <1>3, <1>4, <1>5, <1>6 DEF OutputInv

-----------------------------------------------------------------------------
(* What the invariant says of the transaction a step starts from.          *)
LEMMA Current ==
  ASSUME OutputInv, NEW w \in Writer
  PROVE  /\ tx[w] \in Transaction /\ TxOK(tx[w]) /\ ModeOK(tx[w], dest)
         /\ tx \in [Writer -> Transaction]
         /\ temp \in [Name -> File \cup {Absent}]
         /\ dest \in File \cup {Absent} /\ litter \subseteq Name
BY DEF OutputInv, OutputTypeOK, TxOK

(* The file of a transaction that owns one.                                *)
LEMMA CurrentFile ==
  ASSUME OutputInv, NEW w \in Writer, tx[w].pc \in Owning, tx[w].name # NoName
  PROVE  /\ tx[w].name \in Name /\ Owns(w, tx[w].name)
         /\ temp[tx[w].name] \in File /\ temp[tx[w].name].by = w
         /\ ContentOK(tx[w], temp[tx[w].name])
         /\ \A i \in Name : Owns(w, i) <=> i = tx[w].name
<1>1. tx[w].name \in Name
  BY Current DEF Transaction
<1>2. Owns(w, tx[w].name)
  BY DEF Owns
<1>3. temp[tx[w].name] # Absent /\ temp[tx[w].name].by = w
  BY <1>1, <1>2 DEF OutputInv, TempsOwned
<1>4. temp[tx[w].name] \in File
  BY <1>1, <1>3, Current
<1> QED
  BY <1>1, <1>2, <1>3, <1>4 DEF OutputInv, Owns

(* An error of a transaction without one is its first.                     *)
LEMMA FailOK ==
  ASSUME OutputInv, NEW w \in Writer, NEW e \in Error, e # "none",
         NEW t, t = tx[w] \/ t = Idle, t.saved = "none", t.ferror = FALSE
  PROVE  /\ TxOK(Over("failed", Save(t, e).saved, Save(t, e).first))
         /\ Over("failed", Save(t, e).saved, Save(t, e).first).pc = "idle"
<1>1. t \in Transaction /\ t.first = "none"
  BY Current, OverOK DEF TxOK, Idle, Error
<1>2. Save(t, e).saved = e /\ Save(t, e).first = e
  BY <1>1, SaveFields
<1> QED
  BY <1>2, OverOK

(* The end of a transaction that has no file.                              *)
LEMMA FailStep ==
  ASSUME OutputInv, NEW w \in Writer, NEW t, TxOK(t), t.pc = "idle",
         tx[w].pc \in {"idle", "create"} \/ tx[w].name = NoName,
         tx' = [tx EXCEPT ![w] = t], UNCHANGED <<dest, temp, litter>>
  PROVE  OutputInv'
<1>1. \A i \in Name : ~Owns(w, i)
  BY OutputConstants DEF Owns, Owning, Name, NoName
<1> QED
  BY <1>1, EndStep, Current DEF OutputInv

LEMMA BeginInv ==
  ASSUME OutputInv, NEW w \in Writer, Begin(w)
  PROVE  OutputInv'
<1>1. tx[w].pc = "idle" /\ UNCHANGED <<dest, temp, litter>>
  BY DEF Begin, At
<1>2. Idle.saved = "none" /\ Idle.ferror = FALSE
  BY DEF Idle, Over
<1>3. ASSUME NEW e \in {"lstat", "malloc", "special"}, Return(w, Save(Idle, e), "failed")
      PROVE  OutputInv'
  <2> DEFINE t == Over("failed", Save(Idle, e).saved, Save(Idle, e).first)
  <2>1. TxOK(t) /\ t.pc = "idle"
    BY <1>2, FailOK DEF Error
  <2>2. tx' = [tx EXCEPT ![w] = t]
    BY <1>3 DEF Return, Set
  <2> QED
    BY <1>1, <2>1, <2>2, FailStep
<1>4. \A i \in Name : ~Owns(w, i)
  BY <1>1 DEF Owns, Owning
<1>5. CASE /\ Regular
           /\ Set(w, Begun("create", 0, IF dest = Absent THEN Umask ELSE dest.mode))
  <2> DEFINE m == IF dest = Absent THEN Umask ELSE dest.mode
             t == Begun("create", 0, m)
  <2>1. tx' = [tx EXCEPT ![w] = t]
    BY <1>5 DEF Set
  <2>2. m \in Mode /\ (dest # Absent => m = dest.mode /\ m # Link)
    BY <1>5, Current DEF Regular, File, Mode
  <2>3. t \in Transaction
    BY <2>2, OutputConstants DEF Begun, Transaction, Name, Error
  <2>4. /\ t.pc = "create" /\ t.name = 0 /\ t.mode = m /\ t.ferror = FALSE
        /\ t.saved = "none" /\ t.first = "none" /\ t.ret = "none"
    BY DEF Begun
  <2>5. dest = Absent => m = Umask
    OBVIOUS
  <2> HIDE DEF t, m
  <2>6. TxOK(t)
    BY <2>3, <2>4 DEF TxOK, NoName
  <2>7. ModeOK(t, dest)
    BY <2>2, <2>4, <2>5 DEF ModeOK
  <2>8. t.pc \notin Owning
    BY <2>4 DEF Owning
  <2> QED
    BY <1>1, <1>4, <2>1, <2>6, <2>7, <2>8, OwnStep, Current
<1>6. CASE Set(w, Begun("write", NoName, Umask))
  <2> DEFINE t == Begun("write", NoName, Umask)
  <2>1. tx' = [tx EXCEPT ![w] = t]
    BY <1>6 DEF Set
  <2>2. t \in Transaction
    BY OutputConstants DEF Begun, Transaction, Mode, Error, Owning
  <2>3. /\ t.pc = "write" /\ t.name = NoName /\ t.ferror = FALSE
        /\ t.saved = "none" /\ t.first = "none" /\ t.ret = "none"
    BY DEF Begun
  <2> HIDE DEF t
  <2>4. TxOK(t) /\ ModeOK(t, dest)
    BY <2>2, <2>3 DEF TxOK, ModeOK
  <2>5. \A i \in Name : t.name # i
    BY <2>3, OutputConstants DEF Name, NoName
  <2> QED
    BY <1>1, <1>4, <2>1, <2>4, <2>5, OwnStep, Current
<1> QED
  BY <1>3, <1>5, <1>6 DEF Begin

LEMMA CreateTempInv ==
  ASSUME OutputInv, NEW w \in Writer, Create(w)
  PROVE  OutputInv'
<1> DEFINE c == tx[w]
           n == c.name
<1>1. /\ c.pc = "create" /\ UNCHANGED <<dest, litter>>
      /\ c \in Transaction /\ TxOK(c) /\ ModeOK(c, dest)
  BY Current DEF Create, At
<1>2. c.saved = "none" /\ c.ferror = FALSE /\ c.ret = "none" /\ c.first = "none"
  BY <1>1 DEF TxOK, Transaction
<1>3. n \in Name
  BY <1>1 DEF TxOK, Transaction
<1>4. \A i \in Name : ~Owns(w, i)
  BY <1>1 DEF Owns, Owning
<1>5. ASSUME NEW e \in {"exists", "open"}, Return(w, Save(c, e), "failed"), UNCHANGED temp
      PROVE  OutputInv'
  <2> DEFINE t == Over("failed", Save(c, e).saved, Save(c, e).first)
  <2>1. TxOK(t) /\ t.pc = "idle"
    <3>1. e \in Error /\ e # "none"
      BY DEF Error
    <3> QED
      BY <1>2, <3>1, FailOK
  <2>2. tx' = [tx EXCEPT ![w] = t]
    BY <1>5 DEF Return, Set
  <2> QED
    BY <1>1, <1>5, <2>1, <2>2, FailStep
<1>6. CASE /\ n + 1 < Attempts /\ Set(w, [c EXCEPT !.name = n + 1])
           /\ UNCHANGED temp
  <2> DEFINE t == [c EXCEPT !.name = n + 1]
  <2>1. n + 1 \in Name
    BY <1>3, <1>6, OutputConstants DEF Name
  <2>2. /\ t \in Transaction /\ t.pc = "create" /\ t.name = n + 1 /\ t.mode = c.mode
        /\ t.saved = "none" /\ t.first = "none" /\ t.ret = "none" /\ t.ferror = FALSE
    BY <1>1, <1>2, <2>1 DEF Transaction
  <2>3. n # NoName /\ n + 1 # NoName
    BY <1>3, <2>1, OutputConstants DEF Name, NoName
  <2> HIDE DEF t
  <2>4. TxOK(t)
    BY <2>2, <2>3 DEF TxOK
  <2>5. ModeOK(t, dest)
    BY <1>1, <2>2, <2>3 DEF ModeOK
  <2>6. t.pc \notin Owning
    BY <2>2 DEF Owning
  <2>7. tx' = [tx EXCEPT ![w] = t]
    BY <1>6 DEF Set, t
  <2> QED
    BY <1>1, <1>4, <1>6, <2>4, <2>5, <2>6, <2>7, OwnStep, Current
<1>7. CASE /\ temp[n] = Absent
           /\ temp' = [temp EXCEPT ![n] = NewFile(w)]
           /\ Set(w, [c EXCEPT !.pc = "setup"])
  <2> DEFINE t == [c EXCEPT !.pc = "setup"]
             f == NewFile(w)
  <2>1. /\ t \in Transaction /\ t.pc = "setup" /\ t.name = n /\ t.mode = c.mode
        /\ t.saved = "none" /\ t.first = "none" /\ t.ret = "none" /\ t.ferror = FALSE
    BY <1>1, <1>2 DEF Transaction, Owning
  <2>2. f \in File /\ f.by = w
    BY OutputConstants DEF NewFile, File, Mode
  <2>3. tx' = [tx EXCEPT ![w] = t] /\ temp' = [temp EXCEPT ![n] = f]
    BY <1>7 DEF Set
  <2>4. n # NoName
    BY <1>3, OutputConstants DEF Name, NoName
  <2> HIDE DEF t, f
  <2>5. /\ tx'[w] = t /\ \A v \in Writer \ {w} : tx'[v] = tx[v]
        /\ temp'[n] = f /\ \A i \in Name \ {n} : temp'[i] = temp[i]
        /\ f # Absent
    BY <1>3, <2>2, <2>3, Current, FileIsPresent
  <2>6. n \notin litter /\ \A v \in Writer : ~Owns(v, n)
    BY <1>3, <1>7 DEF OutputInv, TempsOwned
  <2>7. TxOK(t)
    BY <2>1, <2>4 DEF TxOK
  <2>8. \A v \in Writer, i \in Name :
          Owns(v, i)' <=> IF v = w THEN i = n ELSE Owns(v, i)
    BY <2>1, <2>5 DEF Owns, Owning
  <2>9. OutputTypeOK'
    BY <1>1, <1>3, <2>1, <2>2, <2>3, Current DEF OutputTypeOK
  <2>10. TempsOwned'
    <3>1. ASSUME NEW i \in Name
          PROVE  temp'[i] # Absent <=> i \in litter' \/ \E v \in Writer : Owns(v, i)'
      <4>1. CASE i = n
        BY <4>1, <2>5, <2>8
      <4>2. CASE i # n
        <5>1. \A v \in Writer : Owns(v, i)' <=> Owns(v, i)
          BY <4>2, <1>4, <2>8
        <5> QED
          BY <4>2, <5>1, <1>1, <2>5 DEF OutputInv, TempsOwned
      <4> QED
        BY <4>1, <4>2
    <3>2. ASSUME NEW v \in Writer, NEW i \in Name, Owns(v, i)'
          PROVE  /\ i \notin litter' /\ temp'[i].by = v
                 /\ \A u \in Writer : Owns(u, i)' => u = v
      <4>1. CASE i = n
        BY <4>1, <3>2, <1>1, <2>2, <2>5, <2>6, <2>8
      <4>2. CASE i # n
        <5>1. Owns(v, i) /\ \A u \in Writer : Owns(u, i)' => Owns(u, i)
          BY <4>2, <3>2, <1>4, <2>8
        <5> QED
          BY <4>2, <5>1, <1>1, <2>5 DEF OutputInv, TempsOwned
      <4> QED
        BY <4>1, <4>2
    <3> QED
      BY <3>1, <3>2 DEF TempsOwned
  <2>11. \A v \in Writer : TxOK(tx'[v]) /\ ModeOK(tx'[v], dest')
    <3>1. ModeOK(t, dest')
      BY <1>1, <2>1 DEF ModeOK
    <3> QED
      BY <1>1, <2>5, <2>7, <3>1 DEF OutputInv
  <2>12. \A v \in Writer, i \in Name : Owns(v, i)' => ContentOK(tx'[v], temp'[i])
    <3>1. ContentOK(t, f)
      BY <2>1 DEF ContentOK
    <3>2. \A v \in Writer, i \in Name : v # w /\ Owns(v, i)' => Owns(v, i) /\ i # n
      BY <2>6, <2>8
    <3> QED
      BY <2>5, <2>8, <3>1, <3>2 DEF OutputInv
  <2> QED
    BY <2>9, <2>10, <2>11, <2>12 DEF OutputInv
<1> QED
  BY <1>5, <1>6, <1>7 DEF Create

-----------------------------------------------------------------------------
(* A transaction goes on with the file it has, which it may have changed.  *)
LEMMA StayStep ==
  ASSUME OutputInv, NEW w \in Writer, NEW f, NEW t, TxOK(t),
         tx[w].pc \in Owning, t.pc \in Owning,
         t.name = tx[w].name, t.mode = tx[w].mode,
         tx' = [tx EXCEPT ![w] = t], UNCHANGED <<dest, litter>>,
         \/ UNCHANGED temp /\ (t.name # NoName => f = temp[t.name])
         \/ /\ t.name # NoName /\ f \in File /\ f.by = w
            /\ temp' = [temp EXCEPT ![t.name] = f],
         t.name # NoName => ContentOK(t, f)
  PROVE  OutputInv'
<1>1. ModeOK(t, dest)
  BY Current DEF ModeOK
<1>2. \A i \in Name : t.pc \in Owning /\ t.name = i <=> Owns(w, i)
  BY DEF Owns
<1>3. CASE t.name = NoName
  <2>1. \A i \in Name : ~Owns(w, i)
    BY <1>2, <1>3, OutputConstants DEF Name, NoName
  <2> QED
    BY <1>1, <1>2, <1>3, <2>1, OwnStep, Current
<1>4. CASE t.name # NoName
  <2>1. /\ t.name \in Name /\ temp[t.name] \in File /\ temp[t.name].by = w
        /\ \A i \in Name : Owns(w, i) <=> i = t.name
    BY <1>4, CurrentFile
  <2>2. f \in File /\ f.by = w
    BY <1>4, <2>1
  <2>3. temp'[t.name] = f /\ \A i \in Name : i # t.name => temp'[i] = temp[i]
    BY <1>4, <2>1, Current
  <2>4. temp' \in [Name -> File \cup {Absent}]
    BY <2>2, Current
  <2>5. f # Absent
    BY <2>2, FileIsPresent
  <2>6. /\ \A i \in Name : ~Owns(w, i) => temp'[i] = temp[i]
        /\ \A i \in Name : Owns(w, i) => /\ temp'[i] # Absent /\ temp'[i].by = w
                                         /\ ContentOK(t, temp'[i])
    BY <1>4, <2>1, <2>2, <2>3, <2>5
  <2> QED
    BY <1>1, <1>2, <2>4, <2>6, OwnStep
<1> QED
  BY <1>3, <1>4

(* A failing call after which the file is to be removed.                   *)
LEMMA ToRemove ==
  ASSUME OutputInv, NEW w \in Writer, NEW e \in Error, e # "none",
         tx[w].pc \in Owning, tx[w].name # NoName,
         tx[w].saved = "none" => ~tx[w].ferror,
         Set(w, [Save(tx[w], e) EXCEPT !.pc = "remove"]),
         UNCHANGED <<dest, temp, litter>>
  PROVE  OutputInv'
<1> DEFINE c == tx[w]
           s == Save(c, e)
           t == [s EXCEPT !.pc = "remove"]
<1>1. c \in Transaction /\ TxOK(c)
  BY Current
<1>2. /\ s \in Transaction /\ s.name = c.name /\ s.mode = c.mode
      /\ s.ferror = c.ferror /\ s.ret = c.ret
      /\ s.saved = IF c.saved = "none" THEN e ELSE c.saved
      /\ s.first = IF c.first = "none" THEN e ELSE c.first
  BY <1>1, SaveFields
<1> HIDE DEF s
<1>3. /\ t \in Transaction /\ t.pc = "remove" /\ t.name = c.name
      /\ t.mode = c.mode /\ t.ret = c.ret
      /\ t.saved = s.saved /\ t.first = s.first
  BY <1>2 DEF Transaction, Owning
<1>4. c.ret = "none" /\ s.saved # "none" /\ s.first = s.saved
  BY <1>1, <1>2 DEF TxOK, Owning
<1> HIDE DEF t
<1>5. TxOK(t)
  BY <1>3, <1>4 DEF TxOK
<1>6. t.pc \in Owning /\ ContentOK(t, temp[t.name])
  BY <1>3 DEF Owning, ContentOK
<1>7. tx' = [tx EXCEPT ![w] = t]
  BY DEF Set, s, t
<1> QED
  BY <1>3, <1>5, <1>6, <1>7, StayStep

LEMMA SetupInv ==
  ASSUME OutputInv, NEW w \in Writer, Setup(w)
  PROVE  OutputInv'
<1> DEFINE c == tx[w]
<1>1. /\ c.pc = "setup" /\ UNCHANGED <<dest, litter>>
      /\ c \in Transaction /\ TxOK(c) /\ c.pc \in Owning
  BY Current DEF Setup, At, Owning
<1>2. /\ c.name # NoName /\ c.saved = "none" /\ ~c.ferror /\ c.first = "none"
      /\ c.ret = "none"
  BY <1>1 DEF TxOK
<1>3. ASSUME NEW e \in {"chmod", "fdopen"}, UNCHANGED temp,
             Set(w, [Save(c, e) EXCEPT !.pc = "remove"])
      PROVE  OutputInv'
  BY <1>1, <1>2, <1>3, ToRemove DEF Error
<1>4. CASE /\ temp' = [temp EXCEPT ![c.name] = ModeSet(@, c.mode)]
           /\ Set(w, [c EXCEPT !.pc = "write"])
  <2> DEFINE t == [c EXCEPT !.pc = "write"]
             g == temp[c.name]
             f == [g EXCEPT !.mode = c.mode]
  <2>1. /\ t \in Transaction /\ t.pc = "write" /\ t.name = c.name /\ t.mode = c.mode
        /\ t.saved = "none" /\ t.first = "none" /\ t.ret = "none" /\ t.ferror = c.ferror
    BY <1>1, <1>2 DEF Transaction, Owning
  <2>2. g \in File /\ g.by = w
    BY <1>1, <1>2, CurrentFile
  <2>3. f \in File /\ f.by = w /\ f.mode = c.mode
    BY <1>1, <2>2 DEF File, Transaction
  <2>4. temp' = [temp EXCEPT ![c.name] = f] /\ tx' = [tx EXCEPT ![w] = t]
    BY <1>4 DEF Set, ModeSet
  <2> HIDE DEF t, f
  <2>5. TxOK(t) /\ ContentOK(t, f) /\ t.pc \in Owning
    BY <1>2, <2>1, <2>3 DEF TxOK, ContentOK, Owning
  <2> QED
    BY <1>1, <1>2, <2>1, <2>3, <2>4, <2>5, StayStep
<1> QED
  BY <1>3, <1>4 DEF Setup

LEMMA WriteInv ==
  ASSUME OutputInv, NEW w \in Writer, Write(w)
  PROVE  OutputInv'
<1> DEFINE c == tx[w]
           m == c.n + 1
           next == [c EXCEPT !.n = m]
<1>1. /\ c.pc = "write" /\ UNCHANGED <<dest, litter>> /\ c.n < Chunks
      /\ c \in Transaction /\ TxOK(c) /\ c.pc \in Owning
  BY Current DEF Write, At, Owning
<1>2. /\ c.saved = "none" /\ c.ret = "none" /\ c.ferror \in BOOLEAN
      /\ c.first = IF c.ferror THEN "write" ELSE "none"
  BY <1>1 DEF TxOK, Transaction
<1>3. m \in 0 .. Chunks
  BY <1>1, OutputConstants DEF Transaction
<1>4. /\ next \in Transaction /\ next.pc = "write" /\ next.name = c.name
      /\ next.mode = c.mode /\ next.saved = "none" /\ next.ret = "none"
      /\ next.first = c.first /\ next.ferror = c.ferror /\ next.n = m
  BY <1>1, <1>2, <1>3 DEF Transaction
<1>5. c.name # NoName => temp[c.name] \in File /\ temp[c.name].by = w
                         /\ temp[c.name].mode = c.mode
  BY <1>1, CurrentFile DEF ContentOK
<1> HIDE DEF next, m
<1>6. CASE Set(w, next) /\ (UNCHANGED temp \/ temp' = Flushed(w, next.n))
  <2>1. TxOK(next) /\ next.pc \in Owning
    BY <1>2, <1>4 DEF TxOK, Owning
  <2>2. tx' = [tx EXCEPT ![w] = next]
    BY <1>6 DEF Set
  <2>3. CASE UNCHANGED temp
    <3>1. c.name # NoName => ContentOK(next, temp[c.name])
      BY <1>4, <1>5 DEF ContentOK
    <3> QED
      BY <1>1, <1>4, <2>1, <2>2, <2>3, <3>1, StayStep
  <2>4. CASE ~UNCHANGED temp
    <3> DEFINE g == temp[c.name]
               f == [g EXCEPT !.part = m]
    <3>1. c.name # NoName /\ temp' = [temp EXCEPT ![c.name] = f]
      BY <1>4, <1>6, <2>4 DEF Flushed
    <3>2. f \in File /\ f.by = w /\ f.mode = c.mode
      BY <1>3, <1>5, <3>1 DEF File
    <3> HIDE DEF f
    <3>3. ContentOK(next, f)
      BY <1>4, <3>2 DEF ContentOK
    <3> QED
      BY <1>1, <1>4, <2>1, <2>2, <3>1, <3>2, <3>3, StayStep
  <2> QED
    BY <2>3, <2>4
<1>7. CASE /\ UNCHANGED temp
           /\ Set(w, [next EXCEPT !.ferror = TRUE, !.first = FirstError(c, "write")])
  <2> DEFINE t == [next EXCEPT !.ferror = TRUE, !.first = "write"]
  <2>1. FirstError(c, "write") = "write"
    BY <1>2 DEF FirstError
  <2>2. /\ t \in Transaction /\ t.pc = "write" /\ t.name = c.name /\ t.mode = c.mode
        /\ t.saved = "none" /\ t.ret = "none" /\ t.first = "write" /\ t.ferror = TRUE
    BY <1>4 DEF Transaction, Error
  <2>3. tx' = [tx EXCEPT ![w] = t]
    BY <1>7, <2>1 DEF Set
  <2> HIDE DEF t
  <2>4. TxOK(t) /\ t.pc \in Owning
    BY <2>2 DEF TxOK, Owning
  <2>5. c.name # NoName => ContentOK(t, temp[c.name])
    BY <1>5, <2>2 DEF ContentOK
  <2> QED
    BY <1>1, <1>7, <2>2, <2>3, <2>4, <2>5, StayStep
<1>8. CASE /\ UNCHANGED temp
           /\ Set(w, [Save(c, "write") EXCEPT
                        !.ferror = TRUE, !.complete = FALSE, !.pc = "flush"])
  <2> DEFINE s == Save(c, "write")
             t == [s EXCEPT !.ferror = TRUE, !.complete = FALSE, !.pc = "flush"]
  <2>1. /\ s \in Transaction /\ s.name = c.name /\ s.mode = c.mode /\ s.ret = "none"
        /\ s.saved = "write" /\ s.first = "write"
    BY <1>1, <1>2, SaveFields DEF Error
  <2> HIDE DEF s
  <2>2. /\ t \in Transaction /\ t.pc = "flush" /\ t.name = c.name /\ t.mode = c.mode
        /\ t.saved = "write" /\ t.ret = "none" /\ t.first = "write" /\ t.ferror = TRUE
    BY <2>1 DEF Transaction, Owning
  <2>3. tx' = [tx EXCEPT ![w] = t]
    BY <1>8 DEF Set, s
  <2> HIDE DEF t
  <2>4. TxOK(t) /\ t.pc \in Owning
    BY <2>2 DEF TxOK, Owning
  <2>5. c.name # NoName => ContentOK(t, temp[c.name])
    BY <1>5, <2>2 DEF ContentOK
  <2> QED
    BY <1>1, <1>8, <2>2, <2>3, <2>4, <2>5, StayStep
<1> QED
  BY <1>6, <1>7, <1>8 DEF Write, next, m

(* After the checks of gk_finish_output_file.                              *)
LEMMA StreamCheckedFields ==
  ASSUME NEW c \in Transaction, TxOK(c), c.pc \in {"write", "flush"}
  PROVE  /\ StreamChecked(c) \in Transaction
         /\ StreamChecked(c).name = c.name /\ StreamChecked(c).mode = c.mode
         /\ StreamChecked(c).ret = "none" /\ StreamChecked(c).ferror = c.ferror
         /\ StreamChecked(c).first = StreamChecked(c).saved
         /\ StreamChecked(c).saved = "none" => c.saved = "none" /\ ~c.ferror
<1>1. /\ c.ret = "none" /\ c.ferror \in BOOLEAN
      /\ c.saved # "none" => c.first = c.saved
      /\ c.saved = "none" => c.first = IF c.ferror THEN "write" ELSE "none"
  BY DEF TxOK, Transaction
<1>2. CASE c.ferror
  <2>1. StreamChecked(c) = Save(c, "write")
    BY <1>2 DEF StreamChecked
  <2> DEFINE s == Save(c, "write")
  <2>2. /\ s \in Transaction /\ s.name = c.name /\ s.mode = c.mode /\ s.ret = c.ret
        /\ s.ferror = c.ferror
        /\ s.saved = IF c.saved = "none" THEN "write" ELSE c.saved
        /\ s.first = IF c.first = "none" THEN "write" ELSE c.first
    BY SaveFields DEF Error
  <2> HIDE DEF s
  <2>3. s.first = s.saved /\ s.saved # "none"
    BY <1>1, <1>2, <2>2
  <2> QED
    BY <1>1, <2>1, <2>2, <2>3 DEF s
<1>3. CASE ~c.ferror
  BY <1>1, <1>3 DEF StreamChecked
<1> QED
  BY <1>2, <1>3

LEMMA FlushInv ==
  ASSUME OutputInv, NEW w \in Writer, Flush(w)
  PROVE  OutputInv'
<1> DEFINE c == tx[w]
           s == StreamChecked(c)
           After(t) == IF t.name # NoName THEN Set(w, [t EXCEPT !.pc = "close"])
                       ELSE Return(w, t, IF Failed(t) THEN "failed" ELSE "printed")
<1>1. /\ c.pc = "flush" \/ (c.pc = "write" /\ c.n = Chunks)
      /\ UNCHANGED <<dest, litter>>
      /\ c \in Transaction /\ TxOK(c) /\ c.pc \in Owning
  BY Current DEF Flush, At, Owning
<1>2. /\ s \in Transaction /\ s.name = c.name /\ s.mode = c.mode /\ s.ret = "none"
      /\ s.ferror = c.ferror /\ s.first = s.saved
      /\ s.saved = "none" => c.saved = "none" /\ ~c.ferror
  BY <1>1, StreamCheckedFields
<1>3. s.saved = "none" => c.pc = "write" /\ c.n = Chunks
  BY <1>1, <1>2 DEF TxOK
<1>4. c.name # NoName => temp[c.name] \in File /\ temp[c.name].by = w
                         /\ temp[c.name].mode = c.mode
  BY <1>1, CurrentFile DEF ContentOK
<1> HIDE DEF s
<1>5. ASSUME NEW t \in Transaction, t.name = c.name, t.mode = c.mode, t.ret = "none",
             t.first = t.saved, t.saved = "none" => ~t.ferror,
             After(t), c.name = NoName, UNCHANGED temp
      PROVE  OutputInv'
  <2> DEFINE ret == IF Failed(t) THEN "failed" ELSE "printed"
             o == Over(ret, t.saved, t.saved)
  <2>1. ret # "none" => (ret = "failed" <=> t.saved # "none")
    BY DEF Failed
  <2>2. t.saved \in Error /\ ret \in {"none", "ok", "failed", "printed"}
    BY <1>5 DEF Transaction
  <2>3. tx' = [tx EXCEPT ![w] = o]
    BY <1>5 DEF Return, Set
  <2> HIDE DEF ret
  <2>4. TxOK(o) /\ o.pc = "idle"
    BY <2>1, <2>2, OverOK
  <2> QED
    BY <1>1, <1>5, <2>3, <2>4, FailStep
<1>6. ASSUME NEW t \in Transaction, t.name = c.name, t.mode = c.mode, t.ret = "none",
             t.first = t.saved, t.saved = "none" => ~t.ferror,
             After(t), c.name # NoName, NEW f, f \in File, f.by = w, f.mode = c.mode,
             t.saved = "none" => f.part = Chunks,
             \/ UNCHANGED temp /\ f = temp[c.name]
             \/ temp' = [temp EXCEPT ![c.name] = f]
      PROVE  OutputInv'
  <2> DEFINE u == [t EXCEPT !.pc = "close"]
  <2>1. /\ u \in Transaction /\ u.pc = "close" /\ u.name = c.name /\ u.mode = c.mode
        /\ u.ret = "none" /\ u.first = t.saved /\ u.saved = t.saved
        /\ u.ferror = t.ferror
    BY <1>6 DEF Transaction, Owning
  <2>2. tx' = [tx EXCEPT ![w] = u]
    BY <1>6 DEF Set
  <2> HIDE DEF u
  <2>3. TxOK(u) /\ u.pc \in Owning /\ ContentOK(u, f)
    BY <1>6, <2>1 DEF TxOK, Owning, ContentOK
  <2> QED
    BY <1>1, <1>6, <2>1, <2>2, <2>3, StayStep
<1>7. CASE temp' = Flushed(w, c.n) /\ After(s)
  <2>1. CASE c.name = NoName
    <3>1. UNCHANGED temp
      BY <1>7, <2>1 DEF Flushed
    <3> QED
      BY <1>2, <1>5, <1>7, <2>1, <3>1
  <2>2. CASE c.name # NoName /\ ~c.ferror
    <3> DEFINE g == temp[c.name]
               f == [g EXCEPT !.part = c.n]
    <3>1. temp' = [temp EXCEPT ![c.name] = f]
      BY <1>7, <2>2 DEF Flushed
    <3>2. f \in File /\ f.by = w /\ f.mode = c.mode /\ f.part = c.n
      BY <1>1, <1>4, <2>2 DEF File, Transaction
    <3> HIDE DEF f
    <3> QED
      BY <1>2, <1>3, <1>6, <1>7, <2>2, <3>1, <3>2
  <2>3. CASE c.name # NoName /\ c.ferror
    <3>1. UNCHANGED temp
      BY <1>7, <2>3 DEF Flushed
    <3> QED
      BY <1>2, <1>4, <1>6, <1>7, <2>3, <3>1
  <2> QED
    BY <1>1, <2>1, <2>2, <2>3 DEF Transaction
<1>8. CASE UNCHANGED temp /\ After(Save(s, "flush"))
  <2> DEFINE t == Save(s, "flush")
  <2>1. /\ t \in Transaction /\ t.name = c.name /\ t.mode = c.mode /\ t.ret = "none"
        /\ t.saved = IF s.saved = "none" THEN "flush" ELSE s.saved
        /\ t.first = IF s.first = "none" THEN "flush" ELSE s.first
    BY <1>2, SaveFields DEF Error
  <2> HIDE DEF t
  <2>2. t.first = t.saved /\ t.saved # "none"
    BY <1>2, <2>1
  <2>3. After(t)
    BY <1>8 DEF t
  <2>4. CASE c.name = NoName
    BY <1>5, <1>8, <2>1, <2>2, <2>3, <2>4
  <2>5. CASE c.name # NoName
    BY <1>4, <1>6, <1>8, <2>1, <2>2, <2>3, <2>5
  <2> QED
    BY <2>4, <2>5
<1> QED
  BY <1>7, <1>8 DEF Flush, s

LEMMA CloseInv ==
  ASSUME OutputInv, NEW w \in Writer, Close(w)
  PROVE  OutputInv'
<1> DEFINE c == tx[w]
<1>1. /\ c.pc = "close" /\ UNCHANGED <<dest, temp, litter>>
      /\ c \in Transaction /\ TxOK(c) /\ c.pc \in Owning /\ c.name # NoName
  BY Current DEF Close, At, Owning, TxOK
<1>2. c.saved = "none" => ~c.ferror
  BY <1>1 DEF TxOK
<1>3. CASE Set(w, [Save(c, "close") EXCEPT !.pc = "remove"])
  BY <1>1, <1>2, <1>3, ToRemove DEF Error
<1>4. CASE Set(w, [c EXCEPT !.pc = IF Failed(c) THEN "remove" ELSE "rename"])
  <2> DEFINE pc == IF Failed(c) THEN "remove" ELSE "rename"
             t == [c EXCEPT !.pc = pc]
  <2>1. /\ pc \in {"remove", "rename"}
        /\ pc = "remove" => c.saved # "none"
        /\ pc = "rename" => c.saved = "none"
    BY DEF Failed
  <2> HIDE DEF pc
  <2>2. /\ t \in Transaction /\ t.pc = pc /\ t.name = c.name /\ t.mode = c.mode
        /\ t.ret = c.ret /\ t.first = c.first /\ t.saved = c.saved
        /\ t.ferror = c.ferror
    BY <1>1, <2>1 DEF Transaction, Owning
  <2>3. tx' = [tx EXCEPT ![w] = t]
    BY <1>4 DEF Set, pc
  <2> HIDE DEF t
  <2>4. TxOK(t) /\ t.pc \in Owning
    BY <1>1, <2>1, <2>2 DEF TxOK, Owning
  <2>5. ContentOK(t, temp[c.name])
    <3>1. ContentOK(c, temp[c.name])
      BY <1>1, CurrentFile
    <3> QED
      BY <1>1, <2>1, <2>2, <3>1 DEF ContentOK
  <2> QED
    BY <1>1, <2>2, <2>3, <2>4, <2>5, StayStep
<1> QED
  BY <1>3, <1>4 DEF Close

(* The file renamed is complete and has the mode the destination had.      *)
LEMMA RenamedFile ==
  ASSUME OutputInv, NEW w \in Writer, tx[w].pc = "rename"
  PROVE  /\ temp[tx[w].name] \in File /\ temp[tx[w].name].by = w
         /\ temp[tx[w].name].part = Chunks
         /\ temp[tx[w].name].mode = IF dest = Absent THEN Umask ELSE dest.mode
         /\ temp[tx[w].name].mode # Link /\ (dest # Absent => dest.mode # Link)
<1>1. tx[w].pc \in Owning /\ tx[w].name # NoName /\ tx[w].saved = "none"
  BY Current DEF TxOK, Owning
<1>2. ContentOK(tx[w], temp[tx[w].name])
  BY <1>1, CurrentFile
<1>3. ModeOK(tx[w], dest)
  BY Current
<1> QED
  BY <1>1, <1>2, <1>3, CurrentFile DEF ContentOK, ModeOK, Umask, Link

LEMMA RenameInv ==
  ASSUME OutputInv, NEW w \in Writer, Rename(w)
  PROVE  OutputInv'
<1> DEFINE c == tx[w]
           n == c.name
<1>1. /\ c.pc = "rename" /\ UNCHANGED litter
      /\ c \in Transaction /\ TxOK(c) /\ c.pc \in Owning /\ c.name # NoName
  BY Current DEF Rename, At, Owning, TxOK
<1>2. c.saved = "none" /\ c.first = "none" /\ ~c.ferror
  BY <1>1 DEF TxOK
<1>3. CASE Set(w, [Save(c, "rename") EXCEPT !.pc = "remove"]) /\ UNCHANGED <<dest, temp>>
  BY <1>1, <1>2, <1>3, ToRemove DEF Error
<1>4. CASE /\ dest' = temp[n] /\ temp' = [temp EXCEPT ![n] = Absent]
           /\ Return(w, c, "ok")
  <2> DEFINE t == Over("ok", "none", "none")
  <2>1. tx' = [tx EXCEPT ![w] = t]
    BY <1>2, <1>4 DEF Return, Set
  <2>2. TxOK(t) /\ t.pc = "idle"
    BY OverOK DEF Error
  <2> HIDE DEF t
  <2>3. /\ n \in Name /\ Owns(w, n)
        /\ \A i \in Name : Owns(w, i) <=> i = n
    BY <1>1, CurrentFile
  <2>4. /\ temp' \in [Name -> File \cup {Absent}] /\ temp'[n] = Absent
        /\ \A i \in Name : i # n => temp'[i] = temp[i]
    BY <1>4, <2>3, Current
  <2>5. n \notin litter
    BY <2>3 DEF OutputInv, TempsOwned
  <2>6. /\ dest' \in File /\ dest' # Absent /\ dest'.mode # Link
        /\ dest'.mode = IF dest = Absent THEN Umask ELSE dest.mode
    BY <1>1, <1>4, RenamedFile, FileIsPresent
  <2>7. \A v \in Writer : ModeOK(tx[v], dest')
    BY <2>6, Current DEF ModeOK
  <2> QED
    BY <1>1, <2>1, <2>2, <2>3, <2>4, <2>5, <2>6, <2>7, EndStep, Current
<1> QED
  BY <1>3, <1>4 DEF Rename

LEMMA RemoveInv ==
  ASSUME OutputInv, NEW w \in Writer, RemoveTemp(w)
  PROVE  OutputInv'
<1> DEFINE c == tx[w]
           n == c.name
<1>1. /\ c.pc = "remove" /\ UNCHANGED dest
      /\ c \in Transaction /\ TxOK(c) /\ c.pc \in Owning /\ c.name # NoName
  BY Current DEF RemoveTemp, At, Owning, TxOK
<1>2. c.saved # "none" /\ c.first = c.saved /\ c.saved \in Error
  BY <1>1 DEF TxOK, Transaction
<1> DEFINE t == Over("failed", c.saved, c.saved)
<1>3. tx' = [tx EXCEPT ![w] = t]
  BY <1>2 DEF RemoveTemp, Return, Set
<1>4. TxOK(t) /\ t.pc = "idle"
  BY <1>2, OverOK
<1> HIDE DEF t
<1>5. /\ n \in Name /\ temp[n] \in File
      /\ \A i \in Name : Owns(w, i) <=> i = n
  BY <1>1, CurrentFile
<1>6. \A v \in Writer : ModeOK(tx[v], dest')
  BY <1>1, Current
<1>7. CASE temp' = [temp EXCEPT ![n] = Absent] /\ UNCHANGED litter
  <2>1. /\ temp' \in [Name -> File \cup {Absent}] /\ temp'[n] = Absent
        /\ \A i \in Name : i # n => temp'[i] = temp[i]
    BY <1>5, <1>7, Current
  <2>2. n \notin litter
    BY <1>5 DEF OutputInv, TempsOwned
  <2> QED
    BY <1>1, <1>3, <1>4, <1>5, <1>6, <1>7, <2>1, <2>2, EndStep, Current
<1>8. CASE UNCHANGED temp /\ litter' = litter \cup {n}
  <2>1. temp[n] # Absent
    BY <1>5, FileIsPresent
  <2> QED
    BY <1>1, <1>3, <1>4, <1>5, <1>6, <1>8, <2>1, EndStep, Current
<1> QED
  BY <1>7, <1>8 DEF RemoveTemp

-----------------------------------------------------------------------------
LEMMA NextInv == OutputInv /\ [OutputNext]_outputVars => OutputInv'
<1> SUFFICES ASSUME OutputInv, [OutputNext]_outputVars PROVE OutputInv'
  OBVIOUS
<1>1. CASE UNCHANGED outputVars
  BY <1>1 DEF outputVars, OutputInv, OutputTypeOK, TempsOwned, Owns
<1>2. CASE Crash
  BY <1>2, CrashInv
<1>3. ASSUME NEW w \in Writer,
             \/ Begin(w) \/ Create(w) \/ Setup(w) \/ Write(w)
             \/ Flush(w) \/ Close(w) \/ Rename(w) \/ RemoveTemp(w)
      PROVE  OutputInv'
  BY <1>3, BeginInv, CreateTempInv, SetupInv, WriteInv, FlushInv, CloseInv,
     RenameInv, RemoveInv
<1> QED
  BY <1>1, <1>2, <1>3 DEF OutputNext

(* The inductive invariant holds in every state of every behaviour.        *)
THEOREM SpecIInv == OutputSpec => []OutputInv
BY InitInv, NextInv, PTL DEF OutputSpec

(* Files and transactions of io_internal.h keep their types; in particular *)
(* no temporary name past the last attempt is ever tried.                  *)
THEOREM OutputTypeCorrect == OutputSpec => []OutputTypeOK
<1>1. OutputInv => OutputTypeOK
  BY DEF OutputInv
<1> QED
  BY <1>1, SpecIInv, PTL

(* Transactions of gk_open_output_file never share a temporary file, never *)
(* touch one left behind, and leave none but by a crash or a failed        *)
(* removal.                                                                *)
THEOREM TempsTheorem == OutputSpec => []TempsOwned
<1>1. OutputInv => TempsOwned
  BY DEF OutputInv
<1> QED
  BY <1>1, SpecIInv, PTL

(* gk_finish_output_file reports the first error, and an error whenever    *)
(* there was one.                                                          *)
THEOREM FirstErrorTheorem == OutputSpec => []FirstErrorReported
<1>1. OutputInv => FirstErrorReported
  BY DEF OutputInv, TxOK, FirstErrorReported, At
<1> QED
  BY <1>1, SpecIInv, PTL

-----------------------------------------------------------------------------
(***************************************************************************)
(* OutputFile implements AtomicFile. A step that does not rename leaves the*)
(* destination alone and changes what one writer is told; the rename is the*)
(* commit.                                                                 *)
(***************************************************************************)
Quiet(w) == \E t : /\ tx' = [tx EXCEPT ![w] = t] /\ UNCHANGED dest
                   /\ t.ret \in {"none", "failed", "printed"}

LEMMA QuietStep ==
  ASSUME OutputInv, NEW w \in Writer, Quiet(w)
  PROVE  Atomic!Next
<1>1. PICK t : /\ tx' = [tx EXCEPT ![w] = t] /\ UNCHANGED dest
               /\ t.ret \in {"none", "failed", "printed"}
  BY DEF Quiet
<1>2. tx'[w] = t /\ \A v \in Writer \ {w} : tx'[v] = tx[v]
  BY <1>1, Current
<1> DEFINE told == [v \in Writer |-> tx[v].ret]
<1>3. told' = [told EXCEPT ![w] = t.ret]
  BY <1>2
<1> QED
  BY <1>1, <1>3 DEF Atomic!Next, Atomic!Begin, Atomic!Fail, Atomic!Emit

(* Actions that only move on, or fail, or end without a file.              *)
LEMMA FailIsQuiet ==
  ASSUME NEW w \in Writer, NEW t, UNCHANGED dest,
         Return(w, t, "failed") \/ Return(w, t, "printed")
  PROVE  Quiet(w)
<1>1. ASSUME NEW ret \in {"failed", "printed"}, Return(w, t, ret)
      PROVE  Quiet(w)
  <2>1. Over(ret, t.saved, t.first).ret = ret
    BY DEF Over
  <2> QED
    BY <1>1, <2>1 DEF Return, Set, Quiet
<1> QED
  BY <1>1

LEMMA SetIsQuiet ==
  ASSUME NEW w \in Writer, NEW t, t.ret = "none", Set(w, t), UNCHANGED dest
  PROVE  Quiet(w)
BY DEF Set, Quiet

LEMMA RemoveIsQuiet ==
  ASSUME OutputInv, NEW w \in Writer, NEW e \in Error, e # "none", tx[w].pc # "idle",
         Set(w, [Save(tx[w], e) EXCEPT !.pc = "remove"]), UNCHANGED dest
  PROVE  Quiet(w)
<1> DEFINE s == Save(tx[w], e)
           t == [s EXCEPT !.pc = "remove"]
<1>1. s \in Transaction /\ s.ret = "none"
  BY Current, SaveFields DEF TxOK
<1> HIDE DEF s
<1>2. t.ret = "none"
  BY <1>1 DEF Transaction
<1> QED
  BY <1>2, SetIsQuiet DEF s

LEMMA MoveIsQuiet ==
  ASSUME OutputInv, NEW w \in Writer, tx[w].pc # "idle", UNCHANGED dest, NEW n, NEW pc,
         \/ Set(w, [tx[w] EXCEPT !.pc = pc])
         \/ Set(w, [tx[w] EXCEPT !.name = n])
         \/ Set(w, [tx[w] EXCEPT !.n = n])
  PROVE  Quiet(w)
<1>1. tx[w] \in Transaction /\ tx[w].ret = "none"
  BY Current DEF TxOK
<1>2. /\ [tx[w] EXCEPT !.pc = pc].ret = "none"
      /\ [tx[w] EXCEPT !.name = n].ret = "none"
      /\ [tx[w] EXCEPT !.n = n].ret = "none"
  BY <1>1 DEF Transaction
<1> QED
  BY <1>2, SetIsQuiet

LEMMA WriteIsQuiet ==
  ASSUME OutputInv, NEW w \in Writer, Write(w)
  PROVE  Quiet(w)
<1> DEFINE c == tx[w]
           next == [c EXCEPT !.n = c.n + 1]
           s == Save(c, "write")
<1>1. /\ c.pc = "write" /\ UNCHANGED dest
      /\ c \in Transaction /\ c.ret = "none" /\ c.n < Chunks
  BY Current DEF Write, At, TxOK
<1>2. s \in Transaction /\ s.ret = "none"
  BY <1>1, SaveFields DEF Error
<1>3. next \in Transaction /\ next.ret = "none"
  BY <1>1, OutputConstants DEF Transaction
<1> HIDE DEF next, s
<1>4. /\ [next EXCEPT !.ferror = TRUE, !.first = FirstError(c, "write")].ret = "none"
      /\ [s EXCEPT !.ferror = TRUE, !.complete = FALSE, !.pc = "flush"].ret = "none"
  BY <1>2, <1>3 DEF Transaction
<1>5. CASE Set(w, next)
  BY <1>1, <1>3, <1>5, SetIsQuiet
<1>6. CASE Set(w, [next EXCEPT !.ferror = TRUE, !.first = FirstError(c, "write")])
  BY <1>1, <1>4, <1>6, SetIsQuiet
<1>7. CASE Set(w, [s EXCEPT !.ferror = TRUE, !.complete = FALSE, !.pc = "flush"])
  BY <1>1, <1>4, <1>7, SetIsQuiet
<1> QED
  BY <1>5, <1>6, <1>7 DEF Write, next, s

LEMMA FlushIsQuiet ==
  ASSUME OutputInv, NEW w \in Writer, Flush(w)
  PROVE  Quiet(w)
<1> DEFINE c == tx[w]
           s == StreamChecked(c)
           u == Save(s, "flush")
<1>1. c.pc \in {"write", "flush"} /\ UNCHANGED dest /\ c \in Transaction /\ TxOK(c)
  BY Current DEF Flush, At
<1>2. s \in Transaction /\ s.ret = "none"
  BY <1>1, StreamCheckedFields
<1>3. u \in Transaction /\ u.ret = "none"
  BY <1>2, SaveFields DEF Error
<1> HIDE DEF s
<1>4. ASSUME NEW t \in Transaction, t.ret = "none",
             IF t.name # NoName THEN Set(w, [t EXCEPT !.pc = "close"])
             ELSE Return(w, t, IF Failed(t) THEN "failed" ELSE "printed")
      PROVE  Quiet(w)
  <2>1. [t EXCEPT !.pc = "close"].ret = "none"
    BY <1>4 DEF Transaction
  <2>2. CASE t.name # NoName
    BY <1>1, <1>4, <2>1, <2>2, SetIsQuiet
  <2>3. CASE t.name = NoName
    <3>1. Return(w, t, "failed") \/ Return(w, t, "printed")
      BY <1>4, <2>3
    <3> QED
      BY <1>1, <3>1, FailIsQuiet
  <2> QED
    BY <2>2, <2>3
<1> HIDE DEF u
<1> QED
  BY <1>2, <1>3, <1>4 DEF Flush, s, u

LEMMA OthersAreQuiet ==
  ASSUME OutputInv, NEW w \in Writer,
         Begin(w) \/ Create(w) \/ Setup(w) \/ Close(w) \/ RemoveTemp(w)
  PROVE  Quiet(w)
<1>1. CASE Begin(w)
  <2>1. \A pc, name, mode : Begun(pc, name, mode).ret = "none"
    BY DEF Begun
  <2>2. UNCHANGED dest
    BY <1>1 DEF Begin
  <2>3. \/ \E t : Return(w, t, "failed")
        \/ \E pc, name, mode : Set(w, Begun(pc, name, mode))
    BY <1>1 DEF Begin
  <2> QED
    BY <2>1, <2>2, <2>3, FailIsQuiet, SetIsQuiet
<1>2. CASE Create(w)
  <2>1. tx[w].pc # "idle" /\ UNCHANGED dest
    BY <1>2 DEF Create, At
  <2>2. \/ \E t : Return(w, t, "failed")
        \/ \E n : Set(w, [tx[w] EXCEPT !.name = n])
        \/ Set(w, [tx[w] EXCEPT !.pc = "setup"])
    BY <1>2 DEF Create
  <2> QED
    BY <2>1, <2>2, FailIsQuiet, MoveIsQuiet
<1>3. CASE Setup(w)
  <2>1. tx[w].pc # "idle" /\ UNCHANGED dest
    BY <1>3 DEF Setup, At
  <2>2. \/ \E e \in {"chmod", "fdopen"} : Set(w, [Save(tx[w], e) EXCEPT !.pc = "remove"])
        \/ Set(w, [tx[w] EXCEPT !.pc = "write"])
    BY <1>3 DEF Setup
  <2> QED
    BY <2>1, <2>2, RemoveIsQuiet, MoveIsQuiet DEF Error
<1>4. CASE Close(w)
  <2>1. tx[w].pc # "idle" /\ UNCHANGED dest
    BY <1>4 DEF Close, At
  <2>2. \/ Set(w, [Save(tx[w], "close") EXCEPT !.pc = "remove"])
        \/ \E pc : Set(w, [tx[w] EXCEPT !.pc = pc])
    BY <1>4 DEF Close
  <2> QED
    BY <2>1, <2>2, RemoveIsQuiet, MoveIsQuiet DEF Error
<1>5. CASE RemoveTemp(w)
  BY <1>5, FailIsQuiet DEF RemoveTemp
<1> QED
  BY <1>1, <1>2, <1>3, <1>4, <1>5

LEMMA RenameCommits ==
  ASSUME OutputInv, NEW w \in Writer, Rename(w)
  PROVE  Atomic!Next
<1>1. tx[w].pc = "rename" /\ tx[w].pc # "idle"
  BY DEF Rename, At
<1>2. CASE Set(w, [Save(tx[w], "rename") EXCEPT !.pc = "remove"]) /\ UNCHANGED dest
  BY <1>1, <1>2, RemoveIsQuiet, QuietStep DEF Error
<1>3. CASE dest' = temp[tx[w].name] /\ Return(w, tx[w], "ok")
  <2> DEFINE file == IF dest = Absent THEN Absent
                     ELSE [by |-> dest.by, whole |-> dest.part = Chunks, mode |-> dest.mode]
             told == [v \in Writer |-> tx[v].ret]
             t == Over("ok", tx[w].saved, tx[w].first)
  <2>1. /\ dest' \in File /\ dest'.by = w /\ dest'.part = Chunks /\ dest' # Absent
        /\ dest'.mode = IF dest = Absent THEN Umask ELSE dest.mode
        /\ dest # Absent => dest.mode # Link
    BY <1>1, <1>3, RenamedFile, FileIsPresent
  <2>2. t.ret = "ok" /\ tx' = [tx EXCEPT ![w] = t]
    BY <1>3 DEF Over, Return, Set
  <2>3. told' = [told EXCEPT ![w] = "ok"]
    BY <2>2, Current
  <2>4. file' = [by |-> w, whole |-> TRUE,
                 mode |-> IF dest = Absent THEN Umask ELSE dest.mode]
    BY <2>1
  <2>5. file = Absent <=> dest = Absent
    <3>1. CASE dest = Absent
      BY <3>1
    <3>2. CASE dest # Absent
      <4>1. file = [by |-> dest.by, whole |-> dest.part = Chunks, mode |-> dest.mode]
        BY <3>2
      <4>2. file \in [by : Writer \cup {"before"}, whole : BOOLEAN, mode : Mode]
        BY <3>2, <4>1, Current DEF File
      <4> QED
        BY <3>2, <4>2, OutputConstants
    <3> QED
      BY <3>1, <3>2
  <2> QED
    BY <2>1, <2>3, <2>4, <2>5 DEF Atomic!Next, Atomic!Commit
<1> QED
  BY <1>2, <1>3 DEF Rename

LEMMA CrashForgets == Crash => Atomic!Next
<1>1. Idle.ret = "none"
  BY DEF Idle, Over
<1> QED
  BY <1>1 DEF Crash, Atomic!Next, Atomic!Forget

LEMMA InitIsAtomic == OutputInit => Atomic!Init
<1> SUFFICES ASSUME OutputInit PROVE Atomic!Init
  OBVIOUS
<1>1. Idle.ret = "none"
  BY DEF Idle, Over
<1>2. CASE dest = Absent
  BY <1>1, <1>2 DEF OutputInit, Atomic!Init
<1>3. CASE dest \in Before
  BY <1>1, <1>3 DEF OutputInit, Before, Atomic!Init
<1> QED
  BY <1>2, <1>3 DEF OutputInit

(* The transactions of io_internal.h replace the destination atomically:   *)
(* whatever call fails and wherever the process dies, the destination is   *)
(* the old file or a complete new one of the writer that is told so, with  *)
(* the mode it had.                                                        *)
THEOREM AtomicTheorem == OutputSpec => AtomicSpec
<1>1. ASSUME OutputInv, [OutputNext]_outputVars PROVE [Atomic!Next]_(Atomic!avars)
  <2>1. CASE UNCHANGED outputVars
    BY <2>1 DEF outputVars, Atomic!avars
  <2>2. CASE Crash
    BY <2>2, CrashForgets
  <2>3. ASSUME NEW w \in Writer, Rename(w)
        PROVE  Atomic!Next
    BY <1>1, <2>3, RenameCommits
  <2>4. ASSUME NEW w \in Writer,
               \/ Begin(w) \/ Create(w) \/ Setup(w) \/ Write(w)
               \/ Flush(w) \/ Close(w) \/ RemoveTemp(w)
        PROVE  Atomic!Next
    BY <1>1, <2>4, QuietStep, OthersAreQuiet, WriteIsQuiet, FlushIsQuiet
  <2> QED
    BY <1>1, <2>1, <2>2, <2>3, <2>4 DEF OutputNext
<1> QED
  BY <1>1, InitIsAtomic, SpecIInv, PTL DEF OutputSpec, AtomicSpec, Atomic!Spec

-----------------------------------------------------------------------------
(* The priority queue.                                                     *)
Queue == [nnodes : 0 .. MaxNodes, heap : [Node -> Entry \cup {NoEntry}],
          locator : [Node -> Node \cup {-1}]]
Used(s) == 0 .. s.nnodes - 1

(* x may be above y in the heap.                                           *)
Le(x, y) == ~KeyLT(y.key, x.key)
-----------------------------------------------------------------------------
LEMMA Constants ==
  /\ MaxNodes \in Nat /\ MaxNodes >= 1 /\ Priority \subseteq Int /\ MaxFirst \in BOOLEAN
  /\ Node \subseteq Nat
BY PQConstants DEF Node

LEMMA LeOrder ==
  ASSUME NEW x \in Entry, NEW y \in Entry
  PROVE  /\ Le(x, x)
         /\ KeyLT(x.key, y.key) => Le(x, y)
         /\ \A z \in Entry : Le(x, y) /\ Le(y, z) => Le(x, z)
<1>1. \A z \in Entry : z.key \in Int
  BY Constants DEF Entry
<1> QED BY <1>1 DEF Le, KeyLT

LEMMA Parents ==
  /\ \A j \in Nat \ {0} : Parent(j) \in Nat /\ Parent(j) < j
  /\ \A j, k \in Nat \ {0} : j <= k => Parent(j) <= Parent(k)
  /\ \A j \in Nat, k \in Nat \ {0} : Parent(k) = j <=> k = 2 * j + 1 \/ k = 2 * j + 2
BY DEF Parent

LEMMA PutEffect ==
  ASSUME NEW s \in Queue, NEW i \in Node, NEW e \in Entry
  PROVE  /\ Put(s, i, e) \in Queue /\ Put(s, i, e).nnodes = s.nnodes
         /\ \A a \in Node : Put(s, i, e).heap[a] = IF a = i THEN e ELSE s.heap[a]
         /\ \A n \in Node : Put(s, i, e).locator[n] = IF n = e.val THEN i ELSE s.locator[n]
<1>1. e.val \in Node
  BY DEF Entry
<1> DEFINE h == [s.heap EXCEPT ![i] = e]
           l == [s.locator EXCEPT ![e.val] = i]
<1>2. h \in [Node -> Entry \cup {NoEntry}] /\ l \in [Node -> Node \cup {-1}]
  BY <1>1 DEF Queue
<1>3. /\ \A a \in Node : h[a] = IF a = i THEN e ELSE s.heap[a]
      /\ \A n \in Node : l[n] = IF n = e.val THEN i ELSE s.locator[n]
  BY <1>1 DEF Queue
<1>4. Put(s, i, e) = [s EXCEPT !.heap = h, !.locator = l]
  BY DEF Put, Queue
<1> HIDE DEF h, l
<1> QED BY <1>2, <1>3, <1>4 DEF Queue
-----------------------------------------------------------------------------
LEMMA LeastOf ==
  ASSUME NEW T, T \subseteq Nat, T # {}
  PROVE  \E k \in T : \A l \in T : k <= l
<1>1. PICK k \in T : \A l \in T : <<l, k>> \notin OpToRel(<, Nat)
  BY NatLessThanWellFounded, WFMin
<1>2. \A l \in T : ~ (l < k)
  BY <1>1 DEF OpToRel
<1>3. k \in Nat /\ \A l \in T : l \in Nat
  OBVIOUS
<1> QED BY <1>2, <1>3

(* A chain of holes: from each place but those of stop the hole goes on to *)
(* the place next, where m is smaller.                                     *)
IsChain(f, s, e, D, stop, next) ==
  f = [j \in D |-> IF j \in stop THEN Put(s, j, e)
                   ELSE Put(f[next[j]], j, s.heap[next[j]])]

LEMMA ChainExists ==
  ASSUME NEW s, NEW e, NEW D, NEW stop, NEW next \in [D -> D],
         NEW M \in Nat, NEW m \in [D -> 0 .. M],
         \A j \in D \ stop : m[next[j]] < m[j]
  PROVE  \E f : IsChain(f, s, e, D, stop, next)
<1> DEFINE Of(k) == {j \in D : m[j] < k}
           Body(f, j) == IF j \in stop THEN Put(s, j, e)
                         ELSE Put(f[next[j]], j, s.heap[next[j]])
           Has(k) == \E f : f = [j \in Of(k) |-> Body(f, j)]
           T == {k \in Nat : ~Has(k)}
<1>1. ASSUME T # {} PROVE FALSE
  <2>1. PICK k \in T : \A l \in T : k <= l
    BY <1>1, LeastOf
  <2>2. k # 0
    <3>1. Of(0) = {}
      OBVIOUS
    <3>2. \A f : [j \in Of(0) |-> Body(f, j)] = [j \in {} |-> j]
      BY <3>1
    <3>3. Has(0)
      BY <3>2
    <3> QED BY <2>1, <3>3
  <2>3. k - 1 \in Nat /\ k - 1 < k
    BY <2>1, <2>2
  <2>4. Has(k - 1)
    <3>1. k - 1 \notin T
      <4>1. k \in Nat
        OBVIOUS
      <4> HIDE DEF T
      <4> QED BY <2>1, <2>3, <4>1
    <3> HIDE DEF Has
    <3> QED BY <2>3, <3>1
  <2>5. PICK f : f = [j \in Of(k - 1) |-> Body(f, j)]
    BY <2>4
  <2> DEFINE g == [j \in Of(k) |-> Body(f, j)]
  <2>6. \A j \in Of(k - 1) : j \in Of(k) /\ g[j] = f[j]
    BY <2>1, <2>5
  <2>7. ASSUME NEW j \in Of(k) PROVE Body(g, j) = Body(f, j)
    <3>1. CASE j \in stop
      BY <3>1
    <3>2. CASE j \notin stop
      <4>1. next[j] \in D /\ m[next[j]] < m[j] /\ m[j] < k
        BY <3>2
      <4>2. m[next[j]] \in Nat /\ m[j] \in Nat /\ k \in Nat
        BY <2>1, <4>1
      <4>3. next[j] \in Of(k - 1)
        BY <4>1, <4>2
      <4>4. g[next[j]] = f[next[j]]
        BY <2>6, <4>3
      <4> HIDE DEF g
      <4> QED BY <3>2, <4>4
    <3> QED BY <3>1, <3>2
  <2>8. g = [j \in Of(k) |-> Body(g, j)]
    <3> HIDE DEF Body
    <3> QED BY <2>7
  <2>9. Has(k)
    <3> HIDE DEF g
    <3> QED BY <2>8
  <2> QED BY <2>1, <2>9
<1>2. Has(M + 1)
  <2>1. T = {}
    BY <1>1
  <2>2. M + 1 \notin T
    <3> HIDE DEF T
    <3> QED BY <2>1
  <2> HIDE DEF Has
  <2> QED BY <2>2
<1>3. Of(M + 1) = D
  OBVIOUS
<1> HIDE DEF Of
<1> QED BY <1>2, <1>3 DEF IsChain

(* What the recursion of FilterUp computes.                                *)
LEMMA FilterUpRuns ==
  ASSUME NEW s, NEW i \in Nat, NEW e
  PROVE  \E up : /\ FilterUp(s, i, e) = up[i]
                 /\ \A j \in 0 .. i :
                      up[j] = IF j > 0 /\ KeyLT(e.key, s.heap[Parent(j)].key)
                              THEN Put(up[Parent(j)], j, s.heap[Parent(j)])
                              ELSE Put(s, j, e)
<1> DEFINE D == 0 .. i
           Goes(j) == j > 0 /\ KeyLT(e.key, s.heap[Parent(j)].key)
           stop == {j \in D : ~Goes(j)}
           next == [j \in D |-> IF j > 0 THEN Parent(j) ELSE 0]
           m == [j \in D |-> j]
           Is(f) == f = [j \in D |-> IF Goes(j) THEN Put(f[Parent(j)], j, s.heap[Parent(j)])
                                     ELSE Put(s, j, e)]
<1>1. \A j \in D : j > 0 => Parent(j) \in D /\ Parent(j) < j
  BY Parents
<1>2. next \in [D -> D] /\ m \in [D -> 0 .. i] /\ \A j \in D \ stop : m[next[j]] < m[j]
  <2> HIDE DEF Goes
  <2>1. \A j \in D \ stop : j > 0 /\ next[j] = Parent(j) /\ Goes(j)
    BY DEF Goes
  <2> QED BY <1>1, <2>1
<1>3. PICK f : IsChain(f, s, e, D, stop, next)
  <2> HIDE DEF D, stop, next, m
  <2> QED BY <1>2, ChainExists
<1>4. \A j \in D : /\ j \in stop <=> ~Goes(j)
                   /\ Goes(j) => next[j] = Parent(j)
  OBVIOUS
<1> HIDE DEF stop, next, Goes
<1>5. Is(f)
  BY <1>3, <1>4 DEF IsChain
<1> DEFINE up == CHOOSE g : Is(g)
<1>6. Is(up)
  <2> HIDE DEF Is
  <2> QED BY <1>5
<1>7. FilterUp(s, i, e) = up[i]
  BY DEF FilterUp, Goes
<1> HIDE DEF up
<1>8. \A j \in D : up[j] = IF Goes(j) THEN Put(up[Parent(j)], j, s.heap[Parent(j)])
                           ELSE Put(s, j, e)
  BY <1>6
<1> QED BY <1>7, <1>8 DEF Goes

(* The hole sinks to a child, if to any place.                             *)
LEMMA SinkPlaces ==
  ASSUME NEW s, s.nnodes \in 0 .. MaxNodes, NEW j \in Nat, NEW key
  PROVE  \/ SinkTo(s, j, key) = {}
         \/ \E c \in Nat : /\ SinkTo(s, j, key) = {c}
                           /\ c < s.nnodes /\ j < c /\ (c = 2 * j + 1 \/ c = 2 * j + 2)
<1>1. s.nnodes \in Nat
  BY Constants
<1> DEFINE l == 2 * j + 1
           right == l + 1 < s.nnodes
<1>2. l \in Nat /\ l + 1 \in Nat /\ j < l /\ j < l + 1 /\ l + 1 = 2 * j + 2
  OBVIOUS
<1>3. SinkTo(s, j, key) \in {{}, {l}, {l + 1}}
  BY DEF SinkTo
<1>4. SinkTo(s, j, key) # {} => l < s.nnodes
  BY <1>1, <1>2 DEF SinkTo
<1>5. SinkTo(s, j, key) = {l + 1} => l + 1 < s.nnodes
  BY <1>1, <1>2 DEF SinkTo
<1> QED BY <1>2, <1>3, <1>4, <1>5

(* What the recursion of FilterDown computes.                              *)
DownRuns(s, i, e, down) ==
  /\ FilterDown(s, i, e) = down[i]
  /\ \A j \in i .. MaxNodes :
       /\ SinkTo(s, j, e.key) = {} => down[j] = Put(s, j, e)
       /\ \A c : SinkTo(s, j, e.key) = {c} => down[j] = Put(down[c], j, s.heap[c])

LEMMA FilterDownRuns ==
  ASSUME NEW s, s.nnodes \in 0 .. MaxNodes, NEW i \in 0 .. MaxNodes, NEW e
  PROVE  \E down : DownRuns(s, i, e, down)
<1> DEFINE D == i .. MaxNodes
           Sink(j) == SinkTo(s, j, e.key)
           To(j) == CHOOSE k \in Sink(j) : TRUE
           stop == {j \in D : Sink(j) = {}}
           next == [j \in D |-> IF Sink(j) = {} THEN j ELSE To(j)]
           m == [j \in D |-> MaxNodes - j]
           Is(f) == f = [j \in D |-> IF Sink(j) = {} THEN Put(s, j, e)
                                     ELSE Put(f[To(j)], j, s.heap[To(j)])]
<1>1. \A j \in D : j \in Nat
  BY Constants
<1>2. ASSUME NEW j \in D, Sink(j) # {}
      PROVE  To(j) \in D /\ j < To(j) /\ Sink(j) = {To(j)}
  <2>1. PICK c \in Nat : Sink(j) = {c} /\ c < s.nnodes /\ j < c
    BY <1>1, <1>2, SinkPlaces
  <2>2. To(j) = c
    BY <2>1
  <2> QED BY <2>1, <2>2, Constants
<1> HIDE DEF Sink
<1>3. next \in [D -> D] /\ m \in [D -> 0 .. MaxNodes] /\ \A j \in D \ stop : m[next[j]] < m[j]
  <2>1. next \in [D -> D]
    BY <1>2
  <2>2. m \in [D -> 0 .. MaxNodes]
    BY Constants
  <2>3. ASSUME NEW j \in D \ stop PROVE m[next[j]] < m[j]
    <3>1. next[j] = To(j) /\ To(j) \in D /\ j < To(j)
      BY <1>2
    <3> QED BY <3>1, Constants
  <2> QED BY <2>1, <2>2, <2>3
<1>4. PICK f : IsChain(f, s, e, D, stop, next)
  <2> HIDE DEF D, stop, next, m
  <2> QED BY <1>3, ChainExists, Constants
<1>5. \A j \in D : /\ j \in stop <=> Sink(j) = {}
                   /\ Sink(j) # {} => next[j] = To(j)
  OBVIOUS
<1> HIDE DEF stop, next, To
<1>6. Is(f)
  BY <1>4, <1>5 DEF IsChain
<1> DEFINE down == CHOOSE g : Is(g)
<1>7. Is(down)
  <2> HIDE DEF Is
  <2> QED BY <1>6
<1>8. FilterDown(s, i, e) = down[i]
  BY DEF FilterDown, Sink, To
<1> HIDE DEF down
<1>9. \A j \in D : down[j] = IF Sink(j) = {} THEN Put(s, j, e)
                             ELSE Put(down[To(j)], j, s.heap[To(j)])
  BY <1>7
<1>10. \A j \in D : \A c : Sink(j) = {c} => To(j) = c
  BY DEF To
<1>11. DownRuns(s, i, e, down)
  BY <1>8, <1>9, <1>10 DEF DownRuns, Sink
<1> HIDE DEF down
<1> QED BY <1>11
-----------------------------------------------------------------------------
(* The places of the entries while a hole moves.                           *)

(* A hole at i to be filled by e: what is there does not count, the others *)
(* are where the locator says.                                             *)
Hole(s, i, e) ==
  /\ s \in Queue /\ i \in Used(s) /\ e \in Entry
  /\ \A a \in Used(s) \ {i} : /\ s.heap[a] \in Entry /\ s.heap[a].val # e.val
                              /\ s.locator[s.heap[a].val] = a

(* In t the hole that began at i has come to j and has been filled there,  *)
(* by e or by the entry that came before it, which is not at j any more.   *)
Found(t, i, j, x) ==
  /\ t.locator[x.val] \in Used(t) /\ t.heap[t.locator[x.val]] = x
  /\ t.locator[x.val] = i => i = j
Others(s, i, j) == {s.heap[b] : b \in Used(s) \ {i, j}}
Moved(s, i, j, e, t) ==
  /\ t \in Queue /\ t.nnodes = s.nnodes
  /\ \A a \in Used(s) : a # i \/ a = j =>
       t.heap[a] \in Others(s, i, j) \cup {e} /\ t.locator[t.heap[a].val] = a
  /\ \A x \in Others(s, i, j) \cup {e} : Found(t, i, j, x)
  /\ \A n \in Node : (n # e.val /\ \A b \in Used(s) \ {i} : s.heap[b].val # n)
                       => t.locator[n] = s.locator[n]

LEMMA PlacesAreNodes ==
  ASSUME NEW s \in Queue
  PROVE  Used(s) \subseteq Node /\ Used(s) \subseteq Nat /\ s.nnodes \in Nat
BY Constants DEF Used, Queue, Node

LEMMA EntryVals == \A x \in Entry : x.val \in Node /\ x.key \in Priority
BY DEF Entry

LEMMA MovedHere ==
  ASSUME NEW s, NEW i, NEW e, Hole(s, i, e), NEW j \in Used(s)
  PROVE  Moved(s, i, j, e, Put(s, j, e))
<1> DEFINE t == Put(s, j, e)
<1>1. /\ s \in Queue /\ i \in Used(s) /\ e \in Entry /\ j \in Node /\ e.val \in Node
      /\ Used(s) \subseteq Node
  BY PlacesAreNodes, EntryVals DEF Hole
<1>2. /\ t \in Queue /\ t.nnodes = s.nnodes /\ Used(t) = Used(s)
      /\ \A a \in Node : t.heap[a] = IF a = j THEN e ELSE s.heap[a]
      /\ \A n \in Node : t.locator[n] = IF n = e.val THEN j ELSE s.locator[n]
  <2>1. /\ t \in Queue /\ t.nnodes = s.nnodes
        /\ \A a \in Node : t.heap[a] = IF a = j THEN e ELSE s.heap[a]
        /\ \A n \in Node : t.locator[n] = IF n = e.val THEN j ELSE s.locator[n]
    BY <1>1, PutEffect
  <2> HIDE DEF t
  <2> QED BY <2>1 DEF Used
<1> HIDE DEF t
<1>3. \A b \in Used(s) \ {i, j} :
        /\ s.heap[b] \in Entry /\ s.heap[b].val \in Node /\ s.heap[b].val # e.val
        /\ t.locator[s.heap[b].val] = b /\ t.heap[b] = s.heap[b]
  BY <1>1, <1>2, EntryVals DEF Hole
<1>4. ASSUME NEW a \in Used(s), a # i \/ a = j
      PROVE  t.heap[a] \in Others(s, i, j) \cup {e} /\ t.locator[t.heap[a].val] = a
  <2>1. CASE a = j
    BY <1>1, <1>2, <2>1
  <2>2. CASE a # j
    <3>1. a \in Used(s) \ {i, j}
      BY <1>4, <2>2
    <3> QED BY <1>3, <3>1 DEF Others
  <2> QED BY <2>1, <2>2
<1>5. Found(t, i, j, e)
  BY <1>1, <1>2 DEF Found
<1>6. ASSUME NEW x \in Others(s, i, j) PROVE Found(t, i, j, x)
  BY <1>2, <1>3 DEF Found, Others
<1>7. ASSUME NEW n \in Node, n # e.val PROVE t.locator[n] = s.locator[n]
  BY <1>2, <1>7
<1> QED BY <1>2, <1>4, <1>5, <1>6, <1>7 DEF Moved, t

LEMMA MovedOn ==
  ASSUME NEW s, NEW i, NEW e, Hole(s, i, e), NEW j \in Used(s), NEW k \in Used(s),
         k # i, k # j, NEW u, Moved(s, i, k, e, u),
         j # i => u.heap[j] = s.heap[j]
  PROVE  Moved(s, i, j, e, Put(u, j, s.heap[k]))
<1> DEFINE x == s.heap[k]
           t == Put(u, j, x)
<1>1. /\ s \in Queue /\ u \in Queue /\ i \in Used(s) /\ e \in Entry /\ j \in Node
      /\ e.val \in Node /\ Used(s) \subseteq Node /\ Used(u) = Used(s)
      /\ x \in Entry /\ x.val \in Node /\ x.val # e.val
  BY PlacesAreNodes, EntryVals DEF Hole, Moved, Used
<1> HIDE DEF x
<1>2. /\ t \in Queue /\ t.nnodes = s.nnodes /\ Used(t) = Used(s)
      /\ \A a \in Node : t.heap[a] = IF a = j THEN x ELSE u.heap[a]
      /\ \A n \in Node : t.locator[n] = IF n = x.val THEN j ELSE u.locator[n]
  <2>1. u \in Queue /\ j \in Node /\ x \in Entry
    BY <1>1
  <2>2. /\ t \in Queue /\ t.nnodes = u.nnodes
        /\ \A a \in Node : t.heap[a] = IF a = j THEN x ELSE u.heap[a]
        /\ \A n \in Node : t.locator[n] = IF n = x.val THEN j ELSE u.locator[n]
    BY <2>1, PutEffect
  <2> HIDE DEF t
  <2>3. u.nnodes = s.nnodes
    BY DEF Moved
  <2>4. Used(t) = Used(s)
    BY <2>2, <2>3 DEF Used
  <2> QED BY <2>2, <2>3, <2>4
<1> HIDE DEF t
<1>3. /\ \A a \in Used(s) \ {i} : u.heap[a] \in Others(s, i, k) \cup {e} /\ u.locator[u.heap[a].val] = a
      /\ \A y \in Others(s, i, k) \cup {e} :
           /\ u.locator[y.val] \in Used(s) \ {i} /\ u.heap[u.locator[y.val]] = y
  BY <1>1 DEF Moved, Found
<1>4. \A b \in Used(s) \ {i} : /\ s.heap[b] \in Entry /\ s.heap[b].val \in Node
                               /\ s.heap[b].val # e.val /\ s.locator[s.heap[b].val] = b
  BY <1>1, EntryVals DEF Hole
<1>5. \A y \in Others(s, i, k) \cup {e} : y \in Entry /\ y.val \in Node /\ y.val # x.val
  BY <1>1, <1>4 DEF Others, x
<1>6. ASSUME j # i PROVE u.heap[j] = s.heap[j] /\ s.heap[j] \in Others(s, i, k)
                         /\ u.locator[s.heap[j].val] = j
  <2>1. u.heap[j] = s.heap[j] /\ j \in Used(s) \ {i}
    BY <1>6
  <2> QED BY <1>3, <2>1 DEF Others
<1>7. Others(s, i, j) \cup {e} \subseteq Others(s, i, k) \cup {e, x}
  BY DEF Others, x
<1>8. x \in Others(s, i, j)
  BY DEF Others, x
<1>9. ASSUME NEW y \in Others(s, i, k) \cup {e}, j = i \/ y # s.heap[j]
      PROVE  y \in Others(s, i, j) \cup {e}
  BY <1>9 DEF Others
<1>10. ASSUME NEW y \in Others(s, i, j) \cup {e}, j # i PROVE y # s.heap[j]
  <2>1. \A b \in Used(s) \ {i, j} : s.heap[b] # s.heap[j]
    BY <1>4, <1>10
  <2>2. s.heap[j] # e
    BY <1>4, <1>10
  <2> QED BY <2>1, <2>2 DEF Others
<1>11. ASSUME NEW a \in Used(s), a # i \/ a = j
       PROVE  t.heap[a] \in Others(s, i, j) \cup {e} /\ t.locator[t.heap[a].val] = a
  <2>1. CASE a = j
    BY <1>1, <1>2, <1>8, <2>1
  <2>2. CASE a # j
    <3>1. t.heap[a] = u.heap[a] /\ a \in Used(s) \ {i}
      BY <1>1, <1>2, <1>11, <2>2
    <3>2. u.heap[a] \in Others(s, i, k) \cup {e} /\ u.locator[u.heap[a].val] = a
      BY <1>3, <3>1
    <3>3. j = i \/ u.heap[a] # s.heap[j]
      BY <1>6, <2>2, <3>2
    <3>4. u.heap[a].val \in Node /\ u.heap[a].val # x.val
      BY <1>5, <3>2
    <3> QED BY <1>2, <1>9, <3>1, <3>2, <3>3, <3>4
  <2> QED BY <2>1, <2>2
<1>12. ASSUME NEW y \in Others(s, i, j) \cup {e} PROVE Found(t, i, j, y)
  <2>1. CASE y = x
    BY <1>1, <1>2, <2>1 DEF Found
  <2>2. CASE y # x
    <3>1. y \in Others(s, i, k) \cup {e}
      BY <1>7, <2>2
    <3>2. /\ u.locator[y.val] \in Used(s) \ {i} /\ u.heap[u.locator[y.val]] = y
          /\ y.val \in Node /\ y.val # x.val
      BY <1>3, <1>5, <3>1
    <3>3. u.locator[y.val] # j
      BY <1>6, <1>10, <3>2
    <3> QED BY <1>1, <1>2, <3>2, <3>3 DEF Found
  <2> QED BY <2>1, <2>2
<1>13. ASSUME NEW n \in Node, n # e.val, \A b \in Used(s) \ {i} : s.heap[b].val # n
       PROVE  t.locator[n] = s.locator[n]
  <2>1. n # x.val
    BY <1>13 DEF x
  <2> QED BY <1>2, <1>13, <2>1 DEF Moved
<1> QED BY <1>2, <1>11, <1>12, <1>13 DEF Moved, t, x
-----------------------------------------------------------------------------
(* The order of the entries while a hole moves.                            *)

(* Without the entry at i the heap is in order.                            *)
OrderedBut(s, i) ==
  \A a \in Used(s) \ {0, i} : Parent(a) # i => Le(s.heap[Parent(a)], s.heap[a])
Ordered(s) == \A a \in Used(s) \ {0} : Le(s.heap[Parent(a)], s.heap[a])

(* A hole that rises pushes entries down, in places at most as far as j.   *)
Risen(s, i, j, e, t) ==
  /\ \A a \in Used(s) : a > j => t.heap[a] = s.heap[a]
  /\ \A a \in Used(s) \ {i, j} : Le(t.heap[a], s.heap[a])
  /\ \A a \in 1 .. j : Le(t.heap[Parent(a)], t.heap[a])
  /\ \/ t.heap[j] = e
     \/ j > 0 /\ KeyLT(e.key, s.heap[Parent(j)].key) /\ t.heap[j] = s.heap[Parent(j)]

(* One that sinks lifts entries, in places from j on.                      *)
Sunken(s, i, j, e, t) ==
  /\ \A a \in Used(s) : a < j => t.heap[a] = s.heap[a]
  /\ \A a \in Used(s) \ {i, j} : Le(s.heap[a], t.heap[a])
  /\ \A a \in Used(s) \ {0} : Parent(a) >= j => Le(t.heap[Parent(a)], t.heap[a])
  /\ \/ t.heap[j] = e
     \/ \E c \in Used(s) \ {0} : /\ Parent(c) = j /\ t.heap[j] = s.heap[c]
                                 /\ KeyLT(s.heap[c].key, e.key)

LEMMA MovedEntries ==
  ASSUME NEW s, NEW i, NEW j, NEW e, Hole(s, i, e), NEW t, Moved(s, i, j, e, t),
         NEW a \in Used(s), a # i \/ a = j
  PROVE  t.heap[a] \in Entry
BY DEF Hole, Moved, Others

LEMMA ParentUsed ==
  ASSUME NEW s \in Queue, NEW a \in Used(s) \ {0}
  PROVE  a \in Nat \ {0} /\ Parent(a) \in Used(s) /\ Parent(a) < a
<1>1. s.nnodes \in Nat /\ a \in Nat \ {0} /\ a < s.nnodes
  BY PlacesAreNodes DEF Used
<1>2. Parent(a) \in Nat /\ Parent(a) < a
  BY <1>1, Parents
<1> QED BY <1>1, <1>2 DEF Used

LEMMA RisenHere ==
  ASSUME NEW s, NEW i, NEW e, Hole(s, i, e), OrderedBut(s, i), NEW j \in 0 .. i,
         j > 0 => ~KeyLT(e.key, s.heap[Parent(j)].key)
  PROVE  Risen(s, i, j, e, Put(s, j, e))
<1> DEFINE t == Put(s, j, e)
<1>1. /\ s \in Queue /\ i \in Nat /\ j \in Nat /\ j \in Used(s) /\ e \in Entry
      /\ Used(s) \subseteq Node /\ Used(s) \subseteq Nat
  <2>1. s \in Queue /\ i \in Used(s) /\ s.nnodes \in Nat
    BY PlacesAreNodes DEF Hole
  <2>2. i \in Nat /\ i <= s.nnodes - 1
    BY <2>1 DEF Used
  <2>3. j \in 0 .. s.nnodes - 1
    BY <2>1, <2>2
  <2> QED BY <2>1, <2>2, <2>3, PlacesAreNodes DEF Hole, Used
<1>2. \A a \in Node : t.heap[a] = IF a = j THEN e ELSE s.heap[a]
  BY <1>1, PutEffect
<1> HIDE DEF t
<1>3. \A a \in 1 .. j : /\ a \in Used(s) \ {0} /\ Parent(a) \in Used(s) /\ Parent(a) # j
                        /\ Parent(a) < a
  <2> SUFFICES ASSUME NEW a \in 1 .. j
               PROVE  a \in Used(s) \ {0} /\ Parent(a) \in Used(s) /\ Parent(a) # j /\ Parent(a) < a
    OBVIOUS
  <2>1. a \in Used(s) \ {0}
    <3>1. s.nnodes \in Nat /\ j <= s.nnodes - 1
      BY <1>1, PlacesAreNodes DEF Used
    <3> QED BY <3>1 DEF Used
  <2>2. Parent(a) \in Used(s) /\ Parent(a) < a /\ Parent(a) \in Nat
    BY <1>1, <2>1, ParentUsed
  <2> QED BY <2>1, <2>2
<1>4. ASSUME NEW a \in 1 .. j PROVE Le(t.heap[Parent(a)], t.heap[a])
  <2>1. a \in Node /\ Parent(a) \in Node /\ Parent(a) # j
    BY <1>1, <1>3
  <2>2. t.heap[Parent(a)] = s.heap[Parent(a)]
    BY <1>2, <2>1
  <2>3. CASE a = j
    BY <1>2, <2>1, <2>2, <2>3 DEF Le
  <2>4. CASE a # j
    <3>1. a # i /\ Parent(a) # i
      BY <1>1, <1>3, <2>4
    <3> QED BY <1>2, <1>3, <2>1, <2>2, <2>4, <3>1 DEF OrderedBut
  <2> QED BY <2>3, <2>4
<1>5. \A a \in Used(s) \ {i, j} : Le(t.heap[a], s.heap[a])
  BY <1>1, <1>2, LeOrder DEF Hole
<1>6. \A a \in Used(s) : a > j => t.heap[a] = s.heap[a]
  BY <1>1, <1>2
<1> QED BY <1>1, <1>2, <1>4, <1>5, <1>6 DEF Risen, t

LEMMA RisenOn ==
  ASSUME NEW s, NEW i, NEW e, Hole(s, i, e), OrderedBut(s, i), NEW j \in 1 .. i,
         KeyLT(e.key, s.heap[Parent(j)].key), NEW u,
         Moved(s, i, Parent(j), e, u), Risen(s, i, Parent(j), e, u)
  PROVE  Risen(s, i, j, e, Put(u, j, s.heap[Parent(j)]))
<1> DEFINE p == Parent(j)
           x == s.heap[p]
           t == Put(u, j, x)
<1>1. /\ s \in Queue /\ u \in Queue /\ i \in Used(s) /\ i \in Nat /\ j \in Used(s) \ {0}
      /\ e \in Entry /\ Used(s) \subseteq Node /\ Used(s) \subseteq Nat
  <2>1. s \in Queue /\ u \in Queue /\ i \in Used(s) /\ s.nnodes \in Nat /\ e \in Entry
    BY PlacesAreNodes DEF Hole, Moved
  <2>2. j \in 0 .. s.nnodes - 1 /\ j # 0
    BY <2>1 DEF Used
  <2> QED BY <2>1, <2>2, PlacesAreNodes DEF Used
<1>2. p \in Used(s) /\ p < j /\ p \in Nat /\ p # i /\ j \in Nat
  BY <1>1, ParentUsed
<1>3. x \in Entry
  BY <1>2 DEF Hole
<1> HIDE DEF x, p
<1>4. \A a \in Node : t.heap[a] = IF a = j THEN x ELSE u.heap[a]
  <2>1. u \in Queue /\ j \in Node
    BY <1>1
  <2> QED BY <2>1, <1>3, PutEffect
<1> HIDE DEF t
<1>5. \A a \in Used(s) \ {i} : s.heap[a] \in Entry /\ u.heap[a] \in Entry
  <2>1. \A a \in Used(s) \ {i} : u.heap[a] \in Entry
    BY MovedEntries
  <2> QED BY <2>1 DEF Hole
<1>6. /\ \A a \in Used(s) : a > p => u.heap[a] = s.heap[a]
      /\ \A a \in Used(s) \ {i, p} : Le(u.heap[a], s.heap[a])
      /\ \A a \in 1 .. p : Le(u.heap[Parent(a)], u.heap[a])
      /\ \/ u.heap[p] = e
         \/ p > 0 /\ KeyLT(e.key, s.heap[Parent(p)].key) /\ u.heap[p] = s.heap[Parent(p)]
  BY DEF Risen, p
<1>7. Le(u.heap[p], x)
  <2>1. CASE u.heap[p] = e
    BY <1>1, <1>3, <2>1, LeOrder DEF x, p
  <2>2. CASE p > 0 /\ u.heap[p] = s.heap[Parent(p)]
    <3>1. p \in Used(s) \ {0, i} /\ Parent(p) < p /\ Parent(p) \in Nat
      BY <1>1, <1>2, <2>2, ParentUsed
    <3>2. Parent(p) # i
      <4>1. p < i
        BY <1>1, <1>2
      <4> QED BY <1>1, <1>2, <3>1, <4>1
    <3> QED BY <2>2, <3>1, <3>2 DEF OrderedBut, x
  <2> QED BY <1>6, <2>1, <2>2
<1>8. \A a \in Used(s) \ {i} : Le(u.heap[a], s.heap[a])
  BY <1>6, <1>7 DEF x
<1>9. \A a \in Used(s) \ {i, j} : Le(t.heap[a], s.heap[a])
  BY <1>1, <1>4, <1>8
<1>10. \A a \in Used(s) : a > j => t.heap[a] = s.heap[a]
  BY <1>1, <1>2, <1>4, <1>6
<1>11. ASSUME NEW a \in 1 .. j PROVE Le(t.heap[Parent(a)], t.heap[a])
  <2>1. a \in Used(s) \ {0} /\ a \in Nat
    <3>1. s.nnodes \in Nat /\ j <= s.nnodes - 1
      BY <1>1, PlacesAreNodes DEF Used
    <3> QED BY <3>1 DEF Used
  <2>2. Parent(a) \in Used(s) /\ Parent(a) < a /\ Parent(a) \in Nat
    BY <1>1, <2>1, ParentUsed
  <2>3. Parent(a) # j /\ t.heap[Parent(a)] = u.heap[Parent(a)]
    BY <1>1, <1>2, <1>4, <2>1, <2>2
  <2>4. CASE a = j
    BY <1>1, <1>4, <1>7, <2>3, <2>4 DEF p
  <2>5. CASE a <= p
    <3>1. a \in 1 .. p /\ a # j
      BY <1>2, <2>5
    <3> QED BY <1>1, <1>4, <1>6, <2>1, <2>3, <3>1
  <2>6. CASE p < a /\ a < j
    <3>1. a \in Used(s) \ {0, i} /\ Parent(a) \in Used(s) \ {i} /\ a # j
      BY <1>1, <1>2, <2>1, <2>2, <2>6
    <3>2. t.heap[a] = s.heap[a]
      BY <1>1, <1>4, <1>6, <2>6, <3>1
    <3>3. Le(s.heap[Parent(a)], s.heap[a]) /\ Le(u.heap[Parent(a)], s.heap[Parent(a)])
      BY <1>8, <3>1 DEF OrderedBut
    <3>4. s.heap[a] \in Entry /\ s.heap[Parent(a)] \in Entry /\ u.heap[Parent(a)] \in Entry
      BY <1>5, <3>1
    <3> QED BY <2>3, <3>2, <3>3, <3>4, LeOrder
  <2> QED BY <1>2, <2>1, <2>4, <2>5, <2>6
<1>12. j > 0 /\ t.heap[j] = x
  BY <1>1, <1>2, <1>4
<1> QED BY <1>9, <1>10, <1>11, <1>12 DEF Risen, t, x, p

(* The entries above the place i and those below it are in order.          *)
Bridged(s, i) ==
  i > 0 => \A a \in Used(s) \ {0} :
             Parent(a) = i => Le(s.heap[Parent(i)], s.heap[a])

LEMMA RisenOrdered ==
  ASSUME NEW s, NEW i, NEW e, Hole(s, i, e), OrderedBut(s, i), Bridged(s, i),
         \A a \in Used(s) \ {0} : Parent(a) = i => Le(e, s.heap[a]),
         NEW t, Moved(s, i, i, e, t), Risen(s, i, i, e, t)
  PROVE  Ordered(t)
<1>1. /\ s \in Queue /\ i \in Used(s) /\ i \in Nat /\ Used(t) = Used(s) /\ Used(s) \subseteq Nat
  <2>1. s \in Queue /\ i \in Used(s)
    BY DEF Hole
  <2> QED BY <2>1, PlacesAreNodes DEF Moved, Used
<1> SUFFICES ASSUME NEW a \in Used(s) \ {0} PROVE Le(t.heap[Parent(a)], t.heap[a])
  BY <1>1 DEF Ordered
<1>2. a \in Nat \ {0} /\ Parent(a) \in Used(s) /\ Parent(a) < a
  BY <1>1, ParentUsed
<1>3. CASE a <= i
  <2>1. a \in 1 .. i
    BY <1>1, <1>2, <1>3
  <2> QED BY <2>1 DEF Risen
<1>4. CASE a > i
  <2>1. t.heap[a] = s.heap[a]
    BY <1>4 DEF Risen
  <2>2. CASE Parent(a) = i
    BY <2>1, <2>2 DEF Risen, Bridged
  <2>3. CASE Parent(a) # i
    <3>1. /\ Le(s.heap[Parent(a)], s.heap[a])
          /\ Le(t.heap[Parent(a)], s.heap[Parent(a)])
      BY <1>1, <1>2, <1>4, <2>3 DEF OrderedBut, Risen
    <3>2. s.heap[a] \in Entry /\ s.heap[Parent(a)] \in Entry
      BY <1>1, <1>2, <1>4, <2>3 DEF Hole
    <3>3. t.heap[Parent(a)] \in Entry
      BY <1>2, <2>3, MovedEntries
    <3> QED BY <2>1, <3>1, <3>2, <3>3, LeOrder
  <2> QED BY <2>2, <2>3
<1> QED BY <1>1, <1>2, <1>3, <1>4

(* FilterUp fills the hole, and the heap is in order.                      *)
LEMMA FilterUpHeap ==
  ASSUME NEW s, NEW i, NEW e, Hole(s, i, e), OrderedBut(s, i), Bridged(s, i),
         \A a \in Used(s) \ {0} : Parent(a) = i => Le(e, s.heap[a])
  PROVE  Moved(s, i, i, e, FilterUp(s, i, e)) /\ Ordered(FilterUp(s, i, e))
<1>1. s \in Queue /\ i \in Used(s) /\ i \in Nat /\ 0 .. i \subseteq Used(s)
  <2>1. s \in Queue /\ i \in Used(s)
    BY DEF Hole
  <2>2. s.nnodes \in Nat /\ i \in Nat /\ i <= s.nnodes - 1
    BY <2>1, PlacesAreNodes DEF Used
  <2> QED BY <2>1, <2>2 DEF Used
<1>2. PICK up : /\ FilterUp(s, i, e) = up[i]
                /\ \A j \in 0 .. i :
                     up[j] = IF j > 0 /\ KeyLT(e.key, s.heap[Parent(j)].key)
                             THEN Put(up[Parent(j)], j, s.heap[Parent(j)])
                             ELSE Put(s, j, e)
  BY <1>1, FilterUpRuns
<1> DEFINE Good(j) == Moved(s, i, j, e, up[j]) /\ Risen(s, i, j, e, up[j])
           T == {j \in 0 .. i : ~Good(j)}
<1>3. ASSUME NEW j \in 0 .. i, \A k \in 0 .. i : k < j => Good(k) PROVE Good(j)
  <2>1. CASE j > 0 /\ KeyLT(e.key, s.heap[Parent(j)].key)
    <3>1. up[j] = Put(up[Parent(j)], j, s.heap[Parent(j)])
      BY <1>2, <2>1
    <3>2. j \in Used(s) \ {0} /\ j \in Nat /\ j \in 1 .. i
      BY <1>1, <2>1
    <3>3. Parent(j) \in Used(s) /\ Parent(j) < j /\ Parent(j) \in Nat
      BY <1>1, <3>2, ParentUsed, Parents
    <3>4. Parent(j) \in 0 .. i /\ Parent(j) # i /\ Parent(j) # j
      BY <1>1, <3>2, <3>3
    <3>5. Good(Parent(j))
      BY <1>3, <3>3, <3>4
    <3>6. Moved(s, i, Parent(j), e, up[Parent(j)]) /\ Risen(s, i, Parent(j), e, up[Parent(j)])
      BY <3>5
    <3>7. up[Parent(j)].heap[j] = s.heap[j]
      BY <3>2, <3>3, <3>6 DEF Risen
    <3>8. Moved(s, i, j, e, up[j])
      BY <3>1, <3>2, <3>3, <3>4, <3>6, <3>7, MovedOn
    <3>9. Risen(s, i, j, e, up[j])
      BY <2>1, <3>1, <3>2, <3>6, RisenOn
    <3> QED BY <3>8, <3>9
  <2>2. CASE ~(j > 0 /\ KeyLT(e.key, s.heap[Parent(j)].key))
    <3>1. up[j] = Put(s, j, e) /\ j \in Used(s)
      BY <1>1, <1>2, <2>2
    <3> QED BY <2>2, <3>1, MovedHere, RisenHere
  <2> QED BY <2>1, <2>2
<1> HIDE DEF Good
<1>4. T = {}
  <2> SUFFICES ASSUME T # {} PROVE FALSE
    OBVIOUS
  <2>1. T \subseteq Nat /\ \A j \in T : j \in 0 .. i /\ ~Good(j)
    OBVIOUS
  <2>2. \A j \in 0 .. i : Good(j) \/ j \in T
    OBVIOUS
  <2> HIDE DEF T
  <2>3. PICK j \in T : \A l \in T : j <= l
    BY <2>1, LeastOf
  <2>4. j \in Nat /\ \A k \in 0 .. i : k < j => k \notin T
    <3>1. j \in Nat
      BY <2>1
    <3>2. \A k \in 0 .. i : k \in T => ~(k < j)
      BY <2>3, <3>1
    <3> QED BY <3>1, <3>2
  <2> QED BY <1>3, <2>1, <2>2, <2>4
<1>5. Good(i)
  BY <1>1, <1>4
<1>6. Moved(s, i, i, e, up[i]) /\ Risen(s, i, i, e, up[i])
  BY <1>5 DEF Good
<1> QED BY <1>2, <1>6, RisenOrdered
-----------------------------------------------------------------------------
(* The hole sinks to the lesser child, if that comes before the entry.     *)
LEMMA SinkLeast ==
  ASSUME NEW s \in Queue, NEW j \in Nat, NEW key \in Int,
         \A a \in Used(s) \ {0} : Parent(a) = j => s.heap[a] \in Entry
  PROVE  /\ SinkTo(s, j, key) = {} =>
              \A a \in Used(s) \ {0} : Parent(a) = j => ~KeyLT(s.heap[a].key, key)
         /\ \A c : SinkTo(s, j, key) = {c} =>
              /\ c \in Used(s) \ {0} /\ Parent(c) = j /\ KeyLT(s.heap[c].key, key)
              /\ \A a \in Used(s) \ {0} :
                   Parent(a) = j => ~KeyLT(s.heap[a].key, s.heap[c].key)
<1> DEFINE l == 2 * j + 1
           r == l + 1
           kl == s.heap[l].key
           kr == s.heap[r].key
<1>1. s.nnodes \in Nat /\ l \in Nat /\ r \in Nat /\ l > 0 /\ r > 0 /\ l # r
  BY PlacesAreNodes
<1>2. /\ \A a \in Used(s) \ {0} : Parent(a) = j <=> a = l \/ a = r
      /\ Parent(l) = j /\ Parent(r) = j
  <2>1. \A a \in Used(s) \ {0} : a \in Nat \ {0}
    BY PlacesAreNodes
  <2>2. \A a \in Nat \ {0} : Parent(a) = j <=> a = l \/ a = r
    BY Parents
  <2> QED BY <1>1, <2>1, <2>2
<1>3. /\ l \in Used(s) <=> ~(l >= s.nnodes)
      /\ r \in Used(s) <=> r < s.nnodes
      /\ r \in Used(s) => l \in Used(s)
  BY <1>1 DEF Used
<1>4. /\ l \in Used(s) => kl \in Int
      /\ r \in Used(s) => kr \in Int
  <2>1. \A a \in Used(s) \ {0} : Parent(a) = j => s.heap[a] \in Entry /\ s.heap[a].key \in Int
    BY EntryVals, Constants
  <2> HIDE DEF l, r
  <2>2. /\ l \in Used(s) => s.heap[l].key \in Int
        /\ r \in Used(s) => s.heap[r].key \in Int
    BY <1>1, <1>2, <2>1
  <2> QED BY <2>2
<1>5. SinkTo(s, j, key) =
        IF l >= s.nnodes THEN {}
        ELSE IF KeyLT(kl, key)
        THEN IF r < s.nnodes /\ KeyLT(kr, kl) THEN {r} ELSE {l}
        ELSE IF r < s.nnodes /\ KeyLT(kr, key) THEN {r} ELSE {}
  BY DEF SinkTo
<1> HIDE DEF l, r
<1>6. CASE l \notin Used(s)
  <2>1. r \notin Used(s) /\ SinkTo(s, j, key) = {}
    BY <1>3, <1>5, <1>6
  <2> QED BY <1>2, <1>6, <2>1
<1>7. CASE l \in Used(s) /\ r \notin Used(s)
  <2>1. SinkTo(s, j, key) = IF KeyLT(kl, key) THEN {l} ELSE {}
    BY <1>3, <1>5, <1>7
  <2>2. ~KeyLT(kl, kl)
    BY <1>4, <1>7 DEF KeyLT
  <2> QED BY <1>1, <1>2, <1>7, <2>1, <2>2
<1>8. CASE r \in Used(s)
  <2>1. SinkTo(s, j, key) = IF KeyLT(kl, key)
                            THEN IF KeyLT(kr, kl) THEN {r} ELSE {l}
                            ELSE IF KeyLT(kr, key) THEN {r} ELSE {}
    BY <1>3, <1>5, <1>8
  <2>2. kl \in Int /\ kr \in Int
    BY <1>3, <1>4, <1>8
  <2> HIDE DEF kl, kr
  <2>3. ~KeyLT(kl, kl) /\ ~KeyLT(kr, kr)
    BY <2>2 DEF KeyLT
  <2>4. SinkTo(s, j, key) = {} => ~KeyLT(kl, key) /\ ~KeyLT(kr, key)
    BY <2>1
  <2>5. \A c : SinkTo(s, j, key) = {c} =>
          \/ c = l /\ KeyLT(kl, key) /\ ~KeyLT(kr, kl)
          \/ c = r /\ KeyLT(kr, key) /\ ~KeyLT(kl, kr)
    <3>1. KeyLT(kr, kl) => ~KeyLT(kl, kr)
      BY <2>2 DEF KeyLT
    <3>2. KeyLT(kl, key) /\ KeyLT(kr, kl) => KeyLT(kr, key)
      BY <2>2 DEF KeyLT
    <3>3. KeyLT(kr, key) /\ ~KeyLT(kl, key) => ~KeyLT(kl, kr)
      BY <2>2 DEF KeyLT
    <3> QED BY <2>1, <3>1, <3>2, <3>3
  <2> QED BY <1>1, <1>2, <1>3, <1>8, <2>3, <2>4, <2>5 DEF kl, kr
<1> QED BY <1>6, <1>7, <1>8

LEMMA SunkenHere ==
  ASSUME NEW s, NEW i, NEW e, Hole(s, i, e), OrderedBut(s, i), NEW j \in Used(s), j >= i,
         \A a \in Used(s) \ {0} : Parent(a) = j => ~KeyLT(s.heap[a].key, e.key)
  PROVE  Sunken(s, i, j, e, Put(s, j, e))
<1> DEFINE t == Put(s, j, e)
<1>1. /\ s \in Queue /\ i \in Used(s) /\ i \in Nat /\ j \in Nat /\ e \in Entry
      /\ Used(s) \subseteq Node /\ Used(s) \subseteq Nat
  <2>1. s \in Queue /\ i \in Used(s) /\ e \in Entry
    BY DEF Hole
  <2> QED BY <2>1, PlacesAreNodes
<1>2. \A a \in Node : t.heap[a] = IF a = j THEN e ELSE s.heap[a]
  BY <1>1, PutEffect
<1> HIDE DEF t
<1>3. ASSUME NEW a \in Used(s) \ {0}, Parent(a) >= j
      PROVE  Le(t.heap[Parent(a)], t.heap[a])
  <2>1. Parent(a) \in Used(s) /\ Parent(a) < a /\ Parent(a) \in Nat /\ a \in Nat
    BY <1>1, ParentUsed
  <2>2. a # j /\ a # i /\ t.heap[a] = s.heap[a]
    BY <1>1, <1>2, <1>3, <2>1
  <2>3. CASE Parent(a) = j
    BY <1>1, <1>2, <2>2, <2>3 DEF Le
  <2>4. CASE Parent(a) # j
    <3>1. Parent(a) # i
      BY <1>1, <1>3, <2>1, <2>4
    <3> QED BY <1>1, <1>2, <2>1, <2>2, <2>4, <3>1 DEF OrderedBut
  <2> QED BY <2>3, <2>4
<1>4. \A a \in Used(s) \ {i, j} : Le(s.heap[a], t.heap[a])
  BY <1>1, <1>2, LeOrder DEF Hole
<1>5. \A a \in Used(s) : a < j => t.heap[a] = s.heap[a]
  BY <1>1, <1>2
<1> QED BY <1>1, <1>2, <1>3, <1>4, <1>5 DEF Sunken, t

LEMMA SunkenOn ==
  ASSUME NEW s, NEW i, NEW e, Hole(s, i, e), OrderedBut(s, i), NEW j \in Used(s), j >= i,
         NEW c \in Used(s) \ {0}, Parent(c) = j, KeyLT(s.heap[c].key, e.key),
         \A a \in Used(s) \ {0} : Parent(a) = j => ~KeyLT(s.heap[a].key, s.heap[c].key),
         NEW u, Moved(s, i, c, e, u), Sunken(s, i, c, e, u)
  PROVE  Sunken(s, i, j, e, Put(u, j, s.heap[c]))
<1> DEFINE x == s.heap[c]
           t == Put(u, j, x)
<1>1. /\ s \in Queue /\ u \in Queue /\ i \in Used(s) /\ i \in Nat /\ j \in Nat /\ c \in Nat
      /\ e \in Entry /\ Used(s) \subseteq Node /\ Used(s) \subseteq Nat
  <2>1. s \in Queue /\ u \in Queue /\ i \in Used(s) /\ e \in Entry
    BY DEF Hole, Moved
  <2> QED BY <2>1, PlacesAreNodes
<1>2. j < c /\ c # i /\ c # j
  BY <1>1, ParentUsed
<1>3. x \in Entry
  BY <1>2 DEF Hole
<1> HIDE DEF x
<1>4. \A a \in Node : t.heap[a] = IF a = j THEN x ELSE u.heap[a]
  <2>1. u \in Queue /\ j \in Node
    BY <1>1
  <2> QED BY <2>1, <1>3, PutEffect
<1> HIDE DEF t
<1>5. \A a \in Used(s) \ {i} : s.heap[a] \in Entry /\ u.heap[a] \in Entry
  <2>1. \A a \in Used(s) \ {i} : u.heap[a] \in Entry
    BY MovedEntries
  <2> QED BY <2>1 DEF Hole
<1>6. /\ \A a \in Used(s) : a < c => u.heap[a] = s.heap[a]
      /\ \A a \in Used(s) \ {i, c} : Le(s.heap[a], u.heap[a])
      /\ \A a \in Used(s) \ {0} : Parent(a) >= c => Le(u.heap[Parent(a)], u.heap[a])
      /\ \/ u.heap[c] = e
         \/ \E d \in Used(s) \ {0} : Parent(d) = c /\ u.heap[c] = s.heap[d]
  BY DEF Sunken
<1>7. Le(x, u.heap[c])
  <2>1. CASE u.heap[c] = e
    BY <1>1, <1>3, <2>1, LeOrder DEF x
  <2>2. CASE \E d \in Used(s) \ {0} : Parent(d) = c /\ u.heap[c] = s.heap[d]
    <3>1. PICK d \in Used(s) \ {0} : Parent(d) = c /\ u.heap[c] = s.heap[d]
      BY <2>2
    <3>2. c < d /\ d \in Nat
      BY <1>1, <3>1, ParentUsed
    <3>3. d # i
      BY <1>1, <1>2, <3>2
    <3> QED BY <1>2, <3>1, <3>3 DEF OrderedBut, x
  <2> QED BY <1>6, <2>1, <2>2
<1>8. \A a \in Used(s) \ {i} : Le(s.heap[a], u.heap[a])
  BY <1>6, <1>7 DEF x
<1>9. \A a \in Used(s) \ {i, j} : Le(s.heap[a], t.heap[a])
  BY <1>1, <1>4, <1>8
<1>10. \A a \in Used(s) : a < j => t.heap[a] = s.heap[a]
  BY <1>1, <1>2, <1>4, <1>6
<1>11. ASSUME NEW a \in Used(s) \ {0}, Parent(a) >= j
       PROVE  Le(t.heap[Parent(a)], t.heap[a])
  <2>1. Parent(a) \in Used(s) /\ Parent(a) < a /\ Parent(a) \in Nat /\ a \in Nat
    BY <1>1, ParentUsed
  <2>2. a # j /\ a # i /\ t.heap[a] = u.heap[a]
    BY <1>1, <1>4, <1>11, <2>1
  <2>3. Le(s.heap[a], u.heap[a]) /\ s.heap[a] \in Entry /\ u.heap[a] \in Entry
    BY <1>5, <1>8, <2>2
  <2>4. CASE Parent(a) = j
    <3>1. Le(x, s.heap[a])
      BY <2>4 DEF Le, x
    <3>2. t.heap[Parent(a)] = x
      BY <1>1, <1>4, <2>4
    <3> QED BY <1>3, <2>2, <2>3, <3>1, <3>2, LeOrder
  <2>5. CASE Parent(a) >= c
    <3>1. t.heap[Parent(a)] = u.heap[Parent(a)]
      BY <1>1, <1>2, <1>4, <2>1, <2>5
    <3> QED BY <1>6, <2>2, <2>5, <3>1
  <2>6. CASE j < Parent(a) /\ Parent(a) < c
    <3>1. t.heap[Parent(a)] = s.heap[Parent(a)] /\ Parent(a) # i
      BY <1>1, <1>4, <1>6, <2>1, <2>6
    <3>2. Le(s.heap[Parent(a)], s.heap[a]) /\ s.heap[Parent(a)] \in Entry
      BY <1>5, <2>1, <2>2, <3>1 DEF OrderedBut
    <3> QED BY <2>2, <2>3, <3>1, <3>2, LeOrder
  <2> QED BY <1>1, <1>11, <2>1, <2>4, <2>5, <2>6
<1>12. t.heap[j] = x
  BY <1>1, <1>4
<1> QED BY <1>9, <1>10, <1>11, <1>12 DEF Sunken, t, x

LEMMA SunkenOrdered ==
  ASSUME NEW s, NEW i, NEW e, Hole(s, i, e), OrderedBut(s, i), Bridged(s, i),
         i > 0 => Le(s.heap[Parent(i)], e),
         NEW t, Moved(s, i, i, e, t), Sunken(s, i, i, e, t)
  PROVE  Ordered(t)
<1>1. /\ s \in Queue /\ i \in Used(s) /\ i \in Nat /\ Used(t) = Used(s) /\ Used(s) \subseteq Nat
  <2>1. s \in Queue /\ i \in Used(s)
    BY DEF Hole
  <2> QED BY <2>1, PlacesAreNodes DEF Moved, Used
<1> SUFFICES ASSUME NEW a \in Used(s) \ {0} PROVE Le(t.heap[Parent(a)], t.heap[a])
  BY <1>1 DEF Ordered
<1>2. a \in Nat \ {0} /\ Parent(a) \in Used(s) /\ Parent(a) < a /\ Parent(a) \in Nat
  BY <1>1, ParentUsed
<1>3. CASE Parent(a) >= i
  BY <1>3 DEF Sunken
<1>4. CASE Parent(a) < i
  <2>1. t.heap[Parent(a)] = s.heap[Parent(a)]
    BY <1>2, <1>4 DEF Sunken
  <2>2. CASE a = i
    <3>1. CASE t.heap[i] = e
      BY <1>2, <2>1, <2>2, <3>1
    <3>2. CASE \E c \in Used(s) \ {0} : Parent(c) = i /\ t.heap[i] = s.heap[c]
      BY <1>1, <1>2, <2>1, <2>2, <3>2 DEF Bridged
    <3> QED BY <3>1, <3>2 DEF Sunken
  <2>3. CASE a # i
    <3>1. Parent(a) # i
      BY <1>1, <1>2, <1>4
    <3>2. Le(s.heap[Parent(a)], s.heap[a]) /\ Le(s.heap[a], t.heap[a])
      BY <2>3, <3>1 DEF OrderedBut, Sunken
    <3>3. s.heap[a] \in Entry /\ s.heap[Parent(a)] \in Entry
      BY <1>2, <2>3, <3>1 DEF Hole
    <3>4. t.heap[a] \in Entry
      BY <2>3, MovedEntries
    <3> QED BY <2>1, <3>2, <3>3, <3>4, LeOrder
  <2> QED BY <2>2, <2>3
<1> QED BY <1>1, <1>2, <1>3, <1>4

(* FilterDown fills the hole, and the heap is in order.                    *)
LEMMA FilterDownHeap ==
  ASSUME NEW s, NEW i, NEW e, Hole(s, i, e), OrderedBut(s, i), Bridged(s, i),
         i > 0 => Le(s.heap[Parent(i)], e)
  PROVE  Moved(s, i, i, e, FilterDown(s, i, e)) /\ Ordered(FilterDown(s, i, e))
<1>1. /\ s \in Queue /\ i \in Used(s) /\ e \in Entry /\ e.key \in Int
      /\ s.nnodes \in 0 .. MaxNodes /\ s.nnodes \in Nat /\ MaxNodes \in Nat
      /\ Used(s) \subseteq Nat /\ i \in Nat
  <2>1. s \in Queue /\ i \in Used(s) /\ e \in Entry
    BY DEF Hole
  <2>2. s.nnodes \in 0 .. MaxNodes
    BY <2>1 DEF Queue
  <2> QED BY <2>1, <2>2, PlacesAreNodes, Constants DEF Entry
<1>2. /\ i \in 0 .. MaxNodes
      /\ \A j \in Used(s) : j >= i => j \in i .. MaxNodes
  BY <1>1 DEF Used
<1>3. PICK down : DownRuns(s, i, e, down)
  BY <1>1, <1>2, FilterDownRuns
<1> DEFINE Good(j) == Moved(s, i, j, e, down[j]) /\ Sunken(s, i, j, e, down[j])
           T == {m \in Nat : \E j \in Used(s) : j >= i /\ m = MaxNodes - j /\ ~Good(j)}
<1>4. ASSUME NEW j \in Used(s), j >= i, \A k \in Used(s) : k > j => Good(k) PROVE Good(j)
  <2>1. j \in Nat /\ j \in i .. MaxNodes
    BY <1>1, <1>2, <1>4
  <2>2. \A a \in Used(s) \ {0} : Parent(a) = j => a > j /\ a # i /\ a \in Nat
    <3>1. \A a \in Used(s) \ {0} : a \in Nat /\ Parent(a) < a
      BY <1>1, ParentUsed
    <3> QED BY <1>1, <1>4, <2>1, <3>1
  <2>3. \A a \in Used(s) \ {0} : Parent(a) = j => s.heap[a] \in Entry
    BY <2>2 DEF Hole
  <2>4. CASE SinkTo(s, j, e.key) = {}
    <3>1. \A a \in Used(s) \ {0} : Parent(a) = j => ~KeyLT(s.heap[a].key, e.key)
      BY <1>1, <2>1, <2>3, <2>4, SinkLeast
    <3>2. down[j] = Put(s, j, e)
      BY <1>3, <2>1, <2>4 DEF DownRuns
    <3> QED BY <1>4, <3>1, <3>2, MovedHere, SunkenHere
  <2>5. CASE SinkTo(s, j, e.key) # {}
    <3>1. PICK c : SinkTo(s, j, e.key) = {c}
      BY <1>1, <2>1, <2>5, SinkPlaces
    <3>2. /\ c \in Used(s) \ {0} /\ Parent(c) = j /\ KeyLT(s.heap[c].key, e.key)
          /\ \A a \in Used(s) \ {0} :
               Parent(a) = j => ~KeyLT(s.heap[a].key, s.heap[c].key)
      BY <1>1, <2>1, <2>3, <3>1, SinkLeast
    <3>3. down[j] = Put(down[c], j, s.heap[c])
      BY <1>3, <2>1, <3>1 DEF DownRuns
    <3>4. c > j /\ c # i /\ c # j /\ c \in Nat
      BY <2>1, <2>2, <3>2
    <3>5. Moved(s, i, c, e, down[c]) /\ Sunken(s, i, c, e, down[c])
      BY <1>4, <3>2, <3>4
    <3>6. down[c].heap[j] = s.heap[j]
      BY <2>1, <3>4, <3>5 DEF Sunken
    <3>7. Moved(s, i, j, e, down[j])
      BY <3>2, <3>3, <3>4, <3>5, <3>6, MovedOn
    <3>8. Sunken(s, i, j, e, down[j])
      BY <1>4, <3>2, <3>3, <3>5, SunkenOn
    <3> QED BY <3>7, <3>8
  <2> QED BY <2>4, <2>5
<1> HIDE DEF Good
<1>5. T = {}
  <2> SUFFICES ASSUME T # {} PROVE FALSE
    OBVIOUS
  <2>1. /\ T \subseteq Nat
        /\ \A m \in T : \E j \in Used(s) : j >= i /\ m = MaxNodes - j /\ ~Good(j)
    OBVIOUS
  <2>2. \A j \in Used(s) : j >= i /\ ~Good(j) => MaxNodes - j \in T
    BY <1>1, <1>2
  <2> HIDE DEF T
  <2>3. PICK m \in T : \A l \in T : m <= l
    BY <2>1, LeastOf
  <2>4. PICK j \in Used(s) : j >= i /\ m = MaxNodes - j /\ ~Good(j)
    BY <2>1
  <2>5. ASSUME NEW k \in Used(s), k > j PROVE Good(k)
    <3>1. k \in Nat /\ j \in Nat /\ k >= i
      BY <1>1, <2>4, <2>5
    <3>2. ~(m <= MaxNodes - k)
      BY <1>1, <2>4, <2>5, <3>1
    <3> QED BY <2>2, <2>3, <3>1, <3>2
  <2> QED BY <1>4, <2>4, <2>5
<1>6. Good(i)
  <2>1. i >= i
    BY <1>1
  <2>2. \A j \in Used(s) : j >= i /\ ~Good(j) => MaxNodes - j \in T
    BY <1>1, <1>2
  <2> QED BY <1>1, <1>5, <2>1, <2>2
<1>7. Moved(s, i, i, e, down[i]) /\ Sunken(s, i, i, e, down[i])
  BY <1>6 DEF Good
<1> QED BY <1>3, <1>7, SunkenOrdered DEF DownRuns
-----------------------------------------------------------------------------
(* The queues as the calls see them.                                       *)
On(s, n) == s.locator[n] # -1
KeyOf(s, n) == s.heap[s.locator[n]].key

(* The heap and the locator are each other's inverse.                      *)
Located(s) ==
  /\ s \in Queue
  /\ \A a \in Used(s) : s.heap[a] \in Entry /\ s.locator[s.heap[a].val] = a
  /\ \A n \in Node : On(s, n) => s.locator[n] \in Used(s) /\ s.heap[s.locator[n]].val = n
Well(s) == Located(s) /\ Ordered(s)

(* t is s with node at key, and s without node.                            *)
IsWith(s, node, key, t) ==
  /\ Well(t) /\ On(t, node) /\ KeyOf(t, node) = key
  /\ \A n \in Node \ {node} : /\ On(t, n) <=> On(s, n)
                              /\ On(s, n) => KeyOf(t, n) = KeyOf(s, n)
IsWithout(s, node, t) ==
  /\ Well(t) /\ ~On(t, node)
  /\ \A n \in Node \ {node} : /\ On(t, n) <=> On(s, n)
                              /\ On(s, n) => KeyOf(t, n) = KeyOf(s, n)

(* A hole, with every node but the one to fill it in its place.            *)
HoleIn(s, i, e) ==
  /\ Hole(s, i, e)
  /\ \A n \in Node \ {e.val} : On(s, n) => /\ s.locator[n] \in Used(s) \ {i}
                                           /\ s.heap[s.locator[n]].val = n

LEMMA FilledHole ==
  ASSUME NEW s, NEW i, NEW e, HoleIn(s, i, e), NEW t, Moved(s, i, i, e, t), Ordered(t)
  PROVE  IsWith(s, e.val, e.key, t)
<1>1. /\ t \in Queue /\ Used(t) = Used(s) /\ e \in Entry /\ e.val \in Node
      /\ Used(s) \subseteq Nat /\ s \in Queue
  <2>1. s \in Queue /\ e \in Entry
    BY DEF HoleIn, Hole
  <2> QED BY <2>1, EntryVals, PlacesAreNodes DEF Moved, Used
<1>2. \A x \in Others(s, i, i) \cup {e} : x \in Entry
  BY <1>1 DEF HoleIn, Hole, Others
<1>3. /\ \A a \in Used(s) : t.heap[a] \in Others(s, i, i) \cup {e} /\ t.locator[t.heap[a].val] = a
      /\ \A x \in Others(s, i, i) \cup {e} : Found(t, i, i, x)
      /\ \A n \in Node : (n # e.val /\ \A b \in Used(s) \ {i} : s.heap[b].val # n)
                            => t.locator[n] = s.locator[n]
  BY DEF Moved
<1>4. \A x \in Others(s, i, i) \cup {e} :
        /\ On(t, x.val) /\ t.locator[x.val] \in Used(t)
        /\ t.heap[t.locator[x.val]] = x
  BY <1>1, <1>3 DEF Found, On
<1>5. ASSUME NEW n \in Node \ {e.val}, On(s, n)
      PROVE  s.heap[s.locator[n]] \in Others(s, i, i) /\ s.heap[s.locator[n]].val = n
  BY <1>5 DEF HoleIn, Others
<1>6. ASSUME NEW n \in Node \ {e.val}, On(t, n)
      PROVE  \E x \in Others(s, i, i) : x.val = n
  <2>1. CASE \A b \in Used(s) \ {i} : s.heap[b].val # n
    BY <1>3, <1>5, <1>6, <2>1 DEF On, Others
  <2>2. CASE \E b \in Used(s) \ {i} : s.heap[b].val = n
    BY <2>2 DEF Others
  <2> QED BY <2>1, <2>2
<1>7. ASSUME NEW n \in Node \ {e.val}
      PROVE  /\ On(t, n) <=> On(s, n)
             /\ On(s, n) => KeyOf(t, n) = KeyOf(s, n)
             /\ On(t, n) => t.locator[n] \in Used(t) /\ t.heap[t.locator[n]].val = n
  <2>1. On(s, n) => On(t, n) /\ KeyOf(t, n) = KeyOf(s, n)
    BY <1>4, <1>5 DEF KeyOf
  <2>2. \A x \in Others(s, i, i) : x.val = n => On(s, n)
    BY <1>1 DEF Others, HoleIn, Hole, On
  <2> QED BY <1>4, <1>6, <2>1, <2>2
<1>8. /\ On(t, e.val) /\ KeyOf(t, e.val) = e.key
      /\ t.locator[e.val] \in Used(t) /\ t.heap[t.locator[e.val]].val = e.val
  BY <1>4 DEF KeyOf
<1>9. Located(t)
  BY <1>1, <1>2, <1>3, <1>7, <1>8 DEF Located
<1> QED BY <1>7, <1>8, <1>9 DEF IsWith, Well

(* A hole made in a heap in order.                                         *)
LEMMA HoleInOrder ==
  ASSUME NEW r, Well(r), NEW s \in Queue, Used(s) \subseteq Used(r), NEW i \in Used(s),
         \A a \in Used(s) \ {i} : s.heap[a] = r.heap[a], NEW e \in Entry
  PROVE  /\ OrderedBut(s, i) /\ Bridged(s, i)
         /\ KeyLT(e.key, r.heap[i].key) =>
              \A a \in Used(s) \ {0} : Parent(a) = i => Le(e, s.heap[a])
         /\ ~KeyLT(e.key, r.heap[i].key) => (i > 0 => Le(s.heap[Parent(i)], e))
<1>1. /\ \A a \in Used(s) \ {0} : /\ Parent(a) \in Used(s) /\ Parent(a) # a
                                  /\ Le(r.heap[Parent(a)], r.heap[a])
      /\ \A a \in Used(s) : r.heap[a] \in Entry
      /\ i > 0 => i \in Used(s) \ {0}
  <2>1. \A a \in Used(s) \ {0} : Parent(a) \in Used(s) /\ Parent(a) # a
    BY ParentUsed, PlacesAreNodes
  <2> QED BY <2>1 DEF Well, Located, Ordered
<1>2. OrderedBut(s, i)
  BY <1>1 DEF OrderedBut
<1>3. Bridged(s, i)
  <2> SUFFICES ASSUME i > 0, NEW a \in Used(s) \ {0}, Parent(a) = i
               PROVE  Le(s.heap[Parent(i)], s.heap[a])
    BY DEF Bridged
  <2>1. /\ Le(r.heap[Parent(i)], r.heap[i]) /\ Le(r.heap[i], r.heap[a])
        /\ r.heap[Parent(i)] \in Entry /\ r.heap[i] \in Entry /\ r.heap[a] \in Entry
    BY <1>1
  <2>2. s.heap[Parent(i)] = r.heap[Parent(i)] /\ s.heap[a] = r.heap[a]
    BY <1>1
  <2> QED BY <2>1, <2>2, LeOrder
<1>4. ASSUME KeyLT(e.key, r.heap[i].key), NEW a \in Used(s) \ {0}, Parent(a) = i
      PROVE  Le(e, s.heap[a])
  <2>1. /\ Le(r.heap[i], r.heap[a]) /\ s.heap[a] = r.heap[a]
        /\ r.heap[i] \in Entry /\ r.heap[a] \in Entry
    BY <1>1, <1>4
  <2>2. Le(e, r.heap[i])
    BY <1>4, <2>1, LeOrder
  <2> QED BY <2>1, <2>2, LeOrder
<1>5. ASSUME ~KeyLT(e.key, r.heap[i].key), i > 0 PROVE Le(s.heap[Parent(i)], e)
  <2>1. /\ Le(r.heap[Parent(i)], r.heap[i]) /\ s.heap[Parent(i)] = r.heap[Parent(i)]
        /\ r.heap[i] \in Entry /\ r.heap[Parent(i)] \in Entry
    BY <1>1, <1>5
  <2>2. Le(r.heap[i], e)
    BY <1>5 DEF Le
  <2> QED BY <2>1, <2>2, LeOrder
<1> QED BY <1>2, <1>3, <1>4, <1>5

(* A node put in the place of a hole, from above or from below.            *)
LEMMA RefilledUp ==
  ASSUME NEW r, Well(r), NEW s \in Queue, Used(s) \subseteq Used(r), NEW i, NEW e,
         \A a \in Used(s) \ {i} : s.heap[a] = r.heap[a], HoleIn(s, i, e),
         KeyLT(e.key, r.heap[i].key)
  PROVE  IsWith(s, e.val, e.key, FilterUp(s, i, e))
<1>1. i \in Used(s) /\ e \in Entry /\ Hole(s, i, e)
  BY DEF HoleIn, Hole
<1>2. /\ OrderedBut(s, i) /\ Bridged(s, i)
      /\ \A a \in Used(s) \ {0} : Parent(a) = i => Le(e, s.heap[a])
  BY <1>1, HoleInOrder
<1>3. Moved(s, i, i, e, FilterUp(s, i, e)) /\ Ordered(FilterUp(s, i, e))
  BY <1>1, <1>2, FilterUpHeap
<1> QED BY <1>3, FilledHole

LEMMA RefilledDown ==
  ASSUME NEW r, Well(r), NEW s \in Queue, Used(s) \subseteq Used(r), NEW i, NEW e,
         \A a \in Used(s) \ {i} : s.heap[a] = r.heap[a], HoleIn(s, i, e),
         ~KeyLT(e.key, r.heap[i].key) \/ i = 0
  PROVE  IsWith(s, e.val, e.key, FilterDown(s, i, e))
<1>1. i \in Used(s) /\ e \in Entry /\ Hole(s, i, e)
  BY DEF HoleIn, Hole
<1>2. OrderedBut(s, i) /\ Bridged(s, i) /\ (i > 0 => Le(s.heap[Parent(i)], e))
  BY <1>1, HoleInOrder
<1>3. Moved(s, i, i, e, FilterDown(s, i, e)) /\ Ordered(FilterDown(s, i, e))
  BY <1>1, <1>2, FilterDownHeap
<1> QED BY <1>3, FilledHole
-----------------------------------------------------------------------------
(* What the operations do.                                                 *)

(* There are as many entries as queued nodes.                              *)
LEMMA AsManyAsQueued ==
  ASSUME NEW s, Located(s)
  PROVE  /\ IsFiniteSet({n \in Node : On(s, n)})
         /\ Cardinality({n \in Node : On(s, n)}) = s.nnodes
<1> DEFINE Q == {n \in Node : On(s, n)}
           f == [a \in Used(s) |-> s.heap[a].val]
<1>1. s \in Queue /\ s.nnodes \in Nat /\ Used(s) = 0 .. s.nnodes - 1
  BY PlacesAreNodes DEF Located, Used
<1>2. \A a \in Used(s) : f[a] \in Q
  BY <1>1, EntryVals, Constants DEF Located, On, Used
<1>3. \A a, b \in Used(s) : f[a] = f[b] => a = b
  BY DEF Located
<1>4. \A n \in Q : \E a \in Used(s) : f[a] = n
  BY DEF Located
<1>5. IsFiniteSet(Used(s)) /\ Cardinality(Used(s)) = s.nnodes
  <2>1. IsFiniteSet(0 .. s.nnodes - 1)
        /\ Cardinality(0 .. s.nnodes - 1) =
             IF 0 > s.nnodes - 1 THEN 0 ELSE s.nnodes - 1 - 0 + 1
    BY SMTT(30), <1>1, FS_Interval
  <2> QED BY <1>1, <2>1
<1>6. f \in Bijection(Used(s), Q)
  <2> HIDE DEF Q
  <2>1. f \in [Used(s) -> Q]
    BY <1>2
  <2>2. IsInjective(f)
    BY <1>3 DEF IsInjective
  <2> HIDE DEF f
  <2> QED BY <1>4, <2>1, <2>2 DEF Bijection, Injection, Surjection
<1>7. IsFiniteSet(Q) /\ Cardinality(Q) = Cardinality(Used(s))
  <2> HIDE DEF f, Q
  <2> QED BY <1>5, <1>6, FS_Bijection DEF ExistsBijection
<1> QED BY <1>5, <1>7

LEMMA RoomForFree ==
  ASSUME NEW s, Located(s), NEW n \in Node, ~On(s, n)
  PROVE  s.nnodes < MaxNodes
<1> DEFINE Q == {m \in Node : On(s, m)}
<1>1. IsFiniteSet(Node) /\ Cardinality(Node) = MaxNodes
  <2>1. 0 \in Int /\ MaxNodes - 1 \in Int
    BY Constants
  <2>2. IsFiniteSet(0 .. MaxNodes - 1)
        /\ Cardinality(0 .. MaxNodes - 1) =
             IF 0 > MaxNodes - 1 THEN 0 ELSE MaxNodes - 1 - 0 + 1
    BY <2>1, FS_Interval
  <2> QED BY <2>2, Constants DEF Node
<1>2. IsFiniteSet(Q) /\ Cardinality(Q) = s.nnodes
  BY AsManyAsQueued
<1>3. Q \subseteq Node /\ Q # Node
  OBVIOUS
<1> HIDE DEF Q
<1>4. Cardinality(Q) < Cardinality(Node)
  <2>1. Cardinality(Q) <= Cardinality(Node) /\ Cardinality(Q) # Cardinality(Node)
    BY <1>1, <1>3, FS_Subset
  <2>2. Cardinality(Q) \in Nat /\ Cardinality(Node) \in Nat
    BY <1>1, <1>2, FS_CardinalityType
  <2> QED BY <2>1, <2>2
<1> QED BY <1>1, <1>2, <1>4

LEMMA InsertIsWith ==
  ASSUME NEW s, Well(s), NEW n \in Node, NEW k \in Priority, ~On(s, n)
  PROVE  IsWith(s, n, k, InsertNode(s, n, k))
<1> DEFINE i == s.nnodes
           e == [key |-> k, val |-> n]
           r == [s EXCEPT !.nnodes = @ + 1]
<1>1. s \in Queue /\ i \in Nat /\ i < MaxNodes /\ i + 1 \in 0 .. MaxNodes /\ e \in Entry
  BY RoomForFree, PlacesAreNodes, Constants DEF Well, Located, Entry
<1>2. /\ r \in Queue /\ r.nnodes = i + 1 /\ r.heap = s.heap /\ r.locator = s.locator
      /\ e.val = n /\ e.key = k
  BY <1>1 DEF Queue
<1> HIDE DEF e, r
<1>3. Used(r) \ {i} = Used(s) /\ i \in Used(r)
  BY <1>1, <1>2 DEF Used
<1>4. \A a \in Used(s) : s.heap[a] \in Entry /\ s.locator[s.heap[a].val] = a /\ s.heap[a].val # n
  <2>1. \A a \in Used(s) : a # -1
    BY Constants, <1>1 DEF Used
  <2> QED BY <2>1 DEF Well, Located, On
<1>5. Hole(r, i, e)
  BY <1>1, <1>2, <1>3, <1>4 DEF Hole
<1>6. HoleIn(r, i, e)
  BY <1>2, <1>3, <1>5 DEF HoleIn, Well, Located, On
<1>7. \A a \in Used(r) \ {0} : Parent(a) # i /\ Parent(a) \in Nat /\ Parent(a) < a /\ a <= i
  BY <1>1, <1>2, ParentUsed DEF Used
<1>8. OrderedBut(r, i)
  BY <1>2, <1>3 DEF OrderedBut, Well, Ordered
<1>9. Bridged(r, i)
  BY <1>7 DEF Bridged
<1>10. Moved(r, i, i, e, FilterUp(r, i, e)) /\ Ordered(FilterUp(r, i, e))
  BY <1>5, <1>7, <1>8, <1>9, FilterUpHeap
<1>11. IsWith(r, n, k, FilterUp(r, i, e))
  BY <1>2, <1>6, <1>10, FilledHole
<1>12. InsertNode(s, n, k) = FilterUp(r, i, e)
  BY DEF InsertNode, e, r
<1> QED BY <1>2, <1>11, <1>12 DEF IsWith, On, KeyOf

LEMMA UpdateIsWith ==
  ASSUME NEW s, Well(s), NEW n \in Node, NEW k \in Priority, On(s, n)
  PROVE  IsWith(s, n, k, UpdateNode(s, n, k))
<1> DEFINE i == s.locator[n]
           e == [key |-> k, val |-> n]
<1>1. /\ s \in Queue /\ i \in Used(s) /\ s.heap[i].val = n /\ s.heap[i] \in Entry
      /\ e \in Entry /\ e.val = n /\ e.key = k
  BY DEF Well, Located, Entry
<1>2. UpdateNode(s, n, k) = IF KeyLT(k, s.heap[i].key) THEN FilterUp(s, i, e)
                            ELSE IF KeyLT(s.heap[i].key, k) THEN FilterDown(s, i, e) ELSE s
  BY DEF UpdateNode
<1> HIDE DEF e
<1>3. /\ \A a \in Used(s) \ {i} : s.heap[a].val # n
      /\ \A m \in Node \ {n} : On(s, m) => s.locator[m] # i
  BY <1>1 DEF Well, Located
<1>4. HoleIn(s, i, e)
  <2>1. Hole(s, i, e)
    BY <1>1, <1>3 DEF Hole, Well, Located
  <2> QED BY <1>1, <1>3, <2>1 DEF HoleIn, Well, Located
<1> HIDE DEF i
<1>5. k \in Int /\ s.heap[i].key \in Int
  BY <1>1, EntryVals, Constants
<1>6. CASE KeyLT(k, s.heap[i].key)
  BY <1>1, <1>2, <1>4, <1>6, RefilledUp
<1>7. CASE KeyLT(s.heap[i].key, k)
  <2>1. ~KeyLT(k, s.heap[i].key)
    BY <1>5, <1>7 DEF KeyLT
  <2> QED BY <1>1, <1>2, <1>4, <1>7, <2>1, RefilledDown
<1>8. CASE ~KeyLT(k, s.heap[i].key) /\ ~KeyLT(s.heap[i].key, k)
  <2>1. s.heap[i].key = k
    BY <1>5, <1>8 DEF KeyLT
  <2>2. KeyOf(s, n) = k
    BY <2>1 DEF KeyOf, i
  <2> QED BY <1>2, <1>8, <2>2 DEF IsWith
<1> QED BY <1>6, <1>7, <1>8

(* The node at i goes, and with it the place of the last entry.            *)
Vacate(s, i) == DropLast([s EXCEPT !.locator[s.heap[i].val] = -1])

LEMMA VacateEffect ==
  ASSUME NEW s, Well(s), NEW i \in Used(s)
  PROVE  /\ s \in Queue /\ Vacate(s, i) \in Queue /\ s.heap[i].val \in Node
         /\ s.nnodes \in Nat /\ s.nnodes > 0 /\ i \in 0 .. s.nnodes - 1
         /\ Vacate(s, i).nnodes = s.nnodes - 1
         /\ Used(s) \subseteq Node /\ Used(s) \subseteq Nat
         /\ Used(Vacate(s, i)) = Used(s) \ {s.nnodes - 1} /\ s.nnodes - 1 \in Used(s)
         /\ \A a \in Used(Vacate(s, i)) : Vacate(s, i).heap[a] = s.heap[a]
         /\ \A n \in Node : Vacate(s, i).locator[n] = IF n = s.heap[i].val THEN -1 ELSE s.locator[n]
<1> DEFINE r == Vacate(s, i)
           n == s.heap[i].val
           l == [s.locator EXCEPT ![n] = -1]
           h == [s.heap EXCEPT ![s.nnodes - 1] = NoEntry]
<1>1. /\ s \in Queue /\ n \in Node /\ Used(s) \subseteq Node /\ Used(s) \subseteq Nat
      /\ s.nnodes \in Nat /\ s.nnodes \in 0 .. MaxNodes
  <2>1. s \in Queue /\ s.heap[i] \in Entry
    BY DEF Well, Located
  <2>2. s.nnodes \in 0 .. MaxNodes
    BY <2>1 DEF Queue
  <2> QED BY <2>1, <2>2, PlacesAreNodes, EntryVals
<1>2. s.nnodes > 0 /\ i \in 0 .. s.nnodes - 1 /\ s.nnodes - 1 \in Used(s) /\ s.nnodes - 1 \in 0 .. MaxNodes
  <2>1. i \in 0 .. s.nnodes - 1
    BY <1>1 DEF Used
  <2> HIDE DEF r, n, l, h
  <2> QED BY <1>1, <2>1, Constants DEF Used
<1>3. r = [s EXCEPT !.nnodes = s.nnodes - 1, !.heap = h, !.locator = l]
  BY <1>1 DEF Vacate, DropLast, Queue
<1>4. h \in [Node -> Entry \cup {NoEntry}] /\ l \in [Node -> Node \cup {-1}]
  BY <1>1, <1>2 DEF Queue
<1>5. /\ \A a \in Used(s) \ {s.nnodes - 1} : h[a] = s.heap[a]
      /\ \A m \in Node : l[m] = IF m = n THEN -1 ELSE s.locator[m]
  BY <1>1 DEF Queue
<1> HIDE DEF h, l, r, n
<1>6. r \in Queue /\ r.nnodes = s.nnodes - 1 /\ r.heap = h /\ r.locator = l
  BY <1>1, <1>2, <1>3, <1>4 DEF Queue
<1>7. Used(r) = Used(s) \ {s.nnodes - 1}
  BY <1>1, <1>2, <1>6 DEF Used
<1> QED BY <1>1, <1>2, <1>5, <1>6, <1>7 DEF r, n

LEMMA LastVacated ==
  ASSUME NEW s, Well(s), NEW i \in Used(s), i = s.nnodes - 1
  PROVE  IsWithout(s, s.heap[i].val, Vacate(s, i))
<1> DEFINE r == Vacate(s, i)
           n == s.heap[i].val
<1>1. /\ r \in Queue /\ n \in Node /\ Used(r) = Used(s) \ {i} /\ Used(s) \subseteq Nat
      /\ s \in Queue /\ Used(s) \subseteq Node
      /\ \A a \in Used(r) : r.heap[a] = s.heap[a]
      /\ \A m \in Node : r.locator[m] = IF m = n THEN -1 ELSE s.locator[m]
  BY VacateEffect
<1> HIDE DEF r
<1>2. \A a \in Used(r) : s.heap[a].val \in Node /\ s.heap[a].val # n
  BY <1>1, EntryVals DEF Well, Located
<1>3. \A m \in Node : On(r, m) => m # n /\ On(s, m)
  BY <1>1 DEF On
<1>4. \A m \in Node \ {n} : On(s, m) => s.locator[m] \in Used(r)
  BY <1>1 DEF Well, Located
<1>5. Located(r)
  <2>1. \A a \in Used(r) : r.heap[a] \in Entry /\ r.locator[r.heap[a].val] = a
    BY <1>1, <1>2 DEF Well, Located
  <2>2. ASSUME NEW m \in Node, On(r, m)
        PROVE  r.locator[m] \in Used(r) /\ r.heap[r.locator[m]].val = m
    <3>1. m # n /\ On(s, m) /\ r.locator[m] = s.locator[m] /\ s.locator[m] \in Used(r)
      BY <1>1, <1>3, <1>4, <2>2
    <3> QED BY <1>1, <3>1 DEF Well, Located
  <2> QED BY <1>1, <2>1, <2>2 DEF Located
<1>6. Ordered(r)
  <2>1. \A a \in Used(r) \ {0} : Parent(a) \in Used(r) /\ a \in Used(s)
    BY <1>1, ParentUsed
  <2> QED BY <1>1, <2>1 DEF Well, Ordered
<1>7. ~On(r, n)
  BY <1>1 DEF On
<1>8. \A m \in Node \ {n} : /\ On(r, m) <=> On(s, m)
                            /\ On(s, m) => KeyOf(r, m) = KeyOf(s, m)
  BY <1>1, <1>4 DEF On, KeyOf
<1> QED BY <1>5, <1>6, <1>7, <1>8 DEF IsWithout, Well, r

(* The last entry, which is not the one that goes, is to fill the hole.    *)
LEMMA OtherVacated ==
  ASSUME NEW s, Well(s), NEW i \in Used(s), i # s.nnodes - 1
  PROVE  /\ HoleIn(Vacate(s, i), i, s.heap[s.nnodes - 1])
         /\ Vacate(s, i) \in Queue /\ Used(Vacate(s, i)) \subseteq Used(s)
         /\ \A a \in Used(Vacate(s, i)) \ {i} : Vacate(s, i).heap[a] = s.heap[a]
         /\ \A t : IsWith(Vacate(s, i), s.heap[s.nnodes - 1].val, s.heap[s.nnodes - 1].key, t)
                     => IsWithout(s, s.heap[i].val, t)
<1> DEFINE r == Vacate(s, i)
           n == s.heap[i].val
           z == s.nnodes - 1
           e == s.heap[z]
<1>1. /\ s \in Queue /\ r \in Queue /\ n \in Node /\ Used(r) = Used(s) \ {z}
      /\ z \in Used(s) /\ i \in Used(r)
      /\ Used(s) \subseteq Node /\ Used(s) \subseteq Nat
      /\ \A a \in Used(r) : r.heap[a] = s.heap[a]
      /\ \A m \in Node : r.locator[m] = IF m = n THEN -1 ELSE s.locator[m]
  BY VacateEffect
<1>2. e \in Entry /\ e.val \in Node /\ e.val # n /\ s.locator[e.val] = z
  BY <1>1, EntryVals DEF Well, Located
<1> HIDE DEF r, e
<1>3. \A a \in Used(r) \ {i} : /\ s.heap[a] \in Entry /\ s.heap[a].val \in Node
                               /\ s.heap[a].val # e.val /\ s.heap[a].val # n
                               /\ s.locator[s.heap[a].val] = a
  BY <1>1, <1>2, EntryVals DEF Well, Located
<1>4. Hole(r, i, e)
  BY <1>1, <1>2, <1>3 DEF Hole
<1>5. HoleIn(r, i, e)
  <2> SUFFICES ASSUME NEW m \in Node \ {e.val}, On(r, m)
               PROVE  r.locator[m] \in Used(r) \ {i} /\ r.heap[r.locator[m]].val = m
    BY <1>4 DEF HoleIn
  <2>1. m # n /\ r.locator[m] = s.locator[m] /\ On(s, m)
    BY <1>1 DEF On
  <2>2. s.locator[m] \in Used(s) /\ s.heap[s.locator[m]].val = m
    BY <2>1 DEF Well, Located
  <2>3. s.locator[m] # z /\ s.locator[m] # i
    BY <2>1, <2>2 DEF e
  <2> QED BY <1>1, <2>1, <2>2, <2>3
<1>6. ASSUME NEW t, IsWith(r, e.val, e.key, t) PROVE IsWithout(s, n, t)
  <2>1. On(s, e.val) /\ KeyOf(s, e.val) = e.key
    BY <1>1, <1>2 DEF On, KeyOf, e
  <2>2. \A m \in Node \ {e.val, n} : /\ On(r, m) <=> On(s, m)
                                     /\ On(s, m) => KeyOf(r, m) = KeyOf(s, m)
    <3> SUFFICES ASSUME NEW m \in Node \ {e.val, n}
                 PROVE  /\ On(r, m) <=> On(s, m)
                        /\ On(s, m) => KeyOf(r, m) = KeyOf(s, m)
      OBVIOUS
    <3>1. r.locator[m] = s.locator[m]
      BY <1>1
    <3>2. On(s, m) => s.locator[m] \in Used(s) /\ s.heap[s.locator[m]].val = m
      BY DEF Well, Located
    <3>3. On(s, m) => s.locator[m] # z
      BY <3>2 DEF e
    <3> QED BY <1>1, <3>1, <3>2, <3>3 DEF On, KeyOf
  <2>3. ~On(r, n)
    BY <1>1 DEF On
  <2> QED BY <1>1, <1>2, <1>6, <2>1, <2>2, <2>3 DEF IsWith, IsWithout
<1> QED BY <1>1, <1>5, <1>6 DEF r, e

LEMMA DeleteIsWithout ==
  ASSUME NEW s, Well(s), NEW n \in Node, On(s, n)
  PROVE  IsWithout(s, n, DeleteNode(s, n))
<1> DEFINE i == s.locator[n]
           e == s.heap[s.nnodes - 1]
           r == Vacate(s, i)
<1>1. i \in Used(s) /\ s.heap[i].val = n
  BY DEF Well, Located
<1>2. /\ r.nnodes = s.nnodes - 1 /\ s.nnodes \in Nat /\ i \in 0 .. s.nnodes - 1
      /\ s.nnodes - 1 \in Used(s)
  BY <1>1, VacateEffect
<1>3. DeleteNode(s, n) =
        IF r.nnodes > 0 /\ e.val # n
        THEN IF KeyLT(e.key, s.heap[i].key) THEN FilterUp(r, i, e) ELSE FilterDown(r, i, e)
        ELSE r
  BY <1>1 DEF DeleteNode, Vacate
<1>4. e.val = n <=> i = s.nnodes - 1
  BY <1>1, <1>2 DEF Well, Located
<1> HIDE DEF i, r
<1>5. CASE i = s.nnodes - 1
  BY <1>1, <1>3, <1>4, <1>5, LastVacated DEF r
<1>6. CASE i # s.nnodes - 1
  <2>1. r.nnodes > 0 /\ e.val # n
    BY <1>2, <1>4, <1>6
  <2>2. /\ HoleIn(r, i, e) /\ r \in Queue /\ Used(r) \subseteq Used(s)
        /\ \A a \in Used(r) \ {i} : r.heap[a] = s.heap[a]
        /\ \A t : IsWith(r, e.val, e.key, t) => IsWithout(s, n, t)
    BY <1>1, <1>6, OtherVacated DEF r
  <2> HIDE DEF e
  <2>3. CASE KeyLT(e.key, s.heap[i].key)
    BY <1>3, <2>1, <2>2, <2>3, RefilledUp
  <2>4. CASE ~KeyLT(e.key, s.heap[i].key)
    BY <1>3, <2>1, <2>2, <2>4, RefilledDown
  <2> QED BY <2>3, <2>4
<1> QED BY <1>5, <1>6

LEMMA TopIsWithout ==
  ASSUME NEW s, Well(s), s.nnodes # 0
  PROVE  /\ 0 \in Used(s) /\ s.heap[0].val \in Node /\ On(s, s.heap[0].val)
         /\ IsWithout(s, s.heap[0].val, RemoveTop(s))
<1> DEFINE n == s.heap[0].val
           e == s.heap[s.nnodes - 1]
           r == Vacate(s, 0)
<1>1. 0 \in Used(s)
  <2>1. s.nnodes \in Nat
    BY PlacesAreNodes DEF Well, Located
  <2> QED BY <2>1 DEF Used
<1>2. /\ r.nnodes = s.nnodes - 1 /\ s.nnodes \in Nat /\ n \in Node
  BY <1>1, VacateEffect
<1>3. On(s, n)
  BY <1>1 DEF Well, Located, On
<1>4. RemoveTop(s) = IF r.nnodes > 0 THEN FilterDown(r, 0, e) ELSE r
  BY DEF RemoveTop, Vacate
<1> HIDE DEF r
<1>5. ASSUME 0 = s.nnodes - 1 PROVE IsWithout(s, n, RemoveTop(s))
  BY <1>1, <1>2, <1>4, <1>5, LastVacated DEF r
<1>6. ASSUME 0 # s.nnodes - 1 PROVE IsWithout(s, n, RemoveTop(s))
  <2>1. r.nnodes > 0
    BY <1>2, <1>6
  <2>2. /\ HoleIn(r, 0, e) /\ r \in Queue /\ Used(r) \subseteq Used(s)
        /\ \A a \in Used(r) \ {0} : r.heap[a] = s.heap[a]
        /\ \A t : IsWith(r, e.val, e.key, t) => IsWithout(s, n, t)
    BY <1>1, <1>6, OtherVacated DEF r
  <2> HIDE DEF e, n
  <2>3. IsWith(r, e.val, e.key, FilterDown(r, 0, e))
    BY <2>2, RefilledDown
  <2> QED BY <1>4, <2>1, <2>2, <2>3
<1> QED BY <1>1, <1>2, <1>3, <1>5, <1>6

LEMMA CreatedWell == Well(Created) /\ \A n \in Node : ~On(Created, n)
<1>1. /\ Created.nnodes = 0 /\ Created.heap = [i \in Node |-> NoEntry]
      /\ Created.locator = [n \in Node |-> -1]
  BY DEF Created
<1>2. Created \in Queue
  BY Constants DEF Created, Queue
<1>3. Used(Created) = {}
  BY <1>1 DEF Used
<1>4. \A n \in Node : ~On(Created, n)
  BY <1>1 DEF On
<1> QED BY <1>2, <1>3, <1>4 DEF Well, Located, Ordered

LEMMA ResetIsCreated ==
  ASSUME NEW s, Well(s)
  PROVE  ResetNodes(s) = Created
<1>1. s \in Queue /\ s.locator \in [Node -> Node \cup {-1}]
  BY DEF Well, Located, Queue
<1>2. \A n \in Node : (IF \E i \in 0 .. s.nnodes - 1 : s.heap[i].val = n
                       THEN -1 ELSE s.locator[n]) = -1
  BY DEF Well, Located, On, Used
<1> QED BY <1>2 DEF ResetNodes, Created

(* No entry comes before the root.                                         *)
LEMMA RootComesFirst ==
  ASSUME NEW s, Well(s), NEW a \in Used(s)
  PROVE  0 \in Used(s) /\ Le(s.heap[0], s.heap[a])
<1> DEFINE T == {b \in Used(s) : ~Le(s.heap[0], s.heap[b])}
<1>1. /\ s \in Queue /\ Used(s) \subseteq Nat /\ s.nnodes \in Nat
      /\ \A b \in Used(s) : s.heap[b] \in Entry
  BY PlacesAreNodes DEF Well, Located
<1>2. 0 \in Used(s)
  BY <1>1 DEF Used
<1>3. T = {}
  <2> SUFFICES ASSUME T # {} PROVE FALSE
    OBVIOUS
  <2>1. T \subseteq Nat
    BY <1>1
  <2> HIDE DEF T
  <2>2. PICK b \in T : \A c \in T : b <= c
    BY <2>1, LeastOf
  <2>3. b \in Used(s) /\ ~Le(s.heap[0], s.heap[b]) /\ b \in Nat
    BY <2>1 DEF T
  <2>4. b # 0
    BY <1>1, <1>2, <2>3, LeOrder
  <2>5. Parent(b) \in Used(s) /\ Parent(b) < b /\ Parent(b) \in Nat
    BY <1>1, <2>3, <2>4, ParentUsed
  <2>6. Parent(b) \notin T
    BY <2>2, <2>3, <2>5
  <2>7. Le(s.heap[0], s.heap[Parent(b)])
    BY <2>5, <2>6 DEF T
  <2>8. Le(s.heap[Parent(b)], s.heap[b])
    BY <2>3, <2>4 DEF Well, Ordered
  <2> QED BY <1>1, <1>2, <2>3, <2>5, <2>7, <2>8, LeOrder
<1> QED BY <1>2, <1>3
-----------------------------------------------------------------------------
(* The inductive invariant: it is the conjunction of the two properties,   *)
(* with the places of the nodes that the count in LocatorExact stands for. *)
QInv == Well(q) /\ top \in Node \cup {-1}

LEMMA InitQInv == QueueInit => QInv
BY CreatedWell DEF QueueInit, QInv

LEMMA FreeIsOff == \A n \in Node : Free(n) <=> ~On(q, n)
BY DEF Free, On

LEMMA NextQInv == QInv /\ [QueueNext]_queueVars => QInv'
<1> SUFFICES ASSUME QInv, [QueueNext]_queueVars PROVE Well(q') /\ top' \in Node \cup {-1}
  BY DEF QInv
<1>1. Well(q) /\ top \in Node \cup {-1}
  BY DEF QInv
<1>2. CASE Reset
  BY <1>1, <1>2, ResetIsCreated, CreatedWell DEF Reset
<1>3. CASE GetTop
  <2>1. CASE q.nnodes = 0
    BY <1>1, <1>3, <2>1 DEF GetTop
  <2>2. CASE q.nnodes # 0
    BY <1>1, <1>3, <2>2, TopIsWithout DEF GetTop, IsWithout
  <2> QED BY <2>1, <2>2
<1>4. CASE SeeTopVal
  <2>1. q.nnodes # 0 => q.heap[0].val \in Node
    BY <1>1, TopIsWithout
  <2> QED BY <1>1, <1>4, <2>1 DEF SeeTopVal
<1>5. ASSUME NEW n \in Node, Delete(n) PROVE Well(q') /\ top' \in Node \cup {-1}
  BY <1>1, <1>5, FreeIsOff, DeleteIsWithout DEF Delete, IsWithout
<1>6. ASSUME NEW n \in Node, NEW k \in Priority, Insert(n, k)
      PROVE  Well(q') /\ top' \in Node \cup {-1}
  BY <1>1, <1>6, FreeIsOff, InsertIsWith DEF Insert, IsWith
<1>7. ASSUME NEW n \in Node, NEW k \in Priority, Update(n, k)
      PROVE  Well(q') /\ top' \in Node \cup {-1}
  BY <1>1, <1>7, FreeIsOff, UpdateIsWith DEF Update, IsWith
<1>8. CASE UNCHANGED queueVars
  BY <1>1, <1>8 DEF queueVars
<1> QED BY <1>2, <1>3, <1>4, <1>5, <1>6, <1>7, <1>8 DEF QueueNext

LEMMA SpecQInv == QueueSpec => []QInv
BY InitQInv, NextQInv, PTL DEF QueueSpec

LEMMA QInvTypes == QInv => QueueTypeOK
BY DEF QInv, Well, Located, Queue, Used, QueueTypeOK, Places

LEMMA QInvLocator == QInv => LocatorExact
<1> SUFFICES ASSUME QInv PROVE LocatorExact
  OBVIOUS
<1>1. Located(q)
  BY DEF QInv, Well
<1>2. Cardinality({n \in Node : q.locator[n] # -1}) = q.nnodes
  <2>1. Cardinality({n \in Node : On(q, n)}) = q.nnodes
    BY <1>1, AsManyAsQueued
  <2> QED BY <2>1 DEF On
<1> QED BY <1>1, <1>2 DEF LocatorExact, Located, Places, Used

LEMMA QInvOrder == QInv => HeapOrdered
BY DEF QInv, Well, Ordered, Le, HeapOrdered, Places, Used

(* In every queue of the template, whatever nodes are inserted, deleted,   *)
(* updated and taken, the locator finds each queued node where it is and   *)
(* marks every other free, as CheckHeap of src/include/gk_mkpqueue.h       *)
(* asserts.                                                                *)
THEOREM LocatorTheorem == QueueSpec => [](QueueTypeOK /\ LocatorExact)
BY SpecQInv, QInvTypes, QInvLocator, PTL

(* And no entry comes before its parent, though the last entry is moved to *)
(* the place of a deleted one, from another branch of the heap.            *)
THEOREM HeapTheorem == QueueSpec => []HeapOrdered
BY SpecQInv, QInvOrder, PTL

LEMMA QInvChecked == QInv => CheckHeap
<1> SUFFICES ASSUME QInv PROVE CheckHeap
  OBVIOUS
<1>1. ASSUME NEW i \in Places PROVE ~KeyLT(q.heap[i].key, q.heap[0].key)
  <2>1. Le(q.heap[0], q.heap[i])
    BY RootComesFirst DEF QInv, Places, Used
  <2> QED BY <2>1 DEF Le
<1>2. LocatorExact /\ HeapOrdered
  BY QInvLocator, QInvOrder
<1> QED BY <1>1, <1>2 DEF CheckHeap, LocatorExact, HeapOrdered

(* So no assertion of CheckHeap ever fails, after whatever calls it is     *)
(* made, nor does the one that no entry comes before the root.             *)
THEOREM CheckHeapTheorem == QueueSpec => []CheckHeap
BY SpecQInv, QInvChecked, PTL
-----------------------------------------------------------------------------
(* The heap implements the priority map.                                   *)
Domain(s) == {n \in Node : On(s, n)}
PrioOf(s) == [n \in Domain(s) |-> KeyOf(s, n)]

LEMMA Mapped ==
  /\ [n \in Queued |-> q.heap[q.locator[n]].key] = PrioOf(q)
  /\ [n \in Queued |-> q.heap[q.locator[n]].key]' = PrioOf(q')
BY DEF Queued, Free, On, KeyOf, PrioOf, Domain

(* The map s with node n at key, and the map s without n.                  *)
PrioWith(s, n, key) == [m \in Domain(s) \cup {n} |-> IF m = n THEN key ELSE PrioOf(s)[m]]
PrioWithout(s, n) == [m \in Domain(s) \ {n} |-> PrioOf(s)[m]]

LEMMA WithPrio ==
  ASSUME NEW s, NEW n \in Node, NEW k, NEW t, IsWith(s, n, k, t)
  PROVE  PrioOf(t) = PrioWith(s, n, k)
<1>1. Domain(t) = Domain(s) \cup {n}
  BY DEF IsWith, Domain
<1>2. \A m \in Domain(t) : KeyOf(t, m) = IF m = n THEN k ELSE PrioOf(s)[m]
  <2>1. \A m \in Domain(s) : PrioOf(s)[m] = KeyOf(s, m)
    BY DEF PrioOf
  <2> QED BY <1>1, <2>1 DEF IsWith, Domain
<1> QED BY <1>1, <1>2 DEF PrioOf, PrioWith

LEMMA WithoutPrio ==
  ASSUME NEW s, NEW n \in Node, NEW t, IsWithout(s, n, t)
  PROVE  PrioOf(t) = PrioWithout(s, n)
<1>1. Domain(t) = Domain(s) \ {n}
  BY DEF IsWithout, Domain
<1>2. \A m \in Domain(t) : KeyOf(t, m) = PrioOf(s)[m]
  <2>1. \A m \in Domain(s) : PrioOf(s)[m] = KeyOf(s, m)
    BY DEF PrioOf
  <2> QED BY <1>1, <2>1 DEF IsWithout, Domain
<1> QED BY <1>1, <1>2 DEF PrioOf, PrioWithout

LEMMA RootIsTop ==
  ASSUME NEW s, Well(s), s.nnodes # 0
  PROVE  /\ s.heap[0].val \in Domain(s)
         /\ \A m \in Domain(s) : ~KeyLT(PrioOf(s)[m], PrioOf(s)[s.heap[0].val])
<1>1. 0 \in Used(s) /\ s.heap[0].val \in Domain(s)
  BY TopIsWithout DEF Domain
<1>2. \A m \in Domain(s) : PrioOf(s)[m] = KeyOf(s, m)
  BY DEF PrioOf
<1>3. KeyOf(s, s.heap[0].val) = s.heap[0].key
  BY <1>1 DEF KeyOf, Well, Located
<1>4. ASSUME NEW m \in Domain(s) PROVE ~KeyLT(KeyOf(s, m), s.heap[0].key)
  <2>1. s.locator[m] \in Used(s)
    BY DEF Domain, Well, Located
  <2>2. Le(s.heap[0], s.heap[s.locator[m]])
    BY <2>1, RootComesFirst
  <2> QED BY <2>2 DEF Le, KeyOf
<1> QED BY <1>1, <1>2, <1>3, <1>4

LEMMA QueueInitRefines == QueueInit => Abstract!Init
<1> SUFFICES ASSUME QueueInit PROVE PrioOf(q) = [m \in {} |-> 0] /\ top = -1
  BY Mapped DEF Abstract!Init, Abstract!Nothing
<1>1. Domain(q) = {}
  BY CreatedWell DEF QueueInit, Domain
<1> QED BY <1>1 DEF QueueInit, PrioOf

(* The steps of the priority map, in terms of the queue.                   *)
LEMMA AbstractSteps ==
  /\ Abstract!Queued = Domain(q)
  /\ Abstract!Clear <=> PrioOf(q') = [m \in {} |-> 0] /\ top' = -1
  /\ Abstract!NoTop <=> Domain(q) = {} /\ top' = -1 /\ PrioOf(q') = PrioOf(q)
  /\ \A n : Abstract!IsTop(n) <=>
       n \in Domain(q) /\ \A m \in Domain(q) : ~KeyLT(PrioOf(q)[m], PrioOf(q)[n])
  /\ \A n, k : Abstract!With(n, k) = PrioWith(q, n, k)
  /\ \A n : Abstract!Without(n) = PrioWithout(q, n)
<1>1. Abstract!Queued = Domain(q)
  BY Mapped DEF Abstract!Queued, PrioOf
<1>2. Abstract!Clear <=> PrioOf(q') = [m \in {} |-> 0] /\ top' = -1
  BY Mapped DEF Abstract!Clear, Abstract!Nothing
<1>3. Abstract!NoTop <=> Domain(q) = {} /\ top' = -1 /\ PrioOf(q') = PrioOf(q)
  BY <1>1, Mapped DEF Abstract!NoTop
<1>4. \A n : Abstract!IsTop(n) <=>
        n \in Domain(q) /\ \A m \in Domain(q) : ~KeyLT(PrioOf(q)[m], PrioOf(q)[n])
  BY <1>1, Mapped DEF Abstract!IsTop
<1>5. \A n, k : Abstract!With(n, k) = PrioWith(q, n, k)
  BY <1>1, Mapped DEF Abstract!With, PrioWith
<1>6. \A n : Abstract!Without(n) = PrioWithout(q, n)
  BY <1>1, Mapped DEF Abstract!Without, PrioWithout
<1> QED BY <1>1, <1>2, <1>3, <1>4, <1>5, <1>6

LEMMA QueueNextRefines == QInv /\ [QueueNext]_queueVars => [Abstract!Next]_Abstract!pvars
<1> SUFFICES ASSUME QInv, [QueueNext]_queueVars PROVE [Abstract!Next]_Abstract!pvars
  OBVIOUS
<1>1. Well(q)
  BY DEF QInv
<1>2. CASE Reset
  <2>1. q' = Created
    BY <1>1, <1>2, ResetIsCreated DEF Reset
  <2>2. Domain(q') = {}
    BY <2>1, CreatedWell DEF Domain
  <2>3. PrioOf(q') = [m \in {} |-> 0]
    BY <2>2 DEF PrioOf
  <2>4. Abstract!Clear
    BY <1>2, <2>3, AbstractSteps DEF Reset
  <2> QED BY <2>4 DEF Abstract!Next
<1>3. CASE q.nnodes = 0 /\ q' = q /\ top' = -1
  <2>1. Domain(q) = {}
    BY <1>1, <1>3 DEF Domain, Well, Located, Used
  <2>2. Abstract!NoTop
    BY <1>3, <2>1, AbstractSteps
  <2> QED BY <2>2 DEF Abstract!Next
<1>4. CASE q.nnodes # 0 /\ GetTop
  <2>1. PICK n \in Node : n = q.heap[0].val
    BY <1>1, <1>4, TopIsWithout
  <2>2. IsWithout(q, n, q') /\ top' = n
    BY <1>1, <1>4, <2>1, TopIsWithout DEF GetTop
  <2>3. Abstract!IsTop(n)
    BY <1>1, <1>4, <2>1, RootIsTop, AbstractSteps
  <2>4. PrioOf(q') = Abstract!Without(n)
    BY <2>2, WithoutPrio, AbstractSteps
  <2>5. Abstract!GetTop(n)
    BY <2>2, <2>3, <2>4, Mapped DEF Abstract!GetTop
  <2> QED BY <2>5 DEF Abstract!Next
<1>5. CASE q.nnodes # 0 /\ SeeTopVal
  <2>1. PICK n \in Node : n = q.heap[0].val
    BY <1>1, <1>5, TopIsWithout
  <2>2. top' = n /\ q' = q
    BY <1>5, <2>1 DEF SeeTopVal
  <2>3. Abstract!IsTop(n)
    BY <1>1, <1>5, <2>1, RootIsTop, AbstractSteps
  <2>4. Abstract!SeeTop(n)
    BY <2>2, <2>3, Mapped DEF Abstract!SeeTop
  <2> QED BY <2>4 DEF Abstract!Next
<1>6. ASSUME NEW n \in Node, Delete(n) PROVE Abstract!Next
  <2>1. On(q, n) /\ IsWithout(q, n, q') /\ top' = -1
    BY <1>1, <1>6, FreeIsOff, DeleteIsWithout DEF Delete
  <2>2. n \in Abstract!Queued /\ PrioOf(q') = Abstract!Without(n)
    BY <2>1, WithoutPrio, AbstractSteps DEF Domain
  <2>3. Abstract!Delete(n)
    BY <2>1, <2>2, Mapped DEF Abstract!Delete
  <2> QED BY <2>3 DEF Abstract!Next
<1>7. ASSUME NEW n \in Node, NEW k \in Priority, Insert(n, k) PROVE Abstract!Next
  <2>1. ~On(q, n) /\ IsWith(q, n, k, q') /\ top' = -1
    BY <1>1, <1>7, FreeIsOff, InsertIsWith DEF Insert
  <2>2. n \notin Abstract!Queued /\ PrioOf(q') = Abstract!With(n, k)
    BY <2>1, WithPrio, AbstractSteps DEF Domain
  <2>3. Abstract!Insert(n, k)
    BY <2>1, <2>2, Mapped DEF Abstract!Insert
  <2> QED BY <2>3 DEF Abstract!Next
<1>8. ASSUME NEW n \in Node, NEW k \in Priority, Update(n, k) PROVE Abstract!Next
  <2>1. On(q, n) /\ IsWith(q, n, k, q') /\ top' = -1
    BY <1>1, <1>8, FreeIsOff, UpdateIsWith DEF Update
  <2>2. n \in Abstract!Queued /\ PrioOf(q') = Abstract!With(n, k)
    BY <2>1, WithPrio, AbstractSteps DEF Domain
  <2>3. Abstract!Update(n, k)
    BY <2>1, <2>2, Mapped DEF Abstract!Update
  <2> QED BY <2>3 DEF Abstract!Next
<1>9. CASE UNCHANGED queueVars
  <2>1. q' = q /\ top' = top
    BY <1>9 DEF queueVars
  <2> QED BY <2>1, Mapped DEF Abstract!pvars
<1> QED BY <1>2, <1>3, <1>4, <1>5, <1>6, <1>7, <1>8, <1>9 DEF QueueNext, GetTop, SeeTopVal

(* Whatever is inserted, deleted, updated and taken, the heap is a map     *)
(* from nodes to keys: a deletion or a new key in its middle changes no    *)
(* other node, and the node that leaves at the top is one that no other    *)
(* key comes before.                                                       *)
THEOREM PriorityTheorem == QueueSpec => PrioritySpec
BY QueueInitRefines, QueueNextRefines, SpecQInv, PTL DEF QueueSpec, PrioritySpec, Abstract!Spec
==============================================================================
