-------------------------------- MODULE Cache --------------------------------
(***************************************************************************)
(* The cache simulator of src/src/cache.c: CSize sets of NWay ways, a time *)
(* stamp per way, and least-recently-used replacement. A time stamp of 0   *)
(* marks a way that holds no line. CSize and LineSize are 2^cnbits and     *)
(* 2^lnbits in the code, which masks and shifts where the model divides.   *)
(*                                                                         *)
(* Ways are numbered through all sets, as in the arrays of the code. The   *)
(* uint64_t clock wraps after 2^64 loads; the model stops at MaxClock. The *)
(* cache lives in one recovery frame, so gk_free refuses none of its       *)
(* blocks. Bug... operators are mutated forms of the one after.            *)
(***************************************************************************)
EXTENDS Integers, FiniteSets

CONSTANTS
  NWay,     \* nway
  CSize,    \* csize: the number of sets
  LineSize, \* the bytes in a line
  Addr,     \* the addresses callers load
  MaxClock  \* bound: loads between two resets

ASSUME CacheConstants ==
  /\ NWay \in Nat \ {0} /\ CSize \in Nat \ {0} /\ LineSize \in Nat \ {0}
  /\ Addr \subseteq Nat /\ MaxClock \in Nat

VARIABLES
  cache,    \* NoCache or [clines, latimes, clock, nhits, nmisses]
  blocks    \* heap blocks held by the cache

cacheVars == <<cache, blocks>>

NoCache == [clock |-> -1]
Way == 0 .. CSize * NWay - 1
LineOf(addr) == addr \div LineSize
WaysOf(line) == LET set == (line % CSize) * NWay IN set .. set + NWay - 1
Empty == [clines |-> [w \in Way |-> 0], latimes |-> [w \in Way |-> 0],
          clock |-> 0, nhits |-> 0, nmisses |-> 0]

(***************************************************************************)
(* A load touches the way that holds its line, or else the first empty way *)
(* of the set, or else the way loaded the longest time ago.                *)
(***************************************************************************)
First(W) == {w \in W : \A u \in W : w <= u}
BugHitsSkipsLast(c, line) ==
  {w \in WaysOf(line) : w % NWay # NWay - 1 /\ c.latimes[w] # 0 /\ c.clines[w] = line}
Hits(c, line) == {w \in WaysOf(line) : c.latimes[w] # 0 /\ c.clines[w] = line}

BugOldestIsNewest(c, W) == {w \in W : \A u \in W : c.latimes[w] >= c.latimes[u]}
Oldest(c, W) == {w \in W : \A u \in W : c.latimes[w] <= c.latimes[u]}

Touched(c, line) ==
  LET unused == {w \in WaysOf(line) : c.latimes[w] = 0}
  IN First(IF Hits(c, line) # {} THEN Hits(c, line)
           ELSE IF unused # {} THEN unused ELSE Oldest(c, WaysOf(line)))

Loaded(c, line, w) ==
  LET hit == Hits(c, line) # {}
  IN [c EXCEPT !.clock = @ + 1, !.clines[w] = line, !.latimes[w] = c.clock + 1,
               !.nhits = IF hit THEN @ + 1 ELSE @, !.nmisses = IF hit THEN @ ELSE @ + 1]

ResetState(c) == Empty
-----------------------------------------------------------------------------
CacheInit == cache = NoCache /\ blocks = 0

(* The structure, the time stamps and the lines are allocated in this      *)
(* order; a failure frees what there is.                                   *)
BlocksAfterFailure(got) == 0
gk_cacheCreate ==
  /\ cache = NoCache
  /\ \/ cache' = Empty /\ blocks' = blocks + 3
     \/ \E got \in 0 .. 2 :
          cache' = NoCache /\ blocks' = blocks + BlocksAfterFailure(got)

gk_cacheReset == cache # NoCache /\ cache' = ResetState(cache) /\ UNCHANGED blocks
gk_cacheDestroy == cache # NoCache /\ cache' = NoCache /\ blocks' = blocks - 3

gk_cacheLoad(addr) ==
  /\ cache # NoCache /\ cache.clock < MaxClock
  /\ \E w \in Touched(cache, LineOf(addr)) : cache' = Loaded(cache, LineOf(addr), w)
  /\ UNCHANGED blocks

CacheNext ==
  \/ gk_cacheCreate \/ gk_cacheReset \/ gk_cacheDestroy
  \/ \E addr \in Addr : gk_cacheLoad(addr)

CacheSpec == CacheInit /\ [][CacheNext]_cacheVars
-----------------------------------------------------------------------------
LiveWays == cache # NoCache
Filled == {w \in Way : cache.latimes[w] # 0}
Lines == {LineOf(addr) : addr \in Addr}

(* Types: every way has a line and a time stamp that is not in the future. *)
CacheState ==
  [clines : [Way -> Lines \cup {0}], latimes : [Way -> 0 .. MaxClock],
   clock : 0 .. MaxClock, nhits : 0 .. MaxClock, nmisses : 0 .. MaxClock]
CacheTypeOK ==
  /\ blocks \in Nat
  /\ LiveWays => cache \in CacheState /\ \A w \in Way : cache.latimes[w] <= cache.clock

(* A line is in one way at most, and in a way of its own set: a hit is     *)
(* never missed and a line evicted is gone, whatever was reset or evicted  *)
(* before.                                                                 *)
LinesPlacedOnce ==
  LiveWays => \A w \in Filled :
    /\ w \in WaysOf(cache.clines[w])
    /\ \A u \in Filled : cache.clines[u] = cache.clines[w] => u = w

(* No two ways were loaded at the same time, so the least recent is unique.*)
TimesDistinct ==
  LiveWays => \A w, u \in Filled : cache.latimes[w] = cache.latimes[u] => w = u

(* Both together: each way has its line, and each line its way and time.   *)
WaysSound == LinesPlacedOnce /\ TimesDistinct

(* Every load since the last reset counts as a hit or as a miss, which is  *)
(* what gk_cacheGetHitRate divides by.                                     *)
EveryLoadCounted == LiveWays => cache.nhits + cache.nmisses = cache.clock

(* The cache holds three blocks or none, after every failed creation too.  *)
BlocksExact == blocks = IF LiveWays THEN 3 ELSE 0

(* The cache as the abstract one sees it: the lines of the ways in use,    *)
(* in the order of their stamps.                                           *)
InUse == IF LiveWays THEN Filled ELSE {}
Earlier == {p \in InUse \X InUse : cache.latimes[p[1]] < cache.latimes[p[2]]}
LRU == INSTANCE LRUSets WITH
  Line <- Lines,
  held <- {cache.clines[w] : w \in InUse},
  before <- {<<cache.clines[p[1]], cache.clines[p[2]]>> : p \in Earlier},
  nhits <- IF LiveWays THEN cache.nhits ELSE 0,
  nmisses <- IF LiveWays THEN cache.nmisses ELSE 0

(* The time stamps implement least-recently-used replacement: each load    *)
(* hits or misses as in the textbook cache, for every history of loads.    *)
LRUSpec == LRU!Spec
=============================================================================
