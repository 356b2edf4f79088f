------------------------------- MODULE HTable -------------------------------
(***************************************************************************)
(* The hash table of src/src/htable.c: open addressing with linear probing *)
(* over int keys, tombstones for removed pairs, several pairs per key, and *)
(* a transactional resize. One table is used by one thread while recovery  *)
(* frames of the allocation tracker open and close around it: a block can  *)
(* be freed in the frame it was allocated in only.                         *)
(*                                                                         *)
(* ht is NoTable or the record                                             *)
(*    n, size       nelements and htsize                                   *)
(*    slots         harray; the value of a dead slot is never read, it is 0*)
(*    home, ahome   the frames that own the structure and harray           *)
(*                                                                         *)
(* An operation is the set of its outcomes [ht, blocks, err, ret]. On an   *)
(* error the code reports through gk_errexit, which throws to a recovery   *)
(* binding or returns to the caller; only where that makes a difference    *)
(* does an operator take the parameter throws. An operator whose name      *)
(* starts with Bug is a mutated form of the one after it.                  *)
(***************************************************************************)
EXTENDS Integers, FiniteSets

CONSTANTS
  Key,          \* int keys that callers insert
  Val,          \* int values that callers insert
  UnsignedMod,  \* UINT_MAX + 1
  IntMax,       \* INT_MAX
  MaxSlots,     \* SIZE_MAX / sizeof(gk_ikv_t)
  Capacities,   \* the arguments of HTable_Create and HTable_Resize
  MaxDepth      \* bound: nested recovery frames

VARIABLES
  ht,       \* the table
  blocks,   \* for each frame, how many blocks of the table it owns
  depth,    \* how many frames are open
  scan,     \* the static variables first and last of HTable_GetNext
  err,      \* the error of the last call, or "ok"
  call      \* the last call that asked for data: [op, key, ret]

vars == <<ht, blocks, depth, scan, err, call>>

NoTable == [n |-> 0]
HTABLE_EMPTY == -1
HTABLE_DELETED == -2
Reserved == {HTABLE_EMPTY, HTABLE_DELETED}

ASSUME Widths == IntMax \in Nat \ {0} /\ UnsignedMod \in Nat /\ UnsignedMod > IntMax
ASSUME KeysAreInts == Key \subseteq -IntMax - 1 .. IntMax /\ Key \cap Reserved = {}
ASSUME CapacitiesAreInts == Capacities \subseteq -IntMax - 1 .. IntMax
ASSUME DepthNat == MaxDepth \in Nat

EmptySlot == [key |-> HTABLE_EMPTY, val |-> 0]
Tombstone == [key |-> HTABLE_DELETED, val |-> 0]
Frame == 0 .. MaxDepth

(* (unsigned int)key % nelements                                           *)
HFunction(n, key) == (key % UnsignedMod) % n

(* The probe sequence of a key visits slot s after Distance other slots.   *)
Distance(n, key, s) == (s - HFunction(n, key)) % n
Nearest(n, key, S) ==
  CHOOSE s \in S : \A u \in S : Distance(n, key, s) <= Distance(n, key, u)
Live(slots) == {s \in DOMAIN slots : slots[s].key \notin Reserved}
Dead(slots) == DOMAIN slots \ Live(slots)
SlotsOf(slots, key) == {s \in DOMAIN slots : slots[s].key = key}

InsertInto(t, key, val) ==
  LET s == Nearest(t.n, key, Dead(t.slots))
  IN [t EXCEPT !.slots[s] = [key |-> key, val |-> val], !.size = @ + 1]

(* The pairs of a table reinserted into an empty one, slot by slot. There  *)
(* is always a dead slot left, because the new table has size slots or more*)
(* and size counts the pairs: the failure branches of the C loop are dead. *)
Rehashed(t, n) ==
  LET new == [n |-> n, size |-> 0, slots |-> [s \in 0 .. n - 1 |-> EmptySlot]]
      into[i \in 0 .. t.n] ==
        IF i = 0 THEN new
        ELSE IF i - 1 \in Live(t.slots)
        THEN InsertInto(into[i - 1], t.slots[i - 1].key, t.slots[i - 1].val)
        ELSE into[i - 1]
      full == into[t.n]
  IN [t EXCEPT !.n = n, !.size = full.size, !.slots = full.slots]

Out(t, b, e) == [ht |-> t, blocks |-> b, err |-> e]
CanFree(home) == home = depth

(***************************************************************************)
(* The new array is complete before the old one is freed; the free is      *)
(* refused when the array belongs to another frame, and gives up the new.  *)
(***************************************************************************)
BugResizeLeaksNew(t, n) ==
  LET new == [Rehashed(t, n) EXCEPT !.ahome = depth]
      got == [blocks EXCEPT ![depth] = @ + 1]
  IN IF n < t.size THEN {Out(t, blocks, "EINVAL")}
     ELSE {Out(t, blocks, "ENOMEM"),
           IF CanFree(t.ahome) THEN Out(new, [got EXCEPT ![t.ahome] = @ - 1], "ok")
           ELSE Out(t, got, "EINVAL")}
ResizeNoSignal(t, n) ==
  LET new == [Rehashed(t, n) EXCEPT !.ahome = depth]
      got == [blocks EXCEPT ![depth] = @ + 1]
  IN IF n <= 0 \/ n < t.size THEN {Out(t, blocks, "EINVAL")}
     ELSE IF n > MaxSlots THEN {Out(t, blocks, "EOVERFLOW")}
     ELSE {Out(t, blocks, "ENOMEM"),
           IF CanFree(t.ahome) THEN Out(new, [got EXCEPT ![t.ahome] = @ - 1], "ok")
           ELSE Out(t, [got EXCEPT ![depth] = @ - 1], "EINVAL")}

(* Growth keeps the table at most half full before the pair goes in.       *)
BugNeedsGrowthWhenOver(t) == t.size > t.n
NeedsGrowth(t) == t.size > t.n \div 2
InsertOutcomes(t, key, val) ==
  LET room == IF ~NeedsGrowth(t) THEN {Out(t, blocks, "ok")}
              ELSE IF t.n > IntMax \div 2 THEN {Out(t, blocks, "EOVERFLOW")}
              ELSE ResizeNoSignal(t, 2 * t.n)
  IN {IF o.err # "ok" THEN o
      ELSE IF Dead(o.ht.slots) = {} THEN [o EXCEPT !.err = "ENOSPC"]
      ELSE [o EXCEPT !.ht = InsertInto(o.ht, key, val)] : o \in room}

BugRemoveToEmpty(t, s) == [t EXCEPT !.slots[s] = EmptySlot, !.size = @ - 1]
Remove(t, s) == [t EXCEPT !.slots[s] = Tombstone, !.size = @ - 1]

(* A search gives up at the first empty slot of the probe sequence.        *)
Reached(t, key, s) ==
  \A e \in SlotsOf(t.slots, HTABLE_EMPTY) : Distance(t.n, key, s) < Distance(t.n, key, e)
BugFoundFirstOnly(t, key) == SlotsOf(t.slots, key) \cap {HFunction(t.n, key)}
Found(t, key) == {s \in SlotsOf(t.slots, key) : Reached(t, key, s)}

(***************************************************************************)
(* The calls. A call on no table, on a reserved key or with a bad capacity *)
(* is refused; every failure leaves the table as it was.                   *)
(***************************************************************************)
Reply(op, k, r) == [op |-> op, key |-> k, ret |-> r]
Absent == -1
Keep == Reply("keep", 0, Absent)

Init ==
  /\ ht = NoTable
  /\ blocks = [f \in Frame |-> 0]
  /\ depth = 0
  /\ scan = [first |-> 0, last |-> 0]
  /\ err = "ok"
  /\ call = Keep

Become(o, c) ==
  /\ ht' = o.ht /\ blocks' = o.blocks /\ err' = o.err
  /\ call' = IF o.err = "ok" THEN c ELSE Keep
  /\ UNCHANGED <<depth, scan>>
Refuse(e) == Become(Out(ht, blocks, e), Keep)
Valid(key) == ht # NoTable /\ key \notin Reserved

(* A call with a valid table and key, or its refusal.                      *)
Checked(key, Body) == IF Valid(key) THEN Body ELSE Refuse("EINVAL")

CreateOutcomes(n) ==
  LET one == [blocks EXCEPT ![depth] = @ + 1]
      two == [one EXCEPT ![depth] = @ + 1]
      new == [n |-> n, size |-> 0, slots |-> [s \in 0 .. n - 1 |-> EmptySlot],
              home |-> depth, ahome |-> depth]
      gone == [one EXCEPT ![depth] = @ - 1]
  IN IF n <= 0 THEN {Out(ht, blocks, "EINVAL")}
     ELSE IF n > MaxSlots THEN {Out(ht, blocks, "EOVERFLOW")}
     ELSE {Out(ht, blocks, "ENOMEM"), Out(ht, gone, "ENOMEM"), Out(new, two, "ok")}

HTable_Create(n) ==
  /\ ht = NoTable
  /\ \E o \in CreateOutcomes(n) : Become(o, Reply("clear", 0, Absent))

HTable_Reset ==
  IF ht = NoTable THEN Refuse("EINVAL")
  ELSE Become(Out([ht EXCEPT !.size = 0, !.slots = [s \in 0 .. ht.n - 1 |-> EmptySlot]],
                  blocks, "ok"), Reply("clear", 0, Absent))

HTable_Resize(n) ==
  IF ht = NoTable THEN Refuse("EINVAL")
  ELSE \E o \in ResizeNoSignal(ht, n) : Become(o, Keep)

HTable_Insert(key, val) ==
  Checked(key, \E o \in InsertOutcomes(ht, key, val) : Become(o, Reply("insert", key, val)))

(* HTable_Delete does not stop at empty slots, and ignores a missing key.  *)
HTable_Delete(key) ==
  Checked(key,
    LET S == SlotsOf(ht.slots, key)
        t == IF S = {} THEN ht ELSE Remove(ht, Nearest(ht.n, key, S))
    IN Become(Out(t, blocks, "ok"), Reply("delete", key, Absent)))

HTable_Search(key) ==
  Checked(key,
    LET S == Found(ht, key)
        v == IF S = {} THEN Absent ELSE ht.slots[Nearest(ht.n, key, S)].val
    IN Become(Out(ht, blocks, "ok"), Reply("search", key, v)))

(***************************************************************************)
(* At every empty slot on its way the function reports SIGERR: it ends     *)
(* there when the report throws, and goes on when the report returns.      *)
(***************************************************************************)
HTable_SearchAndDelete(key, throws) ==
  Checked(key,
    LET S == IF throws THEN Found(ht, key) ELSE SlotsOf(ht.slots, key)
        s == Nearest(ht.n, key, S)
    IN IF S # {}
       THEN Become(Out(Remove(ht, s), blocks, "ok"), Reply("take", key, ht.slots[s].val))
       ELSE IF throws /\ SlotsOf(ht.slots, HTABLE_EMPTY) # {} THEN Refuse("SIGERR")
       ELSE Become(Out(ht, blocks, "ok"), Reply("take", key, Absent)))

(***************************************************************************)
(* The scan resumes at first; a full turn is meant to end at last. Its     *)
(* cursor is one pair of static variables for every table.                 *)
(***************************************************************************)
Stops(key, S) == {s \in S : ht.slots[s].key \in {key, HTABLE_EMPTY}}
Soonest(S) == CHOOSE s \in S : \A u \in S : s <= u
HTable_GetNext(key, type) ==
  Checked(key,
    LET c == IF type = "FIRST"
             THEN [first |-> HFunction(ht.n, key), last |-> HFunction(ht.n, key)]
             ELSE scan
        upper == IF c.first > c.last THEN Stops(key, c.first .. ht.n - 1) ELSE {}
        low == IF c.first > c.last THEN 0 ELSE c.first
        lower == Stops(key, low .. c.last - 1)
        S == IF upper # {} THEN upper ELSE lower
        hit == S # {} /\ ht.slots[Soonest(S)].key = key
    IN /\ scan' = [c EXCEPT !.first = IF hit THEN Soonest(S) + 1
                                      ELSE IF upper # {} THEN c.first ELSE low]
       /\ call' = Reply("next", key, IF hit THEN ht.slots[Soonest(S)].val ELSE Absent)
       /\ err' = "ok"
       /\ UNCHANGED <<ht, blocks, depth>>)

(* gk_free frees harray, then the structure; a refused free ends it.       *)
DestroyOutcome(t) ==
  LET one == [blocks EXCEPT ![t.ahome] = @ - 1]
  IN IF ~CanFree(t.ahome) THEN Out(t, blocks, "EINVAL")
     ELSE IF ~CanFree(t.home) THEN Out(NoTable, one, "EINVAL")
     ELSE Out(NoTable, [one EXCEPT ![t.home] = @ - 1], "ok")
HTable_Destroy ==
  ht # NoTable /\ Become(DestroyOutcome(ht), Reply("clear", 0, Absent))

OpenFrame ==
  /\ depth < MaxDepth
  /\ depth' = depth + 1
  /\ err' = "ok"
  /\ UNCHANGED <<ht, blocks, scan, call>>

(* The end of a frame frees its blocks, and the table if it was made there.*)
CloseFrame ==
  /\ depth > 0
  /\ depth' = depth - 1
  /\ blocks' = [blocks EXCEPT ![depth] = 0]
  /\ LET dies == ht # NoTable /\ ht.home = depth
     IN /\ ht' = IF dies THEN NoTable ELSE ht
        /\ call' = IF dies THEN Reply("clear", 0, Absent) ELSE call
  /\ err' = "ok"
  /\ UNCHANGED scan

Keys == Key \cup Reserved
Next ==
  \/ HTable_Reset \/ HTable_Destroy \/ OpenFrame \/ CloseFrame
  \/ \E n \in Capacities : HTable_Create(n) \/ HTable_Resize(n)
  \/ \E k \in Keys :
       \/ HTable_Delete(k) \/ HTable_Search(k)
       \/ \E v \in Val : HTable_Insert(k, v)
       \/ \E throws \in BOOLEAN : HTable_SearchAndDelete(k, throws)
       \/ \E type \in {"FIRST", "NEXT"} : HTable_GetNext(k, type)

Spec == Init /\ [][Next]_vars
-----------------------------------------------------------------------------
(* Types: a table of at least one slot, each empty, a tombstone or a pair, *)
(* and int-sized counts.                                                   *)
Slot == {EmptySlot, Tombstone} \cup [key : Key, val : Val]
TypeOK ==
  /\ ht = NoTable \/
       /\ ht.n \in 1 .. IntMax /\ ht.size \in 0 .. ht.n
       /\ ht.slots \in [0 .. ht.n - 1 -> Slot]
       /\ ht.home \in 0 .. depth /\ ht.ahome \in 0 .. depth
  /\ blocks \in [Frame -> 0 .. 3] /\ depth \in Frame
  /\ call.ret \in Val \cup {Absent}

(* htsize counts the live pairs, through tombstones, reuse and rehashing.  *)
SizeExact == ht # NoTable => ht.size = Cardinality(Live(ht.slots))

(* Every pair can be reached from the home slot of its key: no empty slot  *)
(* precedes it in the probe sequence, after any mix of insertions,         *)
(* removals that leave tombstones, and resizes that drop them.             *)
PairsReachable ==
  ht # NoTable => \A s \in Live(ht.slots) : Reached(ht, ht.slots[s].key, s)

(* An insertion never finds the table full: growth always comes first, or  *)
(* the insertion is refused for want of capacity.                          *)
NeverFull == err # "ENOSPC"

(* The count and the load test go together: the free slot an insertion     *)
(* needs is there because the count is exact, in state of its type.        *)
SlotsCounted == TypeOK /\ SizeExact /\ NeverFull

(* Every block of the table is owned by one frame and none is lost, also   *)
(* when a creation, a resize or a destruction fails half-way; structure    *)
(* and array belong to the same frame, so no frame's end takes one of them.*)
BlocksAccounted ==
  IF ht = NoTable THEN \A f \in Frame : blocks[f] = 0
  ELSE /\ ht.home = ht.ahome
       /\ \A f \in Frame : blocks[f] = IF f = ht.home THEN 2 ELSE 0

(* The pairs held by the slots, and the reply as a caller reads it; the    *)
(* scan functions have no counterpart in the abstract map.                 *)
Bag ==
  [p \in Key \X Val |->
     IF ht = NoTable THEN 0
     ELSE Cardinality({s \in Live(ht.slots) :
                         ht.slots[s].key = p[1] /\ ht.slots[s].val = p[2]})]
Map == INSTANCE MultiMap WITH
  bag <- Bag,
  last <- IF call.op = "next" THEN Keep ELSE call

(* The table is a bag of pairs: whatever slots pairs lie in, searches see  *)
(* exactly the pairs inserted and not yet removed, a removal takes one     *)
(* pair and hands back its own value, and failures change no pair.         *)
MapSpec == Map!Spec

(* htable.c:333 introduces HTable_GetNext as "returns the next key/val": a *)
(* scan that starts at a key the table holds returns a value of it.        *)
ScanFindsKey ==
  [][\A k \in Key : ht # NoTable /\ HTable_GetNext(k, "FIRST")
       => (call'.ret = Absent <=> SlotsOf(ht.slots, k) = {})]_vars
-----------------------------------------------------------------------------
(* For the runs, with 4-bit unsigned arithmetic: 0 and 4 collide in tables *)
(* of 1, 2 and 4 slots, 4 and -3 (13 when read as unsigned) in one of 3.   *)
CollidingKeys == {0, 4, -3}
=============================================================================
