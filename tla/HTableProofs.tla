---------------------------- MODULE HTableProofs ----------------------------
(***************************************************************************)
(* The hash table, for every set of keys and values, every width of int,   *)
(* every set of capacities and any depth of recovery frames.               *)
(*                                                                         *)
(* The invariant has two halves. IInv is about blocks: the table and its   *)
(* array are of one frame, which is open. WInv adds what the slots are     *)
(* between calls (Packed): typed, as many pairs as htsize says, and no     *)
(* empty slot between the home slot of a key and a pair of it. A pair put  *)
(* in the nearest dead slot and a tombstone keep that (PutPacked,          *)
(* TakePacked); a rehash puts the pairs one by one, and keeps it by        *)
(* induction on the slots already moved (LoopHolds). Every call then moves *)
(* the bag of pairs as MultiMap says.                                      *)
(***************************************************************************)
EXTENDS HTable, FiniteSetTheorems, WellFoundedInduction, TLAPS

(* A table's slots, its count and its width belong together.               *)
Packed(n, size, slots) ==
  /\ n \in Nat \ {0}
  /\ slots \in [0 .. n - 1 -> Slot]
  /\ size = Cardinality(Live(slots))
  /\ \A s \in Live(slots) : \A e \in SlotsOf(slots, HTABLE_EMPTY) :
       Distance(n, slots[s].key, s) < Distance(n, slots[s].key, e)

Copies(slots, k, v) == {s \in Live(slots) : slots[s].key = k /\ slots[s].val = v}
Count(slots, k, v) == Cardinality(Copies(slots, k, v))

LEMMA LeastOf ==
  ASSUME NEW T, T \subseteq Nat, T # {}
  PROVE  \E m \in T : \A k \in T : m <= k
<1>1. PICK k \in T : \A l \in T : <<l, k>> \notin OpToRel(<, Nat)
  BY NatLessThanWellFounded, WFMin
<1>2. \A l \in T : ~ (l < k)
  BY <1>1 DEF OpToRel
<1> QED BY <1>2

LEMMA Inductive ==
  ASSUME NEW S, 0 \in S, \A n \in Nat : n \in S => n + 1 \in S
  PROVE  Nat \subseteq S
<1> SUFFICES ASSUME {n \in Nat : n \notin S} # {} PROVE FALSE
  OBVIOUS
<1> DEFINE T == {n \in Nat : n \notin S}
<1>1. PICK m \in T : \A k \in T : m <= k
  BY LeastOf
<1>2. m \in Nat /\ m # 0 /\ m \notin S
  OBVIOUS
<1>3. m - 1 \in Nat /\ m - 1 \notin T
  BY <1>1, <1>2
<1>4. m - 1 + 1 \in S
  BY <1>3
<1> QED BY <1>2, <1>4

(* Keys are integers and no marker; a hash is a slot of the table.         *)
LEMMA KeyFacts ==
  /\ IntMax \in Nat \ {0} /\ UnsignedMod \in Nat \ {0}
  /\ Key \subseteq Int /\ HTABLE_EMPTY \notin Key /\ HTABLE_DELETED \notin Key
  /\ HTABLE_EMPTY # HTABLE_DELETED
  /\ Reserved = {HTABLE_EMPTY, HTABLE_DELETED}
BY KeysAreInts, Widths DEF Reserved, HTABLE_EMPTY, HTABLE_DELETED

LEMMA HashInTable ==
  ASSUME NEW n \in Nat \ {0}, NEW key \in Key
  PROVE  HFunction(n, key) \in 0 .. n - 1
<1>1. key \in Int /\ UnsignedMod \in Nat \ {0}
  BY KeyFacts
<1>2. key % UnsignedMod \in Int
  BY <1>1
<1> QED BY <1>2 DEF HFunction

(* The probe sequence visits every slot once.                              *)
LEMMA DistanceIs ==
  ASSUME NEW n \in Nat \ {0}, NEW key \in Key, NEW s \in 0 .. n - 1
  PROVE  /\ Distance(n, key, s) \in 0 .. n - 1
         /\ \A u \in 0 .. n - 1 : Distance(n, key, u) = Distance(n, key, s) => u = s
<1> DEFINE h == HFunction(n, key)
<1>1. h \in 0 .. n - 1
  BY HashInTable
<1> HIDE DEF h
<1>2. ASSUME NEW u \in 0 .. n - 1
      PROVE  (u - h) % n = IF u >= h THEN u - h ELSE u - h + n
  <2>1. CASE u >= h
    <3>1. u - h \in 0 .. n - 1
      BY <1>1, <2>1
    <3> QED BY <2>1, <3>1
  <2>2. CASE u < h
    <3>1. h - u \in 1 .. n /\ u - h = -(h - u)
      BY <1>1, <2>2
    <3>2. (-(h - u)) % n = n - (h - u)
      BY <3>1
    <3> QED BY <1>1, <2>2, <3>1, <3>2
  <2> QED BY <1>1, <2>1, <2>2
<1>3. \A u \in 0 .. n - 1 : Distance(n, key, u) = IF u >= h THEN u - h ELSE u - h + n
  BY <1>2 DEF Distance, h
<1> QED BY <1>1, <1>3

(* The slot that a search finds first.                                     *)
LEMMA NearestIs ==
  ASSUME NEW n \in Nat \ {0}, NEW key \in Key, NEW S, S \subseteq 0 .. n - 1, S # {}
  PROVE  /\ Nearest(n, key, S) \in S
         /\ \A u \in S : u # Nearest(n, key, S) =>
              Distance(n, key, Nearest(n, key, S)) < Distance(n, key, u)
<1> DEFINE D == {Distance(n, key, s) : s \in S}
<1>0. \A s \in S : Distance(n, key, s) \in Nat
  <2>1. \A s \in 0 .. n - 1 : Distance(n, key, s) \in 0 .. n - 1
    BY DistanceIs
  <2> QED BY <2>1
<1>1. D \subseteq Nat /\ D # {}
  BY <1>0
<1>2. PICK d \in D : \A k \in D : d <= k
  BY <1>1, LeastOf
<1>3. PICK s \in S : d = Distance(n, key, s)
  BY <1>2
<1>4. \E t \in S : \A u \in S : Distance(n, key, t) <= Distance(n, key, u)
  BY <1>2, <1>3
<1> DEFINE t == CHOOSE t \in S : \A u \in S : Distance(n, key, t) <= Distance(n, key, u)
<1>5. t \in S /\ \A u \in S : Distance(n, key, t) <= Distance(n, key, u)
  BY <1>4
<1> HIDE DEF t
<1>6. ASSUME NEW u \in S, u # t PROVE Distance(n, key, t) < Distance(n, key, u)
  <2>1. Distance(n, key, t) # Distance(n, key, u)
    BY <1>5, <1>6, DistanceIs
  <2>2. Distance(n, key, t) \in Int /\ Distance(n, key, u) \in Int
    BY <1>5, DistanceIs
  <2> QED BY <1>5, <2>1, <2>2
<1> QED BY <1>5, <1>6 DEF Nearest, t

(* The kinds of slots.                                                     *)
LEMMA SlotKinds ==
  /\ EmptySlot \in Slot /\ Tombstone \in Slot
  /\ EmptySlot.key = HTABLE_EMPTY /\ Tombstone.key = HTABLE_DELETED
  /\ EmptySlot.key \in Reserved /\ Tombstone.key \in Reserved
  /\ \A k \in Key, v \in Val : [key |-> k, val |-> v] \in Slot
  /\ \A k, v : [key |-> k, val |-> v].key = k /\ [key |-> k, val |-> v].val = v
  /\ \A e \in Slot : e.key \notin Reserved => e.key \in Key /\ e.val \in Val
BY KeyFacts DEF Slot, EmptySlot, Tombstone, Reserved

LEMMA SlotsFinite ==
  ASSUME NEW n \in Nat, NEW slots \in [0 .. n - 1 -> Slot]
  PROVE  /\ DOMAIN slots = 0 .. n - 1
         /\ IsFiniteSet(0 .. n - 1) /\ Cardinality(0 .. n - 1) = n
         /\ Live(slots) \subseteq 0 .. n - 1 /\ Dead(slots) = 0 .. n - 1 \ Live(slots)
         /\ IsFiniteSet(Live(slots))
         /\ Cardinality(Live(slots)) \in 0 .. n
         /\ Cardinality(Live(slots)) < n => Dead(slots) # {}
<1>1. DOMAIN slots = 0 .. n - 1
  OBVIOUS
<1>2. IsFiniteSet(0 .. n - 1) /\ Cardinality(0 .. n - 1) = n
  BY FS_Interval
<1>3. Live(slots) \subseteq 0 .. n - 1 /\ Dead(slots) = 0 .. n - 1 \ Live(slots)
  BY <1>1 DEF Live, Dead
<1>4. IsFiniteSet(Live(slots)) /\ Cardinality(Live(slots)) <= n /\ Cardinality(Live(slots)) \in Nat
  BY <1>2, <1>3, FS_Subset, FS_CardinalityType
<1>5. ASSUME Dead(slots) = {} PROVE Cardinality(Live(slots)) = n
  <2>1. Live(slots) = 0 .. n - 1
    BY <1>3, <1>5
  <2> QED BY <1>2, <2>1
<1> QED BY <1>1, <1>2, <1>3, <1>4, <1>5
-----------------------------------------------------------------------------
LEMMA CopiesFinite ==
  ASSUME NEW n \in Nat, NEW slots \in [0 .. n - 1 -> Slot], NEW k, NEW v
  PROVE  /\ Copies(slots, k, v) \subseteq Live(slots) /\ IsFiniteSet(Copies(slots, k, v))
         /\ Count(slots, k, v) \in Nat /\ (Count(slots, k, v) > 0 <=> Copies(slots, k, v) # {})
<1>1. Copies(slots, k, v) \subseteq Live(slots)
  BY DEF Copies
<1>2. IsFiniteSet(Copies(slots, k, v))
  BY <1>1, SlotsFinite, FS_Subset
<1> QED BY <1>1, <1>2, FS_CardinalityType, FS_EmptySet DEF Count

(* A table without a pair.                                                 *)
Blank(n) == [s \in 0 .. n - 1 |-> EmptySlot]
LEMMA BlankPacked ==
  ASSUME NEW n \in Nat \ {0}
  PROVE  Packed(n, 0, Blank(n)) /\ \A k, v : Count(Blank(n), k, v) = 0
<1>1. Blank(n) \in [0 .. n - 1 -> Slot]
  BY SlotKinds DEF Blank
<1>2. Live(Blank(n)) = {}
  BY SlotKinds DEF Blank, Live
<1>3. \A k, v : Copies(Blank(n), k, v) = {}
  BY <1>2 DEF Copies
<1> QED BY <1>1, <1>2, <1>3, FS_EmptySet DEF Packed, Count

(* A pair put in the first dead slot of its probe sequence: every empty    *)
(* slot comes later.                                                       *)
LEMMA PutPacked ==
  ASSUME NEW n, NEW size, NEW slots, Packed(n, size, slots), NEW key \in Key, NEW val \in Val,
         NEW s, s = Nearest(n, key, Dead(slots)), Dead(slots) # {},
         NEW new, new = [slots EXCEPT ![s] = [key |-> key, val |-> val]]
  PROVE  /\ Packed(n, size + 1, new)
         /\ \A k, v : Count(new, k, v) = IF k = key /\ v = val THEN Count(slots, k, v) + 1
                                         ELSE Count(slots, k, v)
<1>1. n \in Nat \ {0} /\ n \in Nat /\ slots \in [0 .. n - 1 -> Slot]
  BY DEF Packed
<1>2. Dead(slots) = 0 .. n - 1 \ Live(slots) /\ Live(slots) \subseteq 0 .. n - 1
  BY <1>1, SlotsFinite
<1>3. /\ s \in 0 .. n - 1 /\ s \notin Live(slots)
      /\ \A u \in Dead(slots) : u # s => Distance(n, key, s) < Distance(n, key, u)
  BY <1>1, <1>2, NearestIs
<1> DEFINE pair == [key |-> key, val |-> val]
<1>4. pair \in Slot /\ pair.key = key /\ pair.val = val /\ key \notin Reserved /\ key # HTABLE_EMPTY
  BY SlotKinds, KeyFacts
<1> HIDE DEF pair
<1>5. new \in [0 .. n - 1 -> Slot] /\ \A u \in 0 .. n - 1 : new[u] = IF u = s THEN pair ELSE slots[u]
  BY <1>1, <1>3, <1>4 DEF pair
<1>6. Live(new) = Live(slots) \cup {s}
  <2>1. Live(new) = {u \in 0 .. n - 1 : new[u].key \notin Reserved}
    BY <1>5 DEF Live
  <2>2. Live(slots) = {u \in 0 .. n - 1 : slots[u].key \notin Reserved}
    BY <1>1 DEF Live
  <2>3. \A u \in 0 .. n - 1 : new[u].key \notin Reserved <=> u = s \/ slots[u].key \notin Reserved
    BY <1>4, <1>5
  <2> QED BY <1>3, <2>1, <2>2, <2>3
<1>7. size + 1 = Cardinality(Live(new))
  <2>1. IsFiniteSet(Live(slots))
    BY <1>1, SlotsFinite
  <2> QED BY <2>1, <1>3, <1>6, FS_AddElement DEF Packed
<1>8. SlotsOf(new, HTABLE_EMPTY) = SlotsOf(slots, HTABLE_EMPTY) \ {s}
  BY <1>1, <1>3, <1>4, <1>5 DEF SlotsOf
<1>9. \A e \in SlotsOf(slots, HTABLE_EMPTY) : e \in Dead(slots)
  BY <1>1, KeyFacts DEF SlotsOf, Dead, Live
<1>10. ASSUME NEW u \in Live(new), NEW e \in SlotsOf(new, HTABLE_EMPTY)
       PROVE  Distance(n, new[u].key, u) < Distance(n, new[u].key, e)
  <2>1. CASE u = s
    BY <1>3, <1>4, <1>5, <1>8, <1>9, <1>10, <2>1
  <2>2. CASE u # s
    <3>1. u \in Live(slots) /\ new[u] = slots[u] /\ e \in SlotsOf(slots, HTABLE_EMPTY)
      BY <1>2, <1>5, <1>6, <1>8, <1>10, <2>2
    <3> QED BY <3>1 DEF Packed
  <2> QED BY <2>1, <2>2
<1>11. Packed(n, size + 1, new)
  BY <1>1, <1>5, <1>7, <1>10 DEF Packed
<1>12. ASSUME NEW k, NEW v PROVE Count(new, k, v) = IF k = key /\ v = val THEN Count(slots, k, v) + 1
                                                   ELSE Count(slots, k, v)
  <2>1. Copies(new, k, v) = IF k = key /\ v = val THEN Copies(slots, k, v) \cup {s} ELSE Copies(slots, k, v)
    BY <1>2, <1>3, <1>4, <1>5, <1>6 DEF Copies
  <2>2. IsFiniteSet(Copies(slots, k, v))
    BY <1>1, CopiesFinite
  <2>3. s \notin Copies(slots, k, v)
    BY <1>3 DEF Copies
  <2> QED BY <2>1, <2>2, <2>3, FS_AddElement DEF Count
<1> QED BY <1>11, <1>12

(* A pair taken out leaves a tombstone, so that no empty slot is new.      *)
LEMMA TakePacked ==
  ASSUME NEW n, NEW size, NEW slots, Packed(n, size, slots), NEW s \in Live(slots),
         NEW new, new = [slots EXCEPT ![s] = Tombstone]
  PROVE  /\ Packed(n, size - 1, new)
         /\ slots[s].key \in Key /\ slots[s].val \in Val
         /\ \A k, v : Count(new, k, v) = IF k = slots[s].key /\ v = slots[s].val
                                         THEN Count(slots, k, v) - 1 ELSE Count(slots, k, v)
<1>1. n \in Nat \ {0} /\ n \in Nat /\ slots \in [0 .. n - 1 -> Slot]
  BY DEF Packed
<1>2. Live(slots) \subseteq 0 .. n - 1 /\ s \in 0 .. n - 1
  BY <1>1, SlotsFinite
<1>3. slots[s].key \notin Reserved
  BY DEF Live
<1>4. /\ Tombstone \in Slot /\ Tombstone.key = HTABLE_DELETED /\ Tombstone.key \in Reserved
      /\ Tombstone.key # HTABLE_EMPTY
  BY SlotKinds, KeyFacts
<1>5. new \in [0 .. n - 1 -> Slot] /\ \A u \in 0 .. n - 1 : new[u] = IF u = s THEN Tombstone ELSE slots[u]
  BY <1>1, <1>2, <1>4
<1>6. Live(new) = Live(slots) \ {s}
  <2>1. \A u \in 0 .. n - 1 : u \in Live(new) <=> new[u].key \notin Reserved
    BY <1>5 DEF Live
  <2>2. \A u \in 0 .. n - 1 : u \in Live(slots) <=> slots[u].key \notin Reserved
    BY <1>1 DEF Live
  <2>3. Live(new) \subseteq 0 .. n - 1
    BY <1>1, <1>5, SlotsFinite
  <2> QED BY <1>2, <1>4, <1>5, <2>1, <2>2, <2>3
<1>7. size - 1 = Cardinality(Live(new))
  <2>1. IsFiniteSet(Live(slots))
    BY <1>1, SlotsFinite
  <2> QED BY <2>1, <1>6, FS_RemoveElement DEF Packed
<1>8. SlotsOf(new, HTABLE_EMPTY) = SlotsOf(slots, HTABLE_EMPTY)
  BY <1>1, <1>2, <1>3, <1>4, <1>5, KeyFacts DEF SlotsOf
<1>9. ASSUME NEW u \in Live(new), NEW e \in SlotsOf(new, HTABLE_EMPTY)
      PROVE  Distance(n, new[u].key, u) < Distance(n, new[u].key, e)
  <2>1. u \in Live(slots) /\ new[u] = slots[u] /\ e \in SlotsOf(slots, HTABLE_EMPTY)
    BY <1>2, <1>5, <1>6, <1>8, <1>9
  <2> QED BY <2>1 DEF Packed
<1>10. Packed(n, size - 1, new)
  BY <1>1, <1>5, <1>7, <1>9 DEF Packed
<1>11. slots[s].key \in Key /\ slots[s].val \in Val
  BY <1>1, <1>2, <1>3, SlotKinds
<1>12. ASSUME NEW k, NEW v PROVE Count(new, k, v) = IF k = slots[s].key /\ v = slots[s].val
                                                   THEN Count(slots, k, v) - 1 ELSE Count(slots, k, v)
  <2>1. Copies(new, k, v) = IF k = slots[s].key /\ v = slots[s].val
                            THEN Copies(slots, k, v) \ {s} ELSE Copies(slots, k, v)
    BY <1>2, <1>4, <1>5, <1>6 DEF Copies
  <2>2. IsFiniteSet(Copies(slots, k, v))
    BY <1>1, CopiesFinite
  <2>3. s \in Copies(slots, k, v) <=> (k = slots[s].key /\ v = slots[s].val)
    BY DEF Copies
  <2> QED BY <2>1, <2>2, <2>3, FS_RemoveElement DEF Count
<1> QED BY <1>10, <1>11, <1>12

(* What the searches for a key see: every pair of it, and the first of     *)
(* them is a pair of it.                                                   *)
LEMMA SearchSees ==
  ASSUME NEW t, Packed(t.n, t.size, t.slots), NEW key \in Key
  PROVE  /\ SlotsOf(t.slots, key) = {s \in Live(t.slots) : t.slots[s].key = key}
         /\ Found(t, key) = SlotsOf(t.slots, key)
         /\ SlotsOf(t.slots, key) # {} =>
              LET s == Nearest(t.n, key, SlotsOf(t.slots, key))
              IN s \in Live(t.slots) /\ t.slots[s].key = key /\ t.slots[s].val \in Val
                 /\ Count(t.slots, key, t.slots[s].val) > 0
         /\ SlotsOf(t.slots, key) = {} => \A v : Count(t.slots, key, v) = 0
<1>1. t.n \in Nat \ {0} /\ t.n \in Nat /\ t.slots \in [0 .. t.n - 1 -> Slot]
  BY DEF Packed
<1>2. SlotsOf(t.slots, key) = {s \in Live(t.slots) : t.slots[s].key = key}
  BY KeysAreInts DEF SlotsOf, Live
<1>3. Found(t, key) = SlotsOf(t.slots, key)
  <2>1. ASSUME NEW s \in SlotsOf(t.slots, key) PROVE Reached(t, key, s)
    BY <1>2, <2>1 DEF Reached, Packed
  <2> QED BY <2>1 DEF Found
<1>4. Live(t.slots) \subseteq 0 .. t.n - 1
  BY <1>1, SlotsFinite
<1>5. ASSUME SlotsOf(t.slots, key) # {}, NEW s, s = Nearest(t.n, key, SlotsOf(t.slots, key))
      PROVE  /\ s \in Live(t.slots) /\ t.slots[s].key = key /\ t.slots[s].val \in Val
             /\ Count(t.slots, key, t.slots[s].val) > 0
  <2>1. SlotsOf(t.slots, key) \subseteq 0 .. t.n - 1
    BY <1>2, <1>4
  <2>2. s \in SlotsOf(t.slots, key)
    BY <1>1, <1>5, <2>1, NearestIs
  <2>3. s \in Live(t.slots) /\ t.slots[s].key = key
    BY <1>2, <2>2
  <2>4. t.slots[s].val \in Val
    BY <1>1, <1>4, <2>3, SlotKinds DEF Live
  <2>5. s \in Copies(t.slots, key, t.slots[s].val)
    BY <2>3 DEF Copies
  <2> QED BY <1>1, <2>3, <2>4, <2>5, CopiesFinite
<1>6. ASSUME SlotsOf(t.slots, key) = {}, NEW v PROVE Count(t.slots, key, v) = 0
  <2>1. Copies(t.slots, key, v) = {}
    BY <1>2, <1>6 DEF Copies
  <2> QED BY <2>1, FS_EmptySet DEF Count
<1> QED BY <1>2, <1>3, <1>5, <1>6
-----------------------------------------------------------------------------
(* The loop of a rehash: the table that slots 0 .. i - 1 have gone into.   *)
Start(n) == [n |-> n, size |-> 0, slots |-> Blank(n)]
Moved(t, into, i) ==
  IF i \in Live(t.slots) THEN InsertInto(into, t.slots[i].key, t.slots[i].val) ELSE into
IsLoop(f, t, n, m) ==
  f = [i \in 0 .. m |-> IF i = 0 THEN Start(n) ELSE Moved(t, f[i - 1], i - 1)]

LEMMA InsertIs ==
  ASSUME NEW t, {"n", "size", "slots"} \subseteq DOMAIN t, NEW key, NEW val
  PROVE  /\ DOMAIN InsertInto(t, key, val) = DOMAIN t
         /\ InsertInto(t, key, val).n = t.n
         /\ InsertInto(t, key, val).size = t.size + 1
         /\ InsertInto(t, key, val).slots
              = [t.slots EXCEPT ![Nearest(t.n, key, Dead(t.slots))] = [key |-> key, val |-> val]]
BY DEF InsertInto

LEMMA InsertKeeps ==
  ASSUME NEW t, NEW key, NEW val
  PROVE  \A x \in DOMAIN t \ {"n", "size", "slots"} : InsertInto(t, key, val)[x] = t[x]
BY DEF InsertInto

LEMMA LoopExists == ASSUME NEW t, NEW n, NEW m \in Nat PROVE \E f : IsLoop(f, t, n, m)
<1> DEFINE S == {i \in Nat : \E f : IsLoop(f, t, n, i)}
<1>1. 0 \in S
  <2> DEFINE f == [i \in 0 .. 0 |-> Start(n)]
  <2>1. \A i \in 0 .. 0 : i = 0
    OBVIOUS
  <2>2. f = [i \in 0 .. 0 |-> IF i = 0 THEN Start(n) ELSE Moved(t, f[i - 1], i - 1)]
    BY <2>1
  <2> QED BY <2>2 DEF IsLoop
<1>2. ASSUME NEW i \in Nat, i \in S PROVE i + 1 \in S
  <2>1. PICK f : IsLoop(f, t, n, i)
    BY <1>2
  <2> DEFINE body(h, j) == IF j = 0 THEN Start(n) ELSE Moved(t, h[j - 1], j - 1)
             g == [j \in 0 .. i + 1 |-> IF j = i + 1 THEN Moved(t, f[i], i) ELSE f[j]]
  <2>2. \A j \in 0 .. i : g[j] = f[j]
    OBVIOUS
  <2>3. \A j \in 0 .. i : f[j] = body(f, j)
    BY <2>1 DEF IsLoop
  <2>4. ASSUME NEW j \in 0 .. i + 1 PROVE g[j] = body(g, j)
    <3>1. CASE j = i + 1
      <4>1. g[j] = Moved(t, f[i], i) /\ j # 0 /\ j - 1 = i /\ i \in 0 .. i
        BY <3>1
      <4> QED BY <4>1, <2>2
    <3>2. CASE j # i + 1
      <4>1. j \in 0 .. i /\ (j # 0 => j - 1 \in 0 .. i)
        BY <3>2
      <4>2. g[j] = body(f, j)
        BY <4>1, <2>2, <2>3
      <4>3. j # 0 => g[j - 1] = f[j - 1]
        BY <4>1, <2>2
      <4> QED BY <4>2, <4>3
    <3> QED BY <3>1, <3>2
  <2>5. g = [j \in 0 .. i + 1 |-> g[j]]
    OBVIOUS
  <2> HIDE DEF g
  <2>6. [j \in 0 .. i + 1 |-> g[j]] = [j \in 0 .. i + 1 |-> body(g, j)]
    BY <2>4
  <2>7. IsLoop(g, t, n, i + 1)
    BY <2>5, <2>6 DEF IsLoop
  <2> QED BY <2>7
<1> HIDE DEF S
<1>3. Nat \subseteq S
  BY <1>1, <1>2, Inductive
<1> QED BY <1>3 DEF S

(* After i slots the new table holds the pairs of those slots. A pair that *)
(* is still to come is not among them, so there is a dead slot left for it.*)
LEMMA LoopHolds ==
  ASSUME NEW t, Packed(t.n, t.size, t.slots), NEW n \in Nat \ {0}, t.size <= n,
         NEW f, IsLoop(f, t, n, t.n)
  PROVE  /\ f[t.n].n = n /\ f[t.n].size = t.size /\ Packed(n, f[t.n].size, f[t.n].slots)
         /\ \A k, v : Count(f[t.n].slots, k, v) = Count(t.slots, k, v)
<1> DEFINE Under(i) == {s \in Live(t.slots) : s < i}
           Like(i, k, v) == {s \in Copies(t.slots, k, v) : s < i}
           Fine(i) == /\ DOMAIN f[i] = {"n", "size", "slots"} /\ f[i].n = n
                      /\ f[i].size = Cardinality(Under(i))
                      /\ Packed(n, f[i].size, f[i].slots)
                      /\ \A k, v : Count(f[i].slots, k, v) = Cardinality(Like(i, k, v))
           S == {i \in Nat : i <= t.n => Fine(i)}
<1>1. /\ t.n \in Nat \ {0} /\ t.n \in Nat /\ t.slots \in [0 .. t.n - 1 -> Slot]
      /\ t.size = Cardinality(Live(t.slots))
  BY DEF Packed
<1>2. /\ Live(t.slots) \subseteq 0 .. t.n - 1 /\ IsFiniteSet(Live(t.slots))
      /\ Cardinality(Live(t.slots)) \in Nat
  BY <1>1, SlotsFinite
<1>3. \A k, v : Copies(t.slots, k, v) \subseteq Live(t.slots)
  BY DEF Copies
<1>4. \A i \in 0 .. t.n : f[i] = IF i = 0 THEN Start(n) ELSE Moved(t, f[i - 1], i - 1)
  BY DEF IsLoop
<1>5. 0 \in S
  <2>1. f[0] = Start(n)
    BY <1>1, <1>4
  <2>2. Under(0) = {} /\ \A k, v : Like(0, k, v) = {}
    BY <1>2, <1>3
  <2>3. Packed(n, 0, Blank(n)) /\ \A k, v : Count(Blank(n), k, v) = 0
    BY BlankPacked
  <2>4. Fine(0)
    BY <2>1, <2>2, <2>3, FS_EmptySet DEF Start
  <2> QED BY <2>4
<1>6. ASSUME NEW i \in Nat, i \in S PROVE i + 1 \in S
  <2> SUFFICES ASSUME i + 1 <= t.n PROVE Fine(i + 1)
    OBVIOUS
  <2>1. Fine(i)
    <3> HIDE DEF Fine
    <3> QED BY <1>1, <1>6
  <2>2. f[i + 1] = Moved(t, f[i], i)
    <3>1. i + 1 \in 0 .. t.n /\ i + 1 # 0 /\ i + 1 - 1 = i
      BY <1>1
    <3> QED BY <3>1, <1>4
  <2>3. i \notin Under(i) /\ IsFiniteSet(Under(i)) /\ Cardinality(Under(i)) \in Nat
    <3>1. Under(i) \subseteq Live(t.slots) /\ i \notin Under(i)
      BY <1>1
    <3>2. IsFiniteSet(Under(i))
      BY <3>1, <1>2, FS_Subset
    <3> QED BY <3>1, <3>2, FS_CardinalityType
  <2>4. ASSUME NEW k, NEW v PROVE i \notin Like(i, k, v) /\ IsFiniteSet(Like(i, k, v))
    <3>1. Like(i, k, v) \subseteq Live(t.slots) /\ i \notin Like(i, k, v)
      BY <1>3
    <3>2. IsFiniteSet(Like(i, k, v))
      BY <3>1, <1>2, FS_Subset
    <3> QED BY <3>1, <3>2
  <2>5. CASE i \notin Live(t.slots)
    <3>1. Under(i + 1) = Under(i) /\ \A k, v : Like(i + 1, k, v) = Like(i, k, v)
      BY <1>2, <1>3, <2>5
    <3>2. f[i + 1] = f[i]
      BY <2>2, <2>5 DEF Moved
    <3> QED BY <2>1, <3>1, <3>2
  <2>6. CASE i \in Live(t.slots)
    <3> DEFINE key == t.slots[i].key
               val == t.slots[i].val
               s == Nearest(n, key, Dead(f[i].slots))
               new == [f[i].slots EXCEPT ![s] = [key |-> key, val |-> val]]
    <3>1. key \in Key /\ val \in Val
      BY <1>1, <1>2, <2>6, SlotKinds DEF Live
    <3>2. Under(i + 1) = Under(i) \cup {i}
      BY <1>2, <2>6
    <3>3. \A k, v : Like(i + 1, k, v) = IF k = key /\ v = val THEN Like(i, k, v) \cup {i} ELSE Like(i, k, v)
      <4>1. \A k, v : i \in Copies(t.slots, k, v) <=> k = key /\ v = val
        BY <2>6 DEF Copies
      <4>2. \A k, v : \A u \in Copies(t.slots, k, v) : u \in Nat
        BY <1>2, <1>3
      <4> HIDE DEF key, val
      <4>3. ASSUME NEW k, NEW v
            PROVE  Like(i + 1, k, v) = IF k = key /\ v = val THEN Like(i, k, v) \cup {i} ELSE Like(i, k, v)
        BY <4>1, <4>2
      <4> QED BY <4>3
    <3>4. Cardinality(Under(i)) < n
      <4>1. Under(i + 1) \subseteq Live(t.slots)
        OBVIOUS
      <4>2. Cardinality(Under(i + 1)) = Cardinality(Under(i)) + 1
        BY <2>3, <3>2, FS_AddElement
      <4>3. Cardinality(Under(i + 1)) <= t.size
        BY <4>1, <1>1, <1>2, FS_Subset
      <4> HIDE DEF Under
      <4> QED BY <1>1, <1>2, <2>3, <4>2, <4>3
    <3>5. Dead(f[i].slots) # {}
      <4>1. f[i].slots \in [0 .. n - 1 -> Slot] /\ Cardinality(Live(f[i].slots)) < n
        BY <2>1, <3>4 DEF Packed
      <4> QED BY <4>1, SlotsFinite
    <3>6. f[i + 1] = InsertInto(f[i], key, val)
      BY <2>2, <2>6 DEF Moved
    <3>7. f[i].n = n /\ DOMAIN f[i] = {"n", "size", "slots"}
      BY <2>1
    <3>8. /\ DOMAIN f[i + 1] = {"n", "size", "slots"} /\ f[i + 1].n = n
          /\ f[i + 1].size = f[i].size + 1 /\ f[i + 1].slots = new
      <4> DEFINE t1 == f[i]
                 r == InsertInto(t1, key, val)
      <4>1. {"n", "size", "slots"} \subseteq DOMAIN t1 /\ t1.n = n
        BY <3>7
      <4> HIDE DEF key, val, t1
      <4>2. /\ DOMAIN r = DOMAIN t1 /\ r.n = t1.n /\ r.size = t1.size + 1
            /\ r.slots = [t1.slots EXCEPT ![Nearest(t1.n, key, Dead(t1.slots))] = [key |-> key, val |-> val]]
        BY <4>1, InsertIs
      <4> HIDE DEF r
      <4> QED BY <3>6, <3>7, <4>1, <4>2 DEF r, t1
    <3>9. /\ Packed(n, f[i].size + 1, new)
          /\ \A k, v : Count(new, k, v) = IF k = key /\ v = val THEN Count(f[i].slots, k, v) + 1
                                          ELSE Count(f[i].slots, k, v)
      <4> HIDE DEF key, val
      <4>1. Packed(n, f[i].size, f[i].slots)
        BY <2>1
      <4> QED BY <4>1, <3>1, <3>5, PutPacked
    <3>10. f[i + 1].size = Cardinality(Under(i + 1))
      <4>1. f[i + 1].size = f[i].size + 1
        BY <3>8
      <4>2. f[i].size = Cardinality(Under(i))
        BY <2>1
      <4> HIDE DEF Under
      <4>3. Cardinality(Under(i + 1)) = Cardinality(Under(i)) + 1
        BY ONLY <2>3, <3>2, FS_AddElement
      <4> QED BY ONLY <4>1, <4>2, <4>3
    <3> HIDE DEF new, key, val
    <3>12. ASSUME NEW k, NEW v PROVE Count(new, k, v) = Cardinality(Like(i + 1, k, v))
      <4>1. Count(f[i].slots, k, v) = Cardinality(Like(i, k, v))
        BY <2>1
      <4>2. i \notin Like(i, k, v) /\ IsFiniteSet(Like(i, k, v))
        BY <2>4
      <4>3. Like(i + 1, k, v) = IF k = key /\ v = val THEN Like(i, k, v) \cup {i} ELSE Like(i, k, v)
        BY <3>3
      <4> HIDE DEF Like
      <4> QED BY ZenonT(60), <3>9, <4>1, <4>2, <4>3, FS_AddElement
    <3> HIDE DEF Under, Like
    <3> QED BY <3>8, <3>9, <3>10, <3>12
  <2> QED BY <2>5, <2>6
<1> HIDE DEF S
<1>7. Nat \subseteq S
  BY <1>5, <1>6, Inductive
<1>8. Fine(t.n)
  <2> HIDE DEF Fine
  <2> QED BY <1>1, <1>7 DEF S
<1>9. Under(t.n) = Live(t.slots) /\ \A k, v : Like(t.n, k, v) = Copies(t.slots, k, v)
  BY <1>1, <1>2, <1>3
<1> HIDE DEF Under, Like
<1>10. f[t.n].n = n
  BY <1>8
<1> QED BY <1>1, <1>8, <1>9, <1>10 DEF Count

(* A rehash keeps every pair, and drops the tombstones.                    *)
LEMMA RehashPacked ==
  ASSUME NEW t, Packed(t.n, t.size, t.slots), {"n", "size", "slots"} \subseteq DOMAIN t,
         NEW n \in Nat \ {0}, t.size <= n
  PROVE  LET r == Rehashed(t, n)
         IN /\ DOMAIN r = DOMAIN t /\ r.n = n /\ r.size = t.size
            /\ Packed(n, r.size, r.slots) /\ \A k, v : Count(r.slots, k, v) = Count(t.slots, k, v)
            /\ \A x \in DOMAIN t \ {"n", "size", "slots"} : r[x] = t[x]
<1>1. t.n \in Nat
  BY DEF Packed
<1> DEFINE IsInto(f) == f = [i \in 0 .. t.n |->
                 IF i = 0 THEN [n |-> n, size |-> 0, slots |-> [s \in 0 .. n - 1 |-> EmptySlot]]
                 ELSE IF i - 1 \in Live(t.slots)
                 THEN InsertInto(f[i - 1], t.slots[i - 1].key, t.slots[i - 1].val)
                 ELSE f[i - 1]]
           f == CHOOSE f : IsInto(f)
<1>2. Rehashed(t, n) = [t EXCEPT !.n = n, !.size = f[t.n].size, !.slots = f[t.n].slots]
  BY DEF Rehashed
<1>3. ASSUME NEW g PROVE IsInto(g) <=> IsLoop(g, t, n, t.n)
  BY DEF IsLoop, Moved, Start, Blank
<1>4. \E g : IsInto(g)
  BY <1>1, <1>3, LoopExists
<1>5. IsInto(f)
  BY <1>4
<1> HIDE DEF f
<1>6. IsLoop(f, t, n, t.n)
  BY <1>3, <1>5
<1>7. /\ Packed(n, f[t.n].size, f[t.n].slots) /\ f[t.n].size = t.size
      /\ \A k, v : Count(f[t.n].slots, k, v) = Count(t.slots, k, v)
  BY <1>6, LoopHolds
<1> DEFINE r == [t EXCEPT !.n = n, !.size = f[t.n].size, !.slots = f[t.n].slots]
<1>8. /\ DOMAIN r = DOMAIN t /\ r.n = n /\ r.size = f[t.n].size /\ r.slots = f[t.n].slots
      /\ \A x \in DOMAIN t \ {"n", "size", "slots"} : r[x] = t[x]
  OBVIOUS
<1>9. Rehashed(t, n) = r
  BY <1>2
<1> HIDE DEF r
<1> QED BY <1>7, <1>8, <1>9
-----------------------------------------------------------------------------
(***************************************************************************)
(* BlocksAccounted holds for every set of keys, every width and any depth  *)
(* of frames. The invariant adds the shape of the table and that its frame *)
(* is open: no step but the end of that frame may then free its blocks.    *)
(***************************************************************************)
Shape ==
  /\ depth \in Frame
  /\ blocks \in [Frame -> Int]
  /\ ht = NoTable \/ ( /\ DOMAIN ht = {"n", "size", "slots", "home", "ahome"}
                       /\ ht.home \in 0 .. depth )
IInv == Shape /\ BlocksAccounted

(* An outcome that keeps the invariant, the depth being what it is.        *)
Good(t, b) ==
  /\ b \in [Frame -> Int]
  /\ IF t = NoTable THEN \A f \in Frame : b[f] = 0
     ELSE /\ DOMAIN t = {"n", "size", "slots", "home", "ahome"}
          /\ t.home \in 0 .. depth /\ t.home = t.ahome
          /\ \A f \in Frame : b[f] = IF f = t.home THEN 2 ELSE 0

LEMMA GoodIsIInv == depth \in Frame => (Good(ht, blocks) <=> IInv)
  BY DEF Good, IInv, Shape, BlocksAccounted

LEMMA BecomeGood ==
  ASSUME IInv, NEW o, NEW c, Good(o.ht, o.blocks), Become(o, c) PROVE IInv'
  BY DEF Good, IInv, Shape, BlocksAccounted, Become

LEMMA InitIInv == Init => IInv
  BY DepthNat DEF Init, IInv, Shape, BlocksAccounted, Frame

(* The operations on a table that exists change neither its owner nor its  *)
(* blocks, but for a resize, which swaps one array for another.            *)
LEMMA OutcomesGood ==
  ASSUME IInv, ht # NoTable
  PROVE  /\ Good(ht, blocks)
         /\ \A s : Good(Remove(ht, s), blocks)
         /\ \A n : \A o \in ResizeNoSignal(ht, n) :
              Good(o.ht, o.blocks) /\ o = Out(o.ht, o.blocks, o.err) /\ o.ht # NoTable
         /\ \A k, v : \A o \in InsertOutcomes(ht, k, v) : Good(o.ht, o.blocks)
  <1>1. Good(ht, blocks)
    BY GoodIsIInv DEF IInv, Shape
  <1>2. \A s : Good(Remove(ht, s), blocks)
    BY <1>1 DEF Good, Remove, NoTable
  <1>3. ASSUME NEW n, NEW o \in ResizeNoSignal(ht, n)
        PROVE  Good(o.ht, o.blocks) /\ o = Out(o.ht, o.blocks, o.err) /\ o.ht # NoTable
    <2> DEFINE got == [blocks EXCEPT ![depth] = @ + 1]
               new == [Rehashed(ht, n) EXCEPT !.ahome = depth]
    <2>a. blocks \in [Frame -> Int] /\ depth \in Frame
      BY DEF IInv, Shape
    <2>b. [got EXCEPT ![depth] = @ - 1] = blocks
      <3>1. \A f \in Frame : [got EXCEPT ![depth] = @ - 1][f] = blocks[f]
        BY <2>a
      <3> QED
        BY <2>a, <3>1
    <2>1. CASE \E e : o = Out(ht, blocks, e)
      BY <2>1, <1>1 DEF Out
    <2>2. CASE /\ ht.ahome = depth
               /\ o = Out(new, [got EXCEPT ![ht.ahome] = @ - 1], "ok")
      <3>1. /\ DOMAIN new = {"n", "size", "slots", "home", "ahome"}
            /\ new.home = ht.home /\ new.ahome = depth
        BY <1>1 DEF Good, Rehashed
      <3>2. o.ht = new /\ o.blocks = blocks
        BY <2>2, <2>b DEF Out
      <3>3. new # NoTable
        <4> HIDE DEF new
        <4> QED
          BY <3>1 DEF NoTable
      <3> HIDE DEF new
      <3>4. Good(o.ht, o.blocks)
        BY <2>2, <3>1, <3>2, <3>3, <1>1 DEF Good
      <3> QED
        BY <2>2, <3>2, <3>3, <3>4 DEF Out
    <2>3. CASE o = Out(ht, [got EXCEPT ![depth] = @ - 1], "EINVAL")
      BY <2>3, <2>b, <1>1 DEF Out
    <2> QED
      BY <2>1, <2>2, <2>3 DEF ResizeNoSignal, Out, CanFree
  <1>4. ASSUME NEW k, NEW v, NEW o \in InsertOutcomes(ht, k, v) PROVE Good(o.ht, o.blocks)
    <2>1. PICK t, b, e : /\ Good(t, b) /\ t # NoTable
                         /\ o = IF e # "ok" THEN Out(t, b, e)
                                ELSE IF Dead(t.slots) = {} THEN [Out(t, b, e) EXCEPT !.err = "ENOSPC"]
                                ELSE [Out(t, b, e) EXCEPT !.ht = InsertInto(t, k, v)]
      <3> DEFINE room == IF ~NeedsGrowth(ht) THEN {Out(ht, blocks, "ok")}
                         ELSE IF ht.n > IntMax \div 2 THEN {Out(ht, blocks, "EOVERFLOW")}
                         ELSE ResizeNoSignal(ht, 2 * ht.n)
      <3>1. PICK r \in room : o = IF r.err # "ok" THEN r
                                  ELSE IF Dead(r.ht.slots) = {} THEN [r EXCEPT !.err = "ENOSPC"]
                                  ELSE [r EXCEPT !.ht = InsertInto(r.ht, k, v)]
        BY DEF InsertOutcomes
      <3>2. Good(r.ht, r.blocks) /\ r = Out(r.ht, r.blocks, r.err) /\ r.ht # NoTable
        BY <1>1, <1>3 DEF Out
      <3> HIDE DEF room
      <3> QED
        BY <3>1, <3>2
    <2>2. CASE o.ht = t /\ o.blocks = b
      BY <2>1, <2>2
    <2>3. CASE o.ht = InsertInto(t, k, v) /\ o.blocks = b
      <3>1. /\ DOMAIN o.ht = DOMAIN t
            /\ o.ht.home = t.home /\ o.ht.ahome = t.ahome
        BY ZenonT(60), <2>1, <2>3 DEF InsertInto, Good
      <3>2. o.ht # NoTable
        BY <2>1, <3>1 DEF Good, NoTable
      <3> QED
        BY <2>1, <2>3, <3>1, <3>2 DEF Good
    <2> QED
      BY <2>1, <2>2, <2>3 DEF Out
  <1> QED
    BY <1>1, <1>2, <1>3, <1>4

LEMMA StepIInv == IInv /\ [Next]_vars => IInv'
  <1> SUFFICES ASSUME IInv, [Next]_vars PROVE IInv'
    OBVIOUS
  <1>t. depth \in Frame /\ blocks \in [Frame -> Int] /\ Good(ht, blocks)
    BY GoodIsIInv DEF IInv, Shape
  <1>r. ASSUME NEW e, Refuse(e) PROVE IInv'
    BY <1>r, <1>t, BecomeGood DEF Refuse, Out
  <1>u. ASSUME UNCHANGED <<ht, blocks, depth>> PROVE IInv'
    BY <1>u DEF IInv, Shape, BlocksAccounted
  <1>1. CASE HTable_Reset
    <2>1. CASE ht # NoTable
      <3> DEFINE new == [ht EXCEPT !.size = 0, !.slots = [s \in 0 .. ht.n - 1 |-> EmptySlot]]
      <3>1. Good(new, blocks)
        BY <2>1, <1>t DEF Good, NoTable
      <3>2. Become(Out(new, blocks, "ok"), Reply("clear", 0, Absent))
        BY <1>1, <2>1 DEF HTable_Reset
      <3> HIDE DEF new
      <3> QED
        BY <3>1, <3>2, BecomeGood DEF Out
    <2> QED
      BY <2>1, <1>1, <1>r DEF HTable_Reset
  <1>2. CASE HTable_Destroy
    <2>1. ht # NoTable /\ Become(DestroyOutcome(ht), Reply("clear", 0, Absent))
      BY <1>2 DEF HTable_Destroy
    <2>2. CASE ht.home # depth
      BY <2>1, <2>2, <1>t, BecomeGood DEF DestroyOutcome, CanFree, Out, Good
    <2>3. CASE ht.home = depth
      <3> DEFINE one == [blocks EXCEPT ![ht.ahome] = @ - 1]
                 none == [one EXCEPT ![ht.home] = @ - 1]
      <3>1. none \in [Frame -> Int] /\ \A f \in Frame : none[f] = 0
        BY <2>1, <2>3, <1>t DEF Good
      <3>2. DestroyOutcome(ht) = Out(NoTable, none, "ok")
        BY <2>1, <2>3, <1>t DEF DestroyOutcome, CanFree, Good
      <3> HIDE DEF none
      <3> QED
        BY <2>1, <3>1, <3>2, BecomeGood DEF Good, Out
    <2> QED
      BY <2>2, <2>3
  <1>3. CASE OpenFrame
    <2>1. depth' = depth + 1 /\ depth' \in Frame /\ UNCHANGED <<ht, blocks>>
      BY <1>3, <1>t, DepthNat DEF OpenFrame, Frame
    <2> QED
      BY <2>1, <1>t DEF IInv, Shape, BlocksAccounted, Frame
  <1>4. CASE CloseFrame
    <2>1. /\ depth' = depth - 1 /\ depth' \in Frame
          /\ blocks' = [blocks EXCEPT ![depth] = 0] /\ blocks' \in [Frame -> Int]
          /\ ht' = IF ht # NoTable /\ ht.home = depth THEN NoTable ELSE ht
      BY <1>4, <1>t, DepthNat DEF CloseFrame, Frame
    <2>2. CASE ht # NoTable /\ ht.home = depth
      BY <2>1, <2>2, <1>t DEF IInv, Shape, BlocksAccounted, Good
    <2>3. CASE ht = NoTable
      BY <2>1, <2>3, <1>t DEF IInv, Shape, BlocksAccounted, Good
    <2>4. CASE ht # NoTable /\ ht.home # depth
      <3>1. ht.home \in 0 .. depth'
        BY <2>1, <2>4, <1>t DEF Good, Frame
      <3> QED
        BY <2>1, <2>4, <3>1, <1>t DEF IInv, Shape, BlocksAccounted, Good
    <2> QED
      BY <2>2, <2>3, <2>4
  <1>5. ASSUME NEW n, HTable_Create(n) PROVE IInv'
    <2> DEFINE one == [blocks EXCEPT ![depth] = @ + 1]
               two == [one EXCEPT ![depth] = @ + 1]
               gone == [one EXCEPT ![depth] = @ - 1]
               new == [n |-> n, size |-> 0, slots |-> [s \in 0 .. n - 1 |-> EmptySlot],
                       home |-> depth, ahome |-> depth]
    <2>1. ht = NoTable /\ \A f \in Frame : blocks[f] = 0
      BY <1>5, <1>t DEF HTable_Create, Good
    <2>2. /\ two \in [Frame -> Int] /\ gone \in [Frame -> Int]
          /\ \A f \in Frame : gone[f] = 0 /\ two[f] = IF f = depth THEN 2 ELSE 0
      BY <2>1, <1>t
    <2>3. /\ DOMAIN new = {"n", "size", "slots", "home", "ahome"}
          /\ new.home = depth /\ new.ahome = depth
      OBVIOUS
    <2>4. new # NoTable /\ depth \in 0 .. depth
      <3>1. depth \in 0 .. depth
        BY <1>t DEF Frame
      <3> HIDE DEF new
      <3> QED
        BY <2>3, <3>1 DEF NoTable
    <2>5. PICK o : /\ \/ \E e : o = Out(ht, blocks, e)
                      \/ o = Out(ht, gone, "ENOMEM") \/ o = Out(new, two, "ok")
                   /\ Become(o, Reply("clear", 0, Absent))
      BY <1>5 DEF HTable_Create, CreateOutcomes
    <2> HIDE DEF new, two, gone
    <2>6. Good(ht, gone) /\ Good(new, two)
      BY <2>1, <2>2, <2>3, <2>4 DEF Good
    <2>7. Good(o.ht, o.blocks)
      BY <2>5, <2>6, <1>t DEF Out
    <2> QED
      BY <2>5, <2>7, BecomeGood
  <1>6. ASSUME NEW n, HTable_Resize(n) PROVE IInv'
    BY <1>6, <1>r, OutcomesGood, BecomeGood DEF HTable_Resize
  <1>7. ASSUME NEW k, NEW v, HTable_Insert(k, v) PROVE IInv'
    BY <1>7, <1>r, OutcomesGood, BecomeGood DEF HTable_Insert, Checked, Valid
  <1>8. ASSUME NEW k, HTable_Delete(k) PROVE IInv'
    BY <1>8, <1>r, OutcomesGood, BecomeGood DEF HTable_Delete, Checked, Valid, Out
  <1>9. ASSUME NEW k, HTable_Search(k) PROVE IInv'
    BY <1>9, <1>r, OutcomesGood, BecomeGood DEF HTable_Search, Checked, Valid, Out
  <1>10. ASSUME NEW k, NEW throws, HTable_SearchAndDelete(k, throws) PROVE IInv'
    BY <1>10, <1>r, OutcomesGood, BecomeGood DEF HTable_SearchAndDelete, Checked, Valid, Out
  <1>11. ASSUME NEW k, NEW type, HTable_GetNext(k, type) PROVE IInv'
    BY <1>11, <1>r, <1>u DEF HTable_GetNext, Checked
  <1>12. CASE UNCHANGED vars
    BY <1>12, <1>u DEF vars
  <1> QED
    BY <1>1, <1>2, <1>3, <1>4, <1>5, <1>6, <1>7, <1>8, <1>9, <1>10, <1>11, <1>12 DEF Next

(* No block of the table is lost, doubled or left to another frame, for any*)
(* keys, capacities, failures of allocations and frees, and nesting of the *)
(* frames around it.                                                       *)
THEOREM BlocksTheorem == Spec => []BlocksAccounted
  <1>1. IInv => BlocksAccounted
    BY DEF IInv
  <1> QED
    BY <1>1, InitIInv, StepIInv, PTL DEF Spec
-----------------------------------------------------------------------------
(* A table as one operation leaves it for the next.                        *)
Held(t) == t # NoTable => t.n <= IntMax /\ Packed(t.n, t.size, t.slots)
Answers == Val \cup {Absent}
WInv == IInv /\ Held(ht) /\ err # "ENOSPC" /\ call.ret \in Answers

(* The bag of pairs that a table stands for.                               *)
Pairs(t) == [p \in Key \X Val |-> IF t = NoTable THEN 0 ELSE Count(t.slots, p[1], p[2])]

LEMMA BagIs == Bag = Pairs(ht)
BY DEF Bag, Pairs, Count, Copies

LEMMA SamePairs ==
  ASSUME NEW t, t # NoTable, NEW u, u # NoTable,
         \A k, v : Count(u.slots, k, v) = Count(t.slots, k, v)
  PROVE  Pairs(u) = Pairs(t)
BY DEF Pairs

LEMMA NoPairs ==
  ASSUME NEW t, t # NoTable => \A k, v : Count(t.slots, k, v) = 0
  PROVE  Pairs(t) = Map!Empty
BY DEF Pairs, Map!Empty

LEMMA MorePairs ==
  ASSUME NEW t, t # NoTable, NEW u, u # NoTable, NEW key \in Key, NEW val \in Val, NEW d,
         \A k, v : Count(u.slots, k, v)
                     = IF k = key /\ v = val THEN Count(t.slots, k, v) + d ELSE Count(t.slots, k, v)
  PROVE  Pairs(u) = [Pairs(t) EXCEPT ![<<key, val>>] = @ + d]
<1>1. ASSUME NEW p \in Key \X Val
      PROVE  Pairs(u)[p] = IF p = <<key, val>> THEN Pairs(t)[p] + d ELSE Pairs(t)[p]
  <2>1. p = <<key, val>> <=> p[1] = key /\ p[2] = val
    OBVIOUS
  <2> QED BY <2>1 DEF Pairs
<1>2. DOMAIN Pairs(u) = Key \X Val /\ DOMAIN Pairs(t) = Key \X Val
  BY DEF Pairs
<1>3. Pairs(u) = [p \in Key \X Val |-> Pairs(u)[p]] /\ Pairs(t) = [p \in Key \X Val |-> Pairs(t)[p]]
  BY DEF Pairs
<1>4. <<key, val>> \in Key \X Val
  OBVIOUS
<1> QED BY <1>1, <1>2, <1>3, <1>4

LEMMA TableIs ==
  ASSUME IInv, ht # NoTable
  PROVE  DOMAIN ht = {"n", "size", "slots", "home", "ahome"}
BY DEF IInv, Shape

LEMMA RowOfFields == ASSUME NEW t, {"n", "size"} \subseteq DOMAIN t PROVE t # NoTable
BY DEF NoTable

LEMMA OutIs == \A t, b, e : Out(t, b, e).ht = t /\ Out(t, b, e).err = e
BY DEF Out

(* A resize keeps the pairs, done or refused.                              *)
LEMMA ResizeHolds ==
  ASSUME WInv, ht # NoTable, NEW n \in Int, n <= IntMax, NEW o \in ResizeNoSignal(ht, n)
  PROVE  /\ o.err # "ENOSPC" /\ Held(o.ht) /\ Pairs(o.ht) = Pairs(ht)
         /\ IF o.err = "ok"
            THEN o.ht # NoTable /\ o.ht.n = n /\ o.ht.size = ht.size
                 /\ DOMAIN o.ht = {"n", "size", "slots", "home", "ahome"}
            ELSE o.ht = ht
<1>1. DOMAIN ht = {"n", "size", "slots", "home", "ahome"}
  BY TableIs DEF WInv
<1>2. Packed(ht.n, ht.size, ht.slots) /\ Held(ht)
  BY DEF WInv, Held
<1>3. CASE o.err # "ok"
  <2>1. o.ht = ht /\ o.err # "ENOSPC"
    BY <1>3, OutIs DEF ResizeNoSignal, CanFree
  <2> QED BY <1>2, <1>3, <2>1
<1>4. CASE o.err = "ok"
  <2> DEFINE r == Rehashed(ht, n)
             new == [r EXCEPT !.ahome = depth]
  <2>1. n > 0 /\ ht.size <= n /\ o.ht = new
    <3>1. ht.size \in Int
      <4>1. ht.n \in Nat /\ ht.slots \in [0 .. ht.n - 1 -> Slot] /\ ht.size = Cardinality(Live(ht.slots))
        BY <1>2 DEF Packed
      <4> QED BY <4>1, SlotsFinite
    <3> HIDE DEF r
    <3> QED BY <1>4, <3>1, OutIs DEF ResizeNoSignal, CanFree, r
  <2>2. n \in Nat \ {0}
    BY <2>1
  <2>3. /\ DOMAIN r = DOMAIN ht /\ r.n = n /\ r.size = ht.size
        /\ Packed(n, r.size, r.slots) /\ \A k, v : Count(r.slots, k, v) = Count(ht.slots, k, v)
    BY <1>1, <1>2, <2>1, <2>2, RehashPacked
  <2> HIDE DEF r
  <2>4. /\ DOMAIN new = {"n", "size", "slots", "home", "ahome"}
        /\ new.n = n /\ new.size = r.size /\ new.slots = r.slots
    BY <1>1, <2>3
  <2> HIDE DEF new
  <2>5. new # NoTable
    BY <2>4, RowOfFields
  <2>6. Pairs(new) = Pairs(ht)
    BY <2>3, <2>4, <2>5, SamePairs
  <2> QED BY <1>4, <2>1, <2>3, <2>4, <2>5, <2>6 DEF Held
<1> QED BY <1>3, <1>4

(* Below half full, or grown, a table has a dead slot for the new pair.    *)
LEMMA InsertHolds ==
  ASSUME WInv, ht # NoTable, NEW key \in Key, NEW val \in Val, NEW o \in InsertOutcomes(ht, key, val)
  PROVE  /\ o.err # "ENOSPC" /\ Held(o.ht)
         /\ Pairs(o.ht) = IF o.err = "ok" THEN [Pairs(ht) EXCEPT ![<<key, val>>] = @ + 1] ELSE Pairs(ht)
<1> DEFINE room == IF ~NeedsGrowth(ht) THEN {Out(ht, blocks, "ok")}
                   ELSE IF ht.n > IntMax \div 2 THEN {Out(ht, blocks, "EOVERFLOW")}
                   ELSE ResizeNoSignal(ht, 2 * ht.n)
<1>1. PICK r \in room : o = IF r.err # "ok" THEN r
                            ELSE IF Dead(r.ht.slots) = {} THEN [r EXCEPT !.err = "ENOSPC"]
                            ELSE [r EXCEPT !.ht = InsertInto(r.ht, key, val)]
  BY DEF InsertOutcomes
<1>2. DOMAIN ht = {"n", "size", "slots", "home", "ahome"}
  BY TableIs DEF WInv
<1>3. Packed(ht.n, ht.size, ht.slots) /\ Held(ht) /\ ht.n <= IntMax
  BY DEF WInv, Held
<1>4. /\ ht.n \in Nat \ {0} /\ ht.size \in 0 .. ht.n /\ IntMax \in Nat
  <2>1. /\ ht.n \in Nat \ {0} /\ ht.n \in Nat /\ ht.slots \in [0 .. ht.n - 1 -> Slot]
        /\ ht.size = Cardinality(Live(ht.slots))
    BY <1>3 DEF Packed
  <2>2. Cardinality(Live(ht.slots)) \in 0 .. ht.n
    BY <2>1, SlotsFinite
  <2> QED BY <2>1, <2>2, KeyFacts
<1>5. /\ r.err # "ENOSPC" /\ Held(r.ht) /\ Pairs(r.ht) = Pairs(ht)
      /\ r.err = "ok" => /\ r.ht # NoTable /\ r.ht.size < r.ht.n
                         /\ DOMAIN r.ht = {"n", "size", "slots", "home", "ahome"}
  <2>1. CASE ~NeedsGrowth(ht)
    <3>1. r = Out(ht, blocks, "ok") /\ ht.size <= ht.n \div 2
      BY <1>4, <2>1 DEF NeedsGrowth
    <3>2. ht.size < ht.n
      BY <1>4, <3>1
    <3> QED BY <1>2, <1>3, <3>1, <3>2, OutIs
  <2>2. CASE NeedsGrowth(ht) /\ ht.n > IntMax \div 2
    BY <1>3, <2>2, OutIs
  <2>3. CASE NeedsGrowth(ht) /\ ~(ht.n > IntMax \div 2)
    <3> DEFINE m == 2 * ht.n
    <3>1. m \in Int /\ m <= IntMax /\ ht.size < m
      BY <1>4, <2>3
    <3>2. r \in ResizeNoSignal(ht, m)
      BY <2>3
    <3> HIDE DEF m
    <3> QED BY <3>1, <3>2, ResizeHolds
  <2> QED BY <2>1, <2>2, <2>3
<1> HIDE DEF room
<1>6. CASE r.err # "ok"
  BY <1>1, <1>5, <1>6
<1>7. CASE r.err = "ok"
  <2> DEFINE t == r.ht
             u == InsertInto(t, key, val)
  <2>1. /\ t # NoTable /\ t.size < t.n /\ DOMAIN t = {"n", "size", "slots", "home", "ahome"}
        /\ t.n <= IntMax /\ Packed(t.n, t.size, t.slots) /\ Pairs(t) = Pairs(ht)
    BY <1>5, <1>7 DEF Held
  <2> HIDE DEF t
  <2>2. Dead(t.slots) # {}
    <3>1. t.n \in Nat /\ t.slots \in [0 .. t.n - 1 -> Slot] /\ Cardinality(Live(t.slots)) < t.n
      BY <2>1 DEF Packed
    <3> QED BY <3>1, SlotsFinite
  <2>3. o.ht = u /\ o.err = "ok"
    <3>1. o = [r EXCEPT !.ht = u]
      BY <1>1, <1>7, <2>2 DEF t
    <3>2. "ht" \in DOMAIN r /\ "err" \in DOMAIN r
      BY <1>1 DEF room, ResizeNoSignal, Out
    <3> HIDE DEF u
    <3> QED BY <1>7, <3>1, <3>2
  <2>4. /\ DOMAIN u = DOMAIN t /\ u.n = t.n /\ u.size = t.size + 1
        /\ u.slots = [t.slots EXCEPT ![Nearest(t.n, key, Dead(t.slots))] = [key |-> key, val |-> val]]
    BY <2>1, InsertIs
  <2> HIDE DEF u
  <2>5. u # NoTable
    BY <2>1, <2>4, RowOfFields
  <2>6. /\ Packed(t.n, t.size + 1, u.slots)
        /\ \A k, v : Count(u.slots, k, v) = IF k = key /\ v = val THEN Count(t.slots, k, v) + 1
                                            ELSE Count(t.slots, k, v)
    BY <2>1, <2>2, <2>4, PutPacked
  <2>7. Pairs(u) = [Pairs(t) EXCEPT ![<<key, val>>] = @ + 1]
    BY <2>1, <2>5, <2>6, MorePairs
  <2>8. Held(u)
    BY <2>1, <2>4, <2>6 DEF Held
  <2> QED BY <2>1, <2>3, <2>7, <2>8
<1> QED BY <1>6, <1>7

(* A pair taken out.                                                       *)
LEMMA RemoveHolds ==
  ASSUME WInv, ht # NoTable, NEW s \in Live(ht.slots)
  PROVE  /\ Held(Remove(ht, s)) /\ ht.slots[s].key \in Key /\ ht.slots[s].val \in Val
         /\ Pairs(Remove(ht, s)) = [Pairs(ht) EXCEPT ![<<ht.slots[s].key, ht.slots[s].val>>] = @ - 1]
<1> DEFINE u == Remove(ht, s)
<1>1. DOMAIN ht = {"n", "size", "slots", "home", "ahome"}
  BY TableIs DEF WInv
<1>2. Packed(ht.n, ht.size, ht.slots) /\ ht.n <= IntMax
  BY DEF WInv, Held
<1>3. /\ DOMAIN u = DOMAIN ht /\ u.n = ht.n /\ u.size = ht.size - 1
      /\ u.slots = [ht.slots EXCEPT ![s] = Tombstone]
  BY <1>1 DEF Remove
<1> HIDE DEF u
<1>4. u # NoTable
  BY <1>1, <1>3, RowOfFields
<1>5. /\ Packed(ht.n, ht.size - 1, u.slots)
      /\ ht.slots[s].key \in Key /\ ht.slots[s].val \in Val
      /\ \A k, v : Count(u.slots, k, v) = IF k = ht.slots[s].key /\ v = ht.slots[s].val
                                          THEN Count(ht.slots, k, v) - 1 ELSE Count(ht.slots, k, v)
  BY <1>2, <1>3, TakePacked
<1>6. \A k, v : Count(u.slots, k, v) = IF k = ht.slots[s].key /\ v = ht.slots[s].val
                                       THEN Count(ht.slots, k, v) + (-1) ELSE Count(ht.slots, k, v)
  <2>1. \A k, v : Count(ht.slots, k, v) \in Nat
    <3>1. ht.n \in Nat /\ ht.slots \in [0 .. ht.n - 1 -> Slot]
      BY <1>2 DEF Packed
    <3> QED BY <3>1, CopiesFinite
  <2> QED BY <1>5, <2>1
<1>7. Pairs(u) = [Pairs(ht) EXCEPT ![<<ht.slots[s].key, ht.slots[s].val>>] = @ + (-1)]
  BY SMTT(30), <1>4, <1>5, <1>6, MorePairs
<1>8. Pairs(ht)[<<ht.slots[s].key, ht.slots[s].val>>] + (-1) = Pairs(ht)[<<ht.slots[s].key, ht.slots[s].val>>] - 1
  OBVIOUS
<1> QED BY <1>2, <1>3, <1>5, <1>7, <1>8 DEF Held, u
-----------------------------------------------------------------------------
Rest == Held(ht) /\ err # "ENOSPC" /\ call.ret \in Answers

LEMMA BagNext == Bag' = Pairs(ht')
BY BagIs DEF Pairs, Bag, Count, Copies

LEMMA KeepIs == Keep.ret \in Answers /\ Keep.op = "keep" /\ Keep = Map!Reply("keep", 0, Map!Absent)
BY DEF Keep, Reply, Answers, Map!Reply, Map!Absent, Absent

(* A call that returns an outcome.                                         *)
LEMMA Returned ==
  ASSUME NEW o, NEW c, Become(o, c), Held(o.ht), o.err # "ENOSPC", c.ret \in Answers
  PROVE  Rest'
<1>1. ht' = o.ht /\ err' = o.err /\ call' = IF o.err = "ok" THEN c ELSE Keep
  BY DEF Become
<1>2. Held(ht') /\ err' # "ENOSPC" /\ call'.ret \in Answers
  BY <1>1, KeepIs
<1> QED BY <1>2 DEF Rest, Held, Packed, NoTable

LEMMA KeepMaps ==
  ASSUME Pairs(ht') = Pairs(ht), call' = Keep \/ call'.op = "next"
  PROVE  Map!Keep
<1>1. Bag' = Bag
  BY BagIs, BagNext
<1>2. (IF call'.op = "next" THEN Keep ELSE call') = Map!Reply("keep", 0, Map!Absent)
  BY KeepIs
<1>3. (IF call.op = "next" THEN Keep ELSE call)' = (IF call'.op = "next" THEN Keep ELSE call')
  BY DEF Keep, Reply, Absent
<1> QED BY <1>1, <1>2, <1>3 DEF Map!Keep

LEMMA RefuseMaps ==
  ASSUME WInv, NEW e, e # "ENOSPC", Refuse(e)
  PROVE  Rest' /\ Map!Keep
<1>1. ht' = ht /\ call' = Keep /\ Become(Out(ht, blocks, e), Keep)
  BY OutIs DEF Refuse, Become
<1>2. Rest'
  BY <1>1, OutIs, KeepIs, Returned DEF WInv
<1> QED BY <1>1, <1>2, KeepMaps

(* A call that succeeds, as the abstract map sees it.                      *)
LEMMA ReplyIs ==
  ASSUME NEW op, op # "next", NEW k, NEW r, call' = Reply(op, k, r)
  PROVE  (IF call.op = "next" THEN Keep ELSE call)' = Map!Reply(op, k, r)
<1>1. call'.op = op
  BY DEF Reply
<1> QED BY <1>1 DEF Reply, Map!Reply

LEMMA ClearMaps ==
  ASSUME Pairs(ht') = Map!Empty, call' = Reply("clear", 0, Absent)
  PROVE  Map!Clear
<1>1. Bag' = Map!Empty
  BY BagNext
<1>2. (IF call.op = "next" THEN Keep ELSE call)' = Map!Reply("clear", 0, Map!Absent)
  BY ReplyIs DEF Map!Absent, Absent
<1> QED BY <1>1, <1>2 DEF Map!Clear

LEMMA NoTableIs == Held(NoTable) /\ Pairs(NoTable) = Map!Empty
BY NoPairs DEF Held

LEMMA ClearReply == Reply("clear", 0, Absent).ret \in Answers
BY DEF Reply, Answers

LEMMA CreateMaps ==
  ASSUME WInv, NEW n \in Capacities, HTable_Create(n)
  PROVE  Rest' /\ (Map!Clear \/ Map!Keep)
<1> DEFINE new == [n |-> n, size |-> 0, slots |-> [s \in 0 .. n - 1 |-> EmptySlot],
                   home |-> depth, ahome |-> depth]
<1>1. PICK o \in CreateOutcomes(n) : Become(o, Reply("clear", 0, Absent))
  BY DEF HTable_Create
<1>2. ht = NoTable
  BY DEF HTable_Create
<1>3. n \in Int /\ n <= IntMax
  BY CapacitiesAreInts, KeyFacts
<1>4. \/ o.ht = ht /\ o.err # "ok" /\ o.err # "ENOSPC"
      \/ o.ht = new /\ o.err = "ok" /\ n > 0
  BY <1>3, OutIs DEF CreateOutcomes
<1>5. CASE o.ht = ht /\ o.err # "ok" /\ o.err # "ENOSPC"
  <2>1. ht' = ht /\ call' = Keep
    BY <1>1, <1>5 DEF Become
  <2> QED BY <1>1, <1>2, <1>5, <2>1, NoTableIs, ClearReply, KeepMaps, Returned
<1>6. CASE o.ht = new /\ o.err = "ok" /\ n > 0
  <2>1. new.slots = Blank(n) /\ new.n = n /\ new.size = 0 /\ {"n", "size"} \subseteq DOMAIN new
    BY DEF Blank
  <2>2. n \in Nat \ {0}
    BY <1>3, <1>6
  <2> HIDE DEF new
  <2>3. Packed(n, 0, Blank(n)) /\ \A k, v : Count(Blank(n), k, v) = 0
    BY <2>2, BlankPacked
  <2>4. Held(new) /\ Pairs(new) = Map!Empty
    BY <1>3, <2>1, <2>3, NoPairs DEF Held
  <2>5. ht' = new /\ call' = Reply("clear", 0, Absent)
    BY <1>1, <1>6 DEF Become
  <2> QED BY <1>1, <1>6, <2>4, <2>5, ClearReply, ClearMaps, Returned
<1> QED BY <1>4, <1>5, <1>6

LEMMA ResetMaps ==
  ASSUME WInv, HTable_Reset
  PROVE  Rest' /\ (Map!Clear \/ Map!Keep)
<1>1. CASE ht = NoTable
  BY <1>1, RefuseMaps DEF HTable_Reset
<1>2. CASE ht # NoTable
  <2> DEFINE new == [ht EXCEPT !.size = 0, !.slots = [s \in 0 .. ht.n - 1 |-> EmptySlot]]
             o == Out(new, blocks, "ok")
  <2>1. Become(o, Reply("clear", 0, Absent))
    BY <1>2 DEF HTable_Reset
  <2>2. DOMAIN ht = {"n", "size", "slots", "home", "ahome"}
    BY <1>2, TableIs DEF WInv
  <2>3. ht.n \in Nat \ {0} /\ ht.n <= IntMax
    BY <1>2 DEF WInv, Held, Packed
  <2>4. new.n = ht.n /\ new.size = 0 /\ new.slots = Blank(ht.n)
    BY <2>2 DEF Blank
  <2> HIDE DEF new
  <2>5. Packed(ht.n, 0, Blank(ht.n)) /\ \A k, v : Count(Blank(ht.n), k, v) = 0
    BY <2>3, BlankPacked
  <2>6. Held(new) /\ Pairs(new) = Map!Empty
    BY <2>3, <2>4, <2>5, NoPairs DEF Held
  <2>7. o.ht = new /\ o.err = "ok"
    BY OutIs
  <2> HIDE DEF o
  <2>8. ht' = new /\ call' = Reply("clear", 0, Absent)
    BY <2>1, <2>7 DEF Become
  <2> QED BY <2>1, <2>6, <2>7, <2>8, ClearReply, ClearMaps, Returned
<1> QED BY <1>1, <1>2

LEMMA DestroyMaps ==
  ASSUME WInv, HTable_Destroy
  PROVE  Rest' /\ (Map!Clear \/ Map!Keep)
<1> DEFINE o == DestroyOutcome(ht)
<1>1. Become(o, Reply("clear", 0, Absent)) /\ ht # NoTable
  BY DEF HTable_Destroy
<1>2. ht.home = ht.ahome /\ Held(ht)
  BY <1>1 DEF WInv, IInv, BlocksAccounted
<1>3. \/ o.ht = ht /\ o.err = "EINVAL"
      \/ o.ht = NoTable /\ o.err = "ok"
  BY <1>2, OutIs DEF DestroyOutcome, CanFree
<1> HIDE DEF o
<1>4. CASE o.ht = ht /\ o.err = "EINVAL"
  <2>1. ht' = ht /\ call' = Keep
    BY <1>1, <1>4 DEF Become
  <2> QED BY <1>1, <1>2, <1>4, <2>1, ClearReply, KeepMaps, Returned
<1>5. CASE o.ht = NoTable /\ o.err = "ok"
  <2>1. ht' = NoTable /\ call' = Reply("clear", 0, Absent)
    BY <1>1, <1>5 DEF Become
  <2> QED BY <1>1, <1>5, <2>1, NoTableIs, ClearReply, ClearMaps, Returned
<1> QED BY <1>3, <1>4, <1>5

LEMMA ResizeMaps ==
  ASSUME WInv, NEW n \in Capacities, HTable_Resize(n)
  PROVE  Rest' /\ Map!Keep
<1>1. CASE ht = NoTable
  BY <1>1, RefuseMaps DEF HTable_Resize
<1>2. CASE ht # NoTable
  <2>1. PICK o \in ResizeNoSignal(ht, n) : Become(o, Keep)
    BY <1>2 DEF HTable_Resize
  <2>2. n \in Int /\ n <= IntMax
    BY CapacitiesAreInts, KeyFacts
  <2>3. o.err # "ENOSPC" /\ Held(o.ht) /\ Pairs(o.ht) = Pairs(ht)
    BY <1>2, <2>1, <2>2, ResizeHolds
  <2>4. ht' = o.ht /\ call' = Keep
    BY <2>1 DEF Become
  <2> QED BY <2>1, <2>3, <2>4, KeepIs, KeepMaps, Returned
<1> QED BY <1>1, <1>2

LEMMA ValidKey == ASSUME NEW k \in Keys, Valid(k) PROVE k \in Key /\ ht # NoTable
BY DEF Valid, Keys

LEMMA InsertMaps ==
  ASSUME WInv, NEW k \in Keys, NEW v \in Val, HTable_Insert(k, v)
  PROVE  Rest' /\ Map!Next
<1>1. CASE ~Valid(k)
  BY <1>1, RefuseMaps DEF HTable_Insert, Checked, Map!Next
<1>2. CASE Valid(k)
  <2>1. k \in Key /\ ht # NoTable
    BY <1>2, ValidKey
  <2>2. PICK o \in InsertOutcomes(ht, k, v) : Become(o, Reply("insert", k, v))
    BY <1>2 DEF HTable_Insert, Checked
  <2>3. /\ o.err # "ENOSPC" /\ Held(o.ht)
        /\ Pairs(o.ht) = IF o.err = "ok" THEN [Pairs(ht) EXCEPT ![<<k, v>>] = @ + 1] ELSE Pairs(ht)
    BY <2>1, <2>2, InsertHolds
  <2>4. Reply("insert", k, v).ret \in Answers
    BY DEF Reply, Answers
  <2>5. Rest'
    BY <2>2, <2>3, <2>4, Returned
  <2>6. ht' = o.ht /\ call' = IF o.err = "ok" THEN Reply("insert", k, v) ELSE Keep
    BY <2>2 DEF Become
  <2>7. CASE o.err # "ok"
    BY <2>3, <2>5, <2>6, <2>7, KeepMaps DEF Map!Next
  <2>8. CASE o.err = "ok"
    <3>1. Bag' = [Bag EXCEPT ![<<k, v>>] = @ + 1]
      BY <2>3, <2>6, <2>8, BagIs, BagNext
    <3>2. (IF call.op = "next" THEN Keep ELSE call)' = Map!Reply("insert", k, v)
      BY <2>6, <2>8, ReplyIs
    <3>3. Map!Insert(k, v)
      BY <3>1, <3>2 DEF Map!Insert
    <3> QED BY <2>1, <2>5, <3>3 DEF Map!Next
  <2> QED BY <2>7, <2>8
<1> QED BY <1>1, <1>2

(* What the abstract map holds for a key, and the slots of that key.       *)
LEMMA ValuesAre ==
  ASSUME WInv, ht # NoTable, NEW k \in Key
  PROVE  /\ Found(ht, k) = SlotsOf(ht.slots, k)
         /\ SlotsOf(ht.slots, k) = {} => Map!Values(k) = {}
         /\ SlotsOf(ht.slots, k) # {} =>
              LET s == Nearest(ht.n, k, SlotsOf(ht.slots, k))
              IN s \in Live(ht.slots) /\ ht.slots[s].key = k /\ ht.slots[s].val \in Map!Values(k)
<1>1. Packed(ht.n, ht.size, ht.slots)
  BY DEF WInv, Held
<1>2. Map!Values(k) = {v \in Val : Count(ht.slots, k, v) > 0}
  <2>1. \A v \in Val : Bag[<<k, v>>] = Count(ht.slots, k, v)
    BY BagIs DEF Pairs
  <2> QED BY <2>1 DEF Map!Values
<1>3. Found(ht, k) = SlotsOf(ht.slots, k)
  BY <1>1, SearchSees
<1>4. ASSUME SlotsOf(ht.slots, k) = {} PROVE Map!Values(k) = {}
  BY <1>1, <1>2, <1>4, SearchSees
<1> DEFINE s == Nearest(ht.n, k, SlotsOf(ht.slots, k))
<1>5. ASSUME SlotsOf(ht.slots, k) # {}
      PROVE  s \in Live(ht.slots) /\ ht.slots[s].key = k /\ ht.slots[s].val \in Map!Values(k)
  <2>1. s \in Live(ht.slots) /\ ht.slots[s].key = k /\ ht.slots[s].val \in Val
        /\ Count(ht.slots, k, ht.slots[s].val) > 0
    BY <1>1, <1>5, SearchSees
  <2> QED BY <1>2, <2>1
<1> QED BY <1>3, <1>4, <1>5

LEMMA LessIs == ASSUME NEW k, NEW v PROVE Map!Less(k, v) = [Bag EXCEPT ![<<k, v>>] = @ - 1]
BY DEF Map!Less

LEMMA DeleteMaps ==
  ASSUME WInv, NEW k \in Keys, HTable_Delete(k)
  PROVE  Rest' /\ Map!Next
<1>1. CASE ~Valid(k)
  BY <1>1, RefuseMaps DEF HTable_Delete, Checked, Map!Next
<1>2. CASE Valid(k)
  <2> DEFINE S == SlotsOf(ht.slots, k)
             s == Nearest(ht.n, k, S)
             t == IF S = {} THEN ht ELSE Remove(ht, s)
  <2>1. k \in Key /\ ht # NoTable /\ Held(ht)
    BY <1>2, ValidKey DEF WInv
  <2>2. Become(Out(t, blocks, "ok"), Reply("delete", k, Absent))
    BY <1>2 DEF HTable_Delete, Checked
  <2>3. ht' = t /\ call' = Reply("delete", k, Absent)
    BY <2>2, OutIs DEF Become
  <2>4. (IF call.op = "next" THEN Keep ELSE call)' = Map!Reply("delete", k, Map!Absent)
    BY <2>3, ReplyIs DEF Map!Absent, Absent
  <2>5. Reply("delete", k, Absent).ret \in Answers
    BY DEF Reply, Answers
  <2>6. CASE S = {}
    <3>1. Map!Values(k) = {}
      BY <2>1, <2>6, ValuesAre
    <3>2. Bag' = Bag
      BY <2>3, <2>6, BagIs, BagNext
    <3>3. Map!Delete(k)
      BY <2>4, <3>1, <3>2 DEF Map!Delete
    <3>4. Rest'
      BY <2>1, <2>2, <2>5, <2>6, OutIs, Returned
    <3> QED BY <2>1, <3>3, <3>4 DEF Map!Next
  <2>7. CASE S # {}
    <3>1. s \in Live(ht.slots) /\ ht.slots[s].key = k /\ ht.slots[s].val \in Map!Values(k)
      BY <2>1, <2>7, ValuesAre
    <3> DEFINE u == Remove(ht, s)
               v == ht.slots[s].val
    <3>2. Held(u) /\ Pairs(u) = [Pairs(ht) EXCEPT ![<<k, v>>] = @ - 1]
      BY <2>1, <3>1, RemoveHolds
    <3>3. ht' = u /\ t = u
      BY <2>3, <2>7
    <3> HIDE DEF u, s, S, v, t
    <3>4. Bag' = Map!Less(k, v)
      BY <3>2, <3>3, BagIs, BagNext, LessIs
    <3>5. v \in Map!Values(k)
      BY <3>1 DEF v
    <3>6. Map!Delete(k)
      BY <2>4, <3>4, <3>5 DEF Map!Delete
    <3>7. Rest'
      BY <2>2, <2>5, <3>2, <3>3, OutIs, Returned
    <3> QED BY <2>1, <3>6, <3>7 DEF Map!Next
  <2> QED BY <2>6, <2>7
<1> QED BY <1>1, <1>2

LEMMA SearchMaps ==
  ASSUME WInv, NEW k \in Keys, HTable_Search(k)
  PROVE  Rest' /\ Map!Next
<1>1. CASE ~Valid(k)
  BY <1>1, RefuseMaps DEF HTable_Search, Checked, Map!Next
<1>2. CASE Valid(k)
  <2> DEFINE S == Found(ht, k)
             s == Nearest(ht.n, k, S)
             v == IF S = {} THEN Absent ELSE ht.slots[s].val
  <2>1. k \in Key /\ ht # NoTable /\ Held(ht) /\ S = SlotsOf(ht.slots, k)
    BY <1>2, ValidKey, ValuesAre DEF WInv
  <2>2. Become(Out(ht, blocks, "ok"), Reply("search", k, v))
    BY <1>2 DEF HTable_Search, Checked
  <2>3. ht' = ht /\ call' = Reply("search", k, v)
    BY <2>2, OutIs DEF Become
  <2>4. IF Map!Values(k) = {} THEN v = Absent ELSE v \in Map!Values(k)
    <3>1. CASE S = {}
      BY <2>1, <3>1, ValuesAre
    <3>2. CASE S # {}
      BY <2>1, <3>2, ValuesAre
    <3> QED BY <3>1, <3>2
  <2> HIDE DEF v
  <2>5. (IF call.op = "next" THEN Keep ELSE call)' = Map!Reply("search", k, v)
    BY <2>3, ReplyIs
  <2>6. Bag' = Bag
    BY <2>3, BagIs, BagNext
  <2>7. v \in Answers
    BY <2>4 DEF Answers, Map!Values
  <2>8. Map!Search(k)
    BY <2>4, <2>5, <2>6 DEF Map!Search, Map!Absent, Absent
  <2>9. Reply("search", k, v).ret \in Answers
    BY <2>7 DEF Reply
  <2>10. Rest'
    BY <2>1, <2>2, <2>9, OutIs, Returned
  <2> QED BY <2>1, <2>8, <2>10 DEF Map!Next
<1> QED BY <1>1, <1>2

LEMMA TakeMaps ==
  ASSUME WInv, NEW k \in Keys, NEW throws \in BOOLEAN, HTable_SearchAndDelete(k, throws)
  PROVE  Rest' /\ Map!Next
<1>1. CASE ~Valid(k)
  BY <1>1, RefuseMaps DEF HTable_SearchAndDelete, Checked, Map!Next
<1>2. CASE Valid(k)
  <2> DEFINE S == IF throws THEN Found(ht, k) ELSE SlotsOf(ht.slots, k)
             s == Nearest(ht.n, k, S)
  <2>1. k \in Key /\ ht # NoTable /\ Held(ht) /\ S = SlotsOf(ht.slots, k)
    BY <1>2, ValidKey, ValuesAre DEF WInv
  <2>2. IF S # {}
        THEN Become(Out(Remove(ht, s), blocks, "ok"), Reply("take", k, ht.slots[s].val))
        ELSE Refuse("SIGERR") \/ Become(Out(ht, blocks, "ok"), Reply("take", k, Absent))
    BY <1>2 DEF HTable_SearchAndDelete, Checked
  <2>3. CASE S # {}
    <3> DEFINE u == Remove(ht, s)
               v == ht.slots[s].val
    <3>1. s \in Live(ht.slots) /\ ht.slots[s].key = k /\ v \in Map!Values(k)
      BY <2>1, <2>3, ValuesAre
    <3>2. Held(u) /\ v \in Val /\ Pairs(u) = [Pairs(ht) EXCEPT ![<<k, v>>] = @ - 1]
      BY <2>1, <3>1, RemoveHolds
    <3>3. Become(Out(u, blocks, "ok"), Reply("take", k, v))
      BY <2>2, <2>3
    <3> HIDE DEF u, s, S, v
    <3>4. ht' = u /\ call' = Reply("take", k, v)
      BY <3>3, OutIs DEF Become
    <3>5. Bag' = Map!Less(k, v)
      BY <3>2, <3>4, BagIs, BagNext, LessIs
    <3>6. (IF call.op = "next" THEN Keep ELSE call)' = Map!Reply("take", k, v)
      BY <3>4, ReplyIs
    <3>7. Map!Take(k)
      BY <3>1, <3>5, <3>6 DEF Map!Take
    <3>8. Reply("take", k, v).ret \in Answers
      BY <3>2 DEF Reply, Answers
    <3>9. Rest'
      BY <3>2, <3>3, <3>8, OutIs, Returned
    <3> QED BY <2>1, <3>7, <3>9 DEF Map!Next
  <2>4. CASE S = {} /\ Refuse("SIGERR")
    BY <2>4, RefuseMaps DEF Map!Next
  <2>5. CASE S = {} /\ Become(Out(ht, blocks, "ok"), Reply("take", k, Absent))
    <3>1. ht' = ht /\ call' = Reply("take", k, Absent)
      BY <2>5, OutIs DEF Become
    <3>2. Map!Values(k) = {}
      BY <2>1, <2>5, ValuesAre
    <3>3. Bag' = Bag
      BY <3>1, BagIs, BagNext
    <3>4. (IF call.op = "next" THEN Keep ELSE call)' = Map!Reply("take", k, Map!Absent)
      BY <3>1, ReplyIs DEF Map!Absent, Absent
    <3>5. Map!Take(k)
      BY <3>2, <3>3, <3>4 DEF Map!Take
    <3>6. Reply("take", k, Absent).ret \in Answers
      BY DEF Reply, Answers
    <3>7. Rest'
      BY <2>1, <2>5, <3>6, OutIs, Returned
    <3> QED BY <2>1, <3>5, <3>7 DEF Map!Next
  <2> QED BY <2>2, <2>3, <2>4, <2>5
<1> QED BY <1>1, <1>2
-----------------------------------------------------------------------------
(* The two cursors of a scan never part: HTable_GetNext begins with both at*)
(* the home slot and looks at the slots between them, which are none.      *)
Met == scan \in [first : Int, last : Int] /\ scan.first = scan.last

LEMMA NextMaps ==
  ASSUME WInv, Met, NEW k \in Keys, NEW type, HTable_GetNext(k, type)
  PROVE  Rest' /\ Map!Keep /\ Met'
<1>1. CASE ~Valid(k)
  <2>1. scan' = scan /\ Refuse("EINVAL")
    BY <1>1 DEF HTable_GetNext, Checked, Refuse, Become
  <2> QED BY <2>1, RefuseMaps DEF Met
<1>2. CASE Valid(k)
  <2> DEFINE h == HFunction(ht.n, k)
             c == IF type = "FIRST" THEN [first |-> h, last |-> h] ELSE scan
             upper == IF c.first > c.last THEN Stops(k, c.first .. ht.n - 1) ELSE {}
             low == IF c.first > c.last THEN 0 ELSE c.first
             lower == Stops(k, low .. c.last - 1)
             S == IF upper # {} THEN upper ELSE lower
             hit == S # {} /\ ht.slots[Soonest(S)].key = k
  <2>1. k \in Key /\ ht # NoTable /\ Packed(ht.n, ht.size, ht.slots) /\ Held(ht)
    BY <1>2, ValidKey DEF WInv, Held
  <2>2. h \in Int
    <3>1. h \in 0 .. ht.n - 1 /\ ht.n \in Nat
      BY <2>1, HashInTable DEF Packed
    <3> QED BY <3>1
  <2>3. c \in [first : Int, last : Int] /\ c.first = c.last
    BY <2>2 DEF Met
  <2>4. call' = Reply("next", k, IF hit THEN ht.slots[Soonest(S)].val ELSE Absent)
        /\ err' = "ok" /\ ht' = ht
        /\ scan' = [c EXCEPT !.first = IF hit THEN Soonest(S) + 1
                                       ELSE IF upper # {} THEN c.first ELSE low]
    BY <1>2 DEF HTable_GetNext, Checked
  <2> HIDE DEF c
  <2>5. upper = {} /\ low = c.first /\ S = {}
    <3>1. ~(c.first > c.last) /\ c.first .. c.last - 1 = {}
      BY <2>3
    <3> QED BY <3>1 DEF Stops
  <2>6. ~hit
    BY <2>5
  <2>7. call' = Reply("next", k, Absent) /\ scan' = [c EXCEPT !.first = c.first]
    <3> HIDE DEF hit, S, upper, low
    <3> QED BY <2>4, <2>5, <2>6
  <2>8. call'.op = "next" /\ call'.ret = Absent
    BY <2>7 DEF Reply
  <2>9. Met'
    <3>1. scan' = c
      BY <2>3, <2>7
    <3> QED BY <2>3, <3>1 DEF Met
  <2>10. Map!Keep
    BY <2>4, <2>8, KeepMaps
  <2>11. Rest'
    BY <2>1, <2>4, <2>8 DEF Rest, Held, Packed, NoTable, Answers
  <2> QED BY <2>9, <2>10, <2>11
<1> QED BY <1>1, <1>2

LEMMA FramesMap ==
  ASSUME WInv, OpenFrame \/ CloseFrame
  PROVE  Rest' /\ [Map!Next]_Map!mvars
<1>1. CASE ht' = ht /\ call' = call
  <2>1. err' = "ok"
    BY DEF OpenFrame, CloseFrame
  <2>2. Bag' = Bag
    BY <1>1, BagIs, BagNext
  <2>3. UNCHANGED Map!mvars
    BY <1>1, <2>2 DEF Map!mvars, Keep, Reply, Absent
  <2> QED BY <1>1, <2>1, <2>3 DEF WInv, Rest, Held, Packed, NoTable
<1>2. CASE ht' = NoTable /\ call' = Reply("clear", 0, Absent)
  <2>1. err' = "ok"
    BY DEF OpenFrame, CloseFrame
  <2>2. Map!Clear
    BY <1>2, NoTableIs, ClearMaps
  <2> QED BY <1>2, <2>1, <2>2, NoTableIs, ClearReply DEF Rest, Held, Packed, NoTable, Map!Next
<1>3. \/ ht' = ht /\ call' = call
      \/ ht' = NoTable /\ call' = Reply("clear", 0, Absent)
  BY DEF OpenFrame, CloseFrame
<1> QED BY <1>1, <1>2, <1>3

(* Every step keeps the table whole and is a step of the abstract map.     *)
AllInv == WInv /\ Met

LEMMA InitAll == Init => AllInv /\ Map!Init
<1> SUFFICES ASSUME Init PROVE AllInv /\ Map!Init
  OBVIOUS
<1>1. ht = NoTable /\ err = "ok" /\ call = Keep /\ scan = [first |-> 0, last |-> 0]
  BY DEF Init
<1>2. AllInv
  BY <1>1, InitIInv, NoTableIs, KeepIs DEF AllInv, WInv, Met
<1>3. Bag = Map!Empty
  BY <1>1, BagIs, NoTableIs
<1>4. (IF call.op = "next" THEN Keep ELSE call) = Map!Reply("keep", 0, Map!Absent)
  BY <1>1, KeepIs
<1> QED BY <1>2, <1>3, <1>4 DEF Map!Init

LEMMA ScanStays ==
  ASSUME Met, [Next]_vars, ~ \E k \in Keys, type \in {"FIRST", "NEXT"} : HTable_GetNext(k, type)
  PROVE  Met'
<1>1. scan' = scan
  BY DEF Next, vars, HTable_Reset, HTable_Destroy, OpenFrame, CloseFrame, HTable_Create,
         HTable_Resize, HTable_Delete, HTable_Search, HTable_Insert, HTable_SearchAndDelete,
         Checked, Refuse, Become
<1> QED BY <1>1 DEF Met

LEMMA StepAll == AllInv /\ [Next]_vars => AllInv' /\ [Map!Next]_Map!mvars
<1> SUFFICES ASSUME AllInv, [Next]_vars PROVE AllInv' /\ [Map!Next]_Map!mvars
  OBVIOUS
<1>1. IInv'
  BY StepIInv DEF AllInv, WInv
<1>2. ASSUME Rest', Met' PROVE AllInv'
  BY <1>1, <1>2 DEF AllInv, WInv, Rest
<1>3. WInv /\ Met
  BY DEF AllInv
<1>4. ASSUME NEW k \in Keys, NEW type \in {"FIRST", "NEXT"}, HTable_GetNext(k, type)
      PROVE  AllInv' /\ [Map!Next]_Map!mvars
  BY <1>2, <1>3, <1>4, NextMaps DEF Map!Next
<1>5. CASE ~ \E k \in Keys, type \in {"FIRST", "NEXT"} : HTable_GetNext(k, type)
  <2>1. Met'
    BY <1>3, <1>5, ScanStays
  <2> SUFFICES Rest' /\ [Map!Next]_Map!mvars
    BY <1>2, <2>1
  <2>2. CASE HTable_Reset \/ HTable_Destroy
    BY <1>3, <2>2, ResetMaps, DestroyMaps DEF Map!Next
  <2>3. CASE OpenFrame \/ CloseFrame
    BY <1>3, <2>3, FramesMap
  <2>4. ASSUME NEW n \in Capacities, HTable_Create(n) \/ HTable_Resize(n)
        PROVE  Rest' /\ [Map!Next]_Map!mvars
    BY <1>3, <2>4, CreateMaps, ResizeMaps DEF Map!Next
  <2>5. ASSUME NEW k \in Keys, NEW v \in Val, HTable_Insert(k, v)
        PROVE  Rest' /\ [Map!Next]_Map!mvars
    BY <1>3, <2>5, InsertMaps
  <2>6. ASSUME NEW k \in Keys, HTable_Delete(k) \/ HTable_Search(k)
        PROVE  Rest' /\ [Map!Next]_Map!mvars
    BY <1>3, <2>6, DeleteMaps, SearchMaps
  <2>7. ASSUME NEW k \in Keys, NEW throws \in BOOLEAN, HTable_SearchAndDelete(k, throws)
        PROVE  Rest' /\ [Map!Next]_Map!mvars
    BY <1>3, <2>7, TakeMaps
  <2>8. CASE UNCHANGED vars
    <3>1. ht' = ht /\ err' = err /\ call' = call
      BY <2>8 DEF vars
    <3>2. Bag' = Bag
      BY <3>1, BagIs, BagNext
    <3>3. UNCHANGED Map!mvars
      BY <3>1, <3>2 DEF Map!mvars, Keep, Reply, Absent
    <3>4. Rest'
      BY <1>3, <3>1 DEF WInv, Rest, Held, Packed, NoTable
    <3> QED BY <3>3, <3>4
  <2> QED BY <1>5, <2>2, <2>3, <2>4, <2>5, <2>6, <2>7, <2>8 DEF Next
<1> QED BY <1>4, <1>5

(* Between calls the slots of the table, its count and its blocks agree.   *)
THEOREM SpecInv == Spec => []AllInv
<1> QED BY InitAll, StepAll, PTL DEF Spec

(* htsize counts the pairs, so that growth comes before the table is full, *)
(* for all keys, hashes, capacities and failures; and all state is typed.  *)
THEOREM SlotsTheorem == Spec => []SlotsCounted
<1>1. ASSUME AllInv PROVE SlotsCounted
  <2>1. IInv /\ Held(ht) /\ err # "ENOSPC" /\ call.ret \in Val \cup {Absent}
    BY <1>1 DEF AllInv, WInv, Answers
  <2>2. blocks \in [Frame -> 0 .. 3] /\ depth \in Frame
    <3>1. \A f \in Frame : blocks[f] \in 0 .. 3
      BY <2>1 DEF IInv, BlocksAccounted
    <3> QED BY <2>1, <3>1 DEF IInv, Shape
  <2>3. ASSUME ht # NoTable
        PROVE  /\ ht.n \in 1 .. IntMax /\ ht.size \in 0 .. ht.n
               /\ ht.slots \in [0 .. ht.n - 1 -> Slot]
               /\ ht.size = Cardinality(Live(ht.slots))
    <3>1. /\ ht.n \in Nat \ {0} /\ ht.n \in Nat /\ ht.n <= IntMax
          /\ ht.slots \in [0 .. ht.n - 1 -> Slot] /\ ht.size = Cardinality(Live(ht.slots))
      BY <2>1, <2>3 DEF Held, Packed
    <3>2. Cardinality(Live(ht.slots)) \in 0 .. ht.n
      BY <3>1, SlotsFinite
    <3> QED BY <3>1, <3>2, KeyFacts
  <2>4. ht # NoTable => ht.home \in 0 .. depth /\ ht.ahome \in 0 .. depth
    BY <2>1 DEF IInv, Shape, BlocksAccounted
  <2> QED BY <2>1, <2>2, <2>3, <2>4 DEF SlotsCounted, TypeOK, SizeExact, NeverFull
<1> QED BY <1>1, SpecInv, PTL

(* No empty slot comes between the home slot of a key and a pair of it,    *)
(* after any history of insertions, removals and rehashes.                 *)
THEOREM ReachTheorem == Spec => []PairsReachable
<1>1. ASSUME AllInv PROVE PairsReachable
  BY <1>1 DEF AllInv, WInv, Held, Packed, PairsReachable, Reached
<1> QED BY <1>1, SpecInv, PTL

(* The table of src/src/htable.c is the bag of pairs of MultiMap: a search *)
(* returns a value that the key has and none only when it has none, and    *)
(* resizes and failures change no pair.                                    *)
THEOREM MapTheorem == Spec => MapSpec
<1> QED BY InitAll, StepAll, SpecInv, PTL DEF Spec, MapSpec, Map!Spec
=============================================================================
