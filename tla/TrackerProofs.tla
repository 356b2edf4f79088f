--------------------------- MODULE TrackerProofs ----------------------------
(***************************************************************************)
(* What the operators of TrackerOps do to a tracker, for every set of      *)
(* addresses and every word size: the lemmas on which the proofs about     *)
(* AllocTracker and about Mcore rest.                                      *)
(*                                                                         *)
(*   Sound     what a tracker looks like between two steps. Every operator *)
(*             that a program calls maps a sound tracker to sound outcomes,*)
(*             and a call that fails leaves what it was given.             *)
(*   Home      the frame a block is recorded in, which no operator changes.*)
(*   Exact     the statistics are sums over the log. Total is their sum as a*)
(*             function of the log, and what an append, a replacement, a pop*)
(*             and a removal do to it is proved by induction on the log.   *)
(*   Frees     what gk_free of one, two and three pointers does.           *)
(***************************************************************************)
EXTENDS TrackerOps, SequenceTheorems, WellFoundedInduction, TLAPS

(* RecordsOwnBlocks and FramesAnchored of a log and a set of live blocks.  *)
Owns(mops, live) ==
  /\ \A i \in HeapRecords(mops) : mops[i].ptr \in live
  /\ \A i, j \in HeapRecords(mops) : mops[i].ptr = mops[j].ptr => i = j

Anchored(on, mops) ==
  IF on THEN mops # <<>> /\ mops[1].type = "MARK" ELSE mops = <<>>

Sound(t) ==
  /\ t \in Tracker
  /\ Len(t.mops) <= t.nmops
  /\ Anchored(t.on, t.mops)
  /\ Owns(t.mops, t.live)

SoundOutcome(o) == Sound(o.t) /\ o.ptr \in Ptr \cup {NULL} /\ o.err \in Errno
-----------------------------------------------------------------------------
(* The logs that the operations build.                                     *)

(* A new block can be recorded at the end.                                 *)
LEMMA AppendHeapOwns ==
  ASSUME NEW mops \in Seq(Mop), NEW live \in SUBSET Ptr, Owns(mops, live),
         NEW p \in Ptr \ live, NEW n \in Size
  PROVE  /\ Append(mops, Heap(n, p)) \in Seq(Mop)
         /\ Owns(Append(mops, Heap(n, p)), live \cup {p})
<1> DEFINE new == Append(mops, Heap(n, p))
<1>1. Heap(n, p) \in Mop
  BY DEF Heap, Mop
<1>2. new \in Seq(Mop) /\ Len(new) = Len(mops) + 1
  BY <1>1
<1>3. ASSUME NEW i \in HeapRecords(new)
      PROVE  \/ i \in HeapRecords(mops) /\ new[i] = mops[i]
             \/ i = Len(mops) + 1 /\ new[i].ptr = p
  BY <1>1, <1>2 DEF HeapRecords, Heap
<1> HIDE DEF new
<1>4. \A i \in HeapRecords(new) : new[i].ptr \in live \cup {p}
  BY <1>3 DEF Owns
<1>5. \A i, j \in HeapRecords(new) : new[i].ptr = new[j].ptr => i = j
  BY <1>3 DEF Owns
<1>6. Owns(new, live \cup {p})
  BY <1>4, <1>5 DEF Owns
<1> QED BY <1>2, <1>6 DEF new

(* A mark owns nothing.                                                    *)
LEMMA AppendMarkOwns ==
  ASSUME NEW mops \in Seq(Mop), NEW live, Owns(mops, live), SizeMax \in Nat
  PROVE  /\ Append(mops, Mark) \in Seq(Mop)
         /\ Owns(Append(mops, Mark), live)
<1> DEFINE new == Append(mops, Mark)
<1>1. Mark \in Mop
  BY DEF Mark, Mop, Size
<1>2. new \in Seq(Mop) /\ Len(new) = Len(mops) + 1
  BY <1>1
<1>3. ASSUME NEW i \in HeapRecords(new)
      PROVE  i \in HeapRecords(mops) /\ new[i] = mops[i]
  BY <1>1, <1>2 DEF HeapRecords, Mark
<1> QED BY <1>2, <1>3 DEF Owns

(* A recorded block may be resized in place or moved to a free address.    *)
LEMMA ReplaceOwns ==
  ASSUME NEW mops \in Seq(Mop), NEW live \in SUBSET Ptr, Owns(mops, live),
         NEW old \in Ptr, NEW i \in FindAny(mops, old),
         NEW p \in (Ptr \ live) \cup {old}, NEW n \in Size
  PROVE  /\ [mops EXCEPT ![i] = Heap(n, p)] \in Seq(Mop)
         /\ Owns([mops EXCEPT ![i] = Heap(n, p)], (live \ {old}) \cup {p})
<1> DEFINE new == [mops EXCEPT ![i] = Heap(n, p)]
<1>1. Heap(n, p) \in Mop
  BY DEF Heap, Mop
<1>2. i \in DOMAIN mops /\ i \in HeapRecords(mops) /\ mops[i].ptr = old
  BY DEF FindAny, HeapRecords
<1>3. new \in Seq(Mop) /\ Len(new) = Len(mops) /\ DOMAIN new = DOMAIN mops
  BY <1>1, <1>2
<1>4. new[i].ptr = p
  BY <1>2 DEF Heap
<1>5. ASSUME NEW j \in HeapRecords(new), j # i
      PROVE  j \in HeapRecords(mops) /\ new[j] = mops[j]
  BY <1>3, <1>5 DEF HeapRecords
<1>6. ASSUME NEW j \in HeapRecords(new), j # i
      PROVE  new[j].ptr \in live \ {old}
  BY <1>2, <1>5, <1>6 DEF Owns
<1>7. \A j \in HeapRecords(new) : new[j].ptr \in (live \ {old}) \cup {p}
  BY <1>4, <1>6
<1>8. ASSUME NEW j \in HeapRecords(new), NEW k \in HeapRecords(new),
             new[j].ptr = new[k].ptr
      PROVE  j = k
  BY <1>4, <1>5, <1>6, <1>8 DEF Owns
<1> QED BY <1>3, <1>7, <1>8 DEF Owns

(* The last record fills the slot of a freed one.                          *)
LEMMA SwapOutOwns ==
  ASSUME NEW mops \in Seq(Mop), NEW live \in SUBSET Ptr, Owns(mops, live),
         NEW p \in Ptr, NEW i \in FindAny(mops, p), NEW new,
         new = SubSeq([mops EXCEPT ![i] = mops[Len(mops)]], 1, Len(mops) - 1)
  PROVE  /\ new \in Seq(Mop) /\ Len(new) = Len(mops) - 1
         /\ Owns(new, live \ {p})
<1>1. i \in 1 .. Len(mops) /\ i \in HeapRecords(mops) /\ mops[i].ptr = p
  BY DEF FindAny, HeapRecords
<1>2. Len(mops) \in Nat /\ mops[Len(mops)] \in Mop
  BY <1>1
<1>3. [mops EXCEPT ![i] = mops[Len(mops)]] \in Seq(Mop)
  BY <1>1, <1>2
<1>4. new \in Seq(Mop) /\ Len(new) = Len(mops) - 1
  <2> DEFINE swapped == [mops EXCEPT ![i] = mops[Len(mops)]]
  <2>1. Len(swapped) = Len(mops)
    BY <1>1, <1>2
  <2> HIDE DEF swapped
  <2>2. swapped \in Seq(Mop) /\ new = SubSeq(swapped, 1, Len(mops) - 1)
    BY <1>3 DEF swapped
  <2> QED BY <1>1, <1>2, <2>1, <2>2
<1>5. \A j \in 1 .. Len(new) :
        new[j] = IF j = i THEN mops[Len(mops)] ELSE mops[j]
  BY <1>1, <1>2, <1>3, <1>4
<1> DEFINE from(j) == IF j = i THEN Len(mops) ELSE j
<1>6. ASSUME NEW j \in HeapRecords(new)
      PROVE  from(j) \in HeapRecords(mops) /\ new[j] = mops[from(j)] /\ from(j) # i
  BY <1>1, <1>2, <1>4, <1>5 DEF HeapRecords
<1>7. \A j \in HeapRecords(new) : new[j].ptr \in live \ {p}
  BY <1>1, <1>6 DEF Owns
<1>8. ASSUME NEW j \in HeapRecords(new), NEW k \in HeapRecords(new),
             new[j].ptr = new[k].ptr
      PROVE  j = k
  <2>1. from(j) = from(k)
    BY <1>6, <1>8 DEF Owns
  <2>2. j \in 1 .. Len(mops) - 1 /\ k \in 1 .. Len(mops) - 1
    BY <1>4 DEF HeapRecords
  <2> QED BY <1>2, <2>1, <2>2
<1> QED BY <1>4, <1>7, <1>8 DEF Owns

(* The last record is popped: its block dies with it.                      *)
LEMMA PopOwns ==
  ASSUME NEW mops \in Seq(Mop), mops # <<>>, NEW live \in SUBSET Ptr,
         Owns(mops, live), NEW new, new = SubSeq(mops, 1, Len(mops) - 1)
  PROVE  /\ new \in Seq(Mop) /\ Len(new) = Len(mops) - 1
         /\ Owns(new, live)
         /\ mops[Len(mops)].type = "HEAP" =>
              Owns(new, live \ {mops[Len(mops)].ptr})
<1>1. Len(mops) \in Nat /\ Len(mops) >= 1 /\ DOMAIN mops = 1 .. Len(mops)
  BY EmptySeq, LenProperties
<1>2. /\ new \in Seq(Mop) /\ Len(new) = Len(mops) - 1
      /\ \A j \in 1 .. Len(mops) - 1 : new[j] = mops[j]
  BY <1>1, SubSeqProperties
<1>3. ASSUME NEW j \in HeapRecords(new)
      PROVE  j \in HeapRecords(mops) /\ new[j] = mops[j] /\ j # Len(mops)
  BY <1>1, <1>2 DEF HeapRecords
<1>4. Owns(new, live)
  <2>1. \A j \in HeapRecords(new) : new[j].ptr \in live
    BY <1>3 DEF Owns
  <2>2. \A j, k \in HeapRecords(new) : new[j].ptr = new[k].ptr => j = k
    BY <1>3 DEF Owns
  <2> QED BY <2>1, <2>2 DEF Owns
<1>5. ASSUME mops[Len(mops)].type = "HEAP"
      PROVE  Owns(new, live \ {mops[Len(mops)].ptr})
  <2>1. Len(mops) \in HeapRecords(mops)
    BY <1>1, <1>5 DEF HeapRecords
  <2>2. \A j \in HeapRecords(new) : new[j].ptr \in live \ {mops[Len(mops)].ptr}
    BY <1>3, <2>1 DEF Owns
  <2> QED BY <1>4, <2>2 DEF Owns
<1> QED BY <1>2, <1>4, <1>5
-----------------------------------------------------------------------------
(* The operators of TrackerOps.                                            *)

LEMMA WordIsNat == SizeMax \in Nat /\ 1 <= SizeMax
  BY WordSizes

LEMMA BytesIsSize == ASSUME NEW n \in Size PROVE Bytes(n) \in Size
  BY WordSizes DEF Bytes, Size

LEMMA WordAddIsSize ==
  ASSUME NEW a \in Size, NEW b \in Size PROVE WordAdd(a, b) \in Size
  BY WordIsNat DEF WordAdd, Size

LEMMA WordSubIsSize ==
  ASSUME NEW a \in Size, NEW b \in Size PROVE WordSub(a, b) \in Size
  BY WordSizes DEF WordSub, Size

(* A reservation changes the capacity only, and on success leaves a slot.  *)
LEMMA EnsureCapacityOutcome ==
  ASSUME NEW t \in Tracker, Len(t.mops) <= t.nmops, NEW o \in EnsureCapacity(t)
  PROVE  /\ o.t \in Tracker /\ o.ptr = NULL /\ o.err \in Errno
         /\ o.t = [t EXCEPT !.nmops = o.t.nmops]
         /\ Len(o.t.mops) <= o.t.nmops
         /\ o.err = "ok" => Len(o.t.mops) < o.t.nmops
<1> DEFINE grown == IF t.nmops = 0 THEN InitMops ELSE t.nmops + t.nmops
<1> DEFINE larger == [t EXCEPT !.nmops = grown]
<1>1. t.nmops \in Size /\ Len(t.mops) \in Nat
  BY DEF Tracker
<1>2. CASE o = Ok(t, NULL) /\ Len(t.mops) < t.nmops
  BY <1>2 DEF Ok, Errno, Tracker
<1>3. CASE \E e \in {"EOVERFLOW", "ENOMEM"} : o = Failed(t, e)
  BY <1>3 DEF Failed, Errno, Tracker
<1>4. CASE /\ o = Ok(larger, NULL) /\ Fits(t.nmops, t.nmops)
  <2>1. grown \in Size /\ t.nmops <= grown /\ (Len(t.mops) <= t.nmops => Len(t.mops) < grown)
    BY <1>1, <1>4, WordSizes DEF Fits, Size
  <2> HIDE DEF grown
  <2>2. /\ larger \in Tracker /\ larger.nmops = grown
        /\ larger.mops = t.mops
        /\ larger = [t EXCEPT !.nmops = larger.nmops]
    BY <2>1 DEF Tracker
  <2>3. o.t = larger /\ o.ptr = NULL /\ o.err = "ok"
    BY <1>4 DEF Ok
  <2> HIDE DEF larger
  <2>4. o.err \in Errno
    BY <2>3 DEF Errno
  <2>5. o.t = [t EXCEPT !.nmops = o.t.nmops]
    BY <2>2, <2>3
  <2>6. Len(o.t.mops) <= o.t.nmops /\ Len(o.t.mops) < o.t.nmops
    BY <1>1, <2>1, <2>2, <2>3, WordIsNat DEF Size
  <2> QED BY <2>2, <2>3, <2>4, <2>5, <2>6
<1> QED BY <1>1, <1>2, <1>3, <1>4 DEF EnsureCapacity

(* A reservation keeps a tracker sound.                                    *)
LEMMA EnsureCapacitySound ==
  ASSUME NEW t, Sound(t), NEW o \in EnsureCapacity(t)
  PROVE  /\ Sound(o.t) /\ o.ptr \in Ptr \cup {NULL} /\ o.err \in Errno
         /\ o.t.on = t.on
         /\ o.t = [t EXCEPT !.nmops = o.t.nmops]
         /\ o.err = "ok" => Len(o.t.mops) < o.t.nmops
<1>1. /\ o.t \in Tracker /\ o.ptr = NULL /\ o.err \in Errno
      /\ o.t = [t EXCEPT !.nmops = o.t.nmops]
      /\ Len(o.t.mops) <= o.t.nmops
      /\ o.err = "ok" => Len(o.t.mops) < o.t.nmops
  BY EnsureCapacityOutcome DEF Sound
<1>2. o.t.mops = t.mops /\ o.t.on = t.on /\ o.t.live = t.live
  BY <1>1 DEF Sound, Tracker
<1> QED BY <1>1, <1>2 DEF Sound

(* A live block, at a fresh address, is recorded in a reserved slot.       *)
LEMMA AddHeapSound ==
  ASSUME NEW t, Sound(t), t.on, Len(t.mops) < t.nmops,
         NEW p \in Ptr \ t.live, NEW n \in Size, CanAdd(t, n),
         NEW u, u = AddHeap([t EXCEPT !.live = @ \cup {p}], n, p)
  PROVE  Sound(u) /\ u.on
<1>1. /\ t \in Tracker /\ t.mops \in Seq(Mop) /\ t.live \in SUBSET Ptr
      /\ t.nmops \in Size /\ t.num \in Size /\ t.size \in Size
      /\ t.cur \in Size /\ t.max \in Size /\ Len(t.mops) \in Nat
  BY DEF Sound, Tracker
<1>2. t.num + 1 \in Size /\ t.size + n \in Size /\ t.cur + n \in Size
  <2>1. t.num < SizeMax /\ t.size <= SizeMax - n /\ t.cur <= SizeMax - n
    BY DEF CanAdd, Fits
  <2>2. t.num \in Nat /\ t.size \in Nat /\ t.cur \in Nat /\ n \in Nat
    BY <1>1 DEF Size
  <2> QED BY ONLY <2>1, <2>2, WordIsNat DEF Size
<1>3. /\ Append(t.mops, Heap(n, p)) \in Seq(Mop)
      /\ Owns(Append(t.mops, Heap(n, p)), t.live \cup {p})
  BY <1>1, AppendHeapOwns DEF Sound
<1> DEFINE max == IF t.max < t.cur + n THEN t.cur + n ELSE t.max
<1>4. max \in Size
  BY <1>1, <1>2
<1>5. /\ u \in Tracker /\ u.mops = Append(t.mops, Heap(n, p))
      /\ u.live = t.live \cup {p} /\ u.on /\ u.nmops = t.nmops
  <2> DEFINE s == [t EXCEPT !.live = t.live \cup {p}]
  <2>1. /\ s \in Tracker /\ s.live = t.live \cup {p} /\ s.mops = t.mops
        /\ s.num = t.num /\ s.size = t.size /\ s.cur = t.cur /\ s.max = t.max
        /\ s.nmops = t.nmops /\ s.on = t.on
    BY <1>1 DEF Tracker
  <2> HIDE DEF s
  <2>2. u = [s EXCEPT !.mops = Append(t.mops, Heap(n, p)), !.num = t.num + 1,
                      !.size = t.size + n, !.cur = t.cur + n, !.max = max]
    BY <1>1, <2>1 DEF AddHeap, s
  <2> HIDE DEF max
  <2> QED BY <1>1, <1>2, <1>3, <1>4, <2>1, <2>2 DEF Tracker
<1>6. Len(u.mops) <= u.nmops
  <2>1. Heap(n, p) \in Mop
    BY DEF Heap, Mop
  <2>2. Len(u.mops) = Len(t.mops) + 1
    BY <1>1, <1>5, <2>1
  <2> QED BY <1>1, <1>5, <2>2 DEF Size
<1>7. Anchored(u.on, u.mops)
  <2>1. Heap(n, p) \in Mop /\ t.mops # <<>> /\ t.mops[1].type = "MARK"
    BY DEF Heap, Mop, Sound, Anchored
  <2>2. Len(t.mops) >= 1
    BY <1>1, <2>1, EmptySeq
  <2>3. u.mops # <<>> /\ u.mops[1] = t.mops[1]
    <3>1. /\ Append(t.mops, Heap(n, p)) # <<>>
          /\ \A i \in 1 .. Len(t.mops) : Append(t.mops, Heap(n, p))[i] = t.mops[i]
      BY <1>1, <2>1, AppendProperties
    <3>2. 1 \in 1 .. Len(t.mops)
      BY <1>1, <2>2
    <3>3. u.mops = Append(t.mops, Heap(n, p))
      BY <1>5
    <3> QED BY <3>1, <3>2, <3>3
  <2> QED BY <1>5, <2>1, <2>3 DEF Anchored
<1> QED BY <1>3, <1>5, <1>6, <1>7 DEF Sound

(* A mark is recorded in a reserved slot.                                  *)
LEMMA AddMarkSound ==
  ASSUME NEW t \in Tracker, t.on, Len(t.mops) < t.nmops,
         Owns(t.mops, t.live), t.mops = <<>> \/ Anchored(t.on, t.mops)
  PROVE  Sound(AddMark(t)) /\ AddMark(t).on
<1> DEFINE new == Append(t.mops, Mark)
<1>1. t.mops \in Seq(Mop) /\ Len(t.mops) \in Nat /\ t.nmops \in Nat
  BY WordIsNat DEF Tracker, Size
<1>2. Mark \in Mop
  BY WordIsNat DEF Mark, Mop, Size
<1>3. new \in Seq(Mop) /\ Owns(new, t.live)
  BY <1>1, WordIsNat, AppendMarkOwns
<1>4. /\ Len(new) = Len(t.mops) + 1 /\ new # <<>>
      /\ new[1] = IF t.mops = <<>> THEN Mark ELSE t.mops[1]
  <2>1. /\ Len(new) = Len(t.mops) + 1 /\ new # <<>>
        /\ \A i \in 1 .. Len(t.mops) : new[i] = t.mops[i]
        /\ new[Len(t.mops) + 1] = Mark
    BY <1>1, <1>2, AppendProperties
  <2>2. t.mops # <<>> => Len(t.mops) >= 1
    BY <1>1, EmptySeq
  <2> QED BY <1>1, <2>1, <2>2
<1> HIDE DEF new
<1>5. /\ AddMark(t) \in Tracker /\ AddMark(t).mops = new /\ AddMark(t).on
      /\ AddMark(t).live = t.live /\ AddMark(t).nmops = t.nmops
  BY <1>3 DEF AddMark, Tracker, new
<1>6. new[1].type = "MARK"
  BY <1>4 DEF Anchored, Mark
<1> QED BY <1>1, <1>3, <1>4, <1>5, <1>6 DEF Sound, Anchored

(* Only the set of live blocks of a tracker changes, in a way that its     *)
(* records do not notice.                                                  *)
LEMMA LiveSound ==
  ASSUME NEW t, Sound(t), NEW live \in SUBSET Ptr, Owns(t.mops, live)
  PROVE  /\ Sound([t EXCEPT !.live = live])
         /\ [t EXCEPT !.live = live].on = t.on
<1>1. t \in Tracker
  BY DEF Sound
<1> DEFINE u == [t EXCEPT !.live = live]
<1>2. /\ u \in Tracker /\ u.live = live /\ u.mops = t.mops
      /\ u.nmops = t.nmops /\ u.on = t.on
  BY <1>1 DEF Tracker
<1> QED BY <1>2 DEF Sound

(* malloc itself, with or without a tracker, leaves every record alone.    *)
LEMMA RawMallocSound ==
  ASSUME NEW t, Sound(t), NEW o \in RawMalloc(t)
  PROVE  /\ SoundOutcome(o) /\ o.t.on = t.on
         /\ o.err = "ok" =>
              o.ptr \in Ptr \ t.live /\ o.t = [t EXCEPT !.live = t.live \cup {o.ptr}]
<1>1. CASE o = Failed(t, "ENOMEM")
  BY <1>1 DEF Failed, SoundOutcome, Errno
<1>2. ASSUME NEW p \in Ptr \ t.live, o = Ok([t EXCEPT !.live = t.live \cup {p}], p)
      PROVE  /\ SoundOutcome(o) /\ o.t.on = t.on /\ o.ptr = p
             /\ o.t = [t EXCEPT !.live = t.live \cup {p}]
  <2>1. t.live \cup {p} \in SUBSET Ptr /\ Owns(t.mops, t.live \cup {p})
    BY DEF Sound, Tracker, Owns
  <2>2. o.t = [t EXCEPT !.live = t.live \cup {p}] /\ o.ptr = p /\ o.err = "ok"
    BY <1>2 DEF Ok
  <2> QED BY <2>1, <2>2, LiveSound DEF SoundOutcome, Errno
<1> QED BY <1>1, <1>2 DEF RawMalloc

(* realloc of a block that no record names.                                *)
LEMMA RawReallocSound ==
  ASSUME NEW t, Sound(t), NEW old \in Ptr \cup {NULL}, FindAny(t.mops, old) = {},
         NEW o \in RawRealloc(t, old)
  PROVE  SoundOutcome(o) /\ o.t.on = t.on
<1>1. CASE old = NULL
  BY <1>1, RawMallocSound DEF RawRealloc
<1>2. CASE o = Failed(t, "ENOMEM")
  BY <1>2 DEF Failed, SoundOutcome, Errno
<1>3. ASSUME NEW p \in (Ptr \ t.live) \cup {old}, old \in Ptr,
             o = Ok([t EXCEPT !.live = (t.live \ {old}) \cup {p}], p)
      PROVE  SoundOutcome(o) /\ o.t.on = t.on
  <2> DEFINE live == (t.live \ {old}) \cup {p}
  <2>1. live \in SUBSET Ptr /\ Owns(t.mops, live)
    BY <1>3 DEF Sound, Tracker, Owns, FindAny, HeapRecords
  <2>2. o.t = [t EXCEPT !.live = live] /\ o.ptr = p /\ o.err = "ok"
    BY <1>3 DEF Ok
  <2> HIDE DEF live
  <2> QED BY ZenonT(60), <1>3, <2>1, <2>2, LiveSound DEF SoundOutcome, Errno
<1> QED BY <1>1, <1>2, <1>3 DEF RawRealloc

(* gk_malloc under a tracker.                                              *)
LEMMA TrackedMallocSound ==
  ASSUME NEW t, Sound(t), t.on, NEW n \in Size, NEW o \in TrackedMalloc(t, n)
  PROVE  SoundOutcome(o) /\ o.t.on
<1>1. CASE o = Failed(t, "EOVERFLOW")
  BY <1>1 DEF Failed, SoundOutcome, Errno
<1>2. ASSUME NEW e \in EnsureCapacity(t), e.err # "ok", o = e
      PROVE  SoundOutcome(o) /\ o.t.on
  BY <1>2, EnsureCapacitySound DEF SoundOutcome
<1>3. ASSUME NEW e \in EnsureCapacity(t), e.err = "ok", CanAdd(t, n),
             NEW r \in RawMalloc(e.t),
             o = IF r.err = "ok" THEN Ok(AddHeap(r.t, n, r.ptr), r.ptr) ELSE r
      PROVE  SoundOutcome(o) /\ o.t.on
  <2>1. /\ Sound(e.t) /\ e.t.on /\ Len(e.t.mops) < e.t.nmops
        /\ e.t = [t EXCEPT !.nmops = e.t.nmops]
    BY <1>3, EnsureCapacitySound
  <2>2. CanAdd(e.t, n)
    <3>1. /\ e.t.num = t.num /\ e.t.size = t.size /\ e.t.cur = t.cur
      BY <2>1 DEF Sound, Tracker
    <3> QED BY <1>3, <3>1 DEF CanAdd
  <2>3. /\ SoundOutcome(r) /\ r.t.on
        /\ r.err = "ok" => /\ r.ptr \in Ptr \ e.t.live
                           /\ r.t = [e.t EXCEPT !.live = @ \cup {r.ptr}]
    BY <1>3, <2>1, RawMallocSound
  <2>4. CASE r.err = "ok"
    <3>1. Sound(AddHeap(r.t, n, r.ptr)) /\ AddHeap(r.t, n, r.ptr).on
      BY <2>1, <2>2, <2>3, <2>4, AddHeapSound
    <3> QED BY <1>3, <2>3, <2>4, <3>1 DEF Ok, SoundOutcome, Errno
  <2> QED BY <1>3, <2>3, <2>4
<1> QED BY <1>1, <1>2, <1>3 DEF TrackedMalloc, RecordMalloc

(* realloc of a recorded block: its record follows it.                     *)
LEMMA ReallocRecordSound ==
  ASSUME NEW t, Sound(t), NEW old \in Ptr, NEW i \in FindAny(t.mops, old),
         NEW n \in Size, NEW o \in ReallocRecord(t, i, old, n)
  PROVE  SoundOutcome(o) /\ o.t.on = t.on
<1>1. CASE o \in {Failed(t, "EOVERFLOW"), Failed(t, "ENOMEM")}
  BY <1>1 DEF Failed, SoundOutcome, Errno
<1>2. ASSUME NEW p \in (Ptr \ t.live) \cup {old}, CanRealloc(t, i, n),
             NEW s, s = [t EXCEPT !.live = (t.live \ {old}) \cup {p}],
             o = Ok(UpdateRealloc(s, i, n, p), p)
      PROVE  SoundOutcome(o) /\ o.t.on = t.on
  <2> DEFINE live == (t.live \ {old}) \cup {p}
             new == [t.mops EXCEPT ![i] = Heap(n, p)]
             cur == WordAdd(WordSub(t.cur, t.mops[i].nbytes), n)
             max == IF t.max < cur THEN cur ELSE t.max
  <2>1. /\ t \in Tracker /\ t.mops \in Seq(Mop) /\ t.live \in SUBSET Ptr
        /\ t.nmops \in Size /\ t.num \in Size /\ t.size \in Size
        /\ t.cur \in Size /\ t.max \in Size /\ i \in DOMAIN t.mops
        /\ t.mops[i] \in Mop /\ t.mops[i].nbytes \in Size
        /\ t.mops[i].type = "HEAP"
    <3>1. t \in Tracker /\ i \in DOMAIN t.mops /\ t.mops[i].type = "HEAP"
      BY DEF Sound, FindAny
    <3>2. /\ t.mops \in Seq(Mop) /\ t.live \in SUBSET Ptr
          /\ t.nmops \in Size /\ t.num \in Size /\ t.size \in Size
          /\ t.cur \in Size /\ t.max \in Size
      BY <3>1 DEF Tracker
    <3>3. t.mops[i] \in Mop
      BY <3>1, <3>2
    <3> QED BY <3>1, <3>2, <3>3 DEF Mop
  <2>2. /\ new \in Seq(Mop) /\ Owns(new, live) /\ live \in SUBSET Ptr
    BY <2>1, ReplaceOwns DEF Sound
  <2>3. /\ Len(new) = Len(t.mops)
        /\ t.mops # <<>> => new # <<>> /\ (t.mops[1].type = "MARK" => new[1] = t.mops[1])
    BY <2>1
  <2>4. t.num + 1 \in Size /\ t.size + n \in Size
    <3>1. t.num < SizeMax /\ t.size <= SizeMax - n
      BY <1>2 DEF CanRealloc, Fits
    <3> QED BY SMTT(30), <2>1, <3>1, WordIsNat DEF Size
  <2>5. cur \in Size
    BY <2>1, WordSubIsSize, WordAddIsSize
  <2>6. max \in Size
    BY <2>1, <2>5
  <2>7. /\ s \in Tracker /\ s.live = live /\ s.mops = t.mops
        /\ s.num = t.num /\ s.size = t.size /\ s.cur = t.cur /\ s.max = t.max
        /\ s.nmops = t.nmops /\ s.on = t.on
    BY <1>2, <2>1, <2>2 DEF Tracker
  <2> DEFINE u == [s EXCEPT !.mops = new, !.num = t.num + 1, !.size = t.size + n,
                            !.cur = cur, !.max = max]
  <2>8. o.t = u /\ o.ptr = p /\ o.err = "ok"
    BY <1>2, <2>7 DEF UpdateRealloc, Ok
  <2> HIDE DEF live, new, cur, max
  <2>9. /\ u \in Tracker /\ u.mops = new /\ u.live = live
        /\ u.on = t.on /\ u.nmops = t.nmops
    BY <2>2, <2>4, <2>5, <2>6, <2>7 DEF Tracker
  <2> HIDE DEF u
  <2>10. Len(t.mops) <= t.nmops /\ Anchored(t.on, t.mops)
    BY DEF Sound
  <2>11. Anchored(t.on, new)
    BY <2>1, <2>3, <2>10 DEF Anchored
  <2>12. Sound(o.t)
    BY <2>2, <2>3, <2>8, <2>9, <2>10, <2>11 DEF Sound
  <2> QED BY <2>8, <2>9, <2>12 DEF SoundOutcome, Errno
<1>3. CASE ~CanRealloc(t, i, n)
  BY <1>1, <1>3 DEF ReallocRecord
<1>4. CASE CanRealloc(t, i, n)
  <2>1. PICK r \in RawRealloc(t, old) :
          o = IF r.err = "ok" THEN Ok(UpdateRealloc(r.t, i, n, r.ptr), r.ptr) ELSE r
    BY <1>4 DEF ReallocRecord
  <2>2. \/ r = Failed(t, "ENOMEM")
        \/ \E p \in (Ptr \ t.live) \cup {old} :
             r = Ok([t EXCEPT !.live = (t.live \ {old}) \cup {p}], p)
    BY <2>1, NullIsNoAddress DEF RawRealloc
  <2>3. CASE r = Failed(t, "ENOMEM")
    BY <1>1, <2>1, <2>3 DEF Failed
  <2>4. ASSUME NEW p \in (Ptr \ t.live) \cup {old},
               r = Ok([t EXCEPT !.live = (t.live \ {old}) \cup {p}], p)
        PROVE  SoundOutcome(o) /\ o.t.on = t.on
    <3>1. /\ r.err = "ok" /\ r.ptr = p
          /\ r.t = [t EXCEPT !.live = (t.live \ {old}) \cup {p}]
      BY <2>4 DEF Ok
    <3>2. o = Ok(UpdateRealloc(r.t, i, n, p), p)
      BY <2>1, <3>1
    <3> QED BY <1>2, <1>4, <3>1, <3>2
  <2> QED BY <2>2, <2>3, <2>4
<1> QED BY <1>3, <1>4

(* gk_malloc, gk_realloc and gk_realloc_mcore.                             *)
LEMMA MallocSound ==
  ASSUME NEW t, Sound(t), NEW n \in Size, NEW o \in MallocNosignal(t, n)
  PROVE  SoundOutcome(o) /\ o.t.on = t.on
<1>1. CASE t.on
  <2>1. o \in TrackedMalloc(t, Bytes(n)) /\ Bytes(n) \in Size
    BY <1>1, BytesIsSize DEF MallocNosignal
  <2> QED BY <1>1, <2>1, TrackedMallocSound DEF SoundOutcome, Sound, Tracker
<1>2. CASE ~t.on
  BY <1>2, RawMallocSound DEF MallocNosignal
<1> QED BY <1>1, <1>2

LEMMA ReallocSound ==
  ASSUME NEW t, Sound(t), NEW old \in Ptr \cup {NULL}, NEW n \in Size,
         NEW o, o \in ReallocNosignal(t, old, n) \/ o \in ReallocMcore(t, old, n)
  PROVE  SoundOutcome(o) /\ o.t.on = t.on
<1>1. Bytes(n) \in Size
  BY BytesIsSize
<1>2. CASE ~t.on
  <2>1. FindAny(t.mops, old) = {}
    BY <1>2 DEF Sound, Anchored, FindAny
  <2> QED BY <1>2, <2>1, RawReallocSound DEF ReallocNosignal, ReallocMcore
<1>3. CASE t.on /\ old = NULL
  <2>1. o \in TrackedMalloc(t, Bytes(n))
    BY <1>3 DEF ReallocNosignal, ReallocMcore
  <2> QED BY <1>1, <1>3, <2>1, TrackedMallocSound DEF SoundOutcome, Sound, Tracker
<1>4. CASE t.on /\ old \in Ptr
  <2>1. CASE o = Failed(t, "EINVAL")
    BY <2>1 DEF Failed, SoundOutcome, Errno
  <2>2. CASE FindAny(t.mops, old) = {} /\ o \in RawRealloc(t, old)
    BY <2>2, RawReallocSound
  <2>3. ASSUME NEW i \in FindAny(t.mops, old), o \in ReallocRecord(t, i, old, Bytes(n))
        PROVE  SoundOutcome(o) /\ o.t.on = t.on
    BY <1>1, <1>4, <2>3, ReallocRecordSound
  <2> QED
    BY <1>4, <2>1, <2>2, <2>3, NullIsNoAddress
    DEF ReallocNosignal, ReallocMcore, FindQuiet, Last
<1> QED BY <1>2, <1>3, <1>4

(* gk_free of one pointer: a tracked block loses its record first.         *)
LEMMA FreeSound ==
  ASSUME NEW t, Sound(t), NEW p \in Ptr \cup {NULL}, NEW o \in FreeNosignal(t, p)
  PROVE  SoundOutcome(o) /\ o.t.on = t.on
<1>1. CASE o \in {Ok(t, NULL), Failed(t, "EINVAL")}
  BY <1>1 DEF Ok, Failed, SoundOutcome, Errno
<1>2. CASE ~t.on /\ o = Ok(RawFree(t, p), NULL)
  <2>1. t.live \ {p} \in SUBSET Ptr /\ Owns(t.mops, t.live \ {p})
    BY <1>2 DEF Sound, Tracker, Anchored, Owns, HeapRecords
  <2>2. o.t = [t EXCEPT !.live = t.live \ {p}] /\ o.ptr = NULL /\ o.err = "ok"
    BY <1>2 DEF Ok, RawFree
  <2> QED BY <2>1, <2>2, LiveSound DEF SoundOutcome, Errno
<1>3. ASSUME t.on, p \in Ptr, NEW i \in FindAny(t.mops, p),
             o = Ok(RawFree(DropRecord(t, i), p), NULL)
      PROVE  SoundOutcome(o) /\ o.t.on = t.on
  <2> DEFINE new == SubSeq([t.mops EXCEPT ![i] = t.mops[Len(t.mops)]], 1, Len(t.mops) - 1)
             live == t.live \ {p}
             cur == WordSub(t.cur, t.mops[i].nbytes)
  <2>1. /\ t \in Tracker /\ t.mops \in Seq(Mop) /\ t.live \in SUBSET Ptr
        /\ t.nmops \in Size /\ t.cur \in Size /\ Len(t.mops) <= t.nmops
        /\ Owns(t.mops, t.live)
    BY DEF Sound, Tracker
  <2>2. i \in 1 .. Len(t.mops) /\ t.mops[i] \in Mop /\ t.mops[i].type = "HEAP"
    BY <2>1 DEF FindAny
  <2>3. i # 1 /\ t.mops[1].type = "MARK"
    BY <1>3, <2>2 DEF Sound, Anchored
  <2>4. new \in Seq(Mop) /\ Len(new) = Len(t.mops) - 1 /\ Owns(new, live)
    BY <1>3, <2>1, SwapOutOwns
  <2>5. new[1] = t.mops[1] /\ new # <<>>
    <3> DEFINE swapped == [t.mops EXCEPT ![i] = t.mops[Len(t.mops)]]
    <3>1. swapped[1] = t.mops[1] /\ swapped \in Seq(Mop) /\ Len(swapped) = Len(t.mops)
      BY <2>1, <2>2, <2>3
    <3>2. new = SubSeq(swapped, 1, Len(t.mops) - 1) /\ Len(t.mops) - 1 >= 1
      BY <2>1, <2>2, <2>3
    <3> HIDE DEF swapped, new
    <3>3. \A j \in 1 .. Len(t.mops) - 1 : swapped[j] \in Mop
      BY <2>1, <3>1
    <3>4. new[1] = swapped[1]
      <4>1. \A j \in 1 .. Len(t.mops) - 1 - 1 + 1 : new[j] = swapped[1 + j - 1]
        BY <2>1, <3>2, <3>3, SubSeqProperties
      <4> QED BY <2>1, <3>2, <4>1
    <3>5. new # <<>>
      <4>1. new \in Seq(Mop) /\ Len(new) = Len(t.mops) - 1
        BY <2>4
      <4>2. Len(new) # 0
        BY <2>1, <3>2, <4>1
      <4> QED BY <4>1, <4>2, EmptySeq
    <3> QED BY <3>1, <3>4, <3>5
  <2>6. cur \in Size
    BY <2>1, <2>2, WordSubIsSize DEF Mop
  <2> DEFINE u == [t EXCEPT !.cur = cur, !.mops = new, !.live = live]
  <2>7. o.t = u /\ o.ptr = NULL /\ o.err = "ok"
    BY <1>3, <2>1 DEF Ok, RawFree, DropRecord, Tracker
  <2> HIDE DEF new, live, cur
  <2>8. /\ u \in Tracker /\ u.mops = new /\ u.live = live /\ u.on = t.on
        /\ u.nmops = t.nmops
    BY <2>1, <2>4, <2>6 DEF Tracker, live
  <2>9. Len(new) <= t.nmops
    BY <2>1, <2>4, WordIsNat DEF Size
  <2> HIDE DEF u
  <2>10. Anchored(u.on, u.mops)
    BY <1>3, <2>3, <2>5, <2>8 DEF Anchored
  <2> QED BY <2>4, <2>7, <2>8, <2>9, <2>10 DEF Sound, SoundOutcome, Errno
<1> QED
  BY <1>1, <1>2, <1>3 DEF FreeNosignal, FindQuiet, Last

(* The tracker destroyed: the blocks that are live stay live.              *)
LEMMA DestroyedSound ==
  ASSUME NEW t \in Tracker
  PROVE  Sound(Destroyed(t))
<1> DEFINE u == Destroyed(t)
<1>1. 0 \in Size /\ <<>> \in Seq(Mop) /\ Len(<<>>) = 0
  BY WordIsNat, EmptySeq DEF Size
<1>2. /\ u \in Tracker /\ u.mops = <<>> /\ u.on = FALSE /\ u.nmops = 0
  BY <1>1 DEF Destroyed, Tracker
<1> QED BY <1>1, <1>2 DEF Sound, Anchored, Owns, HeapRecords

(* gk_malloc_init: the first frame creates the tracker.                    *)
LEMMA MallocInitSound ==
  ASSUME NEW t, Sound(t), NEW o \in MallocInitOutcomes(t)
  PROVE  SoundOutcome(o)
<1>1. ASSUME NEW s \in Tracker, s.on, Len(s.mops) <= s.nmops, Owns(s.mops, s.live),
             s.mops = <<>> \/ Anchored(s.on, s.mops),
             s.mops = <<>> => 0 < s.nmops, o \in PushMark(s)
      PROVE  SoundOutcome(o)
  <2>1. PICK e \in EnsureCapacity(s) :
          o = IF e.err = "ok" THEN Ok(AddMark(e.t), NULL) ELSE e
    BY <1>1 DEF PushMark
  <2>2. /\ e.t \in Tracker /\ e.ptr = NULL /\ e.err \in Errno
        /\ e.t = [s EXCEPT !.nmops = e.t.nmops]
        /\ Len(e.t.mops) <= e.t.nmops
        /\ e.err = "ok" => Len(e.t.mops) < e.t.nmops
    BY <1>1, <2>1, EnsureCapacityOutcome
  <2>3. e.t.mops = s.mops /\ e.t.on = s.on /\ e.t.live = s.live
    BY <2>2 DEF Tracker
  <2>4. CASE e.err = "ok"
    <3>1. Sound(AddMark(e.t))
      BY <1>1, <2>2, <2>3, <2>4, AddMarkSound
    <3> QED BY <2>1, <2>4, <3>1 DEF Ok, SoundOutcome, Errno
  <2>5. CASE e.err # "ok"
    <3>1. s.mops # <<>>
      <4>1. ASSUME s.mops = <<>> PROVE e.err = "ok"
        BY <1>1, <2>1, <4>1 DEF EnsureCapacity, Ok
      <4> QED BY <2>5, <4>1
    <3> QED BY <1>1, <2>1, <2>2, <2>3, <2>5, <3>1 DEF SoundOutcome, Sound
  <2> QED BY <2>4, <2>5
<1>2. CASE t.on
  BY <1>1, <1>2 DEF MallocInitOutcomes, Sound, Anchored
<1>3. CASE ~t.on
  <2>1. CASE o = Failed(t, "ENOMEM")
    BY <2>1 DEF Failed, SoundOutcome, Errno
  <2>2. CASE o \in PushMark(Fresh(t))
    <3> DEFINE s == Fresh(t)
    <3>1. /\ s \in Tracker /\ s.mops = <<>> /\ s.on = TRUE /\ s.nmops = InitMops
          /\ s.live = t.live
      <4>1. InitMops \in Size /\ 0 \in Size /\ <<>> \in Seq(Mop)
        BY WordSizes, EmptySeq DEF Size
      <4> QED BY <4>1 DEF Fresh, Sound, Tracker
    <3>2. 0 < InitMops /\ Len(s.mops) <= s.nmops
      BY <3>1, WordSizes
    <3>3. Owns(s.mops, s.live)
      BY <3>1 DEF Owns, HeapRecords
    <3> QED BY <1>1, <2>2, <3>1, <3>2, <3>3
  <2> QED BY <1>3, <2>1, <2>2 DEF MallocInitOutcomes
<1> QED BY <1>2, <1>3

(* One step of gk_gkmcorePop, with the destruction that may end it.        *)
LEMMA PopSound ==
  ASSUME NEW t, Sound(t), t.on
  PROVE  /\ Sound(FinishPop(PopRecord(t)))
         /\ ~LoopEnds(t) => Sound(PopRecord(t)) /\ PopRecord(t).on
<1> DEFINE top == t.mops[Len(t.mops)]
           new == SubSeq(t.mops, 1, Len(t.mops) - 1)
           u == PopRecord(t)
<1>1. /\ t \in Tracker /\ t.mops \in Seq(Mop) /\ t.live \in SUBSET Ptr
      /\ t.nmops \in Size /\ t.cur \in Size /\ Len(t.mops) <= t.nmops
      /\ Owns(t.mops, t.live) /\ t.mops # <<>> /\ t.mops[1].type = "MARK"
  BY DEF Sound, Tracker, Anchored
<1>2. Len(t.mops) \in Nat /\ Len(t.mops) >= 1
  BY <1>1, EmptySeq
<1>3. top \in Mop /\ top.nbytes \in Size /\ (top.type = "MARK" \/ top.type = "HEAP")
  <2>1. top \in Mop
    BY <1>1, <1>2
  <2> HIDE DEF top
  <2> QED BY <2>1 DEF Mop
<1>4. /\ new \in Seq(Mop) /\ Len(new) = Len(t.mops) - 1 /\ Owns(new, t.live)
      /\ top.type = "HEAP" => Owns(new, t.live \ {top.ptr})
  BY <1>1, PopOwns
<1>5. /\ u \in Tracker /\ u.mops = new /\ u.on = t.on /\ u.nmops = t.nmops
      /\ u.live = IF top.type = "MARK" THEN t.live ELSE t.live \ {top.ptr}
  <2> DEFINE popped == [t EXCEPT !.mops = new]
             cur == WordSub(t.cur, top.nbytes)
  <2>1. cur \in Size
    BY <1>1, <1>3, WordSubIsSize
  <2>2. u = IF top.type = "MARK" THEN popped
            ELSE [t EXCEPT !.mops = new, !.live = t.live \ {top.ptr}, !.cur = cur]
    BY <1>1 DEF PopRecord, RawFree, Tracker
  <2> HIDE DEF new, top, cur, u
  <2> QED BY <1>1, <1>4, <2>1, <2>2 DEF Tracker
<1>6. Owns(u.mops, u.live)
  BY <1>3, <1>4, <1>5
<1>7. Len(u.mops) <= u.nmops
  BY <1>1, <1>2, <1>4, <1>5, WordIsNat DEF Size
<1>8. ASSUME u.mops # <<>> PROVE Sound(u)
  <2>1. Len(t.mops) - 1 >= 1
    BY <1>2, <1>4, <1>5, <1>8, EmptySeq
  <2>2. u.mops[1] = t.mops[1]
    <3>1. \A j \in 1 .. Len(t.mops) - 1 : new[j] = t.mops[j]
      BY <1>1, <1>2, SubSeqProperties
    <3> QED BY <1>2, <1>5, <2>1, <3>1
  <2>3. Anchored(u.on, u.mops)
    BY <1>1, <1>5, <1>8, <2>2 DEF Anchored
  <2> QED BY <1>5, <1>6, <1>7, <2>3 DEF Sound
<1>9. Sound(FinishPop(u))
  BY <1>5, <1>8, DestroyedSound DEF FinishPop
<1>10. ASSUME ~LoopEnds(t) PROVE Sound(u) /\ u.on
  <2>1. Len(t.mops) # 1
    BY <1>10 DEF LoopEnds
  <2> HIDE DEF new, u, top
  <2>2. Len(new) # 0 /\ new = u.mops
    BY <1>2, <1>4, <1>5, <2>1
  <2> QED BY <1>1, <1>5, <1>8, <2>2, EmptySeq
<1> QED BY <1>9, <1>10
-----------------------------------------------------------------------------
(* What a failure leaves behind.                                           *)

(* Nothing but the capacity of the log differs.                            *)
Kept(t, u) == \E n \in Size : u = [t EXCEPT !.nmops = n]
FailsClean(t, o) == o.err # "ok" => Kept(t, o.t)

LEMMA KeptSelf ==
  ASSUME NEW t, Sound(t) PROVE Kept(t, t)
<1>1. t \in Tracker /\ t.nmops \in Size
  BY DEF Sound, Tracker
<1>2. t = [t EXCEPT !.nmops = t.nmops]
  BY <1>1 DEF Tracker
<1> QED BY <1>1, <1>2 DEF Kept

(* A failure of the raw allocator, before any record is touched.           *)
LEMMA RawFailsClean ==
  ASSUME NEW t, Sound(t), NEW old \in Ptr \cup {NULL},
         NEW o \in RawMalloc(t) \cup RawRealloc(t, old)
  PROVE  FailsClean(t, o)
<1>1. o.err # "ok" => o.t = t
  BY DEF RawMalloc, RawRealloc, Ok, Failed
<1> QED BY <1>1, KeptSelf DEF FailsClean

(* gk_malloc under a tracker may have enlarged the log before it fails.    *)
LEMMA TrackedMallocFailsClean ==
  ASSUME NEW t, Sound(t), NEW n \in Size, NEW o \in TrackedMalloc(t, n)
  PROVE  FailsClean(t, o)
<1>1. CASE o = Failed(t, "EOVERFLOW")
  BY <1>1, KeptSelf DEF Failed, FailsClean
<1>2. ASSUME NEW e \in EnsureCapacity(t),
             \/ o = e
             \/ \E r \in RawMalloc(e.t) :
                  o = IF r.err = "ok" THEN Ok(AddHeap(r.t, n, r.ptr), r.ptr) ELSE r
      PROVE  FailsClean(t, o)
  <2>1. /\ e.t = [t EXCEPT !.nmops = e.t.nmops]
        /\ e.t.nmops \in Size
    BY EnsureCapacitySound DEF Sound, Tracker
  <2>2. o.err # "ok" => o.t = e.t
    BY <1>2 DEF RawMalloc, Ok, Failed
  <2> QED BY <2>1, <2>2 DEF FailsClean, Kept
<1> QED BY <1>1, <1>2 DEF TrackedMalloc, RecordMalloc

LEMMA MallocFailsClean ==
  ASSUME NEW t, Sound(t), NEW n \in Size, NEW o \in MallocNosignal(t, n)
  PROVE  FailsClean(t, o)
<1>1. Bytes(n) \in Size
  BY BytesIsSize
<1>2. CASE t.on
  BY <1>1, <1>2, TrackedMallocFailsClean DEF MallocNosignal
<1>3. CASE ~t.on
  BY <1>3, RawFailsClean DEF MallocNosignal
<1> QED BY <1>2, <1>3

(* gk_realloc and gk_realloc_mcore.                                        *)
LEMMA ReallocFailsClean ==
  ASSUME NEW t, Sound(t), NEW old \in Ptr \cup {NULL}, NEW n \in Size,
         NEW o \in ReallocNosignal(t, old, n) \cup ReallocMcore(t, old, n)
  PROVE  FailsClean(t, o)
<1>1. CASE o \in TrackedMalloc(t, Bytes(n))
  BY <1>1, BytesIsSize, TrackedMallocFailsClean
<1>2. CASE o \in RawRealloc(t, old)
  BY <1>2, RawFailsClean
<1>3. CASE o = Failed(t, "EINVAL")
  BY <1>3, KeptSelf DEF Failed, FailsClean
<1>4. ASSUME NEW i, o \in ReallocRecord(t, i, old, Bytes(n))
      PROVE  FailsClean(t, o)
  <2>1. o.err # "ok" => o.t = t
    BY <1>4 DEF ReallocRecord, RawRealloc, RawMalloc, Ok, Failed
  <2> QED BY <2>1, KeptSelf DEF FailsClean
<1> QED BY <1>1, <1>2, <1>3, <1>4 DEF ReallocNosignal, ReallocMcore

(* gk_free refuses a block before it looks at its record.                  *)
LEMMA FreeFailsClean ==
  ASSUME NEW t, Sound(t), NEW p, NEW o \in FreeNosignal(t, p)
  PROVE  FailsClean(t, o)
<1>1. o.err # "ok" => o.t = t
  BY DEF FreeNosignal, Ok, Failed
<1> QED BY <1>1, KeptSelf DEF FailsClean

(* gk_malloc_init: the mark of the first frame always has room, so that    *)
(* no tracker is left without a frame.                                     *)
LEMMA MallocInitFailsClean ==
  ASSUME NEW t, Sound(t), NEW o \in MallocInitOutcomes(t)
  PROVE  FailsClean(t, o)
<1>1. CASE t.on
  <2>1. PICK e \in EnsureCapacity(t) :
          o = IF e.err = "ok" THEN Ok(AddMark(e.t), NULL) ELSE e
    BY <1>1 DEF MallocInitOutcomes, PushMark
  <2>2. /\ e.t = [t EXCEPT !.nmops = e.t.nmops]
        /\ e.t.nmops \in Size
    BY EnsureCapacitySound DEF Sound, Tracker
  <2>3. o.err # "ok" => o.t = e.t
    BY <2>1 DEF Ok
  <2> QED BY <2>2, <2>3 DEF FailsClean, Kept
<1>2. CASE o = Failed(t, "ENOMEM")
  BY <1>2, KeptSelf DEF Failed, FailsClean
<1>3. CASE o \in PushMark(Fresh(t))
  <2>1. Fresh(t).mops = <<>> /\ Fresh(t).nmops = InitMops
    BY DEF Fresh, Sound, Tracker
  <2>2. Len(Fresh(t).mops) = 0
    BY <2>1, EmptySeq
  <2>3. Len(Fresh(t).mops) < Fresh(t).nmops
    BY <2>1, <2>2, WordSizes
  <2>4. PICK e \in EnsureCapacity(Fresh(t)) :
          o = IF e.err = "ok" THEN Ok(AddMark(e.t), NULL) ELSE e
    BY <1>3 DEF PushMark
  <2>5. e.err = "ok"
    BY <2>3, <2>4 DEF EnsureCapacity, Ok
  <2> QED BY <2>4, <2>5 DEF FailsClean, Ok
<1> QED BY <1>1, <1>2, <1>3 DEF MallocInitOutcomes
-----------------------------------------------------------------------------
(* The frame a block is recorded in, as the set of the marks below its     *)
(* record: no operation moves a block to another frame, and gk_free and    *)
(* gk_realloc accept the blocks of the innermost one. Home is empty for a  *)
(* block without a record.                                                 *)
MarkSet(mops) == {j \in DOMAIN mops : mops[j].type = "MARK"}
Under(mops, i) == {j \in MarkSet(mops) : j < i}
Home(mops, p) == {Under(mops, i) : i \in FindAny(mops, p)}
Unmoved(t, u, blocks) ==
  /\ u.on = t.on /\ MarkSet(u.mops) = MarkSet(t.mops)
  /\ \A q \in blocks : Home(u.mops, q) = Home(t.mops, q)

LEMMA UnmovedSelf == ASSUME NEW t, NEW B PROVE Unmoved(t, t, B)
  BY DEF Unmoved

(* A block is quiet when its record is above every mark.                   *)
LEMMA QuietHome ==
  ASSUME NEW mops \in Seq(Mop), NEW p
  PROVE  FindQuiet(mops, p) # {} <=> MarkSet(mops) \in Home(mops, p)
<1>1. DOMAIN mops = 1 .. Len(mops) /\ Len(mops) \in Nat
  BY LenProperties
<1>2. ASSUME NEW i \in FindQuiet(mops, p) PROVE MarkSet(mops) \in Home(mops, p)
  <2>1. i \in FindAny(mops, p) /\ i \in 1 .. Len(mops)
    BY <1>1 DEF FindQuiet, FindAny
  <2>2. \A j \in MarkSet(mops) : j < i
    BY <1>1, <2>1 DEF FindQuiet, MarkSet
  <2>3. Under(mops, i) = MarkSet(mops)
    BY <2>2 DEF Under
  <2> QED BY <2>1, <2>3 DEF Home
<1>3. ASSUME MarkSet(mops) \in Home(mops, p) PROVE FindQuiet(mops, p) # {}
  <2>1. PICK i \in FindAny(mops, p) : Under(mops, i) = MarkSet(mops)
    BY <1>3 DEF Home
  <2>2. \A j \in MarkSet(mops) : j < i
    BY <2>1 DEF Under
  <2>3. \A j \in DOMAIN mops : j >= i => mops[j].type # "MARK"
    BY <1>1, <2>1, <2>2 DEF MarkSet, FindAny
  <2> QED BY <2>1, <2>3 DEF FindQuiet
<1> QED BY <1>2, <1>3

LEMMA SameHome ==
  ASSUME NEW a, NEW b, NEW q,
         \A i \in FindAny(b, q) : \E j \in FindAny(a, q) : Under(b, i) = Under(a, j),
         \A j \in FindAny(a, q) : \E i \in FindAny(b, q) : Under(b, i) = Under(a, j)
  PROVE  Home(b, q) = Home(a, q)
BY DEF Home

(* A block that is not live has no record.                                 *)
LEMMA DeadUnrecorded ==
  ASSUME NEW mops, NEW live, Owns(mops, live), NEW p, p \notin live
  PROVE  FindAny(mops, p) = {} /\ Home(mops, p) = {}
BY DEF Owns, FindAny, HeapRecords, Home

LEMMA AppendHome ==
  ASSUME NEW mops \in Seq(Mop), NEW e \in Mop
  PROVE  /\ MarkSet(Append(mops, e)) =
              IF e.type = "MARK" THEN MarkSet(mops) \cup {Len(mops) + 1} ELSE MarkSet(mops)
         /\ \A q : ~(e.type = "HEAP" /\ e.ptr = q) => Home(Append(mops, e), q) = Home(mops, q)
         /\ e.type = "HEAP" /\ FindAny(mops, e.ptr) = {}
              => Home(Append(mops, e), e.ptr) = {MarkSet(mops)}
<1> DEFINE new == Append(mops, e)
<1>1. /\ DOMAIN mops = 1 .. Len(mops) /\ Len(mops) \in Nat
      /\ DOMAIN new = 1 .. Len(mops) + 1 /\ new[Len(mops) + 1] = e
      /\ \A i \in 1 .. Len(mops) : new[i] = mops[i]
  BY AppendProperties
<1> HIDE DEF new
<1>2. e.type \in {"MARK", "HEAP"}
  BY DEF Mop
<1>3. MarkSet(new) = IF e.type = "MARK" THEN MarkSet(mops) \cup {Len(mops) + 1} ELSE MarkSet(mops)
  BY <1>1, <1>2 DEF MarkSet
<1>4. ASSUME NEW i \in 1 .. Len(mops) PROVE Under(new, i) = Under(mops, i)
  BY <1>1, <1>3 DEF Under
<1>5. Under(new, Len(mops) + 1) = MarkSet(mops)
  BY <1>1, <1>3 DEF Under, MarkSet
<1>6. ASSUME NEW q, ~(e.type = "HEAP" /\ e.ptr = q)
      PROVE  Home(new, q) = Home(mops, q)
  <2>1. FindAny(new, q) = FindAny(mops, q) /\ FindAny(mops, q) \subseteq 1 .. Len(mops)
    BY <1>1, <1>6 DEF FindAny
  <2> QED BY <1>4, <2>1, SameHome
<1>7. ASSUME e.type = "HEAP", FindAny(mops, e.ptr) = {}
      PROVE  Home(new, e.ptr) = {MarkSet(mops)}
  <2>1. FindAny(new, e.ptr) = {Len(mops) + 1}
    BY <1>1, <1>7 DEF FindAny
  <2> QED BY <1>5, <2>1 DEF Home
<1> QED BY <1>3, <1>6, <1>7 DEF new

(* The record of a block resized or moved stays where it is.               *)
LEMMA ReplaceHome ==
  ASSUME NEW mops \in Seq(Mop), NEW live \in SUBSET Ptr, Owns(mops, live),
         NEW old \in Ptr, NEW i \in FindAny(mops, old),
         NEW p \in (Ptr \ live) \cup {old}, NEW n \in Size,
         NEW new, new = [mops EXCEPT ![i] = Heap(n, p)]
  PROVE  /\ MarkSet(new) = MarkSet(mops)
         /\ Home(new, p) = Home(mops, old)
         /\ \A q \in live \ {old} : Home(new, q) = Home(mops, q)
<1>1. /\ DOMAIN mops = 1 .. Len(mops) /\ Len(mops) \in Nat /\ DOMAIN new = DOMAIN mops
      /\ i \in DOMAIN mops /\ mops[i].type = "HEAP" /\ mops[i].ptr = old
      /\ new[i] = Heap(n, p) /\ \A j \in DOMAIN mops : j # i => new[j] = mops[j]
  BY LenProperties DEF FindAny
<1>2. new[i].type = "HEAP" /\ new[i].ptr = p
  BY <1>1 DEF Heap
<1>3. MarkSet(new) = MarkSet(mops)
  BY <1>1, <1>2 DEF MarkSet
<1>4. \A j : Under(new, j) = Under(mops, j)
  BY <1>3 DEF Under
<1>5. FindAny(mops, old) = {i} /\ old \in live
  BY <1>1 DEF Owns, FindAny, HeapRecords
<1>6. FindAny(new, p) = {i}
  <2>1. \A j \in DOMAIN mops : j # i => ~(mops[j].type = "HEAP" /\ mops[j].ptr = p)
    BY <1>1, <1>5 DEF Owns, HeapRecords
  <2> QED BY <1>1, <1>2, <2>1 DEF FindAny
<1>7. Home(new, p) = Home(mops, old)
  BY <1>4, <1>5, <1>6 DEF Home
<1>8. ASSUME NEW q \in live \ {old} PROVE Home(new, q) = Home(mops, q)
  <2>1. FindAny(new, q) = FindAny(mops, q)
    BY <1>1, <1>2 DEF FindAny
  <2> QED BY <1>4, <2>1 DEF Home
<1> QED BY <1>3, <1>7, <1>8

(* A record dropped from the innermost frame: the last record, which fills *)
(* its place, is of the same frame.                                        *)
SwapOut(mops, i) == SubSeq([mops EXCEPT ![i] = mops[Len(mops)]], 1, Len(mops) - 1)

LEMMA SwapOutHome ==
  ASSUME NEW mops \in Seq(Mop), NEW p \in Ptr, NEW i \in FindQuiet(mops, p)
  PROVE  /\ MarkSet(SwapOut(mops, i)) = MarkSet(mops)
         /\ \A q : q # p => Home(SwapOut(mops, i), q) = Home(mops, q)
<1> DEFINE new == SwapOut(mops, i)
<1> HIDE DEF new
<1>1. /\ DOMAIN mops = 1 .. Len(mops) /\ Len(mops) \in Nat
      /\ i \in 1 .. Len(mops) /\ mops[i].type = "HEAP" /\ mops[i].ptr = p
  BY LenProperties DEF FindQuiet, FindAny
<1>2. \A j \in MarkSet(mops) : j \in 1 .. Len(mops) /\ j < i
  BY <1>1 DEF FindQuiet, MarkSet
<1>3. /\ DOMAIN new = 1 .. Len(mops) - 1
      /\ \A j \in 1 .. Len(mops) - 1 : new[j] = IF j = i THEN mops[Len(mops)] ELSE mops[j]
  <2> DEFINE swapped == [mops EXCEPT ![i] = mops[Len(mops)]]
  <2>1. swapped \in Seq(Mop) /\ Len(swapped) = Len(mops) /\ mops[Len(mops)] \in Mop
    BY <1>1
  <2>2. \A j \in 1 .. Len(mops) : swapped[j] = IF j = i THEN mops[Len(mops)] ELSE mops[j]
    BY <1>1
  <2> HIDE DEF swapped
  <2>3. new = SubSeq(swapped, 1, Len(mops) - 1) /\ Len(mops) - 1 \in Nat
    BY <1>1 DEF swapped, new, SwapOut
  <2>4. /\ new \in Seq(Mop) /\ Len(new) = Len(mops) - 1
        /\ \A j \in 1 .. Len(mops) - 1 : new[j] = swapped[j]
    BY <1>1, <2>1, <2>3, SubSeqProperties
  <2> QED BY <1>1, <2>2, <2>4, LenProperties
<1>4. mops[Len(mops)].type # "MARK"
  BY <1>1, <1>2 DEF MarkSet
<1>5. MarkSet(new) = MarkSet(mops)
  <2>1. ASSUME NEW j \in MarkSet(new) PROVE j \in MarkSet(mops)
    BY <1>1, <1>3, <1>4, <2>1 DEF MarkSet
  <2>2. ASSUME NEW j \in MarkSet(mops) PROVE j \in MarkSet(new)
    <3>1. j \in 1 .. Len(mops) - 1 /\ j # i /\ mops[j].type = "MARK"
      BY <1>1, <1>2, <2>2 DEF MarkSet
    <3> QED BY <1>3, <3>1 DEF MarkSet
  <2> QED BY <2>1, <2>2
<1>6. \A j : Under(new, j) = Under(mops, j)
  BY <1>5 DEF Under
<1>7. Under(mops, Len(mops)) = Under(mops, i)
  BY <1>1, <1>2 DEF Under
<1>8. ASSUME NEW q, q # p PROVE Home(new, q) = Home(mops, q)
  <2>1. ASSUME NEW j \in FindAny(new, q)
        PROVE  \E k \in FindAny(mops, q) : Under(new, j) = Under(mops, k)
    <3>1. j \in 1 .. Len(mops) - 1
      BY <1>3, <2>1 DEF FindAny
    <3>2. CASE j = i
      <4>1. Len(mops) \in FindAny(mops, q)
        BY <1>1, <1>3, <2>1, <3>1, <3>2 DEF FindAny
      <4> QED BY <1>6, <1>7, <3>2, <4>1
    <3>3. CASE j # i
      <4>1. j \in FindAny(mops, q)
        BY <1>1, <1>3, <2>1, <3>1, <3>3 DEF FindAny
      <4> QED BY <1>6, <4>1
    <3> QED BY <3>2, <3>3
  <2>2. ASSUME NEW k \in FindAny(mops, q)
        PROVE  \E j \in FindAny(new, q) : Under(new, j) = Under(mops, k)
    <3>1. k \in 1 .. Len(mops) /\ k # i /\ mops[k].type = "HEAP" /\ mops[k].ptr = q
      BY <1>1, <1>8, <2>2 DEF FindAny
    <3>2. CASE k = Len(mops)
      <4>1. i \in FindAny(new, q)
        BY <1>1, <1>3, <3>1, <3>2 DEF FindAny
      <4> QED BY <1>6, <1>7, <3>2, <4>1
    <3>3. CASE k # Len(mops)
      <4>1. k \in FindAny(new, q)
        BY <1>1, <1>3, <3>1, <3>3 DEF FindAny
      <4> QED BY <1>6, <4>1
    <3> QED BY <3>2, <3>3
  <2> QED BY <2>1, <2>2, SameHome
<1> QED BY <1>5, <1>8 DEF new

(* The last record popped.                                                 *)
LEMMA PopHome ==
  ASSUME NEW mops \in Seq(Mop), mops # <<>>, NEW new,
         new = SubSeq(mops, 1, Len(mops) - 1)
  PROVE  /\ MarkSet(new) = MarkSet(mops) \ {Len(mops)}
         /\ \A q : ~(mops[Len(mops)].type = "HEAP" /\ mops[Len(mops)].ptr = q)
                     => Home(new, q) = Home(mops, q)
<1>1. Len(mops) \in Nat /\ Len(mops) >= 1 /\ DOMAIN mops = 1 .. Len(mops)
  BY EmptySeq, LenProperties
<1>2. /\ DOMAIN new = 1 .. Len(mops) - 1
      /\ \A j \in 1 .. Len(mops) - 1 : new[j] = mops[j]
  <2>1. /\ new \in Seq(Mop) /\ Len(new) = Len(mops) - 1
        /\ \A j \in 1 .. Len(mops) - 1 : new[j] = mops[j]
    BY <1>1, SubSeqProperties
  <2> QED BY <2>1, LenProperties
<1>3. MarkSet(new) = MarkSet(mops) \ {Len(mops)}
  BY <1>1, <1>2 DEF MarkSet
<1>4. \A j \in 1 .. Len(mops) - 1 : Under(new, j) = Under(mops, j)
  BY <1>1, <1>3 DEF Under
<1>5. ASSUME NEW q, ~(mops[Len(mops)].type = "HEAP" /\ mops[Len(mops)].ptr = q)
      PROVE  Home(new, q) = Home(mops, q)
  <2>1. FindAny(new, q) = FindAny(mops, q) /\ FindAny(new, q) \subseteq 1 .. Len(mops) - 1
    BY <1>1, <1>2, <1>5 DEF FindAny
  <2> QED BY <1>4, <2>1, SameHome
<1> QED BY <1>3, <1>5
-----------------------------------------------------------------------------
(* What each operator does to the blocks and their frames.                 *)

(* An allocation: of a block that was not live, in the innermost frame.    *)
Allocates(t, o) ==
  /\ o.err \in {"ok", "ENOMEM", "EOVERFLOW"}
  /\ Unmoved(t, o.t, t.live)
  /\ o.err # "ok" => o.t.live = t.live
  /\ o.err = "ok" => /\ o.ptr \in Ptr \ t.live /\ o.t.live = t.live \cup {o.ptr}
                     /\ Home(o.t.mops, o.ptr) = IF t.on THEN {MarkSet(t.mops)} ELSE {}

LEMMA MallocAllocates ==
  ASSUME NEW t, Sound(t), NEW n \in Size, NEW o \in MallocNosignal(t, n)
  PROVE  Allocates(t, o)
<1>1. t \in Tracker /\ t.mops \in Seq(Mop) /\ t.live \in SUBSET Ptr /\ Owns(t.mops, t.live)
  BY DEF Sound, Tracker
<1>2. CASE ~t.on
  <2>1. o \in RawMalloc(t)
    BY <1>2 DEF MallocNosignal
  <2>2. CASE o = Failed(t, "ENOMEM")
    BY <2>2, UnmovedSelf DEF Failed, Allocates
  <2>3. ASSUME NEW p \in Ptr \ t.live, o = Ok([t EXCEPT !.live = @ \cup {p}], p)
        PROVE  Allocates(t, o)
    <3>1. /\ o.err = "ok" /\ o.ptr = p /\ o.t.live = t.live \cup {p}
          /\ o.t.mops = t.mops /\ o.t.on = t.on
      BY <1>1, <2>3 DEF Ok, Tracker
    <3>2. Home(t.mops, p) = {}
      BY <1>1, DeadUnrecorded
    <3> QED BY <1>2, <3>1, <3>2 DEF Allocates, Unmoved
  <2> QED BY <2>1, <2>2, <2>3 DEF RawMalloc
<1>3. CASE t.on
  <2>1. o \in TrackedMalloc(t, Bytes(n)) /\ Bytes(n) \in Size
    BY <1>3, BytesIsSize DEF MallocNosignal
  <2>2. CASE o = Failed(t, "EOVERFLOW")
    BY <2>2, UnmovedSelf DEF Failed, Allocates
  <2>3. ASSUME NEW e \in EnsureCapacity(t),
               \/ o = e /\ e.err # "ok"
               \/ /\ e.err = "ok"
                  /\ \E r \in RawMalloc(e.t) :
                       o = IF r.err = "ok" THEN Ok(AddHeap(r.t, Bytes(n), r.ptr), r.ptr) ELSE r
        PROVE  Allocates(t, o)
    <3>1. e.t = [t EXCEPT !.nmops = e.t.nmops]
      BY EnsureCapacitySound
    <3>2. e.t \in Tracker /\ e.t.mops = t.mops /\ e.t.on = t.on /\ e.t.live = t.live
      BY <1>1, <3>1, EnsureCapacitySound DEF Sound, Tracker
    <3>3. e.err \in {"ok", "ENOMEM", "EOVERFLOW"}
      BY DEF EnsureCapacity, Ok, Failed
    <3>4. CASE o.t = e.t /\ o.err \in {"ENOMEM", "EOVERFLOW"}
      BY <3>2, <3>4 DEF Allocates, Unmoved
    <3>5. ASSUME NEW p \in Ptr \ t.live,
                 o = Ok(AddHeap([e.t EXCEPT !.live = @ \cup {p}], Bytes(n), p), p)
          PROVE  Allocates(t, o)
      <4>1. /\ o.err = "ok" /\ o.ptr = p /\ o.t.live = t.live \cup {p}
            /\ o.t.mops = Append(t.mops, Heap(Bytes(n), p)) /\ o.t.on = t.on
        BY <3>2, <3>5 DEF Ok, AddHeap, Tracker
      <4>2. Heap(Bytes(n), p) \in Mop /\ Heap(Bytes(n), p).type = "HEAP" /\ Heap(Bytes(n), p).ptr = p
        BY <2>1 DEF Heap, Mop
      <4>3. FindAny(t.mops, p) = {}
        BY <1>1, DeadUnrecorded
      <4>4. /\ MarkSet(o.t.mops) = MarkSet(t.mops)
            /\ \A q : q # p => Home(o.t.mops, q) = Home(t.mops, q)
            /\ Home(o.t.mops, p) = {MarkSet(t.mops)}
        <5> DEFINE rec == Heap(Bytes(n), p)
        <5>1. rec \in Mop /\ rec.type = "HEAP" /\ rec.ptr = p /\ o.t.mops = Append(t.mops, rec)
          BY <4>1, <4>2
        <5> HIDE DEF rec
        <5>2. /\ MarkSet(Append(t.mops, rec)) =
                   IF rec.type = "MARK" THEN MarkSet(t.mops) \cup {Len(t.mops) + 1} ELSE MarkSet(t.mops)
              /\ \A q : ~(rec.type = "HEAP" /\ rec.ptr = q) => Home(Append(t.mops, rec), q) = Home(t.mops, q)
              /\ rec.type = "HEAP" /\ FindAny(t.mops, rec.ptr) = {}
                   => Home(Append(t.mops, rec), rec.ptr) = {MarkSet(t.mops)}
          BY <1>1, <5>1, AppendHome
        <5> QED BY <4>3, <5>1, <5>2
      <4> QED BY <1>3, <4>1, <4>4 DEF Allocates, Unmoved
    <3>6. ASSUME NEW r \in RawMalloc(e.t), e.err = "ok",
                 o = IF r.err = "ok" THEN Ok(AddHeap(r.t, Bytes(n), r.ptr), r.ptr) ELSE r
          PROVE  Allocates(t, o)
      <4>1. CASE r = Failed(e.t, "ENOMEM")
        BY <3>4, <3>6, <4>1 DEF Failed
      <4>2. ASSUME NEW p \in Ptr \ e.t.live, r = Ok([e.t EXCEPT !.live = @ \cup {p}], p)
            PROVE  Allocates(t, o)
        BY <3>2, <3>5, <3>6, <4>2 DEF Ok
      <4> QED BY <3>6, <4>1, <4>2 DEF RawMalloc
    <3> QED BY <2>3, <3>3, <3>4, <3>6
  <2> QED BY <2>1, <2>2, <2>3 DEF TrackedMalloc, RecordMalloc
<1> QED BY <1>2, <1>3

(* The growth of an mcore's log, in whatever frame it is: the block keeps  *)
(* its frame when it moves.                                                *)
Resizes(t, old, o) ==
  /\ o.err \in {"ok", "ENOMEM", "EOVERFLOW"}
  /\ Unmoved(t, o.t, t.live \ {old})
  /\ o.err # "ok" => o.t.live = t.live /\ Home(o.t.mops, old) = Home(t.mops, old)
  /\ o.err = "ok" => /\ o.ptr \in (Ptr \ t.live) \cup {old}
                     /\ o.t.live = (t.live \ {old}) \cup {o.ptr}
                     /\ Home(o.t.mops, o.ptr) = Home(t.mops, old)

LEMMA ReallocResizes ==
  ASSUME NEW t, Sound(t), NEW old \in t.live, NEW n \in Size, NEW o \in ReallocMcore(t, old, n)
  PROVE  Resizes(t, old, o)
<1>1. /\ t \in Tracker /\ t.mops \in Seq(Mop) /\ t.live \in SUBSET Ptr /\ Owns(t.mops, t.live)
      /\ old \in Ptr /\ old # NULL
  BY NullIsNoAddress DEF Sound, Tracker
<1>2. CASE o = Failed(t, "ENOMEM") \/ o = Failed(t, "EOVERFLOW")
  BY <1>2, UnmovedSelf DEF Failed, Resizes
<1>3. ASSUME FindAny(t.mops, old) = {}, o \in RawRealloc(t, old) PROVE Resizes(t, old, o)
  <2>1. ASSUME NEW p \in (Ptr \ t.live) \cup {old}, o = Ok([t EXCEPT !.live = (@ \ {old}) \cup {p}], p)
        PROVE  Resizes(t, old, o)
    <3>1. /\ o.err = "ok" /\ o.ptr = p /\ o.t.live = (t.live \ {old}) \cup {p}
          /\ o.t.mops = t.mops /\ o.t.on = t.on
      BY <1>1, <2>1 DEF Ok, Tracker
    <3>2. Home(t.mops, old) = {} /\ Home(t.mops, p) = {}
      BY <1>1, <1>3, DeadUnrecorded DEF Home
    <3> QED BY <3>1, <3>2 DEF Resizes, Unmoved
  <2> QED BY <1>1, <1>2, <1>3, <2>1 DEF RawRealloc
<1>4. ASSUME NEW i \in FindAny(t.mops, old), o \in ReallocRecord(t, i, old, Bytes(n))
      PROVE  Resizes(t, old, o)
  <2>1. ASSUME NEW p \in (Ptr \ t.live) \cup {old},
               o = Ok(UpdateRealloc([t EXCEPT !.live = (@ \ {old}) \cup {p}], i, Bytes(n), p), p)
        PROVE  Resizes(t, old, o)
    <3>1. /\ o.err = "ok" /\ o.ptr = p /\ o.t.live = (t.live \ {old}) \cup {p}
          /\ o.t.mops = [t.mops EXCEPT ![i] = Heap(Bytes(n), p)] /\ o.t.on = t.on
      BY <1>1, <2>1 DEF Ok, UpdateRealloc, Tracker
    <3>2. Bytes(n) \in Size
      BY BytesIsSize
    <3>3. /\ MarkSet(o.t.mops) = MarkSet(t.mops) /\ Home(o.t.mops, p) = Home(t.mops, old)
          /\ \A q \in t.live \ {old} : Home(o.t.mops, q) = Home(t.mops, q)
      BY <1>1, <3>1, <3>2, ReplaceHome
    <3> QED BY <3>1, <3>3 DEF Resizes, Unmoved
  <2>2. ASSUME NEW r \in RawRealloc(t, old),
               o = IF r.err = "ok" THEN Ok(UpdateRealloc(r.t, i, Bytes(n), r.ptr), r.ptr) ELSE r
        PROVE  Resizes(t, old, o)
    <3>1. CASE r = Failed(t, "ENOMEM")
      BY <1>2, <2>2, <3>1 DEF Failed
    <3>2. ASSUME NEW p \in (Ptr \ t.live) \cup {old}, r = Ok([t EXCEPT !.live = (@ \ {old}) \cup {p}], p)
          PROVE  Resizes(t, old, o)
      BY <2>1, <2>2, <3>2 DEF Ok
    <3> QED BY <1>1, <2>2, <3>1, <3>2 DEF RawRealloc
  <2> QED BY <1>2, <1>4, <2>2 DEF ReallocRecord
<1>5. CASE ~t.on
  <2>1. FindAny(t.mops, old) = {}
    BY <1>5 DEF Sound, Anchored, FindAny
  <2> QED BY <1>3, <1>5, <2>1 DEF ReallocMcore
<1> QED BY <1>1, <1>3, <1>4, <1>5 DEF ReallocMcore, Last

(* A release: of a block of the innermost frame, or without a tracker.     *)
Frees(t, p, o) ==
  \/ o.err = "EINVAL" /\ o.t = t /\ t.on /\ MarkSet(t.mops) \notin Home(t.mops, p)
  \/ /\ o.err = "ok" /\ o.t.live = t.live \ {p} /\ Unmoved(t, o.t, Ptr \ {p})
     /\ t.on => MarkSet(t.mops) \in Home(t.mops, p)

LEMMA FreeFrees ==
  ASSUME NEW t, Sound(t), NEW p \in Ptr
  PROVE  /\ FreeNosignal(t, p) # {}
         /\ \A o \in FreeNosignal(t, p) : Frees(t, p, o)
<1>1. t \in Tracker /\ t.mops \in Seq(Mop) /\ t.live \in SUBSET Ptr /\ Owns(t.mops, t.live) /\ p # NULL
  BY NullIsNoAddress DEF Sound, Tracker
<1>2. CASE ~t.on
  <2> DEFINE u == RawFree(t, p)
  <2>1. FreeNosignal(t, p) = {Ok(u, NULL)}
    BY <1>1, <1>2 DEF FreeNosignal
  <2>2. u.live = t.live \ {p} /\ u.mops = t.mops /\ u.on = t.on
    BY <1>1 DEF RawFree, Tracker
  <2>3. Frees(t, p, Ok(u, NULL))
    BY <1>2, <2>2 DEF Frees, Ok, Unmoved
  <2> QED BY <2>1, <2>3
<1>3. CASE t.on /\ FindQuiet(t.mops, p) = {}
  <2>1. FreeNosignal(t, p) = {Failed(t, "EINVAL")}
    BY <1>1, <1>3 DEF FreeNosignal
  <2>2. MarkSet(t.mops) \notin Home(t.mops, p)
    BY <1>1, <1>3, QuietHome
  <2>3. Frees(t, p, Failed(t, "EINVAL"))
    BY <1>3, <2>2 DEF Frees, Failed
  <2> QED BY <2>1, <2>3
<1>4. CASE t.on /\ FindQuiet(t.mops, p) # {}
  <2>1. PICK i \in FindQuiet(t.mops, p) : TRUE
    BY <1>4
  <2>2. \A j \in FindQuiet(t.mops, p) : j = i
    BY <1>1, <2>1 DEF FindQuiet, FindAny, Owns, HeapRecords
  <2>3. i \in 1 .. Len(t.mops)
    BY <1>1, <2>1, LenProperties DEF FindQuiet, FindAny
  <2>4. Last(FindQuiet(t.mops, p)) = {i}
    <3>1. FindQuiet(t.mops, p) = {i}
      BY <2>1, <2>2
    <3>2. i <= i
      BY <1>1, <2>3, LenProperties
    <3> QED BY <3>1, <3>2 DEF Last
  <2> DEFINE u == RawFree(DropRecord(t, i), p)
  <2>5. FreeNosignal(t, p) = {Ok(u, NULL)}
    BY <1>1, <1>4, <2>4 DEF FreeNosignal
  <2>6. u.live = t.live \ {p} /\ u.mops = SwapOut(t.mops, i) /\ u.on = t.on
    BY <1>1 DEF RawFree, DropRecord, Tracker, SwapOut
  <2>7. /\ MarkSet(SwapOut(t.mops, i)) = MarkSet(t.mops)
        /\ \A q : q # p => Home(SwapOut(t.mops, i), q) = Home(t.mops, q)
    BY <1>1, <2>1, SwapOutHome
  <2> HIDE DEF u
  <2>8. MarkSet(t.mops) \in Home(t.mops, p)
    BY <1>1, <1>4, QuietHome
  <2>9. Frees(t, p, Ok(u, NULL))
    BY <2>6, <2>7, <2>8 DEF Frees, Ok, Unmoved
  <2> QED BY <2>5, <2>9
<1> QED BY <1>2, <1>3, <1>4
-----------------------------------------------------------------------------
(* Sums over a log: Sum(w, n) adds up the first n weights of w.            *)
IsSum(f, w, n) ==
  /\ f \in [0 .. n -> Nat] /\ f[0] = 0
  /\ \A i \in 1 .. n : f[i] = f[i - 1] + w[i]
Sum(w, n) == (CHOOSE f : IsSum(f, w, n))[n]

(* A set that holds 0 and, with each number, the next one.                 *)
LEMMA Inductive ==
  ASSUME NEW S, 0 \in S, \A n \in Nat : n \in S => n + 1 \in S
  PROVE  Nat \subseteq S
<1> DEFINE T == {n \in Nat : n \notin S}
<1> SUFFICES ASSUME NEW n \in T PROVE FALSE
  OBVIOUS
<1>1. PICK m \in T : \A k \in T : m <= k
  <2>1. PICK k \in T : \A l \in T : <<l, k>> \notin OpToRel(<, Nat)
    BY NatLessThanWellFounded, WFMin
  <2>2. \A l \in T : ~ (l < k)
    BY <2>1 DEF OpToRel
  <2> QED BY <2>2
<1>2. m \in Nat /\ m # 0 /\ m \notin S
  OBVIOUS
<1>3. m - 1 \in Nat /\ m - 1 \notin T
  BY <1>1, <1>2
<1>4. m - 1 + 1 \in S
  BY <1>3
<1> QED BY <1>2, <1>4

LEMMA SumExists ==
  ASSUME NEW N \in Nat, NEW w \in [1 .. N -> Nat]
  PROVE  \A n \in 0 .. N : \E f : IsSum(f, w, n)
<1> DEFINE S == {n \in Nat : n <= N => \E f : IsSum(f, w, n)}
<1>1. 0 \in S
  <2> DEFINE f == [i \in 0 .. 0 |-> 0]
  <2>1. f \in [0 .. 0 -> Nat] /\ f[0] = 0 /\ 1 .. 0 = {}
    OBVIOUS
  <2>2. IsSum(f, w, 0)
    BY <2>1 DEF IsSum
  <2> QED BY <2>2
<1>2. ASSUME NEW n \in Nat, n \in S PROVE n + 1 \in S
  <2> SUFFICES ASSUME n + 1 <= N PROVE \E f : IsSum(f, w, n + 1)
    OBVIOUS
  <2>1. PICK f : IsSum(f, w, n)
    BY <1>2
  <2> DEFINE g == [i \in 0 .. n + 1 |-> IF i = n + 1 THEN f[n] + w[n + 1] ELSE f[i]]
  <2>2. n + 1 \in 1 .. N /\ w[n + 1] \in Nat
    OBVIOUS
  <2>3. /\ f \in [0 .. n -> Nat] /\ f[0] = 0
        /\ \A i \in 1 .. n : f[i] = f[i - 1] + w[i]
    BY <2>1 DEF IsSum
  <2>4. g \in [0 .. n + 1 -> Nat]
    BY <2>2, <2>3
  <2>5. g[0] = 0 /\ \A i \in 0 .. n : g[i] = f[i]
    BY <2>3
  <2>6. g[n + 1] = f[n] + w[n + 1]
    OBVIOUS
  <2> HIDE DEF g
  <2>7. ASSUME NEW i \in 1 .. n + 1 PROVE g[i] = g[i - 1] + w[i]
    <3>1. CASE i = n + 1
      BY <2>5, <2>6, <3>1
    <3>2. CASE i # n + 1
      <4>1. i \in 1 .. n /\ i \in 0 .. n /\ i - 1 \in 0 .. n
        BY <3>2
      <4> QED BY <2>3, <2>5, <4>1
    <3> QED BY <3>1, <3>2
  <2>8. IsSum(g, w, n + 1)
    BY <2>4, <2>5, <2>7 DEF IsSum
  <2> QED BY <2>8
<1> HIDE DEF S
<1>3. Nat \subseteq S
  BY <1>1, <1>2, Inductive
<1> QED BY <1>3 DEF S

(* The sums of two lists of weights that agree, as far as they agree.      *)
LEMMA SumAgree ==
  ASSUME NEW n \in Nat, NEW m \in Nat, NEW w, NEW v, NEW f, IsSum(f, w, n), NEW g, IsSum(g, v, m),
         NEW k \in Nat, k <= n, k <= m, \A i \in 1 .. k : w[i] = v[i]
  PROVE  f[k] = g[k]
<1> DEFINE S == {i \in Nat : i <= k => f[i] = g[i]}
<1>1. 0 \in S
  BY DEF IsSum
<1>2. ASSUME NEW i \in Nat, i \in S PROVE i + 1 \in S
  <2> SUFFICES ASSUME i + 1 <= k PROVE f[i + 1] = g[i + 1]
    OBVIOUS
  <2>1. i + 1 \in 1 .. n /\ i + 1 \in 1 .. m /\ i + 1 \in 1 .. k /\ i + 1 - 1 = i
    OBVIOUS
  <2>2. f[i + 1] = f[i] + w[i + 1] /\ g[i + 1] = g[i] + v[i + 1]
    BY <2>1 DEF IsSum
  <2> QED BY <1>2, <2>1, <2>2
<1> HIDE DEF S
<1>3. Nat \subseteq S
  BY <1>1, <1>2, Inductive
<1> QED BY <1>3 DEF S

LEMMA SumIs ==
  ASSUME NEW N \in Nat, NEW w \in [1 .. N -> Nat], NEW n \in 0 .. N, NEW f, IsSum(f, w, N)
  PROVE  Sum(w, n) = f[n]
<1>1. \E g : IsSum(g, w, n)
  BY SumExists
<1> DEFINE g == CHOOSE g : IsSum(g, w, n)
<1>2. IsSum(g, w, n)
  BY <1>1
<1> HIDE DEF g
<1>3. g[n] = f[n]
  BY <1>2, SumAgree
<1> QED BY <1>3 DEF Sum, g

(* The laws of Sum.                                                        *)
LEMMA SumLaws ==
  ASSUME NEW N \in Nat, NEW w \in [1 .. N -> Nat]
  PROVE  /\ Sum(w, 0) = 0
         /\ \A n \in 0 .. N : Sum(w, n) \in Nat
         /\ \A n \in 1 .. N : Sum(w, n) = Sum(w, n - 1) + w[n]
<1>1. PICK f : IsSum(f, w, N)
  BY SumExists
<1>2. \A n \in 0 .. N : Sum(w, n) = f[n]
  BY <1>1, SumIs
<1>3. /\ f[0] = 0 /\ \A n \in 0 .. N : f[n] \in Nat
      /\ \A n \in 1 .. N : f[n] = f[n - 1] + w[n]
  BY <1>1 DEF IsSum
<1>4. 0 \in 0 .. N /\ \A n \in 1 .. N : n \in 0 .. N /\ n - 1 \in 0 .. N
  OBVIOUS
<1> QED BY <1>2, <1>3, <1>4

LEMMA SumNext ==
  ASSUME NEW N \in Nat, NEW w \in [1 .. N -> Nat], NEW n \in Nat, n < N
  PROVE  Sum(w, n + 1) = Sum(w, n) + w[n + 1]
<1>1. \A l \in 1 .. N : Sum(w, l) = Sum(w, l - 1) + w[l]
  BY SumLaws
<1>2. n + 1 \in 1 .. N /\ n + 1 - 1 = n
  OBVIOUS
<1> QED BY <1>1, <1>2

LEMMA SumSame ==
  ASSUME NEW N \in Nat, NEW w \in [1 .. N -> Nat], NEW M \in Nat, NEW v \in [1 .. M -> Nat],
         NEW n \in Nat, n <= N, n <= M, \A i \in 1 .. n : w[i] = v[i]
  PROVE  Sum(w, n) = Sum(v, n)
<1>1. PICK f : IsSum(f, w, N)
  BY SumExists
<1>2. PICK g : IsSum(g, v, M)
  BY SumExists
<1>3. Sum(w, n) = f[n] /\ Sum(v, n) = g[n]
  BY <1>1, <1>2, SumIs
<1>4. f[n] = g[n]
  BY SMTT(30), <1>1, <1>2, SumAgree
<1> QED BY <1>3, <1>4

(* One weight replaced.                                                    *)
LEMMA SumPut ==
  ASSUME NEW N \in Nat, NEW w \in [1 .. N -> Nat], NEW v \in [1 .. N -> Nat], NEW k \in 1 .. N,
         \A i \in 1 .. N : i # k => v[i] = w[i]
  PROVE  \A n \in 0 .. N : Sum(v, n) = IF n < k THEN Sum(w, n) ELSE Sum(w, n) - w[k] + v[k]
<1> DEFINE S == {n \in Nat : n <= N =>
                   Sum(v, n) = IF n < k THEN Sum(w, n) ELSE Sum(w, n) - w[k] + v[k]}
<1>0. k \in Nat /\ 0 < k
  OBVIOUS
<1>1. 0 \in S
  BY <1>0, SumLaws
<1>2. ASSUME NEW n \in Nat, n \in S PROVE n + 1 \in S
  <2> SUFFICES ASSUME n + 1 <= N
               PROVE  Sum(v, n + 1) = IF n + 1 < k THEN Sum(w, n + 1) ELSE Sum(w, n + 1) - w[k] + v[k]
    OBVIOUS
  <2>1. n + 1 \in 1 .. N /\ n \in 0 .. N /\ n + 1 - 1 = n
    OBVIOUS
  <2>2. /\ Sum(v, n + 1) = Sum(v, n) + v[n + 1] /\ Sum(w, n + 1) = Sum(w, n) + w[n + 1]
        /\ Sum(v, n) \in Nat /\ Sum(w, n) \in Nat
    <3>1. /\ \A l \in 1 .. N : Sum(w, l) = Sum(w, l - 1) + w[l]
          /\ \A l \in 1 .. N : Sum(v, l) = Sum(v, l - 1) + v[l]
          /\ \A l \in 0 .. N : Sum(w, l) \in Nat /\ Sum(v, l) \in Nat
      BY SumLaws
    <3> QED BY <2>1, <3>1
  <2>3. v[n + 1] \in Nat /\ w[n + 1] \in Nat /\ v[k] \in Nat /\ w[k] \in Nat
    BY <2>1
  <2>4. Sum(v, n) = IF n < k THEN Sum(w, n) ELSE Sum(w, n) - w[k] + v[k]
    BY <1>2, <2>1
  <2>5. CASE n + 1 = k
    <3>1. n < k /\ ~(n + 1 < k) /\ v[n + 1] = v[k] /\ w[n + 1] = w[k]
      <4>1. n < n + 1 /\ ~(n + 1 < n + 1)
        OBVIOUS
      <4> QED BY ONLY <4>1, <2>5
    <3>2. Sum(v, n) = Sum(w, n)
      BY ONLY <2>4, <3>1
    <3>3. Sum(v, n + 1) = Sum(w, n + 1) - w[k] + v[k]
      BY ONLY <2>2, <2>3, <3>1, <3>2
    <3> QED BY ONLY <3>1, <3>3
  <2>6. CASE n + 1 # k
    <3>1. v[n + 1] = w[n + 1]
      BY <2>1, <2>6
    <3> QED BY <1>0, <2>2, <2>3, <2>4, <2>6, <3>1
  <2> QED BY <2>5, <2>6
<1> HIDE DEF S
<1>3. Nat \subseteq S
  BY <1>1, <1>2, Inductive
<1> QED BY <1>3 DEF S

(* A later sum is no smaller, by at least each weight in between.          *)
LEMMA SumGrows ==
  ASSUME NEW N \in Nat, NEW w \in [1 .. N -> Nat], NEW k \in 0 .. N
  PROVE  /\ \A n \in 0 .. N : k <= n => Sum(w, k) <= Sum(w, n)
         /\ \A n \in 0 .. N, i \in 1 .. N : k < i /\ i <= n => Sum(w, k) + w[i] <= Sum(w, n)
<1> DEFINE S == {n \in Nat : n <= N /\ k <= n =>
                   /\ Sum(w, k) <= Sum(w, n)
                   /\ \A i \in 1 .. N : k < i /\ i <= n => Sum(w, k) + w[i] <= Sum(w, n)}
<1>0. k \in Nat /\ Sum(w, k) \in Nat
  BY SumLaws
<1>1. 0 \in S
  <2>1. k <= 0 => k = 0
    BY <1>0
  <2>2. \A i \in 1 .. N : ~(i <= 0)
    OBVIOUS
  <2> QED BY <1>0, <2>1, <2>2
<1>2. ASSUME NEW n \in Nat, n \in S PROVE n + 1 \in S
  <2> SUFFICES ASSUME n + 1 <= N, k <= n + 1
               PROVE  /\ Sum(w, k) <= Sum(w, n + 1)
                      /\ \A i \in 1 .. N : k < i /\ i <= n + 1 => Sum(w, k) + w[i] <= Sum(w, n + 1)
    OBVIOUS
  <2>1. CASE k = n + 1
    BY <1>0, <2>1
  <2>2. CASE k <= n
    <3>1. n + 1 \in 1 .. N /\ n \in 0 .. N /\ n + 1 - 1 = n
      OBVIOUS
    <3>2. /\ Sum(w, n + 1) = Sum(w, n) + w[n + 1] /\ Sum(w, n) \in Nat /\ w[n + 1] \in Nat
      <4>1. /\ \A l \in 1 .. N : Sum(w, l) = Sum(w, l - 1) + w[l]
            /\ \A l \in 0 .. N : Sum(w, l) \in Nat
        BY SumLaws
      <4> QED BY <3>1, <4>1
    <3>3. /\ Sum(w, k) <= Sum(w, n)
          /\ \A i \in 1 .. N : k < i /\ i <= n => Sum(w, k) + w[i] <= Sum(w, n)
      BY <1>2, <2>2, <3>1
    <3>4. ASSUME NEW i \in 1 .. N, k < i, i <= n + 1
          PROVE  Sum(w, k) + w[i] <= Sum(w, n + 1)
      <4>1. CASE i = n + 1
        BY <1>0, <3>2, <3>3, <4>1
      <4>2. CASE i <= n
        <5>1. Sum(w, k) + w[i] <= Sum(w, n) /\ w[i] \in Nat
          BY <3>3, <3>4, <4>2
        <5> QED BY <1>0, <3>2, <5>1
      <4> QED BY <3>4, <4>1, <4>2
    <3> QED BY <1>0, <3>2, <3>3, <3>4
  <2> QED BY <1>0, <2>1, <2>2
<1> HIDE DEF S
<1>3. Nat \subseteq S
  BY <1>1, <1>2, Inductive
<1>4. \A n \in 0 .. N : n \in Nat /\ n <= N
  OBVIOUS
<1> QED BY <1>3, <1>4 DEF S
-----------------------------------------------------------------------------
(* A sum that is defined by recursion over the positions of a log.         *)
IsRec(f, w, n) == f = [i \in 0 .. n |-> IF i = 0 THEN 0 ELSE f[i - 1] + w[i]]

LEMMA RecIsSum ==
  ASSUME NEW N \in Nat, NEW w \in [1 .. N -> Nat], NEW f
  PROVE  IsRec(f, w, N) <=> IsSum(f, w, N)
<1>1. ASSUME IsRec(f, w, N) PROVE IsSum(f, w, N)
  <2>1. /\ DOMAIN f = 0 .. N /\ f = [i \in 0 .. N |-> f[i]]
        /\ \A i \in 0 .. N : f[i] = IF i = 0 THEN 0 ELSE f[i - 1] + w[i]
    BY <1>1 DEF IsRec
  <2>8. ASSUME NEW i \in 1 .. N PROVE f[i] = f[i - 1] + w[i]
    <3>1. i \in 0 .. N /\ i # 0
      OBVIOUS
    <3> QED BY <2>1, <3>1
  <2> DEFINE S == {i \in Nat : i <= N => f[i] \in Nat}
  <2>2. 0 \in S
    BY <2>1
  <2>3. ASSUME NEW i \in Nat, i \in S PROVE i + 1 \in S
    <3> SUFFICES ASSUME i + 1 <= N PROVE f[i + 1] \in Nat
      OBVIOUS
    <3>1. f[i + 1] = f[i + 1 - 1] + w[i + 1] /\ i + 1 - 1 = i /\ w[i + 1] \in Nat
      <4>1. i + 1 \in 0 .. N /\ i + 1 # 0 /\ i + 1 \in 1 .. N
        OBVIOUS
      <4>2. f[i + 1] = f[i + 1 - 1] + w[i + 1]
        BY <2>8, <4>1
      <4> QED BY <4>1, <4>2
    <3> QED BY <2>3, <3>1
  <2> HIDE DEF S
  <2>4. Nat \subseteq S
    BY <2>2, <2>3, Inductive
  <2>5. \A i \in 0 .. N : f[i] \in Nat
    BY <2>4 DEF S
  <2>6. f \in [0 .. N -> Nat]
    BY <2>1, <2>5
  <2>7. f[0] = 0
    BY <2>1
  <2> QED BY <2>6, <2>7, <2>8 DEF IsSum
<1>2. ASSUME IsSum(f, w, N) PROVE IsRec(f, w, N)
  <2>1. /\ f \in [0 .. N -> Nat] /\ f[0] = 0
        /\ \A i \in 1 .. N : f[i] = f[i - 1] + w[i]
    BY <1>2 DEF IsSum
  <2>2. \A i \in 0 .. N : f[i] = IF i = 0 THEN 0 ELSE f[i - 1] + w[i]
    BY <2>1
  <2> QED BY <2>1, <2>2 DEF IsRec
<1> QED BY <1>1, <1>2

(* The sizes of the records of a log whose type is in T, and the sum of    *)
(* those up to position j.                                                 *)
Weight(e, T) == IF e.type \in T THEN e.nbytes ELSE 0
Weights(mops, T) == [i \in 1 .. Len(mops) |-> Weight(mops[i], T)]
Below(mops, T, j) == Sum(Weights(mops, T), j)
Total(mops, T) == Below(mops, T, Len(mops))
Sized(D) == \A e \in D : e.nbytes \in Nat

LEMMA WeightsAre ==
  ASSUME NEW D, Sized(D), NEW mops \in Seq(D), NEW T
  PROVE  /\ Len(mops) \in Nat /\ Weights(mops, T) \in [1 .. Len(mops) -> Nat]
         /\ \A i \in 1 .. Len(mops) : mops[i] \in D /\ Weights(mops, T)[i] = Weight(mops[i], T)
         /\ \A e \in D : Weight(e, T) \in Nat
<1>1. Len(mops) \in Nat /\ \A i \in 1 .. Len(mops) : mops[i] \in D
  BY LenProperties
<1>2. \A e \in D : Weight(e, T) \in Nat
  BY DEF Sized, Weight
<1> QED BY <1>1, <1>2 DEF Weights

LEMMA BelowLaws ==
  ASSUME NEW D, Sized(D), NEW mops \in Seq(D), NEW T
  PROVE  /\ Below(mops, T, 0) = 0
         /\ \A j \in 0 .. Len(mops) : Below(mops, T, j) \in Nat
         /\ \A j \in 0 .. Len(mops), k \in 0 .. Len(mops) :
              j <= k => Below(mops, T, j) <= Below(mops, T, k)
         /\ \A j \in 0 .. Len(mops), k \in 0 .. Len(mops), i \in 1 .. Len(mops) :
              j < i /\ i <= k => Below(mops, T, j) + Weight(mops[i], T) <= Below(mops, T, k)
<1> DEFINE N == Len(mops)
           w == Weights(mops, T)
<1>1. N \in Nat /\ w \in [1 .. N -> Nat] /\ \A i \in 1 .. N : w[i] = Weight(mops[i], T)
  BY WeightsAre
<1> HIDE DEF N, w
<1>2. Sum(w, 0) = 0 /\ \A n \in 0 .. N : Sum(w, n) \in Nat
  BY <1>1, SumLaws
<1>3. ASSUME NEW j \in 0 .. N
      PROVE  /\ \A k \in 0 .. N : j <= k => Sum(w, j) <= Sum(w, k)
             /\ \A k \in 0 .. N, i \in 1 .. N : j < i /\ i <= k => Sum(w, j) + w[i] <= Sum(w, k)
  BY <1>1, SumGrows
<1>4. \A j : Below(mops, T, j) = Sum(w, j)
  BY DEF Below, w
<1> QED BY <1>1, <1>2, <1>3, <1>4 DEF N

LEMMA AppendTotal ==
  ASSUME NEW D, Sized(D), NEW mops \in Seq(D), NEW e \in D, NEW T
  PROVE  /\ Append(mops, e) \in Seq(D)
         /\ \A j \in 0 .. Len(mops) : Below(Append(mops, e), T, j) = Below(mops, T, j)
         /\ Total(Append(mops, e), T) = Total(mops, T) + Weight(e, T)
<1> DEFINE new == Append(mops, e)
           N == Len(mops)
           w == Weights(mops, T)
           v == Weights(new, T)
<1>1. new \in Seq(D) /\ Len(new) = N + 1 /\ N \in Nat /\ new[N + 1] = e
      /\ \A i \in 1 .. N : new[i] = mops[i]
  BY AppendProperties, LenProperties
<1> HIDE DEF new
<1>2. w \in [1 .. N -> Nat] /\ v \in [1 .. N + 1 -> Nat] /\ v[N + 1] = Weight(e, T)
      /\ \A i \in 1 .. N : v[i] = w[i]
  <2>1. w \in [1 .. N -> Nat] /\ \A i \in 1 .. N : w[i] = Weight(mops[i], T)
    BY WeightsAre
  <2>2. v \in [1 .. Len(new) -> Nat] /\ \A i \in 1 .. Len(new) : v[i] = Weight(new[i], T)
    BY <1>1, WeightsAre
  <2> HIDE DEF w, v, N
  <2> QED BY <1>1, <2>1, <2>2
<1> HIDE DEF w, v
<1>3. ASSUME NEW j \in 0 .. N PROVE Sum(v, j) = Sum(w, j)
  <2> HIDE DEF N
  <2>1. j \in Nat /\ j <= N /\ j <= N + 1 /\ N + 1 \in Nat /\ \A i \in 1 .. j : v[i] = w[i]
    BY <1>1, <1>2
  <2> QED BY ZenonT(60), <1>1, <1>2, <2>1, SumSame
<1>4. Sum(v, N + 1) = Sum(v, N) + v[N + 1]
  <2> HIDE DEF N
  <2>1. N + 1 \in Nat /\ N < N + 1 /\ N \in Nat
    BY <1>1
  <2> QED BY <1>2, <2>1, SumNext
<1>5. N \in 0 .. N
  BY <1>1
<1> QED BY <1>1, <1>2, <1>3, <1>4, <1>5 DEF Below, Total, new, w, v

LEMMA PutTotal ==
  ASSUME NEW D, Sized(D), NEW mops \in Seq(D), NEW k \in 1 .. Len(mops), NEW e \in D, NEW T
  PROVE  /\ [mops EXCEPT ![k] = e] \in Seq(D) /\ Len([mops EXCEPT ![k] = e]) = Len(mops)
         /\ \A j \in 0 .. Len(mops) :
              Below([mops EXCEPT ![k] = e], T, j) =
                IF j < k THEN Below(mops, T, j)
                ELSE Below(mops, T, j) - Weight(mops[k], T) + Weight(e, T)
         /\ Total([mops EXCEPT ![k] = e], T) = Total(mops, T) - Weight(mops[k], T) + Weight(e, T)
<1> DEFINE new == [mops EXCEPT ![k] = e]
           N == Len(mops)
           w == Weights(mops, T)
           v == Weights(new, T)
<1>1. /\ new \in Seq(D) /\ Len(new) = N /\ N \in Nat /\ new[k] = e
      /\ \A i \in 1 .. N : i # k => new[i] = mops[i]
  BY LenProperties
<1> HIDE DEF new
<1>2. w \in [1 .. N -> Nat] /\ v \in [1 .. N -> Nat] /\ v[k] = Weight(e, T)
      /\ w[k] = Weight(mops[k], T) /\ \A i \in 1 .. N : i # k => v[i] = w[i]
  <2>1. w \in [1 .. N -> Nat] /\ \A i \in 1 .. N : w[i] = Weight(mops[i], T)
    BY WeightsAre
  <2>2. v \in [1 .. Len(new) -> Nat] /\ \A i \in 1 .. Len(new) : v[i] = Weight(new[i], T)
    BY <1>1, WeightsAre
  <2> HIDE DEF w, v
  <2> QED BY <1>1, <2>1, <2>2
<1> HIDE DEF w, v
<1>3. \A n \in 0 .. N : Sum(v, n) = IF n < k THEN Sum(w, n) ELSE Sum(w, n) - w[k] + v[k]
  BY <1>1, <1>2, SumPut
<1>4. N \in 0 .. N /\ ~(N < k)
  BY <1>1
<1>5. \A j : Below(new, T, j) = Sum(v, j) /\ Below(mops, T, j) = Sum(w, j)
  BY DEF Below, v, w
<1>6. Total(new, T) = Sum(v, N) /\ Total(mops, T) = Sum(w, N)
  BY <1>1, <1>5 DEF Total
<1> QED BY <1>1, <1>2, <1>3, <1>4, <1>5, <1>6 DEF new

LEMMA PopTotal ==
  ASSUME NEW D, Sized(D), NEW mops \in Seq(D), mops # <<>>, NEW T
  PROVE  /\ SubSeq(mops, 1, Len(mops) - 1) \in Seq(D)
         /\ Len(SubSeq(mops, 1, Len(mops) - 1)) = Len(mops) - 1
         /\ \A j \in 0 .. Len(mops) - 1 :
              Below(SubSeq(mops, 1, Len(mops) - 1), T, j) = Below(mops, T, j)
         /\ Total(mops, T) = Total(SubSeq(mops, 1, Len(mops) - 1), T) + Weight(mops[Len(mops)], T)
<1> DEFINE new == SubSeq(mops, 1, Len(mops) - 1)
           N == Len(mops)
           w == Weights(mops, T)
           v == Weights(new, T)
<1>1. N \in Nat /\ N >= 1
  BY EmptySeq, LenProperties
<1>2. /\ new \in Seq(D) /\ Len(new) = N - 1 /\ \A i \in 1 .. N - 1 : new[i] = mops[i]
  <2>1. N - 1 \in Int /\ 1 \in Int /\ \A i \in 1 .. N - 1 : mops[i] \in D
    BY <1>1, LenProperties
  <2> HIDE DEF N
  <2>2. /\ SubSeq(mops, 1, N - 1) \in Seq(D)
        /\ Len(SubSeq(mops, 1, N - 1)) = IF 1 <= N - 1 THEN N - 1 - 1 + 1 ELSE 0
        /\ \A i \in 1 .. N - 1 - 1 + 1 : SubSeq(mops, 1, N - 1)[i] = mops[1 + i - 1]
    BY <2>1, SubSeqProperties
  <2>3. new = SubSeq(mops, 1, N - 1)
    BY DEF N
  <2> HIDE DEF new
  <2> QED BY <1>1, <2>2, <2>3
<1> HIDE DEF new
<1>3. w \in [1 .. N -> Nat] /\ v \in [1 .. N - 1 -> Nat] /\ w[N] = Weight(mops[N], T)
      /\ \A i \in 1 .. N - 1 : v[i] = w[i]
  <2>1. w \in [1 .. N -> Nat] /\ \A i \in 1 .. N : w[i] = Weight(mops[i], T)
    BY WeightsAre
  <2>2. v \in [1 .. Len(new) -> Nat] /\ \A i \in 1 .. Len(new) : v[i] = Weight(new[i], T)
    BY <1>2, WeightsAre
  <2> HIDE DEF w, v, N
  <2> QED BY <1>1, <1>2, <2>1, <2>2
<1> HIDE DEF w, v
<1>4. ASSUME NEW j \in 0 .. N - 1 PROVE Sum(v, j) = Sum(w, j)
  <2> HIDE DEF N
  <2>1. j \in Nat /\ j <= N /\ j <= N - 1 /\ N - 1 \in Nat /\ \A i \in 1 .. j : w[i] = v[i]
    BY <1>1, <1>3
  <2> QED BY ZenonT(60), <1>1, <1>3, <2>1, SumSame
<1>5. Sum(w, N) = Sum(w, N - 1) + w[N]
  <2> HIDE DEF N
  <2>1. N \in 1 .. N
    BY <1>1
  <2>2. \A n \in 1 .. N : Sum(w, n) = Sum(w, n - 1) + w[n]
    BY <1>1, <1>3, SumLaws
  <2> QED BY <2>1, <2>2
<1>6. N - 1 \in 0 .. N - 1
  BY <1>1
<1>7. \A j : Below(new, T, j) = Sum(v, j) /\ Below(mops, T, j) = Sum(w, j)
  BY DEF Below, v, w
<1>8. Total(new, T) = Sum(v, N - 1) /\ Total(mops, T) = Sum(w, N)
  BY <1>2, <1>7 DEF Total
<1> QED BY <1>2, <1>3, <1>4, <1>5, <1>6, <1>7, <1>8 DEF new

(* A record dropped from its place, which the last one fills.              *)
LEMMA SwapOutTotal ==
  ASSUME NEW D, Sized(D), NEW mops \in Seq(D), NEW k \in 1 .. Len(mops), NEW T
  PROVE  /\ SwapOut(mops, k) \in Seq(D) /\ Len(SwapOut(mops, k)) = Len(mops) - 1
         /\ \A j \in 0 .. k - 1 : Below(SwapOut(mops, k), T, j) = Below(mops, T, j)
         /\ Total(mops, T) = Total(SwapOut(mops, k), T) + Weight(mops[k], T)
<1> DEFINE N == Len(mops)
           put == [mops EXCEPT ![k] = mops[N]]
           new == SubSeq(put, 1, N - 1)
<1>1. N \in Nat /\ N >= 1 /\ N \in 1 .. N /\ k \in 1 .. N
  BY LenProperties
<1>2. mops[N] \in D /\ mops[k] \in D /\ \A e \in D : Weight(e, T) \in Nat
  BY <1>1, WeightsAre
<1>3. /\ put \in Seq(D) /\ Len(put) = N
      /\ \A j \in 0 .. N : Below(put, T, j) =
           IF j < k THEN Below(mops, T, j) ELSE Below(mops, T, j) - Weight(mops[k], T) + Weight(mops[N], T)
      /\ Total(put, T) = Total(mops, T) - Weight(mops[k], T) + Weight(mops[N], T)
  BY <1>2, PutTotal
<1>4. put[N] = mops[N]
  BY <1>1
<1>5. put # <<>>
  BY <1>1, <1>3, EmptySeq
<1> HIDE DEF put
<1>6. /\ new \in Seq(D) /\ Len(new) = N - 1
      /\ \A j \in 0 .. N - 1 : Below(new, T, j) = Below(put, T, j)
      /\ Total(put, T) = Total(new, T) + Weight(mops[N], T)
  <2>1. /\ SubSeq(put, 1, Len(put) - 1) \in Seq(D)
        /\ Len(SubSeq(put, 1, Len(put) - 1)) = Len(put) - 1
        /\ \A j \in 0 .. Len(put) - 1 : Below(SubSeq(put, 1, Len(put) - 1), T, j) = Below(put, T, j)
        /\ Total(put, T) = Total(SubSeq(put, 1, Len(put) - 1), T) + Weight(put[Len(put)], T)
    BY <1>3, <1>5, PopTotal
  <2> QED BY <1>3, <1>4, <2>1
<1>7. SwapOut(mops, k) = new
  BY DEF SwapOut, new, put
<1> HIDE DEF new
<1>8. Total(mops, T) \in Nat /\ Total(new, T) \in Nat
  <2>1. N - 1 \in 0 .. N - 1 /\ N \in 0 .. N
    BY <1>1
  <2> QED BY <1>6, <2>1, BelowLaws DEF Total
<1>9. \A j \in 0 .. k - 1 : j \in 0 .. N - 1 /\ j \in 0 .. N /\ j < k
  BY <1>1
<1>10. \A j \in 0 .. k - 1 : Below(new, T, j) = Below(mops, T, j)
  BY <1>3, <1>6, <1>9
<1>11. Total(mops, T) = Total(new, T) + Weight(mops[k], T)
  <2>1. /\ Total(put, T) = Total(mops, T) - Weight(mops[k], T) + Weight(mops[N], T)
        /\ Total(put, T) = Total(new, T) + Weight(mops[N], T)
        /\ Weight(mops[k], T) \in Nat /\ Weight(mops[N], T) \in Nat
    BY <1>2, <1>3, <1>6
  <2> HIDE DEF N
  <2> QED BY <1>8, <2>1
<1> QED BY <1>6, <1>7, <1>10, <1>11
-----------------------------------------------------------------------------
(* The statistics of a tracker: StatsExact of AllocTracker, and that a     *)
(* mark has no size.                                                       *)
HEAP == {"HEAP"}
Exact(t) ==
  /\ \A i \in DOMAIN t.mops : t.mops[i].type = "MARK" => t.mops[i].nbytes = 0
  /\ t.cur = Total(t.mops, HEAP) /\ t.cur <= t.max /\ t.max <= t.size

LEMMA MopSized == Sized(Mop)
  BY WordSizes DEF Sized, Mop, Size

LEMMA SoundParts ==
  ASSUME NEW t, Sound(t)
  PROVE  /\ t \in Tracker /\ t.mops \in Seq(Mop) /\ t.live \in SUBSET Ptr
         /\ DOMAIN t.mops = 1 .. Len(t.mops) /\ Len(t.mops) \in Nat
         /\ t.cur \in Nat /\ t.max \in Nat /\ t.size \in Nat
         /\ t.cur <= SizeMax /\ t.max <= SizeMax /\ t.size <= SizeMax
         /\ \A i \in 1 .. Len(t.mops) :
              /\ t.mops[i] \in Mop /\ t.mops[i].nbytes \in Nat
              /\ t.mops[i].nbytes <= SizeMax /\ t.mops[i].type \in {"MARK", "HEAP"}
<1>1. t \in Tracker /\ t.mops \in Seq(Mop) /\ t.live \in SUBSET Ptr
      /\ t.cur \in Size /\ t.max \in Size /\ t.size \in Size
  BY DEF Sound, Tracker
<1>2. /\ DOMAIN t.mops = 1 .. Len(t.mops) /\ Len(t.mops) \in Nat
      /\ \A i \in 1 .. Len(t.mops) : t.mops[i] \in Mop
  BY <1>1, LenProperties
<1>3. \A e \in Mop : e.nbytes \in Size /\ e.type \in {"MARK", "HEAP"}
  BY DEF Mop
<1>4. \A s \in Size : s \in Nat /\ s <= SizeMax
  BY WordIsNat DEF Size
<1> QED BY <1>1, <1>2, <1>3, <1>4

LEMMA ExactIsStats ==
  ASSUME NEW t, Sound(t), Exact(t)
  PROVE  t.cur = RecordedBytes(t.mops) /\ t.cur <= t.max /\ t.max <= t.size
<1> DEFINE n == Len(t.mops)
           w == Weights(t.mops, HEAP)
           IsF(f) == f = [i \in 0 .. n |-> IF i = 0 THEN 0 ELSE f[i - 1] + t.mops[i].nbytes]
<1>1. n \in Nat /\ w \in [1 .. n -> Nat] /\ \A i \in 1 .. n : w[i] = t.mops[i].nbytes
  <2>1. /\ t.mops \in Seq(Mop) /\ n \in Nat /\ DOMAIN t.mops = 1 .. n
        /\ \A i \in 1 .. n : t.mops[i].type \in {"MARK", "HEAP"}
    BY SoundParts
  <2>2. w \in [1 .. n -> Nat] /\ \A i \in 1 .. n : w[i] = Weight(t.mops[i], HEAP)
    BY <2>1, MopSized, WeightsAre
  <2>3. \A i \in 1 .. n : Weight(t.mops[i], HEAP) = t.mops[i].nbytes
    BY <2>1 DEF Weight, HEAP, Exact
  <2> QED BY <2>1, <2>2, <2>3
<1>2. RecordedBytes(t.mops) = (CHOOSE f : IsF(f))[n]
  BY DEF RecordedBytes
<1>3. ASSUME NEW f PROVE IsF(f) <=> IsRec(f, w, n)
  BY <1>1 DEF IsRec
<1> HIDE DEF IsF, n, w
<1>4. \E f : IsF(f)
  <2>1. n \in 0 .. n
    BY <1>1
  <2>2. PICK f : IsSum(f, w, n)
    BY <1>1, <2>1, SumExists
  <2> QED BY <1>1, <1>3, <2>2, RecIsSum
<1> DEFINE f == CHOOSE f : IsF(f)
<1>5. IsSum(f, w, n)
  <2>1. IsF(f)
    BY <1>4
  <2> HIDE DEF f
  <2> QED BY <1>1, <1>3, <2>1, RecIsSum
<1> HIDE DEF f
<1>6. f[n] = Sum(w, n)
  BY <1>1, <1>5, SumIs
<1>7. RecordedBytes(t.mops) = Total(t.mops, HEAP)
  BY <1>1, <1>2, <1>6 DEF f, n, w, Total, Below
<1> QED BY <1>7 DEF Exact

LEMMA SameExact ==
  ASSUME NEW t, NEW u, Exact(t), u.mops = t.mops, u.cur = t.cur, u.max = t.max, u.size = t.size
  PROVE  Exact(u)
  BY DEF Exact

LEMMA NoExact ==
  ASSUME NEW u, u.mops = <<>>, u.cur = 0, u.max = 0, u.size = 0
  PROVE  Exact(u)
<1>1. <<>> \in Seq(Mop) /\ Len(<<>>) = 0
  BY EmptySeq
<1>2. Below(<<>>, HEAP, 0) = 0
  BY <1>1, MopSized, BelowLaws
<1> QED BY <1>1, <1>2 DEF Exact, Total

LEMMA AddExact ==
  ASSUME NEW t, Sound(t), Exact(t), NEW e \in Mop, e.type = "MARK" => e.nbytes = 0, NEW u,
         u.mops = Append(t.mops, e), u.cur = t.cur + e.nbytes, u.size = t.size + e.nbytes,
         u.max = IF t.max < u.cur THEN u.cur ELSE t.max
  PROVE  Exact(u)
<1>1. /\ t.mops \in Seq(Mop) /\ Len(t.mops) \in Nat /\ DOMAIN t.mops = 1 .. Len(t.mops)
      /\ t.cur \in Nat /\ t.max \in Nat /\ t.size \in Nat
  BY SoundParts
<1>2. e.nbytes \in Nat /\ e.type \in {"MARK", "HEAP"}
  BY WordSizes DEF Mop, Size
<1>3. Total(u.mops, HEAP) = Total(t.mops, HEAP) + Weight(e, HEAP) /\ Weight(e, HEAP) = e.nbytes
  <2>1. Total(Append(t.mops, e), HEAP) = Total(t.mops, HEAP) + Weight(e, HEAP)
    BY <1>1, MopSized, AppendTotal
  <2>2. Weight(e, HEAP) = e.nbytes
    BY <1>2 DEF Weight, HEAP
  <2> QED BY <2>1, <2>2
<1>4. u.cur = Total(u.mops, HEAP)
  BY <1>3 DEF Exact
<1>5. u.cur <= u.max /\ u.max <= u.size
  BY <1>1, <1>2 DEF Exact
<1>6. \A i \in DOMAIN u.mops : u.mops[i].type = "MARK" => u.mops[i].nbytes = 0
  BY <1>1, AppendProperties DEF Exact
<1> QED BY <1>4, <1>5, <1>6 DEF Exact

(* The record at i leaves the log, by a swap or from the end of it.        *)
LEMMA DropExact ==
  ASSUME NEW t, Sound(t), Exact(t), NEW i \in 1 .. Len(t.mops), NEW u,
         \/ u.mops = SwapOut(t.mops, i)
         \/ i = Len(t.mops) /\ u.mops = SubSeq(t.mops, 1, Len(t.mops) - 1),
         u.cur = IF t.mops[i].type = "MARK" THEN t.cur ELSE WordSub(t.cur, t.mops[i].nbytes),
         u.size = t.size, u.max = t.max
  PROVE  Exact(u)
<1> DEFINE N == Len(t.mops)
           e == t.mops[i]
<1>1. /\ t.mops \in Seq(Mop) /\ N \in Nat /\ DOMAIN t.mops = 1 .. N
      /\ t.cur \in Nat /\ t.max \in Nat /\ t.size \in Nat
      /\ e \in Mop /\ e.nbytes \in Nat /\ e.type \in {"MARK", "HEAP"} /\ t.mops # <<>>
  <2>1. t.mops # <<>>
    BY SoundParts, EmptySeq
  <2> QED BY <2>1, SoundParts
<1>2. Weight(e, HEAP) = e.nbytes
  BY <1>1 DEF Weight, Exact, HEAP
<1>3. /\ u.mops \in Seq(Mop) /\ Total(t.mops, HEAP) = Total(u.mops, HEAP) + Weight(e, HEAP)
  <2>1. /\ SwapOut(t.mops, i) \in Seq(Mop)
        /\ Total(t.mops, HEAP) = Total(SwapOut(t.mops, i), HEAP) + Weight(e, HEAP)
    BY <1>1, MopSized, SwapOutTotal
  <2>2. i = N => /\ SubSeq(t.mops, 1, N - 1) \in Seq(Mop)
                 /\ Total(t.mops, HEAP) = Total(SubSeq(t.mops, 1, N - 1), HEAP) + Weight(e, HEAP)
    BY <1>1, MopSized, PopTotal
  <2> QED BY <2>1, <2>2
<1>4. Total(u.mops, HEAP) \in Nat
  <2>1. Len(u.mops) \in 0 .. Len(u.mops)
    BY <1>3, LenProperties
  <2> QED BY <1>3, <2>1, MopSized, BelowLaws DEF Total
<1>5. u.cur = Total(u.mops, HEAP) /\ u.cur <= t.cur
  <2>1. t.cur = Total(u.mops, HEAP) + e.nbytes
    BY <1>2, <1>3 DEF Exact
  <2>2. e.type = "MARK" => e.nbytes = 0
    BY <1>1 DEF Exact
  <2> HIDE DEF e
  <2>3. u.cur = IF e.type = "MARK" THEN t.cur ELSE WordSub(t.cur, e.nbytes)
    BY DEF e
  <2> QED BY <1>1, <1>4, <2>1, <2>2, <2>3 DEF WordSub
<1>6. u.cur <= u.max /\ u.max <= u.size
  BY <1>1, <1>4, <1>5 DEF Exact
<1>7. \A j \in DOMAIN u.mops : \E k \in 1 .. N : u.mops[j] = t.mops[k]
  <2>1. CASE u.mops = SwapOut(t.mops, i)
    <3> DEFINE put == [t.mops EXCEPT ![i] = t.mops[N]]
    <3>1. put \in Seq(Mop) /\ Len(put) = N /\ N - 1 \in Nat /\ N \in 1 .. N
          /\ \A j \in 1 .. N : put[j] = IF j = i THEN t.mops[N] ELSE t.mops[j]
      BY <1>1
    <3>2. u.mops = SubSeq(put, 1, N - 1)
      BY <2>1 DEF SwapOut
    <3> HIDE DEF put, N
    <3>3. Len(u.mops) = N - 1 /\ DOMAIN u.mops = 1 .. N - 1
          /\ \A j \in 1 .. N - 1 : u.mops[j] = put[j]
      BY <1>3, <3>1, <3>2, SubSeqProperties
    <3> QED BY <1>1, <3>1, <3>3
  <2>2. CASE u.mops = SubSeq(t.mops, 1, N - 1)
    <3>1. N >= 1
      BY <1>1
    <3> HIDE DEF N
    <3>2. N - 1 \in Nat /\ N = Len(t.mops)
      BY <1>1, <3>1 DEF N
    <3>3. Len(u.mops) = N - 1 /\ DOMAIN u.mops = 1 .. N - 1
          /\ \A j \in 1 .. N - 1 : u.mops[j] = t.mops[j]
      BY <1>1, <1>3, <2>2, <3>2, SubSeqProperties
    <3> QED BY <3>2, <3>3
  <2> QED BY <2>1, <2>2
<1>8. \A j \in DOMAIN u.mops : u.mops[j].type = "MARK" => u.mops[j].nbytes = 0
  BY <1>1, <1>7 DEF Exact
<1> QED BY <1>5, <1>6, <1>8 DEF Exact

LEMMA ReplaceExact ==
  ASSUME NEW t, Sound(t), Exact(t), NEW i \in 1 .. Len(t.mops), t.mops[i].type = "HEAP",
         NEW n \in Size, CanRealloc(t, i, n), NEW p \in Ptr, NEW u,
         u.mops = [t.mops EXCEPT ![i] = Heap(n, p)],
         u.cur = WordAdd(WordSub(t.cur, t.mops[i].nbytes), n), u.size = t.size + n,
         u.max = IF t.max < u.cur THEN u.cur ELSE t.max
  PROVE  Exact(u)
<1> DEFINE N == Len(t.mops)
           old == t.mops[i].nbytes
           rec == Heap(n, p)
           rest == Total(t.mops, HEAP) - old
<1>1. /\ t.mops \in Seq(Mop) /\ N \in Nat /\ DOMAIN t.mops = 1 .. N
      /\ t.cur \in Nat /\ t.max \in Nat /\ t.size \in Nat /\ t.cur <= SizeMax /\ old \in Nat
  BY SoundParts
<1>2. rec \in Mop /\ rec.type = "HEAP" /\ rec.nbytes = n /\ n \in Nat /\ n <= SizeMax
      /\ SizeMax \in Nat
  BY WordIsNat DEF Heap, Mop, Size
<1> HIDE DEF rec
<1>3. /\ Weight(rec, HEAP) = n /\ Weight(t.mops[i], HEAP) = old
  BY <1>2 DEF Weight, HEAP
<1>4. Total(u.mops, HEAP) = Total(t.mops, HEAP) - old + n
  <2>1. Total([t.mops EXCEPT ![i] = rec], HEAP)
          = Total(t.mops, HEAP) - Weight(t.mops[i], HEAP) + Weight(rec, HEAP)
    BY <1>1, <1>2, MopSized, PutTotal
  <2> QED BY <1>3, <2>1 DEF rec
<1>5. old <= Total(t.mops, HEAP) /\ Total(t.mops, HEAP) \in Nat
  <2>1. /\ 0 \in 0 .. N /\ N \in 0 .. N /\ 0 < i /\ i <= N
    BY <1>1
  <2>2. /\ Below(t.mops, HEAP, 0) = 0 /\ Below(t.mops, HEAP, N) \in Nat
        /\ Below(t.mops, HEAP, 0) + Weight(t.mops[i], HEAP) <= Below(t.mops, HEAP, N)
    <3>1. /\ Below(t.mops, HEAP, 0) = 0
          /\ \A j \in 0 .. N : Below(t.mops, HEAP, j) \in Nat
          /\ \A j \in 0 .. N, k \in 0 .. N, l \in 1 .. N :
              j < l /\ l <= k => Below(t.mops, HEAP, j) + Weight(t.mops[l], HEAP) <= Below(t.mops, HEAP, k)
      BY <1>1, MopSized, BelowLaws
    <3> HIDE DEF N
    <3>2. i \in 1 .. N
      BY DEF N
    <3> QED BY <2>1, <3>1, <3>2
  <2> QED BY <1>1, <1>3, <2>2 DEF Total
<1> HIDE DEF old, N
<1>6. /\ n <= old \/ t.cur <= SizeMax - (n - old)
  BY DEF CanRealloc, Fits, old
<1>7. u.cur = t.cur - old + n /\ u.cur \in Nat
  <2>1. t.cur = Total(t.mops, HEAP)
    BY DEF Exact
  <2>2. WordSub(t.cur, old) = t.cur - old /\ t.cur - old \in Nat
    BY <1>1, <1>5, <2>1 DEF WordSub
  <2>3. WordAdd(t.cur - old, n) = t.cur - old + n
    BY <1>1, <1>2, <1>6, <2>2 DEF WordAdd
  <2> QED BY <1>2, <2>2, <2>3 DEF old
<1>8. u.cur = Total(u.mops, HEAP)
  BY <1>4, <1>7 DEF Exact
<1>9. u.cur <= u.max /\ u.max <= u.size
  <2>1. t.cur <= t.max /\ t.max <= t.size
    BY DEF Exact
  <2>2. u.cur <= t.cur + n
    BY ONLY <1>1, <1>2, <1>7
  <2>3. u.size = t.size + n /\ u.max = IF t.max < u.cur THEN u.cur ELSE t.max
    OBVIOUS
  <2>4. CASE t.max < u.cur
    <3>1. u.max = u.cur
      BY ONLY <2>3, <2>4
    <3>2. t.cur + n <= t.size + n
      BY ONLY <1>1, <1>2, <2>1
    <3>3. t.cur + n \in Nat /\ u.cur \in Nat /\ t.size + n \in Nat
      <4>1. t.cur \in Nat /\ n \in Nat /\ t.size \in Nat /\ u.cur \in Nat
        BY Zenon, <1>1, <1>2, <1>7
      <4> QED BY ONLY <4>1
    <3>4. u.cur <= t.size + n
      BY ONLY <2>2, <3>2, <3>3
    <3> QED BY ONLY <1>7, <2>3, <3>1, <3>4
  <2>5. CASE ~(t.max < u.cur)
    <3>1. u.max = t.max
      BY ONLY <2>3, <2>5
    <3> QED BY ONLY <1>1, <1>2, <1>7, <2>1, <2>3, <2>5, <3>1
  <2> QED BY <2>4, <2>5
<1>10. \A j \in DOMAIN u.mops : u.mops[j].type = "MARK" => u.mops[j].nbytes = 0
  <2>1. DOMAIN u.mops = DOMAIN t.mops /\ u.mops[i] = rec /\ \A j \in DOMAIN t.mops : j # i => u.mops[j] = t.mops[j]
    BY <1>1 DEF rec, N
  <2> QED BY <1>2, <2>1 DEF Exact
<1> QED BY <1>8, <1>9, <1>10 DEF Exact

(* The statistics stay exact through every operator.                       *)
LEMMA EnsureCapacityKeeps ==
  ASSUME NEW t, Sound(t), NEW e \in EnsureCapacity(t)
  PROVE  /\ e.t \in Tracker /\ e.t.on = t.on /\ e.t.live = t.live /\ e.t.mops = t.mops
         /\ e.t.num = t.num /\ e.t.size = t.size /\ e.t.cur = t.cur /\ e.t.max = t.max
         /\ e.err \in {"ok", "ENOMEM", "EOVERFLOW"}
<1>1. e.t = [t EXCEPT !.nmops = e.t.nmops] /\ e.t \in Tracker /\ t \in Tracker
  BY EnsureCapacitySound DEF Sound
<1>2. e.err \in {"ok", "ENOMEM", "EOVERFLOW"}
  BY DEF EnsureCapacity, Ok, Failed
<1> QED BY <1>1, <1>2 DEF Tracker

LEMMA RawMallocExact ==
  ASSUME NEW t, Sound(t), Exact(t), NEW o \in RawMalloc(t) PROVE Exact(o.t)
<1>1. CASE o = Failed(t, "ENOMEM")
  BY <1>1 DEF Failed
<1>2. ASSUME NEW p \in Ptr, o = Ok([t EXCEPT !.live = @ \cup {p}], p) PROVE Exact(o.t)
  <2>1. /\ o.t.mops = t.mops /\ o.t.cur = t.cur /\ o.t.max = t.max /\ o.t.size = t.size
    BY <1>2 DEF Ok, Sound, Tracker
  <2> QED BY <2>1, SameExact
<1> QED BY <1>1, <1>2 DEF RawMalloc

LEMMA RawReallocExact ==
  ASSUME NEW t, Sound(t), Exact(t), NEW old, NEW o \in RawRealloc(t, old) PROVE Exact(o.t)
<1>1. CASE o = Failed(t, "ENOMEM")
  BY <1>1 DEF Failed
<1>2. ASSUME NEW p, o = Ok([t EXCEPT !.live = (@ \ {old}) \cup {p}], p) PROVE Exact(o.t)
  <2>1. /\ o.t.mops = t.mops /\ o.t.cur = t.cur /\ o.t.max = t.max /\ o.t.size = t.size
    BY <1>2 DEF Ok, Sound, Tracker
  <2> QED BY <2>1, SameExact
<1> QED BY <1>1, <1>2, RawMallocExact DEF RawRealloc

LEMMA TrackedMallocExact ==
  ASSUME NEW t, Sound(t), Exact(t), NEW n \in Size, NEW o \in TrackedMalloc(t, n)
  PROVE  Exact(o.t)
<1>1. CASE o = Failed(t, "EOVERFLOW")
  BY <1>1 DEF Failed
<1>2. ASSUME NEW e \in EnsureCapacity(t),
             \/ o = e
             \/ \E r \in RawMalloc(e.t) :
                  o = IF r.err = "ok" THEN Ok(AddHeap(r.t, n, r.ptr), r.ptr) ELSE r
      PROVE  Exact(o.t)
  <2>1. Exact(e.t) /\ Sound(e.t)
    <3>1. e.t.mops = t.mops /\ e.t.size = t.size /\ e.t.cur = t.cur /\ e.t.max = t.max
      BY EnsureCapacityKeeps
    <3> QED BY <3>1, EnsureCapacitySound, SameExact
  <2>2. ASSUME NEW r \in RawMalloc(e.t),
               o = IF r.err = "ok" THEN Ok(AddHeap(r.t, n, r.ptr), r.ptr) ELSE r
        PROVE  Exact(o.t)
    <3>1. Exact(r.t) /\ Sound(r.t)
      BY <2>1, RawMallocSound, RawMallocExact DEF SoundOutcome
    <3>2. CASE r.err = "ok"
      <4>1. r.ptr \in Ptr
        BY <2>1, <3>2, RawMallocSound
      <4> DEFINE rec == Heap(n, r.ptr)
      <4>2. rec \in Mop /\ rec.type = "HEAP" /\ rec.nbytes = n
        BY <4>1 DEF Heap, Mop
      <4>3. /\ o.t.mops = Append(r.t.mops, rec) /\ o.t.cur = r.t.cur + n
            /\ o.t.size = r.t.size + n
            /\ o.t.max = IF r.t.max < o.t.cur THEN o.t.cur ELSE r.t.max
        BY <2>2, <3>1, <3>2 DEF Ok, AddHeap, Sound, Tracker
      <4> HIDE DEF rec
      <4> QED BY <3>1, <4>2, <4>3, AddExact
    <3>3. CASE r.err # "ok"
      BY <2>2, <3>1, <3>3
    <3> QED BY <3>2, <3>3
  <2> QED BY <1>2, <2>1, <2>2
<1> QED BY <1>1, <1>2 DEF TrackedMalloc, RecordMalloc

LEMMA MallocExact ==
  ASSUME NEW t, Sound(t), Exact(t), NEW n \in Size, NEW o \in MallocNosignal(t, n)
  PROVE  Exact(o.t)
<1>1. Bytes(n) \in Size
  BY BytesIsSize
<1> QED BY <1>1, RawMallocExact, TrackedMallocExact DEF MallocNosignal

LEMMA ReallocRecordExact ==
  ASSUME NEW t, Sound(t), Exact(t), NEW old \in Ptr, NEW i \in FindAny(t.mops, old),
         NEW n \in Size, NEW o \in ReallocRecord(t, i, old, n)
  PROVE  Exact(o.t)
<1>1. CASE o = Failed(t, "EOVERFLOW")
  BY <1>1 DEF Failed
<1>2. ASSUME CanRealloc(t, i, n), NEW r \in RawRealloc(t, old),
             o = IF r.err = "ok" THEN Ok(UpdateRealloc(r.t, i, n, r.ptr), r.ptr) ELSE r
      PROVE  Exact(o.t)
  <2>1. CASE r = Failed(t, "ENOMEM")
    BY <1>2, <2>1 DEF Failed
  <2>2. ASSUME NEW p \in Ptr, r = Ok([t EXCEPT !.live = (@ \ {old}) \cup {p}], p)
        PROVE  Exact(o.t)
    <3>1. o = Ok(UpdateRealloc([t EXCEPT !.live = (@ \ {old}) \cup {p}], i, n, p), p)
      BY <1>2, <2>2 DEF Ok
    <3>2. /\ o.t.mops = [t.mops EXCEPT ![i] = Heap(n, p)]
          /\ o.t.cur = WordAdd(WordSub(t.cur, t.mops[i].nbytes), n)
          /\ o.t.size = t.size + n
          /\ o.t.max = IF t.max < o.t.cur THEN o.t.cur ELSE t.max
      BY <3>1 DEF Ok, UpdateRealloc, Sound, Tracker
    <3>3. i \in 1 .. Len(t.mops) /\ t.mops[i].type = "HEAP"
      BY SoundParts DEF FindAny
    <3> QED BY <1>2, <3>2, <3>3, ReplaceExact
  <2>3. (Ptr \ t.live) \cup {old} \subseteq Ptr /\ old # NULL
    BY NullIsNoAddress
  <2> QED BY <1>2, <2>1, <2>2, <2>3 DEF RawRealloc
<1> QED BY <1>1, <1>2 DEF ReallocRecord

LEMMA ReallocExact ==
  ASSUME NEW t, Sound(t), Exact(t), NEW old \in Ptr \cup {NULL}, NEW n \in Size,
         NEW o \in ReallocNosignal(t, old, n) \cup ReallocMcore(t, old, n)
  PROVE  Exact(o.t)
<1>1. Bytes(n) \in Size
  BY BytesIsSize
<1>2. CASE o \in RawRealloc(t, old) \/ o \in TrackedMalloc(t, Bytes(n)) \/ o = Failed(t, "EINVAL")
  BY <1>1, <1>2, RawReallocExact, TrackedMallocExact DEF Failed
<1>3. ASSUME old # NULL, NEW i \in FindAny(t.mops, old), o \in ReallocRecord(t, i, old, Bytes(n))
      PROVE  Exact(o.t)
  BY <1>1, <1>3, ReallocRecordExact
<1> QED BY <1>2, <1>3 DEF ReallocNosignal, ReallocMcore, Last, FindQuiet

LEMMA FreeExact ==
  ASSUME NEW t, Sound(t), Exact(t), NEW p, NEW o \in FreeNosignal(t, p)
  PROVE  Exact(o.t)
<1>1. CASE o = Ok(t, NULL) \/ o = Failed(t, "EINVAL")
  BY <1>1 DEF Ok, Failed
<1>2. CASE o = Ok(RawFree(t, p), NULL)
  <2>1. o.t.mops = t.mops /\ o.t.cur = t.cur /\ o.t.max = t.max /\ o.t.size = t.size
    BY <1>2 DEF Ok, RawFree, Sound, Tracker
  <2> QED BY <2>1, SameExact
<1>3. ASSUME NEW i \in FindAny(t.mops, p), o = Ok(RawFree(DropRecord(t, i), p), NULL)
      PROVE  Exact(o.t)
  <2>1. /\ o.t.mops = SwapOut(t.mops, i) /\ o.t.cur = WordSub(t.cur, t.mops[i].nbytes)
        /\ o.t.max = t.max /\ o.t.size = t.size
    BY <1>3 DEF Ok, RawFree, DropRecord, SwapOut, Sound, Tracker
  <2>2. i \in 1 .. Len(t.mops) /\ t.mops[i].type = "HEAP"
    BY SoundParts DEF FindAny
  <2> QED BY <2>1, <2>2, DropExact
<1> QED BY <1>1, <1>2, <1>3 DEF FreeNosignal, Last, FindQuiet

LEMMA MallocInitExact ==
  ASSUME NEW t, Sound(t), Exact(t), NEW o \in MallocInitOutcomes(t)
  PROVE  Exact(o.t)
<1>1. CASE o = Failed(t, "ENOMEM")
  BY <1>1 DEF Failed
<1>2. ASSUME NEW s, s = t \/ s = Fresh(t), NEW e \in EnsureCapacity(s),
             o = IF e.err = "ok" THEN Ok(AddMark(e.t), NULL) ELSE e
      PROVE  Exact(o.t)
  <2>1. InitMops \in Size /\ 0 \in Size /\ <<>> \in Seq(Mop) /\ Len(<<>>) = 0 /\ 0 <= InitMops
    BY WordSizes, EmptySeq DEF Size
  <2>3. s \in Tracker /\ Len(s.mops) <= s.nmops /\ Exact(s)
    <3>1. s = Fresh(t) => /\ s \in Tracker /\ s.mops = <<>> /\ s.nmops = InitMops
                          /\ s.cur = 0 /\ s.max = 0 /\ s.size = 0
      BY <2>1 DEF Fresh, Sound, Tracker
    <3> QED BY <1>2, <2>1, <3>1, NoExact DEF Sound
  <2>4. e.t = [s EXCEPT !.nmops = e.t.nmops]
    BY <1>2, <2>3, EnsureCapacityOutcome
  <2>5. /\ e.t.mops = s.mops /\ e.t.cur = s.cur /\ e.t.max = s.max /\ e.t.size = s.size
        /\ e.t.on = s.on /\ e.t.live = s.live /\ e.t.num = s.num
    BY <2>3, <2>4 DEF Tracker
  <2>6. Exact(e.t)
    BY <2>3, <2>5, SameExact
  <2>7. CASE e.err = "ok"
    <3>1. /\ o.t.mops = Append(s.mops, Mark) /\ o.t.cur = s.cur /\ o.t.max = s.max /\ o.t.size = s.size
      <4>1. o.t = [e.t EXCEPT !.mops = Append(e.t.mops, Mark)]
        BY <1>2, <2>7 DEF Ok, AddMark
      <4> QED BY <2>3, <2>4, <2>5, <4>1 DEF Tracker
    <3> DEFINE rec == Mark
    <3>2. rec \in Mop /\ rec.type = "MARK" /\ rec.nbytes = 0
      BY <2>1 DEF Mark, Mop
    <3> HIDE DEF rec
    <3>3. s.mops \in Seq(Mop) /\ s.cur \in Nat /\ s.max \in Nat /\ s.size \in Nat /\ s.cur <= s.max
      BY <2>3, WordIsNat DEF Tracker, Size, Exact
    <3>4. /\ s.cur + 0 = s.cur /\ s.size + 0 = s.size
          /\ s.max = IF s.max < s.cur THEN s.cur ELSE s.max
      BY <3>3
    <3>5. CASE s = t
      BY <2>3, <3>1, <3>2, <3>4, <3>5, AddExact DEF rec
    <3>6. CASE s = Fresh(t)
      <4> DEFINE z == [s EXCEPT !.on = FALSE]
      <4>1. /\ z \in Tracker /\ z.mops = <<>> /\ z.cur = 0 /\ z.max = 0 /\ z.size = 0 /\ z.on = FALSE
            /\ z.nmops = InitMops /\ s.mops = <<>> /\ s.cur = 0 /\ s.max = 0 /\ s.size = 0
        BY <2>1, <2>3, <3>6 DEF Fresh, Tracker, Sound
      <4> HIDE DEF z
      <4>2. Sound(z) /\ Exact(z)
        <5>1. Owns(z.mops, z.live) /\ Anchored(z.on, z.mops)
          BY <4>1 DEF Owns, HeapRecords, Anchored
        <5> QED BY <2>1, <4>1, <5>1, NoExact DEF Sound
      <4>3. /\ o.t.mops = Append(z.mops, rec) /\ o.t.cur = z.cur + rec.nbytes
            /\ o.t.size = z.size + rec.nbytes
            /\ o.t.max = IF z.max < o.t.cur THEN o.t.cur ELSE z.max
        BY <3>1, <3>2, <4>1 DEF rec
      <4> QED BY <3>2, <4>2, <4>3, AddExact
    <3> QED BY <1>2, <3>5, <3>6
  <2>8. CASE e.err # "ok"
    BY <1>2, <2>6, <2>8
  <2> QED BY <2>7, <2>8
<1> QED BY <1>1, <1>2 DEF MallocInitOutcomes, PushMark

LEMMA PopRecordExact ==
  ASSUME NEW t, Sound(t), t.on, Exact(t)
  PROVE  Exact(PopRecord(t)) /\ Exact(FinishPop(PopRecord(t)))
<1> DEFINE u == PopRecord(t)
           top == t.mops[Len(t.mops)]
<1>1. Len(t.mops) \in 1 .. Len(t.mops) /\ top.type \in {"MARK", "HEAP"}
  <2>1. t.mops \in Seq(Mop) /\ t.mops # <<>> /\ Len(t.mops) \in Nat
    BY SoundParts DEF Sound, Anchored
  <2>2. Len(t.mops) \in 1 .. Len(t.mops)
    BY <2>1, EmptySeq
  <2> QED BY <2>2, SoundParts
<1>2. /\ u.mops = SubSeq(t.mops, 1, Len(t.mops) - 1) /\ u.size = t.size /\ u.max = t.max
      /\ u.cur = IF top.type = "MARK" THEN t.cur ELSE WordSub(t.cur, top.nbytes)
  BY DEF PopRecord, RawFree, Sound, Tracker
<1>3. Exact(u)
  <2> HIDE DEF u
  <2> QED BY <1>1, <1>2, DropExact
<1>4. ASSUME NEW s, s = Destroyed(u) PROVE Exact(s)
  <2>1. u = [u EXCEPT !.mops = u.mops] /\ s.mops = <<>> /\ s.cur = 0 /\ s.max = 0 /\ s.size = 0
    BY <1>4 DEF Destroyed, PopRecord, RawFree, Sound, Tracker
  <2> QED BY <2>1, NoExact
<1> HIDE DEF u
<1> QED BY <1>3, <1>4 DEF FinishPop, u
-----------------------------------------------------------------------------
(* gk_malloc_init leaves every block where it is.                          *)
LEMMA MallocInitKeeps ==
  ASSUME NEW t, Sound(t), NEW o \in MallocInitOutcomes(t)
  PROVE  /\ o.t.live = t.live /\ o.err \in {"ok", "ENOMEM", "EOVERFLOW"}
         /\ \A q : Home(o.t.mops, q) = Home(t.mops, q)
         /\ o.err = "ok" => MarkSet(o.t.mops) = MarkSet(t.mops) \cup {Len(t.mops) + 1}
<1>1. CASE o = Failed(t, "ENOMEM")
  BY <1>1 DEF Failed
<1>2. ASSUME NEW s, s = t \/ (~t.on /\ s = Fresh(t)), NEW e \in EnsureCapacity(s),
             o = IF e.err = "ok" THEN Ok(AddMark(e.t), NULL) ELSE e
      PROVE  /\ o.t.live = t.live /\ o.err \in {"ok", "ENOMEM", "EOVERFLOW"}
             /\ \A q : Home(o.t.mops, q) = Home(t.mops, q)
             /\ o.err = "ok" => MarkSet(o.t.mops) = MarkSet(t.mops) \cup {Len(t.mops) + 1}
  <2>1. InitMops \in Size /\ 0 \in Size /\ <<>> \in Seq(Mop) /\ Len(<<>>) = 0 /\ 0 <= InitMops
    BY WordSizes, EmptySeq DEF Size
  <2>2. s \in Tracker /\ Len(s.mops) <= s.nmops /\ s.mops = t.mops /\ s.live = t.live
    <3>1. s = Fresh(t) => /\ s \in Tracker /\ s.mops = <<>> /\ s.nmops = InitMops /\ s.live = t.live
      BY <2>1 DEF Fresh, Sound, Tracker
    <3>2. ~t.on => t.mops = <<>>
      BY DEF Sound, Anchored
    <3> QED BY <1>2, <2>1, <3>1, <3>2 DEF Sound
  <2>3. e.t = [s EXCEPT !.nmops = e.t.nmops]
    BY <1>2, <2>2, EnsureCapacityOutcome
  <2>4. e.t.mops = t.mops /\ e.t.live = t.live /\ e.t \in Tracker
    BY <1>2, <2>2, <2>3, EnsureCapacityOutcome DEF Tracker
  <2>5. e.err \in {"ok", "ENOMEM", "EOVERFLOW"}
    BY DEF EnsureCapacity, Ok, Failed
  <2>6. CASE e.err = "ok"
    <3>1. o.t.mops = Append(t.mops, Mark) /\ o.t.live = t.live /\ o.err = "ok"
      BY <1>2, <2>4, <2>6 DEF Ok, AddMark, Tracker
    <3> DEFINE rec == Mark
    <3>2. rec \in Mop /\ rec.type = "MARK"
      BY <2>1 DEF Mark, Mop
    <3> HIDE DEF rec
    <3>3. /\ \A q : ~(rec.type = "HEAP" /\ rec.ptr = q) => Home(Append(t.mops, rec), q) = Home(t.mops, q)
          /\ MarkSet(Append(t.mops, rec)) = MarkSet(t.mops) \cup {Len(t.mops) + 1}
      BY <3>2, AppendHome DEF Sound, Tracker
    <3>4. \A q : Home(Append(t.mops, rec), q) = Home(t.mops, q)
      BY <3>2, <3>3
    <3> QED BY <3>1, <3>3, <3>4 DEF rec
  <2>7. CASE e.err # "ok"
    BY <1>2, <2>4, <2>5, <2>7
  <2> QED BY <2>6, <2>7
<1> QED BY <1>1, <1>2 DEF MallocInitOutcomes, PushMark

(* A turn of gk_malloc_cleanup, with the destruction of the tracker that   *)
(* may end it, reaches only blocks of the innermost frame.                 *)
CleanupStep(t) == IF LoopEnds(t) THEN FinishPop(PopRecord(t)) ELSE PopRecord(t)

LEMMA CleanupKeeps ==
  ASSUME NEW t, Sound(t), t.mops # <<>>, NEW u, u = CleanupStep(t)
  PROVE  /\ Sound(u) /\ u.live \subseteq t.live
         /\ \A q \in t.live : MarkSet(t.mops) \notin Home(t.mops, q)
                                => q \in u.live /\ Home(u.mops, q) = Home(t.mops, q)
         /\ ~LoopEnds(t) => u.mops # <<>> /\ MarkSet(u.mops) = MarkSet(t.mops)
<1> DEFINE N == Len(t.mops)
           new == SubSeq(t.mops, 1, N - 1)
           top == t.mops[N]
           v == PopRecord(t)
<1>1. /\ t \in Tracker /\ t.mops \in Seq(Mop) /\ DOMAIN t.mops = 1 .. N /\ N \in Nat /\ N >= 1
      /\ t.on /\ t.mops[1].type = "MARK" /\ top.type \in {"MARK", "HEAP"}
  <2>1. t.mops \in Seq(Mop) /\ DOMAIN t.mops = 1 .. N /\ N \in Nat /\ t \in Tracker
    BY SoundParts
  <2>2. N >= 1 /\ N \in 1 .. N
    BY <2>1, EmptySeq
  <2>3. t.on /\ t.mops[1].type = "MARK"
    BY DEF Sound, Anchored
  <2> QED BY <2>1, <2>2, <2>3, SoundParts
<1>2. Sound(FinishPop(v)) /\ (~LoopEnds(t) => Sound(v) /\ v.on)
  BY <1>1, PopSound
<1>3. v.mops = new /\ v.live = IF top.type = "MARK" THEN t.live ELSE t.live \ {top.ptr}
  BY <1>1 DEF PopRecord, RawFree, Tracker
<1>4. /\ MarkSet(new) = MarkSet(t.mops) \ {N}
      /\ \A q : ~(top.type = "HEAP" /\ top.ptr = q) => Home(new, q) = Home(t.mops, q)
  <2> HIDE DEF new
  <2>1. new = SubSeq(t.mops, 1, N - 1)
    BY DEF new
  <2> QED BY <1>1, <2>1, PopHome
<1>5. LoopEnds(t) => top.type = "MARK"
  BY <1>1 DEF LoopEnds, TopIsMark
<1>6. FinishPop(v).live = v.live /\ FinishPop(v).mops = v.mops
  <2>1. CASE v.mops # <<>>
    BY <2>1 DEF FinishPop
  <2>2. CASE v.mops = <<>>
    BY <1>1, <2>2 DEF FinishPop, Destroyed, PopRecord, RawFree, Tracker
  <2> QED BY <2>1, <2>2
<1> HIDE DEF v
<1>7. Sound(u) /\ u.live = v.live /\ u.mops = new
  BY <1>2, <1>3, <1>6 DEF CleanupStep, v
<1>8. ASSUME NEW q \in t.live, MarkSet(t.mops) \notin Home(t.mops, q)
      PROVE  q \in u.live /\ Home(u.mops, q) = Home(t.mops, q)
  <2>1. ASSUME top.type = "HEAP", top.ptr = q PROVE FALSE
    <3>1. N \in FindQuiet(t.mops, q)
      BY <1>1, <2>1 DEF FindQuiet, FindAny
    <3> HIDE DEF N
    <3> QED BY <1>1, <1>8, <3>1, QuietHome
  <2> QED BY <1>1, <1>3, <1>4, <1>7, <2>1
<1>9. ASSUME ~LoopEnds(t) PROVE u.mops # <<>> /\ MarkSet(u.mops) = MarkSet(t.mops)
  <2>1. top.type # "MARK"
    BY <1>9 DEF LoopEnds, TopIsMark
  <2>2. N \notin MarkSet(t.mops)
    BY <2>1 DEF MarkSet
  <2>3. u.mops # <<>>
    BY <1>2, <1>3, <1>7, <1>9 DEF Sound, Anchored
  <2> QED BY <1>4, <1>7, <2>2, <2>3
<1> QED BY <1>3, <1>7, <1>8, <1>9
-----------------------------------------------------------------------------
(* gk_free of several pointers: f[i] is what the first i of them leave.    *)
FreeOne(t, p) == CHOOSE o \in FreeNosignal(t, p) : TRUE
GkFreeStep(before, p, i) ==
  LET o == FreeOne(before.t, p)
  IN IF before.err # "ok" THEN before
     ELSE IF o.err # "ok" THEN [before EXCEPT !.err = o.err]
     ELSE [t |-> o.t, kept |-> [before.kept EXCEPT ![i] = NULL], err |-> "ok"]
GkFreeRun(f, t, args, n) ==
  f = [i \in 0 .. n |-> IF i = 0 THEN [t |-> t, kept |-> args, err |-> "ok"]
                        ELSE GkFreeStep(f[i - 1], args[i], i)]

LEMMA GkFreeRuns ==
  ASSUME NEW t, NEW args, Len(args) \in Nat
  PROVE  \E f : /\ GkFree(t, args) = f[Len(args)]
                /\ f[0] = [t |-> t, kept |-> args, err |-> "ok"]
                /\ \A i \in 1 .. Len(args) : f[i] = GkFreeStep(f[i - 1], args[i], i)
<1> DEFINE N == Len(args)
           S == {n \in Nat : n <= N => \E f : GkFreeRun(f, t, args, n)}
           first == [t |-> t, kept |-> args, err |-> "ok"]
           Is(f) == f = [i \in 0 .. N |->
              IF i = 0 THEN [t |-> t, kept |-> args, err |-> "ok"]
              ELSE LET before == f[i - 1]
                       o == CHOOSE o \in FreeNosignal(before.t, args[i]) : TRUE
                   IN IF before.err # "ok" THEN before
                      ELSE IF o.err # "ok" THEN [before EXCEPT !.err = o.err]
                      ELSE [t |-> o.t, kept |-> [before.kept EXCEPT ![i] = NULL], err |-> "ok"]]
<1>1. 0 \in S
  <2> DEFINE f == [i \in 0 .. 0 |-> first]
  <2>1. \A i \in 0 .. 0 : i = 0
    OBVIOUS
  <2>2. f = [i \in 0 .. 0 |-> IF i = 0 THEN first ELSE GkFreeStep(f[i - 1], args[i], i)]
    BY <2>1
  <2>3. GkFreeRun(f, t, args, 0)
    BY <2>2 DEF GkFreeRun
  <2> QED BY <2>3
<1>2. ASSUME NEW n \in Nat, n \in S PROVE n + 1 \in S
  <2> SUFFICES ASSUME n + 1 <= N PROVE \E f : GkFreeRun(f, t, args, n + 1)
    OBVIOUS
  <2>1. PICK f : GkFreeRun(f, t, args, n)
    BY <1>2
  <2> DEFINE g == [i \in 0 .. n + 1 |-> IF i = n + 1 THEN GkFreeStep(f[n], args[n + 1], n + 1) ELSE f[i]]
  <2>2. \A i \in 0 .. n : f[i] = IF i = 0 THEN first ELSE GkFreeStep(f[i - 1], args[i], i)
    BY <2>1 DEF GkFreeRun
  <2>3. /\ g[n + 1] = GkFreeStep(f[n], args[n + 1], n + 1) /\ \A i \in 0 .. n : g[i] = f[i]
        /\ DOMAIN g = 0 .. n + 1 /\ g = [i \in 0 .. n + 1 |-> g[i]]
    OBVIOUS
  <2> HIDE DEF g
  <2>4. ASSUME NEW i \in 0 .. n + 1
        PROVE  g[i] = IF i = 0 THEN first ELSE GkFreeStep(g[i - 1], args[i], i)
    <3>1. CASE i = n + 1
      <4>1. n \in 0 .. n /\ i - 1 = n /\ i # 0
        BY <3>1
      <4> HIDE DEF first
      <4> QED BY <2>3, <3>1, <4>1
    <3>2. CASE i # n + 1
      <4>1. i \in 0 .. n /\ (i # 0 => i - 1 \in 0 .. n)
        BY <3>2
      <4> HIDE DEF first
      <4> QED BY <2>2, <2>3, <4>1
    <3> QED BY <3>1, <3>2
  <2>5. GkFreeRun(g, t, args, n + 1)
    BY <2>3, <2>4 DEF GkFreeRun
  <2> QED BY <2>5
<1> HIDE DEF S
<1>3. Nat \subseteq S
  BY <1>1, <1>2, Inductive
<1>4. \E f : GkFreeRun(f, t, args, N)
  BY <1>3 DEF S
<1>5. \A f : Is(f) <=> GkFreeRun(f, t, args, N)
  BY DEF GkFreeRun, GkFreeStep, FreeOne
<1>6. GkFree(t, args) = (CHOOSE f : Is(f))[N]
  BY DEF GkFree
<1> HIDE DEF Is
<1> DEFINE run == CHOOSE f : Is(f)
<1>7. Is(run)
  BY <1>4, <1>5
<1>8. GkFree(t, args) = run[N]
  BY <1>6
<1> HIDE DEF run
<1>9. run = [i \in 0 .. N |-> IF i = 0 THEN first ELSE GkFreeStep(run[i - 1], args[i], i)]
  BY <1>5, <1>7 DEF GkFreeRun
<1>10. run[0] = first
  BY <1>9
<1>11. ASSUME NEW i \in 1 .. N PROVE run[i] = GkFreeStep(run[i - 1], args[i], i)
  <2>1. i \in 0 .. N /\ i # 0
    OBVIOUS
  <2> HIDE DEF first
  <2> QED BY <1>9, <2>1
<1> QED BY <1>8, <1>10, <1>11
-----------------------------------------------------------------------------
FreeState(b) == b = [t |-> b.t, kept |-> b.kept, err |-> b.err]

LEMMA StepFrees ==
  ASSUME NEW b, FreeState(b), Sound(b.t), NEW p \in Ptr, NEW i, NEW s, s = GkFreeStep(b, p, i)
  PROVE  /\ FreeState(s) /\ Sound(s.t)
         /\ b.err # "ok" => s = b
         /\ b.err = "ok" => Frees(b.t, p, s) /\ (s.err # "ok" => s.kept = b.kept)
<1> DEFINE o == FreeOne(b.t, p)
<1>1. FreeNosignal(b.t, p) # {} /\ \A x \in FreeNosignal(b.t, p) : Frees(b.t, p, x) /\ Sound(x.t)
  BY FreeFrees, FreeSound DEF SoundOutcome
<1>2. Frees(b.t, p, o) /\ Sound(o.t)
  <2>1. o \in FreeNosignal(b.t, p)
    BY <1>1 DEF FreeOne
  <2> QED BY <1>1, <2>1
<1> HIDE DEF o
<1>3. s = IF b.err # "ok" THEN b
          ELSE IF o.err # "ok" THEN [b EXCEPT !.err = o.err]
          ELSE [t |-> o.t, kept |-> [b.kept EXCEPT ![i] = NULL], err |-> "ok"]
  BY DEF GkFreeStep, o
<1>4. CASE b.err # "ok"
  BY <1>3, <1>4
<1>5. CASE b.err = "ok" /\ o.err # "ok"
  <2>1. s = [t |-> b.t, kept |-> b.kept, err |-> o.err]
    BY <1>3, <1>5 DEF FreeState
  <2>2. Frees(b.t, p, s)
    BY <1>2, <1>5, <2>1 DEF Frees
  <2> QED BY <1>5, <2>1, <2>2 DEF FreeState
<1>6. CASE b.err = "ok" /\ o.err = "ok"
  <2> DEFINE kept == [b.kept EXCEPT ![i] = NULL]
  <2>1. s = [t |-> o.t, kept |-> kept, err |-> "ok"]
    BY <1>3, <1>6
  <2> HIDE DEF kept
  <2>2. s.t = o.t /\ s.kept = kept /\ s.err = "ok"
    BY <2>1
  <2>3. Frees(b.t, p, s)
    BY <1>2, <1>6, <2>2 DEF Frees
  <2> QED BY <1>2, <1>6, <2>1, <2>2, <2>3 DEF FreeState
<1> QED BY <1>4, <1>5, <1>6

(* One block, as gk_mcorePop frees it.                                     *)
LEMMA GkFreeOne ==
  ASSUME NEW t, Sound(t), NEW p \in Ptr
  PROVE  Frees(t, p, GkFree(t, <<p>>)) /\ Sound(GkFree(t, <<p>>).t)
<1>1. Len(<<p>>) = 1 /\ <<p>>[1] = p
  OBVIOUS
<1>2. PICK f : /\ GkFree(t, <<p>>) = f[1]
               /\ f[0] = [t |-> t, kept |-> <<p>>, err |-> "ok"]
               /\ \A i \in 1 .. 1 : f[i] = GkFreeStep(f[i - 1], <<p>>[i], i)
  <2>1. \E f : /\ GkFree(t, <<p>>) = f[Len(<<p>>)]
               /\ f[0] = [t |-> t, kept |-> <<p>>, err |-> "ok"]
               /\ \A i \in 1 .. Len(<<p>>) : f[i] = GkFreeStep(f[i - 1], <<p>>[i], i)
    BY <1>1, GkFreeRuns
  <2> QED BY <1>1, <2>1
<1>3. f[1] = GkFreeStep(f[0], p, 1)
  BY <1>1, <1>2
<1>4. FreeState(f[0]) /\ f[0].t = t /\ f[0].err = "ok"
  BY <1>2 DEF FreeState
<1>5. Frees(f[0].t, p, f[1]) /\ Sound(f[1].t)
  BY <1>3, <1>4, StepFrees
<1> QED BY <1>2, <1>4, <1>5

LEMMA GkFreeTwo ==
  ASSUME NEW t, Sound(t), NEW p \in Ptr, NEW q \in Ptr, NEW u, u = GkFree(t, <<p, q>>).t
  PROVE  Sound(u) /\ t.live \ {p, q} \subseteq u.live
<1> DEFINE args == <<p, q>>
<1>1. Len(args) = 2 /\ args[1] = p /\ args[2] = q
  OBVIOUS
<1> HIDE DEF args
<1>2. PICK f : /\ GkFree(t, args) = f[2]
               /\ f[0] = [t |-> t, kept |-> args, err |-> "ok"]
               /\ \A i \in 1 .. 2 : f[i] = GkFreeStep(f[i - 1], args[i], i)
  <2>1. \E f : /\ GkFree(t, args) = f[Len(args)]
               /\ f[0] = [t |-> t, kept |-> args, err |-> "ok"]
               /\ \A i \in 1 .. Len(args) : f[i] = GkFreeStep(f[i - 1], args[i], i)
    BY <1>1, GkFreeRuns
  <2> QED BY <1>1, <2>1
<1>3. f[1] = GkFreeStep(f[0], p, 1) /\ f[2] = GkFreeStep(f[1], q, 2)
  <2>1. \A i \in {1, 2} : f[i] = GkFreeStep(f[i - 1], args[i], i)
    BY <1>2
  <2>2. f[1] = GkFreeStep(f[1 - 1], args[1], 1) /\ f[2] = GkFreeStep(f[2 - 1], args[2], 2)
    BY <2>1
  <2>3. 1 - 1 = 0 /\ 2 - 1 = 1
    OBVIOUS
  <2> QED BY <1>1, <2>2, <2>3
<1>4. FreeState(f[0]) /\ f[0].t = t /\ f[0].err = "ok"
  BY <1>2 DEF FreeState
<1>5. Frees(t, p, f[1]) /\ Sound(f[1].t) /\ FreeState(f[1])
  BY <1>3, <1>4, StepFrees
<1>6. /\ Sound(f[2].t)
      /\ f[1].err # "ok" => f[2] = f[1]
      /\ f[1].err = "ok" => Frees(f[1].t, q, f[2])
  BY <1>3, <1>5, StepFrees
<1>7. u = f[2].t
  BY <1>2 DEF args
<1>8. t.live \ {p} \subseteq f[1].t.live
  BY <1>5 DEF Frees
<1>9. f[1].t.live \ {q} \subseteq f[2].t.live
  BY <1>6 DEF Frees
<1> QED BY <1>6, <1>7, <1>8, <1>9

(* The three blocks of an mcore, which are of one frame: all of them are   *)
(* freed, or the first is refused and nothing changes.                     *)
LEMMA GkFreeThree ==
  ASSUME NEW t, Sound(t), NEW p \in Ptr, NEW q \in Ptr, NEW r \in Ptr,
         p # q, p # r, q # r,
         Home(t.mops, q) = Home(t.mops, p), Home(t.mops, r) = Home(t.mops, p),
         NEW o, o = GkFree(t, <<p, q, r>>)
  PROVE  \/ o.err = "EINVAL" /\ o.t = t /\ o.kept = <<p, q, r>>
         \/ /\ o.err = "ok" /\ Sound(o.t) /\ o.t.live = t.live \ {p, q, r}
            /\ \A x \in Ptr \ {p, q, r} : Home(o.t.mops, x) = Home(t.mops, x)
            /\ MarkSet(o.t.mops) = MarkSet(t.mops) /\ o.t.on = t.on
<1> DEFINE args == <<p, q, r>>
<1>1. Len(args) = 3 /\ args[1] = p /\ args[2] = q /\ args[3] = r
  OBVIOUS
<1> HIDE DEF args
<1>2. PICK f : /\ GkFree(t, args) = f[3]
               /\ f[0] = [t |-> t, kept |-> args, err |-> "ok"]
               /\ \A i \in 1 .. 3 : f[i] = GkFreeStep(f[i - 1], args[i], i)
  <2>1. \E f : /\ GkFree(t, args) = f[Len(args)]
               /\ f[0] = [t |-> t, kept |-> args, err |-> "ok"]
               /\ \A i \in 1 .. Len(args) : f[i] = GkFreeStep(f[i - 1], args[i], i)
    BY <1>1, GkFreeRuns
  <2> QED BY <1>1, <2>1
<1>3. /\ f[1] = GkFreeStep(f[0], p, 1) /\ f[2] = GkFreeStep(f[1], q, 2)
      /\ f[3] = GkFreeStep(f[2], r, 3)
  <2>1. \A i \in {1, 2, 3} : f[i] = GkFreeStep(f[i - 1], args[i], i)
    BY <1>2
  <2>2. /\ f[1] = GkFreeStep(f[1 - 1], args[1], 1) /\ f[2] = GkFreeStep(f[2 - 1], args[2], 2)
        /\ f[3] = GkFreeStep(f[3 - 1], args[3], 3)
    BY <2>1
  <2>3. 1 - 1 = 0 /\ 2 - 1 = 1 /\ 3 - 1 = 2
    OBVIOUS
  <2> QED BY <1>1, <2>2, <2>3
<1>4. FreeState(f[0]) /\ f[0].t = t /\ f[0].err = "ok" /\ f[0].kept = args
  BY <1>2 DEF FreeState
<1>5. /\ Frees(t, p, f[1]) /\ Sound(f[1].t) /\ FreeState(f[1])
      /\ f[1].err # "ok" => f[1].kept = args
  BY <1>3, <1>4, StepFrees
<1>6. /\ Sound(f[2].t) /\ FreeState(f[2])
      /\ f[1].err # "ok" => f[2] = f[1]
      /\ f[1].err = "ok" => Frees(f[1].t, q, f[2])
  BY <1>3, <1>5, StepFrees
<1>7. /\ Sound(f[3].t)
      /\ f[2].err # "ok" => f[3] = f[2]
      /\ f[2].err = "ok" => Frees(f[2].t, r, f[3])
  BY <1>3, <1>6, StepFrees
<1>8. o = f[3]
  BY <1>2 DEF args
<1>9. CASE f[1].err # "ok"
  BY <1>5, <1>6, <1>7, <1>8, <1>9 DEF Frees, args
<1>10. CASE f[1].err = "ok"
  <2>1. /\ f[1].t.live = t.live \ {p} /\ f[1].t.on = t.on /\ MarkSet(f[1].t.mops) = MarkSet(t.mops)
        /\ \A x \in Ptr \ {p} : Home(f[1].t.mops, x) = Home(t.mops, x)
        /\ t.on => MarkSet(t.mops) \in Home(t.mops, p)
    BY <1>5, <1>10 DEF Frees, Unmoved
  <2>2. /\ f[2].err = "ok"
        /\ f[2].t.live = f[1].t.live \ {q} /\ f[2].t.on = t.on
        /\ MarkSet(f[2].t.mops) = MarkSet(t.mops)
        /\ \A x \in Ptr \ {q} : Home(f[2].t.mops, x) = Home(f[1].t.mops, x)
    <3>1. Home(f[1].t.mops, q) = Home(t.mops, p)
      BY <2>1
    <3> QED BY <1>6, <1>10, <2>1, <3>1 DEF Frees, Unmoved
  <2>3. /\ f[3].err = "ok"
        /\ f[3].t.live = f[2].t.live \ {r} /\ f[3].t.on = t.on
        /\ MarkSet(f[3].t.mops) = MarkSet(t.mops)
        /\ \A x \in Ptr \ {r} : Home(f[3].t.mops, x) = Home(f[2].t.mops, x)
    <3>1. Home(f[2].t.mops, r) = Home(t.mops, p)
      BY <2>1, <2>2
    <3> QED BY <1>7, <2>1, <2>2, <3>1 DEF Frees, Unmoved
  <2> QED BY <1>7, <1>8, <2>1, <2>2, <2>3
<1> QED BY <1>9, <1>10
=============================================================================
