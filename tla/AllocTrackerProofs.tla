------------------------- MODULE AllocTrackerProofs -------------------------
(***************************************************************************)
(* Type correctness, the invariants and the statistics of the allocation   *)
(* tracker, and that it implements the stack of regions, for every set of  *)
(* addresses and every word size.                                          *)
(*                                                                         *)
(* The argument: Sound(t) says what a tracker looks like between two       *)
(* steps, and the lemmas of TrackerProofs that every operator keeps it, so *)
(* that every action of AllocTracker preserves IInv. FreeNext and PopNext  *)
(* need, beyond the invariants, that a free loop has an argument left and  *)
(* that there is a tracker while a frame is being popped.                  *)
(* The statistics go through the operators in the same way (StepExact): an *)
(* outcome of an exact tracker is exact, because Total, the sum of the     *)
(* recorded sizes, changes by what each operator adds to or subtracts from *)
(* the counters.                                                           *)
(* For the stack of regions, the frame of a block is how many marks lie    *)
(* below its record, the cardinality of its Home, so that what TrackerProofs*)
(* says of Home is what the stack sees (FramesAre).                        *)
(***************************************************************************)
EXTENDS AllocTracker, TrackerProofs, FiniteSetTheorems

IInv ==
  /\ Sound(tr)
  /\ err \in Errno
  /\ call \in [pc : {"idle", "pop", "free"}, args : Seq(Ptr \cup {NULL})]
  /\ call.pc = "pop" => tr.on
  /\ call.pc = "free" => call.args # <<>>
-----------------------------------------------------------------------------
(* Every action of the program, from a state of IInv.                      *)

(* A call that ends with sound outcomes keeps the invariant.               *)
LEMMA ReturnInv ==
  ASSUME IInv, NEW S, \A o \in S : SoundOutcome(o), Return(S)
  PROVE  IInv'
<1>1. PICK o \in S : tr' = o.t /\ err' = o.err
  BY DEF Return
<1>2. call' = call /\ call = Idle
  BY DEF Return
<1>3. call'.pc = "idle"
  BY <1>2 DEF Idle
<1> QED BY <1>1, <1>2, <1>3 DEF IInv, SoundOutcome

LEMMA StepInv == IInv /\ [Next]_vars => IInv'
<1> SUFFICES ASSUME IInv, [Next]_vars PROVE IInv'
  OBVIOUS
<1> USE DEF IInv
<1>1. CASE MallocInit
  BY <1>1, ReturnInv, MallocInitSound DEF MallocInit
<1>2. ASSUME NEW n \in Sizes, Malloc(n) PROVE IInv'
  <2>1. n \in Size
    BY SizesAreWords
  <2> QED BY <1>2, <2>1, ReturnInv, MallocSound DEF Malloc
<1>3. ASSUME NEW p \in Ptr \cup {NULL}, NEW n \in Sizes,
             Realloc(p, n) \/ ReallocOpStack(p, n)
      PROVE  IInv'
  <2>1. n \in Size
    BY SizesAreWords
  <2>2. \A o \in ReallocNosignal(tr, p, n) \cup ReallocMcore(tr, p, n) : SoundOutcome(o)
    BY <2>1, ReallocSound
  <2> QED BY <1>3, <2>2, ReturnInv DEF Realloc, ReallocOpStack
<1>4. ASSUME NEW args \in ArgLists, FreeBegin(args) PROVE IInv'
  <2>1. args \in Seq(Ptr \cup {NULL}) /\ args # <<>>
    <3>1. ASSUME NEW p \in Ptr \cup {NULL}, args = <<p>>
          PROVE  args \in Seq(Ptr \cup {NULL}) /\ args # <<>>
      BY <3>1
    <3>2. ASSUME NEW p \in Ptr \cup {NULL}, NEW q \in Ptr \cup {NULL}, args = <<p, q>>
          PROVE  args \in Seq(Ptr \cup {NULL}) /\ args # <<>>
      BY <3>2
    <3> QED BY <3>1, <3>2 DEF ArgLists
  <2>2. call' = [pc |-> "free", args |-> args] /\ tr' = tr /\ err' = "ok"
    BY <1>4 DEF FreeBegin, Freeing
  <2> QED BY <2>1, <2>2 DEF Errno
<1>5. CASE FreeNext
  <2>1. call.args \in Seq(Ptr \cup {NULL}) /\ call.args # <<>>
    BY <1>5 DEF FreeNext
  <2>2. /\ Head(call.args) \in Ptr \cup {NULL}
        /\ Tail(call.args) \in Seq(Ptr \cup {NULL})
    BY <2>1
  <2>3. PICK o \in FreeNosignal(tr, Head(call.args)) :
          /\ tr' = o.t /\ err' = o.err
          /\ call' = IF o.err = "ok" /\ Len(call.args) > 1
                     THEN Freeing(Tail(call.args)) ELSE Idle
    BY <1>5 DEF FreeNext
  <2>4. SoundOutcome(o)
    BY <2>2, <2>3, FreeSound
  <2>5. CASE call' = Idle
    <3>1. Idle.pc = "idle" /\ Idle \in [pc : {"idle", "pop", "free"}, args : Seq(Ptr \cup {NULL})]
      BY EmptySeq DEF Idle
    <3> QED BY <2>3, <2>4, <2>5, <3>1 DEF SoundOutcome
  <2>6. CASE call' = Freeing(Tail(call.args)) /\ Len(call.args) > 1
    <3>1. Tail(call.args) # <<>>
      <4>1. Len(Tail(call.args)) = Len(call.args) - 1 /\ Len(call.args) \in Nat
        BY <2>1, HeadTailProperties
      <4> DEFINE k == Len(call.args)
                 tail == Tail(call.args)
      <4> HIDE DEF k, tail
      <4>2. Len(tail) = k - 1 /\ k \in Nat /\ k > 1
        BY <2>6, <4>1 DEF k, tail
      <4>3. Len(tail) # 0
        BY <4>2
      <4>4. Len(Tail(call.args)) # 0
        BY <4>3 DEF tail
      <4> QED BY <2>2, <4>4, EmptySeq
    <3>2. /\ call'.pc = "free" /\ call'.args = Tail(call.args)
          /\ call' \in [pc : {"idle", "pop", "free"}, args : Seq(Ptr \cup {NULL})]
      BY <2>2, <2>6 DEF Freeing
    <3> QED BY <2>3, <2>4, <3>1, <3>2 DEF SoundOutcome
  <2> QED BY <2>3, <2>5, <2>6
<1>6. CASE MallocCleanup
  <2>1. CASE tr.mops = <<>>
    <3>1. tr' = (IF tr.on THEN Destroyed(tr) ELSE tr) /\ call' = Idle /\ err' = "ok"
      BY <1>6, <2>1 DEF MallocCleanup
    <3>2. tr.on = FALSE
      BY <2>1 DEF Sound, Tracker, Anchored
    <3> QED BY <3>1, <3>2 DEF Idle, Errno
  <2>2. CASE tr.mops # <<>>
    <3>1. tr' = tr /\ call' = Popping /\ err' = "ok"
      BY <1>6, <2>2 DEF MallocCleanup
    <3>2. tr.on
      BY <2>2 DEF Sound, Anchored
    <3> QED BY <3>1, <3>2 DEF Popping, Errno
  <2> QED BY <2>1, <2>2
<1>7. CASE PopNext
  <2>1. tr.on
    BY <1>7 DEF PopNext
  <2>2. /\ Sound(FinishPop(PopRecord(tr)))
        /\ ~LoopEnds(tr) => Sound(PopRecord(tr)) /\ PopRecord(tr).on
    BY <2>1, PopSound
  <2>3. CASE LoopEnds(tr)
    BY <1>7, <2>2, <2>3 DEF PopNext, Idle, Errno
  <2>4. CASE ~LoopEnds(tr)
    BY <1>7, <2>2, <2>4 DEF PopNext, Errno
  <2> QED BY <2>3, <2>4
<1>8. CASE UNCHANGED vars
  BY <1>8 DEF vars
<1> QED BY <1>1, <1>2, <1>3, <1>4, <1>5, <1>6, <1>7, <1>8 DEF Next

LEMMA InitInv == Init => IInv
<1> SUFFICES ASSUME Init PROVE IInv
  OBVIOUS
<1>1. 0 \in Size /\ <<>> \in Seq(Mop) /\ <<>> \in Seq(Ptr \cup {NULL}) /\ Len(<<>>) = 0
  BY WordIsNat, EmptySeq DEF Size
<1>2. /\ tr \in Tracker /\ tr.on = FALSE /\ tr.mops = <<>> /\ tr.nmops = 0
  BY <1>1 DEF Init, Tracker
<1>3. Sound(tr)
  BY <1>1, <1>2 DEF Sound, Anchored, Owns, HeapRecords
<1> QED BY <1>1, <1>3 DEF Init, IInv, Idle, Errno

(* In every execution, with every set of addresses and every word size,    *)
(* the tracker is sound between two steps.                                 *)
THEOREM SpecInv == Spec => []IInv
<1> QED BY InitInv, StepInv, PTL DEF Spec

(* Type correctness of the tracker, its log and its statistics.            *)
THEOREM TypeCorrect == Spec => []TypeOK
<1>1. IInv => TypeOK
  BY DEF IInv, TypeOK, Sound
<1> QED BY <1>1, SpecInv, PTL

(* The log is never written past its capacity, and the outermost mark of   *)
(* gk_malloc_init stays the oldest record until its gk_malloc_cleanup.     *)
THEOREM LogTheorem == Spec => []LogWellFormed
<1>1. IInv => LogWellFormed
  BY DEF IInv, LogWellFormed, WithinCapacity, FramesAnchored, Sound, Anchored
<1> QED BY <1>1, SpecInv, PTL

(* No block is recorded twice, and none that was freed: the raw frees of   *)
(* gk_malloc_cleanup release each block of a frame once.                   *)
THEOREM OwnershipTheorem == Spec => []RecordsOwnBlocks
<1>1. IInv => RecordsOwnBlocks
  BY DEF IInv, RecordsOwnBlocks, Sound, Owns
<1> QED BY <1>1, SpecInv, PTL
-----------------------------------------------------------------------------
(* A call that ends with one of clean outcomes.                            *)
LEMMA ReturnFailsClean ==
  ASSUME NEW S, \A o \in S : FailsClean(tr, o), Return(S), err' # "ok"
  PROVE  Kept(tr, tr')
<1>1. PICK o \in S : tr' = o.t /\ err' = o.err
  BY DEF Return
<1> QED BY <1>1 DEF FailsClean

LEMMA StepFailsClean == IInv /\ [Next]_vars => [err' # "ok" => Kept(tr, tr')]_vars
<1> SUFFICES ASSUME IInv, Next, err' # "ok" PROVE Kept(tr, tr')
  OBVIOUS
<1>1. Sound(tr)
  BY DEF IInv
<1>2. CASE MallocInit
  BY <1>1, <1>2, MallocInitFailsClean, ReturnFailsClean DEF MallocInit
<1>3. ASSUME NEW n \in Sizes, Malloc(n) PROVE Kept(tr, tr')
  <2>1. n \in Size
    BY SizesAreWords
  <2> QED BY <1>1, <1>3, <2>1, MallocFailsClean, ReturnFailsClean DEF Malloc
<1>4. ASSUME NEW p \in Ptr \cup {NULL}, NEW n \in Sizes,
             Realloc(p, n) \/ ReallocOpStack(p, n)
      PROVE  Kept(tr, tr')
  <2>1. n \in Size
    BY SizesAreWords
  <2>2. \A o \in ReallocNosignal(tr, p, n) \cup ReallocMcore(tr, p, n) : FailsClean(tr, o)
    BY <1>1, <2>1, ReallocFailsClean
  <2> QED BY <1>4, <2>2, ReturnFailsClean DEF Realloc, ReallocOpStack
<1>5. CASE FreeNext
  <2>1. PICK o \in FreeNosignal(tr, Head(call.args)) : tr' = o.t /\ err' = o.err
    BY <1>5 DEF FreeNext
  <2> QED BY <1>1, <2>1, FreeFailsClean DEF FailsClean
<1>6. CASE MallocCleanup \/ PopNext \/ \E args \in ArgLists : FreeBegin(args)
  BY <1>6 DEF MallocCleanup, PopNext, FreeBegin
<1> QED BY <1>2, <1>3, <1>4, <1>5, <1>6 DEF Next

(* A call that fails, wherever it fails, leaves every record, statistic    *)
(* and block as it was: the reservation of a slot in the log precedes      *)
(* malloc, and the record is committed after it.                           *)
THEOREM FailureTheorem == Spec => FailureIsNoOp
<1>1. IInv /\ [Next]_vars
        => [err' # "ok" => \E n \in Size : tr' = [tr EXCEPT !.nmops = n]]_vars
  BY StepFailsClean DEF Kept
<1> QED BY <1>1, SpecInv, PTL DEF Spec, FailureIsNoOp
-----------------------------------------------------------------------------
(* The statistics. Exact(t) is inductive beside Sound(t), on which it      *)
(* rests: a block must have one record for gk_free to subtract its size    *)
(* once.                                                                   *)
LEMMA ReturnExact ==
  ASSUME NEW S, \A o \in S : Exact(o.t), Return(S)
  PROVE  Exact(tr')
<1>1. PICK o \in S : tr' = o.t
  BY DEF Return
<1> QED BY <1>1

LEMMA StepExact == IInv /\ Exact(tr) /\ [Next]_vars => Exact(tr')
<1> SUFFICES ASSUME IInv, Exact(tr), [Next]_vars PROVE Exact(tr')
  OBVIOUS
<1>1. Sound(tr)
  BY DEF IInv
<1>2. CASE MallocInit
  BY <1>1, <1>2, MallocInitExact, ReturnExact DEF MallocInit
<1>3. ASSUME NEW n \in Sizes, Malloc(n) PROVE Exact(tr')
  <2>1. n \in Size
    BY SizesAreWords
  <2> QED BY <1>1, <1>3, <2>1, MallocExact, ReturnExact DEF Malloc
<1>4. ASSUME NEW p \in Ptr \cup {NULL}, NEW n \in Sizes,
             Realloc(p, n) \/ ReallocOpStack(p, n)
      PROVE  Exact(tr')
  <2>1. n \in Size
    BY SizesAreWords
  <2>2. \A o \in ReallocNosignal(tr, p, n) \cup ReallocMcore(tr, p, n) : Exact(o.t)
    BY <1>1, <2>1, ReallocExact
  <2> QED BY <1>4, <2>2, ReturnExact DEF Realloc, ReallocOpStack
<1>5. CASE FreeNext
  <2>1. PICK o \in FreeNosignal(tr, Head(call.args)) : tr' = o.t
    BY <1>5 DEF FreeNext
  <2> QED BY <1>1, <2>1, FreeExact
<1>6. CASE MallocCleanup
  <2>1. tr' = tr
    <3>1. tr.mops = <<>> => ~tr.on
      BY <1>1 DEF Sound, Anchored
    <3> QED BY <1>6, <3>1 DEF MallocCleanup
  <2> QED BY <2>1
<1>7. CASE PopNext
  <2>1. tr.on /\ tr' = IF LoopEnds(tr) THEN FinishPop(PopRecord(tr)) ELSE PopRecord(tr)
    BY <1>7 DEF PopNext, IInv
  <2> QED BY <1>1, <2>1, PopRecordExact
<1>8. CASE \E args \in ArgLists : FreeBegin(args)
  BY <1>8 DEF FreeBegin
<1>9. CASE UNCHANGED vars
  BY <1>9 DEF vars
<1> QED BY <1>2, <1>3, <1>4, <1>5, <1>6, <1>7, <1>8, <1>9 DEF Next

LEMMA InitExact == Init => Exact(tr)
BY NoExact DEF Init

(* cur_hallocs is the sum of the recorded sizes, and the peak lies between *)
(* it and the total that was ever asked for.                               *)
THEOREM StatsTheorem == Spec => []StatsExact
<1> DEFINE XInv == IInv /\ Exact(tr)
<1>1. Init => XInv
  BY InitInv, InitExact
<1>2. XInv /\ [Next]_vars => XInv'
  BY StepInv, StepExact
<1>3. XInv => StatsExact
  BY ExactIsStats DEF IInv, StatsExact
<1> HIDE DEF XInv
<1> QED BY <1>1, <1>2, <1>3, PTL DEF Spec
-----------------------------------------------------------------------------
(* The stack of regions that a sound log stands for, in terms of Home: the *)
(* frames are numbered by how many marks lie below a record.               *)
Depth(mops) == Cardinality(MarkSet(mops))
Levels(mops, p) == {Cardinality(H) : H \in Home(mops, p)}

LEMMA LevelsAre ==
  ASSUME NEW t, Sound(t)
  PROVE  /\ IsFiniteSet(MarkSet(t.mops)) /\ Depth(t.mops) \in Nat
         /\ t.on <=> Depth(t.mops) # 0
         /\ \A p : \A H \in Home(t.mops, p) :
              /\ H \in SUBSET MarkSet(t.mops) /\ Cardinality(H) \in 1 .. Depth(t.mops)
              /\ Cardinality(H) = Depth(t.mops) <=> H = MarkSet(t.mops)
<1> DEFINE M == MarkSet(t.mops)
<1>1. /\ t.mops \in Seq(Mop) /\ Len(t.mops) \in Nat /\ DOMAIN t.mops = 1 .. Len(t.mops)
      /\ Anchored(t.on, t.mops)
  BY LenProperties DEF Sound, Tracker
<1>2. IsFiniteSet(M) /\ Cardinality(M) \in Nat
  <2>1. IsFiniteSet(1 .. Len(t.mops)) /\ M \subseteq 1 .. Len(t.mops)
    BY <1>1, FS_Interval DEF MarkSet
  <2> QED BY <2>1, FS_Subset, FS_CardinalityType
<1>3. t.on <=> Cardinality(M) # 0
  <2>1. t.on => 1 \in M
    BY <1>1, EmptySeq DEF Anchored, MarkSet
  <2>2. ~t.on => M = {}
    BY <1>1, EmptySeq DEF Anchored, MarkSet
  <2> QED BY <1>2, <2>1, <2>2, FS_EmptySet
<1>4. ASSUME NEW p, NEW H \in Home(t.mops, p)
      PROVE  /\ H \in SUBSET M /\ Cardinality(H) \in 1 .. Cardinality(M)
             /\ Cardinality(H) = Cardinality(M) <=> H = M
  <2>1. PICK i \in FindAny(t.mops, p) : H = Under(t.mops, i)
    BY <1>4 DEF Home
  <2>2. i \in 1 .. Len(t.mops) /\ t.mops[i].type = "HEAP"
    BY <1>1, <2>1 DEF FindAny
  <2>3. H \in SUBSET M
    BY <2>1 DEF Under
  <2>4. 1 \in H
    <3>1. t.on /\ t.mops[1].type = "MARK"
      BY <1>1, <2>2, EmptySeq DEF Anchored
    <3>2. i # 1 /\ 1 < i
      BY <1>1, <2>2, <3>1
    <3> QED BY <1>1, <2>1, <2>2, <3>1, <3>2 DEF Under, MarkSet
  <2>5. IsFiniteSet(H) /\ Cardinality(H) \in Nat /\ Cardinality(H) # 0
    BY <1>2, <2>3, <2>4, FS_Subset, FS_CardinalityType, FS_EmptySet
  <2>6. Cardinality(H) <= Cardinality(M) /\ (Cardinality(H) = Cardinality(M) => H = M)
    BY <1>2, <2>3, FS_Subset
  <2> QED BY <1>2, <2>3, <2>5, <2>6
<1> QED BY <1>2, <1>3, <1>4 DEF Depth

LEMMA FramesAre ==
  ASSUME NEW t, Sound(t)
  PROVE  /\ Frames(t.mops) \in Seq(SUBSET Ptr) /\ Len(Frames(t.mops)) = Depth(t.mops)
         /\ Frames(t.mops) = [k \in 1 .. Depth(t.mops) |-> {p \in Ptr : k \in Levels(t.mops, p)}]
         /\ Recorded(t.mops) = {p \in Ptr : Home(t.mops, p) # {}}
         /\ Recorded(t.mops) \subseteq t.live
<1> DEFINE mops == t.mops
           N == Len(mops)
           D == Depth(mops)
<1>1. /\ mops \in Seq(Mop) /\ N \in Nat /\ DOMAIN mops = 1 .. N /\ D \in Nat
      /\ t.live \in SUBSET Ptr /\ Owns(mops, t.live)
  BY LenProperties, LevelsAre DEF Sound, Tracker
<1>2. FrameOf(mops, N) = D
  <2>1. {j \in 1 .. N : mops[j].type = "MARK"} = MarkSet(mops)
    BY <1>1 DEF MarkSet
  <2> QED BY <2>1 DEF FrameOf, Depth
<1>3. ASSUME NEW i \in HeapRecords(mops) PROVE FrameOf(mops, i) = Cardinality(Under(mops, i))
  <2>1. i \in 1 .. N /\ mops[i].type = "HEAP"
    BY <1>1 DEF HeapRecords
  <2>2. {j \in 1 .. i : mops[j].type = "MARK"} = Under(mops, i)
    BY <1>1, <2>1 DEF Under, MarkSet
  <2> QED BY <2>2 DEF FrameOf
<1>4. /\ \A p : FindAny(mops, p) = {i \in HeapRecords(mops) : mops[i].ptr = p}
      /\ \A i \in HeapRecords(mops) : mops[i].ptr \in Ptr
  BY <1>1 DEF FindAny, HeapRecords, Owns
<1> DEFINE At(k) == {mops[i].ptr : i \in {h \in HeapRecords(mops) : FrameOf(mops, h) = k}}
           InLevel(k) == {p \in Ptr : k \in Levels(mops, p)}
<1>5. ASSUME NEW k PROVE At(k) = InLevel(k)
  <2>1. ASSUME NEW i \in HeapRecords(mops), FrameOf(mops, i) = k PROVE mops[i].ptr \in InLevel(k)
    <3>1. i \in FindAny(mops, mops[i].ptr) /\ mops[i].ptr \in Ptr
      BY <1>4
    <3>2. Under(mops, i) \in Home(mops, mops[i].ptr)
      BY <3>1 DEF Home
    <3> QED BY <1>3, <2>1, <3>1, <3>2 DEF Levels
  <2>2. ASSUME NEW p \in InLevel(k) PROVE p \in At(k)
    <3>1. PICK H \in Home(mops, p) : Cardinality(H) = k
      BY <2>2 DEF Levels
    <3>2. PICK i \in FindAny(mops, p) : H = Under(mops, i)
      BY <3>1 DEF Home
    <3>3. i \in HeapRecords(mops) /\ mops[i].ptr = p /\ FrameOf(mops, i) = k
      BY <1>3, <1>4, <3>1, <3>2
    <3> QED BY <3>3
  <2> QED BY <2>1, <2>2
<1>6. Frames(mops) = [k \in 1 .. D |-> InLevel(k)]
  <2>1. Frames(mops) = [k \in 1 .. D |-> At(k)]
    BY <1>2 DEF Frames
  <2> HIDE DEF At, InLevel
  <2> QED BY <1>5, <2>1
<1>7. Frames(mops) \in Seq(SUBSET Ptr) /\ Len(Frames(mops)) = D
  <2> HIDE DEF D
  <2>1. Frames(mops) \in [1 .. D -> SUBSET Ptr]
    BY <1>6
  <2> QED BY <1>1, <2>1, SeqDef, LenProperties
<1>8. Recorded(mops) = {p \in Ptr : Home(mops, p) # {}}
  BY <1>4 DEF Recorded, Home
<1>9. Recorded(mops) \subseteq t.live
  BY <1>1 DEF Recorded, Owns
<1> QED BY <1>6, <1>7, <1>8, <1>9

(* Owned blocks of the stack are those recorded, and live blocks are live. *)
LEMMA LiveAre ==
  ASSUME Sound(tr)
  PROVE  Region!Owned = Recorded(tr.mops) /\ Region!Live = tr.live
<1>1. /\ DOMAIN Frames(tr.mops) = 1 .. Depth(tr.mops)
      /\ \A k \in 1 .. Depth(tr.mops) : Frames(tr.mops)[k] = {p \in Ptr : k \in Levels(tr.mops, p)}
      /\ Recorded(tr.mops) = {p \in Ptr : Home(tr.mops, p) # {}}
      /\ Recorded(tr.mops) \subseteq tr.live
  BY FramesAre
<1>2. \A p : \A H \in Home(tr.mops, p) : Cardinality(H) \in 1 .. Depth(tr.mops)
  BY LevelsAre
<1>3. Region!Owned = Recorded(tr.mops)
  <2>1. \A p \in Ptr : Home(tr.mops, p) # {} <=> \E k \in 1 .. Depth(tr.mops) : k \in Levels(tr.mops, p)
    BY <1>2 DEF Levels
  <2>2. \A p : p \in Region!Owned <=> \E k \in 1 .. Depth(tr.mops) : p \in Frames(tr.mops)[k]
    BY <1>1 DEF Region!Owned
  <2> QED BY <1>1, <2>1, <2>2
<1> QED BY <1>1, <1>3 DEF Region!Live

(* Nothing moves.                                                          *)
LEMMA SameRegion ==
  ASSUME NEW t, Sound(t), NEW u, Sound(u), MarkSet(u.mops) = MarkSet(t.mops),
         \A q \in Ptr : Home(u.mops, q) = Home(t.mops, q)
  PROVE  Frames(u.mops) = Frames(t.mops) /\ Recorded(u.mops) = Recorded(t.mops)
<1>1. Depth(u.mops) = Depth(t.mops) /\ \A q \in Ptr : Levels(u.mops, q) = Levels(t.mops, q)
  BY DEF Depth, Levels
<1>2. /\ Frames(u.mops) = [k \in 1 .. Depth(u.mops) |-> {p \in Ptr : k \in Levels(u.mops, p)}]
      /\ Recorded(u.mops) = {p \in Ptr : Home(u.mops, p) # {}}
  BY FramesAre
<1>3. /\ Frames(t.mops) = [k \in 1 .. Depth(t.mops) |-> {p \in Ptr : k \in Levels(t.mops, p)}]
      /\ Recorded(t.mops) = {p \in Ptr : Home(t.mops, p) # {}}
  BY FramesAre
<1>4. \A k : {p \in Ptr : k \in Levels(u.mops, p)} = {p \in Ptr : k \in Levels(t.mops, p)}
  BY <1>1
<1>5. {p \in Ptr : Home(u.mops, p) # {}} = {p \in Ptr : Home(t.mops, p) # {}}
  OBVIOUS
<1> QED BY <1>1, <1>2, <1>3, <1>4, <1>5

(* Exactly the frame k changes, to the blocks S.                           *)
LEMMA OneFrame ==
  ASSUME NEW t, Sound(t), NEW u, Sound(u), MarkSet(u.mops) = MarkSet(t.mops),
         NEW k \in 1 .. Depth(t.mops), NEW S,
         S = {p \in Ptr : k \in Levels(u.mops, p)},
         \A q \in Ptr : \A i \in 1 .. Depth(t.mops) :
           i # k => (i \in Levels(u.mops, q) <=> i \in Levels(t.mops, q))
  PROVE  Frames(u.mops) = [Frames(t.mops) EXCEPT ![k] = S]
<1>1. Depth(u.mops) = Depth(t.mops)
  BY DEF Depth
<1>2. Frames(u.mops) = [i \in 1 .. Depth(u.mops) |-> {p \in Ptr : i \in Levels(u.mops, p)}]
  BY FramesAre
<1>3. Frames(t.mops) = [i \in 1 .. Depth(t.mops) |-> {p \in Ptr : i \in Levels(t.mops, p)}]
  BY FramesAre
<1>4. \A i \in 1 .. Depth(t.mops) : i # k =>
        {p \in Ptr : i \in Levels(u.mops, p)} = {p \in Ptr : i \in Levels(t.mops, p)}
  OBVIOUS
<1> DEFINE After(i) == {p \in Ptr : i \in Levels(u.mops, p)}
           Before(i) == {p \in Ptr : i \in Levels(t.mops, p)}
<1>5. After(k) = S /\ \A i \in 1 .. Depth(t.mops) : i # k => After(i) = Before(i)
  BY <1>4
<1>6. /\ Frames(u.mops) = [i \in 1 .. Depth(t.mops) |-> After(i)]
      /\ Frames(t.mops) = [i \in 1 .. Depth(t.mops) |-> Before(i)]
  BY <1>1, <1>2, <1>3
<1> HIDE DEF After, Before
<1> QED BY <1>5, <1>6

(* The innermost frame holds the blocks whose record is above every mark.  *)
LEMMA TopFrame ==
  ASSUME NEW t, Sound(t), t.on
  PROVE  /\ Depth(t.mops) \in 1 .. Depth(t.mops) /\ Frames(t.mops) # <<>>
         /\ Len(Frames(t.mops)) = Depth(t.mops)
         /\ \A p : Depth(t.mops) \in Levels(t.mops, p) <=> MarkSet(t.mops) \in Home(t.mops, p)
         /\ Frames(t.mops)[Depth(t.mops)] = {p \in Ptr : MarkSet(t.mops) \in Home(t.mops, p)}
<1>1. Depth(t.mops) \in Nat /\ Depth(t.mops) # 0
  BY LevelsAre
<1>2. Frames(t.mops) \in Seq(SUBSET Ptr) /\ Len(Frames(t.mops)) = Depth(t.mops)
  BY FramesAre
<1>3. Frames(t.mops) # <<>>
  BY <1>1, <1>2, EmptySeq
<1>4. \A p : Depth(t.mops) \in Levels(t.mops, p) <=> MarkSet(t.mops) \in Home(t.mops, p)
  <2>1. \A p : \A H \in Home(t.mops, p) : Cardinality(H) = Depth(t.mops) <=> H = MarkSet(t.mops)
    BY LevelsAre
  <2> QED BY <2>1 DEF Levels
<1>5. Frames(t.mops) = [k \in 1 .. Depth(t.mops) |-> {p \in Ptr : k \in Levels(t.mops, p)}]
  BY FramesAre
<1> DEFINE In(k) == {p \in Ptr : k \in Levels(t.mops, p)}
<1>6. Frames(t.mops)[Depth(t.mops)] = In(Depth(t.mops))
  <2>1. Frames(t.mops) = [k \in 1 .. Depth(t.mops) |-> In(k)]
    BY <1>5
  <2> HIDE DEF In
  <2> QED BY <1>1, <2>1
<1> QED BY <1>1, <1>2, <1>3, <1>4, <1>6

(* Without a tracker there is no frame.                                    *)
LEMMA NoFrames ==
  ASSUME NEW t, Sound(t), ~t.on
  PROVE  Frames(t.mops) = <<>> /\ MarkSet(t.mops) = {} /\ \A p : Home(t.mops, p) = {}
<1>1. t.mops = <<>>
  BY DEF Sound, Anchored
<1>2. MarkSet(t.mops) = {} /\ \A p : FindAny(t.mops, p) = {}
  BY <1>1, EmptySeq DEF MarkSet, FindAny
<1>3. Depth(t.mops) = 0
  BY LevelsAre
<1>4. Frames(t.mops) \in Seq(SUBSET Ptr) /\ Len(Frames(t.mops)) = 0
  BY <1>3, FramesAre
<1> QED BY <1>2, <1>4, EmptySeq DEF Home

(* A block has one record, hence one frame.                                *)
LEMMA OneHome ==
  ASSUME NEW t, Sound(t), NEW p, NEW G \in Home(t.mops, p), NEW H \in Home(t.mops, p)
  PROVE  G = H
BY DEF Sound, Owns, Home, FindAny, HeapRecords

(* gk_malloc puts the new block into the innermost frame, if any.          *)
LEMMA AllocateStep ==
  ASSUME Sound(tr), NEW u, Sound(u), u = tr', NEW o, o.t = u, o.err = "ok",
         Allocates(tr, o), call.pc # "pop", call' = call
  PROVE  Region!Allocate(o.ptr)
<1> DEFINE p == o.ptr
<1>1. /\ p \in Ptr /\ p \notin tr.live /\ u.live = tr.live \cup {p} /\ u.on = tr.on
      /\ MarkSet(u.mops) = MarkSet(tr.mops)
      /\ \A q \in tr.live : Home(u.mops, q) = Home(tr.mops, q)
      /\ Home(u.mops, p) = IF tr.on THEN {MarkSet(tr.mops)} ELSE {}
      /\ tr.on \in BOOLEAN
  BY DEF Allocates, Unmoved, Sound, Tracker
<1> HIDE DEF p
<1>2. Home(tr.mops, p) = {} /\ \A q \in Ptr : q # p => Home(u.mops, q) = Home(tr.mops, q)
  <2>1. \A q : q \notin tr.live => Home(tr.mops, q) = {}
    BY DeadUnrecorded DEF Sound
  <2>2. \A q : q \notin u.live => Home(u.mops, q) = {}
    BY DeadUnrecorded DEF Sound
  <2> QED BY <1>1, <2>1, <2>2
<1>3. Region!Live = tr.live
  BY LiveAre
<1>4. CASE ~tr.on
  <2>1. \A q \in Ptr : Home(u.mops, q) = Home(tr.mops, q)
    BY <1>1, <1>2, <1>4
  <2>2. Frames(u.mops) = Frames(tr.mops) /\ Recorded(u.mops) = Recorded(tr.mops)
    BY <1>1, <2>1, SameRegion
  <2>3. Frames(tr.mops) = <<>> /\ p \notin Recorded(tr.mops)
    BY <1>2, <1>4, NoFrames, FramesAre
  <2>4. u.live \ Recorded(u.mops) = (tr.live \ Recorded(tr.mops)) \cup {p}
    BY <1>1, <2>2, <2>3
  <2> QED BY <1>1, <1>3, <2>2, <2>3, <2>4 DEF Region!Allocate, p
<1>5. CASE tr.on
  <2> DEFINE D == Depth(tr.mops)
  <2>1. /\ D \in 1 .. D /\ Frames(tr.mops) # <<>> /\ Len(Frames(tr.mops)) = D
        /\ Frames(tr.mops)[D] = {q \in Ptr : MarkSet(tr.mops) \in Home(tr.mops, q)}
        /\ \A q : D \in Levels(tr.mops, q) <=> MarkSet(tr.mops) \in Home(tr.mops, q)
    BY <1>5, TopFrame
  <2>2. Depth(u.mops) = D
    BY <1>1 DEF Depth
  <2>3. /\ \A q : q # p /\ q \in Ptr => Levels(u.mops, q) = Levels(tr.mops, q)
        /\ Levels(tr.mops, p) = {} /\ Levels(u.mops, p) = {D}
    BY <1>1, <1>2, <1>5 DEF Levels, Depth
  <2>4. Frames(tr.mops)[D] \cup {p} = {q \in Ptr : D \in Levels(u.mops, q)}
    BY <1>1, <2>1, <2>3
  <2> HIDE DEF D
  <2>5. \A q \in Ptr : \A i \in 1 .. D : i # D =>
          (i \in Levels(u.mops, q) <=> i \in Levels(tr.mops, q))
    BY <2>3
  <2>6. Frames(u.mops) = [Frames(tr.mops) EXCEPT ![D] = Frames(tr.mops)[D] \cup {p}]
    BY <1>1, <2>1, <2>4, <2>5, OneFrame DEF D
  <2>7. Recorded(u.mops) = Recorded(tr.mops) \cup {p}
    <3>1. /\ Recorded(u.mops) = {q \in Ptr : Home(u.mops, q) # {}}
          /\ Recorded(tr.mops) = {q \in Ptr : Home(tr.mops, q) # {}}
      BY FramesAre
    <3> QED BY <1>1, <1>2, <1>5, <3>1
  <2>8. u.live \ Recorded(u.mops) = tr.live \ Recorded(tr.mops)
    BY <1>1, <2>7
  <2> QED BY <1>1, <1>3, <2>1, <2>6, <2>8 DEF Region!Allocate, Region!Top, p
<1> QED BY <1>4, <1>5

(* gk_free takes a block out of the innermost frame.                       *)
LEMMA ReleaseStep ==
  ASSUME Sound(tr), NEW u, Sound(u), u = tr', NEW p \in Ptr, NEW o, o.t = u, o.err = "ok",
         Frees(tr, p, o), call.pc # "pop", call'.pc # "pop"
  PROVE  Region!Release(p) \/ UNCHANGED Region!rvars
<1>1. /\ u.live = tr.live \ {p} /\ u.on = tr.on /\ MarkSet(u.mops) = MarkSet(tr.mops)
      /\ \A q \in Ptr : q # p => Home(u.mops, q) = Home(tr.mops, q)
      /\ tr.on => MarkSet(tr.mops) \in Home(tr.mops, p)
      /\ tr.on \in BOOLEAN
  BY DEF Frees, Unmoved, Sound, Tracker
<1>2. Home(u.mops, p) = {}
  BY <1>1, DeadUnrecorded DEF Sound
<1>3. (call.pc = "pop") = FALSE /\ (call'.pc = "pop") = FALSE
  OBVIOUS
<1>4. CASE ~tr.on
  <2>1. \A q \in Ptr : Home(u.mops, q) = Home(tr.mops, q)
    BY <1>1, <1>2, <1>4, NoFrames
  <2>2. Frames(u.mops) = Frames(tr.mops) /\ Recorded(u.mops) = Recorded(tr.mops)
    BY <1>1, <2>1, SameRegion
  <2>3. Frames(tr.mops) = <<>> /\ p \notin Recorded(tr.mops)
    <3>1. Frames(tr.mops) = <<>> /\ Home(tr.mops, p) = {}
      BY <1>4, NoFrames
    <3>2. Recorded(tr.mops) = {q \in Ptr : Home(tr.mops, q) # {}}
      BY FramesAre
    <3> QED BY <3>1, <3>2
  <2>4. u.live \ Recorded(u.mops) = (tr.live \ Recorded(tr.mops)) \ {p}
    BY <1>1, <2>2, <2>3
  <2>5. CASE p \in tr.live
    BY <1>3, <2>2, <2>3, <2>4, <2>5 DEF Region!Release
  <2>6. CASE p \notin tr.live
    BY <1>1, <1>3, <2>2, <2>6 DEF Region!rvars
  <2> QED BY <2>5, <2>6
<1>5. CASE tr.on
  <2> DEFINE D == Depth(tr.mops)
  <2>1. /\ D \in 1 .. D /\ Frames(tr.mops) # <<>> /\ Len(Frames(tr.mops)) = D
        /\ Frames(tr.mops)[D] = {q \in Ptr : MarkSet(tr.mops) \in Home(tr.mops, q)}
        /\ \A q : D \in Levels(tr.mops, q) <=> MarkSet(tr.mops) \in Home(tr.mops, q)
    BY <1>5, TopFrame
  <2>2. Levels(u.mops, p) = {} /\ \A q \in Ptr : q # p => Levels(u.mops, q) = Levels(tr.mops, q)
    BY <1>1, <1>2 DEF Levels
  <2>3. Levels(tr.mops, p) = {D}
    <3>1. \A H \in Home(tr.mops, p) : H = MarkSet(tr.mops)
      BY <1>1, <1>5, OneHome
    <3> QED BY <1>1, <1>5, <3>1 DEF Levels, Depth
  <2>4. Frames(tr.mops)[D] \ {p} = {q \in Ptr : D \in Levels(u.mops, q)}
    BY <1>1, <2>1, <2>2
  <2> HIDE DEF D
  <2>5. \A q \in Ptr : \A i \in 1 .. D : i # D =>
          (i \in Levels(u.mops, q) <=> i \in Levels(tr.mops, q))
    BY <2>2, <2>3
  <2>6. Frames(u.mops) = [Frames(tr.mops) EXCEPT ![D] = Frames(tr.mops)[D] \ {p}]
    BY <1>1, <2>1, <2>4, <2>5, OneFrame DEF D
  <2>7. Recorded(u.mops) = Recorded(tr.mops) \ {p} /\ p \in Recorded(tr.mops)
    <3>1. /\ Recorded(u.mops) = {q \in Ptr : Home(u.mops, q) # {}}
          /\ Recorded(tr.mops) = {q \in Ptr : Home(tr.mops, q) # {}}
      BY FramesAre
    <3> QED BY <1>1, <1>2, <1>5, <3>1
  <2>8. u.live \ Recorded(u.mops) = tr.live \ Recorded(tr.mops)
    BY <1>1, <2>7
  <2>9. p \in Frames(tr.mops)[D]
    BY <1>1, <1>5, <2>1
  <2> QED BY <1>3, <2>1, <2>6, <2>8, <2>9 DEF Region!Release, Region!Top
<1> QED BY <1>4, <1>5

(* gk_realloc and the growth of an mcore's log keep the frame of a block.  *)
LEMMA MoveStep ==
  ASSUME Sound(tr), NEW u, Sound(u), u = tr', NEW b \in tr.live, NEW o, o.t = u, o.err = "ok",
         Resizes(tr, b, o), call.pc # "pop", call' = call
  PROVE  (o.ptr \in Ptr /\ Region!Move(b, o.ptr)) \/ UNCHANGED Region!rvars
<1> DEFINE c == o.ptr
<1>1. /\ b \in Ptr /\ c \in (Ptr \ tr.live) \cup {b} /\ c \in Ptr /\ u.live = (tr.live \ {b}) \cup {c}
      /\ MarkSet(u.mops) = MarkSet(tr.mops) /\ Home(u.mops, c) = Home(tr.mops, b)
      /\ \A q \in tr.live : q # b => Home(u.mops, q) = Home(tr.mops, q)
  BY DEF Resizes, Unmoved, Sound, Tracker
<1> HIDE DEF c
<1>2. /\ \A q : q \notin tr.live => Home(tr.mops, q) = {}
      /\ \A q : q \notin u.live => Home(u.mops, q) = {}
  BY DeadUnrecorded DEF Sound
<1>3. \A q \in Ptr : q # b /\ q # c => Home(u.mops, q) = Home(tr.mops, q)
  BY <1>1, <1>2
<1>4. (call.pc = "pop") = FALSE /\ call'.pc = call.pc
  OBVIOUS
<1>5. CASE c = b
  <2>1. Frames(u.mops) = Frames(tr.mops) /\ Recorded(u.mops) = Recorded(tr.mops)
    BY <1>1, <1>3, <1>5, SameRegion
  <2>2. u.live = tr.live
    BY <1>1, <1>5
  <2> QED BY <1>4, <2>1, <2>2 DEF Region!rvars
<1>6. CASE c # b
  <2>1. Home(tr.mops, c) = {} /\ Home(u.mops, b) = {} /\ c \notin tr.live
    BY <1>1, <1>2, <1>6
  <2>2. Region!Live = tr.live
    BY LiveAre
  <2>3. /\ Recorded(u.mops) = {q \in Ptr : Home(u.mops, q) # {}}
        /\ Recorded(tr.mops) = {q \in Ptr : Home(tr.mops, q) # {}}
    BY FramesAre
  <2>4. CASE Home(tr.mops, b) = {}
    <3>1. Frames(u.mops) = Frames(tr.mops) /\ Recorded(u.mops) = Recorded(tr.mops)
      BY <1>1, <1>3, <2>1, <2>4, SameRegion
    <3>2. b \notin Recorded(tr.mops) /\ c \notin Recorded(tr.mops)
      BY <2>1, <2>3, <2>4
    <3>3. u.live \ Recorded(u.mops) = ((tr.live \ Recorded(tr.mops)) \ {b}) \cup {c}
      BY <1>1, <3>1, <3>2
    <3> QED BY <1>1, <1>4, <1>6, <2>1, <2>2, <3>1, <3>2, <3>3 DEF Region!Move, c
  <2>5. CASE Home(tr.mops, b) # {}
    <3>1. PICK H \in Home(tr.mops, b) : TRUE
      BY <2>5
    <3> DEFINE k == Cardinality(H)
    <3>2. Levels(tr.mops, b) = {k} /\ Levels(u.mops, c) = {k} /\ k \in 1 .. Depth(tr.mops)
      <4>1. \A G \in Home(tr.mops, b) : G = H
        BY <3>1, OneHome
      <4>2. k \in 1 .. Depth(tr.mops)
        BY <3>1, LevelsAre
      <4> QED BY <1>1, <3>1, <4>1, <4>2 DEF Levels
    <3> HIDE DEF k
    <3>3. /\ Levels(tr.mops, c) = {} /\ Levels(u.mops, b) = {}
          /\ \A q \in Ptr : q # b /\ q # c => Levels(u.mops, q) = Levels(tr.mops, q)
      BY <1>3, <2>1 DEF Levels
    <3>4. Frames(tr.mops)[k] = {q \in Ptr : k \in Levels(tr.mops, q)}
      <4> DEFINE In(i) == {q \in Ptr : i \in Levels(tr.mops, q)}
      <4>1. Frames(tr.mops) = [i \in 1 .. Depth(tr.mops) |-> In(i)]
        BY FramesAre
      <4>2. Frames(tr.mops)[k] = In(k)
        <5> HIDE DEF In
        <5> QED BY <3>2, <4>1
      <4> QED BY <4>2
    <3>5. (Frames(tr.mops)[k] \ {b}) \cup {c} = {q \in Ptr : k \in Levels(u.mops, q)}
      BY <1>1, <1>6, <3>2, <3>3, <3>4
    <3>6. \A q \in Ptr : \A i \in 1 .. Depth(tr.mops) : i # k =>
            (i \in Levels(u.mops, q) <=> i \in Levels(tr.mops, q))
      BY <3>2, <3>3
    <3>7. Frames(u.mops) = [Frames(tr.mops) EXCEPT ![k] = (Frames(tr.mops)[k] \ {b}) \cup {c}]
      <4> DEFINE S == (Frames(tr.mops)[k] \ {b}) \cup {c}
      <4>1. S = {q \in Ptr : k \in Levels(u.mops, q)}
        BY <3>5
      <4> HIDE DEF S
      <4>2. Frames(u.mops) = [Frames(tr.mops) EXCEPT ![k] = S]
        BY <1>1, <3>2, <3>6, <4>1, OneFrame
      <4> QED BY <4>2 DEF S
    <3>8. Recorded(u.mops) = (Recorded(tr.mops) \ {b}) \cup {c} /\ b \in Recorded(tr.mops)
      BY <1>1, <1>3, <1>6, <2>1, <2>3, <2>5
    <3>9. u.live \ Recorded(u.mops) = tr.live \ Recorded(tr.mops)
      BY <1>1, <2>1, <3>8
    <3>10. k \in DOMAIN Frames(tr.mops) /\ b \in Frames(tr.mops)[k]
      BY <1>1, <3>2, <3>4, FramesAre
    <3> QED BY <1>1, <1>4, <1>6, <2>1, <2>2, <3>7, <3>9, <3>10 DEF Region!Move, c
  <2> QED BY <2>4, <2>5
<1> QED BY <1>5, <1>6

(* gk_malloc_init opens an empty frame.                                    *)
LEMMA OpenStep ==
  ASSUME Sound(tr), NEW u, Sound(u), u = tr', NEW o \in MallocInitOutcomes(tr), o.t = u, o.err = "ok",
         call.pc # "pop", call' = call
  PROVE  Region!Open
<1> DEFINE D == Depth(tr.mops)
           N == Len(tr.mops)
           F == Frames(tr.mops)
           G == Frames(u.mops)
           In(k) == {p \in Ptr : k \in Levels(tr.mops, p)}
<1>1. /\ u.live = tr.live /\ \A q : Home(u.mops, q) = Home(tr.mops, q)
      /\ MarkSet(u.mops) = MarkSet(tr.mops) \cup {N + 1}
  BY MallocInitKeeps
<1>2. D \in Nat /\ IsFiniteSet(MarkSet(tr.mops))
  BY LevelsAre
<1>3. Depth(u.mops) = D + 1
  <2>1. N + 1 \notin MarkSet(tr.mops)
    <3>1. N \in Nat /\ DOMAIN tr.mops = 1 .. N
      BY LenProperties DEF Sound, Tracker
    <3> QED BY <3>1 DEF MarkSet
  <2> QED BY ZenonT(60), <1>1, <1>2, <2>1, FS_AddElement DEF Depth
<1>4. \A q : Levels(u.mops, q) = Levels(tr.mops, q)
  BY <1>1 DEF Levels
<1>5. \A p : D + 1 \notin Levels(tr.mops, p)
  <2>1. \A p : \A H \in Home(tr.mops, p) : Cardinality(H) \in 1 .. D
    BY LevelsAre
  <2> QED BY <1>2, <2>1 DEF Levels
<1>6. F \in Seq(SUBSET Ptr) /\ Len(F) = D /\ F = [k \in 1 .. D |-> In(k)]
  BY FramesAre
<1>7. G \in Seq(SUBSET Ptr) /\ Len(G) = D + 1 /\ G = [k \in 1 .. D + 1 |-> In(k)]
  <2>1. /\ G \in Seq(SUBSET Ptr) /\ Len(G) = D + 1
        /\ G = [k \in 1 .. D + 1 |-> {p \in Ptr : k \in Levels(u.mops, p)}]
    BY <1>3, FramesAre
  <2> QED BY <1>4, <2>1
<1>8. In(D + 1) = {}
  BY <1>5
<1> HIDE DEF D, In, F, G
<1>9. G = Append(F, {})
  <2>1. {} \in SUBSET Ptr
    OBVIOUS
  <2>2. /\ Append(F, {}) \in Seq(SUBSET Ptr) /\ Len(Append(F, {})) = D + 1
        /\ \A k \in 1 .. D : Append(F, {})[k] = F[k]
        /\ Append(F, {})[D + 1] = {}
    <3> DEFINE T == SUBSET Ptr
    <3>1. F \in Seq(T) /\ {} \in T
      BY <1>6
    <3> HIDE DEF T
    <3>2. /\ Append(F, {}) \in Seq(T) /\ Len(Append(F, {})) = Len(F) + 1
          /\ \A k \in 1 .. Len(F) : Append(F, {})[k] = F[k]
          /\ Append(F, {})[Len(F) + 1] = {}
      BY <3>1, AppendProperties
    <3> QED BY <1>6, <3>2 DEF T
  <2>3. \A k \in 1 .. D + 1 : G[k] = Append(F, {})[k]
    <3>1. \A k \in 1 .. D + 1 : k = D + 1 \/ k \in 1 .. D
      BY <1>2
    <3>2. \A k \in 1 .. D : G[k] = In(k) /\ F[k] = In(k)
      BY <1>2, <1>6, <1>7
    <3>3. G[D + 1] = {}
      BY <1>2, <1>7, <1>8
    <3> QED BY <2>2, <3>1, <3>2, <3>3
  <2> QED BY <1>7, <2>2, <2>3, SeqEqual
<1>10. Recorded(u.mops) = Recorded(tr.mops)
  <2>1. Recorded(u.mops) = {q \in Ptr : Home(u.mops, q) # {}}
    BY FramesAre
  <2>2. Recorded(tr.mops) = {q \in Ptr : Home(tr.mops, q) # {}}
    BY FramesAre
  <2> QED BY <1>1, <2>1, <2>2
<1> QED BY <1>1, <1>9, <1>10 DEF Region!Open, F, G

(* The last turn of gk_malloc_cleanup ends a frame that is empty by then.  *)
LEMMA EndStep ==
  ASSUME Sound(tr), tr.on, NEW u, u = FinishPop(PopRecord(tr)), u = tr', LoopEnds(tr),
         call.pc = "pop", call'.pc # "pop"
  PROVE  Region!EndClose
<1> DEFINE D == Depth(tr.mops)
           N == Len(tr.mops)
           F == Frames(tr.mops)
           G == Frames(u.mops)
           In(k) == {p \in Ptr : k \in Levels(tr.mops, p)}
<1>1. /\ tr \in Tracker /\ tr.mops \in Seq(Mop) /\ tr.mops # <<>> /\ N \in Nat /\ N # 0
      /\ DOMAIN tr.mops = 1 .. N /\ tr.mops[N].type = "MARK"
  <2>1. /\ tr \in Tracker /\ tr.mops \in Seq(Mop) /\ tr.mops # <<>> /\ tr.mops[1].type = "MARK"
    BY DEF Sound, Anchored, Tracker
  <2> QED BY <2>1, EmptySeq, LenProperties DEF LoopEnds, TopIsMark
<1>2. Sound(u)
  BY PopSound
<1>3. u.live = tr.live /\ u.mops = SubSeq(tr.mops, 1, N - 1)
  <2> DEFINE v == PopRecord(tr)
  <2>1. v.mops = SubSeq(tr.mops, 1, N - 1) /\ v.live = tr.live
    BY <1>1 DEF PopRecord, Tracker
  <2>2. v = [tr EXCEPT !.mops = SubSeq(@, 1, N - 1)]
    BY <1>1 DEF PopRecord
  <2>3. FinishPop(v).live = v.live /\ FinishPop(v).mops = v.mops
    <3>1. CASE v.mops # <<>>
      BY <3>1 DEF FinishPop
    <3>2. CASE v.mops = <<>>
      BY <1>1, <2>2, <3>2 DEF FinishPop, Destroyed, Tracker
    <3> QED BY <3>1, <3>2
  <2> QED BY <2>1, <2>3
<1>4. MarkSet(u.mops) = MarkSet(tr.mops) \ {N} /\ \A q : Home(u.mops, q) = Home(tr.mops, q)
  BY <1>1, <1>3, PopHome
<1>5. D \in Nat /\ D # 0 /\ IsFiniteSet(MarkSet(tr.mops))
  BY LevelsAre
<1>6. Depth(u.mops) = D - 1
  <2>1. N \in MarkSet(tr.mops)
    BY <1>1 DEF MarkSet
  <2> QED BY <1>4, <1>5, <2>1, FS_RemoveElement DEF Depth
<1>7. \A q : Levels(u.mops, q) = Levels(tr.mops, q)
  BY <1>4 DEF Levels
<1>8. In(D) = {}
  <2>1. \A p : \A H \in Home(u.mops, p) : Cardinality(H) \in 1 .. D - 1
    BY <1>2, <1>6, LevelsAre
  <2>2. \A p : D \notin Levels(u.mops, p)
    BY <1>5, <2>1 DEF Levels
  <2> QED BY <1>7, <2>2
<1>9. F \in Seq(SUBSET Ptr) /\ Len(F) = D /\ F = [k \in 1 .. D |-> In(k)]
  BY FramesAre
<1>10. G \in Seq(SUBSET Ptr) /\ Len(G) = D - 1 /\ G = [k \in 1 .. D - 1 |-> In(k)]
  <2>1. /\ G \in Seq(SUBSET Ptr) /\ Len(G) = D - 1
        /\ G = [k \in 1 .. D - 1 |-> {p \in Ptr : k \in Levels(u.mops, p)}]
    BY <1>2, <1>6, FramesAre
  <2> QED BY <1>7, <2>1
<1>11. Recorded(u.mops) = Recorded(tr.mops)
  <2>1. Recorded(u.mops) = {q \in Ptr : Home(u.mops, q) # {}}
    BY <1>2, FramesAre
  <2>2. Recorded(tr.mops) = {q \in Ptr : Home(tr.mops, q) # {}}
    BY FramesAre
  <2> QED BY <1>4, <2>1, <2>2
<1> HIDE DEF D, In, F, G
<1>12. F[D] = {}
  BY <1>5, <1>8, <1>9
<1>13. G = SubSeq(F, 1, D - 1)
  <2>1. D - 1 \in Nat /\ D - 1 <= D /\ 1 .. D - 1 \subseteq 1 .. D
    BY <1>5
  <2>2. \A k \in 1 .. D - 1 : F[k] = G[k]
    BY <1>9, <1>10, <2>1
  <2>3. /\ SubSeq(F, 1, D - 1) \in Seq(SUBSET Ptr) /\ Len(SubSeq(F, 1, D - 1)) = D - 1
        /\ \A k \in 1 .. D - 1 : SubSeq(F, 1, D - 1)[k] = F[k]
    <3>1. F \in Seq(SUBSET Ptr) /\ 1 \in 1 .. Len(F) + 1 /\ D - 1 \in 0 .. Len(F)
      BY <1>5, <1>9
    <3> QED BY <1>5, <3>1, SubSeqProperties
  <2> QED BY <1>10, <2>2, <2>3, SeqEqual
<1> QED BY <1>3, <1>9, <1>11, <1>12, <1>13 DEF Region!EndClose, Region!Top, F, G

(* Every other turn frees one block of the innermost frame.                *)
LEMMA CloseStep ==
  ASSUME Sound(tr), tr.on, NEW u, u = PopRecord(tr), u = tr', ~LoopEnds(tr),
         call.pc = "pop", call' = call
  PROVE  \E p \in Ptr : Region!CloseBlock(p)
<1> DEFINE D == Depth(tr.mops)
           N == Len(tr.mops)
           p == tr.mops[N].ptr
<1>1. /\ tr \in Tracker /\ tr.mops \in Seq(Mop) /\ tr.mops # <<>> /\ N \in Nat /\ N # 0
      /\ DOMAIN tr.mops = 1 .. N /\ tr.mops[N].type = "HEAP" /\ p \in tr.live /\ tr.live \in SUBSET Ptr
  <2>1. tr \in Tracker /\ tr.mops \in Seq(Mop) /\ tr.mops # <<>> /\ tr.live \in SUBSET Ptr
    BY DEF Sound, Anchored, Tracker
  <2>2. N \in Nat /\ N # 0 /\ DOMAIN tr.mops = 1 .. N /\ tr.mops[N] \in Mop
    BY <2>1, EmptySeq, LenProperties
  <2>3. tr.mops[N].type = "HEAP"
    BY <2>2 DEF LoopEnds, TopIsMark, Mop
  <2>4. N \in HeapRecords(tr.mops)
    BY <2>2, <2>3 DEF HeapRecords
  <2> QED BY <2>1, <2>2, <2>3, <2>4 DEF Sound, Owns
<1>2. Sound(u)
  BY PopSound
<1>3. u.live = tr.live \ {p} /\ u.mops = SubSeq(tr.mops, 1, N - 1)
  BY <1>1 DEF PopRecord, RawFree, Tracker
<1> HIDE DEF p
<1>4. /\ MarkSet(u.mops) = MarkSet(tr.mops)
      /\ \A q : q # p => Home(u.mops, q) = Home(tr.mops, q)
  <2>1. N \notin MarkSet(tr.mops)
    BY <1>1 DEF MarkSet
  <2>2. /\ MarkSet(u.mops) = MarkSet(tr.mops) \ {N}
        /\ \A q : ~(tr.mops[N].type = "HEAP" /\ tr.mops[N].ptr = q) => Home(u.mops, q) = Home(tr.mops, q)
    BY <1>1, <1>3, PopHome
  <2> QED BY <2>1, <2>2 DEF p
<1>5. Home(u.mops, p) = {}
  BY <1>2, <1>3, DeadUnrecorded DEF Sound
<1>6. MarkSet(tr.mops) \in Home(tr.mops, p)
  <2>1. N \in FindQuiet(tr.mops, p)
    BY <1>1 DEF FindQuiet, FindAny, p
  <2> QED BY <1>1, <2>1, QuietHome
<1>7. /\ D \in 1 .. D /\ Len(Frames(tr.mops)) = D
      /\ Frames(tr.mops)[D] = {q \in Ptr : MarkSet(tr.mops) \in Home(tr.mops, q)}
      /\ \A q : D \in Levels(tr.mops, q) <=> MarkSet(tr.mops) \in Home(tr.mops, q)
  BY TopFrame
<1>8. Levels(u.mops, p) = {} /\ \A q \in Ptr : q # p => Levels(u.mops, q) = Levels(tr.mops, q)
  BY <1>4, <1>5 DEF Levels
<1>9. Levels(tr.mops, p) = {D}
  <2>1. \A H \in Home(tr.mops, p) : H = MarkSet(tr.mops)
    BY <1>6, OneHome
  <2> QED BY <1>6, <2>1 DEF Levels, Depth
<1> DEFINE S == Frames(tr.mops)[D] \ {p}
<1>10. S = {q \in Ptr : D \in Levels(u.mops, q)}
  BY <1>7, <1>8
<1> HIDE DEF D, S
<1>11. \A q \in Ptr : \A i \in 1 .. D : i # D =>
         (i \in Levels(u.mops, q) <=> i \in Levels(tr.mops, q))
  BY <1>8, <1>9
<1>12. Frames(u.mops) = [Frames(tr.mops) EXCEPT ![D] = S]
  BY <1>2, <1>4, <1>7, <1>10, <1>11, OneFrame DEF D
<1>13. u.live \ Recorded(u.mops) = tr.live \ Recorded(tr.mops)
  <2>1. Recorded(u.mops) = {q \in Ptr : Home(u.mops, q) # {}}
    BY <1>2, FramesAre
  <2>2. Recorded(tr.mops) = {q \in Ptr : Home(tr.mops, q) # {}}
    BY FramesAre
  <2>3. Recorded(u.mops) = Recorded(tr.mops) \ {p} /\ p \in Recorded(tr.mops)
    BY <1>1, <1>4, <1>5, <1>6, <2>1, <2>2
  <2> QED BY <1>3, <2>3
<1>14. p \in Frames(tr.mops)[D] /\ p \in Ptr
  BY <1>1, <1>6, <1>7
<1> QED BY <1>7, <1>12, <1>13, <1>14 DEF Region!CloseBlock, Region!Top, S

(* gk_realloc accepts a live block only, and does with it what             *)
(* gk_realloc_mcore does.                                                  *)
LEMMA ReallocOfLive ==
  ASSUME NEW t, Sound(t), NEW p \in Ptr, NEW n \in Size, NEW o \in ReallocNosignal(t, p, n),
         o.err = "ok", p \in IF t.on THEN Ptr ELSE t.live
  PROVE  p \in t.live /\ o \in ReallocMcore(t, p, n)
<1>1. /\ t.mops \in Seq(Mop) /\ Len(t.mops) \in Nat /\ DOMAIN t.mops = 1 .. Len(t.mops)
      /\ Owns(t.mops, t.live) /\ p # NULL
  BY NullIsNoAddress, LenProperties DEF Sound, Tracker
<1>2. CASE ~t.on
  BY <1>2 DEF ReallocNosignal, ReallocMcore
<1>3. CASE t.on
  <2>1. FindQuiet(t.mops, p) # {}
    BY <1>1, <1>3 DEF ReallocNosignal, Failed
  <2>2. PICK i \in Last(FindQuiet(t.mops, p)) : o \in ReallocRecord(t, i, p, Bytes(n))
    BY <1>1, <1>3, <2>1 DEF ReallocNosignal
  <2>3. i \in FindAny(t.mops, p)
    BY <2>2 DEF Last, FindQuiet
  <2>4. /\ i \in 1 .. Len(t.mops) /\ p \in t.live
        /\ \A j \in FindAny(t.mops, p) : j = i
    BY <1>1, <2>3 DEF FindAny, Owns, HeapRecords
  <2>5. i \in Last(FindAny(t.mops, p))
    <3>1. i <= i
      BY <1>1, <2>4
    <3> QED BY <2>3, <2>4, <3>1 DEF Last
  <2>6. ReallocMcore(t, p, n) =
          UNION {ReallocRecord(t, k, p, Bytes(n)) : k \in Last(FindAny(t.mops, p))}
    BY <1>1, <1>3, <2>3 DEF ReallocMcore
  <2> QED BY <2>2, <2>4, <2>5, <2>6
<1> QED BY <1>2, <1>3

LEMMA ReallocOfNull ==
  ASSUME NEW t, NEW n
  PROVE  /\ ReallocNosignal(t, NULL, n) = MallocNosignal(t, n)
         /\ ReallocMcore(t, NULL, n) = MallocNosignal(t, n)
BY DEF ReallocNosignal, ReallocMcore, MallocNosignal, RawRealloc

(* A call that ends with an error, and one that ends with a new block.     *)
LEMMA FailedStep ==
  ASSUME Kept(tr, tr'), (call'.pc = "pop") = (call.pc = "pop"), Sound(tr)
  PROVE  UNCHANGED Region!rvars
<1>1. tr'.mops = tr.mops /\ tr'.live = tr.live
  BY DEF Kept, Sound, Tracker
<1> QED BY <1>1 DEF Region!rvars

LEMMA NewBlock ==
  ASSUME IInv, IInv', NEW n \in Size, Return(MallocNosignal(tr, n)), err' = "ok"
  PROVE  Region!Next
<1>1. PICK o \in MallocNosignal(tr, n) : tr' = o.t /\ err' = o.err
  BY DEF Return
<1>2. Allocates(tr, o) /\ o.err = "ok" /\ o.ptr \in Ptr
  BY <1>1, MallocAllocates DEF IInv, Allocates
<1>3. call.pc # "pop" /\ call' = call
  BY DEF Return, Idle
<1> DEFINE u == o.t
<1>4. u = tr' /\ Sound(u) /\ Sound(tr)
  BY <1>1 DEF IInv
<1> HIDE DEF u
<1>5. Region!Allocate(o.ptr)
  <2>1. o.t = u
    BY DEF u
  <2> QED BY <1>2, <1>3, <1>4, <2>1, AllocateStep
<1> QED BY <1>2, <1>5 DEF Region!Next

LEMMA StepRegion == IInv /\ IInv' /\ [Next]_vars => [Region!Next]_(Region!rvars)
<1> SUFFICES ASSUME IInv, IInv', [Next]_vars PROVE Region!Next \/ UNCHANGED Region!rvars
  OBVIOUS
<1>1. Sound(tr) /\ Sound(tr')
  BY DEF IInv
<1> DEFINE u == tr'
<1>2. ASSUME Next, err' # "ok" PROVE UNCHANGED Region!rvars
  <2>1. Kept(tr, tr')
    <3>1. (err' # "ok" => Kept(tr, tr')) \/ UNCHANGED vars
      BY <1>2, StepFailsClean
    <3>2. UNCHANGED vars => tr' = tr
      BY DEF vars
    <3> QED BY <1>1, <1>2, <3>1, <3>2, KeptSelf
  <2>2. (call'.pc = "pop") = (call.pc = "pop")
    BY <1>2 DEF Next, MallocInit, Malloc, Realloc, ReallocOpStack, Return, FreeBegin, FreeNext,
                MallocCleanup, PopNext, Idle, Freeing
  <2> QED BY <1>1, <2>1, <2>2, FailedStep
<1>3. ASSUME MallocInit, err' = "ok" PROVE Region!Next
  <2>1. PICK o \in MallocInitOutcomes(tr) : tr' = o.t /\ o.err = "ok"
    BY <1>3 DEF MallocInit, Return
  <2>2. call.pc # "pop" /\ call' = call
    BY <1>3 DEF MallocInit, Return, Idle
  <2>3. Region!Open
    BY <1>1, <2>1, <2>2, OpenStep
  <2> QED BY <2>3 DEF Region!Next
<1>4. ASSUME NEW n \in Sizes, Malloc(n), err' = "ok" PROVE Region!Next
  BY <1>4, SizesAreWords, NewBlock DEF Malloc
<1>5. ASSUME NEW p \in Ptr \cup {NULL}, NEW n \in Sizes, Realloc(p, n) \/ ReallocOpStack(p, n), err' = "ok"
      PROVE  Region!Next \/ UNCHANGED Region!rvars
  <2>1. n \in Size
    BY SizesAreWords
  <2>2. CASE p = NULL
    <3>1. Return(MallocNosignal(tr, n))
      BY <1>5, <2>2, ReallocOfNull DEF Realloc, ReallocOpStack
    <3> QED BY <1>5, <2>1, <3>1, NewBlock
  <2>3. CASE p # NULL
    <3>1. PICK o : /\ tr' = o.t /\ o.err = "ok"
                   /\ o \in ReallocMcore(tr, p, n) /\ p \in tr.live
      <4>1. CASE Realloc(p, n)
        <5>1. p \in Held /\ p \in Ptr
          BY <2>3, <4>1 DEF Realloc
        <5>2. PICK o \in ReallocNosignal(tr, p, n) : tr' = o.t /\ o.err = "ok"
          BY <1>5, <4>1 DEF Realloc, Return
        <5>3. p \in tr.live /\ o \in ReallocMcore(tr, p, n)
          BY <1>1, <2>1, <5>1, <5>2, ReallocOfLive DEF Held
        <5> QED BY <5>2, <5>3
      <4>2. CASE ReallocOpStack(p, n)
        BY <1>5, <2>3, <4>2 DEF ReallocOpStack, Return
      <4> QED BY <1>5, <4>1, <4>2
    <3>2. Resizes(tr, p, o)
      BY <1>1, <2>1, <3>1, ReallocResizes
    <3>3. call.pc # "pop" /\ call' = call
      BY <1>5 DEF Realloc, ReallocOpStack, Return, Idle
    <3>4. (o.ptr \in Ptr /\ Region!Move(p, o.ptr)) \/ UNCHANGED Region!rvars
      BY <1>1, <3>1, <3>2, <3>3, MoveStep
    <3>5. p \in Ptr
      BY <2>3
    <3> QED BY <3>4, <3>5 DEF Region!Next
  <2> QED BY <2>2, <2>3
<1>6. ASSUME NEW args \in ArgLists, FreeBegin(args) PROVE UNCHANGED Region!rvars
  <2>1. call.pc = "idle" /\ call'.pc = "free" /\ tr' = tr
    BY <1>6 DEF FreeBegin, Idle, Freeing
  <2> QED BY <2>1 DEF Region!rvars
<1>7. ASSUME FreeNext, err' = "ok" PROVE Region!Next \/ UNCHANGED Region!rvars
  <2> DEFINE p == Head(call.args)
  <2>1. p \in Ptr \cup {NULL}
    BY <1>7 DEF FreeNext, IInv
  <2>2. PICK o \in FreeNosignal(tr, p) : tr' = o.t /\ o.err = "ok"
    BY <1>7 DEF FreeNext
  <2>3. call.pc # "pop" /\ call'.pc # "pop"
    BY <1>7 DEF FreeNext, Idle, Freeing
  <2> HIDE DEF p
  <2>4. CASE p = NULL
    <3>1. tr' = tr
      BY <2>2, <2>4 DEF FreeNosignal, Ok
    <3>2. (call'.pc = "pop") = (call.pc = "pop")
      BY <2>3
    <3> QED BY <3>1, <3>2 DEF Region!rvars
  <2>5. CASE p \in Ptr
    <3>1. Frees(tr, p, o)
      BY <1>1, <2>2, <2>5, FreeFrees
    <3>2. Region!Release(p) \/ UNCHANGED Region!rvars
      BY <1>1, <2>2, <2>3, <2>5, <3>1, ReleaseStep
    <3> QED BY <2>5, <3>2 DEF Region!Next
  <2> QED BY <2>1, <2>4, <2>5
<1>8. CASE MallocCleanup
  <2>1. CASE tr.mops = <<>>
    <3>1. ~tr.on
      BY <1>1, <2>1 DEF Sound, Anchored
    <3>2. tr' = tr /\ call' = call
      BY <1>8, <2>1, <3>1 DEF MallocCleanup
    <3> QED BY <3>2 DEF Region!rvars
  <2>2. CASE tr.mops # <<>>
    <3>1. tr' = tr /\ call.pc = "idle" /\ call'.pc = "pop"
      BY <1>8, <2>2 DEF MallocCleanup, Idle, Popping
    <3>2. tr.on
      BY <1>1, <2>2 DEF Sound, Anchored
    <3>3. Frames(tr.mops) # <<>>
      BY <1>1, <3>2, TopFrame
    <3>4. Region!BeginClose
      BY <3>1, <3>3 DEF Region!BeginClose
    <3> QED BY <3>4 DEF Region!Next
  <2> QED BY <2>1, <2>2
<1>9. CASE PopNext
  <2>1. tr.on /\ call.pc = "pop"
    BY <1>9 DEF PopNext, IInv
  <2>2. CASE LoopEnds(tr)
    <3>1. tr' = FinishPop(PopRecord(tr)) /\ call'.pc # "pop"
      BY <1>9, <2>2 DEF PopNext, Idle
    <3>2. Region!EndClose
      BY <1>1, <2>1, <2>2, <3>1, EndStep
    <3> QED BY <3>2 DEF Region!Next
  <2>3. CASE ~LoopEnds(tr)
    <3>1. tr' = PopRecord(tr) /\ call' = call
      BY <1>9, <2>3 DEF PopNext
    <3>2. \E p \in Ptr : Region!CloseBlock(p)
      BY <1>1, <2>1, <2>3, <3>1, CloseStep
    <3> QED BY <3>2 DEF Region!Next
  <2> QED BY <2>2, <2>3
<1>10. CASE UNCHANGED vars
  BY <1>10 DEF vars, Region!rvars
<1> QED BY <1>2, <1>3, <1>4, <1>5, <1>6, <1>7, <1>8, <1>9, <1>10 DEF Next

LEMMA InitRegion == Init => Region!Init
<1> SUFFICES ASSUME Init PROVE Region!Init
  OBVIOUS
<1>1. IInv /\ ~tr.on /\ tr.live = {} /\ call.pc = "idle" /\ tr.mops = <<>>
  BY InitInv DEF Init, Idle
<1>2. Frames(tr.mops) = <<>>
  BY <1>1, NoFrames DEF IInv
<1> QED BY <1>1, <1>2 DEF Region!Init

(* The tracker takes only steps of the stack of regions.                   *)
THEOREM RegionTheorem == Spec => Region!Steps
<1>1. Init => Region!Init
  BY InitRegion
<1>2. IInv /\ IInv' /\ [Next]_vars => [Region!Next]_(Region!rvars)
  BY StepRegion
<1> QED BY <1>1, <1>2, SpecInv, PTL DEF Spec, Region!Steps
=============================================================================
