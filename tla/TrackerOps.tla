----------------------------- MODULE TrackerOps -----------------------------
(***************************************************************************)
(* The heap-allocation tracker of GKlib: src/src/memory.c, the gkmcore     *)
(* half of src/src/mcore.c and src/src/memory_internal.h.                  *)
(*                                                                         *)
(* The tracker is the thread-local gk_mcore_t that gkmcore points to, and  *)
(* it is represented by one record t:                                      *)
(*    on      gkmcore # NULL                                               *)
(*    live    the heap blocks malloc has handed out and nobody has freed,  *)
(*            the tracked and the untracked ones                           *)
(*    mops    mops[0 .. cmop-1], the operation log                         *)
(*    nmops   the allocated capacity of mops                               *)
(*    num, size, cur, max    the *_hallocs statistics                      *)
(*                                                                         *)
(* Every C function is an operator that maps a tracker and its arguments   *)
(* to the SET of its outcomes [t, ptr, err]: the tracker it leaves, the    *)
(* pointer it returns and the errno of a failure ("ok" when it succeeds).  *)
(* The set has several members because malloc and realloc may fail and may *)
(* place a block anywhere; modules that call the tracker pick one member.  *)
(* size_t has the SizeMax + 1 values 0 .. SizeMax.                         *)
(*                                                                         *)
(* An operator whose name starts with Bug is a mutated form of the one     *)
(* after it, a plausible slip that some property has to notice. No         *)
(* specification uses it.                                                  *)
(***************************************************************************)
EXTENDS Integers, Sequences

CONSTANTS
  Ptr,          \* heap addresses
  NULL,         \* the null pointer
  SizeMax,      \* SIZE_MAX
  PtrdiffMax,   \* PTRDIFF_MAX
  InitMops,     \* the initial capacity of an operation log (2048)
  MopBytes      \* sizeof(gk_mop_t)

ASSUME NullIsNoAddress == NULL \notin Ptr
ASSUME WordSizes ==
  /\ SizeMax \in Nat /\ PtrdiffMax \in Nat /\ PtrdiffMax <= SizeMax
  /\ MopBytes \in Nat \ {0}
  /\ InitMops \in Nat \ {0} /\ InitMops * MopBytes <= SizeMax
  /\ InitMops <= SizeMax /\ 1 <= PtrdiffMax

Size == 0 .. SizeMax
Errno == {"ok", "ENOMEM", "EOVERFLOW", "EINVAL"}
Mop == [type : {"MARK", "HEAP"}, nbytes : Size, ptr : Ptr \cup {NULL}]
Tracker == [on : BOOLEAN, live : SUBSET Ptr, mops : Seq(Mop), nmops : Size,
            num : Size, size : Size, cur : Size, max : Size]

Mark == [type |-> "MARK", nbytes |-> 0, ptr |-> NULL]
Heap(n, p) == [type |-> "HEAP", nbytes |-> n, ptr |-> p]

Ok(t, p) == [t |-> t, ptr |-> p, err |-> "ok"]
Failed(t, e) == [t |-> t, ptr |-> NULL, err |-> e]

(***************************************************************************)
(* size_t arithmetic wraps; a sum or product that must not is checked      *)
(* first (gk_size_add, gk_size_mul). A request of 0 bytes becomes 1.       *)
(***************************************************************************)
WordAdd(a, b) == IF a + b <= SizeMax THEN a + b ELSE a + b - (SizeMax + 1)
WordSub(a, b) == IF b <= a THEN a - b ELSE a + SizeMax + 1 - b
Fits(a, b) == a <= SizeMax - b
MulFits(a, b) == a * b <= SizeMax
Bytes(n) == IF n = 0 THEN 1 ELSE n

-----------------------------------------------------------------------------
(* The records of blocks in a log, and the sum of their sizes.             *)

HeapRecords(mops) == {i \in DOMAIN mops : mops[i].type = "HEAP"}

RecordedBytes(mops) ==
  LET sum[i \in 0 .. Len(mops)] ==
        IF i = 0 THEN 0 ELSE sum[i - 1] + mops[i].nbytes
  IN sum[Len(mops)]

(* Where a pointer is recorded, in any frame and in the active one. The C  *)
(* code searches backwards and stops at the Last of these indices.         *)

FindAny(mops, p) ==
  {i \in DOMAIN mops : mops[i].type = "HEAP" /\ mops[i].ptr = p}

BugFindQuietAnyFrame(mops, p) == FindAny(mops, p)
FindQuiet(mops, p) ==
  {i \in FindAny(mops, p) :
     \A j \in DOMAIN mops : j >= i => mops[j].type # "MARK"}

Last(I) == {i \in I : \A j \in I : j <= i}

-----------------------------------------------------------------------------
(* The two statistics checks made before anything is changed.              *)

CanAdd(t, n) ==
  n <= PtrdiffMax /\ t.num < SizeMax /\ Fits(t.size, n) /\ Fits(t.cur, n)

CanRealloc(t, i, n) ==
  LET old == t.mops[i].nbytes
  IN /\ n <= PtrdiffMax /\ t.num < SizeMax /\ Fits(t.size, n)
     /\ n <= old \/ Fits(t.cur, n - old)

BugEnsureCapacityOffByOne(t) ==
  IF Len(t.mops) <= t.nmops THEN {Ok(t, NULL)} ELSE {Failed(t, "ENOMEM")}

(* Doubling of the log by the raw allocator. Nothing changes on failure.   *)
EnsureCapacity(t) ==
  LET grown == IF t.nmops = 0 THEN InitMops ELSE t.nmops + t.nmops
  IN IF Len(t.mops) < t.nmops THEN {Ok(t, NULL)}
     ELSE IF ~Fits(t.nmops, t.nmops) \/ ~MulFits(grown, MopBytes)
          THEN {Failed(t, "EOVERFLOW")}
          ELSE {Failed(t, "ENOMEM"), Ok([t EXCEPT !.nmops = grown], NULL)}

(* gk_gkmcoreAddReserved for a heap record and for a mark.                 *)
AddHeap(t, n, p) ==
  LET cur == t.cur + n
  IN [t EXCEPT !.mops = Append(t.mops, Heap(n, p)),
               !.num = t.num + 1,
               !.size = t.size + n,
               !.cur = cur,
               !.max = IF t.max < cur THEN cur ELSE t.max]

AddMark(t) == [t EXCEPT !.mops = Append(t.mops, Mark)]

BugUpdateReallocKeepsOldBytes(t, i, n, p) ==
  [t EXCEPT !.mops = [t.mops EXCEPT ![i] = Heap(n, p)],
            !.num = t.num + 1,
            !.size = t.size + n,
            !.cur = WordAdd(t.cur, n)]

UpdateRealloc(t, i, n, p) ==
  LET cur == WordAdd(WordSub(t.cur, t.mops[i].nbytes), n)
  IN [t EXCEPT !.mops = [t.mops EXCEPT ![i] = Heap(n, p)],
               !.num = t.num + 1,
               !.size = t.size + n,
               !.cur = cur,
               !.max = IF t.max < cur THEN cur ELSE t.max]

-----------------------------------------------------------------------------
(* The C library: malloc hands out a block that is not live, realloc keeps *)
(* the block or moves it, and either may fail and change nothing.          *)

RawMalloc(t) ==
  {Failed(t, "ENOMEM")}
    \cup {Ok([t EXCEPT !.live = @ \cup {p}], p) : p \in Ptr \ t.live}

RawRealloc(t, old) ==
  IF old = NULL THEN RawMalloc(t)
  ELSE {Failed(t, "ENOMEM")}
         \cup {Ok([t EXCEPT !.live = (@ \ {old}) \cup {p}], p) :
                 p \in (Ptr \ t.live) \cup {old}}

RawFree(t, p) == [t EXCEPT !.live = @ \ {p}]

-----------------------------------------------------------------------------
(* gk_malloc_nosignal; gk_malloc only adds the report.                     *)

RecordMalloc(t, n) ==
  UNION {IF o.err = "ok" THEN {Ok(AddHeap(o.t, n, o.ptr), o.ptr)} ELSE {o} :
           o \in RawMalloc(t)}

TrackedMalloc(t, n) ==
  IF ~CanAdd(t, n) THEN {Failed(t, "EOVERFLOW")}
  ELSE UNION {IF o.err = "ok" THEN RecordMalloc(o.t, n) ELSE {o} :
                o \in EnsureCapacity(t)}

MallocNosignal(t, nbytes) ==
  IF t.on THEN TrackedMalloc(t, Bytes(nbytes)) ELSE RawMalloc(t)

BugReallocRecordEarly(t, i, old, n) ==
  IF ~CanRealloc(t, i, n) THEN {Failed(t, "EOVERFLOW")}
  ELSE {IF o.err = "ok" THEN Ok(UpdateRealloc(o.t, i, n, o.ptr), o.ptr)
        ELSE Failed(UpdateRealloc(o.t, i, n, old), o.err) : o \in RawRealloc(t, old)}

(* The realloc of a block whose record is at index i.                      *)
ReallocRecord(t, i, old, n) ==
  IF ~CanRealloc(t, i, n) THEN {Failed(t, "EOVERFLOW")}
  ELSE UNION {IF o.err = "ok" THEN {Ok(UpdateRealloc(o.t, i, n, o.ptr), o.ptr)}
              ELSE {o} : o \in RawRealloc(t, old)}

(* gk_realloc_nosignal: a block of the active frame only.                  *)
ReallocNosignal(t, old, nbytes) ==
  IF ~t.on THEN RawRealloc(t, old)
  ELSE IF old = NULL THEN TrackedMalloc(t, Bytes(nbytes))
  ELSE IF FindQuiet(t.mops, old) = {} THEN {Failed(t, "EINVAL")}
  ELSE UNION {ReallocRecord(t, i, old, Bytes(nbytes)) :
                i \in Last(FindQuiet(t.mops, old))}

BugReallocMcoreTopFrameOnly(t, old, nbytes) ==
  IF ~t.on \/ FindQuiet(t.mops, old) = {} THEN RawRealloc(t, old)
  ELSE ReallocNosignal(t, old, nbytes)

(* gk_realloc_mcore: a block of any frame, and an untracked block stays    *)
(* untracked.                                                              *)
ReallocMcore(t, old, nbytes) ==
  IF ~t.on THEN RawRealloc(t, old)
  ELSE IF old = NULL THEN TrackedMalloc(t, Bytes(nbytes))
  ELSE IF FindAny(t.mops, old) = {} THEN RawRealloc(t, old)
  ELSE UNION {ReallocRecord(t, i, old, Bytes(nbytes)) :
                i \in Last(FindAny(t.mops, old))}

BugDropRecordNoSwap(t, i) ==
  [t EXCEPT !.cur = WordSub(@, t.mops[i].nbytes),
            !.mops = SubSeq(@, 1, Len(@) - 1)]

(* The record at i is overwritten by the last one, which is dropped.       *)
DropRecord(t, i) ==
  LET last == Len(t.mops)
  IN [t EXCEPT !.cur = WordSub(@, t.mops[i].nbytes),
               !.mops = SubSeq([@ EXCEPT ![i] = t.mops[last]], 1, last - 1)]

(* gk_free_nosignal on *r_ptr = p.                                         *)
FreeNosignal(t, p) ==
  IF p = NULL THEN {Ok(t, NULL)}
  ELSE IF ~t.on THEN {Ok(RawFree(t, p), NULL)}
  ELSE IF FindQuiet(t.mops, p) = {} THEN {Failed(t, "EINVAL")}
  ELSE {Ok(RawFree(DropRecord(t, i), p), NULL) : i \in Last(FindQuiet(t.mops, p))}

(* gk_free(&args[1], &args[2], ..., LTERM): the first pointer that cannot  *)
(* be freed ends the call and stays, with those after it.                  *)
GkFree(t, args) ==
  LET after[i \in 0 .. Len(args)] ==
        IF i = 0 THEN [t |-> t, kept |-> args, err |-> "ok"]
        ELSE LET before == after[i - 1]
                 o == CHOOSE o \in FreeNosignal(before.t, args[i]) : TRUE
             IN IF before.err # "ok" THEN before
                ELSE IF o.err # "ok" THEN [before EXCEPT !.err = o.err]
                ELSE [t |-> o.t, kept |-> [before.kept EXCEPT ![i] = NULL],
                      err |-> "ok"]
  IN after[Len(args)]

-----------------------------------------------------------------------------
(* gk_malloc_init, and gk_malloc_cleanup one record at a time: the loop of *)
(* gk_gkmcorePop, and the destruction of a tracker left without records.   *)

Fresh(t) == [t EXCEPT !.on = TRUE, !.mops = <<>>, !.nmops = InitMops,
                      !.num = 0, !.size = 0, !.cur = 0, !.max = 0]

Destroyed(t) == [t EXCEPT !.on = FALSE, !.mops = <<>>, !.nmops = 0,
                          !.num = 0, !.size = 0, !.cur = 0, !.max = 0]

PushMark(t) ==
  UNION {IF o.err = "ok" THEN {Ok(AddMark(o.t), NULL)} ELSE {o} :
           o \in EnsureCapacity(t)}

MallocInitOutcomes(t) ==
  IF t.on THEN PushMark(t)
  ELSE {Failed(t, "ENOMEM")} \cup PushMark(Fresh(t))

TopIsMark(t) == t.mops[Len(t.mops)].type = "MARK"

PopRecord(t) ==
  LET top == t.mops[Len(t.mops)]
      popped == [t EXCEPT !.mops = SubSeq(@, 1, Len(@) - 1)]
  IN IF top.type = "MARK" THEN popped
     ELSE [RawFree(popped, top.ptr) EXCEPT !.cur = WordSub(@, top.nbytes)]

LoopEnds(t) == TopIsMark(t) \/ Len(t.mops) = 1

FinishPop(t) == IF t.mops = <<>> THEN Destroyed(t) ELSE t
=============================================================================
