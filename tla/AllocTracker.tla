---------------------------- MODULE AllocTracker ----------------------------
(***************************************************************************)
(* One thread of a program that allocates through GKlib, with recovery     *)
(* frames opened by gk_malloc_init and closed by gk_malloc_cleanup around  *)
(* its allocations. Each C function is one action, except the two that     *)
(* loop over blocks: gk_malloc_cleanup and the variadic gk_free take one   *)
(* step per block, and nothing else runs until their loop ends.            *)
(***************************************************************************)
EXTENDS TrackerOps, FiniteSets

CONSTANTS
  Sizes         \* the request sizes that the callers use

ASSUME SizesAreWords == Sizes \subseteq Size

VARIABLES
  tr,       \* the tracker, see TrackerOps
  call,     \* the C function in progress: [pc, args]
  err       \* the outcome of the call that returned last

vars == <<tr, call, err>>

Idle == [pc |-> "idle", args |-> <<>>]
Popping == [pc |-> "pop", args |-> <<>>]
Freeing(args) == [pc |-> "free", args |-> args]

Init ==
  /\ tr = [on |-> FALSE, live |-> {}, mops |-> <<>>, nmops |-> 0,
           num |-> 0, size |-> 0, cur |-> 0, max |-> 0]
  /\ call = Idle
  /\ err = "ok"

(* The call ends with one of its outcomes.                                 *)
Return(outcomes) ==
  /\ call = Idle
  /\ \E o \in outcomes : tr' = o.t /\ err' = o.err
  /\ UNCHANGED call

(* Pointers a caller may pass to gk_free and gk_realloc: without a tracker *)
(* a block it holds, with a tracker also one released before, which the    *)
(* tracker has to refuse.                                                  *)
Held == IF tr.on THEN Ptr ELSE tr.live

MallocInit == Return(MallocInitOutcomes(tr))

Malloc(n) == Return(MallocNosignal(tr, n))

Realloc(p, n) == p \in Held \cup {NULL} /\ Return(ReallocNosignal(tr, p, n))

(* The operation stack of an mcore is never a released block.              *)
ReallocOpStack(p, n) == p \in tr.live \cup {NULL} /\ Return(ReallocMcore(tr, p, n))

(* gk_free(&p1, ..., LTERM): the variables hold different blocks, or NULL. *)
FreeBegin(args) ==
  /\ call = Idle
  /\ \A i \in DOMAIN args : args[i] \in Held \cup {NULL}
  /\ \A i, j \in DOMAIN args : args[i] = args[j] => i = j
  /\ call' = Freeing(args)
  /\ err' = "ok"
  /\ UNCHANGED tr

(* The first pointer that cannot be freed ends the call.                   *)
FreeNext ==
  /\ call.pc = "free"
  /\ \E o \in FreeNosignal(tr, Head(call.args)) :
       /\ tr' = o.t
       /\ err' = o.err
       /\ call' = IF o.err = "ok" /\ Len(call.args) > 1
                  THEN Freeing(Tail(call.args)) ELSE Idle

MallocCleanup ==
  /\ call = Idle
  /\ IF tr.mops = <<>>
     THEN tr' = (IF tr.on THEN Destroyed(tr) ELSE tr) /\ call' = Idle
     ELSE tr' = tr /\ call' = Popping
  /\ err' = "ok"

PopNext ==
  /\ call.pc = "pop"
  /\ tr' = IF LoopEnds(tr) THEN FinishPop(PopRecord(tr)) ELSE PopRecord(tr)
  /\ call' = IF LoopEnds(tr) THEN Idle ELSE call
  /\ err' = "ok"

ArgLists == {<<p>> : p \in Ptr \cup {NULL}}
              \cup {<<p, q>> : p \in Ptr \cup {NULL}, q \in Ptr \cup {NULL}}

Next ==
  \/ MallocInit
  \/ MallocCleanup
  \/ PopNext
  \/ FreeNext
  \/ \E n \in Sizes : Malloc(n)
  \/ \E p \in Ptr \cup {NULL}, n \in Sizes : Realloc(p, n) \/ ReallocOpStack(p, n)
  \/ \E args \in ArgLists : FreeBegin(args)

(* A C loop that has begun runs to its end.                                *)
Spec == Init /\ [][Next]_vars /\ WF_vars(PopNext)
-----------------------------------------------------------------------------
(* Types: size_t statistics, a log of marks and heap records.              *)
TypeOK ==
  /\ tr \in Tracker
  /\ call \in [pc : {"idle", "pop", "free"}, args : Seq(Ptr \cup {NULL})]
  /\ err \in Errno

(* The log never outgrows the storage behind it: every append of a record  *)
(* or a mark is preceded by a successful reservation.                      *)
WithinCapacity == Len(tr.mops) <= tr.nmops

(* With a tracker the oldest record is the mark of the outermost frame, so *)
(* that a cleanup ends at a mark and destroys the tracker exactly when the *)
(* outermost frame closes; without one there is no record.                 *)
FramesAnchored ==
  IF tr.on THEN tr.mops # <<>> /\ tr.mops[1].type = "MARK" ELSE tr.mops = <<>>

(* Both together: what the log must be for any of its operations to be     *)
(* defined.                                                                *)
LogWellFormed == WithinCapacity /\ FramesAnchored

(* Every heap record names a block that is live, and no block has two      *)
(* records, through moves by realloc, the swap of the last record into a   *)
(* freed slot, and reuse of addresses by malloc: a cleanup never frees a   *)
(* block twice, nor one it does not own.                                   *)
RecordsOwnBlocks ==
  /\ \A i \in HeapRecords(tr.mops) : tr.mops[i].ptr \in tr.live
  /\ \A i, j \in HeapRecords(tr.mops) :
       tr.mops[i].ptr = tr.mops[j].ptr => i = j

(* cur_hallocs is the sum of the recorded sizes, so it never wraps, and    *)
(* the peak and cumulative counters bound it.                              *)
StatsExact ==
  /\ tr.cur = RecordedBytes(tr.mops)
  /\ tr.cur <= tr.max /\ tr.max <= tr.size

(* A call that fails, at any of its checks and for any reason, leaves      *)
(* every record, statistic and block as it was; it may only have enlarged  *)
(* the log.                                                                *)
FailureIsNoOp ==
  [][err' # "ok" => \E n \in Size : tr' = [tr EXCEPT !.nmops = n]]_vars

(* The log read as the stack of regions it stands for: frame k owns the    *)
(* blocks recorded between the k-th mark and the next one.                 *)
FrameOf(mops, i) == Cardinality({j \in 1 .. i : mops[j].type = "MARK"})
Frames(mops) ==
  [k \in 1 .. FrameOf(mops, Len(mops)) |->
     {mops[i].ptr : i \in {h \in HeapRecords(mops) : FrameOf(mops, h) = k}}]
Recorded(mops) == {mops[i].ptr : i \in HeapRecords(mops)}

Region == INSTANCE RegionStack WITH
  Block <- Ptr,
  frames <- Frames(tr.mops),
  loose <- tr.live \ Recorded(tr.mops),
  closing <- call.pc = "pop"

(* The tracker implements the stack of regions: calls move blocks in and   *)
(* out of the innermost frame only, a reallocation keeps the owner, and a  *)
(* cleanup that begins releases exactly the blocks of its frame and ends.  *)
RegionSpec == Region!Spec
=============================================================================
