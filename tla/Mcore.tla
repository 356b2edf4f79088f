------------------------------- MODULE Mcore -------------------------------
(***************************************************************************)
(* The workspace allocator gk_mcore_t of src/src/mcore.c, in a thread that *)
(* also opens and closes recovery frames of the allocation tracker.        *)
(*                                                                         *)
(* An mcore serves a request from its core by advancing corecpos, or from  *)
(* the heap through gk_malloc when the core has no room, and logs both in  *)
(* mops; gk_mcorePop undoes the log down to the last mark. Its own storage *)
(* (the struct, the core and the log) and its heap payloads are tracked    *)
(* blocks, which is where the two components meet.                         *)
(*                                                                         *)
(* Operators named Bug... are mutated forms, as in TrackerOps.             *)
(***************************************************************************)
EXTENDS TrackerOps, FiniteSets

CONSTANTS
  CoreSize,       \* the coresize of gk_mcoreCreate, not 0
  StructBytes,    \* sizeof(gk_mcore_t)
  Align,          \* payloads are padded to a multiple of this (8)
  Requests,       \* the sizes asked of gk_mcoreMalloc
  MaxFrames,      \* bound on the tracker frames open at once, and
  MaxPayloads     \* on the requests that one mcore serves: functions of
                  \* nested, the way the program uses the frames

ASSUME McoreSizes ==
  /\ CoreSize \in Size \ {0} /\ StructBytes \in Size \ {0}
  /\ Align \in Size \ {0} /\ Requests \subseteq Size
  /\ MaxFrames \in [BOOLEAN -> Nat] /\ MaxPayloads \in [BOOLEAN -> Nat]

VARIABLES
  nested,     \* frames are also opened and closed around the use of an
              \* mcore, not only around its whole life; never changes
  tr,         \* the allocation tracker
  mc,         \* the mcore, or NoMcore
  detached,   \* heap payloads taken over from the mcore by gk_mcoreDel
  pc,         \* the loop in progress: gk_mcorePop, gk_malloc_cleanup, none
  err         \* the outcome of the step

vars == <<nested, tr, mc, detached, pc, err>>

NoMcore == [self |-> NULL]
CoreOffset == 0 .. CoreSize
McMop == [type : {"MARK", "CORE", "HEAP"}, nbytes : Size,
          at : Ptr \cup CoreOffset \cup {NULL}]
McoreType ==
  [self : Ptr, core : Ptr, ops : Ptr, mops : Seq(McMop), nmops : Size,
   corecpos : Size, cnum : Size, csize : Size, ccur : Size,
   hnum : Size, hsize : Size, hcur : Size]

NewMcore(self, core, ops) ==
  [self |-> self, core |-> core, ops |-> ops, mops |-> <<>>, nmops |-> InitMops,
   corecpos |-> 0, cnum |-> 0, csize |-> 0, ccur |-> 0,
   hnum |-> 0, hsize |-> 0, hcur |-> 0]

Step(t, m, e) == [t |-> t, mc |-> m, err |-> e]
-----------------------------------------------------------------------------
(* gk_mcoreCreate: three allocations, and what is staged is freed again    *)
(* when a later one fails.                                                 *)
CreateOutcomes(t) ==
  UNION {
    IF s.err # "ok" THEN {Step(s.t, NoMcore, s.err)}
    ELSE UNION {
      IF c.err # "ok" THEN {Step(GkFree(c.t, <<s.ptr>>).t, NoMcore, c.err)}
      ELSE {IF o.err # "ok"
            THEN Step(GkFree(o.t, <<c.ptr, s.ptr>>).t, NoMcore, o.err)
            ELSE Step(o.t, NewMcore(s.ptr, c.ptr, o.ptr), "ok") :
              o \in MallocNosignal(c.t, InitMops * MopBytes)} :
      c \in MallocNosignal(s.t, CoreSize)} :
    s \in MallocNosignal(t, StructBytes)}

McCanAdd(m, type, n) ==
  /\ n <= PtrdiffMax
  /\ type = "CORE" => m.cnum < SizeMax /\ Fits(m.csize, n) /\ Fits(m.ccur, n)
  /\ type = "HEAP" => m.hnum < SizeMax /\ Fits(m.hsize, n) /\ Fits(m.hcur, n)

BugMcEnsureCapacityCommitsEarly(t, m) ==
  IF Len(m.mops) < m.nmops THEN {Step(t, m, "ok")}
  ELSE {Step(o.t, [m EXCEPT !.ops = o.ptr], o.err) :
          o \in ReallocMcore(t, m.ops, (m.nmops + m.nmops) * MopBytes)}

(* The log grows through the tracker, which may hold it in an outer frame. *)
McEnsureCapacity(t, m) ==
  LET grown == IF m.nmops = 0 THEN InitMops ELSE m.nmops + m.nmops
  IN IF Len(m.mops) < m.nmops THEN {Step(t, m, "ok")}
     ELSE IF ~Fits(m.nmops, m.nmops) \/ ~MulFits(grown, MopBytes)
          THEN {Step(t, m, "EOVERFLOW")}
     ELSE {IF o.err # "ok" THEN Step(o.t, m, o.err)
           ELSE Step(o.t, [m EXCEPT !.ops = o.ptr, !.nmops = grown], "ok") :
             o \in ReallocMcore(t, m.ops, grown * MopBytes)}

McAddReserved(m, type, n, at) ==
  LET logged == [m EXCEPT !.mops = Append(@, [type |-> type, nbytes |-> n, at |-> at])]
  IN CASE type = "MARK" -> logged
       [] type = "CORE" -> [logged EXCEPT !.cnum = @ + 1, !.csize = @ + n, !.ccur = @ + n]
       [] type = "HEAP" -> [logged EXCEPT !.hnum = @ + 1, !.hsize = @ + n, !.hcur = @ + n]

Padding(n) == IF n % Align = 0 THEN 0 ELSE Align - (n % Align)
Source(m, n) ==
  IF m.corecpos <= CoreSize /\ n < CoreSize - m.corecpos THEN "CORE" ELSE "HEAP"

BugServeNoAdvance(t, m, n) ==
  IF Source(m, n) = "CORE"
  THEN {Step(t, McAddReserved(m, "CORE", n, m.corecpos), "ok")}
  ELSE {IF o.err # "ok" THEN Step(o.t, m, o.err)
        ELSE Step(o.t, McAddReserved(m, "HEAP", n, o.ptr), "ok") :
          o \in MallocNosignal(t, n)}

(* A padded request with a slot reserved for it.                           *)
Serve(t, m, n) ==
  IF Source(m, n) = "CORE"
  THEN {Step(t, McAddReserved([m EXCEPT !.corecpos = @ + n], "CORE", n, m.corecpos), "ok")}
  ELSE {IF o.err # "ok" THEN Step(o.t, m, o.err)
        ELSE Step(o.t, McAddReserved(m, "HEAP", n, o.ptr), "ok") :
          o \in MallocNosignal(t, n)}

McMallocOutcomes(t, m, nbytes) ==
  LET n == nbytes + Padding(nbytes)
  IN IF ~Fits(nbytes, Padding(nbytes)) \/ ~McCanAdd(m, Source(m, n), n)
     THEN {Step(t, m, "EOVERFLOW")}
     ELSE UNION {IF r.err # "ok" THEN {r} ELSE Serve(r.t, r.mc, n) :
                   r \in McEnsureCapacity(t, m)}

McPushOutcomes(t, m) ==
  {IF r.err # "ok" THEN r
   ELSE Step(r.t, McAddReserved(r.mc, "MARK", 0, NULL), "ok") :
     r \in McEnsureCapacity(t, m)}

(* gk_mcoreDel: the newest record of the pointer in the active frame, if   *)
(* it is a heap record; the last record takes its slot.                    *)
McFrame(m) == {i \in DOMAIN m.mops :
                 \A j \in DOMAIN m.mops : j >= i => m.mops[j].type # "MARK"}
Deletable(m, at) ==
  {i \in Last({i \in McFrame(m) : m.mops[i].at = at}) : m.mops[i].type = "HEAP"}
McDel(m, i) ==
  LET last == Len(m.mops)
  IN [m EXCEPT !.hcur = WordSub(@, m.mops[i].nbytes),
               !.mops = SubSeq([@ EXCEPT ![i] = m.mops[last]], 1, last - 1)]

BugMcPopTurnDropsFirst(t, m) ==
  LET top == m.mops[Len(m.mops)]
      popped == [m EXCEPT !.mops = SubSeq(@, 1, Len(@) - 1)]
      f == GkFree(t, <<top.at>>)
  IN IF top.type # "HEAP" THEN Step(t, popped, "ok")
     ELSE Step(f.t, [popped EXCEPT !.hcur = WordSub(@, top.nbytes)], f.err)

(* One turn of the loop of gk_mcorePop. A payload that the tracker refuses *)
(* to free keeps its record and ends the loop, as does a mark.             *)
McPopTurn(t, m) ==
  LET top == m.mops[Len(m.mops)]
      popped == [m EXCEPT !.mops = SubSeq(@, 1, Len(@) - 1)]
      f == GkFree(t, <<top.at>>)
  IN CASE top.type = "MARK" -> Step(t, popped, "ok")
       [] top.type = "CORE" ->
            IF m.corecpos < top.nbytes THEN Step(t, m, "INTERNAL")
            ELSE Step(t, [popped EXCEPT !.corecpos = WordSub(@, top.nbytes),
                                        !.ccur = WordSub(@, top.nbytes)], "ok")
       [] top.type = "HEAP" ->
            IF f.err # "ok" THEN Step(t, m, f.err)
            ELSE Step(f.t, [popped EXCEPT !.hcur = WordSub(@, top.nbytes)], "ok")

(* gk_mcoreDestroy: gk_free of the core, the log and the struct, in this   *)
(* order; the caller's handle stays unless all three are freed.            *)
DestroyOutcome(t, m) ==
  LET f == GkFree(t, <<m.core, m.ops, m.self>>)
  IN IF f.err = "ok" THEN Step(f.t, NoMcore, "ok")
     ELSE Step(f.t, [m EXCEPT !.core = f.kept[1], !.ops = f.kept[2]], f.err)
-----------------------------------------------------------------------------
Init ==
  /\ nested \in BOOLEAN
  /\ tr = [on |-> FALSE, live |-> {}, mops |-> <<>>, nmops |-> 0,
           num |-> 0, size |-> 0, cur |-> 0, max |-> 0]
  /\ mc = NoMcore
  /\ detached = {}
  /\ pc = "idle"
  /\ err = "ok"

Return(outcomes) ==
  /\ \E o \in outcomes : tr' = o.t /\ mc' = o.mc /\ err' = o.err
  /\ UNCHANGED <<nested, pc>>

Marks(t) == Cardinality({i \in DOMAIN t.mops : t.mops[i].type = "MARK"})
TopBlocks(t) == {p \in Ptr : FindQuiet(t.mops, p) # {}}
Payloads == IF mc = NoMcore THEN {}
            ELSE {mc.mops[i].at : i \in {j \in DOMAIN mc.mops : mc.mops[j].type = "HEAP"}}

MallocInit ==
  /\ pc = "idle" /\ Marks(tr) < MaxFrames[nested]
  /\ nested \/ mc = NoMcore
  /\ \E o \in MallocInitOutcomes(tr) : tr' = o.t /\ err' = o.err
  /\ UNCHANGED <<nested, mc, detached, pc>>

Create ==
  /\ pc = "idle" /\ mc = NoMcore
  /\ Return(CreateOutcomes(tr))
  /\ UNCHANGED detached

Malloc(n) ==
  /\ pc = "idle" /\ mc # NoMcore
  /\ mc.cnum + mc.hnum < MaxPayloads[nested]
  /\ Return(McMallocOutcomes(tr, mc, n))
  /\ UNCHANGED detached

Push ==
  /\ pc = "idle" /\ mc # NoMcore
  /\ Return(McPushOutcomes(tr, mc))
  /\ UNCHANGED detached

(* Any pointer the mcore has handed out, or one it no longer records.      *)
Del(at) ==
  /\ pc = "idle" /\ mc # NoMcore
  /\ at \in Ptr => at \in Payloads \cup detached
  /\ IF Deletable(mc, at) = {}
     THEN err' = "REFUSED" /\ UNCHANGED <<mc, detached>>
     ELSE /\ \E i \in Deletable(mc, at) : mc' = McDel(mc, i)
          /\ detached' = detached \cup {at}
          /\ err' = "ok"
  /\ UNCHANGED <<nested, tr, pc>>

(* The new owner of a deleted payload frees it.                            *)
FreeDetached(p) ==
  /\ pc = "idle" /\ p \in detached
  /\ \E o \in FreeNosignal(tr, p) :
       /\ tr' = o.t
       /\ err' = o.err
       /\ detached' = IF o.err = "ok" THEN detached \ {p} ELSE detached
  /\ UNCHANGED <<nested, mc, pc>>

Pop ==
  /\ pc = "idle" /\ mc # NoMcore /\ mc.mops # <<>>
  /\ pc' = "pop" /\ err' = "ok"
  /\ UNCHANGED <<nested, tr, mc, detached>>

PopTurn ==
  /\ pc = "pop"
  /\ LET o == McPopTurn(tr, mc)
         marked == mc.mops[Len(mc.mops)].type = "MARK"
     IN /\ tr' = o.t /\ mc' = o.mc /\ err' = o.err
        /\ pc' = IF marked \/ o.err # "ok" \/ o.mc.mops = <<>> THEN "idle" ELSE "pop"
  /\ UNCHANGED <<nested, detached>>

(* The payloads of an mcore that is destroyed before it is popped are left *)
(* to whoever holds them.                                                  *)
Destroy ==
  /\ pc = "idle" /\ mc # NoMcore
  /\ Return({DestroyOutcome(tr, mc)})
  /\ detached' = IF mc' = NoMcore THEN detached \cup Payloads ELSE detached

(* gk_malloc_cleanup. Its caller no longer uses what the frame owns: the   *)
(* whole mcore when it was created in the frame, and otherwise the mcore   *)
(* holds no payload of the frame.                                          *)
MallocCleanup ==
  /\ pc = "idle" /\ tr.mops # <<>>
  /\ \/ mc = NoMcore \/ mc.self \in TopBlocks(tr)
     \/ nested /\ Payloads \cap TopBlocks(tr) = {}
  /\ mc' = IF mc # NoMcore /\ mc.self \in TopBlocks(tr) THEN NoMcore ELSE mc
  /\ detached' = detached \ TopBlocks(tr)
  /\ pc' = "cleanup" /\ err' = "ok"
  /\ UNCHANGED <<nested, tr>>

CleanupTurn ==
  /\ pc = "cleanup"
  /\ tr' = IF LoopEnds(tr) THEN FinishPop(PopRecord(tr)) ELSE PopRecord(tr)
  /\ pc' = IF LoopEnds(tr) THEN "idle" ELSE "cleanup"
  /\ err' = "ok"
  /\ UNCHANGED <<nested, mc, detached>>

Next ==
  \/ MallocInit \/ MallocCleanup \/ CleanupTurn
  \/ Create \/ Push \/ Pop \/ PopTurn \/ Destroy
  \/ \E n \in Requests : Malloc(n)
  \/ \E at \in Ptr \cup CoreOffset : Del(at)
  \/ \E p \in Ptr : FreeDetached(p)

Spec == Init /\ [][Next]_vars
-----------------------------------------------------------------------------
(* Types: the mcore's handles, log and counters stay words.                *)
TypeOK ==
  /\ nested \in BOOLEAN
  /\ tr \in Tracker
  /\ mc = NoMcore \/ mc \in McoreType
  /\ detached \subseteq Ptr
  /\ pc \in {"idle", "pop", "cleanup"}
  /\ err \in Errno \cup {"REFUSED", "INTERNAL"}

(* The struct, the core and the log of an mcore in use are three live      *)
(* blocks: growth that moves the log, an inner gk_malloc_cleanup and a     *)
(* refused gk_mcoreDestroy all leave it whole.                             *)
HandlesLive ==
  mc # NoMcore =>
    /\ {mc.self, mc.core, mc.ops} \subseteq tr.live
    /\ Cardinality({mc.self, mc.core, mc.ops}) = 3

(* Every heap payload that the mcore records is live, is recorded once, is *)
(* not part of the mcore's own storage and has no second owner.            *)
HeapMops == {i \in DOMAIN mc.mops : mc.mops[i].type = "HEAP"}
PayloadsOwned ==
  mc # NoMcore =>
    /\ \A i, j \in HeapMops : mc.mops[i].at = mc.mops[j].at => i = j
    /\ Payloads \subseteq tr.live \ ({mc.self, mc.core, mc.ops} \cup detached)

(* Both together: the mcore owns what it stands on and what it records.    *)
StorageOwned == HandlesLive /\ PayloadsOwned

(* corecpos and the current counters account for exactly the records that  *)
(* are left in the log, so that a pop never over-frees the core; all state *)
(* is of its type.                                                         *)
LoggedBytes(m, type) ==
  LET sum[i \in 0 .. Len(m.mops)] ==
        IF i = 0 THEN 0
        ELSE sum[i - 1] + IF m.mops[i].type = type THEN m.mops[i].nbytes ELSE 0
  IN sum[Len(m.mops)]
CountersExact ==
  /\ TypeOK
  /\ mc # NoMcore =>
       /\ mc.corecpos = LoggedBytes(mc, "CORE") /\ mc.ccur = mc.corecpos
       /\ mc.hcur = LoggedBytes(mc, "HEAP")

(* Two payloads that are in use never overlap in the core. gk_mcorePop     *)
(* gives core space back by size, as a stack, while gk_mcoreDel reorders   *)
(* the log: it holds only as long as a pop undoes a whole frame.           *)
CoreMops == {i \in DOMAIN mc.mops : mc.mops[i].type = "CORE"}
CoreBlocksDisjoint ==
  mc # NoMcore =>
    \A i, j \in CoreMops :
      LET a == mc.mops[i] b == mc.mops[j]
      IN i # j => a.at + a.nbytes <= b.at \/ b.at + b.nbytes <= a.at

(* That is so when the frames enclose the whole life of the mcore.         *)
DisjointInside == ~nested => CoreBlocksDisjoint

(* A gk_mcorePop, gk_mcoreDel or gk_mcoreDestroy that is refused keeps the *)
(* record, the counters and the caller's handle, and frees nothing.        *)
RefusalKeepsState ==
  [][err' \in {"EINVAL", "REFUSED", "INTERNAL"} =>
       mc' = mc /\ tr' = tr /\ detached' = detached]_vars
=============================================================================
