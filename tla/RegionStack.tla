---------------------------- MODULE RegionStack ----------------------------
(***************************************************************************)
(* What the allocation tracker promises, without its operation log: heap   *)
(* blocks belong to the recovery frame they were allocated in, an ordinary *)
(* free reaches the innermost frame only, and ending a frame releases      *)
(* exactly the blocks that frame still owns, one after the other.          *)
(***************************************************************************)
EXTENDS Integers, Sequences

CONSTANTS Block

VARIABLES
  frames,   \* the open frames, outermost first, each the set of its blocks
  loose,    \* the live blocks that belong to no frame
  closing   \* the innermost frame is being ended

rvars == <<frames, loose, closing>>

Owned == UNION {frames[i] : i \in DOMAIN frames}
Live == loose \cup Owned
Top == Len(frames)

Init == frames = <<>> /\ loose = {} /\ closing = FALSE

Open ==
  /\ ~closing
  /\ frames' = Append(frames, {})
  /\ UNCHANGED <<loose, closing>>

(* A new block goes to the innermost frame, if any.                        *)
Allocate(b) ==
  /\ ~closing /\ b \notin Live
  /\ IF frames = <<>> THEN loose' = loose \cup {b} /\ UNCHANGED frames
     ELSE frames' = [frames EXCEPT ![Top] = @ \cup {b}] /\ UNCHANGED loose
  /\ UNCHANGED closing

(* Only the innermost frame's blocks can be freed while a frame is open.   *)
Release(b) ==
  /\ ~closing
  /\ IF frames = <<>> THEN b \in loose /\ loose' = loose \ {b} /\ UNCHANGED frames
     ELSE b \in frames[Top] /\ frames' = [frames EXCEPT ![Top] = @ \ {b}]
          /\ UNCHANGED loose
  /\ UNCHANGED closing

(* A reallocated block keeps its owner, whichever frame that is.           *)
Move(b, c) ==
  /\ ~closing /\ b # c /\ c \notin Live
  /\ \/ /\ b \in loose
        /\ loose' = (loose \ {b}) \cup {c}
        /\ UNCHANGED frames
     \/ \E i \in DOMAIN frames :
          /\ b \in frames[i]
          /\ frames' = [frames EXCEPT ![i] = (@ \ {b}) \cup {c}]
          /\ UNCHANGED loose
  /\ UNCHANGED closing

BeginClose ==
  /\ ~closing /\ frames # <<>>
  /\ closing' = TRUE
  /\ UNCHANGED <<frames, loose>>

CloseBlock(b) ==
  /\ closing /\ b \in frames[Top]
  /\ frames' = [frames EXCEPT ![Top] = @ \ {b}]
  /\ UNCHANGED <<loose, closing>>

EndClose ==
  /\ closing /\ frames[Top] = {}
  /\ frames' = SubSeq(frames, 1, Top - 1)
  /\ closing' = FALSE
  /\ UNCHANGED loose

Next ==
  \/ Open \/ BeginClose \/ EndClose
  \/ \E b \in Block : Allocate(b) \/ Release(b) \/ CloseBlock(b)
  \/ \E b, c \in Block : Move(b, c)

Steps == Init /\ [][Next]_rvars

(* Once begun, a close runs to its end.                                    *)
Spec == Steps /\ WF_rvars(EndClose \/ \E b \in Block : CloseBlock(b))
=============================================================================
