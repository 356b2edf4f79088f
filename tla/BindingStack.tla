---------------------------- MODULE BindingStack ----------------------------
(***************************************************************************)
(* What the recovery protocol of docs/architecture.md promises a thread,   *)
(* without frame numbers, depths and flags: the bindings in force form one *)
(* stack, of which at most one member is the legacy binding. Only the last *)
(* binding can be released, a reported error resumes the last binding, and *)
(* both give the thread the signal mask it had when the binding was made.  *)
(***************************************************************************)
EXTENDS Integers, Sequences, FiniteSets

CONSTANTS
  Mask,         \* signal masks
  MaxModern     \* how many modern bindings may be in force

VARIABLES
  open,     \* the bindings in force, the most recent one last
  mask,     \* the signal mask of the thread
  call,     \* what the thread did last
  landed,   \* the place in open at which a jump resumed, 0 for no jump
  alive     \* the process has not ended

bvars == <<open, mask, call, landed, alive>>

Kinds == {"modern", "legacy"}
Count(kind) == Cardinality({i \in DOMAIN open : open[i].kind = kind})
Room(kind) == IF kind = "legacy" THEN Count(kind) = 0 ELSE Count(kind) < MaxModern
Innermost == open[Len(open)]

Init ==
  /\ open = <<>> /\ mask \in Mask
  /\ call = "none" /\ landed = 0 /\ alive = TRUE

Did(op) == alive /\ call' = op
Stay == landed' = 0 /\ UNCHANGED alive

SetMask(m) == Did("mask") /\ mask' = m /\ Stay /\ UNCHANGED open

Establish(kind) ==
  /\ Did("bind") /\ Room(kind)
  /\ open' = Append(open, [kind |-> kind, mask |-> mask])
  /\ Stay /\ UNCHANGED mask

Release(kind) ==
  /\ open # <<>> /\ Innermost.kind = kind
  /\ Did("release")
  /\ mask' = Innermost.mask
  /\ open' = SubSeq(open, 1, Len(open) - 1)
  /\ Stay

Refuse(op) == Did(op) /\ Stay /\ UNCHANGED <<open, mask>>

(* With a binding in force an error resumes the last one, or, when the     *)
(* mask cannot be restored, ends the process; it never just returns.       *)
Report ==
  /\ open # <<>>
  /\ Did("report")
  /\ \/ mask' = Innermost.mask /\ landed' = Len(open) /\ UNCHANGED <<open, alive>>
     \/ alive' = FALSE /\ landed' = 0 /\ UNCHANGED <<open, mask>>

(* Without one, and for a signal that is not the library's own, the host   *)
(* decides whether the program goes on.                                    *)
RaiseToHost ==
  /\ Did("signal") \/ (open = <<>> /\ Did("report"))
  /\ landed' = 0 /\ alive' \in BOOLEAN /\ UNCHANGED <<open, mask>>

(* A fatal error of the program, reported outside the protocol.            *)
Exit == Did("fatal") /\ alive' = FALSE /\ landed' = 0 /\ UNCHANGED <<open, mask>>

Next ==
  \/ Exit \/ Report \/ RaiseToHost
  \/ \E m \in Mask : SetMask(m)
  \/ \E kind \in Kinds : Establish(kind) \/ Release(kind)
  \/ \E op \in {"bind", "release", "message"} : Refuse(op)

Spec == Init /\ [][Next]_bvars
=============================================================================
