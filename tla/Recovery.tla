------------------------------ MODULE Recovery ------------------------------
(***************************************************************************)
(* The recovery protocol of src/src/error.c for one thread: frames made by *)
(* gk_sigtrap, the single legacy binding of gk_SetSignalHandlers, and the  *)
(* jumps of gk_errexit, gk_sigthrow and gk_NonLocalExit_Handler. All its   *)
(* state is thread-local but gk_exit_on_error, which any thread may set at *)
(* any time: gk_errexit reads it once, and the model chooses its value.    *)
(*                                                                         *)
(* As docs/architecture.md asks of callers, a binding's jump buffer is set *)
(* right after the binding is made, an activation is not left while its    *)
(* binding is in force, and a direct legacy jump is made with the legacy   *)
(* binding innermost. Callers may try to release bindings in a wrong order,*)
(* or bindings that do not exist: the code has to refuse.                  *)
(* Bug... operators are mutated forms of the operator after them.          *)
(***************************************************************************)
EXTENDS Integers, Sequences, FiniteSets

CONSTANTS
  MaxJbufs,     \* MAX_JBUFS (128)
  Mask          \* signal masks

ASSUME JbufsPositive == MaxJbufs \in Nat \ {0}
ASSUME SomeMask == Mask # {}

VARIABLES
  cur,      \* gk_cur_jbufs
  active,   \* gk_frame_active
  masks,    \* gk_frame_masks
  legacy,   \* gk_legacy_active, gk_legacy_depth, gk_legacy_mask: [on, depth, mask]
  mask,     \* the signal mask of the thread
  call,     \* what the thread did last
  buffer,   \* the jump buffer at which a jump resumed the thread, if any
  alive     \* the process has not ended

recoveryVars == <<cur, active, masks, legacy, mask, call, buffer, alive>>
bindings == <<cur, active, masks, legacy>>

Frames == 0 .. MaxJbufs - 1
NoJump == [at |-> "none", frame |-> -1]
AtFrame(i) == [at |-> "gk_jbufs", frame |-> i]
AtLegacy == [at |-> "gk_jbuf", frame |-> -1]

RecoveryInit ==
  /\ cur = -1
  /\ active = [i \in Frames |-> FALSE]
  /\ mask \in Mask
  /\ masks = [i \in Frames |-> mask]
  /\ legacy = [on |-> FALSE, depth |-> -1, mask |-> mask]
  /\ call = "none" /\ buffer = NoJump /\ alive = TRUE

Did(op) == alive /\ call' = op
Returns == buffer' = NoJump /\ UNCHANGED alive
Refuses(op) == Did(op) /\ Returns /\ UNCHANGED <<bindings, mask>>

(* The mask a binding keeps, and the thread with that mask again.          *)
gk_save_mask == mask
gk_restore_mask(m) == mask' = m

(* The caller changes the mask of its thread.                              *)
SetMask(m) == Did("mask") /\ mask' = m /\ Returns /\ UNCHANGED bindings

CanTrap == cur >= -1 /\ cur < MaxJbufs - 1
gk_sigtrap ==
  \/ Refuses("bind")     \* no frame left, or the mask cannot be read
  \/ /\ CanTrap
     /\ Did("bind")
     /\ cur' = cur + 1
     /\ active' = [active EXCEPT ![cur + 1] = TRUE]
     /\ masks' = [masks EXCEPT ![cur + 1] = gk_save_mask]
     /\ Returns /\ UNCHANGED <<legacy, mask>>

(* The legacy binding is more recent than every modern frame.              *)
LegacyInnermost == legacy.on /\ cur <= legacy.depth

FrameInForce == cur \in Frames /\ active[cur]
BugCanUntrapUnderLegacy == FrameInForce
CanUntrap == FrameInForce /\ ~LegacyInnermost

gk_siguntrap ==
  \/ Refuses("release")  \* nothing to release, or the mask cannot be restored
  \/ /\ CanUntrap
     /\ Did("release")
     /\ gk_restore_mask(masks[cur])
     /\ active' = [active EXCEPT ![cur] = FALSE]
     /\ cur' = cur - 1
     /\ Returns /\ UNCHANGED <<masks, legacy>>

gk_SetSignalHandlers ==
  \/ Refuses("bind")     \* the binding exists, or the mask cannot be read
  \/ /\ ~legacy.on
     /\ Did("bind")
     /\ legacy' = [on |-> TRUE, depth |-> cur, mask |-> gk_save_mask]
     /\ Returns /\ UNCHANGED <<cur, active, masks, mask>>

CanUnset == legacy.on /\ cur = legacy.depth
gk_UnsetSignalHandlers ==
  \/ Refuses("release")  \* not innermost, or the mask cannot be restored
  \/ /\ CanUnset
     /\ Did("release")
     /\ gk_restore_mask(legacy.mask)
     /\ legacy' = [legacy EXCEPT !.on = FALSE, !.depth = -1]
     /\ Returns /\ UNCHANGED <<cur, active, masks>>

(***************************************************************************)
(* A jump restores the mask of the binding it goes to; the process ends    *)
(* when it cannot. The bindings stay in force. With no binding the signal  *)
(* is raised, and the host's handler may return or end the process.        *)
(***************************************************************************)
Die == alive' = FALSE /\ buffer' = NoJump /\ UNCHANGED <<bindings, mask>>
Resume(m, b) ==
  \/ gk_restore_mask(m) /\ buffer' = b /\ UNCHANGED <<bindings, alive>>
  \/ Die
Raise == Die \/ (Returns /\ UNCHANGED <<bindings, mask>>)

gk_NonLocalExit_Handler == Resume(legacy.mask, AtLegacy)

(* A frame that is not active still takes the jump, without its mask.      *)
JumpOrRaise ==
  IF LegacyInnermost THEN gk_NonLocalExit_Handler
  ELSE IF FrameInForce THEN Resume(masks[cur], AtFrame(cur))
  ELSE IF cur \in Frames THEN buffer' = AtFrame(cur) /\ UNCHANGED <<bindings, mask, alive>>
  ELSE Raise

gk_sigthrow == Did("report") /\ JumpOrRaise

LegacyJump == LegacyInnermost /\ Did("report") /\ gk_NonLocalExit_Handler

(* gk_exit_on_error, which gk_set_exit_on_error sets for every thread: any *)
(* value may be read.                                                      *)
ExitOnError == BOOLEAN

(* errexit ends the process whatever the bindings, or it only prints.      *)
errexit(exits) == IF exits THEN Did("fatal") /\ Die ELSE Refuses("message")

(* gk_errexit in a program that exits on error, or not, with SIGMEM or     *)
(* SIGERR, or with another signal, which is always the host's.             *)
BugBoundModernOnly == FrameInForce
Bound == legacy.on \/ FrameInForce
gk_errexit(exits, ours) ==
  IF ~exits THEN Refuses("message")
  ELSE IF ~ours THEN Did("signal") /\ Raise
  ELSE Did("report") /\ IF Bound THEN JumpOrRaise ELSE Raise

RecoveryNext ==
  \/ gk_sigtrap \/ gk_siguntrap
  \/ gk_SetSignalHandlers \/ gk_UnsetSignalHandlers
  \/ gk_sigthrow \/ LegacyJump
  \/ \E exits \in ExitOnError : errexit(exits) \/ \E ours \in BOOLEAN : gk_errexit(exits, ours)
  \/ \E m \in Mask : SetMask(m)

RecoverySpec == RecoveryInit /\ [][RecoveryNext]_recoveryVars
-----------------------------------------------------------------------------
(* Types: frame numbers within gk_jbufs, flags and masks.                  *)
RecoveryTypeOK ==
  /\ cur \in -1 .. MaxJbufs - 1
  /\ active \in [Frames -> BOOLEAN]
  /\ masks \in [Frames -> Mask]
  /\ legacy \in [on : BOOLEAN, depth : -1 .. MaxJbufs - 1, mask : Mask]
  /\ mask \in Mask
  /\ alive \in BOOLEAN

(* The frames up to gk_cur_jbufs are the active ones, so that gk_errexit   *)
(* and gk_sigthrow agree on whether there is a binding, whatever was made, *)
(* released or refused in between.                                         *)
ActiveBelowCur == \A i \in Frames : active[i] <=> i <= cur

(* No modern frame older than the legacy binding is released before it:    *)
(* the depth it recorded is never above the current frame.                 *)
LegacyAnchored ==
  IF legacy.on THEN legacy.depth <= cur ELSE legacy.depth = -1

(* Both together: flags and recorded depth describe one stack of bindings. *)
BindingsSound == ActiveBelowCur /\ LegacyAnchored

(* The bindings in the order they were made: the legacy binding comes      *)
(* after the frames up to its depth.                                       *)
Modern(i) == [kind |-> "modern", mask |-> masks[i]]
Older == IF legacy.on THEN legacy.depth + 1 ELSE cur + 1
Open ==
  [k \in 1 .. cur + 1 + (IF legacy.on THEN 1 ELSE 0) |->
     IF k <= Older THEN Modern(k - 1)
     ELSE IF k = Older + 1 THEN [kind |-> "legacy", mask |-> legacy.mask]
     ELSE Modern(k - 2)]
Landed ==
  IF buffer = NoJump THEN 0
  ELSE IF buffer = AtLegacy THEN Older + 1
  ELSE IF buffer.frame < Older THEN buffer.frame + 1 ELSE buffer.frame + 2

Stack == INSTANCE BindingStack WITH
  MaxModern <- MaxJbufs, open <- Open, landed <- Landed

(* Frame numbers, flags and one recorded depth implement a single stack of *)
(* bindings: only the most recent binding is ever released, every error    *)
(* resumes it, and the thread then has the mask it had when it was made.   *)
StackSpec == Stack!Spec
=============================================================================
