------------------------------ MODULE AtomicFile ------------------------------
(***************************************************************************)
(* What a transactional output promises: the destination is replaced in one*)
(* step, by a complete output, and keeps its mode; the writer is told "ok" *)
(* exactly when that happened. A writer that is told anything else has not *)
(* touched the destination. Only a regular file is replaced.               *)
(***************************************************************************)
CONSTANTS
  Writer,   \* who writes the destination
  Absent,   \* no file
  Umask,    \* the mode of a new file
  Link      \* the mode, here, of what is not a regular file with one link

VARIABLES
  file,     \* Absent or [by, whole, mode]
  told      \* told[w]: what writer w's last transaction returned

avars == <<file, told>>

Init ==
  /\ file \in {Absent} \cup [by : {"before"}, whole : {TRUE}, mode : {"kept", Link}]
  /\ told = [w \in Writer |-> "none"]

Begin(w) == told' = [told EXCEPT ![w] = "none"] /\ UNCHANGED file
Fail(w) == told' = [told EXCEPT ![w] = "failed"] /\ UNCHANGED file
Emit(w) == told' = [told EXCEPT ![w] = "printed"] /\ UNCHANGED file

Commit(w) ==
  /\ file # Absent => file.mode # Link
  /\ file' = [by |-> w, whole |-> TRUE,
              mode |-> IF file = Absent THEN Umask ELSE file.mode]
  /\ told' = [told EXCEPT ![w] = "ok"]

(* The process dies: nobody is told anything.                              *)
Forget == told' = [w \in Writer |-> "none"] /\ UNCHANGED file

Next ==
  \/ Forget
  \/ \E w \in Writer : Begin(w) \/ Fail(w) \/ Emit(w) \/ Commit(w)

Spec == Init /\ [][Next]_avars
=============================================================================
