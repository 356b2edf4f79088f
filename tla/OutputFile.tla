------------------------------ MODULE OutputFile ------------------------------
(***************************************************************************)
(* The output transactions of src/src/io_internal.h: a writer opens a      *)
(* temporary file beside its destination, writes its chunks, and renames   *)
(* the closed file onto the destination; on any failure it removes the     *)
(* temporary file. Each system call is a step, so that the writers of one  *)
(* process, which draw temporary names from the same series                *)
(* .tmp.<pid>.<attempt>, interleave between any two of them, and the       *)
(* process may die there. A later process may have the same process id.    *)
(*                                                                         *)
(* A system call may fail whenever it is made. The Windows branch, the sync*)
(* of file data to a disk, and changes of the destination by anyone else   *)
(* are left out. Bug... operators are mutated forms of the one after.      *)
(***************************************************************************)
EXTENDS Integers, FiniteSets

CONSTANTS
  Writer,       \* threads that write the destination
  Attempts,     \* names tried for a temporary file (65536 in the code)
  Chunks,       \* writes that make a complete output
  Absent        \* no file

Umask == "umask"
Link == "link"
Mode == {"kept", Umask, Link}

ASSUME OutputConstants ==
  /\ Attempts \in Nat \ {0} /\ Chunks \in Nat
  /\ Absent \notin [by : Writer \cup {"before"}, part : 0 .. Chunks, mode : Mode]
  /\ Absent \notin [by : Writer \cup {"before"}, whole : BOOLEAN, mode : Mode]

VARIABLES
  dest,     \* the destination: Absent or [by, part, mode]
  temp,     \* temp[i]: the temporary file of attempt i, or Absent
  tx,       \* tx[w]: the transaction of writer w
  litter    \* temporary files left behind by a crash or a failed removal

outputVars == <<dest, temp, tx, litter>>

Name == 0 .. Attempts - 1
NoName == -1
File == [by : Writer \cup {"before"}, part : 0 .. Chunks, mode : Mode]

(* The mode Link stands for what is not a regular file with one link.      *)
Before == [by : {"before"}, part : {Chunks}, mode : {"kept", Link}]

(***************************************************************************)
(* A transaction: where it is, its temporary name, the mode it gives to the*)
(* file, the chunks written so far, ferror(stream), the argument complete, *)
(* saved_errno (the kind of the call that failed, or "none"), the first    *)
(* call that failed at all, and what was returned.                         *)
(***************************************************************************)
Over(ret, saved, first) ==
  [pc |-> "idle", name |-> NoName, mode |-> Umask, n |-> 0, ferror |-> FALSE,
   complete |-> TRUE, saved |-> saved, first |-> first, ret |-> ret]
Idle == Over("none", "none", "none")
OutputInit ==
  /\ dest \in {Absent} \cup Before
  /\ temp = [i \in Name |-> Absent]
  /\ tx = [w \in Writer |-> Idle]
  /\ litter = {}

At(w, pc) == tx[w].pc = pc
Set(w, t) == tx' = [tx EXCEPT ![w] = t]
FirstError(t, e) == IF t.first = "none" THEN e ELSE t.first

(* saved_errno keeps the first error it is given.                          *)
BugSave(t, e) == [t EXCEPT !.saved = e, !.first = FirstError(t, e)]
Save(t, e) == [t EXCEPT !.saved = IF @ = "none" THEN e ELSE @, !.first = FirstError(t, e)]

(* The last step of a transaction: what the caller is told.                *)
Return(w, t, ret) == Set(w, Over(ret, t.saved, t.first))

Regular == dest # Absent => dest.mode # Link

(* A transaction that has begun, with its first name or, for standard      *)
(* output, with none.                                                      *)
Begun(pc, name, mode) ==
  [pc |-> pc, name |-> name, mode |-> mode, n |-> 0, ferror |-> FALSE,
   complete |-> TRUE, saved |-> "none", first |-> "none", ret |-> "none"]

(* gk_open_output_file up to lstat; a null file name is standard output.   *)
Begin(w) ==
  /\ At(w, "idle")
  /\ \/ \E e \in {"lstat", "malloc"} : Return(w, Save(Idle, e), "failed")
     \/ /\ ~Regular
        /\ Return(w, Save(Idle, "special"), "failed")
     \/ /\ Regular
        /\ Set(w, Begun("create", 0, IF dest = Absent THEN Umask ELSE dest.mode))
     \/ Set(w, Begun("write", NoName, Umask))
  /\ UNCHANGED <<dest, temp, litter>>

(* open with O_EXCL: a name in use is skipped, up to the last attempt.     *)
NewFile(w) == [by |-> w, part |-> 0, mode |-> Umask]
BugCreateShared(w) ==
  /\ At(w, "create")
  /\ Set(w, [tx[w] EXCEPT !.pc = "setup"])
  /\ temp' = [temp EXCEPT ![tx[w].name] = NewFile(w)]
  /\ UNCHANGED <<dest, litter>>
Create(w) ==
  /\ At(w, "create")
  /\ \/ /\ temp[tx[w].name] = Absent
        /\ temp' = [temp EXCEPT ![tx[w].name] = NewFile(w)]
        /\ Set(w, [tx[w] EXCEPT !.pc = "setup"])
     \/ /\ temp[tx[w].name] # Absent
        /\ IF tx[w].name + 1 < Attempts THEN Set(w, [tx[w] EXCEPT !.name = @ + 1])
           ELSE Return(w, Save(tx[w], "exists"), "failed")
        /\ UNCHANGED temp
     \/ Return(w, Save(tx[w], "open"), "failed") /\ UNCHANGED temp
  /\ UNCHANGED <<dest, litter>>

(* fstat, fchown, fchmod and fdopen; a failure closes and removes the file.*)
ModeSet(f, mode) == [f EXCEPT !.mode = mode]
Setup(w) ==
  /\ At(w, "setup")
  /\ \/ /\ temp' = [temp EXCEPT ![tx[w].name] = ModeSet(@, tx[w].mode)]
        /\ Set(w, [tx[w] EXCEPT !.pc = "write"])
     \/ /\ UNCHANGED temp
        /\ \E e \in {"chmod", "fdopen"} : Set(w, [Save(tx[w], e) EXCEPT !.pc = "remove"])
  /\ UNCHANGED <<dest, litter>>

(***************************************************************************)
(* The caller writes a chunk, which stdio may flush to the file. A failed  *)
(* write marks the stream, and loses a chunk for good; the library's       *)
(* writers stop there and finish with complete = 0, the applications go on *)
(* and finish with complete = 1.                                           *)
(***************************************************************************)
Flushed(w, n) ==
  IF tx[w].name = NoName \/ tx[w].ferror THEN temp
  ELSE [temp EXCEPT ![tx[w].name].part = n]
Write(w) ==
  /\ At(w, "write")
  /\ tx[w].n < Chunks
  /\ LET next == [tx[w] EXCEPT !.n = @ + 1]
     IN \/ Set(w, next) /\ (UNCHANGED temp \/ temp' = Flushed(w, next.n))
        \/ /\ UNCHANGED temp
           /\ \/ Set(w, [next EXCEPT !.ferror = TRUE, !.first = FirstError(tx[w], "write")])
              \/ Set(w, [Save(tx[w], "write") EXCEPT
                           !.ferror = TRUE, !.complete = FALSE, !.pc = "flush"])
  /\ UNCHANGED <<dest, litter>>

(***************************************************************************)
(* gk_finish_output_file. ferror and fflush come first; standard output is *)
(* not closed.                                                             *)
(***************************************************************************)
Failed(t) == t.saved # "none"
BugStreamChecked(t) == t
StreamChecked(t) == IF t.ferror THEN Save(t, "write") ELSE t
Flush(w) ==
  /\ At(w, "flush") \/ (At(w, "write") /\ tx[w].n = Chunks)
  /\ LET After(t) == IF t.name # NoName THEN Set(w, [t EXCEPT !.pc = "close"])
                     ELSE Return(w, t, IF Failed(t) THEN "failed" ELSE "printed")
     IN \/ temp' = Flushed(w, tx[w].n) /\ After(StreamChecked(tx[w]))
        \/ UNCHANGED temp /\ After(Save(StreamChecked(tx[w]), "flush"))
  /\ UNCHANGED <<dest, litter>>

Close(w) ==
  /\ At(w, "close")
  /\ \/ Set(w, [tx[w] EXCEPT !.pc = IF Failed(tx[w]) THEN "remove" ELSE "rename"])
     \/ Set(w, [Save(tx[w], "close") EXCEPT !.pc = "remove"])
  /\ UNCHANGED <<dest, temp, litter>>

Rename(w) ==
  /\ At(w, "rename")
  /\ \/ /\ dest' = temp[tx[w].name]
        /\ temp' = [temp EXCEPT ![tx[w].name] = Absent]
        /\ Return(w, tx[w], "ok")
     \/ Set(w, [Save(tx[w], "rename") EXCEPT !.pc = "remove"]) /\ UNCHANGED <<dest, temp>>
  /\ UNCHANGED litter

RemoveTemp(w) ==
  /\ At(w, "remove")
  /\ \/ temp' = [temp EXCEPT ![tx[w].name] = Absent] /\ UNCHANGED litter
     \/ UNCHANGED temp /\ litter' = litter \cup {tx[w].name}
  /\ Return(w, tx[w], "failed")
  /\ UNCHANGED dest

(* The process dies and its temporary files stay.                          *)
Crash ==
  /\ tx' = [w \in Writer |-> Idle]
  /\ litter' = {i \in Name : temp[i] # Absent}
  /\ UNCHANGED <<dest, temp>>

OutputNext ==
  \/ Crash
  \/ \E w \in Writer :
       \/ Begin(w) \/ Create(w) \/ Setup(w) \/ Write(w)
       \/ Flush(w) \/ Close(w) \/ Rename(w) \/ RemoveTemp(w)

OutputSpec == OutputInit /\ [][OutputNext]_outputVars
-----------------------------------------------------------------------------
(* Types of the files and of the transactions.                             *)
Error == {"none", "lstat", "malloc", "special", "exists", "open", "chmod", "fdopen",
          "write", "flush", "close", "rename"}
Owning == {"setup", "write", "flush", "close", "rename", "remove"}
Transaction ==
  [pc : {"idle", "create"} \cup Owning, name : Name \cup {NoName}, mode : Mode,
   n : 0 .. Chunks, ferror : BOOLEAN, complete : BOOLEAN, saved : Error,
   first : Error, ret : {"none", "ok", "failed", "printed"}]
OutputTypeOK ==
  /\ dest \in File \cup {Absent}
  /\ temp \in [Name -> File \cup {Absent}]
  /\ tx \in [Writer -> Transaction]
  /\ litter \subseteq Name

(* Every temporary file belongs to one transaction, which alone writes it, *)
(* or was left behind by a crash or a failed removal: transactions never   *)
(* share one, never touch a file left behind, and otherwise leave none.    *)
Owns(w, i) == tx[w].pc \in Owning /\ tx[w].name = i
TempsOwned ==
  /\ \A i \in Name : temp[i] # Absent <=> i \in litter \/ \E w \in Writer : Owns(w, i)
  /\ \A w \in Writer, i \in Name :
       Owns(w, i) => /\ i \notin litter /\ temp[i].by = w
                     /\ \A v \in Writer : Owns(v, i) => v = w

(* io_internal.h:404: "errno describes the first detected error" - also when*)
(* calls after the first failure fail too; and a success had no error.     *)
FirstErrorReported ==
  \A w \in Writer : At(w, "idle") =>
    /\ tx[w].saved = tx[w].first
    /\ tx[w].ret # "none" => (tx[w].ret = "failed" <=> tx[w].saved # "none")

Atomic == INSTANCE AtomicFile WITH
  file <- IF dest = Absent THEN Absent
          ELSE [by |-> dest.by, whole |-> dest.part = Chunks, mode |-> dest.mode],
  told <- [w \in Writer |-> tx[w].ret]

(* The destination changes in one step, to a complete output of the writer *)
(* that is told so, and keeps its mode, whatever call fails and wherever   *)
(* the process dies.                                                       *)
AtomicSpec == Atomic!Spec
=============================================================================
