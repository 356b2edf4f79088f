-------------------------------- MODULE Paths -------------------------------
(***************************************************************************)
(* The file system that src/src/fs.c works on, as its system calls see it: *)
(* a tree of directories, files and symbolic links below Root, which is    *)
(* also the working directory. All symbolic links lead to the node Aim. A  *)
(* node that lost its last name is dead; a directory that is open is found *)
(* through its descriptor even then, and is empty.                         *)
(*                                                                         *)
(* A path is the sequence of what its separators part: "/a//b/" is         *)
(* <<"", "a", "", "b", "">>, and the empty path is <<"">>.                 *)
(***************************************************************************)
EXTENDS Integers, SequencesExt, FiniteSets

CONSTANTS
  Node, Root,   \* what the tree is made of, and its root
  Aim,          \* where the symbolic links lead
  Name,         \* the names of entries
  NoNode        \* no such entry

ASSUME TreeConstants ==
  IsFiniteSet(Node) /\ {Root, Aim} \subseteq Node /\ NoNode \notin Node /\ {"", ".", ".."} \cap Name = {}

Live == {"dir", "file", "link"}
Tree == [kind : [Node -> Live \cup {"free", "dead"}], entry : [Node -> [Name -> Node \cup {NoNode}]]]

IsDir(t, n) == n # NoNode /\ t.kind[n] = "dir"
Present(t, d) == {m \in Name : t.entry[d][m] # NoNode}
Holders(t, n) == {d \in Node : \E m \in Name : t.entry[d][m] = n}
Unused(t) == {n \in Node : t.kind[n] = "free"}
Dead(t) == {n \in Node : t.kind[n] = "dead"}

(* One component of a path, looked up in directory d.                      *)
Lookup(t, d, c) ==
  IF ~IsDir(t, d) THEN NoNode
  ELSE IF c \in {"", "."} THEN d
  ELSE IF c = ".." THEN (IF Holders(t, d) = {} THEN d ELSE CHOOSE u \in Holders(t, d) : TRUE)
  ELSE t.entry[d][c]

Follow(t, n) == IF n # NoNode /\ t.kind[n] = "link" THEN Aim ELSE n

(* The path cs from directory d: Reach does not follow the last component, *)
(* and ReachPlain follows no link.                                         *)
Reach(t, d, cs) ==
  LET From[e \in (1 .. Len(cs) + 1) \X (Node \cup {NoNode})] ==
        IF e[1] > Len(cs) THEN e[2] ELSE From[<<e[1] + 1, Lookup(t, Follow(t, e[2]), cs[e[1]])>>]
  IN From[<<1, d>>]
ReachPlain(t, d, cs) ==
  LET From[e \in (1 .. Len(cs) + 1) \X (Node \cup {NoNode})] ==
        IF e[1] > Len(cs) THEN e[2] ELSE From[<<e[1] + 1, Lookup(t, e[2], cs[e[1]])>>]
  IN From[<<1, d>>]

(* S and all that is in the directories of S, to any depth.                *)
Below(t, S) ==
  LET Grow[U \in SUBSET Node] ==
        LET more == U \cup ({t.entry[e[1]][e[2]] : e \in U \X Name} \ {NoNode})
        IN IF more = U THEN U ELSE Grow[more]
  IN Grow[S]

Put(t, d, m, n, kind) == [kind |-> [t.kind EXCEPT ![n] = kind], entry |-> [t.entry EXCEPT ![d][m] = n]]
Cut(t, d, m) ==
  [kind |-> [t.kind EXCEPT ![t.entry[d][m]] = "dead"], entry |-> [t.entry EXCEPT ![d][m] = NoNode]]
Move(t, d, m, u, l) ==
  [kind |-> t.kind, entry |-> [[t.entry EXCEPT ![d][m] = NoNode] EXCEPT ![u][l] = t.entry[d][m]]]

(* unlinkat removes anything but a directory, and with AT_REMOVEDIR an     *)
(* empty directory only.                                                   *)
CanUnlink(t, d, m) == LET n == Lookup(t, d, m) IN n # NoNode /\ ~IsDir(t, n)
CanRemoveDir(t, d, m) == LET n == Lookup(t, d, m) IN IsDir(t, n) /\ Present(t, n) = {}

-----------------------------------------------------------------------------
(***************************************************************************)
(* gk_mkpath and gk_rmpath of src/src/fs.c on a POSIX system: processes    *)
(* that make and remove paths in one file system, beside programs that     *)
(* add, remove and rename entries. Every system call is a step. malloc and *)
(* any system call may fail although nothing is in its way; such failures  *)
(* and the steps of other programs are at most MaxTrouble together.        *)
(*                                                                         *)
(* readdir returns every entry that was there at opendir and still is, in  *)
(* any order, and perhaps those that came or went since. Values of errno,  *)
(* permissions, hard links and the Windows branch are left out.            *)
(***************************************************************************)

CONSTANTS
  Proc,         \* the calls, each in a process of its own
  Plans,        \* what they call: functions from Proc to [op, path]
  Worlds,       \* the trees that they may find
  Drives,       \* names of two characters that end in ':'
  MaxTrouble    \* failures without a cause and steps of other programs

ASSUME PathConstants ==
  /\ \A plan \in Plans, p \in Proc :
       /\ plan[p].op \in {"gk_mkpath", "gk_rmpath"} /\ plan[p].path # <<>>
       /\ plan[p].path \in Seq(Name \cup {"", ".", ".."})
  /\ Worlds \subseteq Tree /\ Drives \subseteq Name /\ MaxTrouble \in Nat

VARIABLES
  tree,     \* the file system
  call,     \* call[p]: the call of process p
  trouble,  \* failures without a cause and steps of other programs so far
  inside,   \* inside[p]: what has belonged to the tree that p removes
  since     \* since[p]: how others have changed the tree since p began

vars == <<tree, call, trouble, inside, since>>

(***************************************************************************)
(* A call: the component it is at, parent_fd, the name it removes, the     *)
(* directories it has open with the names to remove them by, the buffers   *)
(* it holds, whether a fault hit it and what it returned. A directory being*)
(* read knows what it held at opendir and the names readdir returned.      *)
(***************************************************************************)
Fresh(c) ==
  [op |-> c.op, path |-> c.path, pc |-> "call", k |-> 0, fd |-> NoNode, name |-> "", dirs |-> <<>>,
   mem |-> 0, hit |-> FALSE, ret |-> 0]

Init ==
  /\ tree \in Worlds
  /\ \E plan \in Plans : call = [p \in Proc |-> Fresh(plan[p])]
  /\ trouble = 0
  /\ inside = [p \in Proc |-> {}]
  /\ since = [p \in Proc |-> {}]

At(p, pc) == call[p].pc = pc
Set(p, c) == call' = [call EXCEPT ![p] = c]
Goes(p, pc) == Set(p, [call[p] EXCEPT !.pc = pc])
Sound == UNCHANGED trouble
Fault == trouble < MaxTrouble /\ trouble' = trouble + 1
HitAt(p, pc) == Set(p, [call[p] EXCEPT !.pc = pc, !.hit = TRUE])
Returned(c, ret) == [c EXCEPT !.pc = "done", !.ret = ret]

-----------------------------------------------------------------------------
(* The separators that end a prefix gk_mkpath creates, and the whole path. *)
Stops(path) == {k \in 1 .. Len(path) : k = Len(path) \/ ~(k = 1 /\ path[1] \in {""} \cup Drives)}
Later(path, k) == {j \in Stops(path) : j > k}

(* The first k parts of a path without the separators that end them.       *)
End(path, k) == Max({0} \cup {j \in 1 .. k : path[j] # ""})
Trimmed(path, k) == SubSeq(path, 1, End(path, k))
Prefix(c) == Trimmed(c.path, c.k)
Parent(c) == Follow(tree, Reach(tree, Root, SubSeq(c.path, 1, End(c.path, c.k) - 1)))
Found(c) == Reach(tree, Root, Prefix(c))

(* gk_mkpath up to its loop, and after a directory was made or accepted.   *)
MakeCall(p) ==
  /\ At(p, "call") /\ call[p].op = "gk_mkpath"
  /\ \/ call[p].path = <<"">> /\ Sound /\ Set(p, Returned(call[p], -1))
     \/ /\ call[p].path # <<"">> /\ Sound
        /\ Set(p, [call[p] EXCEPT !.pc = "mkdir", !.mem = 1, !.k = Min(Stops(call[p].path))])
     \/ Fault /\ Set(p, [Returned(call[p], -1) EXCEPT !.hit = TRUE])
  /\ UNCHANGED tree
Accepted(p) ==
  LET c == call[p]
      later == {k \in Stops(c.path) : k > c.k}
  IN Set(p, IF later = {} THEN [Returned(c, 0) EXCEPT !.mem = 0]
            ELSE [c EXCEPT !.pc = "mkdir", !.k = Min(later)])

(* gk_posix_make_directory: mkdir, and stat where there is something.      *)
MakeDirectory(p) ==
  /\ At(p, "mkdir")
  /\ \/ Found(call[p]) # NoNode /\ Goes(p, "stat") /\ Sound /\ UNCHANGED tree
     \/ /\ Found(call[p]) = NoNode /\ Sound
        /\ \/ /\ IsDir(tree, Parent(call[p])) /\ Last(Prefix(call[p])) \in Name /\ Unused(tree) # {}
              /\ tree' = Put(tree, Parent(call[p]), Last(Prefix(call[p])), CHOOSE n \in Unused(tree) : TRUE, "dir")
              /\ Accepted(p)
           \/ /\ ~IsDir(tree, Parent(call[p])) \/ Last(Prefix(call[p])) \notin Name
              /\ Goes(p, "fail") /\ UNCHANGED tree
           \/ Unused(tree) = {} /\ HitAt(p, "fail") /\ UNCHANGED tree
     \/ Fault /\ HitAt(p, "fail") /\ UNCHANGED tree
BugAcceptExisting(p) ==
  At(p, "stat") /\ Accepted(p) /\ Sound /\ UNCHANGED tree
AcceptExisting(p) ==
  /\ At(p, "stat")
  /\ \/ IsDir(tree, Follow(tree, Found(call[p]))) /\ Accepted(p) /\ Sound
     \/ ~IsDir(tree, Follow(tree, Found(call[p]))) /\ Goes(p, "fail") /\ Sound
     \/ Fault /\ HitAt(p, "fail")
  /\ UNCHANGED tree
MakeFails(p) ==
  /\ At(p, "fail")
  /\ Set(p, [Returned(call[p], -1) EXCEPT !.mem = 0])
  /\ Sound /\ UNCHANGED tree

-----------------------------------------------------------------------------
(* What gk_rmpath refuses: nothing, a root, a dot component, what looks    *)
(* like a drive, and a share of a server.                                  *)
Components(path) ==
  LET Upto[k \in 0 .. Len(path)] ==
        IF k = 0 THEN <<>>
        ELSE IF path[k] = "" THEN Upto[k - 1] ELSE Append(Upto[k - 1], path[k])
  IN Upto[Len(path)]
gk_path_is_dangerous(path) ==
  LET cs == Components(path)
  IN \/ cs = <<>>
     \/ \E k \in DOMAIN cs : cs[k] \in {".", ".."}
     \/ Len(Trimmed(path, Len(path))) = 1 /\ cs[1] \in Drives
     \/ Len(path) > 1 /\ path[1] = "" /\ path[2] = "" /\ Len(cs) <= 2

(* gk_rmpath, and gk_posix_remove_path up to its loop.                     *)
RemoveCall(p) ==
  /\ At(p, "call") /\ call[p].op = "gk_rmpath"
  /\ \/ gk_path_is_dangerous(call[p].path) /\ Sound /\ Set(p, Returned(call[p], -1))
     \/ /\ ~gk_path_is_dangerous(call[p].path) /\ Sound
        /\ Set(p, [call[p] EXCEPT !.pc = "walk", !.mem = 1, !.fd = Root, !.k = 1])
     \/ /\ ~gk_path_is_dangerous(call[p].path) /\ Fault
        /\ Set(p, [Returned(call[p], -1) EXCEPT !.hit = TRUE])
  /\ UNCHANGED tree

(* The components before the last are opened one from another.             *)
Rest(c) == LET cs == Components(c.path) IN SubSeq(cs, c.k, Len(cs))
NextDir(c) == Lookup(tree, c.fd, Head(Rest(c)))
Walk(p) ==
  /\ At(p, "walk")
  /\ \/ /\ Len(Rest(call[p])) = 1 /\ Sound
        /\ Set(p, [call[p] EXCEPT !.pc = "open", !.name = Head(Rest(call[p]))])
     \/ /\ Len(Rest(call[p])) > 1 /\ Sound
        /\ IF IsDir(tree, NextDir(call[p])) THEN Set(p, [call[p] EXCEPT !.k = @ + 1, !.fd = NextDir(call[p])])
           ELSE Goes(p, "back")
     \/ Len(Rest(call[p])) > 1 /\ Fault /\ HitAt(p, "back")
  /\ UNCHANGED tree

(* gk_posix_remove_entry of call[p].name in the directory Here. A fault of *)
(* openat goes on to fstatat as any failure does; one of fdopendir does not*)
Here(c) == IF c.dirs = <<>> THEN c.fd ELSE Last(c.dirs).dir
Entry(c) == Lookup(tree, Here(c), c.name)
Opened(p, n) ==
  Set(p, [call[p] EXCEPT !.pc = "read",
            !.dirs = Append(@, [dir |-> n, name |-> call[p].name, first |-> Present(tree, n), seen |-> {}])])
BugOpenEntry(p) ==
  /\ At(p, "open")
  /\ \/ IsDir(tree, Follow(tree, Entry(call[p]))) /\ Opened(p, Follow(tree, Entry(call[p]))) /\ Sound
     \/ ~IsDir(tree, Follow(tree, Entry(call[p]))) /\ Goes(p, "lstat") /\ Sound
     \/ Fault /\ \E pc \in {"lstat", "back"} : HitAt(p, pc)
  /\ UNCHANGED tree
OpenEntry(p) ==
  /\ At(p, "open")
  /\ \/ IsDir(tree, Entry(call[p])) /\ Opened(p, Entry(call[p])) /\ Sound
     \/ ~IsDir(tree, Entry(call[p])) /\ Goes(p, "lstat") /\ Sound
     \/ Fault /\ HitAt(p, "lstat")
     \/ IsDir(tree, Entry(call[p])) /\ Fault /\ HitAt(p, "back")
  /\ UNCHANGED tree

StatEntry(p) ==
  /\ At(p, "lstat")
  /\ \/ Sound /\ Goes(p, IF Entry(call[p]) = NoNode \/ IsDir(tree, Entry(call[p])) THEN "back" ELSE "unlink")
     \/ Fault /\ HitAt(p, "back")
  /\ UNCHANGED tree

(* A removal that succeeds returns to the loop over the directory above, or*)
(* to gk_posix_remove_path.                                                *)
Removed(p) == Goes(p, IF call[p].dirs = <<>> THEN "close" ELSE "read")
UnlinkEntry(p) ==
  /\ At(p, "unlink")
  /\ LET c == call[p]
     IN \/ CanUnlink(tree, Here(c), c.name) /\ tree' = Cut(tree, Here(c), c.name) /\ Removed(p) /\ Sound
        \/ ~CanUnlink(tree, Here(c), c.name) /\ Goes(p, "back") /\ Sound /\ UNCHANGED tree
        \/ Fault /\ HitAt(p, "back") /\ UNCHANGED tree

ReadEntry(p) ==
  /\ At(p, "read")
  /\ LET c == call[p]
         f == Last(c.dirs)
         now == Present(tree, f.dir)
     IN \/ \E m \in (f.first \cup now) \ f.seen :
             Set(p, [c EXCEPT !.pc = "open", !.name = m, !.dirs[Len(c.dirs)].seen = @ \cup {m}])
           /\ Sound
        \/ /\ (f.first \cap now) \subseteq f.seen /\ Sound
           /\ Set(p, [c EXCEPT !.pc = "rmdir", !.name = f.name, !.dirs = Front(@)])
        \/ Fault /\ HitAt(p, "back")
  /\ UNCHANGED tree

RemoveDirectory(p) ==
  /\ At(p, "rmdir")
  /\ LET c == call[p]
     IN \/ CanRemoveDir(tree, Here(c), c.name) /\ tree' = Cut(tree, Here(c), c.name) /\ Removed(p) /\ Sound
        \/ ~CanRemoveDir(tree, Here(c), c.name) /\ Goes(p, "back") /\ Sound /\ UNCHANGED tree
        \/ Fault /\ HitAt(p, "back") /\ UNCHANGED tree

(* A failure returns through the directories that are open; in the end     *)
(* parent_fd is closed, and only then a fault of close is told.            *)
BugBack(p) ==
  /\ At(p, "back")
  /\ Set(p, [Returned(call[p], -1) EXCEPT !.fd = NoNode, !.mem = 0])
  /\ Sound /\ UNCHANGED tree
Back(p) ==
  /\ At(p, "back")
  /\ IF call[p].dirs # <<>> THEN Set(p, [call[p] EXCEPT !.dirs = Front(@)])
     ELSE Set(p, [Returned(call[p], -1) EXCEPT !.fd = NoNode, !.mem = 0])
  /\ Sound /\ UNCHANGED tree
CloseParent(p) ==
  /\ At(p, "close")
  /\ \/ Sound /\ Set(p, [Returned(call[p], 0) EXCEPT !.fd = NoNode, !.mem = 0])
     \/ Fault /\ Set(p, [Returned(call[p], -1) EXCEPT !.fd = NoNode, !.mem = 0, !.hit = TRUE])
  /\ UNCHANGED tree

-----------------------------------------------------------------------------
(* Other programs add, remove and rename entries.                          *)
OtherStep(t) == tree' = t /\ UNCHANGED call
Dirs == {d \in Node : IsDir(tree, d)}
OtherAdds ==
  \E d \in Dirs, m \in Name, n \in Unused(tree), kind \in Live :
    tree.entry[d][m] = NoNode /\ n = (CHOOSE u \in Unused(tree) : TRUE) /\ OtherStep(Put(tree, d, m, n, kind))
OtherRemoves ==
  \E d \in Dirs, m \in Name :
    (CanUnlink(tree, d, m) \/ CanRemoveDir(tree, d, m)) /\ OtherStep(Cut(tree, d, m))
OtherRenames ==
  \E d, u \in Dirs, m, l \in Name :
    /\ tree.entry[d][m] # NoNode /\ tree.entry[u][l] = NoNode /\ u \notin Below(tree, {tree.entry[d][m]})
    /\ OtherStep(Move(tree, d, m, u, l))

Makes(p) == MakeCall(p) \/ MakeDirectory(p) \/ AcceptExisting(p) \/ MakeFails(p)
Removes(p) ==
  \/ RemoveCall(p) \/ Walk(p) \/ OpenEntry(p) \/ StatEntry(p) \/ UnlinkEntry(p)
  \/ ReadEntry(p) \/ RemoveDirectory(p) \/ Back(p) \/ CloseParent(p)

(***************************************************************************)
(* Histories, for the properties. What is to be removed is found along the *)
(* rest of the path from the directory reached so far; its tree has all    *)
(* that was in a directory of it at any time.                              *)
(***************************************************************************)
Target(t, c) == ReachPlain(t, c.fd, Rest(c))
Removing(c) == c.op = "gk_rmpath" /\ c.pc \notin {"call", "done"}
Changes ==
  LET differ == {e \in Node \X Name : tree.entry[e[1]][e[2]] # tree'.entry[e[1]][e[2]]}
  IN {what \in {"gain", "loss"} :
        \E e \in differ : (IF what = "gain" THEN tree' ELSE tree).entry[e[1]][e[2]] # NoNode}
Remembered(by) ==
  /\ inside' = [p \in Proc |->
       IF Removing(call'[p]) THEN Below(tree', inside[p] \cup ({Target(tree', call'[p])} \ {NoNode})) ELSE {}]
  /\ since' = [p \in Proc |->
       IF p \in by \/ call[p].pc \in {"call", "done"} THEN since[p] ELSE since[p] \cup Changes]

Runs(p) == Makes(p) \/ Removes(p)
Step(p) == Runs(p) /\ Remembered({p})
Others == Fault /\ (OtherAdds \/ OtherRemoves \/ OtherRenames) /\ Remembered({})
AllDone == (\A p \in Proc : At(p, "done")) /\ UNCHANGED vars
Next == (\E p \in Proc : Step(p)) \/ Others \/ AllDone

(* Every process runs on until its call returns.                           *)
Spec == Init /\ [][Next]_vars /\ \A p \in Proc : WF_call(Runs(p))

-----------------------------------------------------------------------------
(* TypeOK: the tree is one, every live node but Root has one name, a call  *)
(* that returned has nothing open, and one that runs is where it can be.   *)
TypeOK ==
  /\ tree \in Tree
  /\ LET named == {e \in Node \X Name : tree.entry[e[1]][e[2]] # NoNode}
         nodes == {tree.entry[e[1]][e[2]] : e \in named}
     IN Cardinality(nodes) = Cardinality(named) /\ nodes = {n \in Node \ {Root} : tree.kind[n] \in Live}
  /\ trouble \in 0 .. MaxTrouble
  /\ \A p \in Proc : call[p].pc = "done" => call[p].fd = NoNode /\ call[p].dirs = <<>> /\ call[p].mem = 0

(***************************************************************************)
(* OutcomesTrue: gk_mkpath that returns 0 leaves a directory at the path,  *)
(* unless another process removed or renamed something; it fails only on a *)
(* fault, an empty path, a component that is no directory, or one below a  *)
(* drive. In particular, of two calls that make one path neither fails     *)
(* because the other came first. gk_rmpath that returns 0 leaves nothing at*)
(* the path, unless something was added; it fails only on a fault, a path  *)
(* it refuses, when there is nothing at the path or a link within, or when *)
(* others changed the tree (gk_posix_make_directory, gk_mkpath,            *)
(* gk_posix_remove_entry, gk_rmpath).                                      *)
(***************************************************************************)
Obstructed(c) ==
  \/ c.path = <<"">>
  \/ Len(c.path) > 1 /\ c.path[1] \in Drives
  \/ \E k \in Stops(c.path) :
       LET cs == Trimmed(c.path, k)
           n == Reach(tree, Root, cs)
       IN n # NoNode /\ ~IsDir(tree, Follow(tree, n))
There(c) == ReachPlain(tree, Root, Components(c.path)) # NoNode
Outcome(p) ==
  LET c == call[p]
  IN IF c.op = "gk_mkpath"
     THEN /\ c.ret = 0 /\ "loss" \notin since[p] => IsDir(tree, Follow(tree, Reach(tree, Root, Trimmed(c.path, Len(c.path)))))
          /\ c.ret # 0 /\ "loss" \notin since[p] => c.hit \/ Obstructed(c)
     ELSE /\ c.ret = 0 /\ "gain" \notin since[p] => ~There(c)
          /\ c.ret # 0 /\ since[p] = {} => c.hit \/ gk_path_is_dangerous(c.path) \/ ~There(c)
OutcomesTrue == [][\A p \in Proc : ~At(p, "done") /\ At(p, "done")' => Outcome(p)']_vars

(***************************************************************************)
(* RemovalConfined: gk_rmpath removes nothing that was never in the tree at*)
(* its path, or in a directory that was, whatever others rename meanwhile: *)
(* it does not leave that tree through a link (gk_posix_remove_entry,      *)
(* gk_posix_remove_path).                                                  *)
(***************************************************************************)
RemovalConfined ==
  [][\A p \in Proc : call'[p] # call[p] => (Dead(tree') \ Dead(tree)) \subseteq inside[p]]_vars

(* CallsReturn: every call returns, however the tree changes meanwhile, and*)
(* has then closed what it opened (gk_posix_remove_entry).                 *)
Closed(c) == c.pc = "done" /\ c.fd = NoNode /\ c.dirs = <<>> /\ c.mem = 0
CallsReturn == \A p \in Proc : <>Closed(call[p])
=============================================================================
