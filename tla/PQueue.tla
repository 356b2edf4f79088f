------------------------------- MODULE PQueue -------------------------------
(***************************************************************************)
(* The priority queues that the template GK_MKPQUEUE of                    *)
(* src/include/gk_mkpqueue.h generates: a binary heap with a locator that  *)
(* maps each node to its place, so that any queued node can be deleted or  *)
(* given a new key.                                                        *)
(*                                                                         *)
(* q is the record [nnodes, heap, locator]; heap has maxnodes entries, of  *)
(* which those from nnodes on are never read and are NoEntry. As the code's*)
(* assertions say, callers insert a node that is not queued, and delete or *)
(* update one that is. Bug... operators are mutated forms of the one after.*)
(***************************************************************************)
EXTENDS Integers, FiniteSets

CONSTANTS
  MaxNodes,     \* maxnodes: the nodes are 0 .. MaxNodes - 1
  Priority,     \* the keys of the callers
  MaxFirst      \* TRUE: KEY_LT is >, as in the queues of src/src/pqueue.c

ASSUME PQConstants == MaxNodes \in Nat \ {0} /\ Priority \subseteq Int /\ MaxFirst \in BOOLEAN

VARIABLES
  q,        \* the queue
  top       \* the node the last call returned, -1 for none

queueVars == <<q, top>>

Node == 0 .. MaxNodes - 1
NoEntry == [key |-> 0, val |-> -1]
KeyLT(a, b) == IF MaxFirst THEN a > b ELSE a < b
Parent(i) == (i - 1) \div 2

(* Writing an entry of the heap records its place.                         *)
Put(s, i, e) == [s EXCEPT !.heap[i] = e, !.locator[e.val] = i]

(* The hole at i moves up until e may stay there.                          *)
FilterUp(s, i, e) ==
  LET up[j \in 0 .. i] ==
        IF j > 0 /\ KeyLT(e.key, s.heap[Parent(j)].key)
        THEN Put(up[Parent(j)], j, s.heap[Parent(j)])
        ELSE Put(s, j, e)
  IN up[i]

(* The child that has to come above key, or none: {} or one place.         *)
SinkTo(s, i, key) ==
  LET j == 2 * i + 1
      right == j + 1 < s.nnodes
  IN IF j >= s.nnodes THEN {}
     ELSE IF KeyLT(s.heap[j].key, key)
     THEN IF right /\ KeyLT(s.heap[j + 1].key, s.heap[j].key) THEN {j + 1} ELSE {j}
     ELSE IF right /\ KeyLT(s.heap[j + 1].key, key) THEN {j + 1} ELSE {}

(* The hole at i moves down until e may stay there.                        *)
FilterDown(s, i, e) ==
  LET down[j \in i .. MaxNodes] ==
        LET S == SinkTo(s, j, e.key)
            c == CHOOSE k \in S : TRUE
        IN IF S = {} THEN Put(s, j, e) ELSE Put(down[c], j, s.heap[c])
  IN down[i]

InsertNode(s, node, key) ==
  FilterUp([s EXCEPT !.nnodes = @ + 1], s.nnodes, [key |-> key, val |-> node])

(* The last entry leaves its place: it fills the hole of a removed one.    *)
DropLast(s) == [s EXCEPT !.nnodes = @ - 1, !.heap[s.nnodes - 1] = NoEntry]

(* A removed node's hole is filled by the last entry, which may belong     *)
(* above or below it: it can come from another branch of the heap.         *)
BugDeleteNodeDownOnly(s, node) ==
  LET i == s.locator[node]
      e == s.heap[s.nnodes - 1]
      rest == DropLast([s EXCEPT !.locator[node] = -1])
  IN IF rest.nnodes > 0 /\ e.val # node THEN FilterDown(rest, i, e) ELSE rest
DeleteNode(s, node) ==
  LET i == s.locator[node]
      e == s.heap[s.nnodes - 1]
      rest == DropLast([s EXCEPT !.locator[node] = -1])
  IN IF rest.nnodes > 0 /\ e.val # node
     THEN IF KeyLT(e.key, s.heap[i].key) THEN FilterUp(rest, i, e)
                                         ELSE FilterDown(rest, i, e)
     ELSE rest

BugUpdateNodeUpOnly(s, node, key) ==
  FilterUp(s, s.locator[node], [key |-> key, val |-> node])
UpdateNode(s, node, key) ==
  LET i == s.locator[node]
      e == [key |-> key, val |-> node]
  IN IF KeyLT(key, s.heap[i].key) THEN FilterUp(s, i, e)
     ELSE IF KeyLT(s.heap[i].key, key) THEN FilterDown(s, i, e) ELSE s

(* The top leaves and the last entry sinks from the root.                  *)
BugRemoveTopKeepsLocator(s) ==
  LET e == s.heap[s.nnodes - 1]
      rest == DropLast(s)
  IN IF rest.nnodes > 0 THEN FilterDown(rest, 0, e) ELSE rest
RemoveTop(s) ==
  LET e == s.heap[s.nnodes - 1]
      rest == DropLast([s EXCEPT !.locator[s.heap[0].val] = -1])
  IN IF rest.nnodes > 0 THEN FilterDown(rest, 0, e) ELSE rest

ResetNodes(s) ==
  [nnodes |-> 0, heap |-> [i \in Node |-> NoEntry],
   locator |-> [n \in Node |-> IF \E i \in 0 .. s.nnodes - 1 : s.heap[i].val = n
                               THEN -1 ELSE s.locator[n]]]
-----------------------------------------------------------------------------
Created == [nnodes |-> 0, heap |-> [i \in Node |-> NoEntry],
            locator |-> [n \in Node |-> -1]]
QueueInit == q = Created /\ top = -1

Free(n) == q.locator[n] = -1
Insert(n, k) == Free(n) /\ q' = InsertNode(q, n, k) /\ top' = -1
Delete(n) == ~Free(n) /\ q' = DeleteNode(q, n) /\ top' = -1
Update(n, k) == ~Free(n) /\ q' = UpdateNode(q, n, k) /\ top' = -1
Reset == q' = ResetNodes(q) /\ top' = -1
GetTop ==
  IF q.nnodes = 0 THEN top' = -1 /\ UNCHANGED q
  ELSE top' = q.heap[0].val /\ q' = RemoveTop(q)
SeeTopVal == top' = (IF q.nnodes = 0 THEN -1 ELSE q.heap[0].val) /\ UNCHANGED q

QueueNext ==
  \/ Reset \/ GetTop \/ SeeTopVal
  \/ \E n \in Node : Delete(n) \/ \E k \in Priority : Insert(n, k) \/ Update(n, k)

QueueSpec == QueueInit /\ [][QueueNext]_queueVars
-----------------------------------------------------------------------------
(* Types: nnodes entries with keys, and a place or -1 for every node.      *)
Places == 0 .. q.nnodes - 1
Entry == [key : Priority, val : Node]
QueueTypeOK ==
  /\ q.nnodes \in 0 .. MaxNodes
  /\ q.heap \in [Node -> Entry \cup {NoEntry}]
  /\ \A i \in Places : q.heap[i] \in Entry
  /\ q.locator \in [Node -> Node \cup {-1}]
  /\ top \in Node \cup {-1}

(* The locator and the heap are each other's inverse, as CheckHeap asserts:*)
(* every queued node is found where it is, and no other node has a place.  *)
LocatorExact ==
  /\ \A i \in Places : q.locator[q.heap[i].val] = i
  /\ Cardinality({n \in Node : q.locator[n] # -1}) = q.nnodes

(* The assertions of the code's own check of its queues, which only looks  *)
(* at a queue with a node, and has one that HeapOrdered does not: no entry *)
(* comes before the root.                                                  *)
CheckHeap ==
  q.nnodes # 0 =>
    /\ \A i \in Places : q.locator[q.heap[i].val] = i
    /\ \A i \in Places \ {0} : \A j \in {0, Parent(i)} : ~KeyLT(q.heap[i].key, q.heap[j].key)
    /\ Cardinality({n \in Node : q.locator[n] # -1}) = q.nnodes

(* No entry comes before its parent, wherever the last entry was moved to. *)
HeapOrdered ==
  \A i \in Places \ {0} : ~KeyLT(q.heap[i].key, q.heap[Parent(i)].key)

Queued == {n \in Node : ~Free(n)}
Abstract == INSTANCE PriorityMap WITH
  Key <- Priority, Before <- KeyLT, prio <- [n \in Queued |-> q.heap[q.locator[n]].key]

(* The heap implements the priority map: a deletion or a new key in the    *)
(* middle of the heap touches no other node, and the top is always a best  *)
(* one.                                                                    *)
PrioritySpec == Abstract!Spec
=============================================================================
