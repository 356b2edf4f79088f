---------------------------- MODULE PriorityMap ----------------------------
(***************************************************************************)
(* What a priority queue of GKlib promises, without its heap: nodes with   *)
(* keys, of which the top is always one that no other key comes before.    *)
(***************************************************************************)
EXTENDS Integers

CONSTANTS
  Node,         \* the nodes that can be queued
  Key,          \* the keys they can have
  Before(_, _)  \* the order of the keys: which one is nearer to the top

VARIABLES
  prio,     \* the key of each queued node: its domain is the queue
  top       \* what the last call returned: a node, or -1

pvars == <<prio, top>>

Queued == DOMAIN prio
IsTop(n) == n \in Queued /\ \A m \in Queued : ~Before(prio[m], prio[n])
With(n, k) == [m \in Queued \cup {n} |-> IF m = n THEN k ELSE prio[m]]
Without(n) == [m \in Queued \ {n} |-> prio[m]]
Nothing == [m \in {} |-> 0]

Init == prio = Nothing /\ top = -1

Insert(n, k) == n \notin Queued /\ prio' = With(n, k) /\ top' = -1
Delete(n) == n \in Queued /\ prio' = Without(n) /\ top' = -1
Update(n, k) == n \in Queued /\ prio' = With(n, k) /\ top' = -1
Clear == prio' = Nothing /\ top' = -1
GetTop(n) == IsTop(n) /\ prio' = Without(n) /\ top' = n
SeeTop(n) == IsTop(n) /\ top' = n /\ UNCHANGED prio
NoTop == Queued = {} /\ top' = -1 /\ UNCHANGED prio

Next ==
  \/ Clear \/ NoTop
  \/ \E n \in Node : Delete(n) \/ GetTop(n) \/ SeeTop(n)
  \/ \E n \in Node, k \in Key : Insert(n, k) \/ Update(n, k)

Spec == Init /\ [][Next]_pvars
=============================================================================
