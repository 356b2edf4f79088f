------------------------------ MODULE BFSOrder ------------------------------
(***************************************************************************)
(* gk_graph_ComputeBFSOrdering and gk_csr_ComputeBFSOrderingSymmetric: one *)
(* array cot of all vertices, which holds those explored, those open and   *)
(* those to do, in this order; pos is its inverse on those to do. For a    *)
(* matrix, with maxdegree, rows of that many entries and more go first, in *)
(* decreasing degree, and are never explored. A step explores a vertex or  *)
(* sees one entry of its list.                                             *)
(*                                                                         *)
(* Contract: the matrix is square, its indices are in range, and with      *)
(* maxdegree some row has fewer entries. Without maxdegree a caller should *)
(* be able to leave the choice of the first row to the function (v = -1).  *)
(* A failed allocation jumps or ends the process; only arrays of the call  *)
(* are lost.                                                               *)
(* Bug... operators are mutated forms of the one after.                    *)
(***************************************************************************)
EXTENDS Adjacency

VARIABLES
  cot,      \* the closed, open and todo parts
  hubs,     \* how many rows were put in front for their degree
  first,    \* cot[0 .. first-1] is closed: hubs and explored vertices
  last,     \* cot[first .. last-1] is open, the rest is to do
  r_perm      \* the place of each vertex in the order, as it is returned

bvars == <<cot, hubs, first, last, r_perm>>

Ordered == {"gk_graph_ComputeBFSOrdering", "gk_csr_ComputeBFSOrderingSymmetric"}
Degree(u) == Len(adj[u])

OrderStart ==
  cot = Identity /\ hubs = 0 /\ first = 0 /\ last = 0 /\ r_perm = <<>>
OrderInit ==
  Called(Ordered) /\ OrderStart /\ (alg = "gk_graph_ComputeBFSOrdering" => v # -1)

(* pos[0] = cot[0] = v; pos[v] = cot[v] = 0;                               *)
EnterGraph ==
  /\ alg = "gk_graph_ComputeBFSOrdering" /\ pc = "call" /\ v \in Vertex
  /\ cot' = Assign2(cot, 0, v, v, 0) /\ pos' = Assign2(pos, 0, v, v, 0)
  /\ pc' = "loop"
  /\ UNCHANGED <<adj, alg, edges, v, hubs, first, last, r_perm>>

(* u is swapped with the front of the todo part of c, whose inverse is p.  *)
ToFront(u, c, p, l) ==
  /\ cot' = Assign2(c, p[u], c[l], l, u)
  /\ pos' = Assign2(p, c[l], p[u], u, l)

EnterMatrix ==
  /\ alg = "gk_csr_ComputeBFSOrderingSymmetric" /\ pc = "call" /\ v \in Vertex
  /\ ToFront(v, cot, pos, 0)
  /\ pc' = "loop"
  /\ UNCHANGED <<adj, alg, edges, v, hubs, first, last, r_perm>>

(* With maxdegree the function chooses the first row, and refuses one.     *)
RefuseBoth ==
  /\ alg = "gk_csr_ComputeBFSOrderingSymmetric" /\ pc = "call" /\ v \in Vertex
  /\ pc' = "done"
  /\ UNCHANGED <<adj, alg, edges, pos, v, bvars>>

(* v = -1 without maxdegree: pos[v] and cot[pos[v]] are read before the    *)
(* arrays: what becomes of the process is undefined, and is not followed.   *)
EnterAnywhere ==
  /\ alg = "gk_csr_ComputeBFSOrderingSymmetric" /\ pc = "call" /\ v = -1
  /\ pc' = "loop" /\ cot' = [cot EXCEPT ![last] = v]
  /\ UNCHANGED <<adj, alg, edges, pos, v, hubs, first, last, r_perm>>

(* How the array begins with the rows of maxdegree entries and more: sorted*)
(* by degree, rows of one degree in any order, then the others in theirs.  *)
(* The header, csr.c:4579, calls maxdegree the most entries of a row that  *)
(* takes part and puts rows "with more" in front; the code lets rows take  *)
(* part that have fewer (csr.c:4632). The model follows the code.          *)
Sifted(c, n, maxdegree) ==
  LET high == {u \in Vertex : Degree(u) >= maxdegree} IN
  /\ n = Cardinality(high) /\ n < nvtxs
  /\ {c[p] : p \in 0 .. n - 1} = high
  /\ \A p, q \in 0 .. n - 1 : p < q => Degree(c[p]) >= Degree(c[q])
  /\ {c[p] : p \in n .. nvtxs - 1} = Vertex \ high
  /\ \A p, q \in n .. nvtxs - 1 : p < q => c[p] < c[q]

(* The first row is drawn from the others.                                 *)
EnterBelow(maxdegree) ==
  /\ alg = "gk_csr_ComputeBFSOrderingSymmetric" /\ pc = "call" /\ v = -1
  /\ maxdegree < nvtxs
  /\ \E c \in [Vertex -> Vertex], n \in 0 .. nvtxs - 1 :
       /\ Sifted(c, n, maxdegree)
       /\ \E u \in {c[p] : p \in n .. nvtxs - 1} :
            /\ v' = u /\ hubs' = n /\ first' = n /\ last' = n
            /\ ToFront(u, c, [w \in Vertex |-> IF Degree(w) >= maxdegree THEN -1
                                ELSE CHOOSE p \in Vertex : c[p] = w], n)
  /\ pc' = "loop"
  /\ UNCHANGED <<adj, alg, edges, r_perm>>

(* cot[last] is opened if nothing is open; then the first open vertex is   *)
(* explored.                                                               *)
ExploreOpen ==
  /\ AtLoop(Ordered) /\ v \in Vertex /\ first < nvtxs
  /\ IF first = last
     THEN pos' = [pos EXCEPT ![cot[last]] = -1] /\ last' = last + 1
     ELSE UNCHANGED <<pos, last>>
  /\ first' = first + 1 /\ edges' = adj[cot[first]]
  /\ UNCHANGED <<adj, alg, pc, v, cot, hubs, r_perm>>

BugOpenEntry ==
  /\ alg \in Ordered /\ edges # <<>> /\ edges' = Tail(edges)
  /\ LET k == Head(edges) IN
     IF pos[k] = -1 THEN UNCHANGED <<cot, pos, last>>
     ELSE /\ cot' = Assign2(cot, pos[k], cot[last], last, k)
          /\ pos' = [pos EXCEPT ![k] = -1]
          /\ last' = last + 1
  /\ UNCHANGED <<adj, alg, pc, v, hubs, first, r_perm>>

(* An entry that is to do is swapped to the end of the open part.          *)
OpenEntry ==
  /\ alg \in Ordered /\ edges # <<>> /\ edges' = Tail(edges)
  /\ LET k == Head(edges) IN
     IF pos[k] = -1 THEN UNCHANGED <<cot, pos, last>>
     ELSE /\ cot' = Assign2(cot, pos[k], cot[last], last, k)
          /\ pos' = Assign2(pos, cot[last], pos[k], k, -1)
          /\ last' = last + 1
  /\ UNCHANGED <<adj, alg, pc, v, hubs, first, r_perm>>

ReturnOrder ==
  /\ AtLoop(Ordered) /\ v \in Vertex /\ first = nvtxs
  /\ r_perm' = [u \in Vertex |-> CHOOSE p \in Vertex : cot[p] = u]
  /\ pc' = "done"
  /\ UNCHANGED <<adj, alg, edges, pos, v, cot, hubs, first, last>>

Traverse == ExploreOpen \/ OpenEntry \/ ReturnOrder

gk_graph_ComputeBFSOrdering ==
  EnterGraph \/ (alg = "gk_graph_ComputeBFSOrdering" /\ Traverse)
gk_csr_ComputeBFSOrderingSymmetric ==
  \/ EnterMatrix \/ EnterAnywhere \/ RefuseBoth
  \/ \E d \in Vertex : EnterBelow(d)
  \/ alg = "gk_csr_ComputeBFSOrderingSymmetric" /\ Traverse

OrderNext == gk_graph_ComputeBFSOrdering \/ gk_csr_ComputeBFSOrderingSymmetric
OrderSpec == OrderInit /\ [][OrderNext]_<<avars, bvars>>
-----------------------------------------------------------------------------
OrderTypeOK ==
  /\ AdjacencyOK 
  /\ cot \in [Vertex -> Vertex \cup {-1}]
  /\ hubs \in 0 .. nvtxs /\ first \in 0 .. nvtxs /\ last \in 0 .. nvtxs
  /\ r_perm = <<>> \/ r_perm \in [Vertex -> Vertex]

(* cot lists every vertex once, and pos finds those that are to do.        *)
CotSound ==
  /\ hubs <= first /\ first <= last
  /\ \A p, q \in Vertex : cot[p] = cot[q] => p = q
  /\ \A p \in Vertex : pos[cot[p]] = IF p < last THEN -1 ELSE p

(* An open vertex has an edge from one explored.                           *)
OpenReached ==
  \A c \in first .. last - 1 : \E a \in hubs .. first - 1 : Arc(cot[a], cot[c])

(* What an explored vertex leads to is not to do.                          *)
ExploredClosed ==
  \A a \in hubs .. first - 1, u \in Vertex :
    /\ Arc(cot[a], u)
    /\ a = first - 1 => \A e \in DOMAIN edges : edges[e] # u
    => pos[u] = -1

(* The mark of a breadth-first order: a vertex before c that is not reached*)
(* from a, where c is, is reached from one before a.                       *)
BreadthFirst ==
  \A a, b, c \in hubs .. last - 1 :
    a < b /\ b < c /\ Arc(cot[a], cot[c]) /\ ~Arc(cot[a], cot[b])
      => \E d \in hubs .. a - 1 : Arc(cot[d], cot[b])

(* The BFS orderings of graphs and matrices keep their one array a         *)
(* permutation, with the place of every vertex to do known, and what they  *)
(* return is a breadth-first order, with its inverse, of all rows that are *)
(* not in front: those below maxdegree. (A row of exactly maxdegree entries*)
(* is in front, as csr.c:4632 has it and csr.c:4579-4582 has not.)         *)
BreadthFirstOrder ==
  alg \in Ordered /\ pc # "call" /\ v \in Vertex =>
    /\ CotSound /\ OpenReached /\ ExploredClosed /\ BreadthFirst
    /\ r_perm # <<>> => \A p \in Vertex : r_perm[cot[p]] = p

(* csr.c:4583 of the first row: "A value of -1 indicates that a randomly   *)
(* selected row will be used."                                             *)
FirstRowChosen == alg \in Ordered /\ pc = "loop" => v \in Vertex
=============================================================================
