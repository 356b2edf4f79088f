----------------------------- MODULE Adjacency -----------------------------
(***************************************************************************)
(* What the traversals of src/src/graph.c and src/src/csr.c have in common.*)
(* A graph is its adjacency lists (xadj/adjncy of a gk_graph_t, rowptr/    *)
(* rowind of a square gk_csr_t): directed or not, with loops and duplicate *)
(* edges as the lists have them. A traversal explores one vertex after the *)
(* other, and sees the entries of the list of the vertex it explores.      *)
(***************************************************************************)
EXTENDS Integers, Sequences, FiniteSets

CONSTANTS
  nvtxs,        \* the number of vertices, or of rows
  Graphs,       \* the adjacency structures a caller may have
  Starts        \* what a caller may give as first vertex: -1 is no vertex

Vertex == 0 .. nvtxs - 1

ASSUME GraphsOnVertices ==
  /\ nvtxs \in Nat \ {0}
  /\ Graphs \subseteq [Vertex -> Seq(Vertex)]
  /\ Starts \subseteq Vertex \cup {-1}

VARIABLES
  adj,      \* adj[u]: the list of u
  alg,      \* the function that was called
  pc,       \* "call" (nothing is done), "loop" (in its main loop), "see" (in a
            \* turn of it) or "done" (it has returned)
  v,        \* the vertex given to it, then the one it explores
  edges,    \* what the vertex being explored has not seen yet of its list
  pos       \* pos[u]: the place of u in the list of its traversal, or -1

avars == <<adj, alg, pc, v, edges, pos>>

Identity == [u \in Vertex |-> u]
Entries(u, w) == {j \in DOMAIN adj[u] : adj[u][j] = w}
Arc(u, w) == Entries(u, w) # {}

(* Two assignments to elements of an array, in this order.                 *)
Assign2(a, i, x, j, y) == [[a EXCEPT ![i] = x] EXCEPT ![j] = y]

(* A call of one of these functions is made, or is between two turns of    *)
(* its main loop.                                                          *)
Called(functions) ==
  /\ alg \in functions /\ adj \in Graphs /\ v \in Starts
  /\ pc = "call" /\ edges = <<>> /\ pos = Identity
AtLoop(functions) == alg \in functions /\ pc = "loop" /\ edges = <<>>

AdjacencyOK ==
  /\ adj \in [Vertex -> Seq(Vertex)] /\ edges \in Seq(Vertex)
  /\ pos \in [Vertex -> Vertex \cup {-1}]
  /\ pc \in {"call", "loop", "see", "done"} /\ v \in Vertex \cup {-1}
=============================================================================
