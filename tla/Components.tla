----------------------------- MODULE Components -----------------------------
(***************************************************************************)
(* gk_graph_FindComponents and gk_csr_FindConnectedComponents: the vertices*)
(* in the order they are found, cut into components. The vertices not found*)
(* yet are a list, from which any entry is taken by moving the last one to *)
(* its place. A step starts a component, explores a vertex, or sees one    *)
(* entry of its list. The two functions do the same work; the one for a    *)
(* matrix also returns the component of each vertex. All is computed in    *)
(* storage of the function, so a failure changes nothing of the caller's.  *)
(* Bug... operators are mutated forms of the one after.                    *)
(***************************************************************************)
EXTENDS Adjacency

VARIABLES
  cind,         \* the vertices found, in order (work_cind[0 .. last-1])
  cptr,         \* where each component begins in cind (work_cptr)
  explored,     \* how many of them are explored (first)
  todo, ntodo,  \* the vertices not found: todo[0 .. ntodo-1]
  cids          \* the component of each vertex, as it is returned

cvars == <<cind, cptr, explored, todo, ntodo, cids>>

Finders == {"gk_graph_FindComponents", "gk_csr_FindConnectedComponents"}
found == Len(cind)

ComponentsStart ==
  /\ cind = <<>> /\ cptr = <<>> /\ cids = <<>>
  /\ explored = 0 /\ todo = Identity /\ ntodo = nvtxs
ComponentsInit == Called(Finders) /\ ComponentsStart

(* The arrays are allocated and filled.                                    *)
EnterComponents ==
  /\ alg \in Finders /\ pc = "call" /\ pc' = "loop"
  /\ UNCHANGED <<adj, alg, v, edges, pos, cvars>>

(* The structure is refused or an allocation fails: -1 is returned.        *)
FailComponents ==
  /\ alg \in Finders /\ pc = "call" /\ pc' = "done"
  /\ UNCHANGED <<adj, alg, v, edges, pos, cvars>>


BugFindStale(u) ==
  /\ cind' = Append(cind, u) /\ ntodo' = ntodo - 1
  /\ pos' = [pos EXCEPT ![u] = -1]
  /\ IF pos[u] < ntodo - 1
     THEN todo' = [todo EXCEPT ![pos[u]] = todo[ntodo - 1]]
     ELSE UNCHANGED todo

(* u is taken from the list of those not found.                            *)
Find(u) ==
  /\ cind' = Append(cind, u) /\ ntodo' = ntodo - 1
  /\ IF pos[u] < ntodo - 1
     THEN /\ todo' = [todo EXCEPT ![pos[u]] = todo[ntodo - 1]]
          /\ pos' = Assign2(pos, u, -1, todo[ntodo - 1], pos[u])
     ELSE todo' = todo /\ pos' = [pos EXCEPT ![u] = -1]

(* Nothing is left to explore: the next component begins with todo[0].     *)
StartComponent ==
  /\ AtLoop(Finders) /\ explored = found /\ ntodo > 0
  /\ cptr' = Append(cptr, explored)
  /\ Find(todo[0])
  /\ explored' = explored + 1 /\ edges' = adj[todo[0]]
  /\ UNCHANGED <<adj, alg, v, pc, cids>>

ExploreNext ==
  /\ AtLoop(Finders) /\ explored < found
  /\ explored' = explored + 1 /\ edges' = adj[cind[explored + 1]]
  /\ UNCHANGED <<adj, alg, v, pc, pos, cind, cptr, todo, ntodo, cids>>

SeeEntry ==
  /\ alg \in Finders /\ edges # <<>> /\ edges' = Tail(edges)
  /\ IF pos[Head(edges)] # -1 THEN Find(Head(edges))
                              ELSE UNCHANGED <<pos, cind, todo, ntodo>>
  /\ UNCHANGED <<adj, alg, v, pc, cptr, explored, cids>>

ncmps == Len(cptr) - 1
InComponent(c, p) == cptr[c + 1] < p /\ p <= cptr[c + 2]

ReturnComponents ==
  /\ AtLoop(Finders) /\ explored = found /\ ntodo = 0
  /\ pc' = "done" /\ cptr' = Append(cptr, explored)
  /\ cids' = IF alg = "gk_graph_FindComponents" THEN <<>>
             ELSE [u \in Vertex |-> CHOOSE c \in 0 .. Len(cptr) - 1 :
                     \E p \in cptr'[c + 1] + 1 .. cptr'[c + 2] : cind[p] = u]
  /\ UNCHANGED <<adj, alg, v, edges, pos, cind, explored, todo, ntodo>>

FindNext ==
  \/ EnterComponents \/ FailComponents
  \/ StartComponent \/ ExploreNext \/ SeeEntry \/ ReturnComponents

gk_graph_FindComponents == alg = "gk_graph_FindComponents" /\ FindNext
gk_csr_FindConnectedComponents == alg = "gk_csr_FindConnectedComponents" /\ FindNext

ComponentsNext == gk_graph_FindComponents \/ gk_csr_FindConnectedComponents
ComponentsSpec == ComponentsInit /\ [][ComponentsNext]_<<avars, cvars>>
-----------------------------------------------------------------------------
ComponentsTypeOK ==
  /\ AdjacencyOK
  /\ cind \in Seq(Vertex) /\ cptr \in Seq(0 .. nvtxs)
  /\ explored \in 0 .. nvtxs /\ ntodo \in 0 .. nvtxs /\ todo \in [Vertex -> Vertex]
  /\ cids = <<>> \/ cids \in [Vertex -> Vertex]

(* A vertex is either found, once, or in the list of those not found, at   *)
(* the place that pos gives.                                               *)
TodoSound ==
  /\ explored <= found /\ found + ntodo = nvtxs
  /\ \A p, q \in 1 .. found : cind[p] = cind[q] => p = q
  /\ \A u \in Vertex : pos[u] = -1 <=> \E p \in 1 .. found : cind[p] = u
  /\ \A u \in Vertex : pos[u] # -1 => pos[u] < ntodo /\ todo[pos[u]] = u

Begins(p) == \E c \in DOMAIN cptr : cptr[c] = p - 1

(* A vertex that does not begin a component has an edge from an earlier    *)
(* one of its component.                                                   *)
Reached ==
  \A p \in 1 .. found : Begins(p) \/
    \E q \in 1 .. p - 1 : /\ Arc(cind[q], cind[p])
                          /\ \A b \in q + 1 .. p : ~Begins(b)

(* Every edge of an explored vertex leads to a vertex found before the next*)
(* component began; of the one being explored, what is still to be seen    *)
(* excepted.                                                               *)
Closed ==
  \A q \in 1 .. explored, j \in Vertex :
    /\ Arc(cind[q], j)
    /\ q = explored => \A e \in DOMAIN edges : edges[e] # j
    => \E p \in 1 .. found : cind[p] = j /\ \A b \in q + 1 .. p : ~Begins(b)

(* gk_graph_FindComponents and gk_csr_FindConnectedComponents find every   *)
(* vertex once, keep the two lists apart through every move of an entry,   *)
(* and cut the vertices where no edge leads on: what they return are the   *)
(* connected components (of a directed graph, what each vertex reaches of  *)
(* what is left).                                                          *)
ComponentsFound ==
  alg \in Finders =>
    /\ TodoSound /\ Reached /\ Closed
    /\ pc = "done" /\ cptr # <<>> =>
         /\ found = nvtxs
         /\ cids # <<>> => \A p \in 1 .. nvtxs : InComponent(cids[cind[p]], p)
=============================================================================
