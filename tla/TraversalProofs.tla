--------------------------- MODULE TraversalProofs ---------------------------
(***************************************************************************)
(* What the traversals of Components and BFSOrder compute, for every graph.*)
(*                                                                         *)
(* The lists of vertices that a search for components has found and has not*)
(* found are kept apart, and what it returns are the components.           *)
(*                                                                         *)
(* The orders are breadth-first. When the explored vertex a opens k, no    *)
(* vertex explored before a has an edge to k, or k would not be to do; and a*)
(* vertex open before k is reached from a or from one explored earlier.    *)
(* Hence BreadthFirst.                                                     *)
(*                                                                         *)
(* The lengths are the shortest. The lengths of the shortest paths of at   *)
(* most n edges are defined over n; a length that is known is that of a    *)
(* path of as many edges as there are final vertices, and no path is       *)
(* shorter than the length of a final vertex, because one that leaves the  *)
(* final vertices does so over a vertex that is queued.                    *)
(*                                                                         *)
(* The best-first orders keep the vertices not taken, the open ones first, *)
(* in one array with its inverse (Listing). Taking one and opening one are *)
(* moves in that array; a vertex is open when an edge from one taken leads *)
(* to it; and the orders given are as many as the turns (Ranked). The keys *)
(* are those of the edges seen so far: their number (Sights), the sums of  *)
(* the orders they come from (OpenSums), the greatest of these (OpenKeys,  *)
(* AnyKeys). Sums over finite sets come with their laws.                   *)
(***************************************************************************)
EXTENDS Components, BFSOrder, BestFirst, FiniteSetTheorems, SequenceTheorems,
        WellFoundedInduction, TLAPS

CTypes ==
  /\ adj \in [Vertex -> Seq(Vertex)] /\ edges \in Seq(Vertex)
  /\ pos \in [Vertex -> Vertex \cup {-1}]
  /\ pc \in {"call", "loop", "see", "done"} /\ v \in Vertex \cup {-1}
  /\ cind \in Seq(Vertex) /\ cptr \in Seq(0 .. nvtxs)
  /\ explored \in Nat /\ ntodo \in Nat /\ todo \in [Vertex -> Vertex]
  /\ cids = <<>> \/ cids \in [Vertex -> Vertex]
  /\ alg \in Finders

(* The list of vertices not found, and its places, are inverse.            *)
TodoListed == \A p \in 0 .. ntodo - 1 : pos[todo[p]] = p

(* What is still to be seen are edges of the vertex being explored.        *)
RowsMeant ==
  \A e \in DOMAIN edges : explored > 0 /\ Arc(cind[explored], edges[e])

(* The components begun so far begin before what is explored; the first one*)
(* is begun when a vertex is found, and each vertex found is in one.       *)
Begun ==
  /\ found > 0 => cptr # <<>>
  /\ pc # "done" => Len(cptr) <= explored
  /\ pc # "done" => \A c \in DOMAIN cptr : cptr[c] < explored
  /\ \A p \in 1 .. found : \E c \in DOMAIN cptr :
       /\ cptr[c] < p
       /\ \A d \in DOMAIN cptr : d > c => p <= cptr[d]

Returned ==
  pc = "done" /\ cptr # <<>> =>
    /\ found = nvtxs
    /\ cids # <<>> => \A p \in 1 .. nvtxs : InComponent(cids[cind[p]], p)

ComponentsInv ==
  /\ CTypes /\ TodoSound /\ TodoListed /\ RowsMeant /\ Begun /\ Reached
  /\ Closed /\ Returned
  /\ pc = "done" => edges = <<>>
  /\ pc # "done" => cids = <<>>
  /\ pc = "call" => edges = <<>> /\ cptr = <<>> /\ found = 0

(* What a step does to the lists when it finds a vertex of todo.           *)
LEMMA FindStep ==
  ASSUME CTypes, TodoSound, TodoListed,
         NEW u \in Vertex, pos[u] # -1, Find(u)
  PROVE  /\ pos' \in [Vertex -> Vertex \cup {-1}] /\ todo' \in [Vertex -> Vertex]
         /\ cind' \in Seq(Vertex) /\ ntodo' \in Nat
         /\ cind' = Append(cind, u) /\ found' = found + 1
         /\ found' + ntodo' = nvtxs
         /\ \A p, q \in 1 .. found' : cind'[p] = cind'[q] => p = q
         /\ \A x \in Vertex : pos'[x] = -1 <=> \E p \in 1 .. found' : cind'[p] = x
         /\ \A x \in Vertex : pos'[x] # -1 => pos'[x] < ntodo' /\ todo'[pos'[x]] = x
         /\ TodoListed'
<1> DEFINE w == todo[ntodo - 1]
<1>1. pos[u] \in 0 .. ntodo - 1 /\ ntodo \in Nat /\ found \in Nat /\ nvtxs \in Nat
  <2>1. pos[u] \in Vertex /\ pos[u] < ntodo
    BY DEF TodoSound, CTypes
  <2>2. nvtxs \in Nat /\ ntodo \in Nat /\ found \in Nat
    BY GraphsOnVertices DEF CTypes, found
  <2> QED
    BY <2>1, <2>2 DEF Vertex
<1>2. ntodo - 1 \in Vertex /\ pos[u] \in Vertex
  BY <1>1 DEF TodoSound, Vertex
<1>3. w \in Vertex /\ pos[w] = ntodo - 1 /\ todo[pos[u]] = u
  BY <1>1, <1>2 DEF TodoListed, CTypes, TodoSound
<1>4. /\ cind' = Append(cind, u) /\ ntodo' = ntodo - 1 /\ cind' \in Seq(Vertex)
      /\ found' = found + 1
  BY DEF Find, CTypes, found
<1>5. /\ \A p \in 1 .. found : cind'[p] = cind[p] /\ cind[p] \in Vertex
      /\ cind'[found + 1] = u
  BY <1>4 DEF CTypes, found
<1>6. \A p \in 1 .. found : cind[p] # u
  BY DEF TodoSound
<1>7. \A p, q \in 1 .. found' : cind'[p] = cind'[q] => p = q
  BY <1>1, <1>4, <1>5, <1>6 DEF TodoSound
<1>8. \A x \in Vertex : (\E p \in 1 .. found' : cind'[p] = x) <=>
                        (x = u \/ \E p \in 1 .. found : cind[p] = x)
  <2> TAKE x \in Vertex
  <2>1. CASE x = u
    <3>1. found + 1 \in 1 .. found' /\ cind'[found + 1] = x
      BY <2>1, <1>1, <1>4, <1>5
    <3> QED
      BY <3>1, <2>1
  <2>2. CASE x # u
    <3>1. \A p \in 1 .. found' : cind'[p] = x => p \in 1 .. found
      <4> TAKE p \in 1 .. found'
      <4>1. p = found + 1 \/ p \in 1 .. found
        BY <1>1, <1>4
      <4> QED
        BY <4>1, <1>5, <2>2
    <3>2. 1 .. found \subseteq 1 .. found'
      BY <1>1, <1>4
    <3> QED
      BY <3>1, <3>2, <2>2, <1>5
  <2> QED
    BY <2>1, <2>2
<1>9. CASE pos[u] < ntodo - 1
  <2>1. todo' = [todo EXCEPT ![pos[u]] = w] /\ pos' = Assign2(pos, u, -1, w, pos[u])
    BY <1>9 DEF Find
  <2>2. w # u
    BY <1>3, <1>9, <1>1
  <2>3. /\ pos' \in [Vertex -> Vertex \cup {-1}]
        /\ pos'[u] = -1 /\ pos'[w] = pos[u]
        /\ \A x \in Vertex \ {u, w} : pos'[x] = pos[x]
    BY <2>1, <2>2, <1>2, <1>3 DEF Assign2, CTypes
  <2>4. /\ todo' \in [Vertex -> Vertex] /\ todo'[pos[u]] = w
        /\ \A p \in Vertex \ {pos[u]} : todo'[p] = todo[p]
    BY <2>1, <1>2, <1>3 DEF CTypes
  <2>5. \A x \in Vertex : pos'[x] = -1 <=> (x = u \/ pos[x] = -1)
    BY <2>3, <1>1, <1>3
  <2>6. \A x \in Vertex : pos'[x] # -1 => pos'[x] < ntodo' /\ todo'[pos'[x]] = x
    <3> SUFFICES ASSUME NEW x \in Vertex, pos'[x] # -1
                 PROVE  pos'[x] < ntodo' /\ todo'[pos'[x]] = x
      OBVIOUS
    <3>1. CASE x = w
      BY <3>1, <2>3, <2>4, <1>4, <1>9
    <3>2. CASE x # w
      <4>1. x # u /\ pos'[x] = pos[x] /\ pos[x] < ntodo /\ todo[pos[x]] = x
        BY <3>2, <2>3 DEF TodoSound
      <4>2. pos[x] \in Vertex /\ pos[x] # pos[u] /\ pos[x] # ntodo - 1
        BY <4>1, <3>2, <1>3 DEF CTypes
      <4> QED
        <5>1. todo'[pos[x]] = x
          BY <4>1, <4>2, <2>4
        <5>2. pos[x] < ntodo - 1
          BY <4>1, <4>2, <1>1 DEF Vertex
        <5> QED
          BY <5>1, <5>2, <4>1, <1>4
    <3> QED
      BY <3>1, <3>2
  <2>7. TodoListed'
    <3> SUFFICES ASSUME NEW p \in 0 .. ntodo - 2
                 PROVE  pos'[todo'[p]] = p
      BY <1>1, <1>4 DEF TodoListed
    <3>1. p \in Vertex /\ p \in 0 .. ntodo - 1 /\ p # ntodo - 1
      BY <1>1, <1>2 DEF Vertex
    <3>2. CASE p = pos[u]
      BY <3>2, <2>3, <2>4
    <3>3. CASE p # pos[u]
      <4>1. todo'[p] = todo[p] /\ pos[todo[p]] = p /\ todo[p] \in Vertex
        BY <3>1, <3>3, <2>4 DEF TodoListed, CTypes
      <4>2. todo[p] # u /\ todo[p] # w
        BY <4>1, <3>1, <3>3, <1>3
      <4> QED
        BY <4>1, <4>2, <2>3
    <3> QED
      BY <3>2, <3>3
  <2> QED
    <3>1. found' + ntodo' = nvtxs /\ ntodo' \in Nat
      BY <1>1, <1>2, <1>4 DEF TodoSound, Vertex
    <3>2. \A x \in Vertex : pos'[x] = -1 <=> \E p \in 1 .. found' : cind'[p] = x
      BY <2>5, <1>8 DEF TodoSound
    <3> QED
      BY <3>1, <3>2, <1>4, <1>7, <2>3, <2>4, <2>6, <2>7
<1>10. CASE ~(pos[u] < ntodo - 1)
  <2>1. todo' = todo /\ pos' = [pos EXCEPT ![u] = -1] /\ pos[u] = ntodo - 1
    BY <1>10, <1>1 DEF Find
  <2>2. /\ pos' \in [Vertex -> Vertex \cup {-1}] /\ pos'[u] = -1
        /\ \A x \in Vertex \ {u} : pos'[x] = pos[x]
    BY <2>1 DEF CTypes
  <2>3. \A x \in Vertex : pos'[x] # -1 => pos'[x] < ntodo' /\ todo'[pos'[x]] = x
    <3> SUFFICES ASSUME NEW x \in Vertex, pos'[x] # -1
                 PROVE  pos'[x] < ntodo' /\ todo'[pos'[x]] = x
      OBVIOUS
    <3>1. x # u /\ pos'[x] = pos[x] /\ pos[x] < ntodo /\ todo[pos[x]] = x
      BY <2>2 DEF TodoSound
    <3>2. pos[x] # ntodo - 1 /\ pos[x] \in Vertex
      BY <3>1, <1>3, <2>1 DEF CTypes
    <3> QED
      BY <3>1, <3>2, <2>1, <1>1, <1>4 DEF Vertex
  <2>4. TodoListed'
    <3> SUFFICES ASSUME NEW p \in 0 .. ntodo - 2
                 PROVE  pos'[todo'[p]] = p
      BY <1>1, <1>4 DEF TodoListed
    <3>1. p \in Vertex /\ p \in 0 .. ntodo - 1 /\ p # pos[u]
      BY <1>1, <1>2, <2>1 DEF Vertex
    <3>2. pos[todo[p]] = p /\ todo[p] \in Vertex
      BY <3>1 DEF TodoListed, CTypes
    <3> QED
      BY <3>1, <3>2, <2>1, <2>2
  <2>5. todo' \in [Vertex -> Vertex]
    BY <2>1 DEF CTypes
  <2> QED
    <3>1. found' + ntodo' = nvtxs /\ ntodo' \in Nat
      BY <1>1, <1>2, <1>4 DEF TodoSound, Vertex
    <3>2. \A x \in Vertex : pos'[x] = -1 <=> \E p \in 1 .. found' : cind'[p] = x
      <4>1. \A x \in Vertex : pos'[x] = -1 <=> (x = u \/ pos[x] = -1)
        BY <2>2
      <4> QED
        BY <4>1, <1>8 DEF TodoSound
    <3> QED
      BY <3>1, <3>2, <1>4, <1>7, <2>2, <2>3, <2>4, <2>5
<1> QED
  BY <1>9, <1>10

LEMMA ComponentsInitInv == ComponentsInit => ComponentsInv
<1> SUFFICES ASSUME ComponentsInit
             PROVE  ComponentsInv
  OBVIOUS
<1> USE DEF ComponentsInit, Called, ComponentsStart
<1>1. CTypes /\ found = 0
  BY GraphsOnVertices DEF CTypes, Identity, Vertex, found
<1>2. TodoSound
  <2>1. \A u \in Vertex : pos[u] = u /\ todo[u] = u /\ u \in Nat /\ u < nvtxs
    BY GraphsOnVertices DEF Identity, Vertex
  <2> QED
    BY <2>1, <1>1, GraphsOnVertices DEF TodoSound
<1>3. TodoListed
  BY GraphsOnVertices DEF TodoListed, Identity, Vertex
<1>4. RowsMeant /\ Begun /\ Reached /\ Closed /\ Returned
  BY <1>1 DEF RowsMeant, Begun, Reached, Closed, Returned
<1> QED
  BY <1>1, <1>2, <1>3, <1>4 DEF ComponentsInv

(* Steps that only change pc.                                              *)
LEMMA EnterStep ==
  ASSUME ComponentsInv, EnterComponents \/ FailComponents
  PROVE  ComponentsInv'
<1>1. /\ UNCHANGED <<adj, alg, v, edges, pos, cind, cptr, explored, todo, ntodo, cids>>
      /\ pc = "call" /\ pc' \in {"loop", "done"}
  BY DEF EnterComponents, FailComponents, cvars
<1>2. found' = found /\ edges = <<>> /\ cptr = <<>> /\ cids = <<>> /\ found = 0
  BY <1>1 DEF found, ComponentsInv
<1>3. CTypes' /\ TodoSound' /\ TodoListed' /\ RowsMeant'
  BY <1>1, <1>2 DEF ComponentsInv, CTypes, TodoSound, TodoListed, RowsMeant, Arc, Entries
<1>4. Begun' /\ Returned'
  BY <1>1, <1>2 DEF ComponentsInv, Begun, Returned
<1>5. Reached' /\ Closed'
  <2>1. explored = 0
    BY <1>2 DEF ComponentsInv, CTypes, TodoSound
  <2> QED
    BY <1>1, <1>2, <2>1 DEF Reached, Closed
<1> QED
  BY <1>1, <1>2, <1>3, <1>4, <1>5 DEF ComponentsInv

(* A step that finds u keeps what Begun says of the vertices found, if it  *)
(* belongs to the component begun last.                                    *)
LEMMA StartStep ==
  ASSUME ComponentsInv, StartComponent
  PROVE  ComponentsInv'
<1> DEFINE u == todo[0]
<1>1. /\ pc = "loop" /\ pc' = pc /\ adj' = adj /\ alg' = alg /\ v' = v /\ cids' = cids
      /\ edges = <<>> /\ edges' = adj[u]
      /\ explored = found /\ explored' = explored + 1 /\ cptr' = Append(cptr, explored)
      /\ ntodo > 0 /\ Find(u)
  BY DEF StartComponent, AtLoop
<1>2. CTypes /\ TodoSound /\ TodoListed /\ Begun /\ Reached /\ Closed /\ cids = <<>>
  BY <1>1 DEF ComponentsInv
<1>3. u \in Vertex /\ pos[u] # -1 /\ adj[u] \in Seq(Vertex)
  <2>1. 0 \in Vertex /\ 0 \in 0 .. ntodo - 1
    BY <1>1, <1>2, GraphsOnVertices DEF Vertex, CTypes
  <2> QED
    BY <2>1, <1>2 DEF CTypes, TodoListed
<1>4. /\ pos' \in [Vertex -> Vertex \cup {-1}] /\ todo' \in [Vertex -> Vertex]
      /\ cind' \in Seq(Vertex) /\ ntodo' \in Nat
      /\ cind' = Append(cind, u) /\ found' = found + 1
      /\ found' + ntodo' = nvtxs
      /\ \A p, q \in 1 .. found' : cind'[p] = cind'[q] => p = q
      /\ \A x \in Vertex : pos'[x] = -1 <=> \E p \in 1 .. found' : cind'[p] = x
      /\ \A x \in Vertex : pos'[x] # -1 => pos'[x] < ntodo' /\ todo'[pos'[x]] = x
      /\ TodoListed'
  BY <1>1, <1>2, <1>3, FindStep
<1>5. /\ found \in Nat /\ found <= nvtxs /\ nvtxs \in Nat /\ explored \in Nat
      /\ cptr \in Seq(0 .. nvtxs) /\ explored \in 0 .. nvtxs
  BY <1>1, <1>2, GraphsOnVertices DEF found, CTypes, TodoSound
<1>6. /\ cptr' \in Seq(0 .. nvtxs) /\ Len(cptr') = Len(cptr) + 1
      /\ cptr'[Len(cptr) + 1] = explored
      /\ \A c \in DOMAIN cptr : cptr'[c] = cptr[c]
      /\ DOMAIN cptr' = 1 .. Len(cptr) + 1 /\ DOMAIN cptr = 1 .. Len(cptr)
      /\ Len(cptr) \in Nat
  BY <1>1, <1>5
<1>7. /\ \A p \in 1 .. found : cind'[p] = cind[p] /\ cind[p] \in Vertex
      /\ cind'[found + 1] = u
  BY <1>4, <1>2 DEF CTypes, found
<1>8. CTypes' /\ TodoSound'
  <2>1. explored' \in Nat /\ explored' = found'
    BY <1>1, <1>4, <1>5
  <2> QED
    <3>1. CTypes'
      BY <1>1, <1>2, <1>3, <1>4, <1>6, <2>1 DEF CTypes
    <3>2. explored' <= found' /\ found' + ntodo' = nvtxs
      <4>1. explored' = explored + 1 /\ found' = explored + 1
        BY <1>1, <1>4
      <4>2. explored' <= found'
        BY <4>1, <1>5
      <4> QED
        BY <4>2, <1>4
    <3>3. TodoSound'
      BY <1>4, <3>2 DEF TodoSound
    <3> QED
      BY <3>1, <3>3
<1>9. RowsMeant'
  BY <1>1, <1>3, <1>5, <1>7 DEF RowsMeant, Arc, Entries
<1>10. \A b \in 1 .. found + 1 : Begins(b)' <=> (b = found + 1 \/ Begins(b))
  <2> TAKE b \in 1 .. found + 1
  <2>1. Begins(b)' <=> \E c \in 1 .. Len(cptr) + 1 : cptr'[c] = b - 1
    BY <1>6 DEF Begins
  <2>2. (\E c \in 1 .. Len(cptr) + 1 : cptr'[c] = b - 1) <=>
           (cptr'[Len(cptr) + 1] = b - 1 \/ \E c \in 1 .. Len(cptr) : cptr'[c] = b - 1)
    BY <1>6
  <2> QED
    BY <2>1, <2>2, <1>1, <1>5, <1>6 DEF Begins
<1>11. Begun'
  <2>1. cptr' # <<>> /\ Len(cptr') <= explored'
    BY <1>1, <1>2, <1>5, <1>6 DEF Begun
  <2>2. \A c \in DOMAIN cptr' : cptr'[c] < explored'
    <3> TAKE c \in DOMAIN cptr'
    <3>1. CASE c \in DOMAIN cptr
      <4>1. cptr'[c] = cptr[c] /\ cptr[c] < explored /\ cptr[c] \in 0 .. nvtxs
        BY <3>1, <1>1, <1>2, <1>5, <1>6 DEF Begun
      <4> QED
        BY <4>1, <1>1, <1>5
    <3>2. CASE c = Len(cptr) + 1
      BY <3>2, <1>1, <1>5, <1>6
    <3> QED
      BY <3>1, <3>2, <1>6
  <2>3. ASSUME NEW p \in 1 .. found'
        PROVE  \E c \in DOMAIN cptr' : /\ cptr'[c] < p
                                       /\ \A d \in DOMAIN cptr' : d > c => p <= cptr'[d]
    <3>1. CASE p = found + 1
      BY <3>1, <1>1, <1>5, <1>6
    <3>2. CASE p # found + 1
      <4>1. p \in 1 .. found
        BY <3>2, <1>4, <1>5
      <4>2. PICK c \in DOMAIN cptr : /\ cptr[c] < p
                                     /\ \A d \in DOMAIN cptr : d > c => p <= cptr[d]
        BY <4>1, <1>2 DEF Begun
      <4>3. \A d \in DOMAIN cptr' : d > c => p <= cptr'[d]
        <5> TAKE d \in DOMAIN cptr'
        <5>1. CASE d \in DOMAIN cptr
          BY <5>1, <4>2, <1>6
        <5>2. CASE d = Len(cptr) + 1
          BY <5>2, <4>1, <1>1, <1>5, <1>6
        <5> QED
          BY <5>1, <5>2, <1>6
      <4> QED
        BY <4>2, <4>3, <1>6
    <3> QED
      BY <3>1, <3>2
  <2> QED
    BY <2>1, <2>2, <2>3 DEF Begun
<1>12. Reached'
  <2> SUFFICES ASSUME NEW p \in 1 .. found', ~Begins(p)'
               PROVE  \E q \in 1 .. p - 1 : /\ Arc(cind[q], cind[p])'
                                            /\ \A b \in q + 1 .. p : ~Begins(b)'
    BY DEF Reached
  <2>1. p \in 1 .. found /\ ~Begins(p)
    BY <1>4, <1>5, <1>10
  <2>2. PICK q \in 1 .. p - 1 : /\ Arc(cind[q], cind[p])
                                /\ \A b \in q + 1 .. p : ~Begins(b)
    BY <2>1, <1>2 DEF Reached
  <2>3. Arc(cind[q], cind[p])'
    BY <2>1, <2>2, <1>1, <1>5, <1>7 DEF Arc, Entries
  <2>4. \A b \in q + 1 .. p : ~Begins(b)'
    BY <2>1, <2>2, <1>5, <1>10
  <2> QED
    BY <2>3, <2>4
<1>13. Closed'
  <2> SUFFICES ASSUME NEW q \in 1 .. explored', NEW j \in Vertex, Arc(cind[q], j)',
                      (q = explored => \A e \in DOMAIN edges : edges[e] # j)'
               PROVE  \E p \in 1 .. found' : cind'[p] = j /\ \A b \in q + 1 .. p : ~Begins(b)'
    BY DEF Closed
  <2>1. q # found + 1
    BY <1>1, <1>5, <1>7 DEF Arc, Entries
  <2>2. q \in 1 .. explored /\ q \in 1 .. found /\ Arc(cind[q], j)
    BY <2>1, <1>1, <1>5, <1>7 DEF Arc, Entries
  <2>3. PICK p \in 1 .. found : cind[p] = j /\ \A b \in q + 1 .. p : ~Begins(b)
    BY <2>2, <1>1, <1>2 DEF Closed
  <2> QED
    <3>1. p \in 1 .. found'
      BY <1>4, <1>5
    <3>2. cind'[p] = j
      BY <2>3, <1>7
    <3>3. \A b \in q + 1 .. p : ~Begins(b)'
      BY <2>2, <2>3, <1>5, <1>10
    <3> QED
      BY <3>1, <3>2, <3>3
<1> QED
  BY <1>1, <1>2, <1>4, <1>8, <1>9, <1>11, <1>12, <1>13 DEF ComponentsInv, Returned

LEMMA ComponentsExplore ==
  ASSUME ComponentsInv, ExploreNext
  PROVE  ComponentsInv'
<1> DEFINE u == cind[explored + 1]
<1>1. /\ pc = "loop" /\ pc' = pc /\ adj' = adj /\ alg' = alg /\ v' = v /\ cids' = cids
      /\ edges = <<>> /\ edges' = adj[u]
      /\ explored < found /\ explored' = explored + 1
      /\ UNCHANGED <<pos, cind, cptr, todo, ntodo>>
  BY DEF ExploreNext, AtLoop
<1>2. CTypes /\ TodoSound /\ TodoListed /\ Begun /\ Reached /\ Closed /\ cids = <<>>
  BY <1>1 DEF ComponentsInv
<1>3. found \in Nat /\ explored \in Nat /\ found' = found
  BY <1>1, <1>2 DEF CTypes, found
<1>4. u \in Vertex /\ adj[u] \in Seq(Vertex)
  BY <1>1, <1>2, <1>3 DEF CTypes, found
<1>5. CTypes' /\ TodoSound' /\ TodoListed'
  <2>1. CTypes'
    BY <1>1, <1>2, <1>3, <1>4 DEF CTypes
  <2>2. TodoSound' /\ TodoListed'
    BY <1>1, <1>2, <1>3 DEF TodoSound, TodoListed
  <2> QED
    BY <2>1, <2>2
<1>6. RowsMeant'
  BY <1>1, <1>3, <1>4 DEF RowsMeant, Arc, Entries
<1>7. Begun'
  <2>1. cptr \in Seq(0 .. nvtxs) /\ nvtxs \in Nat
    BY <1>2, GraphsOnVertices DEF CTypes
  <2>2. Len(cptr) <= explored + 1 /\ \A c \in DOMAIN cptr : cptr[c] < explored + 1
    <3>1. pc # "done" => Len(cptr) <= explored /\ \A c \in DOMAIN cptr : cptr[c] < explored
      BY ONLY <1>2 DEF Begun
    <3>2. Len(cptr) <= explored /\ \A c \in DOMAIN cptr : cptr[c] < explored
      BY ONLY <1>1, <3>1
    <3> QED BY ONLY <1>3, <2>1, <3>2
  <2> QED
    BY <1>1, <1>2, <1>3, <2>2 DEF Begun
<1>8. Reached'
  BY ZenonT(60), <1>1, <1>2, <1>3 DEF Reached, Begins, Arc, Entries
<1>9. Closed'
  <2> SUFFICES ASSUME NEW q \in 1 .. explored', NEW j \in Vertex, Arc(cind[q], j)',
                      (q = explored => \A e \in DOMAIN edges : edges[e] # j)'
               PROVE  \E p \in 1 .. found' : cind'[p] = j /\ \A b \in q + 1 .. p : ~Begins(b)'
    BY DEF Closed
  <2>1. q # explored + 1
    BY <1>1, <1>3 DEF Arc, Entries
  <2>2. q \in 1 .. explored /\ Arc(cind[q], j)
    BY <2>1, <1>1, <1>3 DEF Arc, Entries
  <2>3. PICK p \in 1 .. found : cind[p] = j /\ \A b \in q + 1 .. p : ~Begins(b)
    BY <2>2, <1>1, <1>2 DEF Closed
  <2>4. \A b \in q + 1 .. p : ~Begins(b)'
    BY <2>3, <1>1 DEF Begins
  <2> QED
    BY <2>3, <2>4, <1>1, <1>3
<1> QED
  BY <1>1, <1>2, <1>5, <1>6, <1>7, <1>8, <1>9 DEF ComponentsInv, Returned

(* What is left of the entries to see.                                     *)
LEMMA TailOfEdges ==
  ASSUME edges \in Seq(Vertex), edges # <<>>
  PROVE  /\ Tail(edges) \in Seq(Vertex) /\ Head(edges) \in Vertex
         /\ 1 \in DOMAIN edges /\ edges[1] = Head(edges)
         /\ \A e \in DOMAIN Tail(edges) : e + 1 \in DOMAIN edges /\ Tail(edges)[e] = edges[e + 1]
         /\ \A j : (\A e \in DOMAIN Tail(edges) : Tail(edges)[e] # j) =>
                     j = Head(edges) \/ \A e \in DOMAIN edges : edges[e] # j
<1>1. /\ Tail(edges) \in Seq(Vertex) /\ Head(edges) \in Vertex /\ Len(edges) \in Nat
      /\ Len(edges) > 0 /\ edges[1] = Head(edges) /\ Len(Tail(edges)) = Len(edges) - 1
      /\ \A e \in 1 .. Len(edges) - 1 : Tail(edges)[e] = edges[e + 1]
  OBVIOUS
<1>2. DOMAIN edges = 1 .. Len(edges) /\ DOMAIN Tail(edges) = 1 .. Len(edges) - 1
  BY <1>1
<1>3. ASSUME NEW j, \A e \in DOMAIN Tail(edges) : Tail(edges)[e] # j, NEW e \in DOMAIN edges,
             edges[e] = j
      PROVE  j = Head(edges)
  <2>1. CASE e = 1
    BY <2>1, <1>1, <1>3
  <2>2. CASE e # 1
    <3>1. e - 1 \in DOMAIN Tail(edges) /\ Tail(edges)[e - 1] = edges[e]
      BY <2>2, <1>1, <1>2
    <3> QED
      BY <3>1, <1>3
  <2> QED
    BY <2>1, <2>2
<1> QED
  BY <1>1, <1>2, <1>3

(* An entry is seen that is found already.                                 *)
LEMMA ComponentsSeeKnown ==
  ASSUME ComponentsInv, SeeEntry, pos[Head(edges)] = -1
  PROVE  ComponentsInv'
<1> DEFINE k == Head(edges)
<1>1. /\ pc' = pc /\ adj' = adj /\ alg' = alg /\ v' = v /\ cids' = cids
      /\ edges # <<>> /\ edges' = Tail(edges)
      /\ UNCHANGED <<pos, cind, cptr, todo, ntodo, explored>>
  BY DEF SeeEntry
<1>2. CTypes /\ TodoSound /\ TodoListed /\ RowsMeant /\ Begun /\ Reached /\ Closed
  BY DEF ComponentsInv
<1>3. pc # "done" /\ pc # "call" /\ cids = <<>>
  BY <1>1 DEF ComponentsInv
<1>4. /\ Tail(edges) \in Seq(Vertex) /\ k \in Vertex
      /\ 1 \in DOMAIN edges /\ edges[1] = k
      /\ \A e \in DOMAIN Tail(edges) : e + 1 \in DOMAIN edges /\ Tail(edges)[e] = edges[e + 1]
      /\ \A j : (\A e \in DOMAIN Tail(edges) : Tail(edges)[e] # j) =>
                  j = k \/ \A e \in DOMAIN edges : edges[e] # j
  BY <1>1, <1>2, TailOfEdges DEF CTypes
<1>5. found \in Nat /\ explored \in Nat /\ found' = found
  BY <1>1, <1>2 DEF CTypes, found
<1>6. CTypes' /\ TodoSound' /\ TodoListed' /\ Reached' /\ Begun'
  <2>1. CTypes'
    BY <1>1, <1>2, <1>4 DEF CTypes
  <2>2. TodoSound' /\ TodoListed'
    BY <1>1, <1>2, <1>5 DEF TodoSound, TodoListed
  <2>3. Reached'
    BY ZenonT(60), <1>1, <1>2, <1>5 DEF Reached, Begins, Arc, Entries
  <2>4. Begun'
    BY <1>1, <1>2, <1>5 DEF Begun
  <2> QED
    BY <2>1, <2>2, <2>3, <2>4
<1>7. RowsMeant'
  BY <1>1, <1>2, <1>4 DEF RowsMeant, Arc, Entries
<1>8. Closed'
  <2> SUFFICES ASSUME NEW q \in 1 .. explored, NEW j \in Vertex, Arc(cind[q], j),
                      q = explored => \A e \in DOMAIN Tail(edges) : Tail(edges)[e] # j
               PROVE  \E p \in 1 .. found : cind[p] = j /\ \A b \in q + 1 .. p : ~Begins(b)
    BY <1>1, <1>5 DEF Closed, Arc, Entries, Begins
  <2>1. CASE q = explored /\ j = k
    <3>1. PICK p \in 1 .. found : cind[p] = j
      BY <2>1, <1>2, <1>4 DEF TodoSound
    <3>2. \A b \in q + 1 .. p : ~Begins(b)
      <4>1. \A c \in DOMAIN cptr : cptr[c] < explored
        BY <1>2, <1>3 DEF Begun
      <4> QED
        BY <4>1, <2>1, <1>5 DEF Begins
    <3> QED
      BY <3>1, <3>2
  <2>2. CASE ~(q = explored /\ j = k)
    BY <2>2, <1>2, <1>4 DEF Closed
  <2> QED
    BY <2>1, <2>2
<1> QED
  BY <1>1, <1>2, <1>3, <1>6, <1>7, <1>8 DEF ComponentsInv, Returned

(* An entry is seen that is not found yet: it is of the component of the   *)
(* vertex explored, which was begun last.                                  *)
LEMMA SeeNew ==
  ASSUME ComponentsInv, SeeEntry, pos[Head(edges)] # -1
  PROVE  ComponentsInv'
<1> DEFINE k == Head(edges)
<1>1. /\ pc' = pc /\ adj' = adj /\ alg' = alg /\ v' = v /\ cids' = cids
      /\ edges # <<>> /\ edges' = Tail(edges) /\ Find(k)
      /\ UNCHANGED <<cptr, explored>>
  BY DEF SeeEntry
<1>2. CTypes /\ TodoSound /\ TodoListed /\ RowsMeant /\ Begun /\ Reached /\ Closed
  BY DEF ComponentsInv
<1>3. pc # "done" /\ pc # "call" /\ cids = <<>>
  BY <1>1 DEF ComponentsInv
<1>4. /\ Tail(edges) \in Seq(Vertex) /\ k \in Vertex
      /\ 1 \in DOMAIN edges /\ edges[1] = k
      /\ \A e \in DOMAIN Tail(edges) : e + 1 \in DOMAIN edges /\ Tail(edges)[e] = edges[e + 1]
      /\ \A j : (\A e \in DOMAIN Tail(edges) : Tail(edges)[e] # j) =>
                  j = k \/ \A e \in DOMAIN edges : edges[e] # j
  BY <1>1, <1>2, TailOfEdges DEF CTypes
<1>5. /\ pos' \in [Vertex -> Vertex \cup {-1}] /\ todo' \in [Vertex -> Vertex]
      /\ cind' \in Seq(Vertex) /\ ntodo' \in Nat
      /\ cind' = Append(cind, k) /\ found' = found + 1
      /\ found' + ntodo' = nvtxs
      /\ \A p, q \in 1 .. found' : cind'[p] = cind'[q] => p = q
      /\ \A x \in Vertex : pos'[x] = -1 <=> \E p \in 1 .. found' : cind'[p] = x
      /\ \A x \in Vertex : pos'[x] # -1 => pos'[x] < ntodo' /\ todo'[pos'[x]] = x
      /\ TodoListed'
  BY <1>1, <1>2, <1>4, FindStep
<1>6. /\ found \in Nat /\ explored \in Nat /\ explored <= found /\ explored > 0
      /\ cptr \in Seq(0 .. nvtxs) /\ nvtxs \in Nat /\ Arc(cind[explored], k)
  BY <1>2, <1>4, GraphsOnVertices DEF CTypes, found, TodoSound, RowsMeant
<1>7. /\ \A p \in 1 .. found : cind'[p] = cind[p] /\ cind[p] \in Vertex
      /\ cind'[found + 1] = k
  BY <1>5, <1>2 DEF CTypes, found
<1>8. \A b : Begins(b)' <=> Begins(b)
  BY <1>1 DEF Begins
<1>9. \A b \in Int : b > explored => ~Begins(b)
  <2>1. \A c \in DOMAIN cptr : cptr[c] < explored /\ cptr[c] \in Int
    BY <1>2, <1>3, <1>6 DEF Begun
  <2> QED
    BY <2>1, <1>6 DEF Begins
<1>10. \A x, y : Arc(x, y)' <=> Arc(x, y)
  BY <1>1 DEF Arc, Entries
<1>11. CTypes' /\ TodoSound'
  <2>1. CTypes'
    BY <1>1, <1>2, <1>4, <1>5 DEF CTypes
  <2>2. explored' <= found'
    <3>1. explored' = explored /\ found' = found + 1
      BY <1>1, <1>5
    <3> QED
      BY <3>1, <1>6
  <2>3. TodoSound'
    BY <1>5, <2>2 DEF TodoSound
  <2> QED
    BY <2>1, <2>3
<1>12. RowsMeant'
  <2> SUFFICES ASSUME NEW e \in DOMAIN Tail(edges)
               PROVE  explored > 0 /\ Arc(cind'[explored], Tail(edges)[e])
    BY <1>1, <1>10 DEF RowsMeant, Arc, Entries
  <2>1. Arc(cind[explored], Tail(edges)[e])
    BY <1>2, <1>4 DEF RowsMeant
  <2> QED
    BY <2>1, <1>6, <1>7
<1>13. Begun'
  <2>1. cptr # <<>> /\ Len(cptr) \in 1 .. explored /\ DOMAIN cptr = 1 .. Len(cptr)
    BY <1>2, <1>3, <1>6 DEF Begun
  <2>2. ASSUME NEW p \in 1 .. found'
        PROVE  \E c \in DOMAIN cptr : /\ cptr[c] < p
                                      /\ \A d \in DOMAIN cptr : d > c => p <= cptr[d]
    <3>1. CASE p = found + 1
      <4>1. cptr[Len(cptr)] < explored /\ cptr[Len(cptr)] \in Int /\ Len(cptr) \in DOMAIN cptr
        <5>1. Len(cptr) \in DOMAIN cptr
          BY <2>1, <1>6
        <5>2. \A c \in DOMAIN cptr : cptr[c] < explored
          BY <1>2, <1>3 DEF Begun
        <5> QED
          BY <5>1, <5>2, <1>6
      <4>2. cptr[Len(cptr)] < p
        BY <4>1, <3>1, <1>6
      <4>3. \A d \in DOMAIN cptr : ~(d > Len(cptr))
        BY <2>1, <1>6
      <4> QED
        BY <4>1, <4>2, <4>3
    <3>2. CASE p # found + 1
      <4>1. p \in 1 .. found
        BY <3>2, <1>5, <1>6
      <4> QED
        BY <4>1, <1>2 DEF Begun
    <3> QED
      BY <3>1, <3>2
  <2> QED
    BY <2>1, <2>2, <1>1, <1>2 DEF Begun
<1>14. Reached'
  <2> SUFFICES ASSUME NEW p \in 1 .. found', ~Begins(p)
               PROVE  \E q \in 1 .. p - 1 : /\ Arc(cind'[q], cind'[p])
                                            /\ \A b \in q + 1 .. p : ~Begins(b)
    BY <1>1 DEF Reached, Begins, Arc, Entries
  <2>1. CASE p = found + 1
    <3>1. explored \in 1 .. p - 1 /\ Arc(cind'[explored], cind'[p])
      BY <2>1, <1>6, <1>7
    <3>2. \A b \in explored + 1 .. p : ~Begins(b)
      BY <1>6, <1>9
    <3> QED
      BY <3>1, <3>2
  <2>2. CASE p # found + 1
    <3>1. p \in 1 .. found
      BY <2>2, <1>5, <1>6
    <3>2. PICK q \in 1 .. p - 1 : /\ Arc(cind[q], cind[p])
                                  /\ \A b \in q + 1 .. p : ~Begins(b)
      BY <3>1, <1>2 DEF Reached
    <3>3. cind'[q] = cind[q] /\ cind'[p] = cind[p]
      BY <3>1, <1>6, <1>7
    <3> QED
      BY <3>2, <3>3
  <2> QED
    BY <2>1, <2>2
<1>15. Closed'
  <2> SUFFICES ASSUME NEW q \in 1 .. explored, NEW j \in Vertex, Arc(cind'[q], j),
                      q = explored => \A e \in DOMAIN Tail(edges) : Tail(edges)[e] # j
               PROVE  \E p \in 1 .. found' : cind'[p] = j /\ \A b \in q + 1 .. p : ~Begins(b)
    BY <1>1 DEF Closed, Arc, Entries, Begins
  <2>1. CASE q = explored /\ j = k
    <3>1. found + 1 \in 1 .. found' /\ cind'[found + 1] = j
      <4>1. found + 1 \in 1 .. found'
        BY <1>5, <1>6
      <4> QED
        BY <4>1, <2>1, <1>7
    <3>2. \A b \in q + 1 .. found + 1 : ~Begins(b)
      BY <2>1, <1>6, <1>9
    <3> QED
      BY <3>1, <3>2
  <2>2. CASE ~(q = explored /\ j = k)
    <3>1. q \in 1 .. found /\ Arc(cind[q], j)
      BY <1>6, <1>7
    <3>2. PICK p \in 1 .. found : cind[p] = j /\ \A b \in q + 1 .. p : ~Begins(b)
      BY <2>2, <3>1, <1>2, <1>4 DEF Closed
    <3>3. p \in 1 .. found'
      BY <1>5, <1>6
    <3>4. cind'[p] = j
      BY <3>2, <1>7
    <3> QED
      BY <3>2, <3>3, <3>4
  <2> QED
    BY <2>1, <2>2
<1> QED
  BY <1>1, <1>2, <1>3, <1>5, <1>11, <1>12, <1>13, <1>14, <1>15 DEF ComponentsInv, Returned

(* Nothing is left: each vertex lies between two beginnings.               *)
LEMMA ComponentsReturn ==
  ASSUME ComponentsInv, ReturnComponents
  PROVE  ComponentsInv'
<1>1. /\ pc = "loop" /\ pc' = "done" /\ cptr' = Append(cptr, explored)
      /\ explored = found /\ ntodo = 0 /\ edges = <<>>
      /\ UNCHANGED <<adj, alg, v, edges, pos, cind, explored, todo, ntodo>>
  BY DEF ReturnComponents, AtLoop
<1>2. CTypes /\ TodoSound /\ TodoListed /\ Begun /\ Reached /\ Closed
  BY DEF ComponentsInv
<1>3. /\ found = nvtxs /\ nvtxs \in Nat /\ explored \in 0 .. nvtxs /\ found' = found
      /\ found \in Nat /\ cind \in Seq(Vertex)
  BY <1>1, <1>2, GraphsOnVertices DEF TodoSound, CTypes, found
<1>4. /\ cptr \in Seq(0 .. nvtxs) /\ Len(cptr) \in Nat /\ DOMAIN cptr = 1 .. Len(cptr)
      /\ Len(cptr) <= nvtxs
  BY <1>1, <1>2, <1>3 DEF CTypes, Begun
<1>5. /\ cptr' \in Seq(0 .. nvtxs) /\ Len(cptr') = Len(cptr) + 1
      /\ cptr'[Len(cptr) + 1] = nvtxs
      /\ \A c \in 1 .. Len(cptr) : cptr'[c] = cptr[c]
      /\ DOMAIN cptr' = 1 .. Len(cptr) + 1
  BY <1>1, <1>3, <1>4
<1>18. \A c \in 0 .. Len(cptr) - 1 : cptr'[c + 1] \in 0 .. nvtxs /\ cptr'[c + 2] \in 0 .. nvtxs
  <2> TAKE c \in 0 .. Len(cptr) - 1
  <2>1. Len(cptr) \in Nat
    BY <1>4
  <2>2. c + 1 \in 1 .. Len(cptr) + 1 /\ c + 2 \in 1 .. Len(cptr) + 1
    BY <2>1
  <2>3. \A d \in 1 .. Len(cptr') : cptr'[d] \in 0 .. nvtxs
    <3>1. cptr' \in Seq(0 .. nvtxs)
      BY <1>5
    <3> QED
      BY <3>1, ElementOfSeq
  <2>4. Len(cptr') = Len(cptr) + 1
    BY <1>5
  <2> QED
    BY <2>2, <2>3, <2>4
<1> DEFINE In(c, p) == p \in cptr'[c + 1] + 1 .. cptr'[c + 2]
<1>6. ASSUME NEW p \in 1 .. nvtxs
      PROVE  \E c \in 0 .. Len(cptr) - 1 : In(c, p)
  <2>1. PICK c \in 1 .. Len(cptr) : /\ cptr[c] < p
                                    /\ \A d \in 1 .. Len(cptr) : d > c => p <= cptr[d]
    BY <1>2, <1>3, <1>4 DEF Begun
  <2>2. p <= cptr'[c + 1]
    <3>1. CASE c = Len(cptr)
      BY <3>1, <1>3, <1>5
    <3>2. CASE c # Len(cptr)
      <4>1. c + 1 \in 1 .. Len(cptr) /\ c + 1 > c
        <5>1. Len(cptr) \in Nat
          BY <1>4
        <5> QED
          BY <5>1, <3>2
      <4> QED
        BY <4>1, <2>1, <1>5
    <3> QED
      BY <3>1, <3>2
  <2>3. cptr'[c] < p /\ cptr'[c] \in Int /\ cptr'[c + 1] \in Int
    BY <2>1, <1>3, <1>4, <1>5
  <2>4. c - 1 \in 0 .. Len(cptr) - 1 /\ (c - 1) + 1 = c /\ (c - 1) + 2 = c + 1
    BY <1>4
  <2>5. In(c - 1, p)
    BY <2>2, <2>3, <2>4
  <2> QED
    BY <2>4, <2>5
<1> DEFINE Cid(u) == CHOOSE c \in 0 .. Len(cptr) - 1 :
                       \E p \in cptr'[c + 1] + 1 .. cptr'[c + 2] : cind[p] = u
<1>7. ASSUME NEW p \in 1 .. nvtxs
      PROVE  Cid(cind[p]) \in 0 .. Len(cptr) - 1 /\ In(Cid(cind[p]), p)
  <2>1. \E c \in 0 .. Len(cptr) - 1 :
           \E q \in cptr'[c + 1] + 1 .. cptr'[c + 2] : cind[q] = cind[p]
    BY <1>6
  <2>2. /\ Cid(cind[p]) \in 0 .. Len(cptr) - 1
        /\ \E q \in cptr'[Cid(cind[p]) + 1] + 1 .. cptr'[Cid(cind[p]) + 2] : cind[q] = cind[p]
    BY <2>1
  <2>3. PICK q \in cptr'[Cid(cind[p]) + 1] + 1 .. cptr'[Cid(cind[p]) + 2] : cind[q] = cind[p]
    BY <2>2
  <2> HIDE DEF Cid
  <2>4. cptr'[Cid(cind[p]) + 1] \in 0 .. nvtxs /\ cptr'[Cid(cind[p]) + 2] \in 0 .. nvtxs
    BY <2>2, <1>18
  <2>5. q \in 1 .. found
    BY <2>4, <1>3
  <2>6. q = p
    BY <2>3, <2>5, <1>2, <1>3 DEF TodoSound
  <2> QED
    BY <2>2, <2>3, <2>6
<1>8. cids' = <<>> \/ cids' = [u \in Vertex |-> Cid(u)]
  BY DEF ReturnComponents
<1>9. \A u \in Vertex : \E p \in 1 .. nvtxs : cind[p] = u
  <2>1. \A u \in Vertex : pos[u] = -1
    BY <1>1, <1>2, GraphsOnVertices DEF TodoSound, CTypes, Vertex
  <2> QED
    BY <2>1, <1>2, <1>3 DEF TodoSound
<1>10. \A p \in 1 .. nvtxs : cind[p] \in Vertex
  BY <1>3 DEF found
<1> HIDE DEF Cid
<1>11. cids' = <<>> \/ cids' \in [Vertex -> Vertex]
  <2>1. \A u \in Vertex : Cid(u) \in Vertex
    <3> TAKE u \in Vertex
    <3>1. Cid(u) \in 0 .. Len(cptr) - 1
      BY <1>7, <1>9
    <3> QED
      BY <3>1, <1>4, <1>3 DEF Vertex
  <2> QED
    BY <2>1, <1>8
<1>12. cids' # <<>> => \A p \in 1 .. nvtxs : InComponent(cids[cind[p]], p)'
  <2> SUFFICES ASSUME cids' # <<>>, NEW p \in 1 .. nvtxs
               PROVE  InComponent(cids[cind[p]], p)'
    OBVIOUS
  <2>1. cids'[cind[p]] = Cid(cind[p])
    BY <1>8, <1>10
  <2>2. Cid(cind[p]) \in 0 .. Len(cptr) - 1 /\ In(Cid(cind[p]), p)
    BY <1>7
  <2>3. cptr'[Cid(cind[p]) + 1] \in 0 .. nvtxs /\ cptr'[Cid(cind[p]) + 2] \in 0 .. nvtxs
    BY <2>2, <1>18
  <2> DEFINE c == Cid(cind[p])
  <2>4. cptr'[c + 1] < p /\ p <= cptr'[c + 2]
    BY <2>2, <2>3
  <2>5. cids'[cind'[p]] = c
    BY <2>1, <1>1
  <2> HIDE DEF c
  <2> QED
    BY <2>4, <2>5 DEF InComponent
<1>13. Returned'
  BY <1>1, <1>3, <1>12 DEF Returned
<1>14. CTypes' /\ TodoSound' /\ TodoListed' /\ RowsMeant'
  <2>1. CTypes'
    BY <1>1, <1>2, <1>5, <1>11 DEF CTypes
  <2>2. TodoSound' /\ TodoListed' /\ RowsMeant'
    BY <1>1, <1>2, <1>3 DEF TodoSound, TodoListed, RowsMeant
  <2> QED
    BY <2>1, <2>2
<1>15. \A b \in 1 .. found : Begins(b)' <=> Begins(b)
  <2> TAKE b \in 1 .. found
  <2>1. Begins(b)' <=> \E c \in 1 .. Len(cptr) + 1 : cptr'[c] = b - 1
    BY <1>5 DEF Begins
  <2>2. (\E c \in 1 .. Len(cptr) + 1 : cptr'[c] = b - 1) <=>
           (cptr'[Len(cptr) + 1] = b - 1 \/ \E c \in 1 .. Len(cptr) : cptr'[c] = b - 1)
    BY <1>4
  <2>3. cptr'[Len(cptr) + 1] # b - 1
    BY <1>3, <1>5
  <2>4. (\E c \in 1 .. Len(cptr) : cptr'[c] = b - 1) <=> (\E c \in 1 .. Len(cptr) : cptr[c] = b - 1)
    BY <1>5
  <2> QED
    BY <2>1, <2>2, <2>3, <2>4, <1>4 DEF Begins
<1>16. Begun'
  <2>1. cptr' # <<>>
    BY <1>4, <1>5
  <2>2. ASSUME NEW p \in 1 .. found
        PROVE  \E c \in DOMAIN cptr' : /\ cptr'[c] < p
                                       /\ \A d \in DOMAIN cptr' : d > c => p <= cptr'[d]
    <3>1. PICK c \in DOMAIN cptr : /\ cptr[c] < p
                                   /\ \A d \in DOMAIN cptr : d > c => p <= cptr[d]
      BY <1>2 DEF Begun
    <3>2. \A d \in DOMAIN cptr' : d > c => p <= cptr'[d]
      <4> TAKE d \in DOMAIN cptr'
      <4>1. CASE d = Len(cptr) + 1
        BY <4>1, <1>3, <1>5
      <4>2. CASE d # Len(cptr) + 1
        <5>1. d \in DOMAIN cptr /\ cptr'[d] = cptr[d]
          BY <4>2, <1>4, <1>5
        <5> QED
          BY <5>1, <3>1
      <4> QED
        BY <4>1, <4>2
    <3> QED
      BY <3>1, <3>2, <1>4, <1>5
  <2> QED
    BY <2>1, <2>2, <1>1, <1>3 DEF Begun
<1>17. Reached' /\ Closed'
  <2>1. Reached'
    <3> SUFFICES ASSUME NEW p \in 1 .. found, ~Begins(p)'
                 PROVE  \E q \in 1 .. p - 1 : /\ Arc(cind[q], cind[p])
                                              /\ \A b \in q + 1 .. p : ~Begins(b)'
      BY <1>1, <1>3 DEF Reached, Arc, Entries
    <3>1. PICK q \in 1 .. p - 1 : /\ Arc(cind[q], cind[p])
                                  /\ \A b \in q + 1 .. p : ~Begins(b)
      BY <1>2, <1>15 DEF Reached
    <3>2. \A b \in q + 1 .. p : ~Begins(b)'
      BY <3>1, <1>3, <1>15
    <3> QED
      BY <3>1, <3>2
  <2>2. Closed'
    <3> SUFFICES ASSUME NEW q \in 1 .. explored', NEW j \in Vertex, Arc(cind[q], j)'
                 PROVE  \E p \in 1 .. found' : cind'[p] = j /\ \A b \in q + 1 .. p : ~Begins(b)'
      BY DEF Closed
    <3>1. PICK p \in 1 .. found : cind[p] = j /\ \A b \in q + 1 .. p : ~Begins(b)
      BY <1>1, <1>2 DEF Closed, Arc, Entries
    <3>2. \A b \in q + 1 .. p : ~Begins(b)'
      <4>1. q \in Int /\ q >= 1
        BY <1>1, <1>3
      <4> QED
        BY <4>1, <3>1, <1>3, <1>15
    <3> QED
      BY <3>1, <3>2, <1>1, <1>3
  <2> QED
    BY <2>1, <2>2
<1> QED
  BY <1>1, <1>13, <1>14, <1>16, <1>17 DEF ComponentsInv

LEMMA ComponentsNextInv == ComponentsInv /\ [ComponentsNext]_<<avars, cvars>> => ComponentsInv'
<1> SUFFICES ASSUME ComponentsInv, [ComponentsNext]_<<avars, cvars>>
             PROVE  ComponentsInv'
  OBVIOUS
<1>1. CASE UNCHANGED <<avars, cvars>>
  <2>1. /\ UNCHANGED <<adj, alg, pc, v, edges, pos>>
        /\ UNCHANGED <<cind, cptr, explored, todo, ntodo, cids>>
        /\ found' = found
    BY <1>1 DEF avars, cvars, found
  <2>2. CTypes' /\ TodoSound' /\ TodoListed' /\ RowsMeant'
    <3>1. CTypes'
      BY <2>1 DEF ComponentsInv, CTypes
    <3>2. TodoSound' /\ TodoListed'
      BY <2>1 DEF ComponentsInv, TodoSound, TodoListed
    <3>3. RowsMeant'
      BY <2>1 DEF ComponentsInv, RowsMeant, Arc, Entries
    <3> QED
      BY <3>1, <3>2, <3>3
  <2>3. Begun' /\ Returned'
    BY <2>1 DEF ComponentsInv, Begun, Returned, InComponent
  <2>4. Reached' /\ Closed'
    <3>1. \A b : Begins(b)' <=> Begins(b)
      BY <2>1 DEF Begins
    <3>2. \A x, y : Arc(x, y)' <=> Arc(x, y)
      BY <2>1 DEF Arc, Entries
    <3>3. Reached'
      BY <2>1, <3>1, <3>2 DEF ComponentsInv, Reached
    <3>4. Closed'
      BY <2>1, <3>1, <3>2 DEF ComponentsInv, Closed
    <3> QED
      BY <3>3, <3>4
  <2> QED
    BY <2>1, <2>2, <2>3, <2>4 DEF ComponentsInv
<1>2. CASE FindNext
  <2>1. CASE SeeEntry
    BY <2>1, ComponentsSeeKnown, SeeNew
  <2> QED
    BY <1>2, <2>1, EnterStep, StartStep, ComponentsExplore, ComponentsReturn DEF FindNext
<1> QED
  BY <1>1, <1>2 DEF ComponentsNext, gk_graph_FindComponents, gk_csr_FindConnectedComponents

LEMMA ComponentsInvariance == ComponentsSpec => []ComponentsInv
<1> QED
  BY ComponentsInitInv, ComponentsNextInv, PTL DEF ComponentsSpec

(* The variables have their types in every state.                          *)
THEOREM ComponentsTypeCorrect == ComponentsSpec => []ComponentsTypeOK
<1>1. ComponentsInv => ComponentsTypeOK
  BY GraphsOnVertices DEF ComponentsInv, CTypes, TodoSound, ComponentsTypeOK, AdjacencyOK, found
<1> QED
  BY <1>1, ComponentsInvariance, PTL

(* gk_graph_FindComponents and gk_csr_FindConnectedComponents find every   *)
(* vertex once and return the components, for every graph on any number of *)
(* vertices.                                                               *)
THEOREM ComponentsTheorem == ComponentsSpec => []ComponentsFound
<1>1. ComponentsInv => ComponentsFound
  BY DEF ComponentsInv, Returned, ComponentsFound
<1> QED
  BY <1>1, ComponentsInvariance, PTL

-----------------------------------------------------------------------------
(* The breadth-first orders.                                              *)

BTypes ==
  /\ adj \in [Vertex -> Seq(Vertex)] /\ edges \in Seq(Vertex)
  /\ pos \in [Vertex -> Vertex \cup {-1}] /\ v \in Vertex \cup {-1}
  /\ pc \in {"call", "loop", "done"} /\ alg \in Ordered
  /\ hubs \in Nat /\ first \in Nat /\ last \in Nat /\ last <= nvtxs

(* cot is a permutation; this is what an entry of it says of its place.    *)
CotPermutes ==
  /\ cot \in [Vertex -> Vertex]
  /\ \A u \in Vertex : \E p \in Vertex : cot[p] = u
  /\ CotSound

(* What is still to be seen are edges of the vertex explored last.         *)
EdgesMeant ==
  \A e \in DOMAIN edges : first > hubs /\ Arc(cot[first - 1], edges[e])

PermMeant == r_perm # <<>> => \A p \in Vertex : r_perm[cot[p]] = p

Traversed ==
  /\ CotPermutes /\ EdgesMeant /\ PermMeant
  /\ OpenReached /\ ExploredClosed /\ BreadthFirst

OrderInv ==
  /\ BTypes
  /\ v \in Vertex \/ pc = "call" => Traversed
  /\ pc = "call" => cot = Identity /\ pos = Identity /\ first = 0 /\ last = 0 /\ hubs = 0
  /\ edges # <<>> => v \in Vertex /\ pc = "loop"
  /\ pc # "done" => r_perm = <<>>

LEMMA VertexFacts ==
  /\ nvtxs \in Nat /\ nvtxs > 0 /\ 0 \in Vertex /\ Vertex = 0 .. nvtxs - 1
  /\ -1 \notin Vertex
BY GraphsOnVertices DEF Vertex

(* A state in which nothing is explored is Traversed if cot is sound.      *)
Fresh ==
  /\ CotPermutes /\ edges = <<>> /\ r_perm = <<>>
  /\ hubs \in Nat /\ first = hubs /\ last = hubs

LEMMA NothingExplored == Fresh => Traversed
<1> SUFFICES ASSUME Fresh
             PROVE  Traversed
  OBVIOUS
<1> USE DEF Fresh
<1>1. hubs .. first - 1 = {} /\ first .. last - 1 = {} /\ hubs .. last - 1 = {}
  OBVIOUS
<1>2. EdgesMeant /\ PermMeant
  BY DEF EdgesMeant, PermMeant
<1>3. OpenReached /\ ExploredClosed /\ BreadthFirst
  BY <1>1 DEF OpenReached, ExploredClosed, BreadthFirst
<1> QED
  BY <1>2, <1>3 DEF Traversed

LEMMA NothingExploredNext == Fresh' => Traversed'
BY NothingExplored, PTL

LEMMA OrderInitInv == OrderInit => OrderInv
<1> SUFFICES ASSUME OrderInit
             PROVE  OrderInv
  OBVIOUS
<1> USE DEF OrderInit, Called, OrderStart
<1>1. BTypes
  BY GraphsOnVertices, VertexFacts DEF BTypes, Identity
<1>2. CotPermutes
  <2>1. \A u \in Vertex : cot[u] = u /\ pos[u] = u
    BY DEF Identity
  <2>2. \A p \in Vertex : ~(p < last)
    BY VertexFacts
  <2>3. cot \in [Vertex -> Vertex]
    BY DEF Identity
  <2> QED
    BY <2>1, <2>2, <2>3 DEF CotPermutes, CotSound
<1>3. Traversed
  BY <1>2, NothingExplored DEF Fresh
<1> QED
  BY <1>1, <1>3 DEF OrderInv

(* u is swapped to the front of what is to do, which begins at n.          *)
LEMMA Swapped ==
  ASSUME NEW c \in [Vertex -> Vertex], NEW q \in [Vertex -> Vertex \cup {-1}],
         NEW n \in Vertex, NEW u \in Vertex,
         \A x \in Vertex : \E p \in Vertex : c[p] = x,
         \A p, r \in Vertex : c[p] = c[r] => p = r,
         \A p \in Vertex : q[c[p]] = IF p < n THEN -1 ELSE p,
         q[u] # -1, ToFront(u, c, q, n),
         hubs' = n, first' = n, last' = n
  PROVE  CotPermutes' /\ pos' \in [Vertex -> Vertex \cup {-1}]
<1>1. PICK m \in Vertex : c[m] = u
  OBVIOUS
<1>2. q[u] = m /\ ~(m < n)
  BY <1>1
<1>3. q[c[n]] = n /\ c[n] \in Vertex
  BY VertexFacts
<1>4. cot' = Assign2(c, m, c[n], n, u) /\ pos' = Assign2(q, c[n], m, u, n)
  BY <1>2 DEF ToFront
<1>5. /\ cot' \in [Vertex -> Vertex] /\ cot'[n] = u /\ (m # n => cot'[m] = c[n])
      /\ \A p \in Vertex \ {m, n} : cot'[p] = c[p]
  BY <1>3, <1>4 DEF Assign2
<1>6. /\ pos' \in [Vertex -> Vertex \cup {-1}] /\ pos'[u] = n /\ (c[n] # u => pos'[c[n]] = m)
      /\ \A x \in Vertex \ {u, c[n]} : pos'[x] = q[x]
  BY <1>3, <1>4 DEF Assign2
<1>7. \A p, r \in Vertex : cot'[p] = cot'[r] => p = r
  BY <1>1, <1>5
<1>8. \A x \in Vertex : \E p \in Vertex : cot'[p] = x
  <2> TAKE x \in Vertex
  <2>1. PICK p \in Vertex : c[p] = x
    OBVIOUS
  <2>2. p = m \/ p = n \/ cot'[p] = x
    BY <2>1, <1>5
  <2> QED
    BY <2>1, <2>2, <1>1, <1>5
<1>9. \A p \in Vertex : pos'[cot'[p]] = IF p < last' THEN -1 ELSE p
  <2> TAKE p \in Vertex
  <2>1. CASE p = n
    BY <2>1, <1>5, <1>6, VertexFacts
  <2>2. CASE p # n /\ p = m
    <3>1. c[n] # u
      BY <2>2, <1>1
    <3> QED
      BY <2>2, <3>1, <1>2, <1>5, <1>6
  <2>3. CASE p # n /\ p # m
    <3>1. cot'[p] = c[p] /\ c[p] # u /\ c[p] # c[n] /\ c[p] \in Vertex
      BY <2>3, <1>1, <1>5
    <3> QED
      BY <3>1, <1>6
  <2> QED
    BY <2>1, <2>2, <2>3
<1>10. hubs' <= first' /\ first' <= last'
  BY VertexFacts
<1> QED
  BY <1>5, <1>6, <1>7, <1>8, <1>9, <1>10 DEF CotPermutes, CotSound

LEMMA EnterGraphStep ==
  ASSUME OrderInv, EnterGraph
  PROVE  OrderInv'
<1>1. /\ pc = "call" /\ pc' = "loop" /\ v \in Vertex
      /\ cot' = Assign2(cot, 0, v, v, 0) /\ pos' = Assign2(pos, 0, v, v, 0)
      /\ UNCHANGED <<adj, alg, edges, v, hubs, first, last, r_perm>>
  BY DEF EnterGraph
<1>2. /\ cot = Identity /\ pos = Identity /\ first = 0 /\ last = 0 /\ hubs = 0
      /\ edges = <<>> /\ r_perm = <<>> /\ BTypes
  BY <1>1 DEF OrderInv
<1>3. /\ cot' \in [Vertex -> Vertex] /\ pos' = cot'
      /\ cot'[0] = v /\ cot'[v] = 0 /\ \A x \in Vertex \ {0, v} : cot'[x] = x
  BY <1>1, <1>2, VertexFacts DEF Assign2, Identity
<1>4. CotPermutes' /\ pos' \in [Vertex -> Vertex \cup {-1}]
  <2>1. \A p \in Vertex : ~(p < last') /\ pos'[cot'[p]] = p
    <3> TAKE p \in Vertex
    <3>1. ~(p < last')
      BY <1>1, <1>2, VertexFacts
    <3>2. CASE p \in {0, v}
      BY <3>1, <3>2, <1>3
    <3>3. CASE p \notin {0, v}
      BY <3>1, <3>3, <1>3
    <3> QED
      BY <3>2, <3>3
  <2>2. \A u \in Vertex : \E p \in Vertex : cot'[p] = u
    BY <1>1, <1>3, VertexFacts
  <2>3. \A p, q \in Vertex : cot'[p] = cot'[q] => p = q
    BY <2>1
  <2> QED
    BY <1>1, <1>2, <1>3, <2>1, <2>2, <2>3 DEF CotPermutes, CotSound
<1>5. Traversed'
  BY <1>1, <1>2, <1>4, NothingExploredNext DEF Fresh
<1> QED
  BY <1>1, <1>2, <1>4, <1>5 DEF OrderInv, BTypes

LEMMA EnterMatrixStep ==
  ASSUME OrderInv, EnterMatrix
  PROVE  OrderInv'
<1>1. /\ pc = "call" /\ pc' = "loop" /\ v \in Vertex
      /\ ToFront(v, cot, pos, 0)
      /\ UNCHANGED <<adj, alg, edges, v, hubs, first, last, r_perm>>
  BY DEF EnterMatrix
<1>2. /\ cot = Identity /\ pos = Identity /\ first = 0 /\ last = 0 /\ hubs = 0
      /\ edges = <<>> /\ r_perm = <<>> /\ BTypes
  BY <1>1 DEF OrderInv
<1>3. /\ cot \in [Vertex -> Vertex] /\ pos \in [Vertex -> Vertex \cup {-1}]
      /\ \A x \in Vertex : cot[x] = x /\ pos[x] = x /\ ~(x < 0)
  BY <1>2, VertexFacts DEF Identity
<1>4. CotPermutes' /\ pos' \in [Vertex -> Vertex \cup {-1}]
  BY <1>1, <1>2, <1>3, VertexFacts, Swapped
<1>5. Traversed'
  BY <1>1, <1>2, <1>4, NothingExploredNext DEF Fresh
<1> QED
  BY <1>1, <1>2, <1>4, <1>5 DEF OrderInv, BTypes

(* Putting the rows of many entries in front permutes the rows: the two    *)
(* parts are all of them, and there are no more places.                    *)
LEMMA SiftedPermutes ==
  ASSUME NEW c \in [Vertex -> Vertex], NEW n \in 0 .. nvtxs - 1, NEW d \in Vertex,
         BTypes, Sifted(c, n, d)
  PROVE  /\ \A x \in Vertex : \E p \in Vertex : c[p] = x
         /\ \A p, r \in Vertex : c[p] = c[r] => p = r
         /\ \A p \in Vertex : Degree(c[p]) >= d <=> p < n
<1> DEFINE high == {u \in Vertex : Degree(u) >= d}
<1>1. /\ {c[p] : p \in 0 .. n - 1} = high
      /\ {c[p] : p \in n .. nvtxs - 1} = Vertex \ high
  BY DEF Sifted
<1>2. n \in Nat /\ \A p \in Vertex : p \in 0 .. n - 1 \/ p \in n .. nvtxs - 1
  BY VertexFacts
<1>3. 0 .. n - 1 \subseteq Vertex /\ n .. nvtxs - 1 \subseteq Vertex
  BY SMTT(30), VertexFacts
<1> HIDE DEF high
<1>4. \A x \in Vertex : \E p \in Vertex : c[p] = x
  BY <1>1, <1>3
<1>5. \A p, r \in Vertex : c[p] = c[r] => p = r
  <2>1. IsFiniteSet(Vertex)
    BY FS_Interval, VertexFacts
  <2>2. c \in Surjection(Vertex, Vertex)
    BY <1>4 DEF Surjection
  <2>3. c \in Injection(Vertex, Vertex)
    BY <2>1, <2>2, FS_SurjSameCardinalityImpliesInj
  <2> QED
    BY <2>3 DEF Injection, IsInjective
<1>6. \A p \in Vertex : c[p] \in high <=> p < n
  <2> TAKE p \in Vertex
  <2>1. CASE p \in 0 .. n - 1
    <3>1. c[p] \in high /\ p < n
      BY <2>1, <1>1, <1>2
    <3> QED
      BY <3>1
  <2>2. CASE p \in n .. nvtxs - 1
    <3>1. c[p] \notin high /\ ~(p < n)
      BY <2>2, <1>1, <1>2
    <3> QED
      BY <3>1
  <2> QED
    BY <1>2, <2>1, <2>2
<1> QED
  BY <1>4, <1>5, <1>6 DEF high

LEMMA EnterBelowStep ==
  ASSUME OrderInv, NEW d \in Vertex, EnterBelow(d)
  PROVE  OrderInv'
<1>1. PICK c \in [Vertex -> Vertex], n \in 0 .. nvtxs - 1 :
        /\ Sifted(c, n, d)
        /\ \E u \in {c[p] : p \in n .. nvtxs - 1} :
             /\ v' = u /\ hubs' = n /\ first' = n /\ last' = n
             /\ ToFront(u, c, [w \in Vertex |-> IF Degree(w) >= d THEN -1
                                ELSE CHOOSE p \in Vertex : c[p] = w], n)
  BY DEF EnterBelow
<1> DEFINE q == [w \in Vertex |-> IF Degree(w) >= d THEN -1
                                  ELSE CHOOSE p \in Vertex : c[p] = w]
<1>2. /\ pc = "call" /\ pc' = "loop" /\ UNCHANGED <<adj, alg, edges, r_perm>>
      /\ edges = <<>> /\ r_perm = <<>> /\ BTypes
  BY DEF EnterBelow, OrderInv
<1>3. PICK m \in n .. nvtxs - 1 :
        /\ v' = c[m] /\ hubs' = n /\ first' = n /\ last' = n
        /\ ToFront(c[m], c, q, n)
  BY <1>1
<1>4. /\ \A x \in Vertex : \E p \in Vertex : c[p] = x
      /\ \A p, r \in Vertex : c[p] = c[r] => p = r
      /\ \A p \in Vertex : Degree(c[p]) >= d <=> p < n
  BY <1>1, <1>2, SiftedPermutes
<1>5. n \in Vertex /\ n \in Nat /\ m \in Vertex /\ c[m] \in Vertex /\ ~(m < n)
  BY VertexFacts
<1>6. /\ q \in [Vertex -> Vertex \cup {-1}]
      /\ \A p \in Vertex : q[c[p]] = IF p < n THEN -1 ELSE p
  <2>1. \A w \in Vertex : (CHOOSE p \in Vertex : c[p] = w) \in Vertex
    BY <1>4
  <2>2. \A p \in Vertex : (CHOOSE r \in Vertex : c[r] = c[p]) = p
    BY <1>4
  <2>3. \A p \in Vertex : c[p] \in Vertex
    OBVIOUS
  <2> QED
    BY <2>1, <2>2, <2>3, <1>4
<1> HIDE DEF q
<1>7. q[c[m]] # -1
  BY <1>5, <1>6, VertexFacts
<1>8. CotPermutes' /\ pos' \in [Vertex -> Vertex \cup {-1}]
  BY <1>3, <1>4, <1>5, <1>6, <1>7, Swapped
<1>9. Traversed'
  BY <1>2, <1>3, <1>5, <1>8, NothingExploredNext DEF Fresh
<1>10. BTypes'
  <2>1. v' \in Vertex /\ last' \in Nat /\ last' <= nvtxs /\ first' \in Nat /\ hubs' \in Nat
    BY <1>3, <1>5, VertexFacts
  <2>2. alg' = alg /\ adj' = adj /\ edges' = edges
    BY <1>2
  <2> QED
    BY <1>2, <1>8, <2>1, <2>2 DEF BTypes
<1> QED
  BY <1>2, <1>9, <1>10 DEF OrderInv

(* Steps that leave the arrays: -1 used as an index, or a call refused.    *)
LEMMA EnterOtherStep ==
  ASSUME OrderInv, EnterAnywhere \/ RefuseBoth
  PROVE  OrderInv'
<1>1. CASE EnterAnywhere
  <2>1. /\ v = -1 /\ v' = v /\ pc' = "loop" /\ edges = <<>> /\ r_perm = <<>>
        /\ UNCHANGED <<adj, alg, edges, pos, v, hubs, first, last, r_perm>>
    BY <1>1 DEF EnterAnywhere, OrderInv
  <2> QED
    BY <2>1, VertexFacts DEF OrderInv, BTypes
<1>2. CASE RefuseBoth
  <2>1. /\ pc = "call" /\ pc' = "done" /\ edges = <<>>
        /\ UNCHANGED <<adj, alg, edges, pos, v, cot, hubs, first, last, r_perm>>
    BY <1>2 DEF RefuseBoth, OrderInv, bvars
  <2>2. Traversed
    BY <2>1 DEF OrderInv
  <2>3. Traversed'
    <3>1. \A x, y : Arc(x, y)' <=> Arc(x, y)
      BY <2>1 DEF Arc, Entries
    <3>2. CotPermutes' /\ PermMeant' /\ EdgesMeant'
      BY <2>1, <2>2 DEF Traversed, CotPermutes, CotSound, PermMeant, EdgesMeant
    <3>3. OpenReached'
      BY <2>1, <2>2, <3>1 DEF Traversed, OpenReached
    <3>4. ExploredClosed'
      BY <2>1, <2>2, <3>1 DEF Traversed, ExploredClosed
    <3>5. BreadthFirst'
      BY <2>1, <2>2, <3>1 DEF Traversed, BreadthFirst
    <3> QED
      BY <3>2, <3>3, <3>4, <3>5 DEF Traversed
  <2> QED
    BY <2>1, <2>3 DEF OrderInv, BTypes
<1> QED
  BY <1>1, <1>2

(* The next vertex explored is open, or the first to do if none is.        *)
LEMMA OrderExplore ==
  ASSUME OrderInv, ExploreOpen
  PROVE  OrderInv'
<1>1. /\ pc = "loop" /\ edges = <<>> /\ v \in Vertex /\ first < nvtxs
      /\ first' = first + 1 /\ edges' = adj[cot[first]]
      /\ UNCHANGED <<adj, alg, pc, v, cot, hubs, r_perm>>
  BY DEF ExploreOpen, AtLoop
<1>2. /\ BTypes /\ CotPermutes /\ OpenReached /\ ExploredClosed /\ BreadthFirst
      /\ r_perm = <<>>
  BY <1>1 DEF OrderInv, Traversed
<1>3. /\ first \in Nat /\ last \in Nat /\ hubs \in Nat /\ hubs <= first /\ first <= last
      /\ first \in Vertex /\ cot[first] \in Vertex /\ adj[cot[first]] \in Seq(Vertex)
  <2>1. /\ first \in Nat /\ last \in Nat /\ hubs \in Nat /\ hubs <= first /\ first <= last
    BY <1>2 DEF BTypes, CotPermutes, CotSound
  <2>2. first \in Vertex
    BY <2>1, <1>1, VertexFacts
  <2> QED
    BY <2>1, <2>2, <1>2 DEF BTypes, CotPermutes
<1>4. \A x, y : Arc(x, y)' <=> Arc(x, y)
  BY <1>1 DEF Arc, Entries
<1>5. /\ last' \in Nat /\ last' <= nvtxs /\ first + 1 <= last'
      /\ pos' \in [Vertex -> Vertex \cup {-1}]
      /\ \A p \in Vertex : pos'[cot[p]] = IF p < last' THEN -1 ELSE p
      /\ \A u \in Vertex : pos[u] = -1 => pos'[u] = -1
      /\ first < last => last' = last
      /\ first = last => last' = first + 1
  <2>1. CASE first = last
    <3>1. pos' = [pos EXCEPT ![cot[first]] = -1] /\ last' = last + 1
      BY <2>1 DEF ExploreOpen
    <3>2. /\ pos' \in [Vertex -> Vertex \cup {-1}] /\ pos'[cot[first]] = -1
          /\ \A x \in Vertex \ {cot[first]} : pos'[x] = pos[x]
      BY <3>1, <1>2, <1>3 DEF BTypes
    <3>3. \A p \in Vertex : pos'[cot[p]] = IF p < last + 1 THEN -1 ELSE p
      <4> TAKE p \in Vertex
      <4>1. CASE p = first
        BY <4>1, <2>1, <3>2, <1>3
      <4>2. CASE p # first
        <5>1. pos'[cot[p]] = pos[cot[p]]
          BY <4>2, <3>2, <1>2, <1>3 DEF CotPermutes, CotSound
        <5>2. pos[cot[p]] = IF p < last THEN -1 ELSE p
          BY <1>2 DEF CotPermutes, CotSound
        <5>3. p < last + 1 <=> p < last
          BY <4>2, <2>1, <1>3, VertexFacts
        <5> QED
          BY <5>1, <5>2, <5>3
      <4> QED
        BY <4>1, <4>2
    <3>4. last' = first + 1 /\ last' \in Nat /\ last' <= nvtxs
      BY <2>1, <3>1, <1>1, <1>3, VertexFacts
    <3>5. \A u \in Vertex : pos[u] = -1 => pos'[u] = -1
      BY <3>2
    <3>6. \A p \in Vertex : pos'[cot[p]] = IF p < last' THEN -1 ELSE p
      BY <3>3, <3>1
    <3> QED
      BY <2>1, <3>2, <3>4, <3>5, <3>6, <1>3
  <2>2. CASE first # last
    <3>1. pos' = pos /\ last' = last
      BY <2>2 DEF ExploreOpen
    <3> QED
      BY <2>2, <3>1, <1>2, <1>3 DEF BTypes, CotPermutes, CotSound
  <2> QED
    BY <2>1, <2>2
<1>6. last' = last \/ (first = last /\ last' = first + 1)
  BY <1>3, <1>5
<1>7. BTypes'
  BY <1>1, <1>2, <1>3, <1>5 DEF BTypes
<1>8. CotPermutes'
  BY <1>1, <1>2, <1>3, <1>5 DEF CotPermutes, CotSound
<1>9. EdgesMeant' /\ PermMeant'
  BY <1>1, <1>2, <1>3, <1>4 DEF EdgesMeant, PermMeant, Arc, Entries
<1>10. OpenReached'
  <2> SUFFICES ASSUME NEW c \in first + 1 .. last' - 1
               PROVE  \E a \in hubs .. first : Arc(cot[a], cot[c])
    BY <1>1, <1>3, <1>4 DEF OpenReached
  <2>1. c \in first .. last - 1
    BY <1>3, <1>6
  <2>2. PICK a \in hubs .. first - 1 : Arc(cot[a], cot[c])
    BY <2>1, <1>2 DEF OpenReached
  <2> QED
    BY <2>2, <1>3
<1>11. ExploredClosed'
  <2> SUFFICES ASSUME NEW a \in hubs .. first, NEW u \in Vertex, Arc(cot[a], u),
                      a = first => \A e \in DOMAIN edges' : edges'[e] # u
               PROVE  pos'[u] = -1
    BY <1>1, <1>3, <1>4 DEF ExploredClosed
  <2>1. a # first
    BY <1>1 DEF Arc, Entries
  <2>2. a \in hubs .. first - 1
    BY <2>1, <1>3
  <2>3. pos[u] = -1
    BY <2>2, <1>1, <1>2 DEF ExploredClosed
  <2> QED
    BY <2>3, <1>5
<1>12. BreadthFirst'
  <2> SUFFICES ASSUME NEW a \in hubs .. last' - 1, NEW b \in hubs .. last' - 1,
                      NEW c \in hubs .. last' - 1,
                      a < b, b < c, Arc(cot[a], cot[c]), ~Arc(cot[a], cot[b])
               PROVE  \E d \in hubs .. a - 1 : Arc(cot[d], cot[b])
    BY <1>1, <1>4 DEF BreadthFirst
  <2>1. c <= last - 1
    <3> SUFFICES ASSUME ~(c <= last - 1)
                 PROVE  FALSE
      OBVIOUS
    <3>1. c = first /\ c = last
      BY <1>3, <1>6
    <3>2. a \in hubs .. first - 1
      BY <3>1, <1>3
    <3>3. pos[cot[c]] = -1
      <4>1. cot[c] \in Vertex
        BY <3>1, <1>3
      <4> QED
        BY <4>1, <3>2, <1>1, <1>2 DEF ExploredClosed
    <3>4. pos[cot[c]] = c
      <4>1. c \in Vertex /\ ~(c < last)
        BY <3>1, <1>3
      <4> QED
        BY <4>1, <1>2 DEF CotPermutes, CotSound
    <3> QED
      BY <3>1, <3>3, <3>4, <1>3
  <2>2. /\ a \in hubs .. last - 1 /\ b \in hubs .. last - 1 /\ c \in hubs .. last - 1
    BY <2>1, <1>3
  <2> QED
    BY <2>2, <1>2 DEF BreadthFirst
<1> QED
  BY <1>1, <1>2, <1>7, <1>8, <1>9, <1>10, <1>11, <1>12 DEF OrderInv, Traversed

(* An entry is seen that is explored or open already.                      *)
LEMMA OrderSeeKnown ==
  ASSUME OrderInv, OpenEntry, pos[Head(edges)] = -1
  PROVE  OrderInv'
<1> DEFINE k == Head(edges)
<1>1. /\ edges # <<>> /\ edges' = Tail(edges)
      /\ UNCHANGED <<adj, alg, pc, v, cot, pos, hubs, first, last, r_perm>>
  BY DEF OpenEntry
<1>2. BTypes /\ Traversed /\ v \in Vertex /\ pc = "loop"
  BY <1>1 DEF OrderInv
<1>3. /\ Tail(edges) \in Seq(Vertex) /\ k \in Vertex
      /\ \A e \in DOMAIN Tail(edges) : e + 1 \in DOMAIN edges /\ Tail(edges)[e] = edges[e + 1]
      /\ \A j : (\A e \in DOMAIN Tail(edges) : Tail(edges)[e] # j) =>
                  j = k \/ \A e \in DOMAIN edges : edges[e] # j
  BY <1>1, <1>2, TailOfEdges DEF BTypes
<1>4. \A x, y : Arc(x, y)' <=> Arc(x, y)
  BY <1>1 DEF Arc, Entries
<1>5. CotPermutes' /\ PermMeant' /\ OpenReached' /\ BreadthFirst'
  <2>1. CotPermutes' /\ PermMeant'
    BY <1>1, <1>2 DEF Traversed, CotPermutes, CotSound, PermMeant
  <2>2. OpenReached' /\ BreadthFirst'
    BY <1>1, <1>2, <1>4 DEF Traversed, OpenReached, BreadthFirst
  <2> QED
    BY <2>1, <2>2
<1>6. EdgesMeant'
  BY <1>1, <1>2, <1>3, <1>4 DEF Traversed, EdgesMeant
<1>7. ExploredClosed'
  <2> SUFFICES ASSUME NEW a \in hubs .. first - 1, NEW u \in Vertex, Arc(cot[a], u),
                      a = first - 1 => \A e \in DOMAIN Tail(edges) : Tail(edges)[e] # u
               PROVE  pos[u] = -1
    BY <1>1, <1>4 DEF ExploredClosed
  <2>1. CASE u = k
    BY <2>1
  <2>2. CASE u # k
    BY <2>2, <1>2, <1>3 DEF Traversed, ExploredClosed
  <2> QED
    BY <2>1, <2>2
<1> QED
  BY <1>1, <1>2, <1>3, <1>5, <1>6, <1>7 DEF OrderInv, BTypes, Traversed

(* An entry is seen that is to do: k goes to the end of the open part.     *)
LEMMA OpenStep ==
  ASSUME OrderInv, OpenEntry, pos[Head(edges)] # -1
  PROVE  OrderInv'
<1> DEFINE k == Head(edges)
           m == pos[k]
<1>1. /\ edges # <<>> /\ edges' = Tail(edges) /\ last' = last + 1
      /\ cot' = Assign2(cot, m, cot[last], last, k)
      /\ pos' = Assign2(pos, cot[last], m, k, -1)
      /\ UNCHANGED <<adj, alg, pc, v, hubs, first, r_perm>>
  BY DEF OpenEntry
<1>2. BTypes /\ Traversed /\ v \in Vertex /\ pc = "loop" /\ r_perm = <<>>
  BY <1>1 DEF OrderInv
<1>3. /\ Tail(edges) \in Seq(Vertex) /\ k \in Vertex
      /\ 1 \in DOMAIN edges /\ edges[1] = k
      /\ \A e \in DOMAIN Tail(edges) : e + 1 \in DOMAIN edges /\ Tail(edges)[e] = edges[e + 1]
      /\ \A j : (\A e \in DOMAIN Tail(edges) : Tail(edges)[e] # j) =>
                  j = k \/ \A e \in DOMAIN edges : edges[e] # j
  BY <1>1, <1>2, TailOfEdges DEF BTypes
<1>4. /\ cot \in [Vertex -> Vertex] /\ pos \in [Vertex -> Vertex \cup {-1}]
      /\ \A p, q \in Vertex : cot[p] = cot[q] => p = q
      /\ \A p \in Vertex : pos[cot[p]] = IF p < last THEN -1 ELSE p
      /\ \A u \in Vertex : \E p \in Vertex : cot[p] = u
  BY <1>2 DEF BTypes, Traversed, CotPermutes, CotSound
<1>5. /\ first \in Nat /\ last \in Nat /\ hubs \in Nat /\ hubs <= first /\ first <= last
      /\ first > hubs /\ Arc(cot[first - 1], k)
  BY <1>2, <1>3 DEF BTypes, Traversed, CotPermutes, CotSound, EdgesMeant
<1>6. m \in Vertex /\ ~(m < last) /\ cot[m] = k
  <2>1. PICK p \in Vertex : cot[p] = k
    BY <1>3, <1>4
  <2> QED
    BY <2>1, <1>3, <1>4
<1>7. last \in Vertex /\ last + 1 <= nvtxs
  BY <1>5, <1>6, VertexFacts
<1>8. /\ cot' \in [Vertex -> Vertex] /\ cot'[last] = k /\ (m # last => cot'[m] = cot[last])
      /\ \A p \in Vertex \ {m, last} : cot'[p] = cot[p]
  BY ZenonT(60), <1>1, <1>3, <1>4, <1>6, <1>7 DEF Assign2
<1>9. /\ pos' \in [Vertex -> Vertex \cup {-1}] /\ pos'[k] = -1
      /\ (cot[last] # k => pos'[cot[last]] = m)
      /\ \A x \in Vertex \ {k, cot[last]} : pos'[x] = pos[x]
  BY <1>1, <1>3, <1>4, <1>6, <1>7 DEF Assign2
<1>10. \A p \in 0 .. last - 1 : cot'[p] = cot[p] /\ p \in Vertex /\ cot[p] \in Vertex
  <2> TAKE p \in 0 .. last - 1
  <2>1. p \in Vertex /\ p # m /\ p # last
    BY <1>5, <1>6, <1>7, VertexFacts
  <2> QED
    BY <2>1, <1>4, <1>8
<1>11. \A u \in Vertex : pos[u] = -1 => pos'[u] = -1
  <2>1. pos[cot[last]] = last /\ last # -1
    BY <1>4, <1>5, <1>7
  <2> QED
    BY <2>1, <1>9
<1>12. \A x, y : Arc(x, y)' <=> Arc(x, y)
  BY <1>1 DEF Arc, Entries
<1>13. CotPermutes'
  <2>1. \A p, q \in Vertex : cot'[p] = cot'[q] => p = q
    BY <1>4, <1>6, <1>7, <1>8
  <2>2. \A u \in Vertex : \E p \in Vertex : cot'[p] = u
    <3> TAKE u \in Vertex
    <3>1. PICK p \in Vertex : cot[p] = u
      BY <1>4
    <3>2. p = m \/ p = last \/ cot'[p] = u
      BY <3>1, <1>8
    <3> QED
      BY <3>1, <3>2, <1>6, <1>7, <1>8
  <2>3. \A p \in Vertex : pos'[cot'[p]] = IF p < last + 1 THEN -1 ELSE p
    <3> TAKE p \in Vertex
    <3>1. CASE p = last
      BY <3>1, <1>5, <1>8, <1>9
    <3>2. CASE p # last /\ p = m
      <4>1. cot[last] # k /\ pos'[cot'[p]] = m
        BY <3>2, <1>4, <1>6, <1>7, <1>8, <1>9
      <4>2. ~(p < last + 1)
        BY <3>2, <1>5, <1>6, VertexFacts
      <4> QED
        BY <3>2, <4>1, <4>2
    <3>3. CASE p # last /\ p # m
      <4>1. cot'[p] = cot[p] /\ cot[p] # k /\ cot[p] # cot[last] /\ cot[p] \in Vertex
        BY <3>3, <1>4, <1>6, <1>7, <1>8
      <4>2. pos'[cot'[p]] = IF p < last THEN -1 ELSE p
        BY <4>1, <1>4, <1>9
      <4>3. p < last <=> p < last + 1
        BY <3>3, <1>5, VertexFacts
      <4> QED
        BY <4>2, <4>3
    <3> QED
      BY <3>1, <3>2, <3>3
  <2>4. hubs' <= first' /\ first' <= last'
    BY <1>1, <1>5
  <2> QED
    BY <1>1, <1>8, <2>1, <2>2, <2>3, <2>4 DEF CotPermutes, CotSound
<1>14. EdgesMeant' /\ PermMeant'
  <2>1. \A e \in DOMAIN Tail(edges) : Arc(cot[first - 1], Tail(edges)[e])
    BY <1>2, <1>3 DEF Traversed, EdgesMeant
  <2>2. cot'[first - 1] = cot[first - 1]
    BY <1>5, <1>10
  <2> QED
    BY <1>1, <1>2, <1>5, <1>12, <2>1, <2>2 DEF EdgesMeant, PermMeant
<1>15. OpenReached'
  <2> SUFFICES ASSUME NEW c \in first .. last
               PROVE  \E a \in hubs .. first - 1 : Arc(cot'[a], cot'[c])
    BY <1>1, <1>5, <1>12 DEF OpenReached
  <2>1. \A a \in hubs .. first - 1 : cot'[a] = cot[a]
    BY <1>5, <1>10
  <2>2. CASE c = last
    <3>1. first - 1 \in hubs .. first - 1
      BY <1>5
    <3> QED
      BY <2>1, <2>2, <3>1, <1>5, <1>8
  <2>3. CASE c # last
    <3>1. c \in first .. last - 1 /\ c \in 0 .. last - 1
      BY <2>3, <1>5
    <3>2. PICK a \in hubs .. first - 1 : Arc(cot[a], cot[c])
      BY <3>1, <1>2 DEF Traversed, OpenReached
    <3> QED
      BY <2>1, <3>1, <3>2, <1>10
  <2> QED
    BY <2>2, <2>3
(* No vertex explored before the last one has an edge to k.                *)
<1>16. \A a \in hubs .. first - 2 : ~Arc(cot[a], k)
  <2>1. \A a \in hubs .. first - 2 : a \in hubs .. first - 1 /\ a # first - 1
    BY <1>5
  <2> QED
    BY <2>1, <1>2, <1>3 DEF Traversed, ExploredClosed
<1>17. ExploredClosed'
  <2> SUFFICES ASSUME NEW a \in hubs .. first - 1, NEW u \in Vertex, Arc(cot'[a], u),
                      a = first - 1 => \A e \in DOMAIN Tail(edges) : Tail(edges)[e] # u
               PROVE  pos'[u] = -1
    BY <1>1, <1>12 DEF ExploredClosed
  <2>1. CASE u = k
    BY <2>1, <1>9
  <2>2. CASE u # k
    <3>1. Arc(cot[a], u)
      BY <1>5, <1>10
    <3>2. pos[u] = -1
      BY <2>2, <3>1, <1>2, <1>3 DEF Traversed, ExploredClosed
    <3> QED
      BY <3>2, <1>11
  <2> QED
    BY <2>1, <2>2
<1>18. BreadthFirst'
  <2> SUFFICES ASSUME NEW a \in hubs .. last, NEW b \in hubs .. last, NEW c \in hubs .. last,
                      a < b, b < c, Arc(cot'[a], cot'[c]), ~Arc(cot'[a], cot'[b])
               PROVE  \E d \in hubs .. a - 1 : Arc(cot'[d], cot'[b])
    BY <1>1, <1>5, <1>12 DEF BreadthFirst
  <2>1. /\ a \in 0 .. last - 1 /\ b \in 0 .. last - 1
        /\ a \in hubs .. last - 1 /\ b \in hubs .. last - 1
    BY <1>5
  <2>2. ~Arc(cot[a], cot[b]) /\ cot'[a] = cot[a] /\ cot'[b] = cot[b]
    BY <2>1, <1>10
  <2>3. \E d \in hubs .. a - 1 : Arc(cot[d], cot[b])
    <3>1. CASE c = last
      <4>1. Arc(cot[a], k)
        BY <2>2, <3>1, <1>8
      <4>2. a >= first - 1
        BY <4>1, <1>5, <1>16
      <4>3. b \in first .. last - 1
        BY <2>1, <4>2, <1>5
      <4>4. PICK d \in hubs .. first - 1 : Arc(cot[d], cot[b])
        BY <4>3, <1>2 DEF Traversed, OpenReached
      <4>5. d # a
        BY <4>4, <2>2
      <4>6. d \in hubs .. a - 1
        BY <4>2, <4>5, <1>5
      <4> QED
        BY <4>4, <4>6
    <3>2. CASE c # last
      <4>1. c \in hubs .. last - 1 /\ c \in 0 .. last - 1
        BY <3>2, <1>5
      <4>2. Arc(cot[a], cot[c])
        BY <2>2, <4>1, <1>10
      <4> QED
        BY <2>1, <2>2, <4>1, <4>2, <1>2 DEF Traversed, BreadthFirst
    <3> QED
      BY <3>1, <3>2
  <2>4. \A d \in hubs .. a - 1 : cot'[d] = cot[d]
    BY <2>1, <1>5, <1>10
  <2> QED
    BY <2>2, <2>3, <2>4
<1>19. BTypes'
  BY <1>1, <1>2, <1>3, <1>5, <1>7, <1>9 DEF BTypes
<1> QED
  BY <1>1, <1>2, <1>13, <1>14, <1>15, <1>17, <1>18, <1>19 DEF OrderInv, Traversed

LEMMA OrderReturn ==
  ASSUME OrderInv, ReturnOrder
  PROVE  OrderInv'
<1>1. /\ pc = "loop" /\ pc' = "done" /\ edges = <<>> /\ v \in Vertex
      /\ r_perm' = [u \in Vertex |-> CHOOSE p \in Vertex : cot[p] = u]
      /\ UNCHANGED <<adj, alg, edges, pos, v, cot, hubs, first, last>>
  BY DEF ReturnOrder, AtLoop
<1>2. BTypes /\ Traversed
  BY <1>1 DEF OrderInv
<1>3. \A x, y : Arc(x, y)' <=> Arc(x, y)
  BY <1>1 DEF Arc, Entries
<1>4. PermMeant'
  <2>1. /\ \A p \in Vertex : cot[p] \in Vertex
        /\ \A p, q \in Vertex : cot[p] = cot[q] => p = q
    BY <1>2 DEF Traversed, CotPermutes, CotSound
  <2>2. \A p \in Vertex : (CHOOSE q \in Vertex : cot[q] = cot[p]) = p
    BY <2>1
  <2>3. \A p \in Vertex : r_perm'[cot[p]] = p
    BY <1>1, <2>1, <2>2
  <2> QED
    BY <1>1, <2>3 DEF PermMeant
<1>5. CotPermutes' /\ EdgesMeant'
  BY <1>1, <1>2 DEF Traversed, CotPermutes, CotSound, EdgesMeant
<1>6. OpenReached' /\ ExploredClosed' /\ BreadthFirst'
  <2>1. OpenReached' /\ BreadthFirst'
    BY <1>1, <1>2, <1>3 DEF Traversed, OpenReached, BreadthFirst
  <2>2. ExploredClosed'
    BY <1>1, <1>2, <1>3 DEF Traversed, ExploredClosed
  <2> QED
    BY <2>1, <2>2
<1> QED
  BY <1>1, <1>2, <1>4, <1>5, <1>6 DEF OrderInv, Traversed, BTypes

LEMMA OrderNextInv == OrderInv /\ [OrderNext]_<<avars, bvars>> => OrderInv'
<1> SUFFICES ASSUME OrderInv, [OrderNext]_<<avars, bvars>>
             PROVE  OrderInv'
  OBVIOUS
<1>1. CASE UNCHANGED <<avars, bvars>>
  <2>1. /\ UNCHANGED <<adj, alg, pc, v, edges, pos>>
        /\ UNCHANGED <<cot, hubs, first, last, r_perm>>
    BY <1>1 DEF avars, bvars
  <2>2. \A x, y : Arc(x, y)' <=> Arc(x, y)
    BY <2>1 DEF Arc, Entries
  <2>3. Traversed => CotPermutes' /\ EdgesMeant' /\ PermMeant'
    BY <2>1 DEF Traversed, CotPermutes, CotSound, EdgesMeant, Arc, Entries, PermMeant
  <2>4. Traversed => OpenReached' /\ BreadthFirst'
    BY <2>1, <2>2 DEF Traversed, OpenReached, BreadthFirst
  <2>5. Traversed => ExploredClosed'
    BY <2>1, <2>2 DEF Traversed, ExploredClosed
  <2>6. Traversed => Traversed'
    BY <2>3, <2>4, <2>5 DEF Traversed
  <2> QED
    BY <2>1, <2>6 DEF OrderInv, BTypes
<1>2. CASE EnterGraph \/ EnterMatrix \/ EnterAnywhere \/ RefuseBoth
  BY <1>2, EnterGraphStep, EnterMatrixStep, EnterOtherStep
<1>3. CASE \E d \in Vertex : EnterBelow(d)
  BY <1>3, EnterBelowStep
<1>4. CASE Traverse
  BY <1>4, OrderExplore, OrderSeeKnown, OpenStep, OrderReturn DEF Traverse
<1> QED
  BY <1>1, <1>2, <1>3, <1>4
  DEF OrderNext, gk_graph_ComputeBFSOrdering, gk_csr_ComputeBFSOrderingSymmetric

LEMMA OrderInvariance == OrderSpec => []OrderInv
<1> QED
  BY OrderInitInv, OrderNextInv, PTL DEF OrderSpec

(* gk_graph_ComputeBFSOrdering and gk_csr_ComputeBFSOrderingSymmetric      *)
(* return a breadth-first order and its inverse, for every graph on any    *)
(* number of vertices, every first vertex and every maxdegree.             *)
THEOREM OrderTheorem == OrderSpec => []BreadthFirstOrder
<1>1. OrderInv => BreadthFirstOrder
  BY DEF OrderInv, Traversed, CotPermutes, PermMeant, BreadthFirstOrder
<1> QED
  BY <1>1, OrderInvariance, PTL
-----------------------------------------------------------------------------
(* Sets of numbers: a set that holds 0 and, with each number, the next one,*)
(* and the least member of a set.                                          *)
LEMMA LeastExists ==
  ASSUME NEW T \in SUBSET Nat, T # {}
  PROVE  \E m \in T : \A k \in T : m <= k
<1>1. PICK k \in T : \A l \in T : <<l, k>> \notin OpToRel(<, Nat)
  BY NatLessThanWellFounded, WFMin
<1>2. \A l \in T : ~ (l < k)
  BY <1>1 DEF OpToRel
<1> QED BY <1>2

LEMMA Inductive ==
  ASSUME NEW S, 0 \in S, \A n \in Nat : n \in S => n + 1 \in S
  PROVE  Nat \subseteq S
<1> DEFINE T == {n \in Nat : n \notin S}
<1> SUFFICES ASSUME NEW n \in T PROVE FALSE
  OBVIOUS
<1>1. PICK m \in T : \A k \in T : m <= k
  BY LeastExists
<1>2. m \in Nat /\ m # 0 /\ m \notin S
  OBVIOUS
<1>3. m - 1 \in Nat /\ m - 1 \notin T
  BY <1>1, <1>2
<1>4. m - 1 + 1 \in S
  BY <1>3
<1> QED BY <1>2, <1>4

(* Lengths is a recursive function. The first n lengths exist, they are    *)
(* unique, and so the function of all lengths exists.                      *)
Ladder(f, a, wgt, s, n) ==
  /\ f[0] = OneVertex(s)
  /\ \A i \in 1 .. n : f[i] = Further(a, wgt, f[i - 1])

LEMMA LadderExists ==
  ASSUME NEW a, NEW wgt, NEW s
  PROVE  \A n \in Nat : \E f : Ladder(f, a, wgt, s, n)
<1> DEFINE S == {n \in Nat : \E f : Ladder(f, a, wgt, s, n)}
<1>1. 0 \in S
  <2> DEFINE f == [i \in 0 .. 0 |-> OneVertex(s)]
  <2>1. f[0] = OneVertex(s)
    OBVIOUS
  <2> HIDE DEF f
  <2>2. Ladder(f, a, wgt, s, 0)
    BY <2>1 DEF Ladder
  <2> QED BY <2>2
<1>2. ASSUME NEW n \in Nat, n \in S PROVE n + 1 \in S
  <2>1. PICK f : Ladder(f, a, wgt, s, n)
    BY <1>2
  <2> DEFINE g == [i \in 0 .. n + 1 |-> IF i = n + 1 THEN Further(a, wgt, f[n]) ELSE f[i]]
  <2>2. g[0] = f[0] /\ \A i \in 0 .. n : g[i] = f[i]
    OBVIOUS
  <2>3. g[n + 1] = Further(a, wgt, f[n])
    OBVIOUS
  <2> HIDE DEF g
  <2>4. ASSUME NEW i \in 1 .. n + 1 PROVE g[i] = Further(a, wgt, g[i - 1])
    <3>1. CASE i = n + 1
      BY <2>2, <2>3, <3>1
    <3>2. CASE i # n + 1
      <4>1. i \in 1 .. n /\ i \in 0 .. n /\ i - 1 \in 0 .. n
        BY <3>2
      <4> QED BY <2>1, <2>2, <4>1 DEF Ladder
    <3> QED BY <3>1, <3>2
  <2>5. Ladder(g, a, wgt, s, n + 1)
    BY <2>1, <2>2, <2>4 DEF Ladder
  <2> QED BY <2>5
<1> HIDE DEF S
<1>3. Nat \subseteq S
  BY <1>1, <1>2, Inductive
<1> QED BY <1>3 DEF S

LEMMA LaddersAgree ==
  ASSUME NEW a, NEW wgt, NEW s, NEW n \in Nat, NEW m \in Nat,
         NEW f, Ladder(f, a, wgt, s, n), NEW g, Ladder(g, a, wgt, s, m),
         NEW k \in Nat, k <= n, k <= m
  PROVE  f[k] = g[k]
<1> DEFINE S == {i \in Nat : i <= k => f[i] = g[i]}
<1>1. 0 \in S
  BY DEF Ladder
<1>2. ASSUME NEW i \in Nat, i \in S PROVE i + 1 \in S
  <2> SUFFICES ASSUME i + 1 <= k PROVE f[i + 1] = g[i + 1]
    OBVIOUS
  <2>1. i + 1 \in 1 .. n /\ i + 1 \in 1 .. m /\ i + 1 - 1 = i
    OBVIOUS
  <2>2. f[i + 1] = Further(a, wgt, f[i]) /\ g[i + 1] = Further(a, wgt, g[i])
    BY <2>1 DEF Ladder
  <2> QED BY <1>2, <2>2
<1> HIDE DEF S
<1>3. Nat \subseteq S
  BY <1>1, <1>2, Inductive
<1> QED BY <1>3 DEF S

LEMMA LengthsStep ==
  ASSUME NEW a, NEW wgt, NEW s
  PROVE  /\ Lengths(a, wgt, s, 0) = OneVertex(s)
         /\ \A n \in Nat : Lengths(a, wgt, s, n + 1) = Further(a, wgt, Lengths(a, wgt, s, n))
<1> DEFINE IsAll(D) == D = [k \in Nat |-> IF k = 0 THEN OneVertex(s) ELSE Further(a, wgt, D[k - 1])]
           upto(n) == CHOOSE f : Ladder(f, a, wgt, s, n)
           E == [n \in Nat |-> upto(n)[n]]
           D == CHOOSE D : IsAll(D)
<1>1. \A n \in Nat : Ladder(upto(n), a, wgt, s, n)
  BY LadderExists
<1> HIDE DEF upto
<1>2. \A n \in Nat : E[n] = upto(n)[n]
  OBVIOUS
<1>3. ASSUME NEW n \in Nat
      PROVE  E[n] = IF n = 0 THEN OneVertex(s) ELSE Further(a, wgt, E[n - 1])
  <2>1. CASE n = 0
    BY <1>1, <1>2, <2>1 DEF Ladder
  <2>2. CASE n # 0
    <3>1. n - 1 \in Nat /\ n \in 1 .. n /\ n - 1 <= n
      BY <2>2
    <3>2. upto(n)[n] = Further(a, wgt, upto(n)[n - 1])
      BY <1>1, <3>1 DEF Ladder
    <3>3. upto(n)[n - 1] = upto(n - 1)[n - 1]
      BY <1>1, <3>1, LaddersAgree
    <3> QED BY <1>2, <2>2, <3>1, <3>2, <3>3
  <2> QED BY <2>1, <2>2
<1>4. IsAll(E)
  <2>1. E = [n \in Nat |-> E[n]]
    OBVIOUS
  <2> HIDE DEF E
  <2>2. E = [n \in Nat |-> IF n = 0 THEN OneVertex(s) ELSE Further(a, wgt, E[n - 1])]
    BY <1>3, <2>1
  <2> QED BY <2>2
<1>5. IsAll(D)
  <2>1. \E X : IsAll(X)
    BY <1>4
  <2> HIDE DEF IsAll
  <2> QED BY <2>1
<1>6. \A n : Lengths(a, wgt, s, n) = D[n]
  BY DEF Lengths
<1> HIDE DEF D
<1>7. \A n \in Nat : D[n] = IF n = 0 THEN OneVertex(s) ELSE Further(a, wgt, D[n - 1])
  BY <1>5
<1>8. D[0] = OneVertex(s) /\ \A n \in Nat : D[n + 1] = Further(a, wgt, D[n])
  <2>1. \A n \in Nat : n + 1 \in Nat /\ n + 1 # 0 /\ n + 1 - 1 = n
    OBVIOUS
  <2> QED BY <1>7, <2>1
<1> QED BY <1>6, <1>8
-----------------------------------------------------------------------------
(* The laws of Lengths: at first only s is reached; a length never grows   *)
(* with the edges allowed, is at most what an edge offers, and is offered  *)
(* by something.                                                           *)
Weighted(a, wgt) ==
  /\ a \in [Vertex -> Seq(Vertex)]
  /\ \A u \in Vertex : \A j \in DOMAIN a[u] : wgt[u][j] \in Nat

LEMMA FurtherLaws ==
  ASSUME NEW a, NEW wgt, Weighted(a, wgt), NEW d \in [Vertex -> Nat \cup {-1}]
  PROVE  /\ Further(a, wgt, d) \in [Vertex -> Nat \cup {-1}]
         /\ \A u \in Vertex : d[u] # -1 => Further(a, wgt, d)[u] # -1 /\ Further(a, wgt, d)[u] <= d[u]
         /\ \A x \in Vertex : \A j \in DOMAIN a[x] : d[x] # -1 =>
              /\ Further(a, wgt, d)[a[x][j]] # -1
              /\ Further(a, wgt, d)[a[x][j]] <= d[x] + wgt[x][j]
         /\ \A u \in Vertex : Further(a, wgt, d)[u] # -1 =>
              \/ d[u] # -1 /\ Further(a, wgt, d)[u] = d[u]
              \/ \E x \in Vertex : \E j \in DOMAIN a[x] :
                   a[x][j] = u /\ d[x] # -1 /\ Further(a, wgt, d)[u] = d[x] + wgt[x][j]
<1> DEFINE c(u) == Offered(a, wgt, d, u) \ {None}
           h == Further(a, wgt, d)
<1>1. /\ a \in [Vertex -> Seq(Vertex)]
      /\ \A u \in Vertex : \A j \in DOMAIN a[u] : wgt[u][j] \in Nat /\ a[u][j] \in Vertex
  BY DEF Weighted
<1>2. ASSUME NEW u \in Vertex, NEW y \in c(u)
      PROVE  /\ y \in Nat
             /\ \/ d[u] # -1 /\ y = d[u]
                \/ \E x \in Vertex : \E j \in DOMAIN a[x] :
                     a[x][j] = u /\ d[x] # -1 /\ y = d[x] + wgt[x][j]
  <2>1. y # -1
    BY DEF None
  <2>2. CASE y = d[u]
    BY <2>1, <2>2
  <2>3. CASE \E e \in Leading(a, u) : y = Along(wgt, d, e)
    <3>1. PICK x \in Vertex : \E e \in {x} \X {j \in DOMAIN a[x] : a[x][j] = u} : y = Along(wgt, d, e)
      BY <2>3 DEF Leading
    <3>2. PICK j \in DOMAIN a[x] : a[x][j] = u /\ y = Along(wgt, d, <<x, j>>)
      BY <3>1
    <3>3. y = IF d[x] = None THEN None ELSE d[x] + wgt[x][j]
      BY <3>2 DEF Along
    <3>4. d[x] # -1 /\ y = d[x] + wgt[x][j] /\ d[x] \in Nat /\ wgt[x][j] \in Nat
      BY <1>1, <2>1, <3>3 DEF None
    <3> QED BY <3>2, <3>4
  <2> QED BY <2>2, <2>3 DEF Offered
<1>3. \A u \in Vertex : d[u] # -1 => d[u] \in c(u)
  BY DEF Offered, None
<1>4. ASSUME NEW x \in Vertex, NEW j \in DOMAIN a[x], d[x] # -1
      PROVE  d[x] + wgt[x][j] \in c(a[x][j])
  <2>1. <<x, j>> \in Leading(a, a[x][j])
    BY DEF Leading
  <2>2. d[x] \in Nat /\ wgt[x][j] \in Nat /\ d[x] + wgt[x][j] # -1
    BY <1>1, <1>4
  <2>3. Along(wgt, d, <<x, j>>) = d[x] + wgt[x][j]
    BY <1>4 DEF Along, None
  <2> QED BY <2>1, <2>2, <2>3 DEF Offered, None
<1> DEFINE least(u) == IF c(u) = {} THEN None ELSE CHOOSE m \in c(u) : \A x \in c(u) : m <= x
<1>5. \A u \in Vertex : h[u] = least(u)
  <2>1. h = [u \in Vertex |-> least(u)]
    BY DEF Further
  <2> HIDE DEF h, least
  <2> QED BY <2>1
<1>6. ASSUME NEW u \in Vertex
      PROVE  /\ c(u) = {} => h[u] = -1
             /\ c(u) # {} => h[u] \in c(u) /\ \A x \in c(u) : h[u] <= x
  <2>1. c(u) = {} => h[u] = -1
    BY <1>5 DEF None
  <2>2. ASSUME c(u) # {} PROVE h[u] \in c(u) /\ \A x \in c(u) : h[u] <= x
    <3>1. c(u) \in SUBSET Nat
      BY <1>2
    <3> HIDE DEF c
    <3>2. \E m \in c(u) : \A x \in c(u) : m <= x
      BY <2>2, <3>1, LeastExists
    <3>3. h[u] = CHOOSE m \in c(u) : \A x \in c(u) : m <= x
      BY <1>5, <2>2
    <3> HIDE DEF h
    <3> QED BY <3>2, <3>3
  <2> QED BY <2>1, <2>2
<1>7. h = [u \in Vertex |-> h[u]]
  BY DEF Further
<1> HIDE DEF c, h, least
<1>8. \A u \in Vertex : h[u] \in Nat \cup {-1}
  BY <1>2, <1>6
<1>9. h \in [Vertex -> Nat \cup {-1}]
  BY <1>7, <1>8
<1>10. \A u \in Vertex : d[u] # -1 => h[u] # -1 /\ h[u] <= d[u]
  <2>1. ASSUME NEW u \in Vertex, d[u] # -1 PROVE h[u] # -1 /\ h[u] <= d[u]
    <3>1. d[u] \in c(u)
      BY <1>3, <2>1
    <3>2. h[u] \in c(u) /\ h[u] <= d[u]
      BY <1>6, <3>1
    <3>3. h[u] \in Nat
      BY <1>2, <3>2
    <3> QED BY <3>2, <3>3
  <2> QED BY <2>1
<1>11. ASSUME NEW x \in Vertex, NEW j \in DOMAIN a[x], d[x] # -1
       PROVE  h[a[x][j]] # -1 /\ h[a[x][j]] <= d[x] + wgt[x][j]
  <2>1. a[x][j] \in Vertex /\ d[x] + wgt[x][j] \in c(a[x][j])
    BY <1>1, <1>4, <1>11
  <2>2. h[a[x][j]] \in c(a[x][j]) /\ h[a[x][j]] <= d[x] + wgt[x][j]
    BY <1>6, <2>1
  <2>3. h[a[x][j]] \in Nat
    BY <1>2, <2>1, <2>2
  <2> QED BY <2>2, <2>3
<1>12. ASSUME NEW u \in Vertex, h[u] # -1
       PROVE  \/ d[u] # -1 /\ h[u] = d[u]
              \/ \E x \in Vertex : \E j \in DOMAIN a[x] :
                   a[x][j] = u /\ d[x] # -1 /\ h[u] = d[x] + wgt[x][j]
  BY <1>2, <1>6, <1>12
<1> QED BY <1>9, <1>10, <1>11, <1>12 DEF h

Stepwise(a, wgt, s, L) ==
  /\ L[0][s] = 0 /\ \A u \in Vertex : u # s => L[0][u] = -1
  /\ \A n \in Nat :
       /\ L[n] \in [Vertex -> Nat \cup {-1}]
       /\ \A u \in Vertex : L[n][u] # -1 => L[n + 1][u] # -1 /\ L[n + 1][u] <= L[n][u]
       /\ \A x \in Vertex : \A j \in DOMAIN a[x] : L[n][x] # -1 =>
            L[n + 1][a[x][j]] # -1 /\ L[n + 1][a[x][j]] <= L[n][x] + wgt[x][j]
       /\ \A u \in Vertex : L[n + 1][u] # -1 =>
            \/ L[n][u] # -1 /\ L[n + 1][u] = L[n][u]
            \/ \E x \in Vertex : \E j \in DOMAIN a[x] :
                 a[x][j] = u /\ L[n][x] # -1 /\ L[n + 1][u] = L[n][x] + wgt[x][j]

LEMMA LengthsLaws ==
  ASSUME NEW a, NEW wgt, Weighted(a, wgt), NEW s \in Vertex
  PROVE  Stepwise(a, wgt, s, [n \in Nat |-> Lengths(a, wgt, s, n)])
<1> DEFINE L == [n \in Nat |-> Lengths(a, wgt, s, n)]
<1>1. L[0] = OneVertex(s) /\ \A n \in Nat : L[n + 1] = Further(a, wgt, L[n])
  <2>1. \A n \in Nat : L[n] = Lengths(a, wgt, s, n) /\ L[n + 1] = Lengths(a, wgt, s, n + 1)
    OBVIOUS
  <2> QED BY <2>1, LengthsStep
<1>2. L[0][s] = 0 /\ (\A u \in Vertex : u # s => L[0][u] = -1) /\ L[0] \in [Vertex -> Nat \cup {-1}]
  BY <1>1 DEF OneVertex, All, None
<1> DEFINE S == {n \in Nat : L[n] \in [Vertex -> Nat \cup {-1}]}
<1>3. 0 \in S
  BY <1>2
<1>4. \A n \in Nat : n \in S => n + 1 \in S
  BY <1>1, FurtherLaws
<1> HIDE DEF S
<1>5. Nat \subseteq S
  BY <1>3, <1>4, Inductive
<1>6. \A n \in Nat : L[n] \in [Vertex -> Nat \cup {-1}]
  BY <1>5 DEF S
<1>7. ASSUME NEW n \in Nat
      PROVE  /\ \A u \in Vertex : L[n][u] # -1 => L[n + 1][u] # -1 /\ L[n + 1][u] <= L[n][u]
             /\ \A x \in Vertex : \A j \in DOMAIN a[x] : L[n][x] # -1 =>
                  L[n + 1][a[x][j]] # -1 /\ L[n + 1][a[x][j]] <= L[n][x] + wgt[x][j]
             /\ \A u \in Vertex : L[n + 1][u] # -1 =>
                  \/ L[n][u] # -1 /\ L[n + 1][u] = L[n][u]
                  \/ \E x \in Vertex : \E j \in DOMAIN a[x] :
                       a[x][j] = u /\ L[n][x] # -1 /\ L[n + 1][u] = L[n][x] + wgt[x][j]
  <2> DEFINE d == L[n]
  <2>1. d \in [Vertex -> Nat \cup {-1}] /\ L[n + 1] = Further(a, wgt, d)
    BY <1>1, <1>6
  <2> HIDE DEF d
  <2>2. /\ \A u \in Vertex : d[u] # -1 => L[n + 1][u] # -1 /\ L[n + 1][u] <= d[u]
        /\ \A x \in Vertex : \A j \in DOMAIN a[x] : d[x] # -1 =>
             L[n + 1][a[x][j]] # -1 /\ L[n + 1][a[x][j]] <= d[x] + wgt[x][j]
        /\ \A u \in Vertex : L[n + 1][u] # -1 =>
             \/ d[u] # -1 /\ L[n + 1][u] = d[u]
             \/ \E x \in Vertex : \E j \in DOMAIN a[x] :
                  a[x][j] = u /\ d[x] # -1 /\ L[n + 1][u] = d[x] + wgt[x][j]
    BY <2>1, FurtherLaws
  <2> QED BY <2>2 DEF d
<1> HIDE DEF L
<1>8. Stepwise(a, wgt, s, L)
  BY <1>2, <1>6, <1>7 DEF Stepwise
<1> QED BY <1>8 DEF L

(* The search for shortest paths, at any point of its loop: which vertices *)
(* are queued, with their lengths as keys (PathsTypes), that the entries   *)
(* seen of a final vertex offer no shorter length (Relaxed), that a length *)
(* is that of a path through as many edges as there are final vertices     *)
(* (Reached), and that no path to a final vertex is shorter (Nearest).     *)
Final == {u \in Vertex : inqueue[u] = 2}
ToRoot == [n \in Nat |-> Lengths(adj, adjwgt, root, n)]

PathsTypes ==
  /\ Weighted(adj, adjwgt) /\ root \in Vertex /\ v \in Vertex /\ edges \in Seq(Vertex)
  /\ pc \in {"call", "loop", "done"}
  /\ sps \in [Vertex -> Nat \cup {-1}] /\ inqueue \in [Vertex -> 0 .. 2]
  /\ DOMAIN queue = {u \in Vertex : inqueue[u] = 1}
  /\ \A u \in DOMAIN queue : queue[u] = -sps[u]
  /\ \A u \in Vertex : inqueue[u] = 0 <=> sps[u] = -1
  /\ pc = "call" => edges = <<>> /\ v = root /\ \A u \in Vertex : inqueue[u] = 0
  /\ pc # "call" => sps[root] = 0
  /\ pc = "done" => edges = <<>> /\ DOMAIN queue = {}

(* What v has still to see is the end of its list.                         *)
ListEnd ==
  edges # <<>> =>
    /\ inqueue[v] = 2 /\ Len(edges) <= Len(adj[v])
    /\ \A i \in 1 .. Len(edges) : edges[i] = adj[v][Len(adj[v]) - Len(edges) + i]

Offers(x, j, u) == inqueue[u] = 2 \/ (inqueue[u] = 1 /\ sps[u] <= sps[x] + adjwgt[x][j])
Relaxed ==
  \A x \in Final : \A j \in DOMAIN adj[x] :
    (x = v /\ j > Len(adj[v]) - Len(edges)) \/ Offers(x, j, adj[x][j])

AtMost(n, u) == ToRoot[n][u] # -1 /\ ToRoot[n][u] <= sps[u]
PathsReached ==
  \A n \in Nat : \A u \in Vertex :
    /\ inqueue[u] = 1 /\ Cardinality(Final) <= n => AtMost(n, u)
    /\ inqueue[u] = 2 /\ Cardinality(Final) <= n + 1 => AtMost(n, u)

Nearest ==
  \A n \in Nat : \A u \in Final : ToRoot[n][u] # -1 => sps[u] <= ToRoot[n][u]

PathsInv == PathsTypes /\ ListEnd /\ Relaxed /\ PathsReached /\ Nearest

(* Laws of the lengths in the graph of the call.                           *)
LEMMA RootLaws ==
  ASSUME Weighted(adj, adjwgt), root \in Vertex
  PROVE  Stepwise(adj, adjwgt, root, ToRoot)
BY LengthsLaws DEF ToRoot

(* The root is reached by a path of any number of edges.                   *)
LEMMA RootReached ==
  ASSUME Weighted(adj, adjwgt), root \in Vertex
  PROVE  \A n \in Nat : ToRoot[n][root] = 0
<1> DEFINE S == {n \in Nat : ToRoot[n][root] = 0}
<1>1. 0 \in S
  BY RootLaws DEF Stepwise
<1>2. ASSUME NEW n \in Nat, n \in S PROVE n + 1 \in S
  <2>1. ToRoot[n + 1][root] # -1 /\ ToRoot[n + 1][root] <= 0
    BY <1>2, RootLaws DEF Stepwise
  <2>2. ToRoot[n + 1] \in [Vertex -> Nat \cup {-1}]
    BY RootLaws DEF Stepwise
  <2> QED BY <2>1, <2>2
<1> HIDE DEF S
<1>3. Nat \subseteq S
  BY <1>1, <1>2, Inductive
<1> QED BY <1>3 DEF S

(* When the queue is empty every path leads to final vertices.             *)
LEMMA NoOtherReached ==
  ASSUME PathsInv, edges = <<>>, DOMAIN queue = {}, pc # "call"
  PROVE  \A n \in Nat : \A u \in Vertex : u \notin Final => ToRoot[n][u] = -1
<1>1. /\ Weighted(adj, adjwgt) /\ root \in Vertex /\ adj \in [Vertex -> Seq(Vertex)]
      /\ \A x \in Vertex : \A j \in DOMAIN adj[x] : adj[x][j] \in Vertex
  BY DEF PathsInv, PathsTypes, Weighted
<1>2. root \in Final
  <2>1. inqueue[root] # 0 /\ inqueue[root] # 1 /\ inqueue[root] \in 0 .. 2
    BY <1>1 DEF PathsInv, PathsTypes
  <2> QED BY <1>1, <2>1 DEF Final
<1>3. ASSUME NEW x \in Final, NEW j \in DOMAIN adj[x] PROVE adj[x][j] \in Final
  <2>1. j \in 1 .. Len(adj[x]) /\ Len(adj[x]) \in Nat /\ Len(edges) = 0 /\ x \in Vertex
    BY <1>1, EmptySeq, LenProperties DEF Final
  <2>2. ~(x = v /\ j > Len(adj[v]) - Len(edges))
    BY <2>1
  <2>3. Offers(x, j, adj[x][j])
    BY <2>2 DEF PathsInv, Relaxed
  <2>4. inqueue[adj[x][j]] # 1 /\ adj[x][j] \in Vertex
    BY <1>1, <2>1 DEF PathsInv, PathsTypes
  <2> QED BY <2>3, <2>4 DEF Offers, Final
<1> DEFINE S == {n \in Nat : \A u \in Vertex : u \notin Final => ToRoot[n][u] = -1}
<1>4. 0 \in S
  BY <1>1, <1>2, RootLaws DEF Stepwise
<1>5. ASSUME NEW n \in Nat, n \in S PROVE n + 1 \in S
  <2> SUFFICES ASSUME NEW u \in Vertex, u \notin Final, ToRoot[n + 1][u] # -1 PROVE FALSE
    OBVIOUS
  <2>1. ToRoot[n][u] = -1
    BY <1>5
  <2>2. PICK x \in Vertex : \E j \in DOMAIN adj[x] : adj[x][j] = u /\ ToRoot[n][x] # -1
    BY <1>1, <2>1, RootLaws DEF Stepwise
  <2>3. x \in Final
    BY <1>5, <2>2
  <2> QED BY <1>3, <2>2, <2>3
<1> HIDE DEF S
<1>6. Nat \subseteq S
  BY <1>4, <1>5, Inductive
<1> QED BY <1>6 DEF S

(* No path to a vertex that is not final is shorter than the least length  *)
(* in the queue: one must leave the final vertices first.                  *)
LEMMA NoneNearer ==
  ASSUME PathsInv, edges = <<>>, pc # "call",
         NEW w \in DOMAIN queue, \A x \in DOMAIN queue : queue[x] <= queue[w]
  PROVE  \A n \in Nat : \A u \in Vertex : u \notin Final /\ ToRoot[n][u] # -1 => sps[w] <= ToRoot[n][u]
<1>1. /\ Weighted(adj, adjwgt) /\ root \in Vertex /\ adj \in [Vertex -> Seq(Vertex)]
      /\ sps \in [Vertex -> Nat \cup {-1}] /\ w \in Vertex /\ inqueue[w] = 1
      /\ \A x \in Vertex : \A j \in DOMAIN adj[x] : adj[x][j] \in Vertex /\ adjwgt[x][j] \in Nat
      /\ \A u \in DOMAIN queue : queue[u] = -sps[u]
  BY DEF PathsInv, PathsTypes, Weighted
<1>2. \A u \in Vertex : inqueue[u] = 1 => sps[u] \in Nat /\ sps[w] <= sps[u]
  <2>1. ASSUME NEW u \in Vertex, inqueue[u] = 1 PROVE sps[u] \in Nat /\ sps[w] <= sps[u]
    <3>1. u \in DOMAIN queue /\ queue[u] <= queue[w] /\ sps[u] # -1 /\ sps[w] # -1
      BY <1>1, <2>1 DEF PathsInv, PathsTypes
    <3>2. -sps[u] <= -sps[w] /\ sps[u] \in Nat /\ sps[w] \in Nat
      BY <1>1, <3>1
    <3> QED BY <3>2
  <2> QED BY <2>1
<1>3. \A n \in Nat : ToRoot[n] \in [Vertex -> Nat \cup {-1}]
  BY <1>1, RootLaws DEF Stepwise
<1>4. ASSUME NEW x \in Final, NEW j \in DOMAIN adj[x], adj[x][j] \notin Final
      PROVE  inqueue[adj[x][j]] = 1 /\ sps[adj[x][j]] <= sps[x] + adjwgt[x][j]
  <2>1. j \in 1 .. Len(adj[x]) /\ Len(adj[x]) \in Nat /\ Len(edges) = 0 /\ x \in Vertex
    BY <1>1, EmptySeq, LenProperties DEF Final
  <2>2. ~(x = v /\ j > Len(adj[v]) - Len(edges))
    BY <2>1
  <2>3. Offers(x, j, adj[x][j]) /\ adj[x][j] \in Vertex
    BY <1>1, <2>1, <2>2 DEF PathsInv, Relaxed
  <2> QED BY <1>4, <2>3 DEF Offers, Final
<1> DEFINE S == {n \in Nat : \A u \in Vertex : u \notin Final /\ ToRoot[n][u] # -1 => sps[w] <= ToRoot[n][u]}
<1>5. 0 \in S
  <2> SUFFICES ASSUME NEW u \in Vertex, u \notin Final, ToRoot[0][u] # -1 PROVE sps[w] <= ToRoot[0][u]
    OBVIOUS
  <2>1. u = root /\ ToRoot[0][u] = 0
    BY <1>1, RootLaws DEF Stepwise
  <2>2. sps[u] = 0 /\ inqueue[u] = 1
    BY <1>1, <2>1 DEF PathsInv, PathsTypes, Final
  <2> QED BY <1>2, <2>1, <2>2
<1>6. ASSUME NEW n \in Nat, n \in S PROVE n + 1 \in S
  <2> SUFFICES ASSUME NEW u \in Vertex, u \notin Final, ToRoot[n + 1][u] # -1
               PROVE  sps[w] <= ToRoot[n + 1][u]
    OBVIOUS
  <2>1. CASE ToRoot[n][u] # -1 /\ ToRoot[n + 1][u] = ToRoot[n][u]
    BY <1>6, <2>1
  <2>2. ASSUME NEW x \in Vertex, NEW j \in DOMAIN adj[x], adj[x][j] = u, ToRoot[n][x] # -1,
               ToRoot[n + 1][u] = ToRoot[n][x] + adjwgt[x][j]
        PROVE  sps[w] <= ToRoot[n + 1][u]
    <3>1. ToRoot[n][x] \in Nat /\ adjwgt[x][j] \in Nat /\ sps[w] \in Nat
      BY SMTT(30), <1>1, <1>2, <1>3, <2>2
    <3>2. CASE x \in Final
      <4>1. sps[x] <= ToRoot[n][x]
        BY <2>2, <3>2 DEF PathsInv, Nearest
      <4>2. inqueue[u] = 1 /\ sps[u] <= sps[x] + adjwgt[x][j]
        BY <1>4, <2>2, <3>2
      <4>3. sps[w] <= sps[u] /\ sps[u] \in Nat
        BY <1>2, <4>2
      <4>4. sps[x] \in Nat
        <5>1. sps[x] # -1
          BY <3>2 DEF PathsInv, PathsTypes, Final
        <5> QED BY <1>1, <5>1
      <4> QED BY <2>2, <3>1, <4>1, <4>2, <4>3, <4>4
    <3>3. CASE x \notin Final
      <4>1. sps[w] <= ToRoot[n][x]
        BY <1>6, <2>2, <3>3
      <4> QED BY <2>2, <3>1, <4>1
    <3> QED BY <3>2, <3>3
  <2> QED BY <1>1, <2>1, <2>2, RootLaws DEF Stepwise
<1> HIDE DEF S
<1>7. Nat \subseteq S
  BY <1>5, <1>6, Inductive
<1> QED BY <1>7 DEF S

(* What the invariant says when the lengths are read.                      *)
LEMMA PathsRight ==
  ASSUME PathsInv, pc # "call"
  PROVE  \A u \in Vertex : inqueue[u] = 2 \/ pc = "done" => sps[u] = Lengths(adj, adjwgt, root, nvtxs)[u]
<1>1. /\ Weighted(adj, adjwgt) /\ root \in Vertex /\ nvtxs \in Nat
      /\ sps \in [Vertex -> Nat \cup {-1}] /\ inqueue \in [Vertex -> 0 .. 2]
  BY GraphsOnVertices DEF PathsInv, PathsTypes
<1> DEFINE d == ToRoot[nvtxs]
<1>2. d = Lengths(adj, adjwgt, root, nvtxs) /\ d \in [Vertex -> Nat \cup {-1}]
  BY <1>1, RootLaws DEF Stepwise, ToRoot
<1>3. Cardinality(Final) \in Nat /\ Cardinality(Final) <= nvtxs
  <2>1. IsFiniteSet(Vertex) /\ Cardinality(Vertex) = nvtxs /\ Final \in SUBSET Vertex
    BY <1>1, FS_Interval, GraphsOnVertices DEF Vertex, Final
  <2> QED BY <2>1, FS_Subset, FS_CardinalityType
<1>4. ASSUME NEW u \in Vertex, inqueue[u] = 2 PROVE sps[u] = d[u]
  <2>1. d[u] # -1 /\ d[u] <= sps[u]
    BY <1>1, <1>3, <1>4 DEF PathsInv, PathsReached, AtMost
  <2>2. sps[u] <= d[u]
    BY <1>1, <1>4, <2>1 DEF PathsInv, Nearest, Final
  <2>3. sps[u] # -1
    BY <1>4 DEF PathsInv, PathsTypes
  <2>4. sps[u] \in Nat /\ d[u] \in Nat
    BY <1>1, <1>2, <2>1, <2>3
  <2> QED BY <2>1, <2>2, <2>4
<1>5. ASSUME NEW u \in Vertex, inqueue[u] # 2, pc = "done" PROVE sps[u] = d[u]
  <2>1. edges = <<>> /\ DOMAIN queue = {}
    BY <1>5 DEF PathsInv, PathsTypes
  <2>2. d[u] = -1
    BY <1>1, <1>5, <2>1, NoOtherReached DEF Final
  <2>3. inqueue[u] = 0
    <3>1. inqueue[u] # 1 /\ inqueue[u] \in 0 .. 2
      BY <1>1, <2>1 DEF PathsInv, PathsTypes
    <3> QED BY <1>5, <3>1
  <2>4. sps[u] = -1
    BY <2>3 DEF PathsInv, PathsTypes
  <2> QED BY <2>2, <2>4
<1> QED BY <1>2, <1>4, <1>5

LEMMA PathsFacts ==
  ASSUME PathsTypes
  PROVE  /\ adj \in [Vertex -> Seq(Vertex)]
         /\ \A x \in Vertex : /\ Len(adj[x]) \in Nat /\ DOMAIN adj[x] = 1 .. Len(adj[x])
                              /\ adj[x] \in Seq(Vertex)
         /\ \A x \in Vertex : \A j \in DOMAIN adj[x] : adj[x][j] \in Vertex /\ adjwgt[x][j] \in Nat
         /\ Len(edges) \in Nat /\ (edges = <<>> <=> Len(edges) = 0)
         /\ IsFiniteSet(Final) /\ Cardinality(Final) \in Nat
<1>1. /\ adj \in [Vertex -> Seq(Vertex)] /\ edges \in Seq(Vertex)
      /\ \A x \in Vertex : \A j \in DOMAIN adj[x] : adjwgt[x][j] \in Nat
  BY DEF PathsTypes, Weighted
<1>2. /\ \A x \in Vertex : /\ Len(adj[x]) \in Nat /\ DOMAIN adj[x] = 1 .. Len(adj[x])
                           /\ adj[x] \in Seq(Vertex)
      /\ \A x \in Vertex : \A j \in DOMAIN adj[x] : adj[x][j] \in Vertex
  BY <1>1, LenProperties
<1>3. IsFiniteSet(Final) /\ Cardinality(Final) \in Nat
  <2>1. IsFiniteSet(Vertex) /\ Final \in SUBSET Vertex
    BY FS_Interval, GraphsOnVertices DEF Vertex, Final
  <2> QED BY <2>1, FS_Subset, FS_CardinalityType
<1> QED BY <1>1, <1>2, <1>3, EmptySeq, LenProperties

LEMMA SameRoot ==
  ASSUME UNCHANGED <<adj, adjwgt, root>>
  PROVE  ToRoot' = ToRoot
BY DEF ToRoot

LEMMA EnterPathsStep ==
  ASSUME PathsInv, EnterPaths
  PROVE  PathsInv'
<1> USE DEF PathsInv
<1>1. /\ Weighted(adj, adjwgt) /\ root \in Vertex /\ v = root /\ v \in Vertex
      /\ sps \in [Vertex -> Nat \cup {-1}] /\ inqueue \in [Vertex -> 0 .. 2]
      /\ DOMAIN queue = {} /\ edges = <<>> /\ edges \in Seq(Vertex)
      /\ \A u \in Vertex : inqueue[u] = 0 /\ sps[u] = -1
  BY DEF EnterPaths, PathsTypes
<1>2. /\ queue' = With(queue, v, 0) /\ inqueue' = [inqueue EXCEPT ![v] = 1]
      /\ sps' = [sps EXCEPT ![v] = 0] /\ pc' = "loop"
      /\ UNCHANGED <<adj, v, edges, adjwgt, root>>
  BY DEF EnterPaths, Put
<1>3. DOMAIN queue' = {v} /\ queue'[v] = 0
  BY <1>1, <1>2 DEF With
<1>4. /\ \A u \in Vertex : /\ inqueue'[u] = (IF u = v THEN 1 ELSE 0)
                           /\ sps'[u] = (IF u = v THEN 0 ELSE -1)
      /\ sps' \in [Vertex -> Nat \cup {-1}] /\ inqueue' \in [Vertex -> 0 .. 2]
  BY <1>1, <1>2
<1>5. PathsTypes'
  <2>1. DOMAIN queue' = {u \in Vertex : inqueue'[u] = 1}
    BY <1>1, <1>3, <1>4
  <2>2. \A u \in DOMAIN queue' : queue'[u] = -sps'[u]
    BY <1>1, <1>3, <1>4
  <2>3. \A u \in Vertex : inqueue'[u] = 0 <=> sps'[u] = -1
    BY <1>4
  <2> QED BY <1>1, <1>2, <1>4, <2>1, <2>2, <2>3 DEF PathsTypes
<1>6. Final' = {} /\ ListEnd'
  BY <1>1, <1>2, <1>4 DEF Final, ListEnd
<1>7. PathsReached'
  <2>1. ToRoot' = ToRoot /\ \A n \in Nat : ToRoot[n][root] = 0
    BY <1>1, <1>2, SameRoot, RootReached
  <2>2. \A n \in Nat : \A u \in Vertex : inqueue'[u] = 1 => u = root /\ sps'[u] = 0
    BY <1>1, <1>4
  <2>3. \A u \in Vertex : inqueue'[u] # 2
    BY <1>4
  <2> QED BY <2>1, <2>2, <2>3 DEF PathsReached, AtMost
<1> QED BY <1>5, <1>6, <1>7 DEF Relaxed, Nearest

LEMMA SettleStep ==
  ASSUME PathsInv, Settle
  PROVE  PathsInv'
<1> USE DEF PathsInv
<1>1. PICK w \in DOMAIN queue :
        /\ \A x \in DOMAIN queue : queue[x] <= queue[w]
        /\ queue' = Restrict(queue, DOMAIN queue \ {w})
        /\ inqueue' = [inqueue EXCEPT ![w] = 2] /\ v' = w /\ edges' = adj[w]
  BY DEF Settle, IsTop, Without
<1>2. pc = "loop" /\ edges = <<>> /\ UNCHANGED <<adj, pc, adjwgt, sps, root>>
  BY DEF Settle, AtLoop
<1>3. /\ w \in Vertex /\ inqueue[w] = 1 /\ inqueue \in [Vertex -> 0 .. 2] /\ sps[w] # -1
      /\ sps \in [Vertex -> Nat \cup {-1}]
  BY <1>1 DEF PathsTypes
<1>4. /\ \A u \in Vertex : inqueue'[u] = IF u = w THEN 2 ELSE inqueue[u]
      /\ inqueue' \in [Vertex -> 0 .. 2]
  BY <1>1, <1>3
<1>5. /\ DOMAIN queue' = DOMAIN queue \ {w}
      /\ \A u \in DOMAIN queue \ {w} : queue'[u] = queue[u]
  BY <1>1 DEF Restrict
<1>6. /\ adj[w] \in Seq(Vertex) /\ Len(edges) = 0
      /\ \A x \in Vertex : Len(adj[x]) \in Nat /\ DOMAIN adj[x] = 1 .. Len(adj[x])
      /\ \A x \in Vertex : \A j \in DOMAIN adj[x] : adj[x][j] \in Vertex
      /\ IsFiniteSet(Final) /\ Cardinality(Final) \in Nat
  BY <1>2, <1>3, PathsFacts
<1>7. PathsTypes'
  <2>1. DOMAIN queue' = {u \in Vertex : inqueue'[u] = 1}
    BY <1>3, <1>4, <1>5 DEF PathsTypes
  <2>2. \A u \in DOMAIN queue' : queue'[u] = -sps'[u]
    BY <1>2, <1>5 DEF PathsTypes
  <2>3. \A u \in Vertex : inqueue'[u] = 0 <=> sps'[u] = -1
    BY <1>2, <1>3, <1>4 DEF PathsTypes
  <2>4. /\ Weighted(adj', adjwgt') /\ root' \in Vertex /\ v' \in Vertex /\ edges' \in Seq(Vertex)
        /\ pc' = "loop" /\ sps' \in [Vertex -> Nat \cup {-1}] /\ sps'[root'] = 0
    BY <1>1, <1>2, <1>3, <1>6 DEF PathsTypes
  <2> QED BY <1>4, <2>1, <2>2, <2>3, <2>4 DEF PathsTypes
<1>8. ListEnd'
  <2>1. /\ inqueue'[v'] = 2 /\ Len(edges') = Len(adj'[v']) /\ edges' = adj'[v'] /\ Len(edges') \in Nat
    BY <1>1, <1>2, <1>3, <1>4, <1>6
  <2>2. \A i \in 1 .. Len(edges') : Len(adj'[v']) - Len(edges') + i = i
    BY <2>1
  <2> QED BY <2>1, <2>2 DEF ListEnd
<1>9. Final' = Final \cup {w} /\ w \notin Final
  BY <1>3, <1>4 DEF Final
<1>10. Relaxed'
  <2> SUFFICES ASSUME NEW x \in Final', NEW j \in DOMAIN adj[x]
               PROVE  (x = w /\ j > Len(adj[w]) - Len(edges')) \/ Offers(x, j, adj[x][j])'
    BY <1>1, <1>2 DEF Relaxed, Offers
  <2>1. CASE x = w
    <3>1. Len(edges') = Len(adj[w]) /\ j \in 1 .. Len(adj[w]) /\ Len(adj[w]) \in Nat
      BY <1>1, <1>3, <1>6, <2>1
    <3> QED BY <2>1, <3>1
  <2>2. CASE x # w
    <3>1. x \in Final /\ x \in Vertex
      BY <1>9, <2>2 DEF Final
    <3>2. j \in 1 .. Len(adj[x]) /\ Len(adj[x]) \in Nat /\ adj[x][j] \in Vertex
      BY <1>6, <3>1
    <3>3. ~(x = v /\ j > Len(adj[v]) - Len(edges))
      BY <1>6, <3>2
    <3>4. Offers(x, j, adj[x][j])
      BY <3>1, <3>3 DEF Relaxed
    <3> QED BY <1>2, <1>4, <3>2, <3>4 DEF Offers
  <2> QED BY <2>1, <2>2
<1>11. ToRoot' = ToRoot
  BY <1>2, SameRoot
<1>12. Cardinality(Final') = Cardinality(Final) + 1
  BY <1>6, <1>9, FS_AddElement
<1>13. PathsReached'
  <2> SUFFICES ASSUME NEW n \in Nat, NEW u \in Vertex,
                      \/ inqueue'[u] = 1 /\ Cardinality(Final) + 1 <= n
                      \/ inqueue'[u] = 2 /\ Cardinality(Final) + 1 <= n + 1
               PROVE  ToRoot[n][u] # -1 /\ ToRoot[n][u] <= sps[u]
    BY <1>2, <1>11, <1>12 DEF PathsReached, AtMost
  <2>1. Cardinality(Final) <= n /\ Cardinality(Final) <= n + 1
    BY <1>6
  <2>2. inqueue[u] = 1 \/ inqueue[u] = 2
    BY <1>3, <1>4
  <2> QED BY <2>1, <2>2 DEF PathsReached, AtMost
<1>14. Nearest'
  <2> SUFFICES ASSUME NEW n \in Nat, NEW u \in Final', ToRoot[n][u] # -1 PROVE sps[u] <= ToRoot[n][u]
    BY <1>2, <1>11 DEF Nearest
  <2>1. CASE u \in Final
    BY <2>1 DEF Nearest
  <2>2. CASE u = w
    <3>1. \A m \in Nat : \A y \in Vertex : y \notin Final /\ ToRoot[m][y] # -1 => sps[w] <= ToRoot[m][y]
      BY <1>1, <1>2, NoneNearer
    <3> QED BY <1>3, <1>9, <2>2, <3>1
  <2> QED BY <1>9, <2>1, <2>2
<1> QED BY <1>7, <1>8, <1>10, <1>13, <1>14

LEMMA RelaxStep ==
  ASSUME PathsInv, Relax
  PROVE  PathsInv'
<1> USE DEF PathsInv
<1> DEFINE u == Head(edges)
           c == Len(adj[v]) - Len(edges) + 1
           length == sps[v] + adjwgt[v][c]
<1>1. /\ edges # <<>> /\ edges' = Tail(edges) /\ UNCHANGED <<adj, pc, v, adjwgt, root>>
      /\ IF inqueue[u] = 2 \/ ~Better(u, length) THEN UNCHANGED <<sps, inqueue, queue>>
         ELSE /\ sps' = [sps EXCEPT ![u] = length]
              /\ inqueue' = [inqueue EXCEPT ![u] = 1]
              /\ queue' = With(queue, u, -length)
  BY DEF Relax, Put
<1>2. /\ inqueue[v] = 2 /\ v \in Vertex /\ root \in Vertex /\ edges \in Seq(Vertex)
      /\ Len(edges) <= Len(adj[v]) /\ pc = "loop" /\ sps[root] = 0
      /\ \A i \in 1 .. Len(edges) : edges[i] = adj[v][Len(adj[v]) - Len(edges) + i]
      /\ sps \in [Vertex -> Nat \cup {-1}] /\ inqueue \in [Vertex -> 0 .. 2] /\ sps[v] # -1
      /\ Weighted(adj, adjwgt)
  BY <1>1 DEF PathsTypes, ListEnd
<1>3. /\ Len(edges) \in Nat /\ Len(edges) # 0
      /\ \A x \in Vertex : Len(adj[x]) \in Nat /\ DOMAIN adj[x] = 1 .. Len(adj[x])
      /\ \A x \in Vertex : \A j \in DOMAIN adj[x] : adj[x][j] \in Vertex /\ adjwgt[x][j] \in Nat
      /\ IsFiniteSet(Final) /\ Cardinality(Final) \in Nat
  BY <1>1, PathsFacts
<1>4. /\ edges' \in Seq(Vertex) /\ Len(edges') = Len(edges) - 1 /\ u = edges[1]
      /\ \A i \in 1 .. Len(edges) - 1 : edges'[i] = edges[i + 1]
  BY <1>1, <1>2, HeadTailProperties
<1>5. /\ c \in 1 .. Len(adj[v]) /\ c \in DOMAIN adj[v] /\ adj[v][c] = u /\ u \in Vertex
      /\ length \in Nat /\ length = sps[v] + adjwgt[v][c] /\ Len(adj[v]) - Len(edges') = c
  <2>1. c \in 1 .. Len(adj[v]) /\ Len(adj[v]) - Len(edges') = c /\ 1 \in 1 .. Len(edges)
    BY <1>2, <1>3, <1>4
  <2>2. c \in DOMAIN adj[v] /\ adj[v][c] = u
    BY <1>2, <1>3, <1>4, <2>1
  <2>3. adj[v][c] \in Vertex /\ adjwgt[v][c] \in Nat /\ sps[v] \in Nat
    BY <1>2, <1>3, <2>2
  <2> QED BY <2>1, <2>2, <2>3
<1>6. ListEnd'
  <2> SUFFICES ASSUME edges' # <<>>
               PROVE  /\ inqueue'[v] = 2 /\ Len(edges') <= Len(adj[v])
                      /\ \A i \in 1 .. Len(edges') : edges'[i] = adj[v][Len(adj[v]) - Len(edges') + i]
    BY <1>1 DEF ListEnd
  <2>1. inqueue'[v] = 2
    BY <1>1, <1>2, <1>5
  <2>2. Len(edges') <= Len(adj[v])
    BY <1>2, <1>3, <1>4
  <2>3. ASSUME NEW i \in 1 .. Len(edges') PROVE edges'[i] = adj[v][Len(adj[v]) - Len(edges') + i]
    <3>1. /\ i + 1 \in 1 .. Len(edges) /\ i \in 1 .. Len(edges) - 1
          /\ Len(adj[v]) - Len(edges') + i = Len(adj[v]) - Len(edges) + (i + 1)
      <4>1. /\ Len(adj[v]) \in Nat /\ Len(edges) \in Nat /\ Len(edges') = Len(edges) - 1
            /\ i \in Nat /\ 1 <= i /\ i <= Len(edges) - 1
        BY <1>2, <1>3, <1>4
      <4> DEFINE A == Len(adj[v])  E == Len(edges)  F == Len(edges')
      <4>2. A \in Nat /\ E \in Nat /\ F = E - 1 /\ i \in Nat /\ 1 <= i /\ i <= E - 1
        BY <4>1
      <4> HIDE DEF A, E, F
      <4>3. i + 1 \in 1 .. E /\ i \in 1 .. E - 1 /\ A - F + i = A - E + (i + 1)
        BY <4>2
      <4> QED BY <4>3 DEF A, E, F
    <3> QED BY <1>2, <1>4, <3>1
  <2> QED BY <2>1, <2>2, <2>3
<1>7. ToRoot' = ToRoot
  BY <1>1, SameRoot
<1> HIDE DEF c, length, u
(* The entry is no improvement.                                            *)
<1>8. CASE inqueue[u] = 2 \/ ~Better(u, length)
  <2>1. UNCHANGED <<sps, inqueue, queue>>
    BY <1>1, <1>8 DEF u, c, length
  <2>2. Offers(v, c, u)
    <3>1. CASE inqueue[u] # 2
      <4>1. sps[u] # -1 /\ sps[u] <= length
        BY <1>2, <1>5, <1>8, <3>1 DEF Better
      <4>2. inqueue[u] = 1
        BY <1>2, <1>5, <3>1, <4>1 DEF PathsTypes
      <4> QED BY <1>5, <4>1, <4>2 DEF Offers
    <3> QED BY <3>1 DEF Offers
  <2>3. PathsTypes'
    <3>1. pc' = "loop"
      BY <1>1, <1>2
    <3> QED BY <1>1, <1>2, <1>4, <2>1, <3>1 DEF PathsTypes
  <2>4. Relaxed'
    <3> SUFFICES ASSUME NEW x \in Final, NEW j \in DOMAIN adj[x]
                 PROVE  (x = v /\ j > c) \/ Offers(x, j, adj[x][j])
      BY <1>1, <1>5, <2>1 DEF Relaxed, Offers, Final
    <3>1. CASE x = v /\ j = c
      BY <1>5, <2>2, <3>1
    <3>2. CASE ~(x = v /\ j = c)
      <4>1. x = v /\ j > Len(adj[v]) - Len(edges) => j > c
        <5>1. x = v /\ j > Len(adj[v]) - Len(edges) => j >= c /\ j \in Nat /\ j # c
          BY <1>2, <1>3, <3>2 DEF c
        <5> QED BY <1>5, <5>1
      <4> QED BY <4>1 DEF Relaxed
    <3> QED BY <3>1, <3>2
  <2>5. PathsReached' /\ Nearest'
    BY <1>7, <2>1 DEF PathsReached, Nearest, AtMost, Final
  <2> QED BY <1>6, <2>3, <2>4, <2>5
(* It is one: u is queued, again or for the first time.                    *)
<1>9. CASE ~(inqueue[u] = 2 \/ ~Better(u, length))
  <2>1. /\ sps' = [sps EXCEPT ![u] = length] /\ inqueue' = [inqueue EXCEPT ![u] = 1]
        /\ queue' = With(queue, u, -length) /\ inqueue[u] # 2 /\ Better(u, length)
    BY <1>1, <1>9 DEF u, c, length
  <2>2. /\ \A x \in Vertex : x # u => inqueue'[x] = inqueue[x] /\ sps'[x] = sps[x]
        /\ inqueue'[u] = 1 /\ sps'[u] = length
        /\ sps' \in [Vertex -> Nat \cup {-1}] /\ inqueue' \in [Vertex -> 0 .. 2]
    BY <1>2, <1>5, <2>1
  <2>3. DOMAIN queue' = DOMAIN queue \cup {u} /\ queue'[u] = -length
        /\ \A x \in DOMAIN queue : x # u => queue'[x] = queue[x]
    BY <2>1 DEF With
  <2>4. Final' = Final /\ u \notin Final /\ v \in Final
    BY <1>2, <2>1, <2>2 DEF Final
  <2>5. u # root
    <3>1. u = root => ~Better(u, length)
      BY <1>2, <1>5 DEF Better
    <3> QED BY <2>1, <3>1
  <2>6. PathsTypes'
    <3>1. DOMAIN queue' = {x \in Vertex : inqueue'[x] = 1}
      BY <1>5, <2>2, <2>3 DEF PathsTypes
    <3>2. \A x \in DOMAIN queue' : queue'[x] = -sps'[x]
      <4>1. DOMAIN queue \subseteq Vertex
        BY DEF PathsTypes
      <4> QED BY <2>2, <2>3, <4>1 DEF PathsTypes
    <3>3. \A x \in Vertex : inqueue'[x] = 0 <=> sps'[x] = -1
      BY <1>5, <2>2 DEF PathsTypes
    <3>4. sps'[root'] = 0 /\ pc' = "loop"
      BY <1>1, <1>2, <2>2, <2>5
    <3> QED BY <1>1, <1>2, <1>4, <2>2, <3>1, <3>2, <3>3, <3>4 DEF PathsTypes
  <2>7. ASSUME NEW x \in Final, NEW j \in DOMAIN adj[x], NEW y \in Vertex, Offers(x, j, y) PROVE Offers(x, j, y)'
    <3>1. sps'[x] = sps[x] /\ x \in Vertex /\ adjwgt' = adjwgt
      BY <1>1, <2>2, <2>4 DEF Final
    <3>2. CASE y # u
      BY <2>2, <2>7, <3>1, <3>2 DEF Offers
    <3>3. CASE y = u
      <4>1. inqueue[u] = 1 /\ sps[u] <= sps[x] + adjwgt[x][j]
        BY <2>1, <2>7, <3>3 DEF Offers
      <4>2. sps[u] \in Nat
        BY <1>2, <1>5, <4>1 DEF PathsTypes
      <4>3. length < sps[u]
        BY <2>1, <4>2 DEF Better
      <4>4. sps[x] \in Nat /\ adjwgt[x][j] \in Nat
        BY <1>2, <1>3, <2>4, <3>1 DEF PathsTypes, Final
      <4>5. length <= sps[x] + adjwgt[x][j]
        BY <1>5, <4>1, <4>2, <4>3, <4>4
      <4> QED BY <2>2, <3>1, <3>3, <4>5 DEF Offers
    <3> QED BY <3>2, <3>3
  <2>8. Relaxed'
    <3> SUFFICES ASSUME NEW x \in Final, NEW j \in DOMAIN adj[x]
                 PROVE  (x = v /\ j > c) \/ Offers(x, j, adj[x][j])'
      BY <1>1, <1>5, <2>4 DEF Relaxed, Offers
    <3>1. CASE x = v /\ j = c
      <4>1. sps'[x] = sps[x] /\ adjwgt' = adjwgt /\ adj' = adj
        BY <1>1, <1>2, <2>1, <2>2, <3>1
      <4>2. inqueue'[adj[x][j]] = 1 /\ sps'[adj[x][j]] = sps[x] + adjwgt[x][j]
        BY <1>5, <2>2, <3>1
      <4>3. sps[x] + adjwgt[x][j] <= sps[x] + adjwgt[x][j]
        BY <1>5, <3>1
      <4> QED BY <4>1, <4>2, <4>3 DEF Offers
    <3>2. CASE ~(x = v /\ j = c)
      <4>1. x = v /\ j > Len(adj[v]) - Len(edges) => j > c
        <5>1. x = v /\ j > Len(adj[v]) - Len(edges) => j >= c /\ j \in Nat /\ j # c
          BY <1>2, <1>3, <3>2 DEF c
        <5> QED BY <1>5, <5>1
      <4>2. (x = v /\ j > c) \/ Offers(x, j, adj[x][j])
        BY <4>1 DEF Relaxed
      <4>3. adj[x][j] \in Vertex
        BY <1>3 DEF Final
      <4>4. CASE Offers(x, j, adj[x][j])
        <5> DEFINE y == adj[x][j]
        <5>1. y \in Vertex /\ Offers(x, j, y)
          BY <4>3, <4>4
        <5>2. /\ inqueue'[y] = 2 \/ (inqueue'[y] = 1 /\ sps'[y] <= sps'[x] + adjwgt'[x][j])
              /\ adj' = adj
          <6> HIDE DEF y
          <6> QED BY <1>1, <2>7, <5>1 DEF Offers
        <5> QED BY <5>2 DEF Offers
      <4> QED BY <4>2, <4>4
    <3> QED BY <3>1, <3>2
  <2>9. PathsReached'
    <3> SUFFICES ASSUME NEW n \in Nat, NEW x \in Vertex,
                        \/ inqueue'[x] = 1 /\ Cardinality(Final) <= n
                        \/ inqueue'[x] = 2 /\ Cardinality(Final) <= n + 1
                 PROVE  ToRoot[n][x] # -1 /\ ToRoot[n][x] <= sps'[x]
      BY <1>7, <2>4 DEF PathsReached, AtMost
    <3>1. CASE x # u
      BY <2>2, <3>1 DEF PathsReached, AtMost
    <3>2. CASE x = u
      <4>1. Cardinality(Final) <= n /\ Cardinality(Final) # 0
        BY <1>3, <2>2, <2>4, <3>2, FS_EmptySet
      <4> DEFINE m == n - 1
      <4>2. m \in Nat /\ n = m + 1 /\ Cardinality(Final) <= m + 1
        BY <1>3, <4>1
      <4> HIDE DEF m
      <4>3. ToRoot[m][v] # -1 /\ ToRoot[m][v] <= sps[v]
        BY <1>2, <4>2 DEF PathsReached, AtMost
      <4>4. ToRoot[m + 1][u] # -1 /\ ToRoot[m + 1][u] <= ToRoot[m][v] + adjwgt[v][c]
        <5>1. /\ ToRoot[m + 1][adj[v][c]] # -1
              /\ ToRoot[m + 1][adj[v][c]] <= ToRoot[m][v] + adjwgt[v][c]
          <6>1. v \in Vertex /\ c \in DOMAIN adj[v] /\ Weighted(adj, adjwgt) /\ root \in Vertex
            BY <1>2, <1>5
          <6> QED BY <4>2, <4>3, <6>1, RootLaws DEF Stepwise
        <5> QED BY <1>5, <5>1
      <4>5. ToRoot[m][v] \in Nat /\ ToRoot[m + 1][u] \in Nat
        <5>1. ToRoot[m] \in [Vertex -> Nat \cup {-1}] /\ ToRoot[m + 1] \in [Vertex -> Nat \cup {-1}]
          BY <1>2, <4>2, RootLaws DEF Stepwise
        <5> QED BY <1>2, <1>5, <4>3, <4>4, <5>1
      <4>6. adjwgt[v][c] \in Nat /\ sps[v] \in Nat
        BY <1>2, <1>3, <1>5
      <4>7. ToRoot[m + 1][u] <= length
        BY SMTT(30), <1>5, <4>3, <4>4, <4>5, <4>6
      <4> QED BY <2>2, <3>2, <4>2, <4>4, <4>7
    <3> QED BY <3>1, <3>2
  <2>10. Nearest'
    <3>1. \A x \in Final : sps'[x] = sps[x]
      BY <2>2, <2>4 DEF Final
    <3> QED BY <1>7, <2>4, <3>1 DEF Nearest
  <2> QED BY <1>6, <2>6, <2>8, <2>9, <2>10
<1> QED BY <1>8, <1>9

LEMMA ReturnPathsStep ==
  ASSUME PathsInv, ReturnPaths
  PROVE  PathsInv'
<1>1. /\ queue = <<>> /\ edges = <<>> /\ pc = "loop" /\ pc' = "done"
      /\ UNCHANGED <<adj, v, edges, queue, adjwgt, sps, inqueue, root>>
  BY DEF ReturnPaths, AtLoop, qvars
<1>2. DOMAIN queue = {}
  BY <1>1, EmptySeq
<1>3. ToRoot' = ToRoot /\ Final' = Final
  BY <1>1, SameRoot DEF Final
<1>4. PathsTypes'
  BY <1>1, <1>2 DEF PathsInv, PathsTypes
<1>5. ListEnd' /\ Relaxed' /\ PathsReached' /\ Nearest'
  BY <1>1, <1>3 DEF PathsInv, ListEnd, Relaxed, PathsReached, Nearest, Offers, AtMost
<1> QED BY <1>4, <1>5 DEF PathsInv
-----------------------------------------------------------------------------
PathsSound == alg \in Paths => PathsInv

LEMMA PathsInitSound == BestInit => PathsSound
<1> SUFFICES ASSUME BestInit, alg \in Paths PROVE PathsInv
  BY DEF PathsSound
<1>1. /\ adj \in Graphs /\ pc = "call" /\ edges = <<>> /\ v \in Vertex /\ root = v
      /\ queue = <<>> /\ sps = All(-1) /\ inqueue = All(0) /\ adjwgt \in Weights
  BY GraphsOnVertices DEF BestInit, BestStart, Called
<1>2. Weighted(adj, adjwgt)
  <2>1. adj \in [Vertex -> Seq(Vertex)]
    BY <1>1, GraphsOnVertices
  <2>2. ASSUME NEW u \in Vertex, NEW j \in DOMAIN adj[u] PROVE adjwgt[u][j] \in Nat
    BY <1>1, <2>1, <2>2, WeightsOnEntries
  <2> QED BY <2>1, <2>2 DEF Weighted
<1>3. DOMAIN queue = {} /\ edges \in Seq(Vertex)
  BY <1>1, EmptySeq
<1>4. /\ sps \in [Vertex -> Nat \cup {-1}] /\ inqueue \in [Vertex -> 0 .. 2]
      /\ \A u \in Vertex : inqueue[u] = 0 /\ sps[u] = -1
  BY <1>1 DEF All
<1>5. PathsTypes
  BY <1>1, <1>2, <1>3, <1>4 DEF PathsTypes
<1>6. Final = {}
  BY <1>4 DEF Final
<1>7. PathsReached
  BY <1>4 DEF PathsReached
<1> QED BY <1>1, <1>5, <1>6, <1>7 DEF PathsInv, ListEnd, Relaxed, Nearest

LEMMA PathsStepSound == PathsSound /\ [BestNext]_<<avars, qvars>> => PathsSound'
<1> SUFFICES ASSUME PathsSound, [BestNext]_<<avars, qvars>>, alg' \in Paths PROVE PathsInv'
  BY DEF PathsSound
<1>1. CASE FollowOpen \/ FollowAll
  <2>1. alg' = alg /\ alg \in Best
    BY <1>1 DEF FollowOpen, FollowAll, EnterBest, TakeBest, SeeBest, EndTurn, ReturnBest,
                EnterAll, TakeAny, SeeAny, EndAny, AtLoop, Best
  <2> QED BY <2>1 DEF Best, BestOpen, BestAll, Paths
<1>2. CASE gk_graph_SingleSourceShortestPaths
  <2>1. alg' = alg
    BY <1>2 DEF gk_graph_SingleSourceShortestPaths, EnterPaths, Settle, Relax, ReturnPaths
  <2>2. PathsInv
    BY <2>1 DEF PathsSound
  <2> QED BY <1>2, <2>2, EnterPathsStep, SettleStep, RelaxStep, ReturnPathsStep
          DEF gk_graph_SingleSourceShortestPaths
<1>3. CASE UNCHANGED <<avars, qvars>>
  <2>1. /\ PathsInv
        /\ UNCHANGED <<adj, pc, v, edges, queue, adjwgt, sps, inqueue, root>>
    BY <1>3 DEF PathsSound, avars, qvars
  <2>2. ToRoot' = ToRoot /\ Final' = Final
    BY <2>1, SameRoot DEF Final
  <2> QED BY ZenonT(60), <2>1, <2>2 DEF PathsInv, PathsTypes, ListEnd, Relaxed, PathsReached, Nearest,
                            Offers, AtMost
<1> QED BY <1>1, <1>2, <1>3 DEF BestNext, gk_graph_ComputeBestFOrdering,
          gk_csr_ComputeBestFOrderingSymmetric, gk_graph_ComputeBestFOrdering0

(* gk_graph_SingleSourceShortestPaths finds the shortest paths, in every   *)
(* graph with weights that are not negative: a length is right once its    *)
(* vertex is final, and on return a vertex without one is not reached.     *)
THEOREM ShortestTheorem == BestSpec => []ShortestLengths
<1>1. PathsSound => ShortestLengths
  BY PathsRight DEF PathsSound, ShortestLengths
<1> QED BY <1>1, PathsInitSound, PathsStepSound, PTL DEF BestSpec
-----------------------------------------------------------------------------
Untaken == {u \in Vertex : perm[u] = -1}
Turns == IF pc = "see" THEN turn + 1 ELSE turn

(* o lists the vertices of U in its first n places, and p are their places.*)
Listing(o, p, n, U) ==
  /\ o \in [Vertex -> Vertex] /\ p \in [Vertex -> Vertex] /\ n \in 0 .. nvtxs
  /\ \A i \in 0 .. n - 1 : o[i] \in U /\ p[o[i]] = i
  /\ \A u \in U : p[u] \in 0 .. n - 1 /\ o[p[u]] = u

(* The orders given so far are different, and as many as there were turns. *)
Ranked ==
  /\ adj \in [Vertex -> Seq(Vertex)] /\ edges \in Seq(Vertex)
  /\ pc \in {"call", "loop", "see", "done"}
  /\ perm \in [Vertex -> -1 .. nvtxs - 1] /\ turn \in 0 .. nvtxs /\ Turns \in 0 .. nvtxs
  /\ \A u \in Vertex : perm[u] < Turns
  /\ \A u, w \in Vertex : perm[u] = perm[w] /\ perm[u] # -1 => u = w
  /\ Cardinality(Untaken) = nvtxs - Turns
  /\ pc = "call" => turn = 0 /\ Untaken = Vertex
  /\ pc # "see" => edges = <<>>
  /\ pc = "done" => turn = nvtxs /\ iperm = [p \in Vertex |-> CHOOSE u \in Vertex : perm[u] = p]

(* The open vertices are those that edges from vertices taken lead to; at  *)
(* first it is the vertex of the call.                                     *)
Opened ==
  /\ degrees \in [Vertex -> Nat] /\ DOMAIN queue \subseteq Vertex
  /\ nopen \in 0 .. nleft /\ nleft = nvtxs - Turns
  /\ Listing(ot, pos, nleft, Untaken)
  /\ pc # "call" => DOMAIN queue = {u \in Untaken : pos[u] < nopen}
  /\ pc = "call" => /\ v \in Vertex /\ ot = Identity /\ pos = Identity /\ nopen = 1
                    /\ DOMAIN queue = {}
  /\ Turns = 0 => nopen = 1 /\ \A u \in Vertex : degrees[u] = 0
  /\ Turns > 0 => \A u \in Untaken : u \in DOMAIN queue <=> degrees[u] > 0

ListsInv ==
  /\ alg \in Best => Ranked
  /\ alg \in BestOpen => Opened
  /\ alg \in BestAll /\ pc # "call" => DOMAIN queue = Untaken

LEMMA UntakenFinite ==
  /\ IsFiniteSet(Vertex) /\ Cardinality(Vertex) = nvtxs
  /\ IsFiniteSet(Untaken) /\ Cardinality(Untaken) \in Nat
<1>1. IsFiniteSet(Vertex) /\ Cardinality(Vertex) = nvtxs
  BY FS_Interval, GraphsOnVertices DEF Vertex
<1>2. Untaken \in SUBSET Vertex
  BY DEF Untaken
<1> QED BY <1>1, <1>2, FS_Subset, FS_CardinalityType

(* While a turn is left, so is a vertex; and at the end none.              *)
LEMMA TurnsLeft ==
  ASSUME Ranked
  PROVE  /\ Turns < nvtxs => Untaken # {}
         /\ Turns = nvtxs => Untaken = {}
<1>1. Cardinality(Untaken) = nvtxs - Turns /\ Turns \in Nat /\ nvtxs \in Nat
  BY VertexFacts DEF Ranked
<1>2. Untaken = {} <=> Cardinality(Untaken) = 0
  BY UntakenFinite, FS_EmptySet
<1> QED BY <1>1, <1>2

(* w is taken at the end of the turns so far.                              *)
LEMMA RankedTake ==
  ASSUME Ranked, pc = "loop", pc' = "see", turn < nvtxs, turn' = turn, adj' = adj,
         NEW w \in Vertex, perm[w] = -1, perm' = [perm EXCEPT ![w] = turn], edges' = adj[w]
  PROVE  Ranked' /\ Untaken' = Untaken \ {w} /\ w \in Untaken
<1>1. /\ perm \in [Vertex -> -1 .. nvtxs - 1] /\ turn \in 0 .. nvtxs /\ Turns = turn
      /\ nvtxs \in Nat /\ \A u \in Vertex : perm[u] < turn
      /\ \A u, x \in Vertex : perm[u] = perm[x] /\ perm[u] # -1 => u = x
      /\ Cardinality(Untaken) = nvtxs - turn /\ adj \in [Vertex -> Seq(Vertex)]
  BY VertexFacts DEF Ranked, Turns
<1>2. /\ turn \in Nat /\ turn \in -1 .. nvtxs - 1 /\ turn + 1 \in 0 .. nvtxs /\ turn # -1
  BY <1>1
<1>3. /\ perm' \in [Vertex -> -1 .. nvtxs - 1] /\ perm'[w] = turn
      /\ \A u \in Vertex \ {w} : perm'[u] = perm[u]
  BY <1>1, <1>2
<1>4. Untaken' = Untaken \ {w} /\ w \in Untaken
  BY <1>2, <1>3 DEF Untaken
<1>5. Cardinality(Untaken') = nvtxs - (turn + 1)
  <2>1. Cardinality(Untaken \ {w}) = Cardinality(Untaken) - 1
    BY <1>4, UntakenFinite, FS_RemoveElement
  <2> QED BY <1>1, <1>4, <2>1
<1>6. \A u \in Vertex : perm'[u] < turn + 1
  <2> TAKE u \in Vertex
  <2>1. perm[u] < turn /\ perm[u] \in Int
    BY <1>1
  <2> QED BY <1>2, <1>3, <2>1
<1>7. \A u, x \in Vertex : perm'[u] = perm'[x] /\ perm'[u] # -1 => u = x
  <2> TAKE u, x \in Vertex
  <2>1. perm[u] < turn /\ perm[x] < turn /\ perm[u] \in Int /\ perm[x] \in Int
    BY <1>1
  <2> QED BY <1>1, <1>2, <1>3, <2>1
<1>8. Turns' = turn + 1 /\ edges' \in Seq(Vertex)
  BY <1>1 DEF Turns
<1> QED BY <1>1, <1>2, <1>3, <1>4, <1>5, <1>6, <1>7, <1>8 DEF Ranked

(* Nothing is taken.                                                       *)
LEMMA RankedKeep ==
  ASSUME Ranked, UNCHANGED <<adj, perm>>, turn' \in 0 .. nvtxs, Turns' = Turns,
         pc' \in {"loop", "see"}, edges' \in Seq(Vertex), pc' = "loop" => edges' = <<>>
  PROVE  Ranked' /\ Untaken' = Untaken
<1>1. Untaken' = Untaken
  BY DEF Untaken
<1> QED BY <1>1 DEF Ranked

LEMMA RankedReturn ==
  ASSUME Ranked, AtLoop(Best), turn = nvtxs, pc' = "done", UNCHANGED <<adj, perm, turn, edges>>,
         iperm' = [p \in Vertex |-> CHOOSE u \in Vertex : perm[u] = p]
  PROVE  Ranked' /\ Untaken' = Untaken
<1>1. Untaken' = Untaken /\ Turns' = turn /\ Turns = turn /\ edges = <<>>
  BY DEF Untaken, Turns, AtLoop
<1>2. pc' # "call" /\ pc' # "see" /\ pc' \in {"call", "loop", "see", "done"}
  OBVIOUS
<1> QED BY <1>1, <1>2 DEF Ranked

(* The last open vertex takes the place of w, and the last one of the list *)
(* that of the former.                                                     *)
LEMMA TakenListing ==
  ASSUME Listing(ot, pos, nleft, Untaken), NEW open \in 1 .. nleft, NEW w \in Untaken,
         pos[w] < open, Taken(w, open)
  PROVE  /\ Listing(ot', pos', nleft', Untaken \ {w})
         /\ nopen' = open - 1 /\ nleft' = nleft - 1
         /\ \A u \in Untaken \ {w} : pos'[u] < open - 1 <=> pos[u] < open
<1> DEFINE P == pos[w]
           L == open - 1
           M == nleft - 1
           x == ot[L]
           y == ot[M]
<1>1. /\ ot \in [Vertex -> Vertex] /\ pos \in [Vertex -> Vertex] /\ nleft \in 0 .. nvtxs
      /\ \A i \in 0 .. nleft - 1 : ot[i] \in Untaken /\ pos[ot[i]] = i
      /\ \A u \in Untaken : pos[u] \in 0 .. nleft - 1 /\ ot[pos[u]] = u
      /\ nvtxs \in Nat /\ Untaken \subseteq Vertex /\ Vertex = 0 .. nvtxs - 1
  BY VertexFacts DEF Listing, Untaken
<1>2. /\ P \in 0 .. L /\ L \in 0 .. M /\ M \in Nat /\ nleft = M + 1 /\ open = L + 1
      /\ P \in Vertex /\ L \in Vertex /\ M \in Vertex
      /\ w \in Vertex /\ x \in Vertex /\ y \in Vertex /\ x \in Untaken /\ y \in Untaken
      /\ ot[P] = w /\ pos[x] = L /\ pos[y] = M
  <2>1. /\ P \in 0 .. nleft - 1 /\ ot[P] = w /\ w \in Vertex /\ nleft \in Nat /\ nleft <= nvtxs
        /\ P < open /\ open >= 1 /\ open <= nleft /\ open \in Int
    BY <1>1
  <2>2. /\ P \in 0 .. L /\ L \in 0 .. M /\ M \in Nat /\ nleft = M + 1 /\ open = L + 1
        /\ P \in 0 .. nvtxs - 1 /\ L \in 0 .. nvtxs - 1 /\ M \in 0 .. nvtxs - 1
        /\ L \in 0 .. nleft - 1 /\ M \in 0 .. nleft - 1
    <3>1. /\ P \in Int /\ 0 <= P /\ nvtxs \in Int /\ nleft \in Int /\ nleft <= nvtxs
          /\ open \in Int /\ P < open /\ open <= nleft
      BY <1>1, <2>1
    <3> QED BY ONLY <3>1
  <2>3. x \in Untaken /\ pos[x] = L /\ y \in Untaken /\ pos[y] = M
    BY <1>1, <2>2
  <2> QED BY <1>1, <2>1, <2>2, <2>3
<1>3. /\ P \in Int /\ L \in Int /\ M \in Int /\ 0 <= P /\ P <= L /\ L <= M
  BY <1>2
<1> DEFINE ot1 == [ot EXCEPT ![P] = x]
           pos1 == [pos EXCEPT ![x] = P]
<1>4. /\ ot1 \in [Vertex -> Vertex] /\ ot1[P] = x /\ \A i \in Vertex \ {P} : ot1[i] = ot[i]
      /\ ot1[L] = x
  BY <1>1, <1>2
<1>5. /\ pos1 \in [Vertex -> Vertex] /\ pos1[x] = P
      /\ \A u \in Vertex \ {x} : pos1[u] = pos[u]
  BY <1>1, <1>2
<1>6. /\ ot' = IF nleft > open THEN [ot1 EXCEPT ![L] = ot1[M]] ELSE ot1
      /\ pos' = IF nleft > open THEN [pos1 EXCEPT ![ot1[M]] = L] ELSE pos1
      /\ nopen' = L /\ nleft' = M
  BY <1>4 DEF Taken
<1> HIDE DEF ot1, pos1
<1>7. CASE L = M
  <2>1. ot' = ot1 /\ pos' = pos1
    BY <1>2, <1>6, <1>7
  <2>2. ASSUME NEW i \in 0 .. M - 1 PROVE ot'[i] \in Untaken \ {w} /\ pos'[ot'[i]] = i
    <3>1. i \in 0 .. nleft - 1 /\ i \in Vertex /\ i # L /\ i \in Int
      BY <1>1, <1>2, <1>7
    <3>2. CASE i = P
      <4>1. x # w
        BY <1>2, <3>1, <3>2
      <4> QED BY <1>2, <1>4, <1>5, <2>1, <3>2, <4>1
    <3>3. CASE i # P
      <4>1. ot'[i] = ot[i] /\ ot[i] \in Untaken /\ pos[ot[i]] = i /\ ot[i] # x /\ ot[i] # w
        BY <1>1, <1>2, <1>4, <2>1, <3>1, <3>3
      <4>2. ot[i] \in Vertex
        BY <1>1, <4>1
      <4> QED BY <1>5, <2>1, <4>1, <4>2
    <3> QED BY <3>2, <3>3
  <2>3. ASSUME NEW u \in Untaken \ {w}
        PROVE  pos'[u] \in 0 .. M - 1 /\ ot'[pos'[u]] = u /\ (pos'[u] < L <=> pos[u] < open)
    <3>1. pos[u] \in 0 .. M /\ ot[pos[u]] = u /\ pos[u] # P /\ u \in Vertex /\ pos[u] \in Vertex
      BY <1>1, <1>2
    <3>2. CASE u = x
      <4>1. P # L
        BY <1>2, <3>2
      <4> QED BY <1>2, <1>4, <1>5, <1>7, <2>1, <3>1, <3>2, <4>1
    <3>3. CASE u # x
      <4>1. pos[u] # L
        BY <1>2, <3>1, <3>3
      <4> QED BY <1>2, <1>4, <1>5, <1>7, <2>1, <3>1, <3>3, <4>1
    <3> QED BY <3>2, <3>3
  <2>4. ot' \in [Vertex -> Vertex] /\ pos' \in [Vertex -> Vertex] /\ nleft' \in 0 .. nvtxs
    <3>1. M \in 0 .. nvtxs
      BY <1>1, <1>2
    <3> QED BY <1>4, <1>5, <1>6, <2>1, <3>1
  <2>a. Listing(ot', pos', M, Untaken \ {w})
    <3>1. \A i \in 0 .. M - 1 : ot'[i] \in Untaken \ {w} /\ pos'[ot'[i]] = i
      BY <2>2
    <3>2. \A u \in Untaken \ {w} : pos'[u] \in 0 .. M - 1 /\ ot'[pos'[u]] = u
      BY <2>3
    <3> QED BY <1>6, <2>4, <3>1, <3>2 DEF Listing
  <2>b. \A u \in Untaken \ {w} : pos'[u] < L <=> pos[u] < open
    BY <2>3
  <2> QED BY <1>6, <2>a, <2>b
<1>8. CASE L # M
  <2>1. ot1[M] = y /\ y # x /\ y # w
    <3>1. P # M
      BY <1>3, <1>8
    <3>2. ot1[M] = ot[M]
      BY <1>2, <1>4, <3>1
    <3>3. y # x
      BY <1>2, <1>8
    <3>4. y # w
      BY <1>2, <3>1
    <3> QED BY <3>2, <3>3, <3>4
  <2>2. ot' = [ot1 EXCEPT ![L] = y] /\ pos' = [pos1 EXCEPT ![y] = L]
    <3>1. nleft > open
      BY <1>2, <1>3, <1>8
    <3> QED BY <1>6, <2>1, <3>1
  <2>3. /\ ot' \in [Vertex -> Vertex] /\ ot'[L] = y /\ (P # L => ot'[P] = x)
        /\ \A i \in Vertex \ {P, L} : ot'[i] = ot[i]
    BY <1>2, <1>4, <2>2
  <2>4. /\ pos' \in [Vertex -> Vertex] /\ pos'[y] = L /\ pos'[x] = P
        /\ \A u \in Vertex \ {x, y} : pos'[u] = pos[u]
    BY <1>2, <1>5, <2>1, <2>2
  <2>5. ASSUME NEW i \in 0 .. M - 1 PROVE ot'[i] \in Untaken \ {w} /\ pos'[ot'[i]] = i
    <3>1. i \in 0 .. nleft - 1 /\ i \in Vertex /\ i # M /\ i \in Int
      BY <1>1, <1>2
    <3>2. CASE i = L
      BY <1>2, <2>1, <2>3, <2>4, <3>2
    <3>3. CASE i # L /\ i = P
      <4>1. x # w
        BY <1>2, <3>3
      <4> QED BY <1>2, <2>3, <2>4, <3>3, <4>1
    <3>4. CASE i # L /\ i # P
      <4>1. ot'[i] = ot[i] /\ ot[i] \in Untaken /\ pos[ot[i]] = i
        BY <1>1, <2>3, <3>1, <3>4
      <4>2. ot[i] # x /\ ot[i] # y /\ ot[i] # w
        BY <1>2, <3>1, <3>4, <4>1
      <4>3. ot[i] \in Vertex
        BY <1>1, <4>1
      <4> QED BY <2>4, <4>1, <4>2, <4>3
    <3> QED BY <3>2, <3>3, <3>4
  <2>6. ASSUME NEW u \in Untaken \ {w}
        PROVE  pos'[u] \in 0 .. M - 1 /\ ot'[pos'[u]] = u /\ (pos'[u] < L <=> pos[u] < open)
    <3>1. pos[u] \in 0 .. M /\ ot[pos[u]] = u /\ pos[u] # P /\ u \in Vertex /\ pos[u] \in Vertex
      BY <1>1, <1>2
    <3>2. CASE u = x
      <4>1. P # L
        BY <1>2, <3>2
      <4> QED BY <1>2, <1>3, <1>8, <2>3, <2>4, <3>2, <4>1
    <3>3. CASE u = y
      BY <1>2, <1>3, <1>8, <2>3, <2>4, <3>3
    <3>4. CASE u # x /\ u # y
      <4>1. pos[u] # L /\ pos[u] # M
        BY <1>2, <3>1, <3>4
      <4> QED BY <1>2, <2>3, <2>4, <3>1, <3>4, <4>1
    <3> QED BY <3>2, <3>3, <3>4
  <2>7. nleft' \in 0 .. nvtxs
    BY <1>1, <1>2, <1>6
  <2>a. Listing(ot', pos', M, Untaken \ {w})
    <3>1. \A i \in 0 .. M - 1 : ot'[i] \in Untaken \ {w} /\ pos'[ot'[i]] = i
      BY <2>5
    <3>2. \A u \in Untaken \ {w} : pos'[u] \in 0 .. M - 1 /\ ot'[pos'[u]] = u
      BY <2>6
    <3> QED BY <1>6, <2>3, <2>4, <2>7, <3>1, <3>2 DEF Listing
  <2>b. \A u \in Untaken \ {w} : pos'[u] < L <=> pos[u] < open
    BY <2>6
  <2> QED BY <1>6, <2>a, <2>b
<1> QED BY <1>7, <1>8

(* A vertex of the list is swapped with the first that is not open.        *)
LEMMA OpenedListing ==
  ASSUME Listing(ot, pos, nleft, Untaken), nopen \in 0 .. nleft, NEW u \in Untaken, nopen <= pos[u],
         ot' = Assign2(ot, pos[u], ot[nopen], nopen, u),
         pos' = Assign2(pos, ot[nopen], pos[u], u, nopen)
  PROVE  /\ Listing(ot', pos', nleft, Untaken) /\ nopen + 1 \in 0 .. nleft
         /\ \A w \in Untaken : pos'[w] < nopen + 1 <=> w = u \/ pos[w] < nopen
<1> DEFINE P == pos[u]
           x == ot[nopen]
<1>1. /\ ot \in [Vertex -> Vertex] /\ pos \in [Vertex -> Vertex] /\ nleft \in 0 .. nvtxs
      /\ \A i \in 0 .. nleft - 1 : ot[i] \in Untaken /\ pos[ot[i]] = i
      /\ \A w \in Untaken : pos[w] \in 0 .. nleft - 1 /\ ot[pos[w]] = w
      /\ nvtxs \in Nat /\ Untaken \subseteq Vertex /\ Vertex = 0 .. nvtxs - 1
  BY VertexFacts DEF Listing, Untaken
<1>2. /\ P \in 0 .. nleft - 1 /\ nopen \in 0 .. nleft - 1 /\ P \in Vertex /\ nopen \in Vertex
      /\ nopen + 1 \in 0 .. nleft /\ nopen \in Int
      /\ u \in Vertex /\ x \in Vertex /\ x \in Untaken /\ ot[P] = u /\ pos[x] = nopen
  <2>1. /\ P \in 0 .. nleft - 1 /\ ot[P] = u /\ u \in Vertex /\ nleft \in Nat /\ nleft <= nvtxs
        /\ nopen <= P /\ nopen \in 0 .. nleft
    BY <1>1
  <2>2. /\ nopen \in 0 .. nleft - 1 /\ nopen + 1 \in 0 .. nleft /\ nopen \in Int
        /\ P \in 0 .. nvtxs - 1 /\ nopen \in 0 .. nvtxs - 1
    <3>1. /\ P \in Int /\ nvtxs \in Int /\ nleft \in Int /\ nleft <= nvtxs
          /\ nopen \in Int /\ 0 <= nopen /\ nopen <= P /\ P < nleft
      BY <1>1, <2>1
    <3> QED BY ONLY <3>1
  <2>3. x \in Untaken /\ pos[x] = nopen
    BY <1>1, <2>2
  <2> QED BY <1>1, <2>1, <2>2, <2>3
<1>3. /\ ot' \in [Vertex -> Vertex] /\ ot'[nopen] = u /\ (P # nopen => ot'[P] = x)
      /\ \A i \in Vertex \ {P, nopen} : ot'[i] = ot[i]
  BY <1>1, <1>2 DEF Assign2
<1>4. /\ pos' \in [Vertex -> Vertex] /\ pos'[u] = nopen /\ (x # u => pos'[x] = P)
      /\ \A w \in Vertex \ {x, u} : pos'[w] = pos[w]
  BY <1>1, <1>2 DEF Assign2
<1>5. ASSUME NEW i \in 0 .. nleft - 1 PROVE ot'[i] \in Untaken /\ pos'[ot'[i]] = i
  <2>1. i \in Vertex
    BY <1>1
  <2>2. CASE i = nopen
    BY <1>3, <1>4, <2>2
  <2>3. CASE i # nopen /\ i = P
    <3>1. x # u
      BY <1>2, <2>3
    <3> QED BY <1>2, <1>3, <1>4, <2>3, <3>1
  <2>4. CASE i # nopen /\ i # P
    <3>1. ot'[i] = ot[i] /\ ot[i] \in Untaken /\ pos[ot[i]] = i /\ ot[i] # x /\ ot[i] # u
      BY <1>1, <1>2, <1>3, <2>1, <2>4
    <3>2. ot[i] \in Vertex
      BY <1>1, <3>1
    <3> QED BY <1>4, <3>1, <3>2
  <2> QED BY <2>2, <2>3, <2>4
<1>6. ASSUME NEW w \in Untaken
      PROVE  /\ pos'[w] \in 0 .. nleft - 1 /\ ot'[pos'[w]] = w
             /\ pos'[w] < nopen + 1 <=> w = u \/ pos[w] < nopen
  <2>1. pos[w] \in 0 .. nleft - 1 /\ ot[pos[w]] = w /\ w \in Vertex /\ pos[w] \in Vertex
    BY <1>1
  <2>2. CASE w = u
    BY <1>2, <1>3, <1>4, <2>2
  <2>3. CASE w # u /\ w = x
    <3>1. P # nopen
      BY <1>2, <2>3
    <3> QED BY <1>2, <1>3, <1>4, <2>3, <3>1
  <2>4. CASE w # u /\ w # x
    <3>1. pos[w] # P /\ pos[w] # nopen /\ pos'[w] = pos[w]
      BY <1>2, <1>4, <2>1, <2>4
    <3> QED BY <1>2, <1>3, <2>1, <2>4, <3>1
  <2> QED BY <2>2, <2>3, <2>4
<1> QED BY <1>1, <1>2, <1>3, <1>4, <1>5, <1>6 DEF Listing

-----------------------------------------------------------------------------
LEMMA EnterBestStep == ASSUME ListsInv, EnterBest PROVE ListsInv'
<1>1. /\ alg \in BestOpen /\ alg' = alg /\ alg \in Best /\ pc = "call" /\ pc' = "loop"
      /\ queue' = With(queue, v, 1)
      /\ ot' = Assign2(ot, 0, v, v, 0) /\ pos' = Assign2(pos, 0, v, v, 0)
      /\ UNCHANGED <<adj, v, edges, nopen, nleft, perm, degrees, turn, iperm>>
  BY DEF EnterBest, Put, dvars, Best
<1>2. Ranked /\ Opened
  BY <1>1 DEF ListsInv
<1>3. turn = 0 /\ Untaken = Vertex /\ Turns = 0 /\ Turns' = 0
  BY <1>1, <1>2 DEF Ranked, Turns
<1>4. Ranked' /\ Untaken' = Vertex
  <2>1. edges = <<>> /\ edges \in Seq(Vertex) /\ turn \in 0 .. nvtxs
    BY <1>1, <1>2 DEF Ranked
  <2> QED BY <1>1, <1>2, <1>3, <2>1, RankedKeep
<1>5. /\ nvtxs \in Nat /\ 0 \in Vertex /\ Vertex = 0 .. nvtxs - 1 /\ 1 \in 0 .. nvtxs
      /\ v \in Vertex /\ nopen = 1 /\ nleft = nvtxs /\ DOMAIN queue = {}
      /\ ot = Identity /\ pos = Identity
  BY <1>1, <1>2, <1>3, VertexFacts DEF Opened
<1>6. /\ ot' \in [Vertex -> Vertex] /\ ot'[0] = v /\ ot'[v] = 0
      /\ \A i \in Vertex \ {0, v} : ot'[i] = i
  BY <1>1, <1>5 DEF Identity, Assign2
<1>7. /\ pos' \in [Vertex -> Vertex] /\ pos'[0] = v /\ pos'[v] = 0
      /\ \A i \in Vertex \ {0, v} : pos'[i] = i
  BY <1>1, <1>5 DEF Identity, Assign2
<1>8. Listing(ot', pos', nleft', Untaken')
  <2>1. \A i \in Vertex : ot'[i] \in Vertex /\ pos'[ot'[i]] = i /\ ot'[pos'[i]] = i /\ pos'[i] \in Vertex
    BY <1>6, <1>7
  <2>2. nleft' = nvtxs /\ nvtxs \in 0 .. nvtxs
    BY <1>1, <1>5
  <2>3. Listing(ot', pos', nvtxs, Vertex)
    BY <1>5, <1>6, <1>7, <2>1, <2>2 DEF Listing
  <2> QED BY <1>4, <2>2, <2>3
<1>9. DOMAIN queue' = {v} /\ {u \in Vertex : pos'[u] < 1} = {v}
  <2>1. ASSUME NEW u \in Vertex, u # v PROVE ~(pos'[u] < 1)
    <3>1. u \in Int /\ v \in Int /\ u >= 0 /\ v >= 0
      BY <1>5
    <3>2. pos'[u] = IF u = 0 THEN v ELSE u
      BY <1>7, <2>1
    <3> QED BY <2>1, <3>1, <3>2
  <2>2. pos'[v] < 1
    BY <1>7
  <2> QED BY <1>1, <1>5, <2>1, <2>2 DEF With
<1>10. Opened'
  BY <1>1, <1>2, <1>3, <1>4, <1>5, <1>8, <1>9 DEF Opened
<1> QED BY <1>1, <1>4, <1>10 DEF ListsInv, BestOpen, BestAll

(* Before a turn: what may be taken is open, and every check holds.        *)
LEMMA CandidatesRight ==
  ASSUME Ranked, Opened, pc = "loop", turn < nvtxs
  PROVE  /\ Open \in 1 .. nleft /\ DOMAIN Candidates # {}
         /\ DOMAIN Candidates = {u \in Untaken : pos[u] < Open}
         /\ \A u \in DOMAIN Candidates : TakeChecked(u)
         /\ turn > 0 => \A u \in Untaken : degrees[u] > 0 => u \in DOMAIN queue
         /\ \A u \in Untaken : u \in DOMAIN queue \/ u = ot[0] \/ u \notin DOMAIN Candidates
         /\ nopen = 0 => DOMAIN Candidates = {ot[0]} /\ DOMAIN queue = {}
<1>1. /\ Turns = turn /\ turn \in Nat /\ nleft = nvtxs - turn /\ nvtxs \in Nat
      /\ nopen \in 0 .. nleft /\ DOMAIN queue = {u \in Untaken : pos[u] < nopen}
      /\ Listing(ot, pos, nleft, Untaken)
      /\ turn > 0 => \A u \in Untaken : u \in DOMAIN queue <=> degrees[u] > 0
  BY VertexFacts DEF Opened, Ranked, Turns
<1>2. nleft \in Nat /\ nleft > 0 /\ 0 \in 0 .. nleft - 1 /\ Open \in 1 .. nleft
  BY <1>1 DEF Open
<1>3. ot[0] \in Untaken /\ pos[ot[0]] = 0
  BY <1>1, <1>2 DEF Listing
<1>4. DOMAIN Candidates = {u \in Untaken : pos[u] < Open}
  <2>1. CASE nopen = 0
    <3>1. DOMAIN queue = {}
      BY <1>1, <2>1 DEF Listing
    <3>2. \A u \in Untaken : pos[u] < 1 <=> u = ot[0]
      BY <1>1, <1>3 DEF Listing
    <3> QED BY <1>3, <2>1, <3>1, <3>2 DEF Candidates, With, Open
  <2>2. CASE nopen # 0
    BY <1>1, <2>2 DEF Candidates, Open
  <2> QED BY <2>1, <2>2
<1>5. ot[0] \in DOMAIN Candidates
  BY <1>2, <1>3, <1>4
<1>6. ASSUME NEW u \in DOMAIN Candidates PROVE TakeChecked(u)
  BY <1>1, <1>4 DEF TakeChecked, Listing, Untaken
<1>7. \A u \in DOMAIN Candidates : u \in DOMAIN queue \/ u = ot[0]
  BY DEF Candidates, With
<1>8. nopen = 0 => DOMAIN Candidates = {ot[0]} /\ DOMAIN queue = {}
  <2> SUFFICES ASSUME nopen = 0 PROVE DOMAIN Candidates = {ot[0]} /\ DOMAIN queue = {}
    OBVIOUS
  <2>1. DOMAIN queue = {}
    BY <1>1 DEF Listing
  <2> QED BY <2>1 DEF Candidates, With
<1> QED BY <1>1, <1>2, <1>4, <1>5, <1>6, <1>7, <1>8

LEMMA TakeBestStep == ASSUME ListsInv, TakeBest PROVE ListsInv'
<1>1. PICK w \in DOMAIN Candidates :
        /\ TakeChecked(w) /\ Taken(w, Open)
        /\ queue' = Without(Candidates, w) /\ perm' = [perm EXCEPT ![w] = turn]
        /\ pc' = "see" /\ edges' = adj[w]
  BY DEF TakeBest
<1>2. /\ alg \in BestOpen /\ alg' = alg /\ alg \in Best /\ pc = "loop" /\ turn < nvtxs
      /\ UNCHANGED <<adj, degrees, turn, iperm>>
  BY DEF TakeBest, AtLoop, dvars, Best
<1>3. Ranked /\ Opened
  BY <1>2 DEF ListsInv
<1>4. /\ Open \in 1 .. nleft /\ DOMAIN Candidates = {u \in Untaken : pos[u] < Open}
      /\ nopen = 0 => DOMAIN Candidates = {ot[0]} /\ DOMAIN queue = {}
      /\ turn > 0 => \A u \in Untaken : u \in DOMAIN queue <=> degrees[u] > 0
      /\ Listing(ot, pos, nleft, Untaken)
  BY <1>2, <1>3, CandidatesRight DEF Opened, Ranked, Turns
<1>5. w \in Untaken /\ w \in Vertex /\ perm[w] = -1 /\ pos[w] < Open
  BY <1>1, <1>4 DEF Untaken
<1>6. Ranked' /\ Untaken' = Untaken \ {w}
  BY <1>1, <1>2, <1>3, <1>5, RankedTake
<1>7. /\ Listing(ot', pos', nleft', Untaken \ {w})
      /\ nopen' = Open - 1 /\ nleft' = nleft - 1
      /\ \A u \in Untaken \ {w} : pos'[u] < Open - 1 <=> pos[u] < Open
  BY <1>1, <1>4, <1>5, TakenListing
<1>8. DOMAIN queue' = DOMAIN Candidates \ {w}
  BY <1>1 DEF Without, Restrict
<1>9. DOMAIN queue' = {u \in Untaken' : pos'[u] < nopen'}
  BY <1>4, <1>6, <1>7, <1>8
<1>10. \A u \in Untaken' : u \in DOMAIN queue' <=> degrees'[u] > 0
  <2>1. CASE turn > 0
    <3>1. \A u \in Untaken \ {w} : u \in DOMAIN Candidates <=> u \in DOMAIN queue
      BY <1>1, <1>4 DEF Candidates
    <3> QED BY <1>2, <1>4, <1>6, <1>8, <2>1, <3>1
  <2>2. CASE ~(turn > 0)
    <3>1. turn = 0 /\ Turns = 0 /\ nopen = 1
      BY <1>2, <1>3, <2>2 DEF Ranked, Opened, Turns
    <3>2. \A u \in Vertex : degrees[u] = 0
      BY <1>3, <3>1 DEF Opened
    <3>3. \A u \in Untaken : pos[u] < Open => u = w
      BY <1>4, <1>5, <3>1 DEF Listing, Open
    <3> QED BY <1>2, <1>4, <1>6, <1>8, <3>2, <3>3 DEF Untaken
  <2> QED BY <2>1, <2>2
<1>11. nleft' = nvtxs - Turns' /\ nopen' \in 0 .. nleft' /\ Turns' > 0 /\ ~(Turns' = 0)
  <2>1. nleft = nvtxs - turn /\ turn \in Nat /\ Turns' = turn + 1 /\ nvtxs \in Nat
    BY <1>1, <1>2, <1>3, VertexFacts DEF Opened, Ranked, Turns
  <2> QED BY <1>4, <1>7, <2>1
<1>12. degrees' \in [Vertex -> Nat] /\ DOMAIN queue' \subseteq Vertex
  BY <1>2, <1>3, <1>9 DEF Opened, Untaken
<1>13. Opened'
  BY <1>1, <1>6, <1>7, <1>9, <1>10, <1>11, <1>12 DEF Opened
<1> QED BY <1>2, <1>6, <1>13 DEF ListsInv, BestOpen, BestAll

LEMMA SeeBestStep == ASSUME ListsInv, SeeBest PROVE ListsInv'
<1> DEFINE u == Head(edges)
<1>1. /\ alg \in BestOpen /\ alg' = alg /\ alg \in Best /\ pc = "see" /\ pc' = "see"
      /\ edges # <<>> /\ edges' = Tail(edges)
      /\ UNCHANGED <<adj, v, perm, turn, iperm>>
  BY DEF SeeBest, Best
<1>2. Ranked /\ Opened /\ Turns = turn + 1 /\ turn \in Nat /\ Turns > 0
  BY <1>1 DEF ListsInv, Ranked, Turns
<1>3. u \in Vertex /\ Tail(edges) \in Seq(Vertex)
  BY <1>1, <1>2, EmptySeq, HeadTailProperties DEF Ranked
<1>4. Ranked' /\ Untaken' = Untaken /\ Turns' = Turns
  <2>1. Turns' = Turns
    BY <1>1 DEF Turns
  <2>2. turn \in 0 .. nvtxs
    BY <1>2 DEF Ranked
  <2> QED BY <1>1, <1>2, <1>3, <2>1, <2>2, RankedKeep
<1>5. /\ degrees \in [Vertex -> Nat] /\ nopen \in 0 .. nleft /\ nleft = nvtxs - Turns
      /\ Listing(ot, pos, nleft, Untaken) /\ DOMAIN queue = {w \in Untaken : pos[w] < nopen}
      /\ \A w \in Untaken : w \in DOMAIN queue <=> degrees[w] > 0
  BY <1>1, <1>2 DEF Opened
<1>6. CASE perm[u] # -1
  <2>1. UNCHANGED <<ot, pos, nopen, nleft, degrees, queue>>
    BY <1>6 DEF SeeBest, ovars, dvars
  <2>2. Opened'
    BY <1>1, <1>2, <1>4, <1>5, <2>1 DEF Opened, Untaken
  <2> QED BY <1>1, <1>4, <2>2 DEF ListsInv, BestOpen, BestAll
<1>7. CASE perm[u] = -1
  <2>1. PICK k : queue' = With(queue, u, k)
    BY <1>7 DEF SeeBest, Put
  <2>2. degrees' = [degrees EXCEPT ![u] = degrees[u] + 1] /\ nleft' = nleft
    BY <1>7 DEF SeeBest
  <2>3. u \in Untaken /\ DOMAIN queue' = DOMAIN queue \cup {u}
    BY <1>3, <1>7, <2>1 DEF Untaken, With
  <2>4. /\ degrees' \in [Vertex -> Nat] /\ degrees'[u] > 0
        /\ \A w \in Vertex \ {u} : degrees'[w] = degrees[w]
    BY <1>3, <1>5, <2>2
  <2>5. \A w \in Untaken : w \in DOMAIN queue' <=> degrees'[w] > 0
    BY <1>5, <2>3, <2>4 DEF Untaken
  <2>6. /\ Listing(ot', pos', nleft, Untaken) /\ nopen' \in 0 .. nleft
        /\ \A w \in Untaken : pos'[w] < nopen' <=> w = u \/ pos[w] < nopen
    <3>1. CASE degrees[u] = 0
      <4>1. /\ ot' = Assign2(ot, pos[u], ot[nopen], nopen, u)
            /\ pos' = Assign2(pos, ot[nopen], pos[u], u, nopen) /\ nopen' = nopen + 1
        BY <1>7, <3>1 DEF SeeBest
      <4>2. nopen <= pos[u]
        <5>1. u \notin DOMAIN queue
          BY <1>5, <2>3, <3>1
        <5> HIDE DEF u
        <5>2. pos[u] \in 0 .. nleft - 1
          BY <1>5, <2>3 DEF Listing
        <5>3. ~(pos[u] < nopen)
          BY <1>5, <2>3, <5>1
        <5> QED BY <1>5, <5>2, <5>3
      <4> HIDE DEF u
      <4>3. /\ Listing(ot', pos', nleft, Untaken) /\ nopen + 1 \in 0 .. nleft
            /\ \A w \in Untaken : pos'[w] < nopen + 1 <=> w = u \/ pos[w] < nopen
        BY <1>5, <2>3, <4>1, <4>2, OpenedListing
      <4> QED BY <4>1, <4>3
    <3>2. CASE degrees[u] # 0
      <4>1. UNCHANGED <<ot, pos, nopen>>
        BY <1>7, <3>2 DEF SeeBest
      <4>2. u \in DOMAIN queue
        BY <1>3, <1>5, <2>3, <3>2
      <4> QED BY <1>5, <4>1, <4>2
    <3> QED BY <3>1, <3>2
  <2>7. DOMAIN queue' = {w \in Untaken : pos'[w] < nopen'}
    BY <1>5, <2>3, <2>6
  <2>8. DOMAIN queue' \subseteq Vertex /\ nleft' = nvtxs - Turns'
    BY <1>4, <1>5, <2>2, <2>7 DEF Untaken
  <2>9. Opened'
    BY <1>1, <1>2, <1>4, <2>2, <2>4, <2>5, <2>6, <2>7, <2>8 DEF Opened
  <2> QED BY <1>1, <1>4, <2>9 DEF ListsInv, BestOpen, BestAll
<1> QED BY <1>6, <1>7

(* Only keys change when a turn ends.                                      *)
LEMMA EndTurnStep == ASSUME ListsInv, EndTurn PROVE ListsInv'
<1>1. /\ alg \in BestOpen /\ alg' = alg /\ alg \in Best /\ pc = "see" /\ pc' = "loop"
      /\ edges = <<>> /\ turn' = turn + 1 /\ DOMAIN queue' = DOMAIN queue
      /\ UNCHANGED <<adj, v, edges, ot, nopen, nleft, pos, perm, degrees, iperm>>
  BY DEF EndTurn, ovars, Best
<1>2. Ranked /\ Opened
  BY <1>1 DEF ListsInv
<1>3. Turns' = Turns /\ Turns > 0 /\ ~(Turns = 0) /\ turn' \in 0 .. nvtxs /\ edges \in Seq(Vertex)
  BY <1>1, <1>2 DEF Ranked, Turns
<1>4. Ranked' /\ Untaken' = Untaken
  BY <1>1, <1>2, <1>3, RankedKeep
<1>5. Opened'
  BY <1>1, <1>2, <1>3, <1>4 DEF Opened
<1> QED BY <1>1, <1>4, <1>5 DEF ListsInv, BestOpen, BestAll

LEMMA ReturnBestStep == ASSUME ListsInv, ReturnBest PROVE ListsInv'
<1>1. /\ alg \in Best /\ alg' = alg /\ pc = "loop" /\ AtLoop(Best) /\ turn = nvtxs /\ pc' = "done"
      /\ iperm' = [p \in Vertex |-> CHOOSE u \in Vertex : perm[u] = p]
      /\ UNCHANGED <<adj, v, edges, ot, nopen, nleft, pos, queue, perm, degrees, turn>>
  BY DEF ReturnBest, AtLoop, ovars, dvars
<1>2. Ranked' /\ Untaken' = Untaken
  BY <1>1, RankedReturn DEF ListsInv
<1>3. Turns' = Turns /\ Turns = turn
  BY <1>1 DEF Turns
<1>4. ASSUME Opened PROVE Opened'
  BY <1>1, <1>2, <1>3, <1>4 DEF Opened
<1> QED BY <1>1, <1>2, <1>4 DEF ListsInv

LEMMA FollowAllStep == ASSUME ListsInv, EnterAll \/ TakeAny \/ SeeAny \/ EndAny PROVE ListsInv'
<1>1. alg \in BestAll /\ alg' = alg /\ alg \in Best /\ alg \notin BestOpen /\ Ranked
  BY DEF EnterAll, TakeAny, SeeAny, EndAny, AtLoop, ListsInv, Best, BestAll, BestOpen
<1>2. ASSUME Ranked', DOMAIN queue' = Untaken' PROVE ListsInv'
  BY <1>1, <1>2 DEF ListsInv
<1>3. CASE EnterAll
  <2>1. /\ pc = "call" /\ pc' = "loop" /\ queue' = [All(0) EXCEPT ![v] = 1]
        /\ UNCHANGED <<adj, edges, perm, turn>>
    BY <1>3 DEF EnterAll
  <2>2. Turns' = Turns /\ edges = <<>> /\ edges \in Seq(Vertex) /\ turn \in 0 .. nvtxs /\ Untaken = Vertex
    BY <1>1, <2>1 DEF Ranked, Turns
  <2>3. Ranked' /\ Untaken' = Untaken
    BY <1>1, <2>1, <2>2, RankedKeep
  <2>4. DOMAIN queue' = Vertex
    BY <2>1 DEF All
  <2> QED BY <1>2, <2>2, <2>3, <2>4
<1>4. CASE TakeAny
  <2>1. PICK w \in DOMAIN queue : /\ perm[w] = -1 /\ queue' = Without(queue, w)
                                  /\ perm' = [perm EXCEPT ![w] = turn] /\ pc' = "see" /\ edges' = adj[w]
    BY <1>4 DEF TakeAny
  <2>2. pc = "loop" /\ turn < nvtxs /\ UNCHANGED <<adj, turn>>
    BY <1>4 DEF TakeAny, AtLoop
  <2>3. DOMAIN queue = Untaken /\ w \in Vertex
    BY <1>1, <2>1, <2>2 DEF ListsInv, Untaken
  <2>4. Ranked' /\ Untaken' = Untaken \ {w}
    BY <1>1, <2>1, <2>2, <2>3, RankedTake
  <2>5. DOMAIN queue' = DOMAIN queue \ {w}
    BY <2>1 DEF Without, Restrict
  <2> QED BY <1>2, <2>3, <2>4, <2>5
<1>5. CASE SeeAny
  <2>1. /\ pc = "see" /\ pc' = "see" /\ edges # <<>> /\ edges' = Tail(edges)
        /\ UNCHANGED <<adj, perm, turn>>
    BY <1>5 DEF SeeAny
  <2>2. /\ Turns' = Turns /\ Head(edges) \in Vertex /\ Tail(edges) \in Seq(Vertex)
        /\ turn \in 0 .. nvtxs /\ DOMAIN queue = Untaken
    BY <1>1, <2>1, EmptySeq, HeadTailProperties DEF Ranked, Turns, ListsInv
  <2>3. Ranked' /\ Untaken' = Untaken
    BY <1>1, <2>1, <2>2, RankedKeep
  <2>4. CASE perm[Head(edges)] # -1
    <3>1. queue' = queue
      BY <1>5, <2>4 DEF SeeAny
    <3> QED BY <1>2, <2>2, <2>3, <3>1
  <2>5. CASE perm[Head(edges)] = -1
    <3>1. PICK k : queue' = With(queue, Head(edges), k)
      BY <1>5, <2>5 DEF SeeAny, Put
    <3>2. DOMAIN queue' = DOMAIN queue \cup {Head(edges)} /\ Head(edges) \in Untaken
      BY <2>2, <2>5, <3>1 DEF With, Untaken
    <3> QED BY <1>2, <2>2, <2>3, <3>2
  <2> QED BY <2>4, <2>5
<1>6. CASE EndAny
  <2>1. /\ pc = "see" /\ pc' = "loop" /\ edges = <<>> /\ turn' = turn + 1
        /\ UNCHANGED <<adj, edges, perm, queue>>
    BY <1>6 DEF EndAny
  <2>2. Turns' = Turns /\ edges \in Seq(Vertex) /\ turn' \in 0 .. nvtxs /\ DOMAIN queue = Untaken
    BY <1>1, <2>1 DEF Ranked, Turns, ListsInv
  <2>3. Ranked' /\ Untaken' = Untaken
    BY <1>1, <2>1, <2>2, RankedKeep
  <2> QED BY <1>2, <2>1, <2>2, <2>3
<1> QED BY <1>3, <1>4, <1>5, <1>6
-----------------------------------------------------------------------------
LEMMA InitListsInv == BestInit => ListsInv
<1> SUFFICES ASSUME BestInit PROVE ListsInv
  OBVIOUS
<1>1. /\ adj \in Graphs /\ v \in Vertex /\ pc = "call" /\ edges = <<>> /\ pos = Identity
      /\ queue = <<>> /\ ot = Identity /\ nopen = 1 /\ nleft = nvtxs
      /\ perm = All(-1) /\ degrees = All(0) /\ turn = 0
  BY GraphsOnVertices DEF BestInit, BestStart, Called
<1>2. /\ adj \in [Vertex -> Seq(Vertex)] /\ edges \in Seq(Vertex) /\ DOMAIN queue = {}
      /\ nvtxs \in Nat /\ nvtxs >= 1 /\ Turns = 0
  BY <1>1, GraphsOnVertices, EmptySeq DEF Turns
<1>3. /\ perm \in [Vertex -> -1 .. nvtxs - 1] /\ \A u \in Vertex : perm[u] = -1
      /\ degrees \in [Vertex -> Nat] /\ \A u \in Vertex : degrees[u] = 0
  BY <1>1, <1>2 DEF All
<1>4. Untaken = Vertex /\ Cardinality(Untaken) = nvtxs - Turns
  <2>1. Untaken = Vertex
    BY <1>3 DEF Untaken
  <2> QED BY <1>2, <2>1, UntakenFinite
<1>5. Ranked
  BY <1>1, <1>2, <1>3, <1>4 DEF Ranked
<1>6. Listing(ot, pos, nleft, Untaken)
  <2>1. Vertex = 0 .. nvtxs - 1 /\ nvtxs \in 0 .. nvtxs
    BY <1>2, VertexFacts
  <2> QED BY <1>1, <1>4, <2>1 DEF Listing, Identity
<1>7. Opened
  BY <1>1, <1>2, <1>3, <1>4, <1>6 DEF Opened
<1> QED BY <1>1, <1>5, <1>7 DEF ListsInv

LEMMA NextListsInv == ListsInv /\ [BestNext]_<<avars, qvars>> => ListsInv'
<1> SUFFICES ASSUME ListsInv, [BestNext]_<<avars, qvars>> PROVE ListsInv'
  OBVIOUS
<1>1. CASE FollowOpen \/ FollowAll
  BY <1>1, EnterBestStep, TakeBestStep, SeeBestStep, EndTurnStep, ReturnBestStep, FollowAllStep
  DEF FollowOpen, FollowAll
<1>2. CASE gk_graph_SingleSourceShortestPaths
  <2>1. alg' = alg /\ alg \in Paths
    BY <1>2 DEF gk_graph_SingleSourceShortestPaths, EnterPaths, Settle, Relax, ReturnPaths, AtLoop
  <2> QED BY <2>1 DEF ListsInv, Best, BestOpen, BestAll, Paths
<1>3. CASE UNCHANGED <<avars, qvars>>
  <2>1. UNCHANGED <<adj, alg, pc, v, edges, pos, queue, ot, nopen, nleft, perm, degrees, turn, iperm>>
    BY <1>3 DEF avars, qvars
  <2>2. Turns' = Turns /\ Untaken' = Untaken
    BY <2>1 DEF Turns, Untaken
  <2>3. (Ranked => Ranked') /\ (Opened => Opened')
    BY <2>1, <2>2 DEF Ranked, Opened
  <2> QED BY <2>1, <2>2, <2>3 DEF ListsInv
<1> QED BY <1>1, <1>2, <1>3 DEF BestNext, gk_graph_ComputeBestFOrdering,
          gk_csr_ComputeBestFOrderingSymmetric, gk_graph_ComputeBestFOrdering0

LEMMA ListsInvAgree == ListsInv => ListsAgree
<1> SUFFICES ASSUME ListsInv, alg \in Best, pc # "call" PROVE ListsAgree
  BY DEF ListsAgree
<1>1. Ranked /\ (alg \in BestOpen => Opened) /\ (alg \notin BestOpen => DOMAIN queue = Untaken)
  BY DEF ListsInv, Best
<1>2. ASSUME pc = "loop", turn < nvtxs
      PROVE  LET q == IF alg \in BestOpen THEN Candidates ELSE queue IN
             /\ q # <<>>
             /\ \A w \in DOMAIN q :
                  IsTop(q, w) => perm[w] = -1 /\ (alg \in BestOpen => TakeChecked(w))
  <2>1. DOMAIN <<>> = {}
    OBVIOUS
  <2>2. CASE alg \in BestOpen
    <3>1. DOMAIN Candidates # {} /\ \A w \in DOMAIN Candidates : TakeChecked(w)
      BY <1>1, <1>2, <2>2, CandidatesRight
    <3> QED BY <2>1, <2>2, <3>1 DEF TakeChecked
  <2>3. CASE alg \notin BestOpen
    <3>1. DOMAIN queue = Untaken /\ Untaken # {}
      BY <1>1, <1>2, <2>3, TurnsLeft DEF Turns
    <3> QED BY <2>1, <2>3, <3>1 DEF Untaken
  <2> QED BY <2>2, <2>3
<1>3. ASSUME alg \in BestOpen, NEW p \in 0 .. nopen - 1 PROVE perm[ot[p]] = -1
  <2>1. nopen \in 0 .. nleft /\ Listing(ot, pos, nleft, Untaken) /\ nleft \in Nat
    BY <1>1, <1>3 DEF Opened, Listing
  <2>2. p \in 0 .. nleft - 1
    BY <2>1
  <2> QED BY <2>1, <2>2 DEF Listing, Untaken
<1>4. ASSUME pc = "loop", alg \in BestOpen PROVE OpenSound
  <2>1. /\ Listing(ot, pos, nleft, Untaken) /\ nopen \in 0 .. nleft /\ nleft \in Nat /\ Turns = turn
        /\ DOMAIN queue = {u \in Untaken : pos[u] < nopen}
        /\ turn > 0 => \A u \in Untaken : u \in DOMAIN queue <=> degrees[u] > 0
    BY <1>1, <1>4 DEF Opened, Turns, Listing
  <2>2. {ot[p] : p \in 0 .. nleft - 1} = Untaken
    BY <2>1 DEF Listing
  <2>3. {ot[p] : p \in 0 .. nopen - 1} = DOMAIN queue
    <3>1. \A p \in 0 .. nopen - 1 : p \in 0 .. nleft - 1 /\ p < nopen
      BY <2>1
    <3>2. ASSUME NEW p \in 0 .. nopen - 1 PROVE ot[p] \in DOMAIN queue
      BY <2>1, <3>1 DEF Listing
    <3>3. ASSUME NEW u \in DOMAIN queue PROVE pos[u] \in 0 .. nopen - 1 /\ ot[pos[u]] = u
      <4>1. u \in Untaken /\ pos[u] < nopen /\ pos[u] \in 0 .. nleft - 1 /\ ot[pos[u]] = u
        BY <2>1 DEF Listing
      <4> QED BY <2>1, <4>1
    <3> QED BY <3>2, <3>3
  <2>4. \A p \in 0 .. nleft - 1 : pos[ot[p]] = p
    BY <2>1 DEF Listing
  <2> QED BY <2>1, <2>2, <2>3, <2>4 DEF OpenSound, Untaken
<1>5. ASSUME pc = "done", NEW u \in Vertex PROVE perm[u] \in Vertex /\ iperm[perm[u]] = u
  <2>1. /\ turn = nvtxs /\ Turns = nvtxs /\ perm \in [Vertex -> -1 .. nvtxs - 1]
        /\ iperm = [p \in Vertex |-> CHOOSE w \in Vertex : perm[w] = p]
        /\ \A x, w \in Vertex : perm[x] = perm[w] /\ perm[x] # -1 => x = w
    BY <1>1, <1>5 DEF Ranked, Turns
  <2>2. perm[u] # -1
    BY <1>1, <2>1, TurnsLeft DEF Untaken
  <2>3. perm[u] \in Vertex
    BY <2>1, <2>2, VertexFacts
  <2>4. \A w \in Vertex : perm[w] = perm[u] => w = u
    BY <2>1, <2>2
  <2>5. iperm[perm[u]] = CHOOSE w \in Vertex : perm[w] = perm[u]
    BY <2>1, <2>3
  <2> QED BY <2>3, <2>4, <2>5
<1>6. ChecksHold
  BY <1>2, <1>3 DEF ChecksHold
<1> QED BY <1>4, <1>5, <1>6 DEF ListsAgree

(* The best-first orders, whatever the keys: none of the checks of         *)
(* gk_graph_ComputeBestFOrdering and its twin of csr.c, which end in       *)
(* gk_errexit, ever fails; open and closed vertices are kept apart in one  *)
(* array; and every vertex gets one place of the order, whose inverse is   *)
(* returned.                                                               *)
THEOREM ListsTheorem == BestSpec => []ListsAgree
BY InitListsInv, NextListsInv, ListsInvAgree, PTL DEF BestSpec
-----------------------------------------------------------------------------
(* SumFunctionOnSet takes the elements of a set one after the other, each  *)
(* time the one CHOOSE gives. Sub(S, n) are its parts of at most n         *)
(* elements, and Adder(g, f, S, n) says that g sums f over those.          *)
One(s) == CHOOSE x \in s : TRUE
Sub(S, n) == {s \in SUBSET S : Cardinality(s) <= n}
SumStep(g, f, s) == IF s = {} THEN 0 ELSE f[One(s)] + g[s \ {One(s)}]
Adder(g, f, S, n) == \A s \in Sub(S, n) : g[s] = SumStep(g, f, s) /\ g[s] \in Int
Summable(f, S) == IsFiniteSet(S) /\ \A x \in S : f[x] \in Int
SumOn(f, S) == SumFunctionOnSet(f, S)

LEMMA PartFacts ==
  ASSUME NEW S, IsFiniteSet(S), NEW s \in SUBSET S
  PROVE  /\ IsFiniteSet(s) /\ Cardinality(s) \in Nat /\ (Cardinality(s) = 0 <=> s = {})
         /\ \A x \in s : /\ s \ {x} \in SUBSET S /\ IsFiniteSet(s \ {x})
                         /\ Cardinality(s \ {x}) = Cardinality(s) - 1
         /\ s # {} => One(s) \in s
<1>1. IsFiniteSet(s) /\ Cardinality(s) \in Nat
  BY FS_Subset, FS_CardinalityType
<1> QED BY <1>1, FS_EmptySet, FS_RemoveElement DEF One

LEMMA AdderExists ==
  ASSUME NEW S, NEW f, Summable(f, S)
  PROVE  \A n \in Nat : \E g : Adder(g, f, S, n)
<1> DEFINE N == {n \in Nat : \E g : Adder(g, f, S, n)}
<1>1. 0 \in N
  <2> DEFINE g == [s \in SUBSET S |-> 0]
  <2>1. ASSUME NEW s \in Sub(S, 0) PROVE g[s] = SumStep(g, f, s) /\ g[s] \in Int
    <3>1. s \in SUBSET S /\ s = {}
      BY PartFacts DEF Sub, Summable
    <3> QED BY <3>1 DEF SumStep
  <2> HIDE DEF g
  <2> QED BY <2>1 DEF Adder
<1>2. ASSUME NEW n \in Nat, n \in N PROVE n + 1 \in N
  <2>1. PICK g : Adder(g, f, S, n)
    BY <1>2
  <2> DEFINE h == [s \in SUBSET S |-> IF Cardinality(s) <= n THEN g[s] ELSE SumStep(g, f, s)]
  <2>2. \A s \in SUBSET S : h[s] = IF Cardinality(s) <= n THEN g[s] ELSE SumStep(g, f, s)
    OBVIOUS
  <2> HIDE DEF h
  <2>3. ASSUME NEW s \in Sub(S, n + 1) PROVE h[s] = SumStep(h, f, s) /\ h[s] \in Int
    <3>1. s \in SUBSET S /\ Cardinality(s) <= n + 1 /\ Cardinality(s) \in Nat
      BY PartFacts DEF Sub, Summable
    <3>2. h[s] = SumStep(g, f, s)
      BY <2>1, <2>2, <3>1 DEF Adder, Sub
    <3>3. CASE s = {}
      BY <3>2, <3>3 DEF SumStep
    <3>4. CASE s # {}
      <4>1. /\ One(s) \in s /\ s \ {One(s)} \in SUBSET S
            /\ Cardinality(s \ {One(s)}) = Cardinality(s) - 1
        BY <3>1, <3>4, PartFacts DEF Summable
      <4>2. Cardinality(s \ {One(s)}) <= n
        BY <3>1, <4>1
      <4>3. h[s \ {One(s)}] = g[s \ {One(s)}] /\ g[s \ {One(s)}] \in Int
        BY <2>1, <2>2, <4>1, <4>2 DEF Adder, Sub
      <4>4. f[One(s)] \in Int
        BY <3>1, <4>1 DEF Summable
      <4> QED BY <3>2, <3>4, <4>3, <4>4 DEF SumStep
    <3> QED BY <3>3, <3>4
  <2> QED BY <2>3 DEF Adder
<1> HIDE DEF N
<1>3. Nat \subseteq N
  BY <1>1, <1>2, Inductive
<1> QED BY <1>3 DEF N

(* Whatever sums f sums it to the same, over sets with a common part.      *)
LEMMA AddersAgree ==
  ASSUME NEW S, NEW T, NEW f, NEW h, IsFiniteSet(S), IsFiniteSet(T), NEW n \in Nat,
         NEW g, Adder(g, f, S, n), NEW k, Adder(k, h, T, n),
         NEW s \in SUBSET S, s \in SUBSET T, Cardinality(s) <= n, \A x \in s : f[x] = h[x]
  PROVE  g[s] = k[s]
<1> DEFINE N == {m \in Nat : \A t \in SUBSET s : Cardinality(t) = m => g[t] = k[t]}
<1>0. /\ IsFiniteSet(s) /\ Cardinality(s) \in Nat
      /\ \A t \in SUBSET s : t \in Sub(S, n) /\ t \in Sub(T, n)
  <2>1. IsFiniteSet(s) /\ Cardinality(s) \in Nat
    BY PartFacts
  <2>2. ASSUME NEW t \in SUBSET s PROVE Cardinality(t) <= n
    <3>1. Cardinality(t) <= Cardinality(s) /\ Cardinality(t) \in Nat
      BY <2>1, FS_Subset, FS_CardinalityType
    <3> QED BY <2>1, <3>1
  <2> QED BY <2>1, <2>2 DEF Sub
<1>1. 0 \in N
  <2> SUFFICES ASSUME NEW t \in SUBSET s, Cardinality(t) = 0 PROVE g[t] = k[t]
    OBVIOUS
  <2>1. t = {}
    BY <1>0, PartFacts
  <2> QED BY <1>0, <2>1 DEF Adder, SumStep
<1>2. ASSUME NEW m \in Nat, m \in N PROVE m + 1 \in N
  <2> SUFFICES ASSUME NEW t \in SUBSET s, Cardinality(t) = m + 1 PROVE g[t] = k[t]
    OBVIOUS
  <2>1. t # {} /\ One(t) \in t /\ t \ {One(t)} \in SUBSET s /\ Cardinality(t \ {One(t)}) = m
    <3>1. t # {}
      <4>1. Cardinality(t) = 0 <=> t = {}
        BY <1>0, PartFacts
      <4> QED BY <1>2, <4>1
    <3>2. One(t) \in t /\ Cardinality(t \ {One(t)}) = Cardinality(t) - 1
      BY <1>0, <3>1, PartFacts
    <3> QED BY <1>2, <3>1, <3>2
  <2>2. g[t \ {One(t)}] = k[t \ {One(t)}]
    BY <1>2, <2>1
  <2>3. f[One(t)] = h[One(t)]
    BY <2>1
  <2> QED BY <1>0, <2>1, <2>2, <2>3 DEF Adder, SumStep
<1> HIDE DEF N
<1>3. Nat \subseteq N
  BY <1>1, <1>2, Inductive
<1> QED BY <1>0, <1>3 DEF N

LEMMA SumAdds ==
  ASSUME NEW S, NEW f, Summable(f, S)
  PROVE  \E g : Adder(g, f, S, Cardinality(S)) /\ SumOn(f, S) = g[S]
<1> DEFINE IsSum(g) == g = [s \in SUBSET S |-> SumStep(g, f, s)]
           G == CHOOSE g : IsSum(g)
<1>1. SumOn(f, S) = G[S]
  BY DEF SumOn, SumFunctionOnSet, FoldFunctionOnSet, MapThenFoldSet, SumStep, One
<1>2. Cardinality(S) \in Nat /\ \A s \in SUBSET S : s \in Sub(S, Cardinality(S))
  BY FS_CardinalityType, FS_Subset DEF Summable, Sub
<1>3. PICK g : Adder(g, f, S, Cardinality(S))
  BY <1>2, AdderExists
<1> DEFINE h == [s \in SUBSET S |-> g[s]]
<1>4. /\ h = [s \in SUBSET S |-> g[s]] /\ \A s \in SUBSET S : h[s] = g[s]
  OBVIOUS
<1>5. \A s \in SUBSET S : SumStep(h, f, s) = SumStep(g, f, s)
  BY <1>4, PartFacts DEF Summable, SumStep
<1>6. \A s \in SUBSET S : g[s] = SumStep(h, f, s)
  BY <1>2, <1>3, <1>5 DEF Adder
<1> HIDE DEF h
<1>7. IsSum(h)
  BY <1>4, <1>6
<1>8. IsSum(G)
  BY <1>7
<1> HIDE DEF G
<1>9. \A s \in SUBSET S : G[s] = SumStep(G, f, s)
  BY <1>8
<1> HIDE DEF IsSum
<1> DEFINE N == {m \in Nat : \A s \in SUBSET S : Cardinality(s) = m => G[s] = g[s]}
<1>10. 0 \in N
  <2> SUFFICES ASSUME NEW s \in SUBSET S, Cardinality(s) = 0 PROVE G[s] = g[s]
    OBVIOUS
  <2>1. s = {}
    BY PartFacts DEF Summable
  <2> QED BY <1>2, <1>3, <1>9, <2>1 DEF Adder, SumStep
<1>11. ASSUME NEW m \in Nat, m \in N PROVE m + 1 \in N
  <2> SUFFICES ASSUME NEW s \in SUBSET S, Cardinality(s) = m + 1 PROVE G[s] = g[s]
    OBVIOUS
  <2>1. s # {} /\ s \ {One(s)} \in SUBSET S /\ Cardinality(s \ {One(s)}) = m
    BY PartFacts DEF Summable
  <2>2. G[s \ {One(s)}] = g[s \ {One(s)}]
    BY <1>11, <2>1
  <2> QED BY <1>2, <1>3, <1>9, <2>1, <2>2 DEF Adder, SumStep
<1> HIDE DEF N
<1>12. Nat \subseteq N
  BY <1>10, <1>11, Inductive
<1>13. G[S] = g[S]
  BY <1>2, <1>12 DEF N
<1> QED BY <1>1, <1>3, <1>13

(* A sum depends on the values over its set alone.                         *)
LEMMA SumSame ==
  ASSUME NEW S, NEW f, NEW h, Summable(f, S), \A x \in S : f[x] = h[x]
  PROVE  SumOn(f, S) = SumOn(h, S) /\ SumOn(f, S) \in Int
<1>1. Summable(h, S)
  BY DEF Summable
<1>2. PICK g : Adder(g, f, S, Cardinality(S)) /\ SumOn(f, S) = g[S]
  BY SumAdds
<1>3. PICK k : Adder(k, h, S, Cardinality(S)) /\ SumOn(h, S) = k[S]
  BY <1>1, SumAdds
<1>4. IsFiniteSet(S) /\ Cardinality(S) \in Nat /\ S \in Sub(S, Cardinality(S))
  BY FS_CardinalityType DEF Summable, Sub
<1>5. g[S] = k[S]
  BY <1>2, <1>3, <1>4, AddersAgree
<1> QED BY <1>2, <1>3, <1>4, <1>5 DEF Adder

(* Its elements may be taken in any order.                                 *)
LEMMA SumAny ==
  ASSUME NEW S, NEW f, Summable(f, S), NEW n \in Nat, NEW g, Adder(g, f, S, n)
  PROVE  \A s \in Sub(S, n) : \A x \in s : g[s] = f[x] + g[s \ {x}]
<1> DEFINE N == {m \in Nat : \A s \in Sub(S, n) :
                   Cardinality(s) = m => \A x \in s : g[s] = f[x] + g[s \ {x}]}
<1>0. \A s \in Sub(S, n) : /\ s \in SUBSET S /\ Cardinality(s) \in Nat /\ Cardinality(s) <= n
                           /\ g[s] = SumStep(g, f, s) /\ g[s] \in Int
  BY PartFacts DEF Sub, Summable, Adder
<1>1. 0 \in N
  BY <1>0, PartFacts DEF Summable
<1>2. ASSUME NEW m \in Nat, m \in N PROVE m + 1 \in N
  <2> SUFFICES ASSUME NEW s \in Sub(S, n), Cardinality(s) = m + 1, NEW x \in s
               PROVE  g[s] = f[x] + g[s \ {x}]
    OBVIOUS
  <2> DEFINE y == One(s)
             r == s \ {x, y}
  <2>1. /\ y \in s /\ g[s] = f[y] + g[s \ {y}]
    BY <1>0, PartFacts DEF Summable, SumStep
  <2>2. CASE x = y
    BY <2>1, <2>2
  <2>3. CASE x # y
    <3>1. /\ s \ {x} \in Sub(S, n) /\ s \ {y} \in Sub(S, n)
          /\ Cardinality(s \ {x}) = m /\ Cardinality(s \ {y}) = m
      <4>1. s \in SUBSET S /\ Cardinality(s) <= n
        BY <1>0
      <4>2. /\ s \ {x} \in SUBSET S /\ Cardinality(s \ {x}) = m
            /\ s \ {y} \in SUBSET S /\ Cardinality(s \ {y}) = m
        BY <2>1, <4>1, PartFacts DEF Summable
      <4> QED BY <4>1, <4>2 DEF Sub
    <3>2. g[s \ {x}] = f[y] + g[r] /\ g[s \ {y}] = f[x] + g[r]
      <4>1. y \in s \ {x} /\ x \in s \ {y} /\ (s \ {x}) \ {y} = r /\ (s \ {y}) \ {x} = r
        BY <2>1, <2>3
      <4> HIDE DEF y, r
      <4> QED BY <1>2, <3>1, <4>1
    <3>3. r \in Sub(S, n)
      <4>1. y \in s \ {x} /\ (s \ {x}) \ {y} = r
        BY <2>1, <2>3
      <4> HIDE DEF y, r
      <4>2. s \ {x} \in SUBSET S /\ Cardinality(s \ {x}) \in Nat /\ Cardinality(s \ {x}) <= n
        BY <1>0, <3>1
      <4>3. r \in SUBSET S /\ Cardinality(r) = Cardinality(s \ {x}) - 1
        BY <4>1, <4>2, PartFacts DEF Summable
      <4> QED BY <4>2, <4>3 DEF Sub
    <3>4. g[r] \in Int /\ f[x] \in Int /\ f[y] \in Int
      BY <1>0, <2>1, <3>3 DEF Summable
    <3> HIDE DEF y, r
    <3> QED BY <2>1, <3>2, <3>4
  <2> QED BY <2>2, <2>3
<1> HIDE DEF N
<1>3. Nat \subseteq N
  BY <1>1, <1>2, Inductive
<1> QED BY <1>0, <1>3 DEF N

(* The laws of sums: the empty one, and one element more.                  *)
LEMMA SumEmpty == ASSUME NEW f PROVE SumOn(f, {}) = 0
<1>1. Summable(f, {})
  BY FS_EmptySet DEF Summable
<1>2. PICK g : Adder(g, f, {}, Cardinality({})) /\ SumOn(f, {}) = g[{}]
  BY <1>1, SumAdds
<1>3. {} \in Sub({}, Cardinality({}))
  BY FS_EmptySet DEF Sub
<1> QED BY <1>2, <1>3 DEF Adder, SumStep

LEMMA SumMore ==
  ASSUME NEW S, NEW x, NEW f, Summable(f, S), x \notin S, f[x] \in Int
  PROVE  Summable(f, S \cup {x}) /\ SumOn(f, S \cup {x}) = SumOn(f, S) + f[x]
<1> DEFINE T == S \cup {x}
<1>1. /\ Summable(f, T) /\ IsFiniteSet(S) /\ IsFiniteSet(T) /\ Cardinality(T) = Cardinality(S) + 1
      /\ Cardinality(S) \in Nat /\ S \in SUBSET T /\ x \in T /\ T \ {x} = S
  BY FS_AddElement, FS_CardinalityType DEF Summable
<1> HIDE DEF T
<1>2. PICK g : Adder(g, f, T, Cardinality(T)) /\ SumOn(f, T) = g[T]
  BY <1>1, SumAdds
<1>3. PICK k : Adder(k, f, S, Cardinality(S)) /\ SumOn(f, S) = k[S]
  BY SumAdds
<1>4. T \in Sub(T, Cardinality(T)) /\ S \in Sub(T, Cardinality(T)) /\ S \in Sub(S, Cardinality(S))
  BY <1>1 DEF Sub
<1>5. g[T] = f[x] + g[S]
  BY <1>1, <1>2, <1>4, SumAny
<1>6. Adder(g, f, S, Cardinality(S))
  <2>1. ASSUME NEW s \in Sub(S, Cardinality(S)) PROVE s \in Sub(T, Cardinality(T))
    <3>1. s \in SUBSET S /\ Cardinality(s) <= Cardinality(S) /\ Cardinality(s) \in Nat
      BY <1>1, PartFacts DEF Sub
    <3>2. s \in SUBSET T /\ Cardinality(s) <= Cardinality(T)
      BY <1>1, <3>1
    <3> QED BY <3>2 DEF Sub
  <2> QED BY <1>2, <2>1 DEF Adder
<1>7. g[S] = k[S]
  BY <1>1, <1>3, <1>6, AddersAgree
<1>8. g[S] \in Int
  BY <1>2, <1>4 DEF Adder
<1>9. SumOn(f, T) = SumOn(f, S) + f[x]
  BY <1>2, <1>3, <1>5, <1>7, <1>8
<1> QED BY <1>1, <1>9 DEF T

LEMMA SumWith ==
  ASSUME NEW S, NEW x, NEW f, Summable(f, S), x \notin S, f[x] \in Int, NEW T, T = S \cup {x}
  PROVE  SumOn(f, T) = SumOn(f, S) + f[x]
<1>1. SumOn(f, S \cup {x}) = SumOn(f, S) + f[x]
  BY SumMore
<1> QED BY <1>1, Zenon

(* What holds of the empty set and of one element more holds of a finite   *)
(* set.                                                                    *)
LEMMA FiniteInduct ==
  ASSUME NEW S, IsFiniteSet(S), NEW P, {} \in P,
         \A T \in SUBSET S : T \in P => \A x \in S \ T : T \cup {x} \in P
  PROVE  S \in P
<1> DEFINE N == {n \in Nat : \A T \in SUBSET S : Cardinality(T) = n => T \in P}
<1>1. 0 \in N
  BY PartFacts
<1>2. ASSUME NEW n \in Nat, n \in N PROVE n + 1 \in N
  <2> SUFFICES ASSUME NEW T \in SUBSET S, Cardinality(T) = n + 1 PROVE T \in P
    OBVIOUS
  <2>1. T # {}
    <3>1. Cardinality(T) = 0 <=> T = {}
      BY PartFacts
    <3> QED BY <3>1
  <2>2. PICK x \in T : TRUE
    BY <2>1
  <2>3. T \ {x} \in SUBSET S /\ Cardinality(T \ {x}) = Cardinality(T) - 1
    BY PartFacts
  <2>4. T \ {x} \in P
    <3>1. Cardinality(T \ {x}) = n
      BY <1>2, <2>3
    <3> QED BY <1>2, <2>3, <3>1
  <2>5. x \in S \ (T \ {x}) /\ (T \ {x}) \cup {x} = T
    OBVIOUS
  <2> QED BY <2>3, <2>4, <2>5
<1> HIDE DEF N
<1>3. Nat \subseteq N /\ Cardinality(S) \in Nat /\ S \in SUBSET S
  BY <1>1, <1>2, Inductive, FS_CardinalityType
<1> QED BY <1>3 DEF N

LEMMA SumTyped ==
  ASSUME NEW S, NEW f, Summable(f, S)
  PROVE  SumOn(f, S) \in Int /\ \A T \in SUBSET S : Summable(f, T)
BY SumSame, FS_Subset DEF Summable

(* Sums of two sets without common elements, of equal values, and of       *)
(* values that each grow by one.                                           *)
LEMMA SumUnion ==
  ASSUME NEW S, NEW R, NEW f, Summable(f, S), Summable(f, R), S \cap R = {}
  PROVE  Summable(f, S \cup R) /\ SumOn(f, S \cup R) = SumOn(f, S) + SumOn(f, R)
<1> DEFINE P == {T \in SUBSET R : /\ Summable(f, S \cup T)
                                 /\ SumOn(f, S \cup T) = SumOn(f, S) + SumOn(f, T)}
<1>1. {} \in P
  <2>1. S \cup {} = S /\ SumOn(f, S) \in Int /\ SumOn(f, {}) = 0
    BY SumEmpty, SumTyped
  <2>2. SumOn(f, S) = SumOn(f, S) + SumOn(f, {})
    BY <2>1
  <2> QED BY <2>1, <2>2
<1>2. ASSUME NEW T \in SUBSET R, T \in P, NEW x \in R \ T PROVE T \cup {x} \in P
  <2>1. /\ x \notin S \cup T /\ x \notin T /\ f[x] \in Int
        /\ S \cup (T \cup {x}) = (S \cup T) \cup {x} /\ T \cup {x} \in SUBSET R
    BY DEF Summable
  <2>2. /\ Summable(f, T) /\ Summable(f, S \cup T)
        /\ SumOn(f, S \cup T) = SumOn(f, S) + SumOn(f, T)
    BY <1>2, SumTyped
  <2>3. SumOn(f, T \cup {x}) = SumOn(f, T) + f[x]
    BY <2>1, <2>2, SumMore
  <2>4. /\ Summable(f, (S \cup T) \cup {x})
        /\ SumOn(f, (S \cup T) \cup {x}) = SumOn(f, S \cup T) + f[x]
    BY <2>1, <2>2, SumMore
  <2>5. SumOn(f, S) \in Int /\ SumOn(f, T) \in Int
    BY <2>2, SumTyped
  <2>6. SumOn(f, S \cup (T \cup {x})) = SumOn(f, S) + SumOn(f, T \cup {x})
    <3>1. SumOn(f, (S \cup T) \cup {x}) = SumOn(f, S) + SumOn(f, T \cup {x})
      BY <2>1, <2>2, <2>3, <2>4, <2>5
    <3>2. (S \cup T) \cup {x} = S \cup (T \cup {x})
      OBVIOUS
    <3> QED BY <3>1, <3>2, Zenon
  <2> QED BY <2>1, <2>4, <2>6
<1>3. IsFiniteSet(R)
  BY DEF Summable
<1> HIDE DEF P
<1>4. R \in P
  BY <1>1, <1>2, <1>3, FiniteInduct
<1> QED BY <1>4 DEF P

LEMMA SumConstant ==
  ASSUME NEW S, NEW f, IsFiniteSet(S), NEW c \in Int, \A x \in S : f[x] = c
  PROVE  Summable(f, S) /\ SumOn(f, S) = Cardinality(S) * c
<1> DEFINE P == {T \in SUBSET S : SumOn(f, T) = Cardinality(T) * c}
<1>0. Summable(f, S)
  BY DEF Summable
<1>1. {} \in P
  BY SumEmpty, FS_EmptySet
<1>2. ASSUME NEW T \in SUBSET S, T \in P, NEW x \in S \ T PROVE T \cup {x} \in P
  <2>1. Summable(f, T) /\ x \notin T /\ f[x] = c
    BY <1>0, SumTyped
  <2>2. SumOn(f, T \cup {x}) = SumOn(f, T) + c
    BY <2>1, SumMore
  <2>3. /\ Cardinality(T) \in Nat /\ Cardinality(T \cup {x}) = Cardinality(T) + 1
    BY <2>1, FS_AddElement, FS_CardinalityType DEF Summable
  <2>4. \A n \in Nat : (n + 1) * c = n * c + c
    OBVIOUS
  <2> QED BY <1>2, <2>2, <2>3, <2>4
<1> HIDE DEF P
<1>4. S \in P
  BY <1>1, <1>2, FiniteInduct
<1> QED BY <1>0, <1>4 DEF P

LEMMA SumAged ==
  ASSUME NEW S, NEW f, Summable(f, S), NEW g, \A x \in S : g[x] = f[x] + 1
  PROVE  Summable(g, S) /\ SumOn(g, S) = SumOn(f, S) + Cardinality(S)
<1> DEFINE P == {T \in SUBSET S : SumOn(g, T) = SumOn(f, T) + Cardinality(T)}
<1>0. Summable(g, S)
  BY DEF Summable
<1>1. {} \in P
  <2>1. SumOn(f, {}) = 0 /\ SumOn(g, {}) = 0 /\ Cardinality({}) = 0
    BY SumEmpty, FS_EmptySet
  <2> QED BY <2>1
<1>2. ASSUME NEW T \in SUBSET S, T \in P, NEW x \in S \ T PROVE T \cup {x} \in P
  <2>1. Summable(f, T) /\ Summable(g, T) /\ x \notin T /\ f[x] \in Int /\ g[x] = f[x] + 1
    BY <1>0, SumTyped DEF Summable
  <2>2. SumOn(f, T \cup {x}) = SumOn(f, T) + f[x] /\ SumOn(g, T \cup {x}) = SumOn(g, T) + g[x]
    <3>1. g[x] \in Int
      BY <2>1
    <3>2. SumOn(f, T \cup {x}) = SumOn(f, T) + f[x]
      BY <2>1, SumMore
    <3>3. SumOn(g, T \cup {x}) = SumOn(g, T) + g[x]
      BY <2>1, <3>1, SumMore
    <3> QED BY <3>2, <3>3
  <2>3. /\ Cardinality(T) \in Nat /\ Cardinality(T \cup {x}) = Cardinality(T) + 1
    BY <2>1, FS_AddElement, FS_CardinalityType DEF Summable
  <2>4. SumOn(f, T) \in Int
    BY <2>1, SumTyped
  <2>5. SumOn(g, T) = SumOn(f, T) + Cardinality(T)
    BY <1>2
  <2>6. SumOn(g, T \cup {x}) = SumOn(f, T \cup {x}) + Cardinality(T \cup {x})
    BY <2>1, <2>2, <2>3, <2>4, <2>5
  <2> QED BY <2>6
<1> HIDE DEF P
<1>4. S \in P
  <2>1. IsFiniteSet(S)
    BY DEF Summable
  <2> QED BY <1>1, <1>2, <2>1, FiniteInduct
<1> QED BY <1>0, <1>4 DEF P
-----------------------------------------------------------------------------
(* The edges from vertices taken into u that were seen, and with them the  *)
(* edges that come from the same vertices.                                 *)
Unseen(e) == pc = "see" /\ e[1] = v /\ e[2] > Len(adj[v]) - Len(edges)
Seen(u) == {e \in Into(u) : ~Unseen(e)}
Met(u) == {e \in Into(u) : \E f \in Seen(u) : f[1] = e[1]}
Greatest(u, e) == e \in Seen(u) /\ \A f \in Seen(u) : perm[f[1]] <= perm[e[1]]
OrderOf == [e \in Vertex \X Nat |-> perm[e[1]]]
AgeOf(t) == [e \in Vertex \X Nat |-> t - perm[e[1]]]

Sights ==
  /\ degrees \in [Vertex -> Nat]
  /\ \A u \in Untaken : degrees[u] = Cardinality(Seen(u))
  /\ pc = "see" => /\ v \in Vertex /\ perm[v] = turn /\ Len(edges) <= Len(adj[v])
                   /\ \A i \in 1 .. Len(edges) : edges[i] = adj[v][Len(adj[v]) - Len(edges) + i]

OpenSums ==
  /\ wdegrees \in [Vertex -> Int] /\ sod \in [Vertex -> Int] /\ level \in [Vertex -> Int]
  /\ \A u \in Untaken :
       /\ type = 3 => wdegrees[u] = SumOn(OrderOf, Seen(u))
       /\ type = 4 => sod[u] = SumOn(AgeOf(turn), Seen(u))

OpenKey(u, p) ==
  /\ type = 1 => queue[u] = 1000 * (p + 1) + degrees[u]
  /\ type = 2 => queue[u] = degrees[u]
  /\ type = 3 => queue[u] = IF alg = "gk_graph_ComputeBestFOrdering" THEN ISqrt(wdegrees[u])
                                                                   ELSE wdegrees[u]
  /\ type = 5 => queue[u] = degrees[u] - 1000 * level[u]
  /\ type = 6 => queue[u] = (p + 1) * degrees[u]
AnyKey(u, p) ==
  /\ type = 1 => queue[u] = 1
  /\ type = 2 => queue[u] = degrees[u]
  /\ type = 3 => queue[u] = SumOn(OrderOf, Met(u))
  /\ type = 4 => queue[u] = SumOn(AgeOf(p), Met(u))

OpenKeys ==
  Turns > 0 => \A u \in DOMAIN queue : \E e \in Seen(u) : Greatest(u, e) /\ OpenKey(u, perm[e[1]])
(* The key of type 4 of an open vertex is the sum of the ages its edges had*)
(* at the last update: r is the turn after it, and later edges count as 0. *)
ShownAt(p, r) == IF p < r THEN r - p ELSE 0
KeyShown(u, r) ==
  \E f, S : /\ S = Seen(u) /\ Summable(f, S) /\ queue[u] = SumOn(f, S)
            /\ \A e \in S : f[e] = ShownAt(perm[e[1]], r)
LateKeys ==
  type = 4 => \E r : /\ LastUpdate(r, turn)
                     /\ Turns > 0 => \A u \in DOMAIN queue : KeyShown(u, r)
AnyKeys ==
  Turns > 0 => \A u \in DOMAIN queue :
    IF Seen(u) = {} THEN queue[u] = 0
    ELSE \E e \in Seen(u) : Greatest(u, e) /\ AnyKey(u, perm[e[1]])
AllQueued ==
  /\ pc = "call" => v \in Vertex
  /\ pc = "loop" /\ turn = 0 => v \in Vertex /\ queue = [All(0) EXCEPT ![v] = 1]

KeysInv ==
  /\ type \in 1 .. 6 /\ (alg \in BestAll => type \in 1 .. 4)
  /\ alg \in Best /\ pc # "done" => Sights
  /\ alg \in BestOpen /\ pc # "done" => OpenSums /\ OpenKeys /\ LateKeys
  /\ alg \in BestAll /\ pc # "done" /\ Symmetric => AnyKeys /\ AllQueued

(* The edges into u are pairs of a vertex taken and a place of its list.   *)
LEMMA IntoIs ==
  ASSUME adj \in [Vertex -> Seq(Vertex)], NEW u
  PROVE  /\ \A e : e \in Into(u) <=> /\ e = <<e[1], e[2]>> /\ e[1] \in Vertex /\ perm[e[1]] # -1
                                     /\ e[2] \in DOMAIN adj[e[1]] /\ adj[e[1]][e[2]] = u
         /\ Into(u) \subseteq Vertex \X Nat
         /\ IsFiniteSet(Into(u))
         /\ \A w \in Vertex : IsFiniteSet(DOMAIN adj[w]) /\ IsFiniteSet(Entries(w, u))
<1>1. \A w \in Vertex : DOMAIN adj[w] = 1 .. Len(adj[w]) /\ Len(adj[w]) \in Nat
  OBVIOUS
<1>2. \A w \in Vertex : DOMAIN adj[w] \subseteq Nat
  BY <1>1
<1>3. \A e : e \in Into(u) <=> \E w \in Vertex : perm[w] # -1 /\ e \in {w} \X Entries(w, u)
  BY DEF Into
<1>4. \A e : e \in Into(u) <=> /\ e = <<e[1], e[2]>> /\ e[1] \in Vertex /\ perm[e[1]] # -1
                               /\ e[2] \in DOMAIN adj[e[1]] /\ adj[e[1]][e[2]] = u
  BY <1>3 DEF Entries
<1>5. Into(u) \subseteq Vertex \X Nat
  BY <1>2, <1>4
<1>6. ASSUME NEW w \in Vertex PROVE IsFiniteSet(DOMAIN adj[w]) /\ IsFiniteSet(Entries(w, u))
  <2>1. IsFiniteSet(DOMAIN adj[w])
    BY <1>1, FS_Interval
  <2>2. Entries(w, u) \in SUBSET (DOMAIN adj[w])
    BY DEF Entries
  <2> QED BY <2>1, <2>2, FS_Subset
<1>7. IsFiniteSet(Into(u))
  <2> DEFINE part(W) == {e \in Into(u) : e[1] \in W}
             P == {W \in SUBSET Vertex : IsFiniteSet(part(W))}
  <2>1. {} \in P
    <3>1. part({}) = {}
      OBVIOUS
    <3> HIDE DEF part
    <3> QED BY <3>1, FS_EmptySet
  <2>2. ASSUME NEW W \in SUBSET Vertex, W \in P, NEW w \in Vertex \ W PROVE W \cup {w} \in P
    <3>1. IsFiniteSet(part(W)) /\ IsFiniteSet({w} \X Entries(w, u))
      BY <1>6, <2>2, FS_Singleton, FS_Product
    <3>2. IsFiniteSet(part(W) \cup ({w} \X Entries(w, u)))
      BY <3>1, FS_Union
    <3>3. part(W \cup {w}) \in SUBSET (part(W) \cup ({w} \X Entries(w, u)))
      <4> SUFFICES ASSUME NEW e \in part(W \cup {w}), e \notin part(W) PROVE e \in {w} \X Entries(w, u)
        OBVIOUS
      <4>1. e[1] = w /\ e = <<e[1], e[2]>> /\ e[2] \in Entries(e[1], u)
        BY <1>4 DEF Entries
      <4> QED BY <4>1
    <3> HIDE DEF part
    <3>4. IsFiniteSet(part(W \cup {w}))
      BY <3>2, <3>3, FS_Subset
    <3> QED BY <3>4
  <2>3. part(Vertex) = Into(u)
    BY <1>4
  <2> HIDE DEF P
  <2>4. Vertex \in P
    BY <2>1, <2>2, UntakenFinite, FiniteInduct
  <2> HIDE DEF part
  <2> QED BY <2>3, <2>4 DEF P
<1> QED BY <1>4, <1>5, <1>6, <1>7

(* Sums over edges from vertices taken are of integers.                    *)
LEMMA SeenFacts ==
  ASSUME Ranked, NEW u
  PROVE  /\ Seen(u) \subseteq Into(u) /\ Seen(u) \subseteq Met(u) /\ Met(u) \subseteq Into(u)
         /\ IsFiniteSet(Into(u)) /\ IsFiniteSet(Seen(u)) /\ IsFiniteSet(Met(u))
         /\ Cardinality(Seen(u)) \in Nat /\ (Cardinality(Seen(u)) = 0 <=> Seen(u) = {})
         /\ \A e \in Into(u) : /\ e \in Vertex \X Nat /\ e[1] \in Vertex
                               /\ perm[e[1]] \in Nat /\ perm[e[1]] \in Vertex /\ perm[e[1]] < Turns
         /\ pc # "see" => Seen(u) = Into(u) /\ Met(u) = Into(u)
<1>1. adj \in [Vertex -> Seq(Vertex)] /\ perm \in [Vertex -> -1 .. nvtxs - 1]
      /\ \A w \in Vertex : perm[w] < Turns
  BY DEF Ranked
<1>2. Seen(u) \subseteq Into(u) /\ Seen(u) \subseteq Met(u) /\ Met(u) \subseteq Into(u)
  BY DEF Seen, Met
<1>3. IsFiniteSet(Into(u)) /\ Seen(u) \in SUBSET Into(u) /\ Met(u) \in SUBSET Into(u)
  BY <1>1, <1>2, IntoIs
<1>4. IsFiniteSet(Seen(u)) /\ IsFiniteSet(Met(u)) /\ Cardinality(Seen(u)) \in Nat
  BY <1>3, FS_Subset, FS_CardinalityType
<1>5. Cardinality(Seen(u)) = 0 <=> Seen(u) = {}
  BY <1>4, FS_EmptySet
<1>6. ASSUME NEW e \in Into(u)
      PROVE  /\ e \in Vertex \X Nat /\ e[1] \in Vertex
             /\ perm[e[1]] \in Nat /\ perm[e[1]] \in Vertex /\ perm[e[1]] < Turns
  <2>1. e \in Vertex \X Nat /\ e[1] \in Vertex /\ perm[e[1]] # -1
    BY <1>1, IntoIs
  <2>2. perm[e[1]] \in -1 .. nvtxs - 1 /\ perm[e[1]] < Turns
    BY <1>1, <2>1
  <2> QED BY <2>1, <2>2, VertexFacts
<1>7. pc # "see" => Seen(u) = Into(u) /\ Met(u) = Into(u)
  BY DEF Seen, Met, Unseen
<1> QED BY <1>2, <1>3, <1>4, <1>5, <1>6, <1>7

LEMMA OrdersSum ==
  ASSUME Ranked, NEW u, NEW S, S \subseteq Into(u), NEW t \in Int
  PROVE  /\ Summable(OrderOf, S) /\ Summable(AgeOf(t), S)
         /\ \A e \in S : OrderOf[e] = perm[e[1]] /\ AgeOf(t)[e] = t - perm[e[1]]
<1>1. IsFiniteSet(S)
  BY SeenFacts, FS_Subset
<1>2. ASSUME NEW e \in S
      PROVE  /\ OrderOf[e] = perm[e[1]] /\ AgeOf(t)[e] = t - perm[e[1]]
             /\ OrderOf[e] \in Int /\ AgeOf(t)[e] \in Int
  <2>1. e \in Vertex \X Nat /\ perm[e[1]] \in Nat
    BY SeenFacts
  <2>2. OrderOf[e] = perm[e[1]] /\ AgeOf(t)[e] = t - perm[e[1]]
    BY <2>1 DEF OrderOf, AgeOf
  <2> QED BY <2>1, <2>2
<1> QED BY <1>1, <1>2 DEF Summable

(* A vertex is taken, and nothing of its list is seen yet.                 *)
LEMMA SeenTaking ==
  ASSUME Ranked, pc = "loop", pc' = "see", adj' = adj, NEW w \in Vertex, perm[w] = -1,
         perm' = [perm EXCEPT ![w] = turn], v' = w, edges' = adj[w], NEW u
  PROVE  /\ Seen(u)' = Seen(u) /\ Met(u)' = Met(u)
         /\ \A e \in Seen(u) : perm'[e[1]] = perm[e[1]]
         /\ \A e \in Met(u) : perm'[e[1]] = perm[e[1]]
<1>1. adj \in [Vertex -> Seq(Vertex)] /\ adj' \in [Vertex -> Seq(Vertex)] /\ turn # -1
      /\ perm \in [Vertex -> -1 .. nvtxs - 1]
  BY DEF Ranked
<1>2. perm'[w] # -1 /\ \A x \in Vertex \ {w} : perm'[x] = perm[x]
  BY <1>1
<1>3. \A e : e \in Into(u) <=> /\ e = <<e[1], e[2]>> /\ e[1] \in Vertex /\ perm[e[1]] # -1
                               /\ e[2] \in DOMAIN adj[e[1]] /\ adj[e[1]][e[2]] = u
  BY <1>1, IntoIs
<1>4. \A e : e \in Into(u)' <=> /\ e = <<e[1], e[2]>> /\ e[1] \in Vertex /\ perm'[e[1]] # -1
                                /\ e[2] \in DOMAIN adj[e[1]] /\ adj[e[1]][e[2]] = u
  <2>1. \A e : e \in Into(u)' <=> \E x \in Vertex : perm'[x] # -1 /\ e \in {x} \X (Entries(x, u)')
    BY DEF Into
  <2>2. \A x : Entries(x, u)' = Entries(x, u)
    BY DEF Entries
  <2> QED BY <2>1, <2>2 DEF Entries
<1>5. \A e \in Into(u) : e[1] # w /\ e[1] \in Vertex /\ perm'[e[1]] = perm[e[1]]
  BY <1>2, <1>3
<1>6. \A e \in Into(u)' : e[1] = w \/ e \in Into(u)
  BY <1>2, <1>3, <1>4
<1>7. Into(u) \subseteq Into(u)'
  BY <1>3, <1>4, <1>5
<1>8. Seen(u) = Into(u) /\ Met(u) = Into(u)
  BY SeenFacts
<1>9. \A e \in Into(u)' : Unseen(e)' <=> e[1] = w
  <2> SUFFICES ASSUME NEW e \in Into(u)', e[1] = w PROVE Unseen(e)'
    BY DEF Unseen
  <2>1. e[2] \in DOMAIN adj[w] /\ DOMAIN adj[w] = 1 .. Len(adj[w]) /\ Len(adj[w]) \in Nat
    BY <1>1, <1>4
  <2>2. e[2] > Len(adj[w]) - Len(adj[w])
    BY <2>1
  <2> QED BY <2>2 DEF Unseen
<1>10. Seen(u)' = Seen(u)
  <2>1. Seen(u)' = {e \in Into(u)' : e[1] # w}
    BY <1>9 DEF Seen
  <2> QED BY <1>5, <1>6, <1>7, <1>8, <2>1
<1>11. Met(u)' = Met(u)
  <2>1. Met(u)' = {e \in Into(u)' : \E f \in Into(u) : f[1] = e[1]}
    BY <1>8, <1>10 DEF Met
  <2> QED BY <1>5, <1>6, <1>7, <1>8, <2>1
<1> QED BY <1>5, <1>8, <1>10, <1>11

(* An entry of the vertex taken is seen.                                   *)
LEMMA SeenNext ==
  ASSUME Ranked, Sights, pc = "see", pc' = "see", edges # <<>>, edges' = Tail(edges),
         UNCHANGED <<adj, perm, v, turn>>,
         NEW u, u = Head(edges), NEW c, c = Len(adj[v]) - Len(edges) + 1, NEW e, e = <<v, c>>
  PROVE  /\ u \in Vertex /\ v \in Vertex /\ perm[v] = turn /\ Into(u)' = Into(u)
         /\ e \notin Seen(u) /\ e \in Into(u) /\ e[1] = v /\ Seen(u)' = Seen(u) \cup {e}
         /\ Met(u)' = Into(u)
         /\ \A x \in Vertex : x # u => Seen(x)' = Seen(x) /\ Met(x)' = Met(x)
         /\ Len(edges') <= Len(adj[v])
         /\ \A i \in 1 .. Len(edges') : edges'[i] = adj[v][Len(adj[v]) - Len(edges') + i]
<1>1. /\ v \in Vertex /\ perm[v] = turn /\ Len(edges) <= Len(adj[v]) /\ turn # -1
      /\ \A i \in 1 .. Len(edges) : edges[i] = adj[v][Len(adj[v]) - Len(edges) + i]
      /\ adj \in [Vertex -> Seq(Vertex)] /\ edges \in Seq(Vertex)
  <2>1. /\ v \in Vertex /\ perm[v] = turn /\ Len(edges) <= Len(adj[v])
        /\ \A i \in 1 .. Len(edges) : edges[i] = adj[v][Len(adj[v]) - Len(edges) + i]
    BY DEF Sights
  <2>2. turn # -1 /\ adj \in [Vertex -> Seq(Vertex)] /\ edges \in Seq(Vertex)
    BY DEF Ranked
  <2> QED BY <2>1, <2>2
<1>2. /\ Len(edges) \in Nat /\ Len(edges) # 0 /\ Len(adj[v]) \in Nat
      /\ DOMAIN adj[v] = 1 .. Len(adj[v]) /\ \A j \in DOMAIN adj[v] : adj[v][j] \in Vertex
  BY <1>1, EmptySeq
<1>3. /\ edges' \in Seq(Vertex) /\ Len(edges') = Len(edges) - 1 /\ u = edges[1]
      /\ \A i \in 1 .. Len(edges) - 1 : edges'[i] = edges[i + 1]
  BY <1>1, HeadTailProperties
<1>4. /\ c \in 1 .. Len(adj[v]) /\ Len(adj[v]) - Len(edges') = c /\ 1 \in 1 .. Len(edges)
      /\ Len(edges') <= Len(adj[v])
  <2> DEFINE A == Len(adj[v])  E == Len(edges)  F == Len(edges')
  <2>1. A \in Nat /\ E \in Nat /\ E # 0 /\ E <= A /\ F = E - 1 /\ c = A - E + 1
    BY <1>1, <1>2, <1>3
  <2> HIDE DEF A, E, F
  <2>2. c \in 1 .. A /\ A - F = c /\ 1 \in 1 .. E /\ F <= A
    BY <2>1
  <2> QED BY <2>2 DEF A, E, F
<1>5. c \in DOMAIN adj[v] /\ adj[v][c] = u /\ u \in Vertex
  BY <1>1, <1>2, <1>3, <1>4
<1>6. \A i \in 1 .. Len(edges') : edges'[i] = adj[v][Len(adj[v]) - Len(edges') + i]
  <2> TAKE i \in 1 .. Len(edges')
  <2> DEFINE A == Len(adj[v])  E == Len(edges)  F == Len(edges')
  <2>1. A \in Nat /\ E \in Nat /\ F = E - 1 /\ i \in Nat /\ 1 <= i /\ i <= E - 1
    BY <1>2, <1>3
  <2> HIDE DEF A, E, F
  <2>2. i + 1 \in 1 .. E /\ i \in 1 .. E - 1 /\ A - F + i = A - E + (i + 1)
    BY <2>1
  <2>3. /\ i + 1 \in 1 .. Len(edges) /\ i \in 1 .. Len(edges) - 1
        /\ Len(adj[v]) - Len(edges') + i = Len(adj[v]) - Len(edges) + (i + 1)
    BY <2>2 DEF A, E, F
  <2> QED BY <1>1, <1>3, <2>3
<1>7. \A x : Into(x)' = Into(x)
  BY DEF Into, Entries
<1>8. e[1] = v /\ e[2] = c /\ e \in Into(u)
  <2>1. e = <<e[1], e[2]>> /\ e[1] = v /\ e[2] = c
    OBVIOUS
  <2>2. /\ e[1] \in Vertex /\ perm[e[1]] # -1 /\ e[2] \in DOMAIN adj[e[1]] /\ adj[e[1]][e[2]] = u
    BY <1>1, <1>5, <2>1
  <2>3. adj \in [Vertex -> Seq(Vertex)]
    BY <1>1
  <2> QED BY <2>1, <2>2, <2>3, IntoIs
<1>9. ASSUME NEW x, NEW f \in Into(x), f # e PROVE Unseen(f)' <=> Unseen(f)
  <2>1. f = <<f[1], f[2]>> /\ (f[1] = v => f[2] \in 1 .. Len(adj[v]))
    <3>1. adj \in [Vertex -> Seq(Vertex)] /\ DOMAIN adj[v] = 1 .. Len(adj[v])
      BY <1>1, <1>2
    <3>2. f = <<f[1], f[2]>> /\ f[2] \in DOMAIN adj[f[1]]
      BY <1>9, <3>1, IntoIs
    <3> QED BY <3>1, <3>2
  <2>2. CASE f[1] # v
    BY <2>2 DEF Unseen
  <2>3. CASE f[1] = v
    <3> DEFINE k == f[2]  A == Len(adj[v])  E == Len(edges)  F == Len(edges')
    <3>1. k # c
      <4>1. f = <<v, f[2]>> /\ f # <<v, c>>
        BY <1>9, <2>1, <2>3
      <4> QED BY <4>1
    <3>2. k \in 1 .. A /\ A \in Nat /\ E \in Nat /\ F = E - 1 /\ c = A - E + 1
      BY <1>2, <1>3, <2>1, <2>3
    <3> HIDE DEF k, A, E, F
    <3>3. k > A - F <=> k > A - E
      BY <3>1, <3>2
    <3> QED BY <2>3, <3>3 DEF Unseen, k, A, E, F
  <2> QED BY <2>2, <2>3
<1>10. Unseen(e) /\ ~Unseen(e)'
  <2>1. c > Len(adj[v]) - Len(edges) /\ ~(c > Len(adj[v]) - Len(edges'))
    <3> DEFINE A == Len(adj[v])  E == Len(edges)  F == Len(edges')
    <3>1. A \in Nat /\ E \in Nat /\ c = A - E + 1 /\ A - F = c
      BY <1>2, <1>4
    <3> HIDE DEF A, E, F
    <3>2. c > A - E /\ ~(c > A - F)
      BY <3>1
    <3> QED BY <3>2 DEF A, E, F
  <2> QED BY <1>8, <2>1 DEF Unseen
<1>11. e \notin Seen(u) /\ Seen(u)' = Seen(u) \cup {e}
  BY <1>7, <1>8, <1>9, <1>10 DEF Seen
<1>12. Met(u)' = Into(u)
  <2>1. ASSUME NEW f \in Into(u) PROVE \E h \in Seen(u)' : h[1] = f[1]
    <3>1. CASE f[1] = v
      BY <1>8, <1>11, <3>1
    <3>2. CASE f[1] # v
      <4>1. f \in Seen(u)
        BY <3>2 DEF Seen, Unseen
      <4> QED BY <1>11, <4>1
    <3> QED BY <3>1, <3>2
  <2> QED BY <1>7, <2>1 DEF Met
<1>13. ASSUME NEW x \in Vertex, x # u PROVE Seen(x)' = Seen(x) /\ Met(x)' = Met(x)
  <2>1. e \notin Into(x)
    <3>1. adj[e[1]][e[2]] = u
      BY <1>8, IntoIs, <1>1
    <3> QED BY <1>1, <1>13, <3>1, IntoIs
  <2>2. \A f \in Into(x) : Unseen(f)' <=> Unseen(f)
    BY <1>9, <2>1
  <2>3. Seen(x)' = Seen(x)
    BY <1>7, <2>2 DEF Seen
  <2> QED BY <1>7, <2>3 DEF Met
<1> QED BY <1>1, <1>4, <1>5, <1>6, <1>7, <1>8, <1>11, <1>12, <1>13

(* The turn ends when all of the list is seen; nor does a change elsewhere *)
(* matter.                                                                 *)
LEMMA SeenEnd ==
  ASSUME Ranked, pc = "see" => edges = <<>>, pc' # "see", UNCHANGED <<adj, perm>>, NEW u
  PROVE  Seen(u)' = Seen(u) /\ Met(u)' = Met(u)
<1>1. Into(u)' = Into(u) /\ adj \in [Vertex -> Seq(Vertex)]
  BY DEF Into, Entries, Ranked
<1>2. Seen(u) = Into(u)
  <2>1. CASE pc = "see"
    <3>1. ASSUME NEW e \in Into(u), e[1] = v PROVE ~(e[2] > Len(adj[v]) - Len(edges))
      <4>1. v \in Vertex /\ e[2] \in 1 .. Len(adj[v]) /\ Len(adj[v]) \in Nat /\ Len(edges) = 0
        BY <1>1, <2>1, <3>1, IntoIs
      <4> QED BY <4>1
    <3> QED BY <3>1 DEF Seen, Unseen
  <2>2. CASE pc # "see"
    BY <2>2 DEF Seen, Unseen
  <2> QED BY <2>1, <2>2
<1>3. Seen(u)' = Into(u)
  BY <1>1 DEF Seen, Unseen
<1> QED BY <1>1, <1>2, <1>3 DEF Met

(* In a symmetric graph, the sum over the list of u is that over the edges *)
(* into u: it is the same for the edges from or to each vertex.            *)
LEMMA SumTakenIs ==
  ASSUME Ranked, Symmetric, NEW u \in Vertex, NEW g, \A p \in Vertex : g[p] \in Int,
         NEW h, \A e \in Into(u) : h[e] = g[perm[e[1]]]
  PROVE  SumTaken(u, g) = SumOn(h, Into(u))
<1> DEFINE f == [j \in DOMAIN adj[u] |-> IF perm[adj[u][j]] = -1 THEN 0 ELSE g[perm[adj[u][j]]]]
           to(W) == {j \in DOMAIN adj[u] : adj[u][j] \in W}
           from(W) == {e \in Into(u) : e[1] \in W}
           P == {W \in SUBSET Vertex : SumOn(f, to(W)) = SumOn(h, from(W))}
<1>1. /\ adj \in [Vertex -> Seq(Vertex)] /\ IsFiniteSet(DOMAIN adj[u]) /\ IsFiniteSet(Into(u))
      /\ \A w \in Vertex : IsFiniteSet(Entries(w, u)) /\ IsFiniteSet(Entries(u, w))
      /\ \A j \in DOMAIN adj[u] : adj[u][j] \in Vertex
      /\ \A w \in Vertex : perm[w] # -1 => perm[w] \in Vertex
  <2>1. adj \in [Vertex -> Seq(Vertex)] /\ perm \in [Vertex -> -1 .. nvtxs - 1]
    BY DEF Ranked
  <2>2. \A w \in Vertex : perm[w] # -1 => perm[w] \in Vertex
    BY <2>1, VertexFacts
  <2>3. \A w \in Vertex : IsFiniteSet(Entries(u, w))
    BY <2>1, IntoIs
  <2>4. /\ IsFiniteSet(DOMAIN adj[u]) /\ IsFiniteSet(Into(u))
        /\ \A w \in Vertex : IsFiniteSet(Entries(w, u))
    BY <2>1, IntoIs
  <2>5. adj[u] \in Seq(Vertex) /\ \A j \in DOMAIN adj[u] : adj[u][j] \in Vertex
    BY <2>1
  <2> QED BY <2>1, <2>2, <2>3, <2>4, <2>5
<1>2. /\ SumTaken(u, g) = SumOn(f, DOMAIN adj[u])
      /\ \A j \in DOMAIN adj[u] : f[j] = IF perm[adj[u][j]] = -1 THEN 0 ELSE g[perm[adj[u][j]]]
  <2>1. SumTaken(u, g) = SumOn(f, DOMAIN f)
    BY DEF SumTaken, SumFunction, SumOn
  <2> QED BY <2>1
<1> HIDE DEF f
<1>3. Summable(f, DOMAIN adj[u]) /\ Summable(h, Into(u))
  <2>1. \A j \in DOMAIN adj[u] : f[j] \in Int
    BY <1>1, <1>2
  <2>2. \A e \in Into(u) : h[e] \in Int
    BY SeenFacts
  <2> QED BY <1>1, <2>1, <2>2 DEF Summable
<1>4. \A W : Summable(f, to(W)) /\ Summable(h, from(W))
  BY <1>3, SumTyped
<1>5. {} \in P
  <2>1. to({}) = {} /\ from({}) = {}
    OBVIOUS
  <2> HIDE DEF to, from
  <2> QED BY <2>1, SumEmpty
<1>6. ASSUME NEW W \in SUBSET Vertex, W \in P, NEW w \in Vertex \ W PROVE W \cup {w} \in P
  <2> DEFINE k == IF perm[w] = -1 THEN 0 ELSE g[perm[w]]
  <2>0. k \in Int
    BY <1>1
  <2>1. to({w}) = Entries(u, w) /\ \A j \in Entries(u, w) : f[j] = k
    BY <1>2 DEF Entries
  <2> HIDE DEF k
  <2>2. SumOn(f, to({w})) = Cardinality(Entries(u, w)) * k
    <3> HIDE DEF to
    <3> QED BY <1>1, <2>0, <2>1, SumConstant
  <2>3. SumOn(h, from({w})) = Cardinality(Entries(w, u)) * k
    <3>1. CASE perm[w] = -1
      <4>1. from({w}) = {} /\ k = 0
        BY <1>1, <3>1, IntoIs DEF k
      <4>2. SumOn(h, from({w})) = 0
        <5> HIDE DEF from
        <5> QED BY <4>1, SumEmpty
      <4>3. Cardinality(Entries(w, u)) \in Nat
        BY <1>1, FS_CardinalityType
      <4> QED BY <4>1, <4>2, <4>3
    <3>2. CASE perm[w] # -1
      <4>1. from({w}) = {w} \X Entries(w, u)
        <5>1. \A e : e \in Into(u) <=> /\ e = <<e[1], e[2]>> /\ e[1] \in Vertex /\ perm[e[1]] # -1
                                       /\ e[2] \in DOMAIN adj[e[1]] /\ adj[e[1]][e[2]] = u
          BY <1>1, IntoIs
        <5>2. ASSUME NEW e \in from({w}) PROVE e \in {w} \X Entries(w, u)
          BY <5>1 DEF Entries
        <5>3. ASSUME NEW e \in {w} \X Entries(w, u) PROVE e \in from({w})
          <6>1. e[1] = w /\ e = <<e[1], e[2]>> /\ e[2] \in Entries(w, u)
            OBVIOUS
          <6> QED BY <3>2, <5>1, <6>1 DEF Entries
        <5> QED BY <5>2, <5>3
      <4>2. \A e \in from({w}) : h[e] = k
        BY <3>2 DEF k
      <4>3. IsFiniteSet(Entries(w, u)) /\ Cardinality(Entries(w, u)) \in Nat
        BY <1>1, FS_CardinalityType
      <4>4. /\ IsFiniteSet({w} \X Entries(w, u))
            /\ Cardinality({w} \X Entries(w, u)) = Cardinality({w}) * Cardinality(Entries(w, u))
        BY <4>3, FS_Singleton, FS_Product
      <4>5. Cardinality({w}) = 1
        BY FS_Singleton
      <4>6. Cardinality({w} \X Entries(w, u)) = Cardinality(Entries(w, u))
        BY <4>3, <4>4, <4>5
      <4> HIDE DEF from
      <4>7. IsFiniteSet(from({w})) /\ Cardinality(from({w})) = Cardinality(Entries(w, u))
        BY <4>1, <4>4, <4>6, Zenon
      <4>8. SumOn(h, from({w})) = Cardinality(from({w})) * k
        <5>1. ASSUME NEW R, IsFiniteSet(R), \A e \in R : h[e] = k PROVE SumOn(h, R) = Cardinality(R) * k
          BY <2>0, <5>1, SumConstant
        <5>2. IsFiniteSet(from({w}))
          BY <4>7
        <5>3. \A e \in from({w}) : h[e] = k
          BY <4>2
        <5> QED BY <5>1, <5>2, <5>3
      <4> QED BY <4>7, <4>8
    <3> QED BY <3>1, <3>2
  <2>4. SumOn(f, to({w})) = SumOn(h, from({w}))
    BY <2>2, <2>3 DEF Symmetric
  <2>5. /\ to(W \cup {w}) = to(W) \cup to({w}) /\ to(W) \cap to({w}) = {}
        /\ from(W \cup {w}) = from(W) \cup from({w}) /\ from(W) \cap from({w}) = {}
    OBVIOUS
  <2>6. SumOn(f, to(W)) = SumOn(h, from(W)) /\ W \cup {w} \in SUBSET Vertex
    BY <1>6
  <2> HIDE DEF to, from
  <2>7. SumOn(f, to(W) \cup to({w})) = SumOn(f, to(W)) + SumOn(f, to({w}))
    BY <1>4, <2>5, SumUnion
  <2>8. SumOn(h, from(W) \cup from({w})) = SumOn(h, from(W)) + SumOn(h, from({w}))
    BY <1>4, <2>5, SumUnion
  <2> QED BY <2>4, <2>5, <2>6, <2>7, <2>8
<1>7. to(Vertex) = DOMAIN adj[u] /\ from(Vertex) = Into(u)
  BY <1>1, IntoIs
<1> HIDE DEF P
<1>8. Vertex \in P
  BY <1>5, <1>6, UntakenFinite, FiniteInduct
<1>9. SumOn(f, to(Vertex)) = SumOn(h, from(Vertex))
  BY <1>8 DEF P
<1> HIDE DEF to, from
<1> QED BY <1>2, <1>7, <1>9

LEMMA SumsSame ==
  ASSUME Ranked, NEW S, NEW u, S \subseteq Into(u), \A e \in S : perm'[e[1]] = perm[e[1]], NEW t \in Int
  PROVE  SumOn(OrderOf, S)' = SumOn(OrderOf, S) /\ SumOn(AgeOf(t), S)' = SumOn(AgeOf(t), S)
<1>1. /\ Summable(OrderOf, S) /\ Summable(AgeOf(t), S)
      /\ \A e \in S : OrderOf[e] = perm[e[1]] /\ AgeOf(t)[e] = t - perm[e[1]]
  BY OrdersSum
<1>2. \A e \in S : e \in Vertex \X Nat
  BY SeenFacts
<1>3. \A e \in S : OrderOf'[e] = OrderOf[e] /\ AgeOf(t)'[e] = AgeOf(t)[e]
  BY <1>1, <1>2 DEF OrderOf, AgeOf
<1>4. SumOn(OrderOf', S) = SumOn(OrderOf, S)
  BY <1>1, <1>3, SumSame
<1>5. SumOn(AgeOf(t)', S) = SumOn(AgeOf(t), S)
  BY <1>1, <1>3, SumSame
<1>6. SumOn(OrderOf, S)' = SumOn(OrderOf', S) /\ SumOn(AgeOf(t), S)' = SumOn(AgeOf(t)', S)
  BY DEF SumOn, SumFunctionOnSet, FoldFunctionOnSet, MapThenFoldSet
<1> QED BY <1>4, <1>5, <1>6

LEMMA SightsTake ==
  ASSUME Ranked, Sights, pc = "loop", pc' = "see", adj' = adj, NEW w \in Vertex, perm[w] = -1,
         perm' = [perm EXCEPT ![w] = turn], v' = w, edges' = adj[w], UNCHANGED <<turn, degrees>>
  PROVE  Sights'
<1>1. \A x : Seen(x)' = Seen(x)
  BY SeenTaking
<1>2. /\ perm \in [Vertex -> -1 .. nvtxs - 1] /\ adj \in [Vertex -> Seq(Vertex)] /\ turn \in Int
  BY DEF Ranked
<1>3. perm'[w] = turn /\ Untaken' \subseteq Untaken
  BY <1>2 DEF Untaken
<1>4. \A x \in Untaken' : degrees'[x] = Cardinality(Seen(x)')
  BY <1>1, <1>3 DEF Sights
<1>5. /\ Len(adj[w]) \in Nat /\ \A i \in 1 .. Len(adj[w]) : i = Len(adj[w]) - Len(adj[w]) + i
  BY <1>2
<1>6. /\ Len(edges') <= Len(adj'[v'])
      /\ \A i \in 1 .. Len(edges') : edges'[i] = adj'[v'][Len(adj'[v']) - Len(edges') + i]
  BY <1>5
<1> QED BY <1>3, <1>4, <1>6 DEF Sights

LEMMA SightsSee ==
  ASSUME Ranked, Sights, pc = "see", pc' = "see", edges # <<>>, edges' = Tail(edges),
         UNCHANGED <<adj, perm, v, turn>>, NEW u, u = Head(edges),
         degrees' = IF perm[u] = -1 THEN [degrees EXCEPT ![u] = degrees[u] + 1] ELSE degrees
  PROVE  Sights'
<1> DEFINE c == Len(adj[v]) - Len(edges) + 1
<1>1. PICK e : e = <<v, c>>
  OBVIOUS
<1>2. /\ u \in Vertex /\ v \in Vertex /\ perm[v] = turn
      /\ e \notin Seen(u) /\ Seen(u)' = Seen(u) \cup {e}
      /\ \A x \in Vertex : x # u => Seen(x)' = Seen(x)
      /\ Len(edges') <= Len(adj[v])
      /\ \A i \in 1 .. Len(edges') : edges'[i] = adj[v][Len(adj[v]) - Len(edges') + i]
  BY <1>1, SeenNext
<1>3. degrees \in [Vertex -> Nat] /\ \A x \in Untaken : degrees[x] = Cardinality(Seen(x))
  BY DEF Sights
<1>4. degrees' \in [Vertex -> Nat] /\ Untaken' = Untaken
  BY <1>2, <1>3 DEF Untaken
<1>5. ASSUME NEW x \in Untaken PROVE degrees'[x] = Cardinality(Seen(x)')
  <2>1. CASE x = u
    <3>1. Cardinality(Seen(u) \cup {e}) = Cardinality(Seen(u)) + 1
      BY <1>2, SeenFacts, FS_AddElement
    <3> QED BY <1>2, <1>3, <2>1, <3>1 DEF Untaken
  <2>2. CASE x # u
    <3>1. x \in Vertex /\ degrees'[x] = degrees[x]
      BY <1>3, <2>2 DEF Untaken
    <3> QED BY <1>2, <1>3, <2>2, <3>1
  <2> QED BY <2>1, <2>2
<1> QED BY <1>2, <1>4, <1>5 DEF Sights

LEMMA SightsEnd ==
  ASSUME Ranked, Sights, pc = "see" => edges = <<>>, pc' # "see", UNCHANGED <<adj, perm, degrees>>
  PROVE  Sights'
<1>1. \A x : Seen(x)' = Seen(x)
  BY SeenEnd
<1> QED BY <1>1 DEF Sights, Untaken

(* A key is right while nothing is seen of its vertex.                     *)
Steady(x) ==
  /\ Seen(x)' = Seen(x) /\ \A e \in Seen(x) : perm'[e[1]] = perm[e[1]]
  /\ queue'[x] = queue[x] /\ UNCHANGED <<alg, type>>
LEMMA GreatestSame ==
  ASSUME NEW x, Seen(x)' = Seen(x), \A e \in Seen(x) : perm'[e[1]] = perm[e[1]], NEW e, Greatest(x, e)
  PROVE  e \in Seen(x)' /\ Greatest(x, e)' /\ perm'[e[1]] = perm[e[1]]
BY DEF Greatest

LEMMA OpenKeySame ==
  ASSUME NEW x, Steady(x), NEW e \in Seen(x), Greatest(x, e), OpenKey(x, perm[e[1]]),
         degrees'[x] = degrees[x], wdegrees'[x] = wdegrees[x], level'[x] = level[x]
  PROVE  \E f \in Seen(x)' : (Greatest(x, f) /\ OpenKey(x, perm[f[1]]))'
<1>1. e \in Seen(x)' /\ Greatest(x, e)' /\ perm'[e[1]] = perm[e[1]]
  BY GreatestSame DEF Steady
<1>2. OpenKey(x, perm[e[1]])'
  BY <1>1 DEF OpenKey, Steady
<1> QED BY <1>1, <1>2

LEMMA OpenQueued ==
  ASSUME Ranked, Opened, pc # "call"
  PROVE  {ot[p] : p \in 0 .. nopen - 1} = DOMAIN queue
<1>1. /\ Listing(ot, pos, nleft, Untaken) /\ nopen \in 0 .. nleft /\ nleft \in Nat
      /\ DOMAIN queue = {u \in Untaken : pos[u] < nopen}
  BY DEF Opened, Listing
<1>2. \A p \in 0 .. nopen - 1 : p \in 0 .. nleft - 1 /\ p < nopen
  BY <1>1
<1>3. ASSUME NEW p \in 0 .. nopen - 1 PROVE ot[p] \in DOMAIN queue
  BY <1>1, <1>2 DEF Listing
<1>4. ASSUME NEW u \in DOMAIN queue PROVE pos[u] \in 0 .. nopen - 1 /\ ot[pos[u]] = u
  <2>1. u \in Untaken /\ pos[u] < nopen /\ pos[u] \in 0 .. nleft - 1 /\ ot[pos[u]] = u
    BY <1>1 DEF Listing
  <2> QED BY <1>1, <2>1
<1> QED BY <1>3, <1>4

LEMMA SumsPrimed ==
  ASSUME NEW u, NEW S, Seen(u)' = S, NEW t, turn' = t
  PROVE  /\ SumOn(OrderOf, Seen(u))' = SumOn(OrderOf, S)'
         /\ SumOn(AgeOf(turn), Seen(u))' = SumOn(AgeOf(t), S)'
<1>1. AgeOf(turn)' = AgeOf(t)'
  BY DEF AgeOf
<1>2. SumOn(OrderOf, Seen(u))' = SumOn(OrderOf', Seen(u)') /\ SumOn(OrderOf, S)' = SumOn(OrderOf', S)
  BY DEF SumOn, SumFunctionOnSet, FoldFunctionOnSet, MapThenFoldSet
<1>3. /\ SumOn(AgeOf(turn), Seen(u))' = SumOn(AgeOf(turn)', Seen(u)')
      /\ SumOn(AgeOf(t), S)' = SumOn(AgeOf(t)', S)
  BY DEF SumOn, SumFunctionOnSet, FoldFunctionOnSet, MapThenFoldSet
<1> QED BY <1>1, <1>2, <1>3

(* The sums stay what they are while nothing is seen.                      *)
LEMMA OpenSumsKept ==
  ASSUME Ranked, OpenSums, \A x : Seen(x)' = Seen(x) /\ \A e \in Seen(x) : perm'[e[1]] = perm[e[1]],
         Untaken' \subseteq Untaken, UNCHANGED <<wdegrees, sod, level, turn, type>>
  PROVE  OpenSums'
<1>1. ASSUME NEW u \in Untaken'
      PROVE  /\ type = 3 => wdegrees'[u] = SumOn(OrderOf, Seen(u))'
             /\ type = 4 => sod'[u] = SumOn(AgeOf(turn), Seen(u))'
  <2>1. PICK S : S = Seen(u)
    OBVIOUS
  <2>2. PICK t : t = turn
    OBVIOUS
  <2>3. S \subseteq Into(u) /\ (\A e \in S : perm'[e[1]] = perm[e[1]]) /\ t \in Int
    BY <2>1, <2>2, SeenFacts DEF Ranked
  <2>4. SumOn(OrderOf, S)' = SumOn(OrderOf, S) /\ SumOn(AgeOf(t), S)' = SumOn(AgeOf(t), S)
    BY <2>3, SumsSame
  <2>5. Seen(u)' = S /\ turn' = t
    BY <2>1, <2>2
  <2>6. SumOn(OrderOf, Seen(u))' = SumOn(OrderOf, S)' /\ SumOn(AgeOf(turn), Seen(u))' = SumOn(AgeOf(t), S)'
    BY <2>5, SumsPrimed
  <2>7. u \in Untaken /\ wdegrees' = wdegrees /\ sod' = sod
    OBVIOUS
  <2> QED BY <2>1, <2>2, <2>4, <2>6, <2>7 DEF OpenSums
<1> QED BY <1>1 DEF OpenSums

(* The last update is one of the turn that ends, or that of the turn before*)
LEMMA UpdateNext ==
  ASSUME NEW n \in Nat, NEW r, LastUpdate(r, n), NEW s, s = IF Updated(n) THEN n + 1 ELSE r
  PROVE  LastUpdate(s, n + 1)
<1>1. r \in 0 .. n /\ (r = 0 \/ Updated(r - 1)) /\ \A t \in r .. n - 1 : ~Updated(t)
  BY DEF LastUpdate
<1>2. CASE Updated(n)
  <2>1. s = n + 1 /\ s \in 0 .. n + 1 /\ s - 1 = n
    BY <1>2
  <2>2. \A t \in s .. (n + 1) - 1 : FALSE
    BY <2>1
  <2> QED BY <1>2, <2>1, <2>2 DEF LastUpdate
<1>3. CASE ~Updated(n)
  <2>1. s = r /\ r \in 0 .. n + 1
    BY <1>1, <1>3
  <2>2. \A t \in r .. (n + 1) - 1 : t = n \/ t \in r .. n - 1
    BY <1>1
  <2> QED BY <1>1, <1>3, <2>1, <2>2 DEF LastUpdate
<1> QED BY <1>2, <1>3

LEMMA RefreshedIs ==
  ASSUME turn \in Nat, NEW r, LastUpdate(r, turn)
  PROVE  Refreshed = r /\ r \in Nat
<1>1. ASSUME NEW s, LastUpdate(s, turn), NEW q, LastUpdate(q, turn) PROVE ~(s < q)
  <2> SUFFICES ASSUME s < q PROVE FALSE
    OBVIOUS
  <2>1. /\ s \in 0 .. turn /\ q \in 0 .. turn /\ (q = 0 \/ Updated(q - 1))
        /\ \A t \in s .. turn - 1 : ~Updated(t)
    BY <1>1 DEF LastUpdate
  <2>2. q # 0 /\ q - 1 \in s .. turn - 1
    BY <2>1
  <2> QED BY <2>1, <2>2
<1>2. \A s : LastUpdate(s, turn) => s \in 0 .. turn
  BY DEF LastUpdate
<1>3. \A s \in 0 .. turn : LastUpdate(s, turn) => s = r
  <2> SUFFICES ASSUME NEW s \in 0 .. turn, LastUpdate(s, turn) PROVE s = r
    OBVIOUS
  <2>1. ~(s < r) /\ ~(r < s) /\ r \in 0 .. turn
    BY <1>1, <1>2
  <2> QED BY <2>1
<1>4. r \in 0 .. turn /\ r \in Nat
  BY <1>2
<1>5. Refreshed = r
  BY <1>3, <1>4 DEF Refreshed
<1> QED BY <1>4, <1>5

LEMMA ShownKept ==
  ASSUME NEW u, NEW r, KeyShown(u, r), Seen(u)' = Seen(u), queue'[u] = queue[u],
         \A e \in Seen(u) : perm'[e[1]] = perm[e[1]]
  PROVE  KeyShown(u, r)'
<1>1. PICK f, S : /\ S = Seen(u) /\ Summable(f, S) /\ queue[u] = SumOn(f, S)
                  /\ \A e \in S : f[e] = ShownAt(perm[e[1]], r)
  BY DEF KeyShown
<1>2. S = Seen(u)' /\ \A e \in S : f[e] = ShownAt(perm'[e[1]], r)
  BY <1>1
<1>3. Summable(f, S)' /\ SumOn(f, S)' = SumOn(f, S)
  BY <1>1 DEF Summable, SumOn, SumFunctionOnSet, FoldFunctionOnSet, MapThenFoldSet
<1>4. queue'[u] = SumOn(f, S)'
  BY <1>1, <1>3
<1>5. \A e \in S : f[e] = ShownAt(perm[e[1]], r)'
  BY <1>2 DEF ShownAt
<1> QED BY <1>2, <1>3, <1>4, <1>5 DEF KeyShown

LEMMA LateKept ==
  ASSUME LateKeys, UNCHANGED <<turn, type>>,
         \A x : Seen(x)' = Seen(x) /\ \A e \in Seen(x) : perm'[e[1]] = perm[e[1]],
         Turns' > 0 => \A u \in DOMAIN queue' : Turns > 0 /\ u \in DOMAIN queue /\ queue'[u] = queue[u]
  PROVE  LateKeys'
<1> SUFFICES ASSUME type = 4
             PROVE  \E r : LastUpdate(r, turn)' /\ (Turns' > 0 => \A u \in DOMAIN queue' : KeyShown(u, r)')
  BY DEF LateKeys
<1>1. PICK r : LastUpdate(r, turn) /\ (Turns > 0 => \A u \in DOMAIN queue : KeyShown(u, r))
  BY DEF LateKeys
<1>2. LastUpdate(r, turn)'
  BY <1>1 DEF LastUpdate, Updated
<1>3. ASSUME Turns' > 0, NEW u \in DOMAIN queue' PROVE KeyShown(u, r)'
  BY <1>1, <1>3, ShownKept
<1> QED BY <1>2, <1>3

LEMMA EnterBestKeys == ASSUME ListsInv, ListsInv', KeysInv, EnterBest PROVE KeysInv'
<1>1. /\ alg \in BestOpen /\ alg \in Best /\ alg' = alg /\ type' = type /\ pc = "call" /\ pc' = "loop"
      /\ UNCHANGED <<adj, perm, degrees, wdegrees, sod, level, turn>>
  BY DEF EnterBest, dvars, Best
<1>2. Ranked /\ Sights /\ OpenSums /\ LateKeys /\ turn = 0 /\ turn \in Int
  BY <1>1 DEF ListsInv, KeysInv, Ranked
<1>3. \A x : Seen(x)' = Seen(x)
  BY <1>1, <1>2, SeenEnd
<1>4. Sights'
  BY <1>1, <1>2, SightsEnd
<1>5. OpenSums'
  <2>1. Untaken' \subseteq Untaken
    BY <1>1 DEF Untaken
  <2> QED BY <1>1, <1>2, <1>3, <2>1, OpenSumsKept
<1>6. OpenKeys'
  BY <1>1, <1>2 DEF OpenKeys, Turns
<1>7. LateKeys'
  <2>1. ~(Turns' > 0)
    BY <1>1, <1>2 DEF Turns
  <2> QED BY <1>1, <1>2, <1>3, <2>1, LateKept
<1> QED BY <1>1, <1>4, <1>5, <1>6, <1>7 DEF KeysInv, BestOpen, BestAll, Best

LEMMA TakeBestKeys == ASSUME ListsInv, ListsInv', KeysInv, TakeBest PROVE KeysInv'
<1>1. PICK w \in DOMAIN Candidates :
        /\ TakeChecked(w) /\ queue' = Without(Candidates, w) /\ perm' = [perm EXCEPT ![w] = turn]
        /\ pc' = "see" /\ v' = w /\ edges' = adj[w]
  BY DEF TakeBest
<1>2. /\ alg \in BestOpen /\ alg' = alg /\ alg \in Best /\ pc = "loop" /\ turn < nvtxs
      /\ alg' \in BestOpen /\ alg' \in Best
      /\ UNCHANGED <<adj, degrees, wdegrees, sod, level, turn, type>>
  BY DEF TakeBest, AtLoop, dvars, Best
<1>3. Ranked /\ Opened /\ Opened' /\ Ranked' /\ Sights /\ OpenSums /\ OpenKeys /\ LateKeys
  BY <1>2 DEF ListsInv, KeysInv
<1>4. w \in Vertex /\ perm[w] = -1 /\ turn \in Int /\ Turns = turn /\ Turns' = turn + 1 /\ turn >= 0
  <2>1. w \in Untaken
    BY <1>1, <1>2, <1>3, CandidatesRight
  <2> QED BY <1>1, <1>2, <1>3, <2>1 DEF Untaken, Ranked, Turns
<1>5. \A x : Seen(x)' = Seen(x) /\ \A e \in Seen(x) : perm'[e[1]] = perm[e[1]]
  BY <1>1, <1>2, <1>3, <1>4, SeenTaking
<1>6. Sights'
  BY <1>1, <1>2, <1>3, <1>4, SightsTake
<1>7. Untaken' \subseteq Untaken
  BY <1>1, <1>3, <1>4 DEF Untaken, Ranked
<1>9. OpenSums'
  BY <1>2, <1>3, <1>5, <1>7, OpenSumsKept
<1>8. ASSUME NEW u \in DOMAIN queue' PROVE turn > 0 /\ u \in DOMAIN queue /\ queue'[u] = queue[u]
  <2>1. u \in Untaken' /\ degrees'[u] > 0
    BY <1>2, <1>3, <1>4 DEF Opened
  <2>2. u \in Untaken /\ degrees[u] > 0 /\ u \in Vertex
    BY <1>2, <1>7, <2>1 DEF Untaken
  <2>3. turn > 0
    <3>1. turn # 0
      BY <1>3, <1>4, <2>2 DEF Opened
    <3> QED BY <1>4, <3>1
  <2>4. u \in DOMAIN queue
    BY <1>3, <1>4, <2>2, <2>3 DEF Opened
  <2>5. queue'[u] = queue[u]
    <3>1. nopen # 0
      BY <1>2, <1>3, <2>4, CandidatesRight
    <3>2. Candidates = queue
      BY <3>1 DEF Candidates
    <3> QED BY <1>1, <3>2 DEF Without, Restrict
  <2> QED BY <2>3, <2>4, <2>5
<1>10. OpenKeys'
  <2> SUFFICES ASSUME NEW u \in DOMAIN queue'
               PROVE  \E f \in Seen(u)' : (Greatest(u, f) /\ OpenKey(u, perm[f[1]]))'
    BY DEF OpenKeys
  <2>1. turn > 0 /\ u \in DOMAIN queue /\ queue'[u] = queue[u]
    BY <1>8
  <2>2. PICK e \in Seen(u) : Greatest(u, e) /\ OpenKey(u, perm[e[1]])
    BY <1>3, <1>4, <2>1 DEF OpenKeys
  <2>3. Steady(u)
    BY <1>2, <1>5, <2>1 DEF Steady
  <2> QED BY <1>2, <2>2, <2>3, OpenKeySame
<1>11. LateKeys'
  <2>1. \A u \in DOMAIN queue' : Turns > 0 /\ u \in DOMAIN queue /\ queue'[u] = queue[u]
    BY <1>4, <1>8
  <2> QED BY <1>2, <1>3, <1>5, <2>1, LateKept
<1> QED BY <1>2, <1>6, <1>9, <1>10, <1>11 DEF KeysInv, BestOpen, BestAll

LEMMA SeeBestKeys == ASSUME ListsInv, ListsInv', KeysInv, SeeBest PROVE KeysInv'
<1>1. PICK u : u = Head(edges)
  OBVIOUS
<1>2. PICK c : c = Len(adj[v]) - Len(edges) + 1
  OBVIOUS
<1>3. PICK e : e = <<v, c>>
  OBVIOUS
<1>4. /\ alg \in BestOpen /\ alg' = alg /\ alg \in Best /\ alg' \in BestOpen /\ alg' \in Best
      /\ pc = "see" /\ pc' = "see" /\ edges # <<>> /\ edges' = Tail(edges)
      /\ UNCHANGED <<adj, perm, v, turn, type>>
  BY DEF SeeBest, Best
<1>5. /\ Ranked /\ Opened /\ Opened' /\ Sights /\ OpenSums /\ OpenKeys /\ LateKeys
      /\ Turns = turn + 1 /\ Turns' = turn + 1 /\ turn \in Nat /\ Turns > 0 /\ type \in 1 .. 6
  BY <1>4 DEF ListsInv, KeysInv, Turns, Ranked
<1>6. /\ u \in Vertex /\ v \in Vertex /\ perm[v] = turn
      /\ e \notin Seen(u) /\ e \in Into(u) /\ e[1] = v /\ Seen(u)' = Seen(u) \cup {e}
      /\ \A x \in Vertex : x # u => Seen(x)' = Seen(x)
  BY <1>1, <1>2, <1>3, <1>4, <1>5, SeenNext
<1>7. Untaken' = Untaken /\ Untaken \subseteq Vertex
  BY <1>4 DEF Untaken
<1>8. degrees' = IF perm[u] = -1 THEN [degrees EXCEPT ![u] = degrees[u] + 1] ELSE degrees
  BY <1>1 DEF SeeBest, dvars
<1>9. Sights'
  BY <1>1, <1>4, <1>5, <1>8, SightsSee
<1>10. DOMAIN queue \subseteq Untaken /\ DOMAIN queue' \subseteq Untaken
  BY <1>4, <1>5, <1>7 DEF Opened
<1>11. ASSUME NEW x \in Untaken, x # u, wdegrees'[x] = wdegrees[x], sod'[x] = sod[x]
       PROVE  /\ type = 3 => wdegrees'[x] = SumOn(OrderOf, Seen(x))'
              /\ type = 4 => sod'[x] = SumOn(AgeOf(turn), Seen(x))'
  <2>1. PICK S : S = Seen(x)
    OBVIOUS
  <2>2. PICK t : t = turn
    OBVIOUS
  <2>3. S \subseteq Into(x) /\ (\A f \in S : perm'[f[1]] = perm[f[1]]) /\ t \in Int
    BY <1>4, <1>5, <2>1, <2>2, SeenFacts
  <2>4. SumOn(OrderOf, S)' = SumOn(OrderOf, S) /\ SumOn(AgeOf(t), S)' = SumOn(AgeOf(t), S)
    BY <1>5, <2>3, SumsSame
  <2>5. Seen(x)' = S /\ turn' = t
    BY <1>4, <1>6, <1>7, <1>11, <2>1, <2>2
  <2>6. SumOn(OrderOf, Seen(x))' = SumOn(OrderOf, S)' /\ SumOn(AgeOf(turn), Seen(x))' = SumOn(AgeOf(t), S)'
    BY <2>5, SumsPrimed
  <2> QED BY <1>5, <1>11, <2>1, <2>2, <2>4, <2>6 DEF OpenSums
<1>12. ASSUME NEW x \in DOMAIN queue, x # u, queue'[x] = queue[x], degrees'[x] = degrees[x],
              wdegrees'[x] = wdegrees[x], level'[x] = level[x]
       PROVE  \E f \in Seen(x)' : (Greatest(x, f) /\ OpenKey(x, perm[f[1]]))'
  <2>1. PICK f \in Seen(x) : Greatest(x, f) /\ OpenKey(x, perm[f[1]])
    BY <1>5 DEF OpenKeys
  <2>2. Steady(x)
    BY <1>4, <1>6, <1>7, <1>10, <1>12 DEF Steady
  <2> QED BY <1>12, <2>1, <2>2, OpenKeySame
<1>13. ASSUME NEW r, NEW x \in DOMAIN queue, x # u, queue'[x] = queue[x], KeyShown(x, r)
       PROVE  KeyShown(x, r)'
  <2>1. Seen(x)' = Seen(x) /\ \A f \in Seen(x) : perm'[f[1]] = perm[f[1]]
    BY <1>4, <1>6, <1>7, <1>10, <1>13
  <2> QED BY <1>13, <2>1, ShownKept
<1>14. ASSUME type = 4
       PROVE  \E r : /\ LastUpdate(r, turn) /\ LastUpdate(r, turn)' /\ r <= turn
                     /\ \A x \in DOMAIN queue : KeyShown(x, r)
  <2>1. PICK r : LastUpdate(r, turn) /\ \A x \in DOMAIN queue : KeyShown(x, r)
    BY <1>5, <1>14 DEF LateKeys
  <2>2. LastUpdate(r, turn)' /\ r <= turn
    BY <1>4, <2>1 DEF LastUpdate, Updated
  <2> QED BY <2>1, <2>2
<1>15. CASE perm[u] # -1
  <2>1. UNCHANGED <<queue, degrees, wdegrees, sod, level>>
    BY <1>1, <1>15 DEF SeeBest, dvars
  <2>2. u \notin Untaken
    BY <1>15 DEF Untaken
  <2>3. OpenSums'
    BY <1>4, <1>5, <1>7, <1>11, <2>1, <2>2 DEF OpenSums
  <2>4. OpenKeys'
    BY <1>10, <1>12, <2>1, <2>2 DEF OpenKeys
  <2>5. LateKeys'
    BY <1>4, <1>10, <1>13, <1>14, <2>1, <2>2 DEF LateKeys
  <2> QED BY <1>4, <1>5, <1>9, <2>3, <2>4, <2>5 DEF KeysInv, BestOpen, BestAll
<1>16. CASE perm[u] = -1
  <2> DEFINE w == wdegrees[u] + (IF type = 3 THEN turn ELSE 0)
             l == IF degrees[u] = 0 THEN level[v] + 1 ELSE level[u]
  <2>1. /\ wdegrees' = [wdegrees EXCEPT ![u] = w] /\ level' = [level EXCEPT ![u] = l] /\ sod' = sod
        /\ queue' = With(queue, u, Key(u, degrees[u] + 1, w, l))
    BY <1>1, <1>16 DEF SeeBest, Put
  <2>2. wdegrees \in [Vertex -> Int] /\ level \in [Vertex -> Int] /\ degrees \in [Vertex -> Nat]
    BY <1>5 DEF OpenSums, Sights
  <2>3. w \in Int /\ l \in Int /\ u \in Untaken /\ w = wdegrees[u] + (IF type = 3 THEN turn ELSE 0)
    BY <1>5, <1>6, <1>16, <2>2 DEF Untaken
  <2> HIDE DEF w, l
  <2>4. /\ degrees'[u] = degrees[u] + 1 /\ wdegrees'[u] = w /\ level'[u] = l
        /\ queue'[u] = Key(u, degrees[u] + 1, w, l) /\ u \in DOMAIN queue'
        /\ \A x \in Vertex \ {u} : /\ degrees'[x] = degrees[x] /\ wdegrees'[x] = wdegrees[x]
                                   /\ level'[x] = level[x]
        /\ \A x \in DOMAIN queue' \ {u} : x \in DOMAIN queue /\ queue'[x] = queue[x]
    BY <1>6, <1>8, <1>16, <2>1, <2>2 DEF With
  <2>5. /\ type = 3 => wdegrees'[u] = SumOn(OrderOf, Seen(u))'
        /\ type = 4 => sod'[u] = SumOn(AgeOf(turn), Seen(u))'
    <3>1. PICK S : S = Seen(u)
      OBVIOUS
    <3>2. PICK t : t = turn
      OBVIOUS
    <3>3. PICK T : T = S \cup {e}
      OBVIOUS
    <3>4. T \subseteq Into(u) /\ S \subseteq Into(u) /\ t \in Int /\ e \notin S
      BY <1>5, <1>6, <3>1, <3>2, <3>3, SeenFacts
    <3>5. /\ Summable(OrderOf, S) /\ OrderOf[e] = t /\ SumOn(OrderOf, S) \in Int
          /\ Summable(AgeOf(t), S) /\ AgeOf(t)[e] = 0 /\ SumOn(AgeOf(t), S) \in Int
      <4>1. /\ Summable(OrderOf, S) /\ Summable(AgeOf(t), S)
            /\ OrderOf[e] = perm[e[1]] /\ AgeOf(t)[e] = t - perm[e[1]]
        <5>1. Summable(OrderOf, S) /\ Summable(AgeOf(t), S)
          BY <1>5, <3>4, OrdersSum
        <5>2. e \in Vertex \X Nat
          BY <1>5, <1>6, SeenFacts
        <5> QED BY <5>1, <5>2 DEF OrderOf, AgeOf
      <4> QED BY <1>5, <1>6, <3>2, <3>4, <4>1, SumTyped
    <3>6. SumOn(OrderOf, T) = SumOn(OrderOf, S) + t
      BY <1>5, <3>3, <3>4, <3>5, SumWith
    <3>7. SumOn(AgeOf(t), T) = SumOn(AgeOf(t), S)
      <4>1. SumOn(AgeOf(t), T) = SumOn(AgeOf(t), S) + AgeOf(t)[e]
        <5>1. PICK g : g = AgeOf(t)
          OBVIOUS
        <5>2. Summable(g, S) /\ g[e] \in Int
          BY <3>5, <5>1
        <5>3. SumOn(g, T) = SumOn(g, S) + g[e]
          BY <3>3, <3>4, <5>2, SumWith
        <5> QED BY <5>1, <5>3
      <4> QED BY <3>5, <4>1
    <3>8. SumOn(OrderOf, T)' = SumOn(OrderOf, T) /\ SumOn(AgeOf(t), T)' = SumOn(AgeOf(t), T)
      <4>1. \A f \in T : perm'[f[1]] = perm[f[1]]
        BY <1>4
      <4> QED BY <1>5, <3>4, <4>1, SumsSame
    <3>9. Seen(u)' = T /\ turn' = t
      BY <1>4, <1>6, <3>1, <3>2, <3>3
    <3>10. SumOn(OrderOf, Seen(u))' = SumOn(OrderOf, T)' /\ SumOn(AgeOf(turn), Seen(u))' = SumOn(AgeOf(t), T)'
      BY <3>9, SumsPrimed
    <3>11. type = 3 => wdegrees[u] = SumOn(OrderOf, S)
      BY <1>5, <2>3, <3>1 DEF OpenSums
    <3>12. type = 4 => sod[u] = SumOn(AgeOf(t), S)
      BY <1>5, <2>3, <3>1, <3>2 DEF OpenSums
    <3>13. type = 3 => wdegrees'[u] = SumOn(OrderOf, T)
      BY <2>3, <2>4, <3>2, <3>6, <3>11
    <3> QED BY <2>1, <3>7, <3>8, <3>10, <3>12, <3>13
  <2>6. OpenSums'
    <3>1. wdegrees' \in [Vertex -> Int] /\ sod' \in [Vertex -> Int] /\ level' \in [Vertex -> Int]
      BY <1>5, <2>1, <2>2, <2>3 DEF OpenSums
    <3>2. ASSUME NEW x \in Untaken
          PROVE  /\ type = 3 => wdegrees'[x] = SumOn(OrderOf, Seen(x))'
                 /\ type = 4 => sod'[x] = SumOn(AgeOf(turn), Seen(x))'
      <4>1. CASE x = u
        BY <2>5, <4>1
      <4>2. CASE x # u
        BY <1>7, <1>11, <2>1, <2>4, <4>2
      <4> QED BY <4>1, <4>2
    <3> QED BY <1>4, <1>7, <3>1, <3>2 DEF OpenSums
  <2>7. Greatest(u, e)' /\ e \in Seen(u)' /\ perm'[e[1]] = turn
    <3>1. ASSUME NEW f \in Seen(u) PROVE perm[f[1]] <= turn
      <4>1. perm[f[1]] \in Nat /\ perm[f[1]] < turn + 1
        BY <1>5, SeenFacts
      <4> QED BY <1>5, <4>1
    <3>2. perm[e[1]] = turn /\ turn <= turn
      BY <1>5, <1>6
    <3> QED BY <1>4, <1>6, <3>1, <3>2 DEF Greatest
  <2>8. OpenKey(u, perm[e[1]])'
    <3>1. \A a, b \in Int : -(1000 * a - b) = b - 1000 * a
      OBVIOUS
    <3>2. degrees[u] + 1 \in Int /\ l \in Int
      BY <1>6, <2>2, <2>3
    <3>3. -(1000 * l - (degrees[u] + 1)) = (degrees[u] + 1) - 1000 * l
      BY <3>1, <3>2
    <3>4. /\ type = 1 => queue'[u] = 1000 * (turn + 1) + (degrees[u] + 1)
          /\ type = 2 => queue'[u] = degrees[u] + 1
          /\ type = 3 => queue'[u] = IF alg = "gk_graph_ComputeBestFOrdering" THEN ISqrt(w) ELSE w
          /\ type = 5 => queue'[u] = -(1000 * l - (degrees[u] + 1))
          /\ type = 6 => queue'[u] = (turn + 1) * (degrees[u] + 1)
      <4>1. queue'[u] = Key(u, degrees[u] + 1, w, l)
        BY <2>4
      <4> QED BY <1>5, <4>1 DEF Key
    <3>5. type' = type /\ alg' = alg /\ pc' # "loop" /\ degrees'[u] = degrees[u] + 1
          /\ wdegrees'[u] = w /\ level'[u] = l /\ perm'[e[1]] = turn
      BY <1>4, <2>4, <2>7
    <3> QED BY <3>3, <3>4, <3>5 DEF OpenKey
  <2>9. OpenKeys'
    <3> SUFFICES ASSUME NEW x \in DOMAIN queue'
                 PROVE  \E f \in Seen(x)' : (Greatest(x, f) /\ OpenKey(x, perm[f[1]]))'
      BY DEF OpenKeys
    <3>1. CASE x = u
      BY <2>7, <2>8, <3>1
    <3>2. CASE x # u
      BY <1>7, <1>10, <1>12, <2>4, <3>2
    <3> QED BY <3>1, <3>2
  <2>10. ASSUME type = 4, NEW r, r <= turn, LastUpdate(r, turn), \A x \in DOMAIN queue : KeyShown(x, r)
         PROVE  KeyShown(u, r)'
    <3>1. queue'[u] = IF u \in DOMAIN queue THEN queue[u] ELSE 0
      BY <2>4, <2>10 DEF Key
    <3>2. PICK S : S = Seen(u)
      OBVIOUS
    <3>3. PICK f : /\ Summable(f, S) /\ queue'[u] = SumOn(f, S)
                   /\ \A d \in S : f[d] = ShownAt(perm[d[1]], r)
      <4>1. CASE u \in DOMAIN queue
        BY <2>10, <3>1, <3>2, <4>1 DEF KeyShown
      <4>2. CASE u \notin DOMAIN queue
        <5>1. degrees[u] = 0
          <6>1. \A x \in Untaken : x \in DOMAIN queue <=> degrees[x] > 0
            BY <1>5 DEF Opened
          <6>2. degrees[u] \in Nat
            BY <1>6, <2>2
          <6> QED BY <2>3, <4>2, <6>1, <6>2
        <5>2. S = {}
          BY <1>5, <2>3, <3>2, <5>1, SeenFacts DEF Sights
        <5>3. Summable(<<>>, S) /\ SumOn(<<>>, S) = 0
          BY <5>2, SumEmpty, FS_EmptySet DEF Summable
        <5> QED BY <3>1, <4>2, <5>2, <5>3
      <4> QED BY <4>1, <4>2
    <3>4. PICK T : T = S \cup {e}
      OBVIOUS
    <3>5. PICK g : g = [d \in T |-> IF d = e THEN 0 ELSE f[d]]
      OBVIOUS
    <3>6. e \notin S /\ g[e] = 0 /\ \A d \in S : g[d] = f[d]
      BY <1>6, <3>2, <3>4, <3>5
    <3>7. Summable(g, S) /\ SumOn(g, S) = SumOn(f, S) /\ SumOn(f, S) \in Int
      <4>1. Summable(g, S)
        BY <3>3, <3>6 DEF Summable
      <4>2. SumOn(f, S) = SumOn(g, S) /\ SumOn(f, S) \in Int
        BY <3>3, <3>6, SumSame
      <4> QED BY <4>1, <4>2
    <3>8. SumOn(g, T) = SumOn(g, S) + g[e]
      BY <3>4, <3>6, <3>7, SumWith
    <3>9. Summable(g, T)
      BY <3>4, <3>6, <3>7, FS_AddElement DEF Summable
    <3>10. queue'[u] = SumOn(g, T)
      BY <3>3, <3>6, <3>7, <3>8
    <3>11. \A d \in T : g[d] = ShownAt(perm[d[1]], r)
      <4>1. perm[e[1]] = turn /\ ~(turn < r)
        <5>1. r \in Int /\ turn \in Int
          BY <1>5, <2>10 DEF LastUpdate
        <5> QED BY <1>6, <2>10, <5>1
      <4>2. g[e] = ShownAt(perm[e[1]], r)
        BY <3>6, <4>1 DEF ShownAt
      <4> QED BY <3>3, <3>4, <3>6, <4>2
    <3>12. Seen(u)' = T
      BY <1>6, <3>2, <3>4
    <3>13. Summable(g, T)' /\ SumOn(g, T)' = SumOn(g, T)
      BY <3>9 DEF Summable, SumOn, SumFunctionOnSet, FoldFunctionOnSet, MapThenFoldSet
    <3>14. \A d \in T : g[d] = ShownAt(perm[d[1]], r)'
      BY <1>4, <3>11 DEF ShownAt
    <3> QED BY <3>10, <3>12, <3>13, <3>14 DEF KeyShown
  <2>11. LateKeys'
    <3> SUFFICES ASSUME type = 4
                 PROVE  \E r : LastUpdate(r, turn)' /\ \A x \in DOMAIN queue' : KeyShown(x, r)'
      BY <1>4 DEF LateKeys
    <3>1. PICK r : /\ LastUpdate(r, turn) /\ LastUpdate(r, turn)' /\ r <= turn
                   /\ \A x \in DOMAIN queue : KeyShown(x, r)
      BY <1>14
    <3>2. KeyShown(u, r)'
      BY <2>10, <3>1
    <3>3. ASSUME NEW x \in DOMAIN queue', x # u PROVE KeyShown(x, r)'
      BY <1>13, <2>4, <3>1, <3>3
    <3> QED BY <3>1, <3>2, <3>3
  <2> QED BY <1>4, <1>5, <1>9, <2>6, <2>9, <2>11 DEF KeysInv, BestOpen, BestAll
<1> QED BY <1>15, <1>16

LEMMA EndTurnKeys == ASSUME ListsInv, ListsInv', KeysInv, EndTurn PROVE KeysInv'
<1> DEFINE open == {u \in {ot[p] : p \in 0 .. nopen - 1} : type = 4}
<1>1. /\ alg \in BestOpen /\ alg' = alg /\ alg \in Best /\ alg' \in BestOpen /\ alg' \in Best
      /\ pc = "see" /\ pc' = "loop" /\ edges = <<>> /\ turn' = turn + 1
      /\ sod' = [u \in Vertex |-> sod[u] + (IF u \in open THEN degrees[u] ELSE 0)]
      /\ queue' = [u \in DOMAIN queue |-> IF u \in open /\ Updated(turn) THEN sod'[u] ELSE queue[u]]
      /\ UNCHANGED <<adj, v, edges, perm, degrees, wdegrees, level, type>>
  BY DEF EndTurn, Best
<1>2. /\ Ranked /\ Ranked' /\ Opened /\ Opened' /\ Sights /\ OpenSums /\ OpenKeys /\ LateKeys
      /\ Turns = turn + 1 /\ turn \in Nat /\ Turns > 0 /\ type \in 1 .. 6
  BY <1>1 DEF ListsInv, KeysInv, Turns, Ranked
<1>3. \A x : Seen(x)' = Seen(x)
  BY <1>1, <1>2, SeenEnd
<1>4. Sights'
  BY <1>1, <1>2, SightsEnd
<1>5. /\ type = 4 => open = DOMAIN queue
      /\ type # 4 => open = {}
      /\ Untaken' = Untaken /\ Untaken \subseteq Vertex /\ DOMAIN queue \subseteq Untaken
  <2>1. {ot[p] : p \in 0 .. nopen - 1} = DOMAIN queue
    BY <1>1, <1>2, OpenQueued
  <2> QED BY <1>1, <1>2, <2>1 DEF Untaken, Opened
<1> HIDE DEF open
<1>6. sod \in [Vertex -> Int] /\ degrees \in [Vertex -> Nat] /\ sod' \in [Vertex -> Int]
  <2>1. sod \in [Vertex -> Int] /\ degrees \in [Vertex -> Nat]
    BY <1>2 DEF OpenSums, Sights
  <2> QED BY <1>1, <2>1
<1>7. ASSUME type = 4, NEW u \in Untaken
      PROVE  sod'[u] = sod[u] + degrees[u]
  <2>1. u \in Vertex /\ (u \in open <=> degrees[u] > 0)
    BY <1>2, <1>5, <1>7 DEF Opened
  <2>2. sod'[u] = sod[u] + (IF u \in open THEN degrees[u] ELSE 0)
    BY <1>1, <2>1
  <2> QED BY <1>6, <2>1, <2>2
<1>8. ASSUME NEW u \in Untaken
      PROVE  /\ type = 3 => wdegrees'[u] = SumOn(OrderOf, Seen(u))'
             /\ type = 4 => sod'[u] = SumOn(AgeOf(turn), Seen(u))'
  <2>1. PICK S : S = Seen(u)
    OBVIOUS
  <2>2. PICK t : t = turn
    OBVIOUS
  <2>3. PICK t1 : t1 = t + 1
    OBVIOUS
  <2>4. /\ S \subseteq Into(u) /\ (\A e \in S : perm'[e[1]] = perm[e[1]]) /\ t \in Int /\ t1 \in Int
        /\ \A e \in S : perm[e[1]] \in Int
    BY <1>1, <1>2, <2>1, <2>2, <2>3, SeenFacts
  <2>5. SumOn(OrderOf, S)' = SumOn(OrderOf, S) /\ SumOn(AgeOf(t1), S)' = SumOn(AgeOf(t1), S)
    BY <1>2, <2>4, SumsSame
  <2>6. Seen(u)' = S /\ turn' = t1
    BY <1>1, <1>3, <2>1, <2>2, <2>3
  <2>7. SumOn(OrderOf, Seen(u))' = SumOn(OrderOf, S)' /\ SumOn(AgeOf(turn), Seen(u))' = SumOn(AgeOf(t1), S)'
    BY <2>6, SumsPrimed
  <2>8. SumOn(AgeOf(t1), S) = SumOn(AgeOf(t), S) + Cardinality(S)
    <3>1. PICK f : f = AgeOf(t)
      OBVIOUS
    <3>2. PICK g : g = AgeOf(t1)
      OBVIOUS
    <3>3. Summable(f, S)
      BY <1>2, <2>4, <3>1, OrdersSum
    <3>4. ASSUME NEW e \in S PROVE g[e] = f[e] + 1
      <4>1. e \in Vertex \X Nat /\ perm[e[1]] \in Int
        BY <1>2, <2>4, SeenFacts
      <4>2. f[e] = t - perm[e[1]] /\ g[e] = t1 - perm[e[1]]
        BY <3>1, <3>2, <4>1 DEF AgeOf
      <4> QED BY <2>3, <2>4, <4>1, <4>2
    <3>5. SumOn(g, S) = SumOn(f, S) + Cardinality(S)
      BY <3>3, <3>4, SumAged
    <3> QED BY <3>1, <3>2, <3>5
  <2>9. type = 4 => sod[u] = SumOn(AgeOf(t), S) /\ degrees[u] = Cardinality(S)
    BY <1>2, <2>1, <2>2 DEF OpenSums, Sights
  <2>10. type = 3 => wdegrees'[u] = SumOn(OrderOf, S)
    BY <1>1, <1>2, <2>1 DEF OpenSums
  <2>11. type = 4 => sod'[u] = SumOn(AgeOf(t1), S)
    BY <1>7, <2>8, <2>9
  <2> QED BY <2>5, <2>7, <2>10, <2>11
<1>9. OpenSums'
  BY <1>1, <1>2, <1>5, <1>6, <1>8 DEF OpenSums
<1>10. OpenKeys'
  <2> SUFFICES ASSUME NEW u \in DOMAIN queue'
               PROVE  \E f \in Seen(u)' : (Greatest(u, f) /\ OpenKey(u, perm[f[1]]))'
    BY DEF OpenKeys
  <2>1. u \in DOMAIN queue /\ (u \notin open => queue'[u] = queue[u])
    BY <1>1
  <2>2. PICK e \in Seen(u) : Greatest(u, e) /\ OpenKey(u, perm[e[1]])
    BY <1>2, <2>1 DEF OpenKeys
  <2>3. e \in Seen(u)' /\ Greatest(u, e)' /\ perm'[e[1]] = perm[e[1]]
    BY <1>1, <1>3, <2>2, GreatestSame
  <2>5. type # 4 => queue'[u] = queue[u]
    BY <1>5, <2>1
  <2>6. OpenKey(u, perm[e[1]])'
    BY <1>1, <2>2, <2>3, <2>5 DEF OpenKey
  <2> QED BY <2>3, <2>6
<1>11. ASSUME type = 4 PROVE LateKeys'
  <2>1. PICK r : LastUpdate(r, turn) /\ \A u \in DOMAIN queue : KeyShown(u, r)
    BY <1>2, <1>11 DEF LateKeys
  <2>2. PICK s : s = IF Updated(turn) THEN turn + 1 ELSE r
    OBVIOUS
  <2>3. LastUpdate(s, turn + 1)
    BY <1>2, <2>1, <2>2, UpdateNext
  <2>4. LastUpdate(s, turn)'
    BY <1>1, <2>3 DEF LastUpdate, Updated
  <2>5. ASSUME NEW u \in DOMAIN queue' PROVE KeyShown(u, s)'
    <3>1. CASE Updated(turn)
      <4>1. PICK S : S = Seen(u)
        OBVIOUS
      <4>2. PICK t : t = turn'
        OBVIOUS
      <4>3. PICK f : f = AgeOf(t)'
        OBVIOUS
      <4>4. u \in Untaken' /\ u \in open /\ queue'[u] = sod'[u] /\ type' = 4
        BY <1>1, <1>5, <1>11, <2>5, <3>1
      <4>5. Seen(u)' = S /\ t \in Int /\ s = t
        BY <1>1, <1>2, <1>3, <2>2, <3>1, <4>1, <4>2
      <4>6. queue'[u] = SumOn(AgeOf(turn), Seen(u))'
        BY <1>9, <4>4 DEF OpenSums
      <4>7. SumOn(AgeOf(turn), Seen(u))' = SumOn(AgeOf(t), S)'
        BY <4>2, <4>5, SumsPrimed
      <4>8. SumOn(AgeOf(t), S)' = SumOn(f, S)
        BY <4>3 DEF SumOn, SumFunctionOnSet, FoldFunctionOnSet, MapThenFoldSet
      <4>9. /\ S \subseteq Into(u) /\ IsFiniteSet(S)
            /\ \A e \in S : e \in Vertex \X Nat /\ perm'[e[1]] \in Int /\ perm'[e[1]] < t
        <5>1. \A e \in S : /\ e \in Vertex \X Nat /\ perm[e[1]] \in Int /\ perm[e[1]] < Turns
          BY <1>2, <4>1, SeenFacts
        <5>2. S \subseteq Into(u) /\ IsFiniteSet(S)
          BY <1>2, <4>1, SeenFacts
        <5> QED BY <1>1, <1>2, <4>2, <5>1, <5>2
      <4>10. \A e \in S : f[e] = t - perm'[e[1]] /\ f[e] = ShownAt(perm'[e[1]], s) /\ f[e] \in Int
        <5> SUFFICES ASSUME NEW e \in S
                     PROVE  f[e] = t - perm'[e[1]] /\ f[e] = ShownAt(perm'[e[1]], s) /\ f[e] \in Int
          OBVIOUS
        <5>1. e \in Vertex \X Nat /\ perm'[e[1]] \in Int /\ perm'[e[1]] < t
          BY <4>9
        <5>2. f[e] = t - perm'[e[1]]
          BY <4>3, <5>1 DEF AgeOf
        <5> QED BY <4>5, <5>1, <5>2 DEF ShownAt
      <4>11. Summable(f, S)
        BY <4>9, <4>10 DEF Summable
      <4>12. Summable(f, S)' /\ SumOn(f, S)' = SumOn(f, S)
        BY <4>11 DEF Summable, SumOn, SumFunctionOnSet, FoldFunctionOnSet, MapThenFoldSet
      <4>13. queue'[u] = SumOn(f, S)'
        BY <4>6, <4>7, <4>8, <4>12
      <4>14. \A e \in S : f[e] = ShownAt(perm[e[1]], s)'
        BY <4>10 DEF ShownAt
      <4> QED BY <4>5, <4>12, <4>13, <4>14 DEF KeyShown
    <3>2. CASE ~Updated(turn)
      <4>1. s = r /\ u \in DOMAIN queue /\ queue'[u] = queue[u]
        BY <1>1, <2>2, <2>5, <3>2
      <4>2. Seen(u)' = Seen(u) /\ \A e \in Seen(u) : perm'[e[1]] = perm[e[1]]
        BY <1>1, <1>3
      <4> QED BY <2>1, <4>1, <4>2, ShownKept
    <3> QED BY <3>1, <3>2
  <2> QED BY <2>4, <2>5 DEF LateKeys
<1>12. LateKeys'
  BY <1>1, <1>11 DEF LateKeys
<1> QED BY <1>1, <1>2, <1>4, <1>9, <1>10, <1>12 DEF KeysInv, BestOpen, BestAll

LEMMA ReturnBestKeys == ASSUME KeysInv, ReturnBest PROVE KeysInv'
BY DEF ReturnBest, AtLoop, KeysInv
-----------------------------------------------------------------------------
(* gk_graph_ComputeBestFOrdering0: a key stays while no edge from the      *)
(* vertex taken leads to it.                                               *)
LEMMA AnyKeySame ==
  ASSUME Ranked, NEW x, Steady(x), Met(x)' = Met(x), \A e \in Met(x) : perm'[e[1]] = perm[e[1]],
         degrees'[x] = degrees[x], NEW e \in Seen(x), Greatest(x, e), AnyKey(x, perm[e[1]])
  PROVE  \E f \in Seen(x)' : (Greatest(x, f) /\ AnyKey(x, perm[f[1]]))'
<1>1. e \in Seen(x)' /\ Greatest(x, e)' /\ perm'[e[1]] = perm[e[1]]
  BY GreatestSame DEF Steady
<1>2. PICK S : S = Met(x)
  OBVIOUS
<1>3. PICK p : p = perm[e[1]]
  OBVIOUS
<1>4. S \subseteq Into(x) /\ (\A f \in S : perm'[f[1]] = perm[f[1]]) /\ p \in Int
  BY <1>2, <1>3, SeenFacts
<1>5. SumOn(OrderOf, S)' = SumOn(OrderOf, S) /\ SumOn(AgeOf(p), S)' = SumOn(AgeOf(p), S)
  BY <1>4, SumsSame
<1>6. /\ SumOn(OrderOf, Met(x))' = SumOn(OrderOf, S)'
      /\ SumOn(AgeOf(p), Met(x))' = SumOn(AgeOf(p), S)'
  <2>1. Met(x)' = S
    BY <1>2
  <2>2. SumOn(OrderOf, Met(x))' = SumOn(OrderOf', Met(x)') /\ SumOn(OrderOf, S)' = SumOn(OrderOf', S)
    BY DEF SumOn, SumFunctionOnSet, FoldFunctionOnSet, MapThenFoldSet
  <2>3. /\ SumOn(AgeOf(p), Met(x))' = SumOn(AgeOf(p)', Met(x)')
        /\ SumOn(AgeOf(p), S)' = SumOn(AgeOf(p)', S)
    BY DEF SumOn, SumFunctionOnSet, FoldFunctionOnSet, MapThenFoldSet
  <2> QED BY <2>1, <2>2, <2>3
<1>7. AnyKey(x, p)'
  BY <1>2, <1>3, <1>5, <1>6 DEF AnyKey, Steady
<1>8. AnyKey(x, perm[e[1]])' <=> AnyKey(x, p)'
  BY <1>1, <1>3 DEF AnyKey, AgeOf
<1> QED BY <1>1, <1>7, <1>8

LEMMA EnterAllKeys == ASSUME ListsInv, ListsInv', KeysInv, EnterAll PROVE KeysInv'
<1>1. /\ alg \in BestAll /\ alg' = alg /\ alg \in Best /\ alg' \in Best /\ alg' \notin BestOpen
      /\ pc = "call" /\ pc' = "loop" /\ queue' = [All(0) EXCEPT ![v] = 1]
      /\ UNCHANGED <<adj, v, perm, degrees, turn, type>>
  BY DEF EnterAll, dvars, Best, BestAll, BestOpen
<1>2. Ranked /\ Sights /\ turn = 0
  BY <1>1 DEF ListsInv, KeysInv, Ranked
<1>3. Sights'
  BY <1>1, <1>2, SightsEnd
<1>4. AnyKeys'
  BY <1>1, <1>2 DEF AnyKeys, Turns
<1>5. Symmetric' => AllQueued'
  <2>1. Symmetric' => Symmetric
    BY <1>1 DEF Symmetric, Entries
  <2> QED BY <1>1, <2>1 DEF AllQueued, KeysInv, All
<1> QED BY <1>1, <1>3, <1>4, <1>5 DEF KeysInv

LEMMA TakeAnyKeys == ASSUME ListsInv, ListsInv', KeysInv, TakeAny PROVE KeysInv'
<1>1. PICK w \in DOMAIN queue :
        /\ IsTop(queue, w) /\ perm[w] = -1 /\ queue' = Without(queue, w)
        /\ perm' = [perm EXCEPT ![w] = turn] /\ pc' = "see" /\ v' = w /\ edges' = adj[w]
  BY DEF TakeAny
<1>2. /\ alg \in BestAll /\ alg' = alg /\ alg \in Best /\ alg' \in Best /\ alg' \notin BestOpen
      /\ pc = "loop" /\ turn < nvtxs /\ UNCHANGED <<adj, degrees, turn, type>>
  BY DEF TakeAny, AtLoop, dvars, Best, BestAll, BestOpen
<1>3. /\ Ranked /\ Ranked' /\ Sights /\ DOMAIN queue = Untaken /\ w \in Vertex
      /\ turn \in Nat /\ Turns = turn /\ Turns' = turn + 1
  BY <1>1, <1>2 DEF ListsInv, KeysInv, Ranked, Turns, Untaken
<1>4. \A x : /\ Seen(x)' = Seen(x) /\ \A e \in Seen(x) : perm'[e[1]] = perm[e[1]]
             /\ Met(x)' = Met(x) /\ \A e \in Met(x) : perm'[e[1]] = perm[e[1]]
  BY <1>1, <1>2, <1>3, SeenTaking
<1>5. Sights'
  BY <1>1, <1>2, <1>3, SightsTake
<1>6. Symmetric' => Symmetric
  BY <1>2 DEF Symmetric, Entries
<1>7. ASSUME Symmetric PROVE AnyKeys'
  <2> SUFFICES ASSUME NEW u \in DOMAIN queue'
               PROVE  (IF Seen(u) = {} THEN queue[u] = 0
                       ELSE \E e \in Seen(u) : Greatest(u, e) /\ AnyKey(u, perm[e[1]]))'
    BY DEF AnyKeys
  <2>1. u \in DOMAIN queue /\ u # w /\ queue'[u] = queue[u]
    BY <1>1 DEF Without, Restrict
  <2>2. AnyKeys /\ AllQueued
    BY <1>2, <1>7 DEF KeysInv
  <2>3. CASE turn = 0
    <3>1. v \in Vertex /\ queue = [All(0) EXCEPT ![v] = 1]
      BY <1>2, <2>2, <2>3 DEF AllQueued
    <3>2. /\ DOMAIN queue = Vertex /\ v \in DOMAIN queue /\ queue[v] = 1
          /\ \A x \in Vertex \ {v} : queue[x] = 0
      BY <3>1 DEF All
    <3>3. w = v
      <4>1. queue[v] <= queue[w]
        BY <1>1, <3>2 DEF IsTop
      <4> QED BY <1>1, <3>2, <4>1
    <3>4. queue'[u] = 0
      BY <2>1, <3>2, <3>3
    <3>5. Seen(u) = {}
      <4>1. ASSUME NEW e \in Seen(u) PROVE FALSE
        <5>1. e \in Into(u) /\ perm[e[1]] \in Nat /\ perm[e[1]] < turn
          BY <1>3, SeenFacts
        <5> QED BY <2>3, <5>1
      <4> QED BY <4>1
    <3> QED BY <1>4, <3>4, <3>5
  <2>4. CASE turn # 0
    <3>1. IF Seen(u) = {} THEN queue[u] = 0
          ELSE \E e \in Seen(u) : Greatest(u, e) /\ AnyKey(u, perm[e[1]])
      BY <1>3, <2>1, <2>2, <2>4 DEF AnyKeys
    <3>2. CASE Seen(u) = {}
      BY <1>4, <2>1, <3>1, <3>2
    <3>3. CASE Seen(u) # {}
      <4>1. PICK e \in Seen(u) : Greatest(u, e) /\ AnyKey(u, perm[e[1]])
        BY <3>1, <3>3
      <4>2. Steady(u)
        BY <1>2, <1>4, <2>1 DEF Steady
      <4>3. \E f \in Seen(u)' : (Greatest(u, f) /\ AnyKey(u, perm[f[1]]))'
        BY <1>2, <1>3, <1>4, <4>1, <4>2, AnyKeySame
      <4> QED BY <4>3
    <3> QED BY <3>2, <3>3
  <2> QED BY <2>3, <2>4
<1>8. AllQueued'
  BY <1>1 DEF AllQueued
<1> QED BY <1>2, <1>5, <1>6, <1>7, <1>8 DEF KeysInv

LEMMA EndAnyKeys == ASSUME ListsInv, ListsInv', KeysInv, EndAny PROVE KeysInv'
<1>1. /\ alg \in BestAll /\ alg' = alg /\ alg \in Best /\ alg' \in Best /\ alg' \notin BestOpen
      /\ pc = "see" /\ pc' = "loop" /\ edges = <<>> /\ turn' = turn + 1
      /\ UNCHANGED <<adj, v, perm, degrees, queue, type>>
  BY DEF EndAny, dvars, Best, BestAll, BestOpen
<1>2. Ranked /\ Sights /\ turn \in Nat /\ Turns = turn + 1 /\ Turns' = turn + 1
  BY <1>1 DEF ListsInv, KeysInv, Ranked, Turns
<1>3. Sights'
  BY <1>1, <1>2, SightsEnd
<1>4. \A x : Seen(x)' = Seen(x) /\ Met(x)' = Met(x)
  BY <1>1, <1>2, SeenEnd
<1>5. Symmetric' => Symmetric
  BY <1>1 DEF Symmetric, Entries
<1>6. ASSUME Symmetric PROVE AnyKeys'
  <2> SUFFICES ASSUME NEW u \in DOMAIN queue'
               PROVE  (IF Seen(u) = {} THEN queue[u] = 0
                       ELSE \E e \in Seen(u) : Greatest(u, e) /\ AnyKey(u, perm[e[1]]))'
    BY DEF AnyKeys
  <2>1. u \in DOMAIN queue /\ queue'[u] = queue[u] /\ AnyKeys
    BY <1>1, <1>6 DEF KeysInv
  <2>2. IF Seen(u) = {} THEN queue[u] = 0
        ELSE \E e \in Seen(u) : Greatest(u, e) /\ AnyKey(u, perm[e[1]])
    BY <1>2, <2>1 DEF AnyKeys
  <2>3. CASE Seen(u) = {}
    BY <1>4, <2>1, <2>2, <2>3
  <2>4. CASE Seen(u) # {}
    <3>1. PICK e \in Seen(u) : Greatest(u, e) /\ AnyKey(u, perm[e[1]])
      BY <2>2, <2>4
    <3>2. Steady(u)
      BY <1>1, <1>4, <2>1 DEF Steady
    <3>3. \E f \in Seen(u)' : (Greatest(u, f) /\ AnyKey(u, perm[f[1]]))'
      BY <1>1, <1>2, <1>4, <3>1, <3>2, AnyKeySame
    <3> QED BY <3>3
  <2> QED BY <2>3, <2>4
<1>7. AllQueued'
  BY <1>1, <1>2 DEF AllQueued
<1> QED BY <1>1, <1>3, <1>5, <1>6, <1>7 DEF KeysInv

LEMMA SeeAnyKeys == ASSUME ListsInv, ListsInv', KeysInv, SeeAny PROVE KeysInv'
<1>1. PICK u : u = Head(edges)
  OBVIOUS
<1>2. PICK c : c = Len(adj[v]) - Len(edges) + 1
  OBVIOUS
<1>3. PICK e : e = <<v, c>>
  OBVIOUS
<1>4. /\ alg \in BestAll /\ alg' = alg /\ alg \in Best /\ alg' \in Best /\ alg' \notin BestOpen
      /\ pc = "see" /\ pc' = "see" /\ edges # <<>> /\ edges' = Tail(edges)
      /\ UNCHANGED <<adj, perm, v, turn, type>>
  BY DEF SeeAny, Best, BestAll, BestOpen
<1>5. /\ Ranked /\ Ranked' /\ Sights /\ DOMAIN queue = Untaken /\ DOMAIN queue' = Untaken'
      /\ Turns = turn + 1 /\ Turns' = turn + 1 /\ turn \in Nat /\ type \in 1 .. 4
  BY <1>4 DEF ListsInv, KeysInv, Turns, Ranked
<1>6. /\ u \in Vertex /\ v \in Vertex /\ perm[v] = turn /\ Into(u)' = Into(u)
      /\ e \notin Seen(u) /\ e \in Into(u) /\ e[1] = v /\ Seen(u)' = Seen(u) \cup {e}
      /\ Met(u)' = Into(u)
      /\ \A x \in Vertex : x # u => Seen(x)' = Seen(x) /\ Met(x)' = Met(x)
  BY <1>1, <1>2, <1>3, <1>4, <1>5, SeenNext
<1>7. Untaken' = Untaken /\ Untaken \subseteq Vertex
  BY <1>4 DEF Untaken
<1>8. degrees' = IF perm[u] = -1 THEN [degrees EXCEPT ![u] = degrees[u] + 1] ELSE degrees
  BY <1>1 DEF SeeAny
<1>9. Sights'
  BY <1>1, <1>4, <1>5, <1>8, SightsSee
<1>10. Symmetric' => Symmetric
  BY <1>4 DEF Symmetric, Entries
<1>11. AllQueued'
  BY <1>4 DEF AllQueued
<1> DEFINE right(x) == (IF Seen(x) = {} THEN queue[x] = 0
                        ELSE \E f \in Seen(x) : Greatest(x, f) /\ AnyKey(x, perm[f[1]]))
<1>12. ASSUME Symmetric, NEW x \in Untaken, x # u, queue'[x] = queue[x]
       PROVE  right(x)'
  <2>1. right(x)
    BY <1>4, <1>5, <1>12 DEF AnyKeys, KeysInv
  <2>2. /\ Seen(x)' = Seen(x) /\ Met(x)' = Met(x) /\ degrees'[x] = degrees[x]
    BY <1>6, <1>7, <1>8, <1>12
  <2>3. CASE Seen(x) = {}
    BY <1>12, <2>1, <2>2, <2>3
  <2>4. CASE Seen(x) # {}
    <3>1. PICK f \in Seen(x) : Greatest(x, f) /\ AnyKey(x, perm[f[1]])
      BY <2>1, <2>4
    <3>2. Steady(x)
      BY <1>4, <1>12, <2>2 DEF Steady
    <3>3. \A h \in Met(x) : perm'[h[1]] = perm[h[1]]
      BY <1>4
    <3>4. \E h \in Seen(x)' : (Greatest(x, h) /\ AnyKey(x, perm[h[1]]))'
      BY <1>5, <2>2, <3>1, <3>2, <3>3, AnyKeySame
    <3> QED BY <3>4
  <2> QED BY <2>3, <2>4
<1>13. CASE perm[u] # -1
  <2>1. queue' = queue /\ u \notin Untaken
    BY <1>1, <1>13 DEF SeeAny, Untaken
  <2>2. Symmetric => AnyKeys'
    BY <1>5, <1>7, <1>12, <2>1 DEF AnyKeys
  <2> QED BY <1>4, <1>5, <1>9, <1>10, <1>11, <2>2 DEF KeysInv
<1>14. CASE perm[u] = -1
  <2> DEFINE k == CASE type = 1 -> 1
                    [] type = 2 -> degrees[u] + 1
                    [] type = 3 -> SumTaken(u, Identity)
                    [] type = 4 -> SumTaken(u, [p \in Vertex |-> turn - p])
  <2>1. queue' = With(queue, u, k)
    BY <1>1, <1>14 DEF SeeAny, Put
  <2>2. /\ type = 1 => k = 1
        /\ type = 2 => k = degrees[u] + 1
        /\ type = 3 => k = SumTaken(u, Identity)
        /\ type = 4 => k = SumTaken(u, [p \in Vertex |-> turn - p])
    BY <1>5
  <2> HIDE DEF k
  <2>3. /\ u \in Untaken /\ queue'[u] = k /\ degrees'[u] = degrees[u] + 1
        /\ \A x \in Untaken : x # u => queue'[x] = queue[x]
    <3>1. degrees \in [Vertex -> Nat]
      BY <1>5 DEF Sights
    <3> QED BY <1>5, <1>6, <1>8, <1>14, <2>1, <3>1 DEF With, Untaken
  <2>4. Greatest(u, e)' /\ e \in Seen(u)' /\ perm'[e[1]] = turn
    <3>1. ASSUME NEW f \in Seen(u) PROVE perm[f[1]] <= turn
      <4>1. perm[f[1]] \in Nat /\ perm[f[1]] < turn + 1
        BY <1>5, SeenFacts
      <4> QED BY <1>5, <4>1
    <3>2. perm[e[1]] = turn /\ turn <= turn
      BY <1>5, <1>6
    <3> QED BY <1>4, <1>6, <3>1, <3>2 DEF Greatest
  <2>5. ASSUME Symmetric PROVE AnyKey(u, perm[e[1]])'
    <3>1. PICK S : S = Into(u)
      OBVIOUS
    <3>2. PICK t : t = turn
      OBVIOUS
    <3>3. S \subseteq Into(u) /\ (\A f \in S : perm'[f[1]] = perm[f[1]]) /\ t \in Int
      BY <1>4, <1>5, <3>1, <3>2
    <3>4. SumOn(OrderOf, S)' = SumOn(OrderOf, S) /\ SumOn(AgeOf(t), S)' = SumOn(AgeOf(t), S)
      BY <1>5, <3>3, SumsSame
    <3>5. SumTaken(u, Identity) = SumOn(OrderOf, S)
      <4>1. \A p \in Vertex : Identity[p] \in Int
        BY VertexFacts DEF Identity
      <4>2. \A f \in Into(u) : OrderOf[f] = Identity[perm[f[1]]]
        <5> TAKE f \in Into(u)
        <5>1. perm[f[1]] \in Vertex /\ f \in Vertex \X Nat
          BY <1>5, SeenFacts
        <5> QED BY <5>1 DEF OrderOf, Identity
      <4>3. SumTaken(u, Identity) = SumOn(OrderOf, Into(u))
        BY <1>5, <1>6, <2>5, <4>1, <4>2, SumTakenIs
      <4> QED BY <3>1, <4>3
    <3>6. SumTaken(u, [p \in Vertex |-> turn - p]) = SumOn(AgeOf(t), S)
      <4>1. PICK g : g = [p \in Vertex |-> turn - p]
        OBVIOUS
      <4>2. PICK h : h = AgeOf(t)
        OBVIOUS
      <4>3. \A p \in Vertex : p \in Int /\ g[p] = turn - p /\ g[p] \in Int
        BY <1>5, <4>1, VertexFacts
      <4>4. \A f \in Into(u) : h[f] = g[perm[f[1]]]
        <5> TAKE f \in Into(u)
        <5>1. perm[f[1]] \in Vertex /\ f \in Vertex \X Nat
          BY <1>5, SeenFacts
        <5> QED BY <3>2, <4>2, <4>3, <5>1 DEF AgeOf
      <4>5. SumTaken(u, g) = SumOn(h, Into(u))
        BY <1>5, <1>6, <2>5, <4>3, <4>4, SumTakenIs
      <4> QED BY <3>1, <4>1, <4>2, <4>5
    <3>7. SumOn(OrderOf, Met(u))' = SumOn(OrderOf, S)'
      <4>1. SumOn(OrderOf, Met(u))' = SumOn(OrderOf', Met(u)') /\ SumOn(OrderOf, S)' = SumOn(OrderOf', S)
        BY DEF SumOn, SumFunctionOnSet, FoldFunctionOnSet, MapThenFoldSet
      <4> QED BY <1>6, <3>1, <4>1
    <3>8. SumOn(AgeOf(perm[e[1]]), Met(u))' = SumOn(AgeOf(t), S)'
      <4>1. AgeOf(perm[e[1]])' = AgeOf(t)'
        BY <2>4, <3>2 DEF AgeOf
      <4>2. /\ SumOn(AgeOf(perm[e[1]]), Met(u))' = SumOn(AgeOf(perm[e[1]])', Met(u)')
            /\ SumOn(AgeOf(t), S)' = SumOn(AgeOf(t)', S)
        BY DEF SumOn, SumFunctionOnSet, FoldFunctionOnSet, MapThenFoldSet
      <4> QED BY <1>6, <3>1, <4>1, <4>2
    <3> QED BY <1>4, <2>2, <2>3, <3>4, <3>5, <3>6, <3>7, <3>8 DEF AnyKey
  <2>6. ASSUME Symmetric PROVE AnyKeys'
    <3> SUFFICES ASSUME NEW x \in Untaken PROVE right(x)'
      BY <1>5, <1>7 DEF AnyKeys
    <3>1. CASE x = u
      <4>1. Seen(u)' # {}
        BY <2>4
      <4> QED BY <2>4, <2>5, <2>6, <3>1, <4>1
    <3>2. CASE x # u
      BY <1>12, <2>3, <2>6, <3>2
    <3> QED BY <3>1, <3>2
  <2> QED BY <1>4, <1>5, <1>9, <1>10, <1>11, <2>6 DEF KeysInv
<1> QED BY <1>13, <1>14
-----------------------------------------------------------------------------
LEMMA InitKeysInv == BestInit => KeysInv
<1> SUFFICES ASSUME BestInit PROVE KeysInv
  OBVIOUS
<1>1. /\ adj \in Graphs /\ v \in Vertex /\ pc = "call" /\ edges = <<>> /\ alg \in Best \cup Paths
      /\ perm = All(-1) /\ degrees = All(0) /\ wdegrees = All(0) /\ sod = All(0) /\ level = All(0)
      /\ turn = 0
      /\ type \in IF alg \in BestOpen THEN 1 .. 6 ELSE IF alg \in BestAll THEN 1 .. 4 ELSE {1}
  BY GraphsOnVertices DEF BestInit, BestStart, Called
<1>2. \A u \in Vertex : perm[u] = -1 /\ degrees[u] = 0 /\ wdegrees[u] = 0 /\ sod[u] = 0
  BY <1>1 DEF All
<1>3. \A u : Seen(u) = {}
  <2>1. adj \in [Vertex -> Seq(Vertex)]
    BY <1>1, GraphsOnVertices
  <2> SUFFICES ASSUME NEW u, NEW e \in Seen(u) PROVE FALSE
    OBVIOUS
  <2>2. e \in Into(u)
    BY DEF Seen
  <2>3. e[1] \in Vertex /\ perm[e[1]] # -1
    BY <2>1, <2>2, IntoIs
  <2> QED BY <1>2, <2>3
<1>4. /\ degrees \in [Vertex -> Nat] /\ wdegrees \in [Vertex -> Int] /\ sod \in [Vertex -> Int]
      /\ level \in [Vertex -> Int]
  BY <1>1 DEF All
<1>5. Sights
  BY <1>1, <1>2, <1>3, <1>4, FS_EmptySet DEF Sights, Untaken
<1>6. OpenSums
  <2>1. \A u : SumOn(OrderOf, Seen(u)) = 0 /\ SumOn(AgeOf(turn), Seen(u)) = 0
    <3>1. SumOn(OrderOf, {}) = 0 /\ SumOn(AgeOf(turn), {}) = 0
      BY SumEmpty
    <3> QED BY <1>3, <3>1
  <2> QED BY <1>2, <1>4, <2>1 DEF OpenSums, Untaken
<1>7. OpenKeys /\ AnyKeys /\ AllQueued /\ LateKeys
  <2>1. LastUpdate(0, turn) /\ ~(Turns > 0)
    BY <1>1 DEF LastUpdate, Turns
  <2>2. LateKeys
    BY <2>1 DEF LateKeys
  <2> QED BY <1>1, <2>2 DEF OpenKeys, AnyKeys, AllQueued, Turns
<1>8. type \in 1 .. 6 /\ (alg \in BestAll => type \in 1 .. 4)
  BY <1>1 DEF BestOpen, BestAll
<1> QED BY <1>5, <1>6, <1>7, <1>8 DEF KeysInv

LEMMA NextKeysInv == KeysInv /\ ListsInv /\ ListsInv' /\ [BestNext]_<<avars, qvars>> => KeysInv'
<1> SUFFICES ASSUME KeysInv, ListsInv, ListsInv', [BestNext]_<<avars, qvars>> PROVE KeysInv'
  OBVIOUS
<1>1. CASE FollowOpen \/ FollowAll
  BY <1>1, EnterBestKeys, TakeBestKeys, SeeBestKeys, EndTurnKeys, ReturnBestKeys,
     EnterAllKeys, TakeAnyKeys, SeeAnyKeys, EndAnyKeys DEF FollowOpen, FollowAll
<1>2. CASE gk_graph_SingleSourceShortestPaths
  <2>1. alg' = alg /\ alg \in Paths /\ type' = type
    BY <1>2 DEF gk_graph_SingleSourceShortestPaths, EnterPaths, Settle, Relax, ReturnPaths, AtLoop, qvars
  <2> QED BY <2>1 DEF KeysInv, Best, BestOpen, BestAll, Paths
<1>3. CASE UNCHANGED <<avars, qvars>>
  <2>1. UNCHANGED <<adj, alg, pc, v, edges, type, queue, perm, degrees, wdegrees, sod, level, turn>>
    BY <1>3 DEF avars, qvars, dvars
  <2>2. /\ Turns' = Turns /\ Untaken' = Untaken /\ (Symmetric' <=> Symmetric)
        /\ \A u : Into(u)' = Into(u)
    BY <2>1 DEF Turns, Untaken, Symmetric, Into, Entries
  <2>3. \A u : Seen(u)' = Seen(u)
    BY <2>1, <2>2 DEF Seen, Unseen
  <2>4. \A u : Met(u)' = Met(u)
    BY <2>2, <2>3 DEF Met
  <2>5. OrderOf' = OrderOf /\ \A t : AgeOf(t)' = AgeOf(t)
    BY <2>1 DEF OrderOf, AgeOf
  <2>6. Sights => Sights'
    BY <2>1, <2>2, <2>3 DEF Sights
  <2>7. ASSUME alg \in Best, pc # "done", Ranked, OpenSums PROVE OpenSums'
    <3>1. \A x : Seen(x)' = Seen(x) /\ \A e \in Seen(x) : perm'[e[1]] = perm[e[1]]
      BY <2>1, <2>3
    <3> QED BY <2>1, <2>2, <2>7, <3>1, OpenSumsKept
  <2>8. \A u, e : Greatest(u, e)' <=> Greatest(u, e)
    BY <2>1, <2>3 DEF Greatest
  <2>9. OpenKeys => OpenKeys'
    BY <2>1, <2>2, <2>3, <2>8 DEF OpenKeys, OpenKey
  <2>10. ASSUME Ranked, AnyKeys PROVE AnyKeys'
    <3> SUFFICES ASSUME Turns > 0, NEW u \in DOMAIN queue
                 PROVE  (IF Seen(u) = {} THEN queue[u] = 0
                         ELSE \E e \in Seen(u) : Greatest(u, e) /\ AnyKey(u, perm[e[1]]))'
      BY <2>1, <2>2 DEF AnyKeys
    <3>1. IF Seen(u) = {} THEN queue[u] = 0
          ELSE \E e \in Seen(u) : Greatest(u, e) /\ AnyKey(u, perm[e[1]])
      BY <2>10 DEF AnyKeys
    <3>2. CASE Seen(u) = {}
      BY <2>1, <2>3, <3>1, <3>2
    <3>3. CASE Seen(u) # {}
      <4>1. PICK e \in Seen(u) : Greatest(u, e) /\ AnyKey(u, perm[e[1]])
        BY <3>1, <3>3
      <4>2. Steady(u) /\ \A f \in Met(u) : perm'[f[1]] = perm[f[1]]
        BY <2>1, <2>3 DEF Steady
      <4>3. \E f \in Seen(u)' : (Greatest(u, f) /\ AnyKey(u, perm[f[1]]))'
        BY <2>1, <2>4, <2>10, <4>1, <4>2, AnyKeySame
      <4> QED BY <4>3
    <3> QED BY <3>2, <3>3
  <2>11. AllQueued => AllQueued'
    BY <2>1 DEF AllQueued
  <2>12. LateKeys => LateKeys'
    <3>1. \A x : Seen(x)' = Seen(x) /\ \A e \in Seen(x) : perm'[e[1]] = perm[e[1]]
      BY <2>1, <2>3
    <3> QED BY <2>1, <2>2, <3>1, LateKept
  <2>13. alg \in Best => Ranked
    BY DEF ListsInv
  <2>14. alg \in BestOpen \/ alg \in BestAll => alg \in Best
    BY DEF Best
  <2> QED BY <2>1, <2>2, <2>6, <2>7, <2>9, <2>10, <2>11, <2>12, <2>13, <2>14 DEF KeysInv
<1> QED BY <1>1, <1>2, <1>3 DEF BestNext, gk_graph_ComputeBestFOrdering,
          gk_csr_ComputeBestFOrderingSymmetric, gk_graph_ComputeBestFOrdering0
-----------------------------------------------------------------------------
(* The greatest order among the edges into u is that of any greatest one.  *)
LEMMA LatestIs ==
  ASSUME Ranked, pc = "loop", NEW u, NEW e \in Seen(u), Greatest(u, e)
  PROVE  Latest(u) = perm[e[1]] /\ Into(u) # {}
<1>1. Seen(u) = Into(u)
  BY SeenFacts
<1>2. \A f \in Into(u) : perm[f[1]] \in Nat
  BY SeenFacts
<1>3. \A f \in Into(u) : perm[f[1]] <= perm[e[1]]
  BY <1>1 DEF Greatest
<1> DEFINE P == {perm[f[1]] : f \in Into(u)}
<1>4. perm[e[1]] \in P
  BY <1>1
<1>5. \A p \in P : (\A f \in Into(u) : perm[f[1]] <= p) => p = perm[e[1]]
  BY <1>1, <1>2, <1>3
<1>6. Latest(u) = CHOOSE p \in P : \A f \in Into(u) : perm[f[1]] <= p
  BY DEF Latest
<1> HIDE DEF P
<1>7. Latest(u) = perm[e[1]]
  BY <1>3, <1>4, <1>5, <1>6
<1> QED BY <1>1, <1>7

(* What Goodness sums is the sum of the orders, or of the ages.            *)
LEMMA SumsInto ==
  ASSUME Ranked, NEW u, NEW t \in Int
  PROVE  /\ SumInto(u, LAMBDA p : p) = SumOn(OrderOf, Into(u))
         /\ SumInto(u, LAMBDA p : t - p) = SumOn(AgeOf(t), Into(u))
<1>1. PICK S : S = Into(u)
  OBVIOUS
<1>2. PICK f : f = [e \in S |-> perm[e[1]]]
  OBVIOUS
<1>3. PICK g : g = [e \in S |-> t - perm[e[1]]]
  OBVIOUS
<1>4. /\ DOMAIN f = S /\ DOMAIN g = S
      /\ \A e \in S : f[e] = perm[e[1]] /\ g[e] = t - perm[e[1]]
  BY <1>2, <1>3
<1>5. SumInto(u, LAMBDA p : p) = SumOn(f, S)
  BY <1>1, <1>2, <1>4 DEF SumInto, SumFunction, SumOn
<1>6. SumInto(u, LAMBDA p : t - p) = SumOn(g, S)
  BY <1>1, <1>3, <1>4 DEF SumInto, SumFunction, SumOn
<1>7. /\ Summable(OrderOf, S) /\ Summable(AgeOf(t), S)
      /\ \A e \in S : OrderOf[e] = perm[e[1]] /\ AgeOf(t)[e] = t - perm[e[1]]
  BY <1>1, OrdersSum
<1>8. SumOn(OrderOf, S) = SumOn(f, S)
  BY <1>4, <1>7, SumSame
<1>9. PICK h : h = AgeOf(t)
  OBVIOUS
<1>10. Summable(h, S) /\ \A e \in S : h[e] = g[e]
  BY <1>4, <1>7, <1>9
<1>11. SumOn(h, S) = SumOn(g, S)
  BY <1>10, SumSame
<1> QED BY <1>1, <1>5, <1>6, <1>8, <1>9, <1>11

LEMMA SumsShown ==
  ASSUME NEW u, KeyShown(u, Refreshed), Seen(u) = Into(u)
  PROVE  queue[u] = SumInto(u, Shown)
<1>1. PICK f, S : /\ S = Into(u) /\ Summable(f, S) /\ queue[u] = SumOn(f, S)
                  /\ \A e \in S : f[e] = ShownAt(perm[e[1]], Refreshed)
  BY DEF KeyShown
<1>2. PICK g : g = [e \in S |-> Shown(perm[e[1]])]
  OBVIOUS
<1>3. DOMAIN g = S /\ \A e \in S : f[e] = g[e]
  BY <1>1, <1>2 DEF Shown, ShownAt
<1>4. SumInto(u, Shown) = SumOn(g, S)
  BY <1>1, <1>2, <1>3 DEF SumInto, SumFunction, SumOn
<1>5. SumOn(f, S) = SumOn(g, S)
  BY <1>1, <1>3, SumSame
<1> QED BY <1>1, <1>4, <1>5

LEMMA KeysRight ==
  ASSUME ListsInv, KeysInv, alg \in Best, pc = "loop", alg \in BestOpen \/ Symmetric
  PROVE  KeysMean
<1> SUFFICES ASSUME turn > 0, NEW u \in DOMAIN queue
             PROVE  queue[u] = IF Into(u) = {} THEN 0 ELSE Goodness(u)
  BY DEF KeysMean
<1>1. Ranked /\ Sights /\ Turns = turn /\ turn \in Int
  BY DEF ListsInv, KeysInv, Ranked, Turns
<1>2. Seen(u) = Into(u) /\ Met(u) = Into(u)
  BY <1>1, SeenFacts
<1>3. SumInto(u, LAMBDA p : p) = SumOn(OrderOf, Into(u))
  BY <1>1, SumsInto
<1>4. CASE alg \in BestOpen
  <2>1. Opened /\ OpenSums /\ OpenKeys /\ LateKeys /\ type \in 1 .. 6 /\ alg \notin BestAll
    BY <1>4 DEF ListsInv, KeysInv, BestOpen, BestAll
  <2>2. u \in Untaken
    BY <2>1 DEF Opened
  <2>3. PICK e \in Seen(u) : Greatest(u, e) /\ OpenKey(u, perm[e[1]])
    BY <1>1, <2>1 DEF OpenKeys
  <2>4. Latest(u) = perm[e[1]] /\ Into(u) # {}
    BY <1>1, <2>3, LatestIs
  <2>5. degrees[u] = Cardinality(Into(u))
    BY <1>1, <1>2, <2>2 DEF Sights
  <2>6. type = 3 => wdegrees[u] = SumInto(u, LAMBDA p : p)
    BY <1>2, <1>3, <2>1, <2>2 DEF OpenSums
  <2>7. type = 4 => queue[u] = SumInto(u, Shown)
    <3> SUFFICES ASSUME type = 4 PROVE queue[u] = SumInto(u, Shown)
      OBVIOUS
    <3>1. PICK r : LastUpdate(r, turn) /\ KeyShown(u, r)
      BY <1>1, <2>1 DEF LateKeys
    <3>2. turn \in Nat
      BY <1>1
    <3>3. Refreshed = r
      BY <3>1, <3>2, RefreshedIs
    <3>4. KeyShown(u, Refreshed)
      BY <3>1, <3>3
    <3> QED BY <1>2, <3>4, SumsShown
  <2>8. queue[u] = Goodness(u)
    BY <2>1, <2>3, <2>4, <2>5, <2>6, <2>7 DEF OpenKey, Goodness, SumInto
  <2> QED BY <2>4, <2>8
<1>5. CASE alg \notin BestOpen
  <2>1. alg \in BestAll /\ AnyKeys /\ type \in 1 .. 4 /\ u \in Untaken
    BY <1>5 DEF ListsInv, KeysInv, Best
  <2>2. alg # "gk_graph_ComputeBestFOrdering"
    BY <2>1 DEF BestAll
  <2>3. CASE Into(u) = {}
    BY <1>1, <1>2, <2>1, <2>3 DEF AnyKeys
  <2>4. CASE Into(u) # {}
    <3>1. PICK e \in Seen(u) : Greatest(u, e) /\ AnyKey(u, perm[e[1]])
      BY <1>1, <1>2, <2>1, <2>4 DEF AnyKeys
    <3>2. PICK t : t = perm[e[1]]
      OBVIOUS
    <3>3. Latest(u) = t /\ t \in Int
      BY <1>1, <1>2, <3>1, <3>2, LatestIs, SeenFacts
    <3>4. SumInto(u, LAMBDA p : Latest(u) - p) = SumOn(AgeOf(t), Into(u))
      <4>1. SumInto(u, LAMBDA p : t - p) = SumOn(AgeOf(t), Into(u))
        BY <1>1, <3>3, SumsInto
      <4> QED BY <3>3, <4>1 DEF SumInto
    <3>5. degrees[u] = Cardinality(Into(u))
      BY <1>1, <1>2, <2>1 DEF Sights
    <3>6. AnyKey(u, t)
      BY <3>1, <3>2
    <3>7. /\ type = 1 => queue[u] = 1
          /\ type = 2 => queue[u] = Cardinality(Into(u))
          /\ type = 3 => queue[u] = SumInto(u, LAMBDA p : p)
          /\ type = 4 => queue[u] = SumInto(u, LAMBDA p : Latest(u) - p)
      BY <1>2, <1>3, <3>4, <3>5, <3>6 DEF AnyKey
    <3>8. queue[u] = Goodness(u)
      BY <2>1, <2>2, <3>7 DEF Goodness, SumInto
    <3> QED BY <2>4, <3>8
  <2> QED BY <2>3, <2>4
<1> QED BY <1>4, <1>5

(* The best-first orders take each vertex once and never report an error   *)
(* of their own lists, and before each turn the key of an open vertex is   *)
(* what the criterion says of the vertices taken so far, although          *)
(* gk_graph_ComputeBestFOrdering, its twin of csr.c and                    *)
(* gk_graph_ComputeBestFOrdering0 update it edge by edge.                  *)
THEOREM BestFirstTheorem == BestSpec => []BestFirstOrder
<1>1. ListsInv /\ KeysInv => BestFirstOrder
  BY ListsInvAgree, KeysRight DEF BestFirstOrder
<1> QED BY <1>1, InitListsInv, NextListsInv, InitKeysInv, NextKeysInv, PTL DEF BestSpec
=============================================================================
