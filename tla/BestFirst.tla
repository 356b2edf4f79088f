----------------------------- MODULE BestFirst -----------------------------
(***************************************************************************)
(* The traversals with a priority queue: gk_graph_ComputeBestFOrdering,    *)
(* gk_csr_ComputeBestFOrderingSymmetric, gk_graph_ComputeBestFOrdering0,   *)
(* and gk_graph_SingleSourceShortestPaths. The queue is what PQueue        *)
(* implements: GetTop takes any vertex of the greatest key. A step takes a *)
(* vertex, sees one entry of its list, or ends its turn.                   *)
(*                                                                         *)
(* Contract: v is a vertex and indices are in range; no weight is negative;*)
(* keys and lengths fit their integers, which bounds the vertices. A       *)
(* failed allocation jumps or ends the process, as in BFSOrder.            *)
(* Bug... operators are mutated forms of the one after.                    *)
(***************************************************************************)
EXTENDS Adjacency, Functions

CONSTANTS
  Weights,      \* edge weights: functions from vertices to sequences
  EveryTurn, Stride \* the 1000 and the 25 of "i<1000 || i%25==0"

ASSUME Throttle == EveryTurn \in Nat /\ Stride \in Nat \ {0}

ASSUME WeightsOnEntries ==
  \A wgt \in Weights : \A u \in Vertex, g \in Graphs :
    Len(wgt[u]) >= Len(g[u]) /\ \A j \in DOMAIN wgt[u] : wgt[u][j] \in Nat

VARIABLES
  type,     \* the criterion of a best-first order
  queue,    \* the key of each queued vertex
  ot, nopen, nleft, \* ot[0 .. nopen-1] is open, ot[nopen .. nleft-1] to do (ntodo)
  perm,     \* the order of each vertex taken, or -1
  degrees,  \* how many edges lead to it from vertices taken
  wdegrees, sod, level, \* per vertex: sum of orders, of differences, its level
  turn,     \* the vertices taken (i)
  iperm,    \* the inverse of perm, as it is returned
  adjwgt,   \* the weight of each entry
  sps, inqueue, \* lengths found; 0: not seen, 1: queued, 2: final
  root      \* where the paths begin

qvars == <<type, queue, ot, nopen, nleft, perm, degrees, wdegrees, sod, level,
           turn, iperm, adjwgt, sps, inqueue, root>>
ovars == <<ot, nopen, nleft, pos>>
dvars == <<degrees, wdegrees, sod, level>>
svars == <<adjwgt, sps, inqueue, root>>

BestOpen == {"gk_graph_ComputeBestFOrdering", "gk_csr_ComputeBestFOrderingSymmetric"}
BestAll == {"gk_graph_ComputeBestFOrdering0"}
Best == BestOpen \cup BestAll
Paths == {"gk_graph_SingleSourceShortestPaths"}
All(x) == [u \in Vertex |-> x]

BestStart ==
  /\ queue = <<>> /\ iperm = <<>>
  /\ ot = Identity /\ nopen = 1 /\ nleft = nvtxs
  /\ perm = All(-1) /\ degrees = All(0) /\ wdegrees = All(0) /\ sod = All(0)
  /\ level = All(0) /\ turn = 0
  /\ sps = All(-1) /\ inqueue = All(0) /\ root = v
  /\ type \in (IF alg \in BestOpen THEN 1 .. 6 ELSE IF alg \in BestAll THEN 1 .. 4 ELSE {1})
  /\ adjwgt \in (IF alg \in Paths THEN Weights ELSE {All(<<>>)})
BestInit == Called(Best \cup Paths) /\ v # -1 /\ BestStart

With(q, u, k) == [w \in DOMAIN q \cup {u} |-> IF w = u THEN k ELSE q[w]]
Put(u, k) == queue' = With(queue, u, k)
IsTop(q, u) == u \in DOMAIN q /\ \A w \in DOMAIN q : q[w] <= q[u]
Without(q, u) == Restrict(q, DOMAIN q \ {u})

(* The first vertex is moved to the front of the open list.                *)
EnterBest ==
  /\ alg \in BestOpen /\ pc = "call" /\ pc' = "loop"
  /\ Put(v, 1)
  /\ ot' = Assign2(ot, 0, v, v, 0) /\ pos' = Assign2(pos, 0, v, v, 0)
  /\ UNCHANGED <<adj, alg, v, edges, type, nopen, nleft, perm, dvars, turn, iperm, svars>>

BugTaken(w, open) ==
  LET ot1 == [ot EXCEPT ![pos[w]] = ot[open - 1]]
      moves == nleft > open
  IN /\ ot' = IF moves THEN [ot1 EXCEPT ![open - 1] = ot1[nleft - 1]] ELSE ot1
     /\ pos' = IF moves THEN [pos EXCEPT ![ot1[nleft - 1]] = open - 1] ELSE pos
     /\ nopen' = open - 1 /\ nleft' = nleft - 1

(* w is taken from the open list: its last entry takes the place of w, and *)
(* the last entry of the todo part that of the former.                     *)
Taken(w, open) ==
  LET ot1 == [ot EXCEPT ![pos[w]] = ot[open - 1]]
      pos1 == [pos EXCEPT ![ot1[open - 1]] = pos[w]]
      moves == nleft > open
  IN /\ ot' = IF moves THEN [ot1 EXCEPT ![open - 1] = ot1[nleft - 1]] ELSE ot1
     /\ pos' = IF moves THEN [pos1 EXCEPT ![ot1[nleft - 1]] = open - 1] ELSE pos1
     /\ nopen' = open - 1 /\ nleft' = nleft - 1

(* The queue and the open list of a turn: if none is open, the first vertex*)
(* to do is opened.                                                        *)
Candidates == IF nopen = 0 THEN With(queue, ot[0], 1) ELSE queue
Open == IF nopen = 0 THEN 1 ELSE nopen

(* What the code checks of the vertex it takes, or else calls gk_errexit.  *)
TakeChecked(w) == perm[w] = -1 /\ ot[pos[w]] = w /\ pos[w] < Open

TakeBest ==
  /\ AtLoop(BestOpen) /\ turn < nvtxs
  /\ \E w \in DOMAIN Candidates :
       /\ IsTop(Candidates, w) /\ TakeChecked(w)
       /\ Taken(w, Open)
       /\ queue' = Without(Candidates, w) /\ perm' = [perm EXCEPT ![w] = turn]
       /\ pc' = "see" /\ v' = w /\ edges' = adj[w]
  /\ UNCHANGED <<adj, alg, type, dvars, turn, iperm, svars>>

ISqrt(n) == CHOOSE k \in 0 .. n : k * k <= n /\ n < (k + 1) * (k + 1)

(* The key of a vertex when one more edge to it is seen, d and w being its *)
(* degree and weighted degree with it. Those of type 4 change when a turn  *)
(* ends.                                                                   *)
Key(u, d, w, l) ==
  CASE type = 1 -> 1000 * (turn + 1) + d
    [] type = 2 -> d
    [] type = 3 -> IF alg = "gk_graph_ComputeBestFOrdering" THEN ISqrt(w) ELSE w
    [] type = 4 -> IF u \in DOMAIN queue THEN queue[u] ELSE 0
    [] type = 5 -> -(1000 * l - d)
    [] type = 6 -> (turn + 1) * d

SeeBest ==
  /\ alg \in BestOpen /\ pc = "see" /\ edges # <<>> /\ edges' = Tail(edges)
  /\ LET u == Head(edges)
         new == degrees[u] = 0
         w == wdegrees[u] + (IF type = 3 THEN turn ELSE 0)
         l == IF new THEN level[v] + 1 ELSE level[u]
     IN IF perm[u] # -1 THEN UNCHANGED <<ovars, dvars, queue>>
        ELSE /\ IF new
                THEN /\ ot' = Assign2(ot, pos[u], ot[nopen], nopen, u)
                     /\ pos' = Assign2(pos, ot[nopen], pos[u], u, nopen)
                     /\ nopen' = nopen + 1
                ELSE UNCHANGED <<ot, pos, nopen>>
             /\ degrees' = [degrees EXCEPT ![u] = degrees[u] + 1]
             /\ wdegrees' = [wdegrees EXCEPT ![u] = w]
             /\ level' = [level EXCEPT ![u] = l]
             /\ Put(u, Key(u, degrees[u] + 1, w, l))
             /\ UNCHANGED <<nleft, sod>>
  /\ UNCHANGED <<adj, alg, pc, v, type, perm, turn, iperm, svars>>

(* With type 4 the sums of all open vertices grow by their degrees, but    *)
(* late turns show only one sum in Stride to the queue.                    *)
Updated(t) == t < EveryTurn \/ t % Stride = 0

EndTurn ==
  /\ alg \in BestOpen /\ pc = "see" /\ edges = <<>>
  /\ turn' = turn + 1 /\ pc' = "loop"
  /\ LET open == {u \in {ot[p] : p \in 0 .. nopen - 1} : type = 4} IN
     /\ sod' = [u \in Vertex |-> sod[u] + (IF u \in open THEN degrees[u] ELSE 0)]
     /\ queue' = [u \in DOMAIN queue |-> IF u \in open /\ Updated(turn) THEN sod'[u] ELSE queue[u]]
  /\ UNCHANGED <<adj, alg, v, edges, ovars, type, perm, degrees, wdegrees, level, iperm, svars>>

ReturnBest ==
  /\ AtLoop(Best) /\ turn = nvtxs /\ pc' = "done"
  /\ iperm' = [p \in Vertex |-> CHOOSE u \in Vertex : perm[u] = p]
  /\ UNCHANGED <<adj, alg, v, edges, ovars, type, queue, perm, dvars, turn, svars>>

FollowOpen == EnterBest \/ TakeBest \/ SeeBest \/ EndTurn \/ (alg \in BestOpen /\ ReturnBest)
-----------------------------------------------------------------------------
(* gk_graph_ComputeBestFOrdering0 queues all vertices at once.             *)
EnterAll ==
  /\ alg \in BestAll /\ pc = "call" /\ pc' = "loop"
  /\ queue' = [All(0) EXCEPT ![v] = 1]
  /\ UNCHANGED <<adj, alg, v, edges, ovars, type, perm, dvars, turn, iperm, svars>>

TakeAny ==
  /\ AtLoop(BestAll) /\ turn < nvtxs
  /\ \E w \in DOMAIN queue :
       /\ IsTop(queue, w) /\ perm[w] = -1
       /\ queue' = Without(queue, w) /\ perm' = [perm EXCEPT ![w] = turn]
       /\ pc' = "see" /\ v' = w /\ edges' = adj[w]
  /\ UNCHANGED <<adj, alg, ovars, type, dvars, turn, iperm, svars>>

(* The sum, over the entries of the list of u that are taken, of order[p]  *)
(* where p is the order of the entry.                                      *)
SumTaken(u, order) ==
  SumFunction([j \in DOMAIN adj[u] |-> IF perm[adj[u][j]] = -1 THEN 0 ELSE order[perm[adj[u][j]]]])

SeeAny ==
  /\ alg \in BestAll /\ pc = "see" /\ edges # <<>> /\ edges' = Tail(edges)
  /\ LET u == Head(edges) IN
     IF perm[u] # -1 THEN UNCHANGED <<degrees, queue>>
     ELSE /\ degrees' = [degrees EXCEPT ![u] = degrees[u] + 1]
          /\ Put(u, CASE type = 1 -> 1
                      [] type = 2 -> degrees[u] + 1
                      [] type = 3 -> SumTaken(u, Identity)
                      [] type = 4 -> SumTaken(u, [p \in Vertex |-> turn - p]))
  /\ UNCHANGED <<adj, alg, pc, v, ovars, type, perm, wdegrees, sod, level, turn, iperm, svars>>

EndAny ==
  /\ alg \in BestAll /\ pc = "see" /\ edges = <<>>
  /\ turn' = turn + 1 /\ pc' = "loop"
  /\ UNCHANGED <<adj, alg, v, edges, ovars, type, queue, perm, dvars, iperm, svars>>

FollowAll == EnterAll \/ TakeAny \/ SeeAny \/ EndAny \/ (alg \in BestAll /\ ReturnBest)
-----------------------------------------------------------------------------
EnterPaths ==
  /\ alg \in Paths /\ pc = "call" /\ pc' = "loop"
  /\ Put(v, 0) /\ inqueue' = [inqueue EXCEPT ![v] = 1] /\ sps' = [sps EXCEPT ![v] = 0]
  /\ UNCHANGED <<adj, alg, v, edges, ovars, type, perm, dvars, turn, iperm, adjwgt, root>>

Settle ==
  /\ AtLoop(Paths)
  /\ \E w \in DOMAIN queue :
       /\ IsTop(queue, w) /\ queue' = Without(queue, w)
       /\ inqueue' = [inqueue EXCEPT ![w] = 2]
       /\ v' = w /\ edges' = adj[w]
  /\ UNCHANGED <<adj, alg, pc, ovars, type, perm, dvars, turn, iperm, adjwgt, sps, root>>

BugBetter(u, length) == sps[u] < 0

(* A path of this length is better than what is known of u.                *)
Better(u, length) == sps[u] < 0 \/ length < sps[u]

Relax ==
  /\ alg \in Paths /\ edges # <<>> /\ edges' = Tail(edges)
  /\ LET u == Head(edges)
         length == sps[v] + adjwgt[v][Len(adj[v]) - Len(edges) + 1]
     IN IF inqueue[u] = 2 \/ ~Better(u, length) THEN UNCHANGED <<sps, inqueue, queue>>
        ELSE /\ sps' = [sps EXCEPT ![u] = length]
             /\ inqueue' = [inqueue EXCEPT ![u] = 1]
             /\ Put(u, -length)
  /\ UNCHANGED <<adj, alg, pc, v, ovars, type, perm, dvars, turn, iperm, adjwgt, root>>

ReturnPaths ==
  /\ AtLoop(Paths) /\ queue = <<>> /\ pc' = "done"
  /\ UNCHANGED <<adj, alg, v, edges, pos, qvars>>

gk_graph_ComputeBestFOrdering == alg = "gk_graph_ComputeBestFOrdering" /\ FollowOpen
gk_csr_ComputeBestFOrderingSymmetric ==
  alg = "gk_csr_ComputeBestFOrderingSymmetric" /\ FollowOpen
gk_graph_ComputeBestFOrdering0 == FollowAll
gk_graph_SingleSourceShortestPaths == EnterPaths \/ Settle \/ Relax \/ ReturnPaths

BestNext ==
  \/ gk_graph_ComputeBestFOrdering \/ gk_csr_ComputeBestFOrderingSymmetric
  \/ gk_graph_ComputeBestFOrdering0 \/ gk_graph_SingleSourceShortestPaths
BestSpec == BestInit /\ [][BestNext]_<<avars, qvars>>
-----------------------------------------------------------------------------
BestTypeOK ==
  /\ AdjacencyOK
  /\ DOMAIN queue \subseteq Vertex /\ \A u \in DOMAIN queue : queue[u] \in Int
  /\ ot \in [Vertex -> Vertex] /\ nopen \in 0 .. nvtxs /\ nleft \in 0 .. nvtxs
  /\ perm \in [Vertex -> -1 .. nvtxs - 1] /\ turn \in 0 .. nvtxs
  /\ sps \in [Vertex -> Nat \cup {-1}] /\ inqueue \in [Vertex -> 0 .. 2]

(* The open vertices are those queued and those before nopen; the vertices *)
(* not taken are listed once, with their place.                            *)
OpenSound ==
  /\ {ot[p] : p \in 0 .. nopen - 1} = DOMAIN queue
  /\ {ot[p] : p \in 0 .. nleft - 1} = {u \in Vertex : perm[u] = -1}
  /\ \A p \in 0 .. nleft - 1 : pos[ot[p]] = p
  /\ turn > 0 => \A u \in Vertex : perm[u] = -1 => (u \in DOMAIN queue <=> degrees[u] > 0)

(* The edges from taken vertices into u, and the sum of f over the orders  *)
(* of the vertices they come from.                                         *)
Into(u) == UNION {{w} \X Entries(w, u) : w \in {x \in Vertex : perm[x] # -1}}
SumInto(u, f(_)) == SumFunction([e \in Into(u) |-> f(perm[e[1]])])
Latest(u) == CHOOSE p \in {perm[e[1]] : e \in Into(u)} : \A e \in Into(u) : perm[e[1]] <= p

(* The turn after the last one at whose end keys of type 4 were updated.   *)
LastUpdate(r, n) ==
  r \in 0 .. n /\ (r = 0 \/ Updated(r - 1)) /\ \A t \in r .. n - 1 : ~Updated(t)
Refreshed == CHOOSE r \in 0 .. turn : LastUpdate(r, turn)
Shown(p) == IF p < Refreshed THEN Refreshed - p ELSE 0

(* What makes an open vertex good, said of the order alone. (Type 4 of the *)
(* open list knows only what had happened at the last update.)             *)
Goodness(u) ==
  LET d == Cardinality(Into(u)) IN
  CASE type = 1 -> IF alg \in BestAll THEN 1 ELSE 1000 * (Latest(u) + 1) + d
    [] type = 2 -> d
    [] type = 3 -> LET s == SumInto(u, LAMBDA p : p)
                   IN IF alg = "gk_graph_ComputeBestFOrdering" THEN ISqrt(s) ELSE s
    [] type = 4 -> IF alg \in BestAll THEN SumInto(u, LAMBDA p : Latest(u) - p)
                                      ELSE SumInto(u, Shown)
    [] type = 5 -> d - 1000 * level[u]
    [] type = 6 -> (Latest(u) + 1) * d
KeysMean ==
  turn > 0 => \A u \in DOMAIN queue : queue[u] = IF Into(u) = {} THEN 0 ELSE Goodness(u)

Symmetric == \A u, w \in Vertex : Cardinality(Entries(u, w)) = Cardinality(Entries(w, u))

(* None of the checks of the code can fail before a turn or at its end.    *)
ChecksHold ==
  /\ pc = "loop" /\ turn < nvtxs =>
       LET q == IF alg \in BestOpen THEN Candidates ELSE queue IN
       /\ q # <<>>
       /\ \A w \in DOMAIN q :
            IsTop(q, w) => perm[w] = -1 /\ (alg \in BestOpen => TakeChecked(w))
  /\ alg \in BestOpen => \A p \in 0 .. nopen - 1 : pc = "see" => perm[ot[p]] = -1

(* The best-first orders of graphs and matrices take each vertex once and  *)
(* never report an error of their own lists.                               *)
ListsAgree ==
  alg \in Best /\ pc # "call" =>
    /\ ChecksHold
    /\ pc = "loop" /\ alg \in BestOpen => OpenSound
    /\ pc = "done" => \A u \in Vertex : perm[u] \in Vertex /\ iperm[perm[u]] = u

(* And before each turn the key of an open vertex is what the criterion    *)
(* says of the vertices taken so far, although it is only updated edge by  *)
(* edge. (Orders that look at the edges of the open vertex need a symmetric*)
(* graph.)                                                                 *)
BestFirstOrder ==
  /\ ListsAgree
  /\ alg \in Best /\ pc = "loop" /\ (alg \in BestOpen \/ Symmetric) => KeysMean

(* The lengths from the vertex s in the graph a of the shortest paths of at*)
(* most n edges: what one edge more reaches, and how near it is.           *)
None == -1
OneVertex(s) == [All(None) EXCEPT ![s] = 0]
Leading(a, u) == UNION {{w} \X {j \in DOMAIN a[w] : a[w][j] = u} : w \in Vertex}
Along(wgt, d, e) == IF d[e[1]] = None THEN None ELSE d[e[1]] + wgt[e[1]][e[2]]
Offered(a, wgt, d, u) == {d[u]} \cup {Along(wgt, d, e) : e \in Leading(a, u)}
Further(a, wgt, d) ==
  [u \in Vertex |->
     LET c == Offered(a, wgt, d, u) \ {None}
     IN IF c = {} THEN None ELSE CHOOSE m \in c : \A x \in c : m <= x]
Lengths(a, wgt, s, n) ==
  LET D[k \in Nat] == IF k = 0 THEN OneVertex(s) ELSE Further(a, wgt, D[k - 1])
  IN D[n]

(* gk_graph_SingleSourceShortestPaths: a length is right once its vertex is*)
(* final, which it is when its turn comes, and -1 where no path leads.     *)
ShortestLengths ==
  alg \in Paths /\ pc \in {"loop", "done"} =>
    \A u \in Vertex : inqueue[u] = 2 \/ pc = "done" => sps[u] = Lengths(adj, adjwgt, root, nvtxs)[u]
=============================================================================
