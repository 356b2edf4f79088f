---------------------------- MODULE MCTraversals ----------------------------
EXTENDS Components, BFSOrder, BestFirst, SequencesExt

Pairs == {p \in Vertex \X Vertex : p[1] < p[2]}
Adjacent(E, u) == {w \in Vertex : <<u, w>> \in E \/ <<w, u>> \in E}

(* Every undirected graph, with its lists in increasing and in decreasing  *)
(* order, and every acyclic one with duplicate edges and a loop.           *)
Up == [p \in 1 .. nvtxs |-> p - 1]
Listed(S, order) == SelectSeq(order, LAMBDA u : u \in S)
MCGraphs ==
  UNION {{[u \in Vertex |-> Listed(Adjacent(E, u), Up)],
          [u \in Vertex |-> Listed(Adjacent(E, u), Reverse(Up))],
          [u \in Vertex |->
             LET next == Listed({w \in Vertex : <<u, w>> \in E}, Up)
             IN IF u = 1 THEN <<1>> \o next \o next ELSE next]} : E \in SUBSET Pairs}
MCStarts == Vertex \cup {-1}
MCWeights ==
  {[u \in Vertex |-> [j \in 1 .. 2 * nvtxs |-> (a * u + b * j) % 4]] : a \in 0 .. 2, b \in 1 .. 3}

vars == <<avars, cvars, bvars, qvars>>
Init ==
  /\ Called(Finders \cup Ordered \cup Best \cup Paths)
  /\ alg \in Finders => v = -1
  /\ alg \in Best \cup Paths \cup {"gk_graph_ComputeBFSOrdering"} => v # -1
  /\ ComponentsStart /\ OrderStart /\ BestStart

(* After v = -1 was used as an index nothing can be said.                  *)
EndsUndefined == alg \in Ordered /\ pc = "loop" /\ v = -1

Next ==
  \/ ComponentsNext /\ UNCHANGED <<bvars, qvars>>
  \/ OrderNext /\ UNCHANGED <<cvars, qvars>>
  \/ BestNext /\ UNCHANGED <<cvars, bvars>>
  \/ (pc = "done" \/ EndsUndefined) /\ UNCHANGED vars

Spec == Init /\ [][Next]_vars
TypeOK == ComponentsTypeOK /\ OrderTypeOK /\ BestTypeOK
=============================================================================
