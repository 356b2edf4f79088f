----------------------------- MODULE MCMatrices -----------------------------
EXTENDS Matrices

CONSTANTS MaxFirst, GraphMax

(* Every view of n lines over m with at most k entries, with values of V or*)
(* (NULL in V) without.                                                    *)
Views(n, m, k, V) == UNION {
  {[ptr |-> p, ind |-> i, val |-> v] :
      p \in {p \in [0 .. n -> 0 .. e] : p[0] = 0 /\ p[n] = e /\ \A a \in First(n) : p[a] <= p[a + 1]},
      i \in [First(e) -> First(m)],
      v \in [First(e) -> V \ {NULL}] \cup (V \cap {NULL})} : e \in 0 .. k}

Tags(n, t) == [i \in First(n) |-> t + i]
CSR(n, m, k, V) == {Matrix("csr", n, m, view, NULL, Tags(n, 10), Tags(m, 20)) : view \in Views(n, m, k, V)}
Graph(n, k, V) == {Matrix("graph", n, n, view, NULL, Tags(n, 10), NULL) : view \in Views(n, n, k, V)}

MCMatrices ==
  CSR(3, 3, 1, {2}) \cup CSR(2, 2, MaxFirst, {2, 4}) \cup CSR(2, 2, 2, {NULL}) \cup CSR(2, 1, 2, {2}) \cup CSR(0, 2, 0, {2})
  \cup Graph(2, GraphMax, {1, 3}) \cup Graph(2, 2, {NULL})

(* Matrices of three rows are only started from: their many permutations  *)
(* are tried, and their results are not followed.                          *)
MCEntries == [n \in 0 .. 3 |-> IF n = 3 THEN -1 ELSE 3]
MCColors == {-1, 0, 2, 3}
MCValues == [csr |-> {2, 4}, graph |-> {1, 3}]
MCFractions == {<<1, 2>>}
=============================================================================
