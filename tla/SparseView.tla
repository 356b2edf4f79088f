----------------------------- MODULE SparseView -----------------------------
(***************************************************************************)
(* The compressed storage of src/src/csr.c and src/src/graph.c: a view of  *)
(* a sparse matrix by its lines (rows, columns, or the adjacency lists of  *)
(* a graph). ptr[i] is where line i begins in ind and val, ptr[n] where    *)
(* the last one ends; val is NULL when the entries have no values. Of an   *)
(* array that is allocated longer than it is filled only the filled part   *)
(* is kept; what is allocated and not written yet is Garbage.              *)
(***************************************************************************)
EXTENDS Integers, Sequences, FiniteSets

CONSTANTS NULL, Garbage

First(n) == 0 .. n - 1                       \* the indices of a C array of n
Places(view, n) == First(view.ptr[n])        \* the entries of a view of n lines
Fresh(n) == [p \in First(n) |-> Garbage]     \* what malloc gives

Span(view, i) == view.ptr[i] .. view.ptr[i + 1] - 1
LineOf(view, p) == CHOOSE i \in DOMAIN view.ptr : i + 1 \in DOMAIN view.ptr /\ p \in Span(view, i)
ValueAt(view, p) == IF view.val = NULL THEN NULL ELSE view.val[p]

(* One view of n lines whose entries name one of m crossing lines, as      *)
(* gk_csr_ValidateSparseView accepts it.                                   *)
ValidateSparseView(n, m, view) ==
  /\ view.ptr[0] = 0
  /\ \A i \in First(n) : view.ptr[i] <= view.ptr[i + 1]
  /\ (view.ptr[n] > 0 \/ view.val # NULL) => view.ind # NULL
  /\ \A p \in First(view.ptr[n]) : view.ind[p] \in First(m)

(* permutation[i] is a permutation of 0 .. n-1.                            *)
ValidatePermutation(permutation, n) ==
  /\ \A i \in First(n) : permutation[i] \in First(n)
  /\ \A i, j \in First(n) : permutation[i] = permutation[j] => i = j

(* The two macros of gk_macros.h: counts to starting places, and starting  *)
(* places that were used as cursors back to starting places.               *)
SHIFTCSR(n, a) == [i \in 0 .. n |-> IF i = 0 THEN 0 ELSE a[i - 1]]
MAKECSR(n, a) ==
  LET sum[i \in First(n)] == IF i = 0 THEN a[0] ELSE sum[i - 1] + a[i]
  IN SHIFTCSR(n, sum)

(* Entry p of the source, for each p of the set from, goes to line key[p]  *)
(* of n and becomes <<id[p], val[p]>>: the lines are counted, then filled  *)
(* in the order of the source with their starting places as cursors.       *)
Counted(n, from, key) == [i \in 0 .. n |-> Cardinality({p \in from : key[p] = i})]
Put(s, line, id, v) ==
  LET q == s.ptr[line]
  IN [ptr |-> [s.ptr EXCEPT ![line] = q + 1],
      ind |-> [s.ind EXCEPT ![q] = id],
      val |-> IF s.val = NULL THEN NULL ELSE [s.val EXCEPT ![q] = v]]
Filled(ptr, from, key, id, val) ==
  LET size == Cardinality(from)
      upto[p \in Nat] ==
        IF p = 0 THEN [ptr |-> ptr, ind |-> Fresh(size), val |-> IF val = NULL THEN NULL ELSE Fresh(size)]
        ELSE IF p - 1 \notin from THEN upto[p - 1]
        ELSE Put(upto[p - 1], key[p - 1], id[p - 1], IF val = NULL THEN NULL ELSE val[p - 1])
  IN upto[Cardinality(DOMAIN key)]
Regroup(n, from, key, id, val) ==
  LET filled == Filled(MAKECSR(n, Counted(n, from, key)), from, key, id, val)
  IN [filled EXCEPT !.ptr = SHIFTCSR(n, @)]

(* The crossing view: n lines, from one of m lines.                        *)
Lines(view, m) == [p \in Places(view, m) |-> LineOf(view, p)]
Crossed(view, m, n) ==
  Regroup(n, Places(view, m), [p \in Places(view, m) |-> view.ind[p]], Lines(view, m), view.val)

(* The places of S by increasing key, and by tie where the keys are equal: *)
(* the sorts of gk_mksort.h are not stable, tie is the order they happen   *)
(* to leave equal keys in.                                                 *)
Arranged(S, key, tie) ==
  LET before(p, q) == key[p] < key[q] \/ (key[p] = key[q] /\ tie[p] < tie[q])
  IN [k \in 1 .. Cardinality(S) |-> CHOOSE p \in S : Cardinality({q \in S : before(q, p)}) = k - 1]
Same(n) == [i \in First(n) |-> i]
Ascending(S) == Arranged(S, [p \in S |-> p], [p \in S |-> 0])
Ties(n) == {f \in [First(n) -> First(n)] : ValidatePermutation(f, n)}
Negative(key) == [p \in DOMAIN key |-> -key[p]]

(* n lines, line i the entries at the places lines[i] of a view, one after *)
(* the other, with their crossing lines renamed: what a loop appends.      *)
Gathered(view, n, lines, name) ==
  LET upto[i \in Nat] == IF i = 0 THEN <<>> ELSE upto[i - 1] \o lines[i - 1]
      all == upto[n]
  IN [ptr |-> [i \in 0 .. n |-> Len(upto[i])],
      ind |-> IF view.ind = NULL THEN NULL ELSE [p \in First(Len(all)) |-> name[view.ind[all[p + 1]]]],
      val |-> IF view.val = NULL THEN NULL ELSE [p \in First(Len(all)) |-> view.val[all[p + 1]]]]

(* Lines s .. s+n-1, as memcpy takes them; the labels of these lines.      *)
Slice(view, s, n) ==
  LET size == view.ptr[s + n] - view.ptr[s]
      part(a) == IF a = NULL THEN NULL ELSE [p \in First(size) |-> a[view.ptr[s] + p]]
  IN IF view = NULL THEN NULL
     ELSE [ptr |-> [i \in 0 .. n |-> view.ptr[s + i] - view.ptr[s]], ind |-> part(view.ind), val |-> part(view.val)]
Labels(lab, s, n) == IF lab = NULL THEN NULL ELSE [i \in First(n) |-> lab[s + i]]

-----------------------------------------------------------------------------
(***************************************************************************)
(* gk_csr_MakeSymmetric and gk_graph_MakeSymmetric: the symmetric version  *)
(* A op A^T of a square view, and the check METIS output makes of symmetry.*)
(* The two are the same but for the values: float of a matrix, whose half  *)
(* is exact on the even values the model gives one, and integers of a      *)
(* graph, halved by /2. A line keeps, for every crossing line k, a queue of*)
(* its own entries to k that no reverse entry has been matched with yet:   *)
(* marker[k] is the first, last[k] the last, next the links; 0 ends a queue*)
(* (-1 in the code) and Matched is its -2.                                 *)
(***************************************************************************)

CONSTANT MaxWeight      \* above it a sum overflows (float or int32_t)
ASSUME MaxWeightPositive == MaxWeight \in Nat

SymOps == {"SUM", "MIN", "MAX", "AVG"}
Matched == -1

Combined(op, a, b) ==
  CASE op = "SUM" -> a + b
    [] op = "MIN" -> IF a < b THEN a ELSE b
    [] op = "MAX" -> IF a > b THEN a ELSE b
    [] op = "AVG" -> (a + b) \div 2
Alone(op, a) == IF a # NULL /\ op = "AVG" THEN a \div 2 ELSE a

NoQueues(n) == [ids |-> <<>>, wgts |-> <<>>, next |-> <<>>, overflow |-> FALSE,
                marker |-> [k \in First(n) |-> 0], last |-> [k \in First(n) |-> 0]]

(* The next out-edge of the line: it joins the queue of its target.        *)
OutEdge(s, k, w) ==
  LET nadj == Len(s.ids) + 1
      next == IF s.marker[k] = 0 THEN s.next ELSE [s.next EXCEPT ![s.last[k]] = nadj]
  IN [s EXCEPT !.ids = Append(@, k), !.wgts = Append(@, w), !.next = Append(next, 0),
               !.marker[k] = IF @ = 0 THEN nadj ELSE @, !.last[k] = nadj]

(* The next in-edge, from line k: it is combined with the first out-edge to*)
(* k still waiting, or is an edge of its own unless only common edges stay.*)
BugInEdgeSameOutEdge(s, op, k, w) ==
  LET position == s.marker[k]
  IN IF position = 0
     THEN IF op = "MIN" THEN s
          ELSE [s EXCEPT !.ids = Append(@, k), !.wgts = Append(@, Alone(op, w))]
     ELSE [s EXCEPT !.next[position] = Matched,
                    !.wgts[position] = IF w = NULL THEN @ ELSE Combined(op, w, @)]
InEdge(s, op, k, w) ==
  LET position == s.marker[k]
      rest == s.next[position]
  IN IF position = 0
     THEN IF op = "MIN" THEN s
          ELSE [s EXCEPT !.ids = Append(@, k), !.wgts = Append(@, Alone(op, w))]
     ELSE [s EXCEPT !.marker[k] = rest, !.last[k] = IF rest = 0 THEN 0 ELSE @,
                    !.next[position] = Matched,
                    !.wgts[position] = IF w = NULL THEN @ ELSE Combined(op, w, @),
                    !.overflow = @ \/ (w # NULL /\ op = "SUM" /\ w + s.wgts[position] > MaxWeight)]

(* The line when all its edges are seen: waiting out-edges have no reverse *)
(* and are left out (MIN: their id becomes -1) or halved (AVG).            *)
Resolved(s, op) ==
  LET nout == Len(s.next)
      stays(j) == j > nout \/ s.next[j] = Matched \/ op # "MIN"
      kept == Ascending({j \in DOMAIN s.ids : stays(j)})
      wgt(j) == IF j <= nout /\ s.next[j] # Matched THEN Alone(op, s.wgts[j]) ELSE s.wgts[j]
  IN [ids |-> [q \in DOMAIN kept |-> s.ids[kept[q]]], wgts |-> [q \in DOMAIN kept |-> wgt(kept[q])],
      overflow |-> s.overflow]

SymmetricLine(view, columns, n, op, i) ==
  LET out  == Ascending(Span(view, i))
      in   == Ascending(Span(columns, i))
      outs[j \in 0 .. Len(out)] ==
        IF j = 0 THEN NoQueues(n)
        ELSE OutEdge(outs[j - 1], view.ind[out[j]], ValueAt(view, out[j]))
      ins[j \in 0 .. Len(in)] ==
        IF j = 0 THEN outs[Len(out)]
        ELSE InEdge(ins[j - 1], op, columns.ind[in[j]], ValueAt(columns, in[j]))
  IN Resolved(ins[Len(in)], op)

MakeSymmetric(view, n, op) ==
  LET columns == Crossed(view, n, n)
      line == [i \in First(n) |-> SymmetricLine(view, columns, n, op, i)]
      upto[i \in 0 .. n] == IF i = 0 THEN <<>>
                            ELSE upto[i - 1] \o [q \in DOMAIN line[i - 1].ids |-> <<line[i - 1].ids[q], line[i - 1].wgts[q]>>]
      all == upto[n]
  IN [overflow |-> \E i \in First(n) : line[i].overflow,
      view |-> [ptr |-> [i \in 0 .. n |-> Len(upto[i])],
                ind |-> [p \in First(Len(all)) |-> all[p + 1][1]],
                val |-> IF view.val = NULL THEN NULL ELSE [p \in First(Len(all)) |-> all[p + 1][2]]]]

(* The check of METIS output: every run of equal edges has a reverse run of*)
(* the same length, none is from a line to itself. The weight is a part of *)
(* the edge for a graph and not for a matrix.                              *)
Edge(view, p, weighted) == <<LineOf(view, p), view.ind[p], IF weighted THEN ValueAt(view, p) ELSE NULL>>
Reverse(e) == <<e[2], e[1], e[3]>>
Run(view, n, weighted, e) == {p \in Places(view, n) : Edge(view, p, weighted) = e}
ValidateSymmetry(view, n, weighted) ==
  /\ view.ptr[n] % 2 = 0
  /\ \A p \in Places(view, n) :
       LET e == Edge(view, p, weighted)
       IN /\ e[1] # e[2]
          /\ Cardinality(Run(view, n, weighted, Reverse(e))) = Cardinality(Run(view, n, weighted, e))
=============================================================================
