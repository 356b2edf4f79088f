---------------------------- MODULE SparseMatrix ----------------------------
(***************************************************************************)
(* What the functions of csr.c and graph.c promise, without the compressed *)
(* storage: a matrix is a bag of entries <<row, column, value>>, once by   *)
(* its rows and once by its columns (NULL: it has no such view), and labels*)
(* of its rows and columns. m is the matrix a call is made on, r what it   *)
(* returns, call the call and raised the signal an error raises.           *)
(***************************************************************************)
EXTENDS Integers, Sequences, FiniteSets, Bags

CONSTANTS NULL, MaxWeight, TopColor
VARIABLES m, r, call, raised

First(n) == 0 .. n - 1
Permutes(f, n) == {f[i] : i \in First(n)} = First(n)
Cells(nrows, ncols) == First(nrows) \X First(ncols)
Entries(B) == BagToSet(B)
Count(B, cell) == BagCardinality([e \in {e \in Entries(B) : <<e[1], e[2]>> = cell} |-> B[e]])

(* The matrix over these cells that has in each what B has in its origin.  *)
Pulled(B, cells, origin) ==
  LET from(e) == <<origin[<<e[1], e[2]>>][1], origin[<<e[1], e[2]>>][2], e[3]>>
      there == {e \in {<<c[1], c[2], x[3]>> : c \in cells, x \in Entries(B)} : from(e) \in Entries(B)}
  IN [e \in there |-> B[from(e)]]
Swapped(nrows, ncols) == [c \in Cells(nrows, ncols) |-> <<c[2], c[1]>>]
Flip(B, nrows, ncols) == Pulled(B, Cells(ncols, nrows), Swapped(ncols, nrows))

Rectangular(a, nrows, ncols, rows) ==
  /\ a.nrows = nrows /\ a.ncols = ncols /\ a.rows = rows /\ a.cols = NULL /\ a.kind = m.kind
Unlabelled(a) == a.rlab = NULL /\ a.clab = NULL
LabelledBy(old, new, order) == new = IF old = NULL THEN NULL ELSE [i \in DOMAIN order |-> old[order[i]]]

Chosen(a, rows) ==
  LET n == Cardinality(DOMAIN rows)
      cells == Cells(n, m.ncols)
  IN Rectangular(a, n, m.ncols, Pulled(m.rows, cells, [c \in cells |-> <<rows[c[1]], c[2]>>]))
Permuted(a, rorder, corder) ==
  LET cells == Cells(m.nrows, m.ncols)
  IN Rectangular(a, m.nrows, m.ncols, Pulled(m.rows, cells, [c \in cells |-> <<rorder[c[1]], corder[c[2]]>>]))

-----------------------------------------------------------------------------
Sorted(S) == CHOOSE f \in [First(Cardinality(S)) -> S] : \A i, j \in DOMAIN f : i < j => f[i] < f[j]
Sub(s, n) == [i \in First(n) |-> i + s]
Part(c) == {i \in First(m.nrows) : c[2][i] = c[3]}
Only(cells) == Pulled(m.rows, cells, [c \in cells |-> c])
Row(B, i) == [e \in {e \in Entries(B) : e[1] = i} |-> B[e]]
Column(B, j) == [e \in {e \in Entries(B) : e[2] = j} |-> B[e]]
Lines(what) == IF what = "ROW" THEN First(m.nrows) ELSE First(m.ncols)
LineIn(what, B, i) == IF what = "ROW" THEN Row(B, i) ELSE Column(B, i)

Total(B, norm) ==
  LET each(e) == B[e] * (IF norm = 1 THEN e[3] ELSE e[3] * e[3])
      sum[S \in SUBSET Entries(B)] == IF S = {} THEN 0 ELSE LET e == CHOOSE e \in S : TRUE IN each(e) + sum[S \ {e}]
  IN sum[Entries(B)]
Dropped(B, K) == Entries(B (-) K)
Heaviest(B, K) == K \sqsubseteq B /\ \A e \in Entries(K), d \in Dropped(B, K) : e[3] >= d[3]

(* A filter by LowFilter keeps the heaviest of every line, no more than it *)
(* takes to pass the fraction of its weight; TopKPlusFilter the heaviest   *)
(* topk and what weighs keepval or more: equal weights stay, as in the code*)
(* though not in its header, csr.c:2532 ("above which will be kept").      *)
LowLine(B, K, norm, f) ==
  /\ Dropped(B, K) # {} => f[2] * Total(K, norm) > f[1] * Total(B, norm)
  /\ \A e \in Entries(K) : (\A d \in Entries(K) : d[3] >= e[3]) =>
       f[2] * Total(K (-) SetToBag({e}), norm) <= f[1] * Total(B, norm)
TopLine(B, K, topk, keepval) ==
  /\ Dropped(B, K) # {} => BagCardinality(K) >= topk
  /\ \A d \in Dropped(B, K) : d[3] < keepval
  /\ BagCardinality(K) > topk => \A e \in Entries(K) : e[3] >= keepval

(* A op A^T: as many entries in a cell as the larger (MIN: the smaller) of *)
(* it and its mirror has, and where each has one at most, the right one.   *)
Least(a, b) == IF a < b THEN a ELSE b
Most(a, b) == IF a > b THEN a ELSE b
Both(op, a, b) == CASE op = "SUM" -> a + b [] op = "MIN" -> Least(a, b)
                    [] op = "MAX" -> Most(a, b) [] op = "AVG" -> (a + b) \div 2
One(op, a) == IF op = "AVG" THEN a \div 2 ELSE a
At(B, c) == {e[3] : e \in {e \in Entries(B) : <<e[1], e[2]>> = c}}
SymmetricIn(op, B, c) ==
  LET t == <<c[2], c[1]>>
      here == Count(m.rows, c)
      there == Count(m.rows, t)
  IN /\ Count(B, c) = IF op = "MIN" THEN Least(here, there) ELSE Most(here, there)
     /\ (NULL \notin At(m.rows, c) \cup At(m.rows, t) /\ here <= 1 /\ there <= 1) =>
          At(B, c) = {Both(op, a, b) : a \in At(m.rows, c), b \in At(m.rows, t)}
                     \cup IF here + there = 1 /\ op # "MIN"
                          THEN {One(op, a) : a \in At(m.rows, c) \cup At(m.rows, t)} ELSE {}

-----------------------------------------------------------------------------
(* When the arguments c[2], c[3], ... of a call are refused.               *)
Refused(c) ==
  LET norows == m.rows = NULL
      window == c[2] < 0 \/ c[3] < 0 \/ c[2] + c[3] > m.nrows
      square == m.nrows = m.ncols
      inverse == /\ c[2] # NULL \/ c[3] # NULL
                 /\ c[2] # NULL => Permutes(c[2], m.nrows)
                 /\ c[3] # NULL => Permutes(c[3], m.nrows)
                 /\ (c[2] # NULL /\ c[3] # NULL) => \A i \in First(m.nrows) : c[2][c[3][i]] = i
      mirrored == /\ \A e \in Entries(m.rows) : e[1] # e[2]
                  /\ \A x \in Cells(m.nrows, m.ncols) : Count(m.rows, x) = Count(m.rows, <<x[2], x[1]>>)
                  /\ m.kind = "graph" => m.rows = Flip(m.rows, m.nrows, m.ncols)
      unvalued == \E e \in Entries(m.rows) : e[3] = NULL
      unwritable == IF m.kind = "graph" THEN \E e \in Entries(m.rows) : e[3] # NULL /\ e[3] <= 0
                                        ELSE c[2] /\ unvalued
  IN CASE c[1] \in {"ExtractSubmatrix", "ExtractSubgraph"} -> norows \/ window
       [] c[1] = "ExtractRows" -> norows \/ \E i \in DOMAIN c[2] : c[2][i] \notin First(m.nrows)
       [] c[1] = "Split" -> norows \/ \E p \in DOMAIN c[2] : c[2][p] < 0
       [] c[1] \in {"Transpose", "ExtractPartition"} -> norows
       [] c[1] \in {"ReorderSymmetric", "Reorder"} -> ~square \/ norows \/ ~inverse
       [] c[1] = "Shuffle" -> c[2] = "other" \/ (c[2] = "ROWCOL" /\ c[3] /\ ~square)
       [] c[1] = "MakeSymmetric" -> ~square \/ norows \/ c[2] = "other"
       [] c[1] = "WriteMetis" -> norows \/ ~square \/ ~mirrored \/ unwritable
       [] c[1] \in {"Prune", "CreateIndex"} -> c[2] = "other"
       [] c[1] \in {"LowFilter", "TopKPlusFilter", "SortIndices"} ->
            c[2] = "other" \/ (c[2] = "COL" /\ m.cols = NULL) \/ (c[2] = "ROW" /\ norows)
       [] c[1] = "ZScoreFilter" -> c[2] # "ROW"
       [] OTHER -> FALSE

(* What a call that makes matrices returns.                                *)
Promised(c, a) ==
  CASE c[1] = "Dup" -> a = m
    [] c[1] = "Transpose" ->
         /\ Rectangular(a, m.ncols, m.nrows, Flip(m.rows, m.nrows, m.ncols))
         /\ IF m.kind = "graph" THEN a.rlab = m.rlab ELSE Unlabelled(a)
    [] c[1] = "ExtractSubmatrix" ->
         Chosen(a, Sub(c[2], c[3])) /\ LabelledBy(m.rlab, a.rlab, Sub(c[2], c[3])) /\ a.clab = NULL
    [] c[1] = "ExtractSubgraph" ->
         LET cells == Cells(c[3], c[3])
         IN /\ Rectangular(a, c[3], c[3], Pulled(m.rows, cells, [x \in cells |-> <<x[1] + c[2], x[2] + c[2]>>]))
            /\ LabelledBy(m.rlab, a.rlab, Sub(c[2], c[3]))
    [] c[1] = "ExtractRows" -> Chosen(a, [i \in First(Len(c[2])) |-> c[2][i + 1]]) /\ Unlabelled(a)
    [] c[1] = "ExtractPartition" -> Chosen(a, Sorted(Part(c))) /\ Unlabelled(a)
    [] c[1] \in {"ReorderSymmetric", "Reorder"} ->
         LET order == IF c[3] # NULL THEN c[3] ELSE CHOOSE f \in [First(m.nrows) -> First(m.nrows)] : \A i \in First(m.nrows) : c[2][f[i]] = i
         IN Permuted(a, order, order) /\ LabelledBy(m.rlab, a.rlab, order) /\ LabelledBy(m.clab, a.clab, order)
    [] c[1] = "Shuffle" ->
         \E ro \in [First(m.nrows) -> First(m.nrows)], co \in [First(m.ncols) -> First(m.ncols)] :
           /\ Permutes(ro, m.nrows) /\ Permutes(co, m.ncols)
           /\ c[2] = "COL" => \A i \in First(m.nrows) : ro[i] = i
           /\ c[2] = "ROW" => \A j \in First(m.ncols) : co[j] = j
           /\ (c[2] = "ROWCOL" /\ c[3]) => ro = co
           /\ Permuted(a, ro, co) /\ Unlabelled(a)
    [] c[1] = "Prune" ->
         LET in(n) == c[3] <= n /\ n <= c[4]
         IN /\ Rectangular(a, m.nrows, m.ncols, Only({x \in Cells(m.nrows, m.ncols) :
                 in(BagCardinality(IF c[2] = "ROW" THEN Row(m.rows, x[1]) ELSE Column(m.rows, x[2])))}))
            /\ Unlabelled(a)
    [] c[1] \in {"LowFilter", "TopKPlusFilter"} ->
         /\ Rectangular(a, m.nrows, m.ncols, a.rows) /\ Unlabelled(a) /\ a.rows \sqsubseteq m.rows
         /\ \A i \in Lines(c[2]) :
              LET B == LineIn(c[2], m.rows, i)
                  K == LineIn(c[2], a.rows, i)
              IN Heaviest(B, K) /\ IF c[1] = "LowFilter" THEN LowLine(B, K, c[3], c[4]) ELSE TopLine(B, K, c[3], c[4])
    [] c[1] = "ZScoreFilter" ->
         /\ Rectangular(a, m.nrows, m.ncols, [e \in {e \in Entries(m.rows) :
                e[3] * BagCardinality(Row(m.rows, e[1])) > c[3]} |-> m.rows[e]])
         /\ Unlabelled(a)
    [] c[1] = "MakeSymmetric" ->
         /\ Rectangular(a, m.nrows, m.ncols, a.rows) /\ Unlabelled(a)
         /\ \A x \in Cells(m.nrows, m.ncols) : SymmetricIn(c[2], a.rows, x)
    [] OTHER -> FALSE

SplitPromised(c) ==
  /\ LET sum[k \in 0 .. Len(r')] == IF k = 0 THEN EmptyBag ELSE sum[k - 1] (+) r'[k].rows
     IN sum[Len(r')] = m.rows
  /\ Len(r') >= 1 /\ \A p \in DOMAIN c[2] : c[2][p] < Len(r')
  /\ Len(r') > 1 => \E p \in DOMAIN c[2] : c[2][p] = Len(r') - 1
  /\ \A k \in DOMAIN r' :
       /\ Rectangular(r'[k], m.nrows, m.ncols, r'[k].rows) /\ Unlabelled(r'[k])
       /\ BagCardinality(r'[k].rows) = Cardinality({p \in DOMAIN c[2] : c[2][p] = k - 1})

-----------------------------------------------------------------------------
Makes ==
  /\ m' = m
  /\ \/ call'[1] = "WriteMetis" /\ r' = <<>>
     \/ call'[1] = "Split" /\ SplitPromised(call')
     \/ call'[1] \notin {"WriteMetis", "Split"} /\ Len(r') = 1 /\ Promised(call', r'[1])

(* The calls that change the matrix itself.                                *)
Indexed == IF call'[2] = "ROW" THEN [m EXCEPT !.rows = Flip(m.cols, m.ncols, m.nrows)]
                               ELSE [m EXCEPT !.cols = Flip(m.rows, m.nrows, m.ncols)]
Compacted ==
  LET full == {j \in First(m.ncols) : Entries(Column(m.rows, j)) # {}}
      n == Cardinality(full)
      cells == Cells(m.nrows, n)
  IN /\ \E from \in [First(n) -> full] :
          /\ {from[j] : j \in First(n)} = full
          /\ \A j, k \in First(n) : j < k =>
               BagCardinality(Column(m.rows, from[j])) >= BagCardinality(Column(m.rows, from[k]))
          /\ m'.rows = Pulled(m.rows, cells, [c \in cells |-> <<c[1], from[c[2]]>>])
     /\ m'.cols = IF m.cols = NULL THEN NULL
                  ELSE LET left == Cells(n, m.nrows) IN Pulled(m.cols, left, [c \in left |-> c])
     /\ m'.kind = m.kind /\ m'.ncols = n /\ m'.nrows = m.nrows /\ m'.rlab = m.rlab /\ LabelledBy(m.clab, m'.clab, Sub(0, n))
Changes ==
  /\ r' = <<>>
  /\ \/ call'[1] = "CreateIndex" /\ m' = Indexed
     \/ call'[1] \in {"SortIndices", "SortAdjacencies"} /\ m' = m
     \/ call'[1] = "FreeContents" /\ m' = [m EXCEPT !.rows = NULL, !.cols = NULL, !.rlab = NULL, !.clab = NULL]
     \/ call'[1] = "CompactColumns" /\ Compacted

(* Without memory nothing is returned and the matrix is what it was, but   *)
(* for an index that was being rebuilt: it is gone, or empty.              *)
OutOfMemory ==
  /\ raised' = "SIGMEM" /\ r' = <<>>
  /\ \/ m' = m
     \/ call' = <<"CreateIndex", "ROW">> /\ \E left \in {NULL, EmptyBag} : m' = [m EXCEPT !.rows = left]
     \/ call' = <<"CreateIndex", "COL">> /\ \E left \in {NULL, EmptyBag} : m' = [m EXCEPT !.cols = left]

Call ==
  /\ call = <<>> /\ call' # <<>>
  /\ \/ raised' = "none" /\ ~Refused(call') /\ (Makes \/ Changes)
     \/ raised' = "SIGERR" /\ Refused(call') /\ r' = <<>> /\ m' = m
     \/ OutOfMemory
GoOn ==
  /\ call # <<>> /\ call' = <<>> /\ r' = <<>> /\ raised' = "none"
  /\ m' = m \/ \E k \in DOMAIN r : m' = r[k]

MatrixInit == r = <<>> /\ call = <<>> /\ raised = "none"
MatrixSpec == MatrixInit /\ [][Call \/ GoOn]_<<m, r, call, raised>>
=============================================================================
