------------------------------ MODULE Matrices ------------------------------
(***************************************************************************)
(* The functions of src/src/graph.c that make graphs from graphs, one      *)
(* action each. A graph is a square matrix by its adjacency lists: nrows   *)
(* and ncols are nvtxs, row is xadj, adjncy and iadjwgt (or fadjwgt), rlab *)
(* stands for the labels, weights and sizes of the vertices.               *)
(***************************************************************************)
EXTENDS CSRMatrix, Bags

nvtxs == mat.nrows
GraphOf(n, row, vlabels) == Matrix("graph", n, n, row, NULL, vlabels, NULL)
GraphStructureOK == mat.row # NULL /\ ValidateSparseView(nvtxs, nvtxs, mat.row)

gk_graph_Dup ==
  /\ Idle("graph")
  /\ Transform(<<"Dup">>, GraphStructureOK,
       <<GraphOf(nvtxs, Slice(mat.row, 0, nvtxs), Labels(mat.rlab, 0, nvtxs))>>)

(* The edges turn round, the vertices stay what they are.                  *)
gk_graph_Transpose ==
  /\ Idle("graph")
  /\ Transform(<<"Transpose">>, GraphStructureOK,
       <<GraphOf(nvtxs, Crossed(mat.row, nvtxs, nvtxs), Labels(mat.rlab, 0, nvtxs))>>)

(* The vertices vstart .. vstart+n-1 and the edges between them.           *)
gk_graph_ExtractSubgraph ==
  /\ Idle("graph")
  /\ \E vstart, n \in Idx :
       LET inside == {p \in Places(mat.row, nvtxs) : mat.row.ind[p] \in vstart .. vstart + n - 1}
           lines  == [i \in First(n) |-> Ascending(Span(mat.row, vstart + i) \cap inside)]
       IN Transform(<<"ExtractSubgraph", vstart, n>>,
            GraphStructureOK /\ vstart >= 0 /\ n >= 0 /\ vstart <= nvtxs /\ n <= nvtxs - vstart,
            <<GraphOf(n, Gathered(mat.row, n, lines, [u \in Nat |-> u - vstart]), Labels(mat.rlab, vstart, n))>>)

(* A permutation, or an inverse given with it, that gk_graph_Reorder takes.*)
GraphOrdersOK(perm, iperm) == PermutationsOK(perm, iperm, nvtxs)

gk_graph_Reorder ==
  /\ Idle("graph")
  /\ \E perm, iperm \in Orders(nvtxs) :
       LET order == IF iperm = NULL THEN InverseOf(perm, nvtxs) ELSE iperm
           name  == IF perm = NULL THEN InverseOf(iperm, nvtxs) ELSE perm
       IN TransformLate(<<"Reorder", perm, iperm>>,
            (perm # NULL \/ iperm # NULL) /\ GraphStructureOK, GraphOrdersOK(perm, iperm),
            <<GraphOf(nvtxs, Renamed(order, name), Reordered(mat.rlab, order))>>)

(* Every list by increasing vertex.                                        *)
gk_graph_SortAdjacencies ==
  /\ Idle("graph")
  /\ \/ Fails(<<"SortAdjacencies">>, "SIGMEM")
     \/ /\ \E tie \in Ties(mat.row.ptr[nvtxs]) :
             Becomes(<<"SortAdjacencies">>, WithView("ROW", SortedView(mat.row, nvtxs, tie)))
        /\ UNCHANGED apart

(* The same lines as csr.c makes, with a loop of its own, and its failures:*)
(* a sum of two weights that does not fit, or an allocation.               *)
SymmetricGraph(op) == MakeSymmetric(mat.row, nvtxs, op)
SumFails(op) == SymmetricGraph(op).overflow /\ Fails(<<"MakeSymmetric", op>>, "SIGMEM")

(* Nothing of the vertices is kept.                                        *)
gk_graph_MakeSymmetric ==
  /\ Idle("graph")
  /\ \E op \in SymOps \cup {"other"} :
       LET legal == GraphStructureOK /\ op # "other"
       IN \/ legal /\ SumFails(op)
          \/ /\ legal => ~SymmetricGraph(op).overflow
             /\ Transform(<<"MakeSymmetric", op>>, legal, <<GraphOf(nvtxs, SymmetricGraph(op).view, NULL)>>)

(* Every edge has its reverse, as often and with the same weight.          *)
Reciprocal == ValidateSymmetry(mat.row, nvtxs, TRUE)

(* METIS output is for symmetric graphs with positive weights.             *)
gk_graph_WriteMetis ==
  /\ Idle("graph")
  /\ TransformLate(<<"WriteMetis", TRUE>>,
       /\ mat.row.ptr[nvtxs] % 2 = 0
       /\ mat.row.val # NULL => \A p \in Places(mat.row, nvtxs) : mat.row.val[p] > 0,
       Reciprocal, <<>>)

GraphNext ==
  \/ gk_graph_Dup \/ gk_graph_Transpose \/ gk_graph_ExtractSubgraph \/ gk_graph_Reorder
  \/ gk_graph_SortAdjacencies \/ gk_graph_MakeSymmetric \/ gk_graph_WriteMetis

-----------------------------------------------------------------------------
(* The functions of csr.c and graph.c on one matrix, and what they promise.*)

Next == CopyNext \/ ViewsNext \/ FilterNext \/ GraphNext \/ Drop \/ Adopt
Spec == Init /\ [][Next]_vars

Labelled(lab, n) == lab # NULL => First(n) \subseteq DOMAIN lab
Written(view, n) == (view # NULL /\ view.val # NULL) => \A p \in Places(view, n) : view.val[p] \in Nat

MatricesValid ==
  /\ \A m \in {mat} \cup {ret[k] : k \in DOMAIN ret} :
       /\ m.kind \in {"csr", "graph"} /\ m.nrows \in Nat /\ m.ncols \in Nat
       /\ ValidateStructure(m)
       /\ Written(m.row, m.nrows) /\ Written(m.col, m.ncols)
       /\ Labelled(m.rlab, m.nrows) /\ Labelled(m.clab, m.ncols)
  /\ raised \in {"none", "SIGERR", "SIGMEM"} /\ apart \in BOOLEAN

(* The entries of a view, as a bag of <<line, crossing line, value>>.      *)
EntryOf(view, p) == <<LineOf(view, p), view.ind[p], ValueAt(view, p)>>
EntryBag(view, n) ==
  IF view = NULL THEN NULL
  ELSE [e \in {EntryOf(view, p) : p \in Places(view, n)} |->
          Cardinality({p \in Places(view, n) : EntryOf(view, p) = e})]
Turned(B) == [e \in {Reverse(x) : x \in DOMAIN B} |-> B[Reverse(e)]]

Increasing(view, n) ==
  \A i \in First(n) : \A p, q \in Span(view, i) : p < q => view.ind[p] <= view.ind[q]

(* Every matrix a function leaves or returns would be accepted by the      *)
(* validation the next one starts with, and every cell of it is written;   *)
(* and whatever was called before, the two views of a matrix have the same *)
(* entries, unless CompactColumns renumbered the rows only or the last     *)
(* rebuilding of one failed; and a view just rebuilt or sorted has its     *)
(* lines in increasing order.                                              *)
ViewsInStep ==
  /\ MatricesValid
  /\ (mat.row # NULL /\ mat.col # NULL /\ ~apart) =>
       EntryBag(mat.row, mat.nrows) = Turned(EntryBag(mat.col, mat.ncols))
  /\ (call # <<>> /\ raised = "none" /\ call[1] \in {"CreateIndex", "SortIndices", "SortAdjacencies"}) =>
       IF mat.kind = "csr" /\ call[2] = "COL" THEN Increasing(mat.col, mat.ncols) ELSE Increasing(mat.row, mat.nrows)

(* What MakeSymmetric returns is symmetric, values included, whatever the  *)
(* duplicate entries of a line; and METIS output takes it, unless an entry *)
(* is on the diagonal.                                                     *)
Symmetrized ==
  (call # <<>> /\ call[1] = "MakeSymmetric") => \A k \in DOMAIN ret :
    LET view == ret[k].row
        B == EntryBag(view, ret[k].nrows)
    IN /\ B = Turned(B)
       /\ ValidateSymmetry(view, ret[k].nrows, ret[k].kind = "graph") <=> \A e \in DOMAIN B : e[1] # e[2]

(* Every call does what its documentation says, as bags of entries: see    *)
(* SparseMatrix.                                                           *)
AbstractMatrix(m) ==
  [kind |-> m.kind, nrows |-> m.nrows, ncols |-> m.ncols, rlab |-> Labels(m.rlab, 0, m.nrows),
   clab |-> Labels(m.clab, 0, m.ncols),
   rows |-> EntryBag(m.row, m.nrows), cols |-> EntryBag(m.col, m.ncols)]
Abstract == INSTANCE SparseMatrix WITH
  m <- AbstractMatrix(mat), r <- [k \in DOMAIN ret |-> AbstractMatrix(ret[k])]
MatrixSpec == Abstract!MatrixSpec
=============================================================================
