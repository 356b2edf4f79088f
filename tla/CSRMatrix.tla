------------------------------ MODULE CSRMatrix -----------------------------
(***************************************************************************)
(* A program with one sparse matrix (gk_csr_t) or graph (gk_graph_t) that  *)
(* calls the functions of src/src/csr.c and src/src/graph.c on it, and the *)
(* form these calls have in common: the arguments are checked, everything  *)
(* the result needs is allocated, then it is filled; on an error what was  *)
(* made is freed again and a signal is raised. The program drops the       *)
(* result, or drops the old matrix and goes on with the result.            *)
(***************************************************************************)
EXTENDS SparseView

CONSTANTS
  Matrices,     \* what the program may start from
  MaxEntries,   \* bound: it goes on only with matrices of n rows with at most MaxEntries[n] entries
  Values        \* and with values of the set of their kind

VARIABLES
  mat,      \* the matrix
  ret,      \* what the last call returned: <<>> is NULL
  call,     \* that call and its arguments: <<>> when its result is dealt with
  raised,   \* "none", or the signal it raised: SIGERR, or SIGMEM without memory
  apart     \* (history) the program knows that the two views of mat differ

vars == <<mat, ret, call, raised, apart>>

(* The row and the column view, and one vector of each side to stand for   *)
(* all: ids, labels, maps, norms, sums, sizes, volumes and weights go the  *)
(* same way. A graph has no columns and its rows are adjacency lists.      *)
Matrix(kind, nrows, ncols, row, col, rlab, clab) ==
  [kind |-> kind, nrows |-> nrows, ncols |-> ncols, row |-> row, col |-> col, rlab |-> rlab, clab |-> clab]

ValidateStructure(m) ==
  /\ m.row # NULL => ValidateSparseView(m.nrows, m.ncols, m.row)
  /\ m.col # NULL => ValidateSparseView(m.ncols, m.nrows, m.col)

Init ==
  /\ mat \in Matrices
  /\ ret = <<>> /\ call = <<>> /\ raised = "none" /\ apart = FALSE

Idle(kind) == call = <<>> /\ mat.kind = kind
Returns(c, result) ==
  /\ call' = c /\ ret' = result /\ raised' = "none"
  /\ UNCHANGED <<mat, apart>>
Fails(c, signal) ==
  /\ call' = c /\ ret' = <<>> /\ raised' = signal
  /\ UNCHANGED <<mat, apart>>

(* The whole of a call that makes new matrices and leaves mat as it is.    *)
Transform(c, legal, result) ==
  \/ ~legal /\ Fails(c, "SIGERR")
  \/ legal /\ Fails(c, "SIGMEM")
  \/ legal /\ Returns(c, result)

(* Where some of the arguments are looked at after memory was allocated.   *)
TransformLate(c, checked, legal, result) ==
  \/ ~(checked /\ legal) /\ Fails(c, "SIGERR")
  \/ checked /\ Fails(c, "SIGMEM")
  \/ checked /\ legal /\ Returns(c, result)

(* A call that changes mat itself.                                         *)
Becomes(c, m) ==
  /\ mat' = m /\ call' = c /\ ret' = <<>> /\ raised' = "none"

Manageable(m) ==
  /\ m.row # NULL => /\ m.row.ptr[m.nrows] <= MaxEntries[m.nrows]
                     /\ m.row.val # NULL => \A p \in Places(m.row, m.nrows) : m.row.val[p] \in Values[m.kind]
Drop ==
  /\ call # <<>>
  /\ call' = <<>> /\ ret' = <<>> /\ raised' = "none"
  /\ UNCHANGED <<mat, apart>>
Adopt ==
  /\ \E k \in DOMAIN ret : Manageable(ret[k]) /\ mat' = ret[k]
  /\ apart' = (apart /\ call[1] = "Dup")
  /\ call' = <<>> /\ ret' = <<>> /\ raised' = "none"

-----------------------------------------------------------------------------
(* The functions of src/src/csr.c that copy, extract and split a sparse    *)
(* matrix, one action each.                                                *)

CONSTANTS
  TopColor,     \* INT_MAX, as a colour
  Colors        \* what Split is given as colours

Idx == -1 .. 2                      \* row numbers, counts and starts a caller gives

RowMatrix(nrows, ncols, row) == Matrix("csr", nrows, ncols, row, NULL, NULL, NULL)
RowPlaces(i) == Ascending(Span(mat.row, i))

(* All of a matrix, array by array.                                        *)
gk_csr_Dup ==
  /\ Idle("csr")
  /\ Transform(<<"Dup">>, ValidateStructure(mat),
       <<[mat EXCEPT !.row = Slice(@, 0, mat.nrows), !.col = Slice(@, 0, mat.ncols),
                     !.rlab = Labels(@, 0, mat.nrows), !.clab = Labels(@, 0, mat.ncols)]>>)

(* nrows rows from rstart on, with what belongs to the rows.               *)
gk_csr_ExtractSubmatrix ==
  /\ Idle("csr")
  /\ \E rstart, nrows \in Idx :
       Transform(<<"ExtractSubmatrix", rstart, nrows>>,
         /\ ValidateStructure(mat) /\ mat.row # NULL
         /\ rstart >= 0 /\ nrows >= 0 /\ rstart <= mat.nrows /\ nrows <= mat.nrows - rstart,
         <<[RowMatrix(nrows, mat.ncols, Slice(mat.row, rstart, nrows))
              EXCEPT !.rlab = Labels(mat.rlab, rstart, nrows)]>>)

(* The rows rind[0], rind[1], ..., with repetitions.                       *)
RowsTaken(n, rind) ==
  RowMatrix(n, mat.ncols, Gathered(mat.row, n, [i \in First(n) |-> RowPlaces(rind[i + 1])], Same(mat.ncols)))
gk_csr_ExtractRows ==
  /\ Idle("csr")
  /\ \E nrows \in 0 .. 2 : \E rind \in [1 .. nrows -> Idx] :
       Transform(<<"ExtractRows", rind>>,
         /\ ValidateStructure(mat) /\ mat.row # NULL
         /\ \A i \in 1 .. nrows : rind[i] \in First(mat.nrows),
         <<RowsTaken(nrows, rind)>>)

(* The rows whose part is pid.                                             *)
gk_csr_ExtractPartition ==
  /\ Idle("csr")
  /\ \E part \in [First(mat.nrows) -> {0, 1}], pid \in {1} :
       LET rows == Ascending({i \in First(mat.nrows) : part[i] = pid})
       IN Transform(<<"ExtractPartition", part, pid>>,
            ValidateStructure(mat) /\ mat.row # NULL, <<RowsTaken(Len(rows), rows)>>)

(* Each entry goes to the matrix of its colour, the rows are those of mat. *)
Colored(color, c) ==
  LET all == Regroup(mat.nrows, {p \in DOMAIN color : color[p] = c},
                     Lines(mat.row, mat.nrows), mat.row.ind, mat.row.val)
  IN RowMatrix(mat.nrows, mat.ncols, [all EXCEPT !.ind = IF mat.row.ind = NULL THEN NULL ELSE @])
NColors(color) == CHOOSE n \in 1 .. TopColor :
  /\ \A p \in DOMAIN color : color[p] < n
  /\ n = 1 \/ \E p \in DOMAIN color : color[p] = n - 1
gk_csr_Split ==
  /\ Idle("csr")
  /\ \E color \in [IF mat.row = NULL THEN {} ELSE Places(mat.row, mat.nrows) -> Colors] :
       LET bad == {p \in DOMAIN color : color[p] < 0 \/ color[p] = TopColor}
           negative == bad # {} /\ color[Ascending(bad)[1]] < 0
           huge == bad # {} /\ ~negative
       IN \/ huge /\ Fails(<<"Split", color>>, "SIGMEM")
          \/ ~huge /\ Transform(<<"Split", color>>, ValidateStructure(mat) /\ mat.row # NULL /\ ~negative,
                                [k \in 1 .. NColors(color) |-> Colored(color, k - 1)])

CopyNext ==
  \/ gk_csr_Dup \/ gk_csr_ExtractSubmatrix \/ gk_csr_ExtractRows
  \/ gk_csr_ExtractPartition \/ gk_csr_Split

-----------------------------------------------------------------------------
(* The functions of src/src/csr.c that rebuild, sort, renumber and permute *)
(* the views of a sparse matrix, one action each.                          *)

CONSTANT SparseLimit    \* entries per line above which an index is filled in two passes (6)

Kinds == {"ROW", "COL", "other"}    \* what: GK_CSR_ROW, GK_CSR_COL, anything else

gk_csr_FreeContents ==
  /\ Idle("csr")
  /\ Becomes(<<"FreeContents">>, [mat EXCEPT !.row = NULL, !.col = NULL, !.rlab = NULL, !.clab = NULL])
  /\ apart' = FALSE

gk_csr_Transpose ==
  /\ Idle("csr")
  /\ Transform(<<"Transpose">>, ValidateStructure(mat) /\ mat.row # NULL,
       <<RowMatrix(mat.ncols, mat.nrows, Crossed(mat.row, mat.nrows, mat.ncols))>>)

(* An index is filled with the cursors of its lines, the indices first and *)
(* the values in a second pass where lines are long.                       *)
TwoPasses(n, from, key, id, val) ==
  LET indices == Regroup(n, from, key, id, NULL)
      values  == Filled(indices.ptr, from, key, val, NULL)
  IN IF val = NULL THEN indices ELSE [ptr |-> SHIFTCSR(n, values.ptr), ind |-> indices.ind, val |-> values.ind]
Index(view, m, n) ==
  IF view.ptr[m] > SparseLimit * n
  THEN TwoPasses(n, Places(view, m), [p \in Places(view, m) |-> view.ind[p]], Lines(view, m), view.val)
  ELSE Crossed(view, m, n)

(* The column view from the row view or the other way round; the old one is*)
(* freed first. When an allocation after the first fails the new view has  *)
(* its ptr, all 0, and looks like that of an empty matrix.                 *)
Leftovers(n, source) ==
  LET ptr == [i \in 0 .. n |-> 0]
  IN {NULL, [ptr |-> ptr, ind |-> NULL, val |-> NULL]}
     \cup IF source.val = NULL THEN {} ELSE {[ptr |-> ptr, ind |-> Fresh(0), val |-> NULL]}
WithView(what, view) == IF what = "ROW" THEN [mat EXCEPT !.row = view] ELSE [mat EXCEPT !.col = view]
gk_csr_CreateIndex ==
  /\ Idle("csr")
  /\ \/ Fails(<<"CreateIndex", "other">>, "SIGERR")
     \/ \E what \in {"ROW", "COL"} :
          LET byrow  == what = "ROW"
              source == IF byrow THEN mat.col ELSE mat.row
              nf == IF byrow THEN mat.ncols ELSE mat.nrows
              nr == IF byrow THEN mat.nrows ELSE mat.ncols
          IN /\ source # NULL
             /\ \/ /\ Becomes(<<"CreateIndex", what>>, WithView(what, Index(source, nf, nr)))
                   /\ apart' = FALSE
                \/ \E view \in Leftovers(nr, source) :
                     /\ mat' = WithView(what, view) /\ apart' = (view # NULL)
                     /\ call' = <<"CreateIndex", what>> /\ ret' = <<>> /\ raised' = "SIGMEM"

(* Every line of a view by increasing index. A line without inversion is   *)
(* left alone; the values are read whether there are any or not.           *)
BugSortedViewIndicesOnly(view, n, tie) ==
  LET lines == Gathered(view, n, [i \in First(n) |-> Arranged(Span(view, i), view.ind, tie)], [j \in Nat |-> j])
  IN [view EXCEPT !.ind = lines.ind]
SortedView(view, n, tie) ==
  LET inversion(i) == \E p \in Span(view, i) : p - 1 \in Span(view, i) /\ view.ind[p] < view.ind[p - 1]
      order(i) == IF inversion(i) THEN Arranged(Span(view, i), view.ind, tie) ELSE Ascending(Span(view, i))
      lines == Gathered(view, n, [i \in First(n) |-> order(i)], [j \in Nat |-> j])
  IN [view EXCEPT !.ind = lines.ind, !.val = lines.val]
gk_csr_SortIndices ==
  /\ Idle("csr")
  /\ \E what \in Kinds :
       LET view == IF what = "ROW" THEN mat.row ELSE mat.col
           n    == IF what = "ROW" THEN mat.nrows ELSE mat.ncols
       IN \/ what = "other" /\ Fails(<<"SortIndices", what>>, "SIGERR")
          \/ what # "other" /\ view = NULL /\ Fails(<<"SortIndices", what>>, "SIGERR")
          \/ /\ what # "other" /\ view # NULL /\ view.val # NULL
             /\ \/ Fails(<<"SortIndices", what>>, "SIGMEM")
                \/ \E tie \in Ties(view.ptr[n]) :
                     /\ Becomes(<<"SortIndices", what>>, WithView(what, SortedView(view, n, tie)))
                     /\ UNCHANGED apart

(* The columns that have entries come first, the fullest before the others,*)
(* and ncols becomes their number. Only the row view follows.              *)
gk_csr_CompactColumns ==
  /\ Idle("csr") /\ mat.row # NULL
  /\ \/ Fails(<<"CompactColumns">>, "SIGMEM")
     \/ \E tie \in Ties(mat.ncols) :
          LET clens  == Counted(mat.ncols, Places(mat.row, mat.nrows), [p \in Places(mat.row, mat.nrows) |-> mat.row.ind[p]])
              order  == Arranged(First(mat.ncols), Negative(clens), tie)
              filled == {k \in DOMAIN order : clens[order[k]] > 0}
              colmap == [j \in {order[k] : k \in filled} |-> (CHOOSE k \in filled : order[k] = j) - 1]
              row == [mat.row EXCEPT !.ind = IF @ = NULL THEN NULL ELSE [p \in DOMAIN @ |-> colmap[@[p]]]]
          IN /\ Becomes(<<"CompactColumns">>, [mat EXCEPT !.row = row, !.ncols = Cardinality(filled)])
             /\ apart' = (mat.col # NULL)

-----------------------------------------------------------------------------
(* The functions of src/src/csr.c that permute a sparse matrix or make it  *)
(* symmetric, one action each, and the check its METIS output starts with. *)

Renamed(order, name) ==
  Gathered(mat.row, mat.nrows, [i \in First(mat.nrows) |-> RowPlaces(order[i])], name)
BugInverseOf(f, n) == f
InverseOf(f, n) == [i \in First(n) |-> CHOOSE j \in First(n) : f[j] = i]

(* What a caller gives as permutation of n lines: any, NULL, or an array   *)
(* that is none.                                                           *)
Orders(n) == Ties(n) \cup {NULL} \cup {[i \in First(n) |-> 0], [i \in First(n) |-> n]}
PermutationsOK(perm, iperm, n) ==
  /\ perm # NULL => ValidatePermutation(perm, n)
  /\ iperm # NULL => ValidatePermutation(iperm, n)
  /\ (perm # NULL /\ iperm # NULL) => \A i \in First(n) : perm[iperm[i]] = i

(* Row and column u become perm[u], with what belongs to them.             *)
Reordered(lab, order) == IF lab = NULL THEN NULL ELSE [v \in DOMAIN order |-> lab[order[v]]]
gk_csr_ReorderSymmetric ==
  /\ Idle("csr")
  /\ \E perm, iperm \in Orders(mat.nrows) :
       LET order == IF iperm = NULL THEN InverseOf(perm, mat.nrows) ELSE iperm
           name  == IF perm = NULL THEN InverseOf(iperm, mat.nrows) ELSE perm
       IN TransformLate(<<"ReorderSymmetric", perm, iperm>>,
            /\ perm # NULL \/ iperm # NULL
            /\ ValidateStructure(mat) /\ mat.nrows = mat.ncols /\ mat.row # NULL,
            PermutationsOK(perm, iperm, mat.nrows),
            <<[RowMatrix(mat.nrows, mat.nrows, Renamed(order, name))
                 EXCEPT !.rlab = Reordered(mat.rlab, order), !.clab = Reordered(mat.clab, order)]>>)

(* Row i becomes rperm[i] and column j cperm[j], random permutations or the*)
(* identity; a row keeps the order of its entries.                         *)
Shuffled(rperm, cperm) ==
  LET all == Places(mat.row, mat.nrows)
      row == Lines(mat.row, mat.nrows)
  IN RowMatrix(mat.nrows, mat.ncols,
       Regroup(mat.nrows, all, [p \in all |-> rperm[row[p]]], [p \in all |-> cperm[mat.row.ind[p]]], mat.row.val))
gk_csr_Shuffle ==
  /\ Idle("csr") /\ mat.row # NULL
  /\ \E what \in Kinds \cup {"ROWCOL"}, symmetric \in BOOLEAN :
       \E rperm \in IF what = "COL" THEN {Same(mat.nrows)} ELSE Ties(mat.nrows) :
       \E cperm \in IF what = "ROW" THEN {Same(mat.ncols)}
                    ELSE IF what = "ROWCOL" /\ symmetric THEN {rperm} ELSE Ties(mat.ncols) :
         TransformLate(<<"Shuffle", what, symmetric>>,
           (what = "ROWCOL" /\ symmetric) => mat.nrows = mat.ncols, what # "other",
           <<Shuffled(rperm, cperm)>>)

gk_csr_MakeSymmetric ==
  /\ Idle("csr")
  /\ \E op \in SymOps \cup {"other"} :
       LET legal == mat.nrows = mat.ncols /\ mat.row # NULL /\ op # "other"
           sym   == MakeSymmetric(mat.row, mat.nrows, op)
       IN \/ legal /\ sym.overflow /\ Fails(<<"MakeSymmetric", op>>, "SIGMEM")
          \/ (legal => ~sym.overflow) /\ Transform(<<"MakeSymmetric", op>>, legal,
                                           <<RowMatrix(mat.nrows, mat.ncols, sym.view)>>)

(* METIS output is for symmetric matrices.                                 *)
gk_csr_WriteMetis ==
  /\ Idle("csr")
  /\ \E writevals \in BOOLEAN :
       TransformLate(<<"WriteMetis", writevals>>,
         /\ mat.row # NULL /\ mat.nrows = mat.ncols /\ mat.row.ptr[mat.nrows] % 2 = 0
         /\ (writevals /\ Places(mat.row, mat.nrows) # {}) => mat.row.val # NULL,
         ValidateSymmetry(mat.row, mat.nrows, FALSE), <<>>)

ViewsNext ==
  \/ gk_csr_FreeContents \/ gk_csr_Transpose \/ gk_csr_CreateIndex \/ gk_csr_SortIndices
  \/ gk_csr_CompactColumns \/ gk_csr_ReorderSymmetric \/ gk_csr_Shuffle
  \/ gk_csr_MakeSymmetric \/ gk_csr_WriteMetis

-----------------------------------------------------------------------------
(***************************************************************************)
(* The functions of src/src/csr.c that make a matrix with some entries of  *)
(* mat. They read the values whether there are any or not, so callers have *)
(* some; the filters of columns take the room each row needs from the row  *)
(* view and the entries from the column view, and their callers have two   *)
(* views of the same entries. Float arithmetic is on whole numbers here.   *)
(***************************************************************************)

CONSTANTS
  Fractions,    \* <<a, b>> is the fraction a/b of LowFilter
  Keepvals,     \* the weight from which TopKPlusFilter keeps more than K
  Zscores

Valued(view) == view # NULL /\ view.val # NULL
FromRows(lines) ==
  RowMatrix(mat.nrows, mat.ncols, Gathered(mat.row, mat.nrows, lines, Same(mat.ncols)))

(* Without the rows (columns) that have less than minf or more than maxf   *)
(* entries; what they had is dropped, the numbering stays.                 *)
Within(minf, maxf, S) == Cardinality(S) >= minf /\ Cardinality(S) <= maxf
gk_csr_Prune ==
  /\ Idle("csr") /\ Valued(mat.row)
  /\ \E what \in Kinds, minf \in 0 .. 2, maxf \in 1 .. 2 :
       LET collen(j) == {p \in Places(mat.row, mat.nrows) : mat.row.ind[p] = j}
           keep(i, p) == IF what = "COL" THEN Within(minf, maxf, collen(mat.row.ind[p]))
                                         ELSE Within(minf, maxf, Span(mat.row, i))
       IN TransformLate(<<"Prune", what, minf, maxf>>, TRUE, what # "other",
            <<FromRows([i \in First(mat.nrows) |-> Ascending({p \in Span(mat.row, i) : keep(i, p)})])>>)

(* The candidates of line i, heaviest first, and how many of them stay:    *)
(* while the sum of those before is at most a fraction of the whole sum    *)
(* (LowFilter), or the first topk and then all of at least keepval. (Its   *)
(* header, csr.c:2525 and 2532, says greater than and above; the code stops*)
(* at the first candidate that is less, csr.c:2587 and 2629.)              *)
Candidates(view, i, tie) == Arranged(Span(view, i), Negative(view.val), tie)
Power(norm, w) == IF norm = 1 THEN w ELSE w * w
LowKept(view, norm, fraction, cand) ==
  LET sum[j \in 0 .. Len(cand)] == IF j = 0 THEN 0 ELSE sum[j - 1] + Power(norm, view.val[cand[j]])
  IN {j \in DOMAIN cand : fraction[2] * sum[j - 1] <= fraction[1] * sum[Len(cand)]}
TopKept(view, topk, keepval, cand) ==
  {j \in DOMAIN cand : j <= topk \/ view.val[cand[j]] >= keepval}

(* Contract of TopKPlusFilter: its array of candidates has one place per   *)
(* row for a column and one per column for a row (LowFilter measures the   *)
(* longest line), so no line may have more entries, as duplicates can make *)
(* it. Such matrices are not given to it.                                  *)
CandidatesFit(what) ==
  LET shorter(view, n, m) == view # NULL => \A i \in First(n) : Cardinality(Span(view, i)) <= m
  IN /\ what = "ROW" => shorter(mat.row, mat.nrows, mat.ncols)
     /\ what = "COL" => shorter(mat.col, mat.ncols, mat.nrows)

Kept(c, view, cand) ==
  SubSeq(cand, 1, Cardinality(IF c[1] = "LowFilter" THEN LowKept(view, c[3], c[4], cand)
                                                    ELSE TopKept(view, c[3], c[4], cand)))

(* The kept entries of the columns, one column after the other, each to the*)
(* next place of its row.                                                  *)
FromColumns(kept) ==
  LET upto[j \in 0 .. mat.ncols] ==
        IF j = 0 THEN <<>> ELSE upto[j - 1] \o [k \in DOMAIN kept[j - 1] |-> <<j - 1, kept[j - 1][k]>>]
      all  == upto[mat.ncols]
      from == First(Len(all))
  IN RowMatrix(mat.nrows, mat.ncols,
       Regroup(mat.nrows, from, [q \in from |-> mat.col.ind[all[q + 1][2]]],
               [q \in from |-> all[q + 1][1]], [q \in from |-> mat.col.val[all[q + 1][2]]]))

Filter(c) ==
  LET what == c[2]
      view == IF what = "ROW" THEN mat.row ELSE mat.col
      n    == IF what = "ROW" THEN mat.nrows ELSE mat.ncols
  IN \/ (what = "other" \/ view = NULL) /\ Fails(c, "SIGERR")
     \/ Fails(c, "SIGMEM")
     \/ /\ what # "other" /\ Valued(view) /\ (what = "COL" => ~apart)
        /\ \E tie \in Ties(view.ptr[n]) :
             LET lines == [i \in First(n) |-> Kept(c, view, Candidates(view, i, tie))]
             IN Returns(c, <<IF what = "ROW" THEN FromRows(lines) ELSE FromColumns(lines)>>)

gk_csr_LowFilter ==
  /\ Idle("csr") /\ Valued(mat.row)
  /\ \E what \in Kinds, norm \in {1, 2}, fraction \in Fractions : Filter(<<"LowFilter", what, norm, fraction>>)
gk_csr_TopKPlusFilter ==
  /\ Idle("csr") /\ Valued(mat.row)
  /\ \E what \in Kinds, keepval \in Keepvals :
       CandidatesFit(what) /\ Filter(<<"TopKPlusFilter", what, 1, keepval>>)

(* The entries above zscore over the number of entries of their row.       *)
gk_csr_ZScoreFilter ==
  /\ Idle("csr") /\ Valued(mat.row)
  /\ \E what \in Kinds, zscore \in Zscores :
       LET keep(i, p) == mat.row.val[p] * Cardinality(Span(mat.row, i)) > zscore
       IN TransformLate(<<"ZScoreFilter", what, zscore>>, TRUE, what = "ROW",
            <<FromRows([i \in First(mat.nrows) |-> Ascending({p \in Span(mat.row, i) : keep(i, p)})])>>)

FilterNext == gk_csr_Prune \/ gk_csr_LowFilter \/ gk_csr_TopKPlusFilter \/ gk_csr_ZScoreFilter
=============================================================================
