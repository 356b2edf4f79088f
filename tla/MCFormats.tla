----------------------------- MODULE MCFormats -----------------------------
(* Small files for Formats: for every format one that is well formed, and  *)
(* all that one edit makes of it: another word for a word, a word or line  *)
(* less, a line more. And small matrices, graphs and arrays to write.      *)
EXTENDS Formats

W(ns) == Line([i \in DOMAIN ns |-> Num(ns[i])])
Odd == {Num(-1), Num(0), Num(1), Num(3), Num(4), Num(201), Dec(15), Dec(2000), Bad}
OddLines == {Comment, Indented, Nul, Line(<<>>), W(<<1>>)}

Without(s, i) == SubSeq(s, 1, i - 1) \o SubSeq(s, i + 1, Len(s))
With(s, i, e) == SubSeq(s, 1, i) \o <<e>> \o SubSeq(s, i + 1, Len(s))
Edits(lines) ==
  {lines}
    \cup UNION {{[lines EXCEPT ![i].words = [@ EXCEPT ![j] = w]] : j \in DOMAIN lines[i].words, w \in Odd}
                : i \in DOMAIN lines}
    \cup UNION {{[lines EXCEPT ![i].words = Without(@, j)] : j \in DOMAIN lines[i].words} : i \in DOMAIN lines}
    \cup {[lines EXCEPT ![i].words = Append(@, w)] : i \in DOMAIN lines, w \in Odd}
    \cup {Without(lines, i) : i \in DOMAIN lines}
    \cup {With(lines, i, l) : i \in 0 .. Len(lines), l \in OddLines}
Files(bases) == {Text(lines) : lines \in UNION {Edits(b) : b \in bases}}
On(calls, disks) == {[call |-> c, disk |-> d] : c \in calls, d \in disks \cup {Missing}}

CSRCall(fmt, vals, numb) == [what |-> "csr", fmt |-> fmt, vals |-> vals, numb |-> numb]
GraphCall(fmt, vals, numb, float) == [what |-> "graph", fmt |-> fmt, vals |-> vals, numb |-> numb, float |-> float]
GraphCalls(fmts, vals, numbs) == {GraphCall(f, v, n, float) : f \in fmts, v \in vals, n \in numbs, float \in BOOLEAN}

METISFiles == Files({
  <<W(<<2, 1>>), W(<<2>>), W(<<1>>)>>,
  <<W(<<2, 1, 11, 1>>), W(<<0, 2, 3>>), Line(<<Num(1), Num(1), Dec(15)>>)>>,
  <<W(<<2, 1, 111>>), W(<<1, 0, 2, 3>>), W(<<2, 1, 1, 3>>)>>})
CLUTOFiles == Files({<<W(<<2, 3, 2>>), Line(<<Num(3), Dec(5)>>), W(<<1, 2>>)>>})
CSRFiles == Files({<<W(<<1, 2>>), Line(<<Num(0), Dec(5), Num(2), Num(1)>>)>>,
                   <<W(<<1>>), W(<<2, 1>>), W(<<>>)>>,
                   <<W(<<1, 1>>), W(<<>>), W(<<>>)>>})
IJVFiles == Files({<<W(<<1, 2, 3>>), Line(<<Num(2), Num(1), Dec(5)>>), W(<<1, 1, 1>>)>>, <<W(<<1, 2>>), W(<<2, 1>>)>>, <<>>})
HIJVFiles == Files({<<W(<<2, 2>>), W(<<1, 2, 3>>), W(<<2, 1, 1>>)>>, <<W(<<3, 3>>), W(<<1, 2>>)>>, <<W(<<0, 0>>)>>})

BinaryEdits(items) ==
  {Binary(items, odd) : odd \in BOOLEAN}
    \cup {Binary([items EXCEPT ![i] = n], FALSE) : i \in 1 .. 2, n \in -1 .. 3}
    \cup {Binary([items EXCEPT ![i] = n], FALSE) : i \in 3 .. Len(items), n \in {-1, 0, 1, 2, 3, 201, 2000}}
    \cup {Binary(Without(items, i), FALSE) : i \in DOMAIN items}
    \cup {Binary(With(items, i, 0), FALSE) : i \in DOMAIN items}
ViewFiles == BinaryEdits(<<2, 2, 0, 1, 3, 1, 0, 1, 10, 20, 30>>) \cup BinaryEdits(<<2, 1, 0, 1, 2, 0, 0>>)
              \cup BinaryEdits(<<1, 2, 0, 1, 2, 0, 0>>)
TripleFiles == BinaryEdits(<<2, 2, 2, 1, 1, 0, 10, 0, 1, 20>>) \cup BinaryEdits(<<1, 2, 1, 0, 0, 1>>)

IntegerFiles == Files({<<W(<<1>>), W(<<3>>), W(<<-4>>)>>, <<>>})
SeqFiles == Files({<<Line(<<Sym(1), Sym(0)>>), Line(<<Num(1), Sym(0), Num(1), Num(2), Num(3), Num(0)>>),
                     Line(<<Num(2), Sym(2), Num(0), Num(-1), Num(2), Num(1)>>)>>})
  \cup {Text(<<Line(<<Sym(1), Sym(s)>>)>>) : s \in 0 .. 2}
GetlineFiles == {Binary(items, FALSE) : items \in UNION {[1 .. n -> {0, 1}] : n \in 0 .. 5}}

MCReadCalls ==
  On({CSRCall("METIS", 0, 1)} \cup GraphCalls({"METIS"}, {0}, {1}), METISFiles)
    \cup On({CSRCall("CLUTO", 1, 1)}, CLUTOFiles)
    \cup On({CSRCall("CSR", v, n) : v \in 0 .. 2, n \in 0 .. 1}, CSRFiles)
    \cup On({CSRCall("IJV", v, n) : v \in 0 .. 1, n \in 0 .. 1} \cup GraphCalls({"IJV"}, 0 .. 1, 0 .. 1), IJVFiles)
    \cup On(GraphCalls({"HIJV"}, 0 .. 1, 0 .. 1), HIJVFiles)
    \cup On({CSRCall(f, v, 0) : f \in {"BINROW", "BINCOL"}, v \in 0 .. 1}, ViewFiles)
    \cup On({CSRCall("BIJV", 0, 0)}, TripleFiles)
    \cup On({[what |-> w] : w \in {"lines", "i32", "i64", "z"}}, IntegerFiles)
    \cup On({[what |-> "bin", elem |-> e] : e \in {"i32", "i64", "z", "f", "d"}}, {Binary(<<1, 2>>, TRUE)})
    \cup On({[what |-> "bin", elem |-> e] : e \in {"c", "i32", "i64", "z", "f", "d"}},
             {Binary(<<>>, FALSE), Binary(<<1, 2>>, FALSE)})
    \cup On({[what |-> "seq"]}, SeqFiles)
    \cup {[call |-> [what |-> "getline", cap |-> c], disk |-> d] : c \in {0, 2, 3}, d \in GetlineFiles}

-----------------------------------------------------------------------------
(* Matrices of n by m with one view of the entries of a set, each once.    *)
V(cells) == [e \in cells |-> 10 * e[1] + 5 * e[2] + 5]
ViewFrom(n, cells, vals, k) ==
  LET key(c) == <<c[k], c[3 - k]>>
      less(c, d) == key(c)[1] < key(d)[1] \/ (key(c)[1] = key(d)[1] /\ key(c)[2] < key(d)[2])
      at == [p \in First(Cardinality(cells)) |-> CHOOSE c \in cells : Cardinality({d \in cells : less(d, c)}) = p]
  IN [ptr |-> [i \in 0 .. n |-> Cardinality({c \in cells : c[k] < i})],
      ind |-> [p \in DOMAIN at |-> at[p][3 - k]],
      val |-> IF vals THEN [p \in DOMAIN at |-> V(cells)[at[p]]] ELSE NULL]
MatrixOf(n, m, cells, vals) ==
  [nrows |-> n, ncols |-> m, row |-> ViewFrom(n, cells, vals, 1), col |-> ViewFrom(m, cells, vals, 2)]
Cells == (0 .. 1) \X (0 .. 1)
SmallMatrices == {MatrixOf(2, 2, cells, TRUE) : cells \in SUBSET Cells}
                   \cup {MatrixOf(1, 2, {<<0, 1>>}, vals) : vals \in BOOLEAN} \cup {MatrixOf(2, 2, {<<0, 1>>, <<1, 0>>}, FALSE)}
CSRWrites ==
  {[what |-> "csrwrite", fmt |-> f, vals |-> v, numb |-> n, of |-> m, back |-> CSRCall(f, v, n)] :
     f \in {"METIS", "CLUTO", "CSR", "IJV", "BINROW", "BINCOL", "BIJV"}, v \in 0 .. 1, n \in 0 .. 1, m \in SmallMatrices}
Edge2(val) == [ptr |-> [i \in 0 .. 2 |-> i], ind |-> [p \in 0 .. 1 |-> 1 - p], val |-> val]
GraphOf(view, sizes, wgts, float) ==
  [nrows |-> 2, row |-> view, sizes |-> sizes, wgts |-> wgts, float |-> float,
   lab |-> [i \in 1 .. 2 |-> (IF sizes THEN <<10 * i>> ELSE <<>>) \o (IF wgts THEN <<10 * i - 10>> ELSE <<>>)]]
GraphWrites ==
  {[what |-> "graphwrite", fmt |-> f, vals |-> 1, numb |-> n, of |-> g, back |-> GraphCall(f, 1, n, g.float)] :
     f \in {"METIS", "IJV"}, n \in 0 .. 1,
     g \in {GraphOf(Edge2(val), s, w, float) :
              val \in {NULL, [p \in 0 .. 1 |-> 20], [p \in 0 .. 1 |-> 10 + 10 * p], [p \in 0 .. 1 |-> 0]},
              s \in BOOLEAN, w \in BOOLEAN, float \in BOOLEAN}}
ArrayWrites ==
  {[what |-> "binwrite", elem |-> e, of |-> items, back |-> [what |-> "bin", elem |-> e]] :
     e \in {"c", "i32", "i64", "z", "f", "d"}, items \in {<<>>, <<1, 0>>}}
MCWriteCalls == CSRWrites \cup GraphWrites \cup ArrayWrites
=============================================================================
