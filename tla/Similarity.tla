----------------------------- MODULE Similarity -----------------------------
(***************************************************************************)
(* The functions of src/src/csr.c that compute with the values of a matrix:*)
(* sums and norms, normalisation and scaling, the similarity of two lines, *)
(* and the search for the rows that are most similar to a query, on marks  *)
(* that the caller keeps from one search to the next.                      *)
(*                                                                         *)
(* Values are integers before they are scaled; what is computed of them is *)
(* exact, a fraction or the root of one. An entry has a value other than 0.*)
(* gk_errexit leaves the function that calls it, as it does unless the     *)
(* program has turned that off, and the caller may go on from a recovery   *)
(* binding; GKASSERT ends the program.                                     *)
(***************************************************************************)
EXTENDS Select, FiniteSetsExt, Functions

CONSTANTS
  Tables,    \* matrices, as functions from rows \X columns to values, 0 where there is no entry
  Valued,    \* whether they may have no values: a subset of BOOLEAN
  Present,   \* the sets of views that a matrix may have
  Searches,  \* records of q, simtype, nsim, minsim
  MaxCalls   \* how many calls a behaviour makes

VARIABLES
  mat,      \* the lines of each view, the sums and norms that were computed
  marker,   \* the array that a caller passes to gk_csr_GetSimilarRows
  last,     \* the last call and its answer
  calls
similarVars == <<mat, marker, last, calls>>

NoArray == <<>>
Views == {"ROW", "COL"}
IndexesOf(table, k) == {cell[k] : cell \in DOMAIN table}
CellOf(view, i, j) == IF view = "ROW" THEN <<i, j>> ELSE <<j, i>>
LineOfTable(table, view, i) ==
  LET across == IndexesOf(table, IF view = "ROW" THEN 2 ELSE 1)
      at(j) == table[CellOf(view, i, j)]
  IN SetToSortSeq({<<j, at(j)>> : j \in {j \in across : at(j) # 0}}, LAMBDA a, b : a[1] < b[1])
ViewOfTable(table, view) ==
  [i \in IndexesOf(table, IF view = "ROW" THEN 1 ELSE 2) |-> LineOfTable(table, view, i)]

SimilarInit ==
  /\ \E table \in Tables, vals \in Valued, views \in Present :
       mat = [table |-> table, vals |-> vals, lines |-> [view \in views |-> ViewOfTable(table, view)],
              sums |-> [view \in Views |-> NoArray], norms |-> [view \in Views |-> NoArray], root |-> [view \in Views |-> FALSE]]
  /\ marker = [i \in DOMAIN mat.lines["ROW"] |-> -1]
  /\ last = [fn |-> "none"] /\ calls = 0

(* A call on the matrix: the first one may be any, and after the values are*)
(* scaled, or the program has ended, there is none.                        *)
Ready == calls < MaxCalls /\ last.fn \notin {"normalize", "scale", "abort"}
Answers(answer) == calls' = calls + 1 /\ last' = answer
Errexit(sig) == Answers([fn |-> "error", sig |-> sig])
Aborts == Answers([fn |-> "abort"])

SumOf(line) == FoldLeft(LAMBDA s, e : s + e[2], 0, line)
SquaresOf(line) == FoldLeft(LAMBDA s, e : s + e[2] * e[2], 0, line)
SumsOf(view) == [i \in DOMAIN mat.lines[view] |-> IF mat.vals THEN SumOf(mat.lines[view][i]) ELSE Len(mat.lines[view][i])]
NormsOf(view) == [i \in DOMAIN mat.lines[view] |-> IF mat.vals THEN SquaresOf(mat.lines[view][i]) ELSE Len(mat.lines[view][i])]

(* The array of before is freed first; the matrix is left without one when *)
(* the heap has no room for the new one. Without that view of the matrix   *)
(* there is nothing to ask for.                                            *)
Whats == Views \cup {"ROWCOL"}
Summarizes(what, fn, done, without) ==
  /\ what \in Views => what \in DOMAIN mat.lines
  /\ \/ what \notin Views /\ Errexit("SIGERR") /\ UNCHANGED mat
     \/ what \in Views /\ Answers([fn |-> fn]) /\ mat' = done
     \/ what \in Views /\ Errexit("SIGMEM") /\ mat' = without
  /\ UNCHANGED marker
gk_csr_ComputeSums ==
  Ready /\ \E what \in Whats :
    Summarizes(what, "sums", [mat EXCEPT !.sums[what] = SumsOf(what)], [mat EXCEPT !.sums[what] = NoArray])
gk_csr_ComputeNorms ==
  Ready /\ \E what \in Whats :
    Summarizes(what, "norms", [mat EXCEPT !.norms[what] = NormsOf(what), !.root[what] = TRUE],
               [mat EXCEPT !.norms[what] = NoArray, !.root[what] = FALSE])
gk_csr_ComputeSquaredNorms ==
  Ready /\ \E what \in Whats :
    Summarizes(what, "norms", [mat EXCEPT !.norms[what] = NormsOf(what), !.root[what] = FALSE],
               [mat EXCEPT !.norms[what] = NoArray, !.root[what] = FALSE])

-----------------------------------------------------------------------------
(* Every value of a line is divided by the line's norm when that is        *)
(* positive, and else multiplied by the sum it comes from, which is 0 when *)
(* another norm is asked for. A view without values is left alone.         *)
Divided(line, norm) ==
  LET s == IF norm = 1 THEN SumOf(line) ELSE IF norm = 2 THEN SquaresOf(line) ELSE 0
  IN [e \in DOMAIN line |->
        [id |-> line[e][1], num |-> IF s > 0 THEN line[e][2] ELSE line[e][2] * s, den |-> IF s > 0 THEN s ELSE 1,
         root |-> norm = 2 /\ s > 0]]
gk_csr_Normalize ==
  Ready /\ \E what \in SUBSET Views, norm \in 1 .. 3 :
    /\ Answers([fn |-> "normalize", what |-> what, norm |-> norm])
    /\ mat' = [mat EXCEPT !.lines = [view \in DOMAIN @ |->
                 IF view \in what /\ mat.vals THEN [i \in DOMAIN @[view] |-> Divided(@[view][i], norm)] ELSE @[view]]]
    /\ UNCHANGED marker

(* The scalings of the row values. By the largest of a row, as a fraction; *)
(* by a power or the logarithm, which keep the sign and leave 0 as it is;  *)
(* by the logarithm of a ratio of counts for each column.                  *)
Magnitude(v) == IF v < 0 THEN -v ELSE v
Largest(line) == Max({Magnitude(line[e][2]) : e \in DOMAIN line})
Powers == {"SQRT", "POW25", "POW65", "POW75", "POW85", "LOG"}
ByLargest(type, line) ==
  [e \in DOMAIN line |->
     IF type = "MAXTF" THEN [id |-> line[e][1], num |-> Largest(line) + line[e][2], den |-> 2 * Largest(line)]
     ELSE [id |-> line[e][1], num |-> Largest(line) + 9 * line[e][2], den |-> 10 * Largest(line)]]
ByPower(type, line) ==
  [e \in DOMAIN line |->
     IF line[e][2] = 0 THEN [id |-> line[e][1], of |-> 0, plus |-> 0]
     ELSE [id |-> line[e][1], of |-> line[e][2], plus |-> IF type = "LOG" THEN 10 ELSE 1]]   \* of tenths
ColLen ==
  [j \in IndexesOf(mat.table, 2) |->
     FoldFunction(LAMBDA l, s : s + Cardinality({e \in DOMAIN l : l[e][1] = j}), 0, mat.lines["ROW"])]
BgFreq ==
  LET nnz == FoldFunction(LAMBDA l, s : s + Len(l), 0, mat.lines["ROW"])
      nnzcols == Cardinality({j \in DOMAIN ColLen : ColLen[j] > 0})
  IN Max({10, nnz \div (2 * nnzcols)})
ByColumn(type, line) ==
  LET nrows == Cardinality(DOMAIN mat.lines["ROW"])
      bg == IF type = "IDF" THEN 0 ELSE BgFreq
  IN [e \in DOMAIN line |-> [id |-> line[e][1], num |-> line[e][2], log |-> <<nrows + 2 * bg, bg + ColLen[line[e][1]]>>]]
(* The rows must have values; the frequency of the background is that of   *)
(* some entry. The first value of an empty row, which MAXTF and MAXTF2 read*)
(* from whatever follows, is not used.                                     *)
Scalings == {"MAXTF", "MAXTF2", "IDF", "IDF2"} \cup Powers
Scaled(type, line) ==
  IF type \in Powers THEN ByPower(type, line)
  ELSE IF type \in {"IDF", "IDF2"} THEN ByColumn(type, line) ELSE ByLargest(type, line)
gk_csr_Scale ==
  Ready /\ \E type \in Scalings \cup {"OTHER"} :
    /\ mat.vals
    /\ type = "IDF2" => \E i \in DOMAIN mat.lines["ROW"] : mat.lines["ROW"][i] # <<>>
    /\ \/ type \in Scalings /\ Answers([fn |-> "scale", type |-> type])
          /\ mat' = [mat EXCEPT !.lines["ROW"] = [i \in DOMAIN @ |-> Scaled(type, @[i])]]
       \/ type \in {"IDF", "IDF2"} /\ Errexit("SIGMEM") /\ UNCHANGED mat
       \/ type \notin Scalings /\ Errexit("SIGERR") /\ UNCHANGED mat
    /\ UNCHANGED marker

-----------------------------------------------------------------------------
(* The similarities of src/src/csr.c: of two lines of a matrix, or of two  *)
(* matrices, and of the rows of a matrix with a query.                     *)

CONSTANT Others    \* the tables of the other matrix of a pair

SimTypes == {"COS", "JAC", "MIN", "AMIN"}
Lesser(a, b) == IF a < b THEN a ELSE b
Weight(type, v) == IF type \in {"COS", "JAC"} THEN v * v ELSE v
Common(type, v, w) == IF type \in {"COS", "JAC", "DOTP"} THEN v * w ELSE Lesser(v, w)

(* Two lines are merged by index, until one of them ends; an index of both *)
(* counts for their common part, every index for its own line.             *)
Met(type, l1, l2, s) ==
  LET e == l1[s.i1]
      f == l2[s.i2]
  IN [i1   |-> IF e[1] <= f[1] THEN s.i1 + 1 ELSE s.i1,
      i2   |-> IF f[1] <= e[1] THEN s.i2 + 1 ELSE s.i2,
      sim  |-> IF e[1] = f[1] THEN s.sim + Common(type, e[2], f[2]) ELSE s.sim,
      stat1 |-> IF e[1] <= f[1] THEN s.stat1 + Weight(type, e[2]) ELSE s.stat1,
      stat2 |-> IF f[1] <= e[1] THEN s.stat2 + Weight(type, f[2]) ELSE s.stat2]
Merged(type, l1, l2) ==
  LET turn[k \in Nat] ==
        IF k = 0 THEN [i1 |-> 1, i2 |-> 1, sim |-> 0, stat1 |-> 0, stat2 |-> 0]
        ELSE IF turn[k - 1].i1 <= Len(l1) /\ turn[k - 1].i2 <= Len(l2) THEN Met(type, l1, l2, turn[k - 1])
        ELSE turn[k - 1]
  IN turn[Len(l1) + Len(l2)]

(* The quotient, 0 when the divisor is not positive; COS is the quotient by*)
(* the root of its second part.                                            *)
Quotient(num, den) == IF den > 0 THEN <<num, den>> ELSE <<0, 1>>
Scored(type, sim, stat1, stat2) ==
  IF type = "COS" THEN Quotient(sim, stat1 * stat2)
  ELSE IF type = "AMIN" THEN Quotient(sim, stat1)
  ELSE Quotient(sim, stat1 + stat2 - sim)
SimilarityOf(type, l1, l2) ==
  LET m == Merged(type, l1, l2) IN Scored(type, m.sim, m.stat1, m.stat2)
(* A view that is missing, another what and another type are refused.      *)
Similar(what, type, views, l1, l2) ==
  /\ mat.vals
  /\ IF what \in views /\ type \in SimTypes
     THEN Answers([fn |-> "pair", type |-> type, l1 |-> l1, l2 |-> l2, sim |-> SimilarityOf(type, l1, l2)])
     ELSE Errexit("SIGERR")
  /\ UNCHANGED <<mat, marker>>
LinesOf(what, lines) == IF what \in DOMAIN lines THEN {lines[what][i] : i \in DOMAIN lines[what]} ELSE {<<>>}
gk_csr_ComputeSimilarity ==
  Ready /\ \E what \in Whats, type \in SimTypes \cup {"DOTP"} :
    \E l1, l2 \in LinesOf(what, mat.lines) : Similar(what, type, DOMAIN mat.lines, l1, l2)
gk_csr_ComputePairSimilarity ==
  Ready /\ \E what \in Whats, type \in SimTypes \cup {"DOTP"}, other \in Others, views \in Present :
    LET lines == [view \in views |-> ViewOfTable(other, view)]
    IN \E l1 \in LinesOf(what, mat.lines), l2 \in LinesOf(what, lines) :
         Similar(what, type, views \cap DOMAIN mat.lines, l1, l2)

-----------------------------------------------------------------------------
(* The rows that have a column of the query become candidates, in the order*)
(* in which they are met; marker says where a row is among them.           *)
Joined(s, type, t) ==
  LET new == s.marker[t.row] = -1
      cand == IF new THEN Append(s.cand, [val |-> t.row, key |-> 0]) ELSE s.cand
      at == IF new THEN Len(s.cand) ELSE s.marker[t.row]
  IN [cand |-> [cand EXCEPT ![at + 1].key = @ + Common(type, t.value, t.weight)],
      marker |-> [s.marker EXCEPT ![t.row] = at]]
Terms(q) ==
  FlattenSeq([t \in DOMAIN q |->
    IF q[t][1] < Cardinality(IndexesOf(mat.table, 2))
    THEN LET column == mat.lines["COL"][q[t][1]]
         IN [n \in DOMAIN column |-> [row |-> column[n][1], value |-> column[n][2], weight |-> q[t][2]]]
    ELSE <<>>])
Gather(q, type, marks) == FoldLeft(LAMBDA s, t : Joined(s, type, t), [cand |-> <<>>, marker |-> marks], Terms(q))

(* Their similarities, from the norms or sums that were computed before.   *)
Keyed(q, type, c) ==
  [val |-> c.val,
   key |-> IF type = "JAC" THEN <<c.key, mat.norms["ROW"][c.val] + SquaresOf(q) - c.key>>
           ELSE IF type = "MIN" THEN <<c.key, mat.sums["ROW"][c.val] + SumOf(q) - c.key>>
           ELSE IF type = "AMIN" THEN <<c.key, SumOf(q)>>
           ELSE <<c.key, 1>>]

(* The nsim most similar ones sorted, when there are more than nsim; those *)
(* with equal keys come in any order.                                      *)
Decreasing(cand) ==
  {cand2 \in {[k \in DOMAIN cand |-> cand[f[k]]] : f \in {g \in [DOMAIN cand -> DOMAIN cand] : IsInjective(g)}} :
     \A k \in 1 .. Len(cand2) - 1 : AtLeast(cand2[k].key, cand2[k + 1].key)}
Best(cand, nsim) ==
  IF nsim = -1 \/ nsim >= Len(cand) THEN {cand} ELSE Decreasing(SubSeq(gk_dfkvkselect(cand, nsim), 1, nsim))

BugUnmarked(found, minsim) ==
  [i \in DOMAIN found.marker |->
     IF \E k \in DOMAIN found.cand : found.cand[k].val = i /\ AtLeast(found.cand[k].key, minsim) THEN -1 ELSE found.marker[i]]
Unmarked(found, minsim) ==
  [i \in DOMAIN found.marker |-> IF \E k \in DOMAIN found.cand : found.cand[k].val = i THEN -1 ELSE found.marker[i]]
(* A query without terms has no hits. The columns must have values, and the*)
(* norms or sums of the type must have been computed: this is noticed when *)
(* the candidates have their marks. The norms are squared ones, as the     *)
(* programs have them (m2mnbrs.c:273, cmpnbrs.c:253). own says that the    *)
(* search makes its marks and candidates itself.                           *)
SearchTypes == SimTypes \cup {"DOTP"}
Lacks(type) == (type = "JAC" /\ mat.norms["ROW"] = NoArray) \/ (type = "MIN" /\ mat.sums["ROW"] = NoArray)
Finds(search, own, met) ==
  LET found == [met EXCEPT !.cand = [k \in DOMAIN @ |-> Keyed(search.q, search.simtype, @[k])]]
      near == SelectSeq(found.cand, LAMBDA c : AtLeast(c.key, search.minsim))
  IN /\ \E hits \in Best(near, search.nsim) : Answers([fn |-> "search", search |-> search, hits |-> hits])
     /\ marker' = IF own THEN marker ELSE Unmarked(found, search.minsim)
SearchFor(search, own) ==
  LET type == search.simtype
      met == Gather(search.q, type, IF own THEN [i \in DOMAIN marker |-> -1] ELSE marker)
  IN \/ own /\ Errexit("SIGMEM") /\ UNCHANGED marker
     \/ type \notin SearchTypes /\ Errexit("SIGERR") /\ UNCHANGED marker
     \/ Lacks(type) /\ Aborts /\ marker' = IF own THEN marker ELSE met.marker
     \/ type \in SearchTypes /\ ~Lacks(type) /\ Finds(search, own, met)
gk_csr_GetSimilarRows ==
  Ready /\ \E search \in Searches, own \in BOOLEAN :
    /\ search.simtype = "JAC" => ~mat.root["ROW"]
    /\ IF search.q = <<>> THEN Answers([fn |-> "search", search |-> search, hits |-> <<>>]) /\ UNCHANGED marker
       ELSE IF "COL" \notin DOMAIN mat.lines \/ ~mat.vals THEN Aborts /\ UNCHANGED marker
       ELSE SearchFor(search, own)
    /\ UNCHANGED mat

SimilarNext ==
  \/ gk_csr_ComputeSums \/ gk_csr_ComputeNorms \/ gk_csr_ComputeSquaredNorms
  \/ gk_csr_Normalize \/ gk_csr_Scale
  \/ gk_csr_ComputeSimilarity \/ gk_csr_ComputePairSimilarity \/ gk_csr_GetSimilarRows
SimilarSpec == SimilarInit /\ [][SimilarNext]_similarVars

-----------------------------------------------------------------------------
(* The similarity of two lines as a whole.                                 *)
ValueIn(line, j) == FoldLeft(LAMBDA s, e : IF e[1] = j THEN s + e[2] ELSE s, 0, line)
IdsOf(line) == {line[e][1] : e \in DOMAIN line}
SumOver(S, f(_)) == FoldSet(LAMBDA j, s : s + f(j), 0, S)
CommonPart(type, l1, l2) == SumOver(IdsOf(l1) \cap IdsOf(l2), LAMBDA j : Common(type, ValueIn(l1, j), ValueIn(l2, j)))
Whole(type, l1, l2) ==
  Scored(type, CommonPart(type, l1, l2),
         SumOver(IdsOf(l1), LAMBDA j : Weight(type, ValueIn(l1, j))), SumOver(IdsOf(l2), LAMBDA j : Weight(type, ValueIn(l2, j))))
SameQuotient(a, b) == a[1] * b[2] = b[1] * a[2]

(* "returns the similarity between the two rows/columns" (csr.c:3538).     *)
SimilarityWhole ==
  last.fn = "pair" => SameQuotient(last.sim, Whole(last.type, last.l1, last.l2))

(* What the code does compute: the whole similarity of lines that end with *)
(* the same index, and of positive values never less than it.              *)
EndTogether(l1, l2) == l1 # <<>> /\ l2 # <<>> /\ l1[Len(l1)][1] = l2[Len(l2)][1]
Positive(line) == \A e \in DOMAIN line : line[e][2] > 0
PairRight ==
  /\ Positive(last.l1) /\ Positive(last.l2) => AtLeast(last.sim, Whole(last.type, last.l1, last.l2))
  /\ EndTogether(last.l1, last.l2) \/ IdsOf(last.l1) \cap IdsOf(last.l2) = {} =>
       SameQuotient(last.sim, Whole(last.type, last.l1, last.l2))

(* Of the rows near enough that share a column with the query the search   *)
(* returns as many as asked for, none twice, each with its similarity, and *)
(* leaves none out that is more similar.                                   *)
RowsSimilarity(type, i, q) ==
  LET l == mat.lines["ROW"][i]
      common == CommonPart(type, q, l)
  IN CASE type \in {"DOTP", "COS"} -> <<common, 1>>
       [] type = "AMIN" -> <<common, SumOf(q)>>
       [] type = "MIN" -> <<common, SumOf(q) + SumOf(l) - common>>
       [] type = "JAC" -> <<common, SquaresOf(q) + SquaresOf(l) - common>>
NearRows(s) ==
  {i \in DOMAIN mat.lines["ROW"] : /\ IdsOf(mat.lines["ROW"][i]) \cap IdsOf(s.q) # {}
                                   /\ AtLeast(RowsSimilarity(s.simtype, i, s.q), s.minsim)}
SearchRight ==
  LET s == last.search
      hits == last.hits
      rows == {hits[k].val : k \in DOMAIN hits}
      near == NearRows(s)
  IN /\ Cardinality(rows) = Len(hits) /\ rows \subseteq near
     /\ \A k \in DOMAIN hits : hits[k].key = RowsSimilarity(s.simtype, hits[k].val, s.q)
     /\ Len(hits) = IF s.nsim = -1 THEN Cardinality(near) ELSE Lesser(s.nsim, Cardinality(near))
     /\ \A k \in DOMAIN hits, i \in near \ rows : AtLeast(hits[k].key, RowsSimilarity(s.simtype, i, s.q))
     /\ s.nsim # -1 /\ s.nsim < Cardinality(near) =>
          \A k \in 1 .. Len(hits) - 1 : AtLeast(hits[k].key, hits[k + 1].key)

(* Sums and norms are those of the entries; a normalised line has norm 1   *)
(* when its values are positive, as the code assumes (csr.c:2973);         *)
(* scaling by the largest leaves at most 1, and 1 for it; a column weighs  *)
(* the less the more rows have it, and nothing when every row does.        *)
Across(view, i) == {j \in IndexesOf(mat.table, IF view = "ROW" THEN 2 ELSE 1) : mat.table[CellOf(view, i, j)] # 0}
EntryOr1(view, i, j) == IF mat.vals THEN mat.table[CellOf(view, i, j)] ELSE 1
SummariesRight ==
  \A view \in Views :
    /\ \A i \in DOMAIN mat.sums[view] : mat.sums[view][i] = SumOver(Across(view, i), LAMBDA j : EntryOr1(view, i, j))
    /\ \A i \in DOMAIN mat.norms[view] : mat.norms[view][i] = SumOver(Across(view, i), LAMBDA j : EntryOr1(view, i, j) * EntryOr1(view, i, j))
NormalizedRight ==
  \A view \in DOMAIN mat.lines : \A i \in DOMAIN mat.lines[view] :
    LET l == mat.lines[view][i]
        total == FoldLeft(LAMBDA s, e : s + (IF e.root THEN e.num * e.num ELSE e.num), 0, l)
    IN IF view \in last.what /\ mat.vals
       THEN l # <<>> /\ Positive(LineOfTable(mat.table, view, i)) => total = IF last.norm = 3 THEN 0 ELSE l[1].den
       ELSE l = LineOfTable(mat.table, view, i)
Rows(j) == {i \in DOMAIN mat.lines["ROW"] : mat.table[i, j] # 0}
ScaledRight ==
  /\ "COL" \in DOMAIN mat.lines => mat.lines["COL"] = ViewOfTable(mat.table, "COL")
  /\ \A i \in DOMAIN mat.lines["ROW"] : \A e \in DOMAIN mat.lines["ROW"][i] :
       LET s == mat.lines["ROW"][i][e]
           v(f) == mat.table[i, mat.lines["ROW"][i][f].id]
       IN /\ last.type \in {"MAXTF", "MAXTF2"} =>
               s.num <= s.den /\ (s.num = s.den <=> \A f \in DOMAIN mat.lines["ROW"][i] : Magnitude(v(f)) <= v(e))
          /\ last.type \in {"IDF", "IDF2"} =>
               /\ s.num = v(e) /\ s.log[1] >= s.log[2]
               /\ last.type = "IDF" => (s.log[1] = s.log[2] <=> Rows(s.id) = DOMAIN mat.lines["ROW"])
               /\ \A k \in DOMAIN mat.lines["ROW"] : \A f \in DOMAIN mat.lines["ROW"][k] :
                    LET r == mat.lines["ROW"][k][f]
                    IN AtLeast(s.log, r.log) <=> Cardinality(Rows(s.id)) <= Cardinality(Rows(r.id))

(* However the calls follow each other, each answer is that of the matrix  *)
(* alone: no mark of an earlier search, no part of the selection and no    *)
(* order of equal keys changes it (csr.c:3541, :3876, fkvkselect.c:20).    *)
SimilarRight ==
  /\ last.fn \notin {"normalize", "scale"} => SummariesRight
  /\ last.fn = "pair" => PairRight
  /\ last.fn = "search" => SearchRight
  /\ last.fn = "normalize" => NormalizedRight
  /\ last.fn = "scale" => ScaledRight
=============================================================================
