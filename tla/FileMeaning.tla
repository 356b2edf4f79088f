----------------------------- MODULE FileMeaning -----------------------------
(***************************************************************************)
(* What a call that reads a file promises, whatever the way it reads it:   *)
(* the rows of entries that the file spells, or an error and nothing, if   *)
(* the file does not have the format or something else fails. It is said   *)
(* of the file as a whole and of its words by their positions, and is the  *)
(* specification that the readers implement.                               *)
(***************************************************************************)
EXTENDS TextFile, FiniteSets

CONSTANTS
  NULL,       \* no value
  Garbage,    \* a value that was not written
  Residues    \* bound: residues of a scoring matrix (20 in the code)

VARIABLES
  request,    \* the call
  file,       \* the file
  outcome,    \* Pending, or what the call came to
  trouble     \* "none", or what else failed: "memory", "file"

Pending == [sig |-> "pending"]
Refused(sig) == [sig |-> sig]
(* n rows of m, each the sequence of its entries, and the labels of rows.  *)
Rows(n, m, rows, labels) == [sig |-> "none", n |-> n, m |-> m, rows |-> rows, labels |-> labels]
Items(items) == [sig |-> "none", items |-> items]

Whole(word) == word.k = "int"
Number(word, float) == IF float THEN word.k \in {"int", "dec"} ELSE Whole(word)
Tenths(word) == IF Whole(word) THEN 10 * word.n ELSE word.n
Small(word) == word.n \in Int32Min .. Int32Max
Fits(word, float) == Number(word, float) /\ (IF float THEN Finite(Tenths(word)) ELSE Small(word))
Index(word, base, n) == Whole(word) /\ Small(word) /\ word.n - base \in 0 .. n - 1

NoNul == \A i \in DOMAIN file.lines : file.lines[i].lead # "nul"
Data == SelectSeq(file.lines, LAMBDA line : line.lead # "%")
Rest(s, from) == SubSeq(s, from, Len(s))

-----------------------------------------------------------------------------
(* Rows of words: labels, then entries of an index and, with width 2, its  *)
(* value. The form f says how: the numbers are floats, the values above 0, *)
(* indices count from base up to columns, and default is what an entry     *)
(* without a value has.                                                    *)
Form(labels, vals, float, positive, base, columns, default) ==
  [labels |-> labels, width |-> IF vals THEN 2 ELSE 1, float |-> float, positive |-> positive,
   base |-> base, columns |-> columns, default |-> default]
Entries(ws, f) == (Len(ws) - f.labels) \div f.width
IndexWord(ws, f, e) == ws[f.labels + f.width * (e - 1) + 1]
ValueWord(ws, f, e) == ws[f.labels + f.width * e]
WellFormed(ws, f) ==
  /\ Len(ws) >= f.labels /\ (Len(ws) - f.labels) % f.width = 0
  /\ \A j \in 1 .. f.labels : Fits(ws[j], f.float) /\ Tenths(ws[j]) >= 0
  /\ \A e \in 1 .. Entries(ws, f) :
       /\ Index(IndexWord(ws, f, e), f.base, f.columns)
       /\ f.width = 2 => /\ Fits(ValueWord(ws, f, e), f.float)
                         /\ f.positive => Tenths(ValueWord(ws, f, e)) > 0
RowMeant(ws, f) ==
  [e \in 1 .. Entries(ws, f) |->
     <<IndexWord(ws, f, e).n - f.base, IF f.width = 2 THEN Tenths(ValueWord(ws, f, e)) ELSE f.default>>]
RowsMeant(lines, f) == [i \in DOMAIN lines |-> RowMeant(lines[i].words, f)]
LabelsMeant(lines, f) == [i \in DOMAIN lines |-> [j \in 1 .. f.labels |-> Tenths(lines[i].words[j])]]
AllFormed(lines, f) == \A i \in DOMAIN lines : WellFormed(lines[i].words, f)
Total(rows) ==
  LET upto[k \in 0 .. Len(rows)] == IF k = 0 THEN 0 ELSE upto[k - 1] + Len(rows[k])
  IN upto[Len(rows)]

(* A decimal where an index belongs is read as the index before its point, *)
(* and the fraction as its value: of such rows nothing is promised.        *)
Split(ws, f) == f.float /\ f.width = 2 /\ \E j \in f.labels + 1 .. Len(ws) : (j - f.labels) % 2 = 1 /\ ws[j].k = "dec"

(* n rows after a header, and nothing after them but blank lines.          *)
AfterHeader(n, m, nnz, f) ==
  LET body == SubSeq(Data, 2, n + 1)
  IN IF /\ NoNul /\ Len(Data) > n
        /\ AllFormed(body, f) /\ Total(RowsMeant(body, f)) = nnz
        /\ \A i \in n + 2 .. Len(Data) : IsBlank(Data[i])
     THEN Rows(n, m, RowsMeant(body, f), LabelsMeant(body, f))
     ELSE Refused("SIGERR")

Header == IF Data = <<>> THEN <<>> ELSE Data[1].words
HeaderOf(least, most) ==
  Len(Header) \in least .. most /\ \A j \in DOMAIN Header : Whole(Header[j]) /\ Header[j].n \in 0 .. SizeMax
Digit(k) == IF Len(Header) < 3 THEN 0 ELSE (Header[3].n \div k) % 10
METISForm ==
  LET n == Header[1].n
      graph == request.what = "graph"
  IN Form(Digit(100) + Digit(10), Digit(1) = 1, graph => request.float, TRUE, 1, n, IF graph THEN NULL ELSE 10)
METIS ==
  IF ~HeaderOf(2, 4) THEN Refused("SIGERR")
  ELSE IF Header[1].n > Int32Max \/ 2 * Header[2].n > SizeMax THEN Refused("SIGMEM")
  ELSE IF \/ Len(Header) > 2 /\ (Header[3].n > 111 \/ \E k \in {1, 10, 100} : Digit(k) > 1)
          \/ Len(Header) = 4 /\ (Digit(10) = 0 \/ Header[4].n # 1)
       THEN Refused("SIGERR")
  ELSE AfterHeader(Header[1].n, Header[1].n, 2 * Header[2].n, METISForm)
CLUTOForm == Form(0, TRUE, TRUE, FALSE, 1, Header[2].n, NULL)
CLUTO ==
  IF ~HeaderOf(3, 3) THEN Refused("SIGERR")
  ELSE IF Header[1].n > Int32Max \/ Header[2].n > Int32Max THEN Refused("SIGMEM")
  ELSE AfterHeader(Header[1].n, Header[2].n, Header[3].n, CLUTOForm)

(* Rows only: the largest index makes the columns. Rows of which there are *)
(* too many are not looked at.                                             *)
CSRForm == Form(0, request.vals = 1, TRUE, FALSE, request.numb, Int32Max, IF request.vals = 2 THEN NULL ELSE Garbage)
Indices(rows) == UNION {{rows[i][e][1] : e \in DOMAIN rows[i]} : i \in DOMAIN rows}
Columns(ids) == IF ids = {} THEN 0 ELSE 1 + CHOOSE m \in ids : \A j \in ids : j <= m
CSR ==
  LET seen == SubSeq(Data, 1, IF Len(Data) > Int32Max THEN Int32Max ELSE Len(Data))
      formed == AllFormed(seen, CSRForm) /\ \A i \in DOMAIN seen : seen[i].lead # "nul"
  IN IF Len(Data) > Int32Max
     THEN Refused(IF formed /\ Data[Int32Max + 1].lead # "nul" THEN "SIGMEM" ELSE "SIGERR")
     ELSE IF formed
     THEN Rows(Len(seen), Columns(Indices(RowsMeant(seen, CSRForm))), RowsMeant(seen, CSRForm), LabelsMeant(seen, CSRForm))
     ELSE Refused("SIGERR")

-----------------------------------------------------------------------------
(* Triples: row i has those that begin with i, in their order.             *)
Triples(lines) == SelectSeq(lines, LAMBDA line : ~IsBlank(line))
TripleFormed(ws, float) ==
  /\ Len(ws) = (IF request.vals # 0 THEN 3 ELSE 2)
  /\ \A j \in 1 .. 2 : Index(ws[j], request.numb, Int32Max + 1)
  /\ request.vals # 0 => Fits(ws[3], float)
Grouped(n, triples) ==
  [i \in 1 .. n |->
     LET own == SelectSeq(triples, LAMBDA t : t[1] = i - 1)
     IN [e \in DOMAIN own |-> <<own[e][2], own[e][3]>>]]
TripleMeant(ws) ==
  <<ws[1].n - request.numb, ws[2].n - request.numb, IF request.vals # 0 THEN Tenths(ws[3]) ELSE NULL>>
NoLabels(n) == [i \in 1 .. n |-> <<>>]
IJV ==
  LET records == Triples(file.lines)
      graph == request.what = "graph"
      triples == [k \in DOMAIN records |-> TripleMeant(records[k].words)]
      rows == {triples[k][1] : k \in DOMAIN triples}
      columns == {triples[k][2] : k \in DOMAIN triples}
      n == Columns(IF graph THEN rows \cup columns ELSE rows)
      m == Columns(IF graph THEN rows \cup columns ELSE columns)
  IN IF \/ ~NoNul \/ records = <<>>
        \/ \E k \in DOMAIN records : ~TripleFormed(records[k].words, graph => request.float)
     THEN Refused("SIGERR")
     ELSE IF n > Int32Max \/ m > Int32Max THEN Refused("SIGMEM")
     ELSE Rows(n, m, Grouped(n, triples), NoLabels(n))
HIJV ==
  LET ws == file.lines[1].words
      n == ws[1].n
      records == Triples(Rest(file.lines, 2))
      triples == [k \in DOMAIN records |-> TripleMeant(records[k].words)]
  IN IF \/ ~NoNul \/ file.lines = <<>>
        \/ Len(ws) # 2 \/ ~Index(ws[1], 0, Int32Max + 1) \/ ws[2] # ws[1]
        \/ \E k \in DOMAIN records :
             \/ ~TripleFormed(records[k].words, request.float)
             \/ triples[k][1] >= n \/ triples[k][2] >= n
     THEN Refused("SIGERR")
     ELSE Rows(n, n, Grouped(n, triples), NoLabels(n))

-----------------------------------------------------------------------------
(* Binary: the dimensions, the pointers of the lines, the indices and the  *)
(* values; and triples after the dimensions, their number and 1 or 0.      *)
Lines(byrow, vals) ==
  LET it == file.items
      d == IF byrow THEN it[1] ELSE it[2]
      crossing == IF byrow THEN it[2] ELSE it[1]
      ptr(i) == it[3 + i]
      nnz == ptr(d)
      ind(p) == it[4 + d + p]
      val(p) == IF vals THEN it[4 + d + nnz + p] ELSE NULL
  IN IF Len(it) < 2 THEN Refused("SIGERR")
     ELSE IF it[1] < 0 \/ it[2] < 0 \/ Len(it) < 3 + d THEN Refused("SIGERR")
     ELSE IF ptr(0) # 0 \/ \E i \in 1 .. d : ptr(i - 1) > ptr(i) THEN Refused("SIGERR")
     ELSE IF nnz > SizeMax THEN Refused("SIGMEM")
     ELSE IF file.odd \/ Len(it) # 3 + d + (IF vals THEN 2 ELSE 1) * nnz THEN Refused("SIGERR")
     ELSE IF \E p \in 0 .. nnz - 1 : ind(p) \notin 0 .. crossing - 1 \/ (vals /\ ~Finite(val(p))) THEN Refused("SIGERR")
     ELSE Rows(it[1], it[2],
               [i \in 1 .. d |-> [e \in 1 .. ptr(i) - ptr(i - 1) |-> <<ind(ptr(i - 1) + e - 1), val(ptr(i - 1) + e - 1)>>]],
               NoLabels(d))
BIJV ==
  LET it == file.items
      width == 2 + it[4]
      triples == [k \in 1 .. it[3] |-> <<it[5 + (k - 1) * width], it[6 + (k - 1) * width],
                                         IF width = 3 THEN it[4 + k * width] ELSE NULL>>]
  IN IF Len(it) < 4 THEN Refused("SIGERR")
     ELSE IF it[1] < 0 \/ it[2] < 0 \/ it[4] \notin {0, 1} THEN Refused("SIGERR")
     ELSE IF it[3] \notin 0 .. SizeMax THEN Refused("SIGMEM")      \* unsigned
     ELSE IF file.odd \/ Len(it) # 4 + it[3] * width THEN Refused("SIGERR")
     ELSE IF \E k \in DOMAIN triples : \/ triples[k][1] \notin 0 .. it[1] - 1 \/ triples[k][2] \notin 0 .. it[2] - 1
                                       \/ width = 3 /\ ~Finite(triples[k][3])
          THEN Refused("SIGERR")
     ELSE Rows(it[1], it[2], Grouped(it[1], triples), NoLabels(it[1]))

-----------------------------------------------------------------------------
(* Arrays of lines or of integers; the bytes of a line; the rows of a      *)
(* scoring matrix by residue, whatever the order of its columns.           *)
IntegerLines(least, most) ==
  IF NoNul /\ \A i \in DOMAIN file.lines :
       LET ws == file.lines[i].words IN Len(ws) = 1 /\ Whole(ws[1]) /\ ws[1].n \in least .. most
  THEN Items([i \in DOMAIN file.lines |-> file.lines[i].words[1].n])
  ELSE Refused("SIGERR")
FirstBytes ==
  LET it == file.items
      ends == {k \in DOMAIN it : it[k] = 0}
      n == IF ends = {} THEN Len(it) ELSE CHOOSE k \in ends : \A j \in ends : k <= j
  IN Items(SubSeq(it, 1, n))
Sequence ==
  LET head == file.lines[1].words
      column(s) == CHOOSE c \in 1 .. Residues : head[c].n = s
      records == Rest(file.lines, 2)
      scores(ws, from) == [s \in 0 .. Residues - 1 |-> ws[from + column(s)].n]
  IN IF \/ ~NoNul \/ file.lines = <<>>
        \/ Len(head) # Residues \/ \E c \in DOMAIN head : head[c].k # "sym"
        \/ {head[c].n : c \in DOMAIN head} # 0 .. Residues - 1
        \/ \E i \in DOMAIN records :
             LET ws == records[i].words
             IN \/ Len(ws) # 2 + 2 * Residues \/ ws[2].k # "sym"
                \/ \E j \in DOMAIN ws \ {2} : ~(Whole(ws[j]) /\ Small(ws[j]))
     THEN Refused("SIGERR")
     ELSE Items([i \in DOMAIN records |->
            LET ws == records[i].words
            IN [sym |-> ws[2].n, pssm |-> scores(ws, 2), psfm |-> scores(ws, 2 + Residues)]])

-----------------------------------------------------------------------------
Meaning ==
  LET what == request.what IN
  IF file.kind = "missing" THEN Refused("SIGERR")
  ELSE CASE what \in {"csr", "graph"} /\ request.fmt = "METIS" -> METIS
         [] what = "csr" /\ request.fmt = "CLUTO" -> CLUTO
         [] what = "csr" /\ request.fmt = "CSR" -> CSR
         [] what \in {"csr", "graph"} /\ request.fmt = "IJV" -> IJV
         [] what = "graph" /\ request.fmt = "HIJV" -> HIJV
         [] what = "csr" /\ request.fmt = "BINROW" -> Lines(TRUE, request.vals = 1)
         [] what = "csr" /\ request.fmt = "BINCOL" -> Lines(FALSE, request.vals # 0)
         [] what = "csr" /\ request.fmt = "BIJV" -> BIJV
         [] what = "lines" -> IF NoNul THEN Items(file.lines) ELSE Refused("SIGERR")
         [] what = "i32" -> IntegerLines(Int32Min, Int32Max)
         [] what \in {"i64", "z"} -> IntegerLines(-SizeMax - 1, SizeMax)
         [] what = "bin" -> IF file.odd THEN Refused("SIGERR") ELSE Items(file.items)
         [] what = "getline" -> FirstBytes
         [] what = "seq" -> Sequence

Rowwise == request.what \in {"csr", "graph"} /\ request.fmt \in {"METIS", "CLUTO", "CSR"} /\ file.kind = "text"
FormMeant ==
  CASE request.fmt = "METIS" -> METISForm [] request.fmt = "CLUTO" -> CLUTOForm [] request.fmt = "CSR" -> CSRForm
Unclear ==
  /\ Rowwise
  /\ request.fmt = "METIS" => HeaderOf(2, 4)
  /\ request.fmt = "CLUTO" => HeaderOf(3, 3)
  /\ \E i \in DOMAIN Data : (i > 1 \/ request.fmt = "CSR") /\ Split(Data[i].words, FormMeant)

(* A call comes to what its file means or, when something else failed, to  *)
(* an error that says what. Then another call may be made.                 *)
Init == outcome = Pending /\ trouble = "none"
Call == outcome' = Pending
Answer ==
  /\ outcome = Pending /\ UNCHANGED <<request, file>>
  /\ IF trouble' = "none" THEN Unclear \/ outcome' = Meaning
     ELSE outcome' = Refused(IF trouble' = "memory" THEN "SIGMEM" ELSE "SIGERR")
Next == Call \/ Answer
Spec == Init /\ [][Next]_<<request, file, outcome, trouble>>
=============================================================================
