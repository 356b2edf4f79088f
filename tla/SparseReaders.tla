---------------------------- MODULE SparseReaders ---------------------------
(***************************************************************************)
(* gk_csr_Read: the formats METIS, CLUTO and CSR by rows, IJV by triples,  *)
(* and the binary ones BINROW, BINCOL and BIJV. call.vals is the argument  *)
(* readvals (0, 1 or 2), call.numb the argument numbering.                 *)
(***************************************************************************)
EXTENDS Readers

gk_csr_DetermineFormat(fmt) == fmt     \* from the argument; the extension of a name is not modelled
RowFormats == {"METIS", "CLUTO", "CSR"}
Fixed == {"METIS", "CLUTO"}

(* What the two error paths of the row formats release.                    *)
gk_csr_TextReadError(sig) == Refuse({"line"} \cup Object, sig)
BugTextAllocationError(wanted) == OutOfMemory(wanted, {"line"})
gk_csr_TextAllocationError(wanted) == OutOfMemory(wanted, {"line"} \cup Object)

CSROpen ==
  /\ AtFormat("csr", RowFormats, "open")
  /\ gk_fopen([rd EXCEPT !.pc = IF rd.call.fmt = "CSR" THEN "allocate" ELSE "header"])

(* A header is the first line that is not a comment; what it may say.      *)
CLUTOHeader(ws) ==
  IF ~gk_csr_ParseHeader(ws, 3, 3) THEN Unusable("SIGERR")
  ELSE IF ws[1].n > Int32Max \/ ws[2].n > Int32Max THEN Unusable("SIGMEM")
  ELSE Usable([nrows |-> ws[1].n, ncols |-> ws[2].n, nnz |-> ws[3].n,
               sizes |-> FALSE, wgts |-> FALSE, vals |-> TRUE])
METISHeader(ws) ==
  IF ~gk_csr_ParseHeader(ws, 2, 4) THEN Unusable("SIGERR")
  ELSE IF ws[1].n > Int32Max \/ ws[2].n > SizeMax \div 2 THEN Unusable("SIGMEM")
  ELSE METISDigits(ws)
CSRHeader ==
  /\ At("csr", "header")
  /\ \/ LineFails({"line"}, {"line"})
     \/ AtEnd /\ gk_csr_TextReadError("SIGERR")
     \/ /\ HasLine
        /\ LET h == IF rd.call.fmt = "CLUTO" THEN CLUTOHeader(NextLine.words) ELSE METISHeader(NextLine.words)
           IN IF HasNul(NextLine) THEN gk_csr_TextReadError("SIGERR")
              ELSE IF IsComment(NextLine) THEN Goes([rd EXCEPT !.at = @ + 1], gk_getline)
              ELSE IF h.sig # "none" THEN gk_csr_TextReadError(h.sig)
              ELSE Goes([rd EXCEPT !.pc = "allocate", !.at = @ + 1, !.head = h.head], gk_getline)

(* The arrays of the result, for the rows and entries of the header.       *)
Dynamic == rd.call.fmt = "CSR"
HasVals == Dynamic => rd.call.vals # 2
ReadsVals == IF Dynamic THEN rd.call.vals = 1 ELSE rd.head.vals
CSRAllocate ==
  /\ At("csr", "allocate")
  /\ LET wanted == Blocks(HasVals, rd.head.sizes, rd.head.wgts)
     IN \/ gk_csr_TextAllocationError(wanted)
        \/ Goes([rd EXCEPT !.pc = "rows", !.rows = rd.head.nrows, !.cap = rd.head.nnz], wanted)

(* One row. Only a CSR file may have more of them, and of entries, than the*)
(* arrays were made for; of values that are not read, those of the header's*)
(* entries are set to 1.                                                   *)
RowCount == Len(rd.ptr) - 1
Places0(n) == (IF rd.head.sizes THEN 1 ELSE 0) + (IF rd.head.wgts THEN 1 ELSE 0) + n
CSRFields ==
  [vals |-> ReadsVals, float |-> TRUE, positive |-> rd.call.fmt = "METIS",
   default |-> IF Dynamic THEN Garbage ELSE 10,
   shift |-> IF Dynamic THEN rd.call.numb ELSE 1,
   limit |-> IF Dynamic THEN Int32Max ELSE rd.head.ncols,
   room |-> IF Dynamic THEN SizeMax ELSE rd.cap - Len(rd.ents)]
BugCSRRows(n) == IF n <= rd.rows + 1 THEN rd.rows ELSE 2 * rd.rows
CSRRows(n) ==
  IF n <= rd.rows THEN rd.rows
  ELSE IF rd.rows = 0 THEN 1
  ELSE IF rd.rows > Int32Max \div 2 THEN Int32Max ELSE 2 * rd.rows
CSREntries(n) == Grown(rd.cap, 1, n)
EntryBlocks == IF HasVals THEN {"ind", "val"} ELSE {"ind"}
CSRRow ==
  /\ At("csr", "rows") /\ (Dynamic \/ RowCount < rd.head.nrows)
  /\ \/ LineFails({"line"} \cup Object, {"line"} \cup Object)
     \/ AtEnd /\ IF Dynamic THEN Goes([rd EXCEPT !.pc = "close"], gk_getline) ELSE gk_csr_TextReadError("SIGERR")
     \/ /\ HasLine
        /\ IF HasNul(NextLine) THEN gk_csr_TextReadError("SIGERR")
           ELSE IF IsComment(NextLine) THEN Goes([rd EXCEPT !.at = @ + 1], gk_getline)
           ELSE LET ws == NextLine.words
                    n == Places0(0)
                    row == RowOf(CSRFields, AfterLabel(ws, n, TRUE))
                    size == Len(rd.ents) + Len(row.ents)
                    wanted == size + (IF StartsInt(row.rest) /\ InRange(IntAt(row.rest)) THEN 1 ELSE 0)
                IN IF RowCount = rd.rows /\ RowCount >= Int32Max THEN gk_csr_TextReadError("SIGMEM")
                   ELSE \/ RowCount = rd.rows /\ gk_csr_TextAllocationError({"ptr"})
                        \/ ~LabelFits(ws, n, TRUE) /\ gk_csr_TextReadError("SIGERR")
                        \/ /\ LabelFits(ws, n, TRUE)
                           /\ \/ Dynamic /\ wanted > rd.cap /\ gk_csr_TextAllocationError(EntryBlocks)
                              \/ row.rest # <<>> /\ gk_csr_TextReadError("SIGERR")
                              \/ row.rest = <<>> /\ Goes([rd EXCEPT
                                   !.at = @ + 1, !.ptr = Append(@, size), !.ents = @ \o row.ents,
                                   !.lab = Append(@, LabelOf(ws, n, TRUE)),
                                   !.rows = CSRRows(RowCount + 1), !.cap = CSREntries(size)], gk_getline)

(* After the last row of a header's only blank lines and comments follow.  *)
CSRTail ==
  /\ At("csr", "rows") /\ ~Dynamic /\ RowCount = rd.head.nrows
  /\ IF Len(rd.ents) # rd.head.nnz THEN gk_csr_TextReadError("SIGERR")
     ELSE \/ LineFails({"line"} \cup Object, {"line"} \cup Object)
          \/ AtEnd /\ Goes([rd EXCEPT !.pc = "close"], {})
          \/ HasLine /\ IF IsBlank(NextLine) /\ ~HasNul(NextLine) THEN Goes([rd EXCEPT !.at = @ + 1], {})
                        ELSE gk_csr_TextReadError("SIGERR")

MaxIndex == CHOOSE m \in {rd.ents[p][1] : p \in DOMAIN rd.ents} : \A p \in DOMAIN rd.ents : rd.ents[p][1] <= m
CSRMatrix ==
  Result("csr", RowCount,
         IF ~Dynamic THEN rd.head.ncols ELSE IF rd.ents = <<>> THEN 0 ELSE MaxIndex + 1,
         TRUE, HasVals, ViewOf(rd.ptr, rd.ents, HasVals), rd.lab)
CSRClose ==
  /\ AtFormat("csr", RowFormats, "close")
  /\ \/ Broken("file", {"line"} \cup Object)
     \/ Closes([rd EXCEPT !.pc = "done", !.ret = CSRMatrix], {"line"})

-----------------------------------------------------------------------------
(* IJV: triples are gathered in three arrays, the file is closed, and the  *)
(* matrix is made of them.                                                 *)
IJVFailure(sig) == Refuse({"line"} \cup Triples, sig)
IJVAllocationFailure(wanted) == OutOfMemory(wanted, {"line"} \cup Triples \cup Object)

IJVOpen == AtFormat("csr", {"IJV"}, "open") /\ gk_fopen([rd EXCEPT !.pc = "triples"])

(* A triple: whole fields, and nothing after them.                         *)
TripleFits(ws, vals) ==
  /\ gk_csr_ParseI32(ws) /\ gk_csr_ParseI32(Tail(ws))
  /\ IF vals THEN gk_csr_ParseFloat(Tail(Tail(ws))) /\ gk_csr_EndRecord(Tail(Tail(Tail(ws))))
     ELSE gk_csr_EndRecord(Tail(Tail(ws)))
  /\ IntAt(ws) - rd.call.numb >= 0 /\ IntAt(Tail(ws)) - rd.call.numb >= 0
Triple(ws, vals) ==
  <<IntAt(ws) - rd.call.numb, IntAt(Tail(ws)) - rd.call.numb>> \o (IF vals THEN <<FloatAt(Tail(Tail(ws)))>> ELSE <<>>)
IJVVals == rd.call.vals # 0
IJVRecord ==
  /\ AtFormat("csr", {"IJV"}, "triples")
  /\ \/ LineFails({"line"} \cup Triples \cup Object, {"line"} \cup Triples)
     \/ /\ HasLine
        /\ IF HasNul(NextLine) THEN IJVFailure("SIGERR")
           ELSE IF IsBlank(NextLine) THEN Goes([rd EXCEPT !.at = @ + 1], gk_getline)
           ELSE LET ws == NextLine.words
                    full == Len(rd.ents) = rd.cap
                IN \/ full /\ IJVAllocationFailure(TripleBlocks(IJVVals))
                   \/ ~TripleFits(ws, IJVVals) /\ IJVFailure("SIGERR")
                   \/ TripleFits(ws, IJVVals) /\ Goes([rd EXCEPT
                        !.at = @ + 1, !.ents = Append(@, Triple(ws, IJVVals)),
                        !.cap = IF full THEN Grown(@, FirstCap, @ + 1) ELSE @],
                        gk_getline \cup TripleBlocks(IJVVals))

(* The end of the file; the largest indices make the dimensions.           *)
Largest(ents, k) ==
  CHOOSE m \in {ents[p][k] : p \in DOMAIN ents} : \A p \in DOMAIN ents : ents[p][k] <= m
IJVEnd ==
  /\ AtFormat("csr", {"IJV"}, "triples") /\ AtEnd
  /\ IF rd.ents = <<>> THEN IJVFailure("SIGERR")
     ELSE IF Largest(rd.ents, 1) >= Int32Max \/ Largest(rd.ents, 2) >= Int32Max THEN IJVFailure("SIGMEM")
     ELSE \/ Broken("file", {"line"} \cup Triples)
          \/ Closes([rd EXCEPT !.pc = "build", !.head.nrows = Largest(rd.ents, 1) + 1,
                               !.head.ncols = Largest(rd.ents, 2) + 1], {"line"})
IJVBuild ==
  /\ AtFormat("csr", {"IJV"}, "build")
  /\ \/ IJVAllocationFailure(Blocks(IJVVals, FALSE, FALSE))
     \/ /\ rd' = [rd EXCEPT !.pc = "done",
              !.ret = Result("csr", rd.head.nrows, rd.head.ncols, TRUE, IJVVals,
                             Compressed(rd.head.nrows, rd.ents, IJVVals), <<>>)]
        /\ heap' = (heap \cup Blocks(IJVVals, FALSE, FALSE)) \ Triples
        /\ UNCHANGED <<disk, stream, fault>>

-----------------------------------------------------------------------------
(***************************************************************************)
(* The binary formats of gk_csr_Read: BINROW and BINCOL, a view as it is   *)
(* in memory, and BIJV, triples after a header. The file is its numbers,   *)
(* whatever their width, and its size their count; it may be cut or        *)
(* replaced by a longer one after its size was taken.                      *)
(***************************************************************************)

Items == disk.items
Item(k) == disk.items[k]
Taken(n) == SubSeq(Items, rd.at + 1, rd.at + n)
ByRow == rd.call.fmt = "BINROW"
BinaryVals == IF ByRow THEN rd.call.vals = 1 ELSE rd.call.vals # 0
Dimension == IF ByRow THEN rd.head.nrows ELSE rd.head.ncols
Crossing == IF ByRow THEN rd.head.ncols ELSE rd.head.nrows

(* The end of gk_csr_ReadBinary on an error, found in the file, or failing *)
(* to allocate or read.                                                    *)
BinaryBlocks == {"mat", "ptr", "ind", "val"}
BinaryRefused(got, sig) == RefuseHolding(got, BinaryBlocks, sig)
BinaryBroken(wanted) ==
  OutOfMemory(wanted, BinaryBlocks) \/ BrokenHolding("file", wanted, BinaryBlocks)

(* The matrix is made, the file opened and its size taken, which only a    *)
(* regular file has.                                                       *)
BinaryFormats == {"BINROW", "BINCOL"}
BinaryOpen ==
  /\ AtFormat("csr", BinaryFormats, "open")
  /\ \/ BinaryBroken({"mat"})
     \/ ~CanOpen /\ BinaryRefused({"mat"}, "SIGERR")
     \/ /\ CanOpen
        /\ rd' = [rd EXCEPT !.pc = "sizes"] /\ stream' = "open" /\ heap' = heap \cup {"mat"}
        /\ UNCHANGED <<disk, fault>>

BinarySizes ==
  /\ AtFormat("csr", BinaryFormats, "sizes")
  /\ \/ BinaryBroken({})
     \/ IF Len(Items) < 2 THEN BinaryRefused({}, "SIGERR")
        ELSE LET lines == IF ByRow THEN Item(1) ELSE Item(2)
             IN IF Item(1) \notin Nat \/ Item(2) \notin Nat \/ lines + 1 > Len(Items) - 2 THEN BinaryRefused({}, "SIGERR")
                ELSE Goes([rd EXCEPT !.pc = "pointers", !.at = 2, !.head.nrows = Item(1), !.head.ncols = Item(2)], {})

(* The pointers must begin at 0 and never fall, and with the entries they  *)
(* count the file must end.                                                *)
Monotone(ptr) == ptr[1] = 0 /\ \A i \in 2 .. Len(ptr) : ptr[i - 1] <= ptr[i]
BinaryPointers ==
  /\ AtFormat("csr", BinaryFormats, "pointers")
  /\ \/ BinaryBroken({"ptr"})
     \/ LET ptr == Taken(Dimension + 1)
            width == IF BinaryVals THEN 2 ELSE 1
        IN IF ~Monotone(ptr) THEN BinaryRefused({"ptr"}, "SIGERR")
           ELSE IF ptr[Dimension + 1] \notin 0 .. SizeMax THEN BinaryRefused({"ptr"}, "SIGMEM")
           ELSE IF disk.odd \/ Len(Items) # 3 + Dimension + width * ptr[Dimension + 1] THEN BinaryRefused({"ptr"}, "SIGERR")
           ELSE Goes([rd EXCEPT !.pc = "indices", !.at = @ + Dimension + 1, !.ptr = ptr,
                                !.head.nnz = ptr[Dimension + 1]], {"ptr"})

BinaryIndices ==
  /\ AtFormat("csr", BinaryFormats, "indices")
  /\ \/ BinaryBroken({"ind"})
     \/ LET ind == Taken(rd.head.nnz)
        IN IF \E p \in DOMAIN ind : ind[p] \notin First(Crossing) THEN BinaryRefused({"ind"}, "SIGERR")
           ELSE Goes([rd EXCEPT !.pc = IF BinaryVals THEN "values" ELSE "end", !.at = @ + rd.head.nnz, !.cap = rd.head.nnz,
                                !.ents = [p \in DOMAIN ind |-> <<ind[p]>>]], {"ind"})

BinaryValues ==
  /\ AtFormat("csr", BinaryFormats, "values")
  /\ \/ BinaryBroken({"val"})
     \/ LET val == Taken(rd.head.nnz)
        IN IF \E p \in DOMAIN val : ~Finite(val[p]) THEN BinaryRefused({"val"}, "SIGERR")
           ELSE Goes([rd EXCEPT !.pc = "end", !.ents = [p \in DOMAIN val |-> <<@[p][1], val[p]>>]], {"val"})

BinaryEnd ==
  /\ AtFormat("csr", BinaryFormats, "end")
  /\ \/ Broken("file", BinaryBlocks)
     \/ Closes([rd EXCEPT !.pc = "done",
          !.ret = Result("csr", rd.head.nrows, rd.head.ncols, ByRow, BinaryVals,
                         ViewOf(rd.ptr, rd.ents, BinaryVals), <<>>)], {})

-----------------------------------------------------------------------------
(* BIJV. The header says how many triples, and whether they have values.   *)
BIJVBlocks == Object \cup Triples
BIJVFailure(got, sig) == RefuseHolding(got, BIJVBlocks, sig)
BIJVBroken(wanted) == OutOfMemory(wanted, BIJVBlocks) \/ BrokenHolding("file", wanted, BIJVBlocks)

BIJVOpen ==
  /\ AtFormat("csr", {"BIJV"}, "open")
  /\ \/ BIJVBroken({"mat"})
     \/ ~CanOpen /\ BIJVFailure({"mat"}, "SIGERR")
     \/ /\ CanOpen
        /\ rd' = [rd EXCEPT !.pc = "sizes"] /\ stream' = "open" /\ heap' = heap \cup {"mat"}
        /\ UNCHANGED <<disk, fault>>

BIJVSizes ==
  /\ AtFormat("csr", {"BIJV"}, "sizes")
  /\ \/ BIJVBroken({})
     \/ IF Len(Items) < 4 THEN BIJVFailure({}, "SIGERR")
        ELSE IF Item(1) < 0 \/ Item(2) < 0 \/ Item(4) \notin {0, 1} THEN BIJVFailure({}, "SIGERR")
        ELSE IF Item(3) \notin 0 .. SizeMax THEN BIJVFailure({}, "SIGMEM")
        ELSE IF disk.odd \/ Len(Items) # 4 + Item(3) * (2 + Item(4)) THEN BIJVFailure({}, "SIGERR")
        ELSE Goes([rd EXCEPT !.pc = "triples", !.at = 4,
                             !.head = [NoHeader EXCEPT !.nrows = Item(1), !.ncols = Item(2),
                                                       !.nnz = Item(3), !.vals = Item(4) = 1]], {})

BIJVTriples ==
  /\ AtFormat("csr", {"BIJV"}, "triples")
  /\ \/ BIJVBroken(TripleBlocks(rd.head.vals))
     \/ LET width == IF rd.head.vals THEN 3 ELSE 2
            ents == [p \in 1 .. rd.head.nnz |-> SubSeq(Items, 5 + (p - 1) * width, 4 + p * width)]
        IN IF \E p \in DOMAIN ents : \/ ents[p][1] \notin First(rd.head.nrows)
                                     \/ ents[p][2] \notin First(rd.head.ncols)
                                     \/ rd.head.vals /\ ~Finite(ents[p][3])
           THEN BIJVFailure(TripleBlocks(rd.head.vals), "SIGERR")
           ELSE Goes([rd EXCEPT !.pc = "end", !.ents = ents, !.cap = rd.head.nnz], TripleBlocks(rd.head.vals))

BIJVEnd ==
  /\ AtFormat("csr", {"BIJV"}, "end")
  /\ Broken("file", BIJVBlocks) \/ Closes([rd EXCEPT !.pc = "build"], {})
BIJVBuild ==
  /\ AtFormat("csr", {"BIJV"}, "build")
  /\ \/ OutOfMemory(Blocks(rd.head.vals, FALSE, FALSE), BIJVBlocks)
     \/ /\ rd' = [rd EXCEPT !.pc = "done",
              !.ret = Result("csr", rd.head.nrows, rd.head.ncols, TRUE, rd.head.vals,
                             Compressed(rd.head.nrows, rd.ents, rd.head.vals), <<>>)]
        /\ heap' = (heap \cup Blocks(rd.head.vals, FALSE, FALSE)) \ Triples
        /\ UNCHANGED <<disk, stream, fault>>

-----------------------------------------------------------------------------
(***************************************************************************)
(* gk_graph_Read: the format METIS by vertices, IJV and HIJV by triples.   *)
(* call.float says that weights are read as floats (isfewgts, isfvwgts and *)
(* isfvsizes, which are one argument here), call.vals that triples have    *)
(* them, call.numb is the argument numbering.                              *)
(***************************************************************************)

TripleFormats == {"IJV", "HIJV"}
Float == rd.call.float

(* What the error paths release.                                           *)
gk_graph_ReadError(sig) == Refuse({"line"} \cup Object, sig)
gk_graph_ReadAllocationError(wanted) == OutOfMemory(wanted, {"line"} \cup Object)

GraphOpen ==
  /\ AtFormat("graph", {"METIS"}, "open")
  /\ gk_fopen([rd EXCEPT !.pc = "header"])

(* The header, the first line that is not a comment.                       *)
GraphSizes(ws) ==
  IF ~gk_graph_ParseHeader(ws) THEN Unusable("SIGERR")
  ELSE IF ws[1].n > Int32Max \/ ws[2].n > SizeMax \div 2 THEN Unusable("SIGMEM")
  ELSE METISDigits(ws)
GraphHeader ==
  /\ AtFormat("graph", {"METIS"}, "header")
  /\ \/ LineFails({"line"}, {"line"})
     \/ AtEnd /\ gk_graph_ReadError("SIGERR")
     \/ /\ HasLine
        /\ LET h == GraphSizes(NextLine.words)
           IN IF HasNul(NextLine) THEN gk_graph_ReadError("SIGERR")
              ELSE IF IsComment(NextLine) THEN Goes([rd EXCEPT !.at = @ + 1], gk_getline)
              ELSE IF h.sig # "none" THEN gk_graph_ReadError(h.sig)
              ELSE Goes([rd EXCEPT !.pc = "allocate", !.at = @ + 1, !.head = h.head], gk_getline)

GraphAllocate ==
  /\ AtFormat("graph", {"METIS"}, "allocate")
  /\ LET wanted == Blocks(rd.head.vals, rd.head.sizes, rd.head.wgts)
     IN \/ gk_graph_ReadAllocationError(wanted)
        \/ Goes([rd EXCEPT !.pc = "rows", !.rows = rd.head.nrows, !.cap = rd.head.nnz], wanted)

(* One vertex: its size, its weight, and its edges, as many as there are.  *)
GraphLabels == (IF rd.head.sizes THEN 1 ELSE 0) + (IF rd.head.wgts THEN 1 ELSE 0)
GraphFields ==
  [vals |-> rd.head.vals, float |-> Float, positive |-> TRUE, default |-> NULL, shift |-> 1,
   limit |-> rd.head.ncols, room |-> rd.cap - Len(rd.ents)]
Vertices == Len(rd.ptr) - 1
GraphRow ==
  /\ AtFormat("graph", {"METIS"}, "rows") /\ Vertices < rd.head.nrows
  /\ \/ LineFails({"line"} \cup Object, {"line"} \cup Object)
     \/ AtEnd /\ gk_graph_ReadError("SIGERR")
     \/ /\ HasLine
        /\ IF HasNul(NextLine) THEN gk_graph_ReadError("SIGERR")
           ELSE IF IsComment(NextLine) THEN Goes([rd EXCEPT !.at = @ + 1], gk_getline)
           ELSE LET ws == NextLine.words
                    row == RowOf(GraphFields, AfterLabel(ws, GraphLabels, Float))
                IN IF ~LabelFits(ws, GraphLabels, Float) \/ row.rest # <<>> THEN gk_graph_ReadError("SIGERR")
                   ELSE Goes([rd EXCEPT !.at = @ + 1, !.ents = @ \o row.ents,
                                        !.ptr = Append(@, Len(rd.ents) + Len(row.ents)),
                                        !.lab = Append(@, LabelOf(ws, GraphLabels, Float))], gk_getline)

(* As many edges as the header says, then blank lines and comments.        *)
GraphTail ==
  /\ AtFormat("graph", {"METIS"}, "rows") /\ Vertices = rd.head.nrows
  /\ IF Len(rd.ents) # rd.head.nnz THEN gk_graph_ReadError("SIGERR")
     ELSE \/ LineFails({"line"} \cup Object, {"line"} \cup Object)
          \/ /\ HasLine
             /\ IF IsBlank(NextLine) /\ ~HasNul(NextLine) THEN Goes([rd EXCEPT !.at = @ + 1], {})
                ELSE gk_graph_ReadError("SIGERR")
          \/ /\ AtEnd
             /\ \/ Broken("file", {"line"} \cup Object)
                \/ Closes([rd EXCEPT !.pc = "done",
                     !.ret = Result("graph", rd.head.nrows, rd.head.ncols, TRUE, rd.head.vals,
                                    ViewOf(rd.ptr, rd.ents, rd.head.vals), rd.lab)], {"line"})

-----------------------------------------------------------------------------
(* Triples: gathered in arrays that grow, and made a graph of when the file*)
(* is closed. HIJV declares the number of vertices, twice, in a first line.*)
TripleFailure(sig) == Refuse({"line"} \cup Triples, sig)
TripleAllocationFailure(wanted) == OutOfMemory(wanted, {"line"} \cup Triples \cup Object)
EdgeVals == rd.call.vals # 0

TriplesOpen ==
  /\ AtFormat("graph", TripleFormats, "open")
  /\ gk_fopen([rd EXCEPT !.pc = IF rd.call.fmt = "HIJV" THEN "header" ELSE "triples"])

TriplesHeader ==
  /\ AtFormat("graph", {"HIJV"}, "header")
  /\ \/ LineFails({"line"} \cup Triples \cup Object, {"line"} \cup Triples)
     \/ AtEnd /\ TripleFailure("SIGERR")
     \/ /\ HasLine
        /\ LET ws == NextLine.words
           IN IF /\ ~HasNul(NextLine)
                 /\ gk_graph_ParseI32(ws) /\ gk_graph_ParseI32(Tail(ws)) /\ gk_graph_EndRecord(Tail(Tail(ws)))
                 /\ IntAt(ws) >= 0 /\ IntAt(ws) = IntAt(Tail(ws))
              THEN Goes([rd EXCEPT !.pc = "triples", !.at = @ + 1, !.head.nrows = IntAt(ws)], gk_getline)
              ELSE TripleFailure("SIGERR")

EdgeFits(ws) ==
  LET value == Tail(Tail(ws))
      i == IntAt(ws) - rd.call.numb
      j == IntAt(Tail(ws)) - rd.call.numb
  IN /\ gk_graph_ParseI32(ws) /\ gk_graph_ParseI32(Tail(ws))
     /\ IF EdgeVals THEN /\ (IF Float THEN gk_graph_ParseFloat(value) ELSE gk_graph_ParseI32(value))
                         /\ gk_graph_EndRecord(Tail(value))
        ELSE gk_graph_EndRecord(value)
     /\ i >= 0 /\ j >= 0
     /\ rd.call.fmt = "HIJV" => i < rd.head.nrows /\ j < rd.head.nrows
EdgeOf(ws) ==
  <<IntAt(ws) - rd.call.numb, IntAt(Tail(ws)) - rd.call.numb>>
    \o (IF EdgeVals THEN <<NumberAt(Tail(Tail(ws)), Float)>> ELSE <<>>)
TriplesRecord ==
  /\ AtFormat("graph", TripleFormats, "triples")
  /\ \/ LineFails({"line"} \cup Triples \cup Object, {"line"} \cup Triples)
     \/ /\ HasLine
        /\ IF HasNul(NextLine) THEN TripleFailure("SIGERR")
           ELSE IF IsBlank(NextLine) THEN Goes([rd EXCEPT !.at = @ + 1], gk_getline)
           ELSE LET ws == NextLine.words
                    full == Len(rd.ents) = rd.cap
                IN \/ full /\ TripleAllocationFailure(TripleBlocks(EdgeVals))
                   \/ ~EdgeFits(ws) /\ TripleFailure("SIGERR")
                   \/ EdgeFits(ws) /\ Goes([rd EXCEPT
                        !.at = @ + 1, !.ents = Append(@, EdgeOf(ws)),
                        !.cap = IF full THEN gk_grow_read_buffer(@, @ + 1) ELSE @],
                        gk_getline \cup TripleBlocks(EdgeVals))

LargestVertex(ents) ==
  LET ends == {ents[p][1] : p \in DOMAIN ents} \cup {ents[p][2] : p \in DOMAIN ents}
  IN CHOOSE m \in ends : \A v \in ends : v <= m
TriplesEnd ==
  /\ AtFormat("graph", TripleFormats, "triples") /\ AtEnd
  /\ LET n == IF rd.call.fmt = "HIJV" THEN rd.head.nrows
              ELSE IF rd.ents = <<>> THEN 0 ELSE LargestVertex(rd.ents) + 1
     IN IF rd.call.fmt = "IJV" /\ rd.ents = <<>> THEN TripleFailure("SIGERR")
        ELSE IF n > Int32Max THEN TripleFailure("SIGMEM")
        ELSE \/ Broken("file", {"line"} \cup Triples)
             \/ Closes([rd EXCEPT !.pc = "build", !.head.nrows = n], {"line"})

TriplesBuild ==
  /\ AtFormat("graph", TripleFormats, "build")
  /\ \/ TripleAllocationFailure(Blocks(EdgeVals, FALSE, FALSE))
     \/ /\ rd' = [rd EXCEPT !.pc = "done",
              !.ret = Result("graph", rd.head.nrows, rd.head.nrows, TRUE, EdgeVals,
                             Compressed(rd.head.nrows, rd.ents, EdgeVals), <<>>)]
        /\ heap' = (heap \cup Blocks(EdgeVals, FALSE, FALSE)) \ Triples
        /\ UNCHANGED <<disk, stream, fault>>
=============================================================================
