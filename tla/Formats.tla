------------------------------- MODULE Formats ------------------------------
(***************************************************************************)
(* gk_csr_Write, gk_graph_Write and gk_writefilebin_impl: what is written  *)
(* is checked, a temporary file is opened (gk_open_output_file) and        *)
(* written print by print, and gk_finish_output_file makes it the file, in *)
(* one step, or removes it (OutputFile has the transaction in detail).     *)
(* After a write that succeeded the program reads the file back.           *)
(***************************************************************************)
EXTENDS SparseReaders

VARIABLE wr     \* the activation record of the writer

(* call.of is what is written: a matrix by both views, or a graph, or the  *)
(* items of an array. call.back is the call that reads it.                 *)
Writing(call) == [call |-> call, pc |-> "check", at |-> 0, out |-> <<>>, failed |-> FALSE, sig |-> "none"]
NoWriting == [Writing([what |-> "none"]) EXCEPT !.pc = "done"]

Wrote(what, pc) == wr.call.what = what /\ wr.pc = pc
WriteFrame == UNCHANGED <<rd, heap, stream>>
Fails(sig) ==
  /\ wr' = [wr EXCEPT !.pc = "done", !.sig = sig]
  /\ UNCHANGED <<disk, fault>> /\ WriteFrame
Written == wr.call.of
N == Written.nrows

-----------------------------------------------------------------------------
(* What one call of Print or WriteItems adds: words, the last of a line or *)
(* not, or items.                                                          *)
Words(ws) == [words |-> ws, ends |-> FALSE]
EndOfLine(ws) == [words |-> ws, ends |-> TRUE]

Concatenated(n, parts) ==
  LET upto[i \in 0 .. n] == IF i = 0 THEN <<>> ELSE upto[i - 1] \o parts[i - 1]
  IN upto[n]
ByRows(part) == Concatenated(N, part)
Ordered(view, i) == [k \in 1 .. view.ptr[i + 1] - view.ptr[i] |-> view.ptr[i] + k - 1]
Spelled(v, float) == IF float THEN Dec(v) ELSE Num(v \div 10)

(* A row: " %d" for each index, shifted, and " %f" for its value.          *)
RowPrints(view, i, shift, values, float, label) ==
  LET places == Ordered(view, i)
      entry(p) == <<Words(<<Num(view.ind[p] + shift)>>)>>
                    \o (IF values THEN <<Words(<<Spelled(view.val[p], float)>>)>> ELSE <<>>)
  IN [j \in DOMAIN label |-> Words(<<Spelled(label[j], float)>>)]
       \o Concatenated(Len(places), [k \in First(Len(places)) |-> entry(places[k + 1])])
       \o <<EndOfLine(<<>>)>>
(* Triples, one to a line.                                                 *)
TriplePrints(view, i, shift, value) ==
  [k \in DOMAIN Ordered(view, i) |->
     EndOfLine(<<Num(i + shift), Num(view.ind[Ordered(view, i)[k]] + shift)>> \o value[Ordered(view, i)[k]])]
ValueWords(view, values, float) ==
  [p \in Places(view, N) |-> IF values THEN <<Spelled(view.val[p], float)>> ELSE <<>>]

-----------------------------------------------------------------------------
(* gk_csr_Write by format.                                                 *)
gk_csr_Print(ws, ends) == IF ends THEN EndOfLine(ws) ELSE Words(ws)
gk_csr_WriteItems(items) == items

CSRAccepts(fmt) ==
  LET byrow == fmt # "BINCOL"
      view == IF byrow THEN Written.row ELSE Written.col
      lines == IF byrow THEN N ELSE Written.ncols
      crossing == IF byrow THEN Written.ncols ELSE N
      values == wr.call.vals = 1 \/ fmt = "CLUTO"
  IN /\ ValidateSparseView(lines, crossing, view)
     /\ values => (view.ptr[lines] > 0 => view.val # NULL) /\ \A p \in Places(view, lines) : Finite(view.val[p])
     /\ fmt = "METIS" => N = Written.ncols /\ ValidateSymmetry(Written.row, N, FALSE)

InOrder(n, f) == [k \in 1 .. n |-> f[k - 1]]
ViewItems(view, n) ==
  <<gk_csr_WriteItems(<<N>>), gk_csr_WriteItems(<<Written.ncols>>), gk_csr_WriteItems(InOrder(n + 1, view.ptr)),
    gk_csr_WriteItems(InOrder(view.ptr[n], view.ind))>>
    \o (IF wr.call.vals = 1 THEN <<gk_csr_WriteItems(InOrder(view.ptr[n], view.val))>> ELSE <<>>)
EdgeItems(i) ==
  LET places == Ordered(Written.row, i)
      entry(p) == <<gk_csr_WriteItems(<<i, Written.row.ind[p]>>)>>
                    \o (IF wr.call.vals = 1 THEN <<gk_csr_WriteItems(<<Written.row.val[p]>>)>> ELSE <<>>)
  IN Concatenated(Len(places), [k \in First(Len(places)) |-> entry(places[k + 1])])
CSRPrints(fmt) ==
  LET view == Written.row
      values == wr.call.vals = 1
  IN CASE fmt = "METIS" ->
            <<gk_csr_Print(<<Num(N), Num(view.ptr[N] \div 2)>>, TRUE)>>
              \o ByRows([i \in First(N) |-> RowPrints(view, i, 1, FALSE, TRUE, <<>>)])
       [] fmt = "CLUTO" ->
            <<gk_csr_Print(<<Num(N), Num(Written.ncols), Num(view.ptr[N])>>, TRUE)>>
              \o ByRows([i \in First(N) |-> RowPrints(view, i, 1, TRUE, TRUE, <<>>)])
       [] fmt = "CSR" -> ByRows([i \in First(N) |-> RowPrints(view, i, wr.call.numb, values, TRUE, <<>>)])
       [] fmt = "IJV" ->
            ByRows([i \in First(N) |-> TriplePrints(view, i, wr.call.numb, ValueWords(view, values, TRUE))])
       [] fmt = "BINROW" -> ViewItems(view, N)
       [] fmt = "BINCOL" -> ViewItems(Written.col, Written.ncols)
       [] fmt = "BIJV" ->
            <<gk_csr_WriteItems(<<N>>), gk_csr_WriteItems(<<Written.ncols>>), gk_csr_WriteItems(<<view.ptr[N]>>),
              gk_csr_WriteItems(<<wr.call.vals>>)>>
              \o ByRows([i \in First(N) |-> EdgeItems(i)])

(* gk_graph_Write. Sizes, weights and edge weights are ints or, as floats, *)
(* of.float. Without weights IJV has 1 for each edge.                      *)
gk_graph_Print(ws, ends) == IF ends THEN EndOfLine(ws) ELSE Words(ws)
gk_graph_Validate(fmt) ==
  /\ ValidateSparseView(N, N, Written.row)
  /\ Written.row.val # NULL =>
       \A p \in Places(Written.row, N) :
         (Written.float => Finite(Written.row.val[p])) /\ (fmt = "METIS" => Written.row.val[p] > 0)
GraphPrints(fmt) ==
  LET view == Written.row
      weighted == view.val # NULL
      digits == (IF Written.sizes THEN 100 ELSE 0) + (IF Written.wgts THEN 10 ELSE 0) + (IF weighted THEN 1 ELSE 0)
  IN CASE fmt = "METIS" ->
            <<gk_graph_Print(<<Num(N), Num(view.ptr[N] \div 2)>>, FALSE)>>
              \o (IF digits > 0 THEN <<gk_graph_Print(<<Num(digits)>>, FALSE)>> ELSE <<>>)
              \o <<gk_graph_Print(<<>>, TRUE)>>
              \o ByRows([i \in First(N) |-> RowPrints(view, i, 1, weighted, Written.float, Written.lab[i + 1])])
       [] fmt = "IJV" ->
            ByRows([i \in First(N) |-> TriplePrints(view, i, wr.call.numb,
              IF weighted THEN ValueWords(view, TRUE, Written.float)
              ELSE [p \in Places(view, N) |-> <<Num(1)>>])])

Accepted ==
  CASE wr.call.what = "csrwrite" -> CSRAccepts(wr.call.fmt)
    [] wr.call.what = "graphwrite" ->
         gk_graph_Validate(wr.call.fmt) /\ (wr.call.fmt = "METIS" => ValidateSymmetry(Written.row, N, TRUE))
    [] wr.call.what = "binwrite" -> TRUE
Prints ==
  CASE wr.call.what = "csrwrite" -> CSRPrints(wr.call.fmt)
    [] wr.call.what = "graphwrite" -> GraphPrints(wr.call.fmt)
    [] wr.call.what = "binwrite" -> IF Written = <<>> THEN <<>> ELSE <<Written>>

-----------------------------------------------------------------------------
(* The file that a sequence of prints makes; of text, the lines that ended *)
(* and the last one.                                                       *)
TextOf(prints) ==
  LET lines[k \in 0 .. Len(prints)] ==
        IF k = 0 THEN [done |-> <<>>, line |-> <<>>]
        ELSE LET line == lines[k - 1].line \o prints[k].words
             IN IF prints[k].ends THEN [done |-> Append(lines[k - 1].done, Line(line)), line |-> <<>>]
                ELSE [lines[k - 1] EXCEPT !.line = line]
  IN lines[Len(prints)]
InBinary == wr.call.what = "binwrite" \/ wr.call.fmt \in {"BINROW", "BINCOL", "BIJV"}
FileOf(prints) ==
  IF InBinary THEN Binary(Concatenated(Len(prints), [k \in First(Len(prints)) |-> prints[k + 1]]), FALSE)
  ELSE LET text == TextOf(prints)
       IN Text(IF text.line = <<>> THEN text.done ELSE Append(text.done, Line(text.line)))

(* The check of the arguments, and the temporary file.                     *)
WriterOpens(what) ==
  /\ Wrote(what, "check")
  /\ \/ ~Accepted /\ Fails("SIGERR")
     \/ \E kind \in {"memory", "file"} :
          /\ fault' = kind
          /\ wr' = [wr EXCEPT !.pc = "done", !.sig = IF kind = "memory" THEN "SIGMEM" ELSE "SIGERR"]
          /\ UNCHANGED disk /\ WriteFrame
     \/ Accepted /\ wr' = [wr EXCEPT !.pc = "print"] /\ UNCHANGED <<disk, fault>> /\ WriteFrame

(* One print. After one that failed there is none.                         *)
BugWriterPrints(what) ==
  /\ Wrote(what, "print") /\ wr.at < Len(Prints)
  /\ \/ wr' = [wr EXCEPT !.at = @ + 1, !.out = Append(@, Prints[wr.at + 1]), !.failed = FALSE] /\ UNCHANGED fault
     \/ wr' = [wr EXCEPT !.at = @ + 1, !.failed = TRUE] /\ fault' = "file"
  /\ UNCHANGED disk /\ WriteFrame
WriterPrints(what) ==
  /\ Wrote(what, "print") /\ wr.at < Len(Prints) /\ ~wr.failed
  /\ \/ wr' = [wr EXCEPT !.at = @ + 1, !.out = Append(@, Prints[wr.at + 1])] /\ UNCHANGED fault
     \/ wr' = [wr EXCEPT !.failed = TRUE] /\ fault' = "file"
  /\ UNCHANGED disk /\ WriteFrame

(* gk_finish_output_file: of a complete file, if closing it and renaming   *)
(* it succeed, the new content.                                            *)
WriterFinishes(what) ==
  /\ Wrote(what, "print") /\ (wr.failed \/ wr.at = Len(Prints))
  /\ \/ /\ wr' = [wr EXCEPT !.pc = "done", !.sig = "SIGERR"]
        /\ fault' = "file" /\ UNCHANGED disk
     \/ /\ ~wr.failed
        /\ wr' = [wr EXCEPT !.pc = "written"]
        /\ disk' = FileOf(wr.out) /\ UNCHANGED fault
  /\ WriteFrame
Writes(what) == WriterOpens(what) \/ WriterPrints(what) \/ WriterFinishes(what)

gk_csr_Write == Writes("csrwrite")
gk_graph_Write == Writes("graphwrite")
gk_writefilebin_impl(elem) == wr.call.what = "binwrite" /\ wr.call.elem = elem /\ Writes("binwrite")
gk_cwritefilebin == gk_writefilebin_impl("c")
gk_i32writefilebin == gk_writefilebin_impl("i32")
gk_i64writefilebin == gk_writefilebin_impl("i64")
gk_zwritefilebin == gk_writefilebin_impl("z")
gk_fwritefilebin == gk_writefilebin_impl("f")
gk_dwritefilebin == gk_writefilebin_impl("d")

(* The program reads what it wrote.                                        *)
ReadBack ==
  /\ wr.pc = "written"
  /\ wr' = [wr EXCEPT !.pc = "done"] /\ rd' = Reading(wr.call.back)
  /\ UNCHANGED <<disk, heap, stream, fault>>

-----------------------------------------------------------------------------
(***************************************************************************)
(* A program that reads a file, or writes one and reads it back, with the  *)
(* functions of csr.c, graph.c, io.c and seq.c, any step of which may fail *)
(* for want of memory or because a call on the stream does.                *)
(***************************************************************************)

CONSTANTS
  ReadCalls,    \* pairs of a call and the file it is made on
  WriteCalls    \* what may be written

ASSUME Width < SizeMax

(* A file has no more lines than memory can hold; numbers are integers.    *)
LineReaders == {"lines", "i32", "i64", "z"}
ASSUME ReadCallsMeant ==
  \A c \in ReadCalls :
    /\ c.call.what \in LineReaders \cup {"seq"} /\ c.disk # Missing => Len(c.disk.lines) \in 0 .. SizeMax
    /\ c.call.what = "bin" /\ c.disk # Missing => c.disk.items \in Seq(Int)
    /\ c.call.what = "getline" => c.call.cap \in Nat
ASSUME WriteCallsMeant ==
  \A c \in WriteCalls :
    IF c.what = "binwrite" THEN c.back.what = "bin" /\ c.of \in Seq(Int)
    ELSE c.back.what \in {"csr", "graph"}

formatVars == <<disk, rd, heap, stream, fault, wr>>

Init ==
  /\ heap = {} /\ stream = "closed" /\ fault = "none"
  /\ \/ \E c \in ReadCalls : rd = Reading(c.call) /\ disk = c.disk /\ wr = NoWriting
     \/ \E c \in WriteCalls : wr = Writing(c) /\ rd = Reading([what |-> "none"]) /\ disk = Missing

gk_csr_Read ==
  \/ CSROpen \/ CSRHeader \/ CSRAllocate \/ CSRRow \/ CSRTail \/ CSRClose
  \/ IJVOpen \/ IJVRecord \/ IJVEnd \/ IJVBuild
  \/ BinaryOpen \/ BinarySizes \/ BinaryPointers \/ BinaryIndices \/ BinaryValues \/ BinaryEnd
  \/ BIJVOpen \/ BIJVSizes \/ BIJVTriples \/ BIJVEnd \/ BIJVBuild
gk_graph_Read ==
  \/ GraphOpen \/ GraphHeader \/ GraphAllocate \/ GraphRow \/ GraphTail
  \/ TriplesOpen \/ TriplesHeader \/ TriplesRecord \/ TriplesEnd \/ TriplesBuild

(* The program frees a graph that it read: what it has, then the graph.    *)
gk_graph_FreeContents == Object \ {"mat"}
gk_graph_Free ==
  /\ At("graph", "done") /\ HasResult
  /\ rd' = [rd EXCEPT !.pc = "freed"] /\ heap' = (heap \ gk_graph_FreeContents) \ {"mat"}
  /\ UNCHANGED <<disk, stream, fault>>

Read ==
  /\ UNCHANGED wr
  /\ \/ gk_csr_Read \/ gk_graph_Read \/ gk_graph_Free
     \/ gk_readfile \/ gk_i32readfile \/ gk_i64readfile \/ gk_zreadfile
     \/ gk_creadfilebin \/ gk_i32readfilebin \/ gk_i64readfilebin
     \/ gk_zreadfilebin \/ gk_freadfilebin \/ gk_dreadfilebin
     \/ gk_getline_fallback
     \/ gk_i2cc2i_create_common \/ gk_seq_init \/ gk_seq_ReadGKMODPSSM \/ gk_seq_free
Write ==
  \/ gk_csr_Write \/ gk_graph_Write
  \/ gk_cwritefilebin \/ gk_i32writefilebin \/ gk_i64writefilebin
  \/ gk_zwritefilebin \/ gk_fwritefilebin \/ gk_dwritefilebin
  \/ ReadBack
Next == Read \/ Write
Spec == Init /\ [][Next]_formatVars

-----------------------------------------------------------------------------
(* The rows of a matrix as it was read.                                    *)
LinesOf(r) == IF r.byrow THEN r.nrows ELSE r.ncols
RowEntries(view, i) ==
  [e \in 1 .. view.ptr[i] - view.ptr[i - 1] |->
     LET p == view.ptr[i - 1] + e - 1
     IN <<view.ind[p], IF view.val = NULL THEN NULL ELSE view.val[p]>>]
RowsRead(r) == [i \in 1 .. LinesOf(r) |-> RowEntries(r.view, i)]
LabelsRead(r) == IF r.lab = <<>> THEN [i \in 1 .. LinesOf(r) |-> <<>>] ELSE r.lab

Matrixwise == rd.call.what \in {"csr", "graph"}
M == INSTANCE FileMeaning WITH
  request <- rd.call, file <- disk, trouble <- fault, Residues <- Width,
  outcome <-
    IF rd.pc \notin {"done", "freed"} THEN [sig |-> "pending"]
    ELSE IF rd.sig # "none" THEN [sig |-> rd.sig]
    ELSE IF rd.call.what = "getline" /\ fault # "none" THEN [sig |-> IF fault = "memory" THEN "SIGMEM" ELSE "SIGERR"]
    ELSE IF ~HasResult THEN [sig |-> "none", items |-> <<>>]
    ELSE IF Matrixwise
         THEN [sig |-> "none", n |-> rd.ret.nrows, m |-> rd.ret.ncols, rows |-> RowsRead(rd.ret), labels |-> LabelsRead(rd.ret)]
         ELSE [sig |-> "none", items |-> rd.ret.items]

(* What the caller gets is what the file says, read by position and as a   *)
(* whole, or an error and nothing, with SIGMEM for want of memory and for  *)
(* sizes out of range and SIGERR for any other: scanning word by word,     *)
(* growing arrays, checking ranges and counting sort of triples do not add,*)
(* lose, reorder or misplace an entry (csr.c:1166, graph.c:387, io.c:285,  *)
(* seq.c:260).                                                             *)
MeaningSpec == M!Spec

(* When a call has ended its stream is closed and the memory that is left  *)
(* is that of its result; a call that raised leaves none, whichever step   *)
(* failed, for the raise may not return (csr.c:653, graph.c:84, seq.c:385).*)
ResultBlocks ==
  IF rd.call.what = "getline" THEN {"line"}
  ELSE IF ~HasResult THEN {}
  ELSE IF Matrixwise
       THEN {"mat", "ptr", "ind"} \cup (IF rd.ret.vals THEN {"val"} ELSE {})
              \cup (IF rd.head.sizes THEN {"sizes"} ELSE {}) \cup (IF rd.head.wgts THEN {"wgts"} ELSE {})
  ELSE IF rd.call.what = "lines" THEN {"array"} \cup Numbered("line", Len(rd.ret.items))
  ELSE IF rd.call.what = "seq"
       THEN {"seq", "name"} \cup Numbered("pssm", Len(rd.ret.items)) \cup Numbered("psfm", Len(rd.ret.items))
              \cup (IF rd.ret.items # <<>> THEN {"sequence", "pssm", "psfm"} ELSE {})
  ELSE {"array"}
NothingLeaked ==
  /\ rd.pc = "done" => stream = "closed" /\ (rd.call.what # "getline" => heap = ResultBlocks)
  /\ rd.pc = "freed" => heap = {}
  /\ rd.sig # "none" => ~HasResult

(* No array is written past what it was allocated for: entries, rows, the  *)
(* bytes of a line with its terminator, at every growth (csr.c:1659,       *)
(* io.c:171, io_internal.h:73, seq.c:185).                                 *)
WithinCapacity ==
  /\ rd.call.what = "getline" /\ rd.pc \in {"bytes", "line", "done"} /\ "line" \in heap => Len(rd.ents) < rd.cap
  /\ rd.call.what # "getline" => Len(rd.ents) <= rd.cap
  /\ rd.call.what = "csr" /\ rd.call.fmt \in RowFormats => RowCount <= rd.rows

(* A write is all or nothing: the file is as it was, or has every print,   *)
(* and what is read back then is what was written, for the parts that the  *)
(* format has (csr.c:2059, graph.c:1081, io.c:713).                        *)
Kept(of, call) ==
  LET byrow == call.fmt # "BINCOL"
      view == IF byrow THEN of.row ELSE of.col
      lines == IF byrow THEN of.nrows ELSE of.ncols
      rows == [i \in 1 .. lines |-> RowEntries(view, i)]
      dropped == call.vals = 0 /\ call.fmt \notin {"METIS", "CLUTO"}
      unit == \/ call.fmt = "METIS" /\ call.what = "csrwrite"
              \/ call.fmt = "IJV" /\ call.what = "graphwrite" /\ of.row.val = NULL
      value(v) == IF unit THEN 10 ELSE IF dropped /\ call.fmt = "CSR" THEN Garbage ELSE IF dropped THEN NULL ELSE v
  IN [i \in 1 .. lines |-> [e \in DOMAIN rows[i] |->
        <<rows[i][e][1], IF call.what = "graphwrite" /\ ~unit THEN rows[i][e][2] ELSE value(rows[i][e][2])>>]]
SameRows(fmt, rows, read) ==
  IF fmt = "IJV" THEN /\ Len(read) <= Len(rows) /\ SubSeq(rows, 1, Len(read)) = read
                      /\ \A i \in Len(read) + 1 .. Len(rows) : rows[i] = <<>>
  ELSE rows = read
ReadsBack ==
  wr.call.what # "none" /\ rd.call.what # "none" /\ rd.pc = "done" /\ fault = "none" =>
    IF ~HasResult THEN wr.call.what \in {"csrwrite", "graphwrite"} /\ wr.call.fmt = "IJV" /\ disk.lines = <<>>
    ELSE IF wr.call.what = "binwrite" THEN rd.ret.items = wr.call.of
    ELSE SameRows(wr.call.fmt, Kept(wr.call.of, wr.call), RowsRead(rd.ret))
RoundTrip ==
  /\ disk = Missing \/ wr = NoWriting \/ (disk = FileOf(Prints) /\ ~wr.failed)
  /\ ReadsBack
=============================================================================
