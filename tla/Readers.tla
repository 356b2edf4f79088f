------------------------------- MODULE Readers ------------------------------
(***************************************************************************)
(* One call of a function that reads a file, as those of csr.c, graph.c,   *)
(* io.c and seq.c do it: the file is opened and read line by line or part  *)
(* by part, arrays grow with what is read, and on a failure the stream is  *)
(* closed, what was allocated is released, and only then an error is       *)
(* raised, for raising may not come back. This module has the activation   *)
(* record, what the steps have in common, and the calls outside the        *)
(* library, each of which may fail.                                        *)
(***************************************************************************)
EXTENDS TextFile, SparseView, TLC

CONSTANTS FirstCap      \* entries an array is first made for (16 in the code)

ASSUME FirstCapPositive == FirstCap \in Nat \ {0}

VARIABLES
  disk,     \* the file: Missing, lines of words, or numbers, odd if bytes follow the last one
  rd,       \* the activation record of the reader
  heap,     \* the blocks that are allocated
  stream,   \* "closed", or "open"
  fault     \* (history) what failed outside the reader: "none", "memory" or "file"

readerVars == <<disk, rd, heap, stream, fault>>

Missing == [kind |-> "missing"]
Text(lines) == [kind |-> "text", lines |-> lines]
Binary(items, odd) == [kind |-> "binary", items |-> items, odd |-> odd]

(***************************************************************************)
(* The record: the call, where it is, the lines or numbers taken, the      *)
(* header, the arrays so far with the capacity each was allocated for, and *)
(* at the end what it returned, if anything, and the signal it raised.     *)
(***************************************************************************)
Nothing == [what |-> "none"]
HasResult == rd.ret.what # "none"
NoHeader == [nrows |-> 0, ncols |-> 0, nnz |-> 0, sizes |-> FALSE, wgts |-> FALSE, vals |-> FALSE]
Reading(call) ==
  [call |-> call, pc |-> "open", at |-> 0, head |-> NoHeader,
   ptr |-> <<0>>, lab |-> <<>>, ents |-> <<>>, rows |-> 0, cap |-> 0,
   ret |-> Nothing, sig |-> "none"]

At(what, pc) == rd.call.what = what /\ rd.pc = pc
AtFormat(what, fmts, pc) == At(what, pc) /\ rd.call.fmt \in fmts
Frame == UNCHANGED disk

(* The end of a call: by its result, or with an error. The path that       *)
(* detects it, when also the blocks got are held, releases those in freed, *)
(* closes the stream and then raises.                                      *)
Return(result, freed) ==
  /\ rd' = [rd EXCEPT !.pc = "done", !.ret = result]
  /\ heap' = heap \ freed
  /\ UNCHANGED <<disk, stream, fault>>
Raise(got, freed, sig) ==
  /\ rd' = [rd EXCEPT !.pc = "done", !.sig = sig]
  /\ heap' = (heap \cup got) \ freed /\ stream' = "closed"
  /\ Frame
RefuseHolding(got, freed, sig) == Raise(got, freed, sig) /\ UNCHANGED fault
Refuse(freed, sig) == RefuseHolding({}, freed, sig)
BrokenHolding(what, got, freed) ==
  /\ fault' = what
  /\ Raise(got, freed, IF what = "memory" THEN "SIGMEM" ELSE "SIGERR")
Broken(what, freed) == BrokenHolding(what, {}, freed)

(* malloc or realloc of one of the blocks wanted fails, those before it are*)
(* held then.                                                              *)
Order == <<"i2c", "c2i", "conv", "header", "seq", "name", "mat", "ptr", "ind", "val", "sizes", "wgts", "i", "j", "v",
           "array", "sequence", "pssm", "psfm">>
Rank(b) == CHOOSE k \in DOMAIN Order : Order[k] = b
OutOfMemory(wanted, freed) ==
  \E b \in wanted : BrokenHolding("memory", {c \in wanted : Rank(c) < Rank(b)}, freed)

(* The reader goes on, holding also the blocks got.                        *)
Goes(next, got) ==
  /\ rd' = next /\ heap' = heap \cup got
  /\ UNCHANGED <<disk, stream, fault>>

-----------------------------------------------------------------------------
(* fopen: a file that is not there, or no memory for a stream.             *)
CanOpen == disk # Missing
Opened(next) ==
  /\ CanOpen
  /\ rd' = next /\ stream' = "open"
  /\ UNCHANGED <<disk, heap, fault>>
CannotOpen(freed) ==
  \/ ~CanOpen /\ Refuse(freed, "SIGERR")
  \/ \E what \in {"memory", "file"} : Broken(what, freed)
gk_fopen(next) == Opened(next) \/ CannotOpen({})

(* gk_getline: the next line is there, its buffer was allocated by the     *)
(* first call; or there is none; or it fails.                              *)
HasLine == rd.at < Len(disk.lines)
NextLine == disk.lines[rd.at + 1]
AtEnd == rd.at = Len(disk.lines)
gk_getline == {"line"}
LineFails(memory, file) ==
  \/ Broken("memory", memory)
  \/ Broken("file", file)

(* Capacities double from FirstCap until they hold what is needed.         *)
Grown(cap, first, needed) ==
  IF needed <= cap THEN cap
  ELSE LET from == IF cap = 0 THEN first ELSE cap
           double[k \in Nat] == IF k = 0 THEN from ELSE 2 * double[k - 1]
       IN double[CHOOSE k \in 0 .. needed : double[k] >= needed /\ \A j \in 0 .. k - 1 : double[j] < needed]
gk_grow_read_buffer(cap, needed) == Grown(cap, FirstCap, needed)

(* fclose: the stream is closed also when it reports an error.             *)
Closes(next, freed) ==
  /\ rd' = next /\ heap' = heap \ freed /\ stream' = "closed"
  /\ UNCHANGED <<disk, fault>>

-----------------------------------------------------------------------------
(* The blocks of a matrix or graph, by what it has, and of its triples.    *)
Blocks(vals, sizes, wgts) ==
  {"mat", "ptr", "ind"} \cup (IF vals THEN {"val"} ELSE {})
    \cup (IF sizes THEN {"sizes"} ELSE {}) \cup (IF wgts THEN {"wgts"} ELSE {})
Object == Blocks(TRUE, TRUE, TRUE)
Triples == {"i", "j", "v"}
TripleBlocks(vals) == {"i", "j"} \cup (IF vals THEN {"v"} ELSE {})

(* What a header comes to: the error it is refused with, or its numbers.   *)
Unusable(sig) == [sig |-> sig, head |-> NoHeader]
Usable(head) == [sig |-> "none", head |-> head]
METISDigits(ws) ==
  LET fmt == IF Len(ws) > 2 THEN ws[3].n ELSE 0
      wgts == (fmt \div 10) % 10 = 1
  IN IF ~Digits(fmt) \/ (Len(ws) = 4 /\ (ws[4].n # 1 \/ ~wgts)) THEN Unusable("SIGERR")
     ELSE Usable([nrows |-> ws[1].n, ncols |-> ws[1].n, nnz |-> 2 * ws[2].n,
                  sizes |-> fmt >= 100, wgts |-> wgts, vals |-> fmt % 10 = 1])

(* A view from the arrays of a reader: entries <<index, value>>.           *)
ViewOf(ptr, ents, vals) ==
  [ptr |-> [i \in First(Len(ptr)) |-> ptr[i + 1]],
   ind |-> [p \in First(Len(ents)) |-> ents[p + 1][1]],
   val |-> IF vals THEN [p \in First(Len(ents)) |-> ents[p + 1][2]] ELSE NULL]
Result(what, nrows, ncols, byrow, vals, view, lab) ==     \* vals: there is an array of values
  [what |-> what, nrows |-> nrows, ncols |-> ncols, byrow |-> byrow, vals |-> vals, view |-> view, lab |-> lab]

(* Triples <<i, j, value>> to the view of n lines, by counting.            *)
Compressed(n, ents, vals) ==
  Regroup(n, First(Len(ents)), [p \in First(Len(ents)) |-> ents[p + 1][1]],
          [p \in First(Len(ents)) |-> ents[p + 1][2]],
          IF vals THEN [p \in First(Len(ents)) |-> ents[p + 1][3]] ELSE NULL)

(***************************************************************************)
(* The entries of a row: an index and, with values, a value, until no      *)
(* integer follows. It stops at what it refuses; room is the entries that  *)
(* the header leaves, limit the first index too large, shift 1 or 0.       *)
(***************************************************************************)
EntryFits(f, s) ==
  LET ind == IntAt(s.rest) - f.shift
      after == AfterInt(s.rest)
  IN /\ InRange(IntAt(s.rest)) /\ ind >= 0 /\ ind < f.limit
     /\ Len(s.ents) < f.room
     /\ f.vals => /\ StartsNumber(after, f.float) /\ NumberFits(after, f.float)
                  /\ f.positive => NumberAt(after, f.float) > 0
Entry(f, s) ==
  LET after == AfterInt(s.rest)
  IN [s EXCEPT
       !.ents = Append(@, <<IntAt(s.rest) - f.shift, IF f.vals THEN NumberAt(after, f.float) ELSE f.default>>),
       !.rest = IF f.vals THEN AfterNumber(after, f.float) ELSE after]
RowOf(f, ws) ==
  LET more(s) == StartsInt(s.rest) /\ EntryFits(f, s)
      scan[t \in Nat] ==
        IF t = 0 THEN [rest |-> ws, ents |-> <<>>]
        ELSE LET s == scan[t - 1] IN IF more(s) THEN Entry(f, s) ELSE s
  IN scan[CHOOSE t \in 0 .. f.room : ~more(scan[t])]

(* The numbers, none negative, that begin a row: a size, a weight or both. *)
LabelFits(ws, n, float) ==
  LET one(w) == StartsNumber(w, float) /\ NumberFits(w, float) /\ NumberAt(w, float) >= 0
  IN n > 0 => one(ws) /\ (n > 1 => one(AfterNumber(ws, float)))
LabelOf(ws, n, float) ==
  IF n = 0 THEN <<>>
  ELSE IF n = 1 THEN <<NumberAt(ws, float)>>
  ELSE <<NumberAt(ws, float), NumberAt(AfterNumber(ws, float), float)>>
AfterLabel(ws, n, float) ==
  IF n = 0 THEN ws
  ELSE IF n = 1 THEN AfterNumber(ws, float)
  ELSE AfterNumber(AfterNumber(ws, float), float)

-----------------------------------------------------------------------------
(***************************************************************************)
(* The readers of io.c, of lines, of integers one to a line and of binary  *)
(* arrays, the getline of io_internal.h, and the reader of sequences of    *)
(* seq.c. call.what names the function, for a binary file its element.     *)
(***************************************************************************)

CONSTANTS
  FirstLine,    \* bound: bytes a line is first made for (1024 in the code), 2 or more
  Width         \* bound: residues, and so columns of a scoring matrix (20 in the code)

ASSUME ReaderWidths == FirstLine \in Nat /\ FirstLine > 1 /\ Width \in Nat \ {0}

Numbered(name, n) == {name \o ToString(k) : k \in 1 .. n}    \* the blocks name1, name2, ...

(* These are other blocks than those that have a name of their own.        *)
ASSUME NumberedApart ==
  \A name \in {"line", "pssm", "psfm"}, k \in 1 .. SizeMax :
    name \o ToString(k) \notin {"line"} \cup {Order[i] : i \in DOMAIN Order}

(***************************************************************************)
(* Text: an array of lines, each a block of its own, or of integers. There *)
(* is one failure path; it releases the lines that were read, the array    *)
(* and the buffer of gk_getline.                                           *)
(***************************************************************************)
Lowest(what) == IF what = "i32" THEN Int32Min ELSE -SizeMax - 1
Highest(what) == IF what = "i32" THEN Int32Max ELSE SizeMax
Accepts(what, line) ==
  ~HasNul(line) /\ (what = "lines" \/ gk_parse_integer_line(line.words, Lowest(what), Highest(what)))
Taking(what, line) == IF what = "lines" THEN line ELSE IntAt(line.words)
LineBlock(what) == IF what = "lines" THEN {"line" \o ToString(Len(rd.ents) + 1)} ELSE {}
Held == {"line", "array"} \cup Numbered("line", Len(rd.ents))

Element(what) ==
  /\ At(what, "lines") /\ HasLine
  /\ LET full == Len(rd.ents) = rd.cap
     IN IF ~Accepts(what, NextLine) THEN Refuse(Held, "SIGERR")
        ELSE \/ full /\ BrokenHolding("memory", {"line"}, Held)
             \/ LineBlock(what) # {} /\ BrokenHolding("memory", {"line", "array"}, Held)
             \/ Goes([rd EXCEPT !.at = @ + 1, !.ents = Append(@, Taking(what, NextLine)),
                                !.cap = gk_grow_read_buffer(@, Len(rd.ents) + 1)],
                     {"line", "array"} \cup LineBlock(what))

(* The end: of a file without lines the result is an array, too.           *)
Array == [what |-> rd.call.what, items |-> rd.ents]
gk_empty_read_result(what) ==
  /\ At(what, "empty")
  /\ \/ OutOfMemory({"array"}, {})
     \/ /\ rd' = [rd EXCEPT !.pc = "done", !.ret = Array]
        /\ heap' = heap \cup {"array"} /\ UNCHANGED <<disk, stream, fault>>
Elements(what) ==
  \/ At(what, "open") /\ gk_fopen([rd EXCEPT !.pc = "lines"])
  \/ At(what, "lines") /\ LineFails(Held, Held)
  \/ Element(what)
  \/ /\ At(what, "lines") /\ AtEnd
     /\ \/ Broken("file", Held)
        \/ rd.ents # <<>> /\ Closes([rd EXCEPT !.pc = "done", !.ret = Array], {"line"})
        \/ rd.ents = <<>> /\ Closes([rd EXCEPT !.pc = "empty"], {"line"})
  \/ gk_empty_read_result(what)

gk_readfile == Elements("lines")
gk_i32readfile == Elements("i32")
gk_i64readfile == Elements("i64")
gk_zreadfile == Elements("z")

-----------------------------------------------------------------------------
(* Binary: the size of the open stream makes the array, which must be read *)
(* in full and end the file. call.elem is the type.                        *)
Bytes == [what |-> "bin", items |-> disk.items]
gk_readfilebin_impl(elem) ==
  /\ rd.call.what = "bin" /\ rd.call.elem = elem
  /\ \/ At("bin", "open") /\ CanOpen /\ Opened([rd EXCEPT !.pc = "size"])
     \/ At("bin", "open") /\ CannotOpen({})
     \/ At("bin", "size") /\ Broken("file", {})
     \/ At("bin", "size") /\ disk.odd /\ Refuse({}, "SIGERR")
     \/ At("bin", "size") /\ ~disk.odd /\ OutOfMemory({"array"}, {"array"})
     \/ At("bin", "size") /\ ~disk.odd
          /\ Goes([rd EXCEPT !.pc = "read", !.cap = Len(disk.items)], {"array"})
     \/ At("bin", "read") /\ Broken("file", {"array"})
     \/ At("bin", "read") /\ Closes([rd EXCEPT !.pc = "done", !.ents = disk.items, !.ret = Bytes], {})

gk_creadfilebin == gk_readfilebin_impl("c")
gk_i32readfilebin == gk_readfilebin_impl("i32")
gk_i64readfilebin == gk_readfilebin_impl("i64")
gk_zreadfilebin == gk_readfilebin_impl("z")
gk_freadfilebin == gk_readfilebin_impl("f")
gk_dreadfilebin == gk_readfilebin_impl("d")

-----------------------------------------------------------------------------
(* gk_getline_fallback, one call, byte by byte; 0 is the newline. rd.cap is*)
(* *n, rd.ents the bytes stored; what the buffer held first is call.cap,   *)
(* and 0 when there was none. The buffer stays the caller's on a failure.  *)
Lined == [what |-> "getline", items |-> rd.ents]
LineStops(ret) ==
  /\ rd' = [rd EXCEPT !.pc = "done", !.ret = ret] /\ stream' = "closed"
  /\ UNCHANGED <<disk, heap, fault>>
GetlineFails(what) ==
  /\ fault' = what /\ rd' = [rd EXCEPT !.pc = "done"] /\ stream' = "closed"
  /\ UNCHANGED <<disk, heap>>
GetlineBuffer ==
  /\ At("getline", "open")
  /\ \/ rd.call.cap = 0 /\ GetlineFails("memory")
     \/ /\ rd' = [rd EXCEPT !.pc = "bytes", !.cap = IF rd.call.cap = 0 THEN FirstLine ELSE rd.call.cap]
        /\ heap' = heap \cup {"line"} /\ stream' = "open" /\ UNCHANGED <<disk, fault>>
Room == Len(rd.ents) < rd.cap - 1
GetlineByte ==
  /\ At("getline", "bytes") /\ rd.at < Len(disk.items)
  /\ LET byte == disk.items[rd.at + 1]
     IN \/ ~Room /\ GetlineFails("memory")     \* always, if the capacity cannot be doubled
        \/ /\ Room \/ 2 * rd.cap <= SizeMax
           /\ Goes([rd EXCEPT !.at = @ + 1, !.ents = Append(@, byte), !.cap = IF Room THEN @ ELSE 2 * @,
                              !.pc = IF byte = 0 THEN "line" ELSE @], {})
GetlineEnd ==
  \/ At("getline", "bytes") /\ rd.at = Len(disk.items) /\ GetlineFails("file")
  \/ At("getline", "bytes") /\ rd.at = Len(disk.items) /\ LineStops(IF rd.ents = <<>> THEN Nothing ELSE Lined)
  \/ At("getline", "line") /\ LineStops(Lined)
gk_getline_fallback == GetlineBuffer \/ GetlineByte \/ GetlineEnd

-----------------------------------------------------------------------------
(***************************************************************************)
(* gk_seq_ReadGKMODPSSM. The residues are 0 .. Width-1; the other letters  *)
(* of the alphabet, which a row may have but the header may not, are those *)
(* from Width up. Each row takes two blocks, which the sequence has when   *)
(* the whole row is read.                                                  *)
(***************************************************************************)
SeqCommon == {"i2c", "c2i", "conv", "header", "seq", "name"}
SeqArrays == {"sequence", "pssm", "psfm"}
SeqRows == Numbered("pssm", Len(rd.ents)) \cup Numbered("psfm", Len(rd.ents))
ThisRow == {"pssm" \o ToString(Len(rd.ents) + 1), "psfm" \o ToString(Len(rd.ents) + 1)}
SeqAll == {"line"} \cup SeqCommon \cup SeqArrays \cup SeqRows \cup ThisRow
SeqRefused(got) == RefuseHolding(got, SeqAll, "SIGERR")

gk_i2cc2i_create_common ==
  /\ At("seq", "open")
  /\ LET table == {"i2c", "c2i", "conv"}
     IN OutOfMemory(table, table) \/ Goes([rd EXCEPT !.pc = "create"], table)
gk_seq_init ==
  /\ At("seq", "create")
  /\ LET wanted == {"header", "seq", "name"}
     IN OutOfMemory(wanted, SeqAll) \/ Goes([rd EXCEPT !.pc = "file"], wanted)
(* gk_fopen raises with all of this held: either the handler's region has  *)
(* it released, or gk_fopen returns and the failure path releases it.      *)
SeqOpen ==
  At("seq", "file") /\ (Opened([rd EXCEPT !.pc = "header"]) \/ CannotOpen(SeqAll))

gk_seq_getline == HasLine /\ ~HasNul(NextLine)
HeaderFits(ws) ==
  /\ Len(ws) = Width
  /\ \A i \in DOMAIN ws : ws[i].k = "sym" /\ ws[i].n < Width
  /\ \A i, j \in DOMAIN ws : ws[i] = ws[j] => i = j
SeqHeader ==
  /\ At("seq", "header")
  /\ \/ LineFails(SeqAll, SeqAll)
     \/ ~gk_seq_getline /\ SeqRefused({"line"})
     \/ /\ gk_seq_getline
        /\ IF HeaderFits(NextLine.words)
           THEN Goes([rd EXCEPT !.pc = "rows", !.at = @ + 1,
                                !.lab = [i \in 1 .. Width |-> NextLine.words[i].n]], {"line"})
           ELSE SeqRefused({"line"})

(* The three arrays grow together: the old ones are released when the new  *)
(* ones are filled.                                                        *)
gk_seq_grow == Grown(rd.cap, FirstCap, Len(rd.ents) + 1)
RowBegins(ws) == gk_seq_parse_int(ws) /\ Len(ws) > 1 /\ ws[2].k = "sym"
RowFits(ws) ==
  /\ Len(ws) = 2 + 2 * Width
  /\ \A i \in 3 .. 2 + 2 * Width : gk_seq_parse_int(<<ws[i]>>)
(* Column i is the residue lab[i].                                         *)
BugRow(ws, from) == [s \in First(Width) |-> IntAt(<<ws[from + s + 1]>>)]
Row(ws, from) ==
  LET upto[k \in 0 .. Width] ==
        IF k = 0 THEN [s \in First(Width) |-> 0]
        ELSE [upto[k - 1] EXCEPT ![rd.lab[k]] = IntAt(<<ws[from + k]>>)]
  IN upto[Width]
SeqRow ==
  /\ At("seq", "rows") /\ HasLine
  /\ IF HasNul(NextLine) THEN SeqRefused({})
     ELSE LET ws == NextLine.words
              full == Len(rd.ents) = rd.cap
          IN IF ~RowBegins(ws) THEN SeqRefused({})
             ELSE \/ full /\ OutOfMemory(SeqArrays, SeqAll)
                  \/ BrokenHolding("memory", SeqArrays, SeqAll)
                  \/ ~RowFits(ws) /\ SeqRefused(SeqArrays \cup ThisRow)
                  \/ RowFits(ws) /\ Goes([rd EXCEPT
                       !.at = @ + 1, !.cap = gk_seq_grow,
                       !.ents = Append(@, [sym |-> ws[2].n, pssm |-> Row(ws, 2), psfm |-> Row(ws, 2 + Width)])],
                       SeqArrays \cup ThisRow)
SeqEnd ==
  /\ At("seq", "rows")
  /\ \/ LineFails(SeqAll, SeqAll)
     \/ AtEnd /\ Broken("file", SeqAll)
     \/ AtEnd /\ Closes([rd EXCEPT !.pc = "done", !.ret = [what |-> "seq", items |-> rd.ents]],
                        {"line", "header", "i2c", "c2i", "conv"})
gk_seq_ReadGKMODPSSM == SeqOpen \/ SeqHeader \/ SeqRow \/ SeqEnd

(* gk_seq_free, of the sequence that was returned.                         *)
gk_seq_free ==
  /\ At("seq", "done") /\ HasResult
  /\ rd' = [rd EXCEPT !.pc = "freed"] /\ heap' = heap \ ({"seq", "name"} \cup SeqArrays \cup SeqRows)
  /\ UNCHANGED <<disk, stream, fault>>
=============================================================================
