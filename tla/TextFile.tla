------------------------------ MODULE TextFile ------------------------------
(***************************************************************************)
(* The words of a text file and how the readers of csr.c, graph.c, io.c    *)
(* and seq.c take numbers from them. Words are what blanks separate. A     *)
(* value is counted in tenths, so that decimals are numbers too; strtol    *)
(* takes the integer that begins a decimal and leaves its fraction.        *)
(***************************************************************************)
EXTENDS Integers, Sequences

CONSTANTS
  Int32Max,     \* bound: INT32_MAX, small
  SizeMax       \* bound: PTRDIFF_MAX and SIZE_MAX, small

ASSUME WordConstants == Int32Max \in Nat /\ SizeMax \in Nat /\ Int32Max < SizeMax

Infinite == 10 * SizeMax              \* what isfinite refuses
Int32Min == -Int32Max - 1
Finite(t) == t < Infinite

Num(n) == [k |-> "int", n |-> n]      \* an integer
Dec(t) == [k |-> "dec", n |-> t]      \* a decimal of t tenths
Frac(t) == [k |-> "frac", n |-> t]    \* what strtol leaves of one
Sym(s) == [k |-> "sym", n |-> s]      \* one letter, the s-th of the residues
Bad == [k |-> "bad", n |-> 0]         \* no number, nor a letter

(* A line: nul holds a zero byte; a comment begins with %, after a blank if*)
(* it is indented.                                                         *)
Line(words) == [lead |-> "", words |-> words]
Comment == [lead |-> "%", words |-> <<Bad>>]
Indented == [lead |-> " %", words |-> <<Bad>>]
Nul == [lead |-> "nul", words |-> <<>>]
HasNul(line) == line.lead = "nul"
IsComment(line) == line.lead = "%"
(* The loops that skip blanks first see comments in any column.            *)
IsBlank(line) == line.words = <<>> \/ line.lead \in {"%", " %"}

(* strtol and strtof, and the words they leave.                            *)
StartsInt(ws) == ws # <<>> /\ Head(ws).k \in {"int", "dec"}
IntAt(ws) == IF Head(ws).k = "int" THEN Head(ws).n ELSE Head(ws).n \div 10
AfterInt(ws) == IF Head(ws).k = "int" THEN Tail(ws) ELSE <<Frac(Head(ws).n % 10)>> \o Tail(ws)
StartsFloat(ws) == ws # <<>> /\ Head(ws).k \in {"int", "dec", "frac"}
FloatAt(ws) == IF Head(ws).k = "int" THEN 10 * Head(ws).n ELSE Head(ws).n
InRange(n) == n >= Int32Min /\ n <= Int32Max

(* A number of either kind, in tenths, as the weights of a graph are read. *)
StartsNumber(ws, float) == IF float THEN StartsFloat(ws) ELSE StartsInt(ws)
NumberAt(ws, float) == IF float THEN FloatAt(ws) ELSE 10 * IntAt(ws)
AfterNumber(ws, float) == IF float THEN Tail(ws) ELSE AfterInt(ws)
NumberFits(ws, float) == IF float THEN Finite(FloatAt(ws)) ELSE InRange(IntAt(ws))

(* Whole fields, and the end of a record.                                  *)
FieldI32(word) == word.k = "int" /\ InRange(word.n)
FieldFloat(word) == word.k \in {"int", "dec", "frac"} /\ Finite(FloatAt(<<word>>))
gk_csr_ParseI32(ws) == ws # <<>> /\ FieldI32(Head(ws))
gk_graph_ParseI32(ws) == ws # <<>> /\ FieldI32(Head(ws))
gk_csr_ParseFloat(ws) == ws # <<>> /\ FieldFloat(Head(ws))
gk_graph_ParseFloat(ws) == ws # <<>> /\ FieldFloat(Head(ws))
gk_csr_EndRecord(ws) == ws = <<>>
gk_graph_EndRecord(ws) == ws = <<>>

(* A header of minimum to maximum sizes.                                   *)
Sizes(ws, minimum, maximum) ==
  /\ Len(ws) \in minimum .. maximum
  /\ \A i \in 1 .. Len(ws) : ws[i].k = "int" /\ ws[i].n \in 0 .. SizeMax
gk_csr_ParseHeader(ws, minimum, maximum) == Sizes(ws, minimum, maximum)
gk_graph_ParseHeader(ws) == Sizes(ws, 2, 4)

(* A line that is one integer; seq.c takes words one by one.               *)
gk_parse_integer_line(ws, minimum, maximum) ==
  Len(ws) = 1 /\ ws[1].k = "int" /\ ws[1].n >= minimum /\ ws[1].n <= maximum
gk_seq_next_token(ws) == IF ws = <<>> THEN ws ELSE Tail(ws)
gk_seq_parse_int(ws) == ws # <<>> /\ FieldI32(Head(ws))

(* METIS headers: the third field, the digits of the sizes, weights and    *)
(* values, which are 0 or 1.                                               *)
Digits(fmt) == fmt <= 111 /\ fmt % 10 <= 1 /\ (fmt \div 10) % 10 <= 1 /\ (fmt \div 100) % 10 <= 1
=============================================================================
