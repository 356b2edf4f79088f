---------------------------- MODULE FormatsProofs ----------------------------
(***************************************************************************)
(* Proofs about Formats, for files of any length and any content, every    *)
(* format, and any step of a call failing: a call that ended has released  *)
(* its stream and all but its result, and stored nothing past the end of   *)
(* an array.                                                               *)
(*                                                                         *)
(* A step of a reader may fail, and raising an error may not return, so    *)
(* each way out frees what may be held there. The invariant, FormatsInv,   *)
(* says what that is: for each reader and each place in it which blocks are*)
(* allocated (RowsAt, VerticesAt, TriplesAt, BinaryAt, BIJVAt, LinesAt,    *)
(* BinAt, GetlineAt, SeqAt), and that the entries found fit the arrays they*)
(* are in (Gathers). With it a way out that frees more than is held ends   *)
(* the call as promised (PathEnds); every other step goes on to a place    *)
(* whose statement it meets. Steps of different readers that are the same  *)
(* code are the same lemma: a failed allocation, a line that cannot be     *)
(* read, a refused file.                                                   *)
(*                                                                         *)
(* Arrays are grown by doubling and rows are scanned entry by entry, which *)
(* are recursive functions: that they exist and what they return is shown  *)
(* by induction, of a set of numbers with 0 and every successor            *)
(* (CountedUp). Nothing is assumed of the words of a file, only that it    *)
(* has no more lines than can be counted (ReadCallsMeant). A writer holds  *)
(* no block (Waiting) until the file is read back, which begins a reader.  *)
(***************************************************************************)
EXTENDS Formats, SequenceTheorems, WellFoundedInduction, TLAPS

-----------------------------------------------------------------------------
(* A sequence, of whatever.                                                *)
Listed(s) == s \in Seq({s[i] : i \in DOMAIN s})

Over == rd.pc \in {"done", "freed"}
Shape ==
  /\ DOMAIN rd = {"call", "pc", "at", "head", "ptr", "lab", "ents", "rows", "cap", "ret", "sig"}
  /\ DOMAIN rd.head = {"nrows", "ncols", "nnz", "sizes", "wgts", "vals"}
Quiet ==
  /\ rd.sig # "none" => ~HasResult
  /\ ~Over => rd.sig = "none" /\ rd.ret = Nothing

FileMeant ==
  /\ rd.call.what \in LineReaders \cup {"seq"} /\ disk # Missing => Len(disk.lines) \in 0 .. SizeMax
  /\ rd.call.what = "bin" /\ disk # Missing => disk.items \in Seq(Int)
  /\ rd.call.what = "getline" => rd.call.cap \in Nat
Starts == rd = Reading(rd.call) /\ heap = {} /\ stream = "closed" /\ FileMeant

(* The entries fit the arrays they are in.                                 *)
Gathers == Listed(rd.ents) /\ rd.cap \in Nat /\ Len(rd.ents) <= rd.cap
Unlabelled == ~rd.head.sizes /\ ~rd.head.wgts

(* The readers of rows.                                                    *)
RowsAt ==
  /\ rd.call.what = "csr" /\ rd.call.fmt \in RowFormats /\ Gathers
  /\ Listed(rd.ptr) /\ RowCount \in Nat /\ rd.rows \in Nat /\ RowCount <= rd.rows
  /\ rd.head.nrows \in Nat /\ rd.head.nnz \in Nat
  /\ \/ rd.pc \in {"header", "allocate"} /\ heap \subseteq {"line"} /\ rd.ents = <<>> /\ RowCount = 0
     \/ rd.pc \in {"rows", "close"} /\ heap \ {"line"} = Blocks(HasVals, rd.head.sizes, rd.head.wgts)
VerticesAt ==
  /\ rd.call.what = "graph" /\ rd.call.fmt = "METIS" /\ Gathers
  /\ rd.head.nnz \in Nat
  /\ \/ rd.pc \in {"header", "allocate"} /\ heap \subseteq {"line"} /\ rd.ents = <<>>
     \/ rd.pc = "rows" /\ heap \ {"line"} = Blocks(rd.head.vals, rd.head.sizes, rd.head.wgts)

(* The readers of triples.                                                 *)
TriplesAt ==
  /\ (rd.call.what = "csr" /\ rd.call.fmt = "IJV") \/ (rd.call.what = "graph" /\ rd.call.fmt \in TripleFormats)
  /\ Gathers /\ Unlabelled
  /\ \/ rd.pc = "header" /\ rd.call.what = "graph" /\ heap \subseteq {"line"}
     \/ rd.pc = "triples" /\ heap \subseteq {"line"} \cup Triples
     \/ rd.pc = "build" /\ heap \subseteq Triples /\ stream = "closed"

(* The readers of binary files.                                            *)
BinaryAt ==
  /\ rd.call.what = "csr" /\ rd.call.fmt \in BinaryFormats /\ Gathers /\ Unlabelled
  /\ \/ rd.pc = "sizes" /\ heap = {"mat"}
     \/ rd.pc = "pointers" /\ heap = {"mat"} /\ rd.at \in Nat /\ Dimension \in Nat
     \/ rd.pc = "indices" /\ heap = {"mat", "ptr"} /\ rd.at \in Nat /\ rd.head.nnz \in Nat
     \/ rd.pc = "values" /\ heap = {"mat", "ptr", "ind"} /\ rd.at \in Nat /\ rd.cap = rd.head.nnz /\ BinaryVals
     \/ rd.pc = "end" /\ heap = Blocks(BinaryVals, FALSE, FALSE)
BIJVAt ==
  /\ rd.call.what = "csr" /\ rd.call.fmt = "BIJV" /\ Gathers /\ Unlabelled
  /\ \/ rd.pc = "sizes" /\ heap = {"mat"}
     \/ rd.pc = "triples" /\ heap = {"mat"} /\ rd.head.nnz \in Nat
     \/ rd.pc = "end" /\ heap \subseteq {"mat"} \cup Triples
     \/ rd.pc = "build" /\ heap \subseteq {"mat"} \cup Triples /\ stream = "closed"

(* The other readers.                                                      *)
LinesHeld ==
  IF rd.ents = <<>> THEN {}
  ELSE {"line", "array"} \cup (IF rd.call.what = "lines" THEN Numbered("line", Len(rd.ents)) ELSE {})
LinesAt ==
  /\ rd.call.what \in LineReaders /\ Gathers
  /\ \/ /\ rd.pc = "lines" /\ heap = LinesHeld
        /\ rd.at \in Nat /\ Len(rd.ents) <= rd.at /\ rd.at <= Len(disk.lines) /\ Len(disk.lines) \in 0 .. SizeMax
     \/ rd.pc = "empty" /\ heap = {} /\ rd.ents = <<>> /\ stream = "closed"
BinAt ==
  /\ rd.call.what = "bin" /\ Gathers /\ rd.ents = <<>> /\ disk.items \in Seq(Int)
  /\ \/ rd.pc = "size" /\ heap = {}
     \/ rd.pc = "read" /\ heap = {"array"} /\ rd.cap = Len(disk.items)
GetlineAt ==
  /\ rd.call.what = "getline" /\ Listed(rd.ents) /\ rd.cap \in Nat
  /\ rd.pc \in {"bytes", "line"} /\ Len(rd.ents) < rd.cap
SeqAt ==
  /\ rd.call.what = "seq" /\ Gathers
  /\ disk # Missing => Len(disk.lines) \in 0 .. SizeMax
  /\ \/ rd.pc = "create" /\ heap = {"i2c", "c2i", "conv"} /\ rd.ents = <<>> /\ rd.at = 0
     \/ rd.pc \in {"file", "header"} /\ heap = SeqCommon /\ rd.ents = <<>> /\ rd.at = 0
        /\ (rd.pc = "header" => disk # Missing)
     \/ /\ rd.pc = "rows" /\ disk # Missing
        /\ heap = {"line"} \cup SeqCommon \cup SeqRows \cup (IF rd.ents = <<>> THEN {} ELSE SeqArrays)
        /\ rd.at \in Nat /\ Len(rd.ents) < rd.at /\ rd.at <= Len(disk.lines)

Working ==
  \/ RowsAt \/ VerticesAt \/ TriplesAt \/ BinaryAt \/ BIJVAt
  \/ LinesAt \/ BinAt \/ GetlineAt \/ SeqAt
Ended ==
  /\ Over /\ NothingLeaked /\ WithinCapacity
  /\ At("seq", "done") /\ HasResult => rd.ret.items = rd.ents

(* The writer, until what was written is read.                             *)
Idle == rd = Reading([what |-> "none"]) /\ heap = {} /\ stream = "closed"
Waiting ==
  /\ Idle /\ wr.call \in WriteCalls
  /\ DOMAIN wr = {"call", "pc", "at", "out", "failed", "sig"}
  /\ wr.call.what = "binwrite" =>
       /\ (wr.at = 0 /\ wr.out = <<>>) \/ (wr.at = 1 /\ wr.out = <<Written>>)
       /\ wr.pc = "written" => disk.items \in Seq(Int)

Running == (rd.pc = "open" /\ Starts) \/ (~Over /\ rd.pc # "open" /\ Working)
Sound == Shape /\ Quiet /\ (Running \/ Ended)
FormatsInv == Sound /\ (wr.pc # "done" => Waiting)
-----------------------------------------------------------------------------
(* Sets of numbers: induction.                                             *)
LEMMA CountedUp ==
  ASSUME NEW S, 0 \in S, \A n \in Nat : n \in S => n + 1 \in S
  PROVE  Nat \subseteq S
<1> DEFINE T == {n \in Nat : n \notin S}
<1> SUFFICES ASSUME NEW n \in T PROVE FALSE
  OBVIOUS
<1>1. PICK m \in T : \A k \in T : <<k, m>> \notin OpToRel(<, Nat)
  BY NatLessThanWellFounded, WFMin
<1>2. \A k \in T : ~ (k < m)
  BY <1>1 DEF OpToRel
<1>3. m \in Nat /\ m # 0 /\ m \notin S
  OBVIOUS
<1>4. m - 1 \in Nat /\ m - 1 \notin T
  BY <1>2, <1>3
<1>5. m - 1 + 1 \in S
  BY <1>4
<1> QED BY <1>3, <1>5

(* What sequences are made of, and their lengths.                          *)
LEMMA ListedIs ==
  ASSUME NEW S, NEW s \in Seq(S)
  PROVE  Listed(s) /\ Len(s) \in Nat /\ DOMAIN s = 1 .. Len(s)
<1> DEFINE R == {s[i] : i \in DOMAIN s}
<1>1. Len(s) \in Nat /\ DOMAIN s = 1 .. Len(s) /\ s = [i \in DOMAIN s |-> s[i]]
  OBVIOUS
<1>2. \A i \in DOMAIN s : s[i] \in R
  OBVIOUS
<1> HIDE DEF R
<1>3. s \in [1 .. Len(s) -> R]
  BY <1>1, <1>2
<1>4. s \in Seq(R)
  BY <1>1, <1>3, SeqDef
<1> QED BY <1>1, <1>4 DEF R, Listed

LEMMA ListedFunction ==
  ASSUME NEW n \in Nat, NEW s, s = [i \in 1 .. n |-> s[i]]
  PROVE  Listed(s) /\ Len(s) = n
<1> DEFINE R == {s[i] : i \in 1 .. n}
<1>1. \A i \in 1 .. n : s[i] \in R
  OBVIOUS
<1> HIDE DEF R
<1>2. s \in [1 .. n -> R]
  BY <1>1
<1>3. s \in Seq(R)
  BY <1>2, SeqDef
<1>4. Len(s) = n
  <2>1. DOMAIN s = 1 .. n /\ DOMAIN s = 1 .. Len(s) /\ Len(s) \in Nat
    BY <1>2, <1>3
  <2> QED BY <2>1
<1> QED BY <1>3, <1>4, ListedIs

LEMMA ListedLaws ==
  /\ Listed(<<>>) /\ Len(<<>>) = 0
  /\ \A s : Listed(s) =>
            /\ Len(s) \in Nat /\ (Len(s) = 0 <=> s = <<>>)
            /\ \A e : Listed(Append(s, e)) /\ Len(Append(s, e)) = Len(s) + 1 /\ Append(s, e) # <<>>
            /\ \A t : Listed(t) => Listed(s \o t) /\ Len(s \o t) = Len(s) + Len(t)
<1>1. Listed(<<>>) /\ Len(<<>>) = 0
  <2>1. <<>> \in Seq({}) /\ Len(<<>>) = 0
    OBVIOUS
  <2> QED BY <2>1, ListedIs
<1>2. ASSUME NEW s, Listed(s)
      PROVE  /\ Len(s) \in Nat /\ (Len(s) = 0 <=> s = <<>>)
             /\ \A e : Listed(Append(s, e)) /\ Len(Append(s, e)) = Len(s) + 1 /\ Append(s, e) # <<>>
             /\ \A t : Listed(t) => Listed(s \o t) /\ Len(s \o t) = Len(s) + Len(t)
  <2>1. PICK R : s \in Seq(R)
    BY <1>2 DEF Listed
  <2>2. Len(s) \in Nat /\ (Len(s) = 0 <=> s = <<>>)
    BY <2>1, EmptySeq
  <2>3. ASSUME NEW e
        PROVE  Listed(Append(s, e)) /\ Len(Append(s, e)) = Len(s) + 1 /\ Append(s, e) # <<>>
    <3>1. PICK Q : Q = R \cup {e}
      OBVIOUS
    <3>2. s \in Seq(Q) /\ e \in Q
      <4>1. R \subseteq Q /\ e \in Q
        BY <3>1
      <4>2. s \in [1 .. Len(s) -> R] /\ Len(s) \in Nat
        BY <2>1
      <4>3. s \in [1 .. Len(s) -> Q]
        BY <4>1, <4>2
      <4> QED BY <4>1, <4>2, <4>3, SeqDef
    <3>3. Append(s, e) \in Seq(Q) /\ Len(Append(s, e)) = Len(s) + 1
      BY <3>2
    <3>4. Append(s, e) # <<>>
      BY <2>2, <3>3
    <3> QED BY <3>3, <3>4, ListedIs
  <2>4. ASSUME NEW t, Listed(t)
        PROVE  Listed(s \o t) /\ Len(s \o t) = Len(s) + Len(t)
    <3>1. PICK P : t \in Seq(P)
      BY <2>4 DEF Listed
    <3>2. PICK Q : Q = R \cup P
      OBVIOUS
    <3>3. s \in [1 .. Len(s) -> R] /\ Len(s) \in Nat /\ t \in [1 .. Len(t) -> P] /\ Len(t) \in Nat
      BY <2>1, <3>1
    <3>4. R \subseteq Q /\ P \subseteq Q
      BY <3>2
    <3>5. s \in [1 .. Len(s) -> Q] /\ t \in [1 .. Len(t) -> Q]
      BY <3>3, <3>4
    <3>6. s \in Seq(Q) /\ t \in Seq(Q)
      BY <3>3, <3>5, SeqDef
    <3>7. s \o t \in Seq(Q) /\ Len(s \o t) = Len(s) + Len(t)
      BY <3>6
    <3> QED BY <3>7, ListedIs
  <2> QED BY <2>2, <2>3, <2>4
<1> QED BY <1>1, <1>2
-----------------------------------------------------------------------------
(* Capacities: the function that doubles exists and grows beyond any need. *)
Doubles(from, d, n) == d = [k \in 0 .. n |-> IF k = 0 THEN from ELSE 2 * d[k - 1]]

LEMMA DoublesFarEnough ==
  ASSUME NEW from \in Nat \ {0}
  PROVE  \E d : d = [k \in Nat |-> IF k = 0 THEN from ELSE 2 * d[k - 1]]
<1> DEFINE S == {n \in Nat : \E d : Doubles(from, d, n)}
<1>1. 0 \in S
  <2> DEFINE d == [k \in 0 .. 0 |-> from]
  <2>1. Doubles(from, d, 0)
    BY DEF Doubles
  <2> QED BY <2>1
<1>2. ASSUME NEW n \in Nat, n \in S PROVE n + 1 \in S
  <2>1. PICK d : Doubles(from, d, n)
    BY <1>2
  <2> DEFINE e == [k \in 0 .. n + 1 |-> IF k = n + 1 THEN 2 * d[n] ELSE d[k]]
  <2>2. \A k \in 0 .. n + 1 : e[k] = IF k = 0 THEN from ELSE 2 * e[k - 1]
    <3>1. ASSUME NEW k \in 0 .. n PROVE d[k] = IF k = 0 THEN from ELSE 2 * d[k - 1]
      BY <2>1 DEF Doubles
    <3> QED BY <3>1
  <2>3. e = [k \in 0 .. n + 1 |-> e[k]]
    OBVIOUS
  <2> HIDE DEF e
  <2>4. Doubles(from, e, n + 1)
    BY <2>2, <2>3 DEF Doubles
  <2> QED BY <2>4
<1> HIDE DEF S
<1>3. \A n \in Nat : \E d : Doubles(from, d, n)
  BY <1>1, <1>2, CountedUp DEF S
<1>4. ASSUME NEW n \in Nat, NEW d, NEW e, Doubles(from, d, n), Doubles(from, e, n + 1)
      PROVE  d[n] = e[n]
  <2> DEFINE T == {k \in Nat : k <= n => d[k] = e[k]}
  <2>1. \A k \in 0 .. n : d[k] = IF k = 0 THEN from ELSE 2 * d[k - 1]
    BY <1>4 DEF Doubles
  <2>2. \A k \in 0 .. n + 1 : e[k] = IF k = 0 THEN from ELSE 2 * e[k - 1]
    BY <1>4 DEF Doubles
  <2>3. 0 \in T
    BY <2>1, <2>2
  <2>4. ASSUME NEW k \in Nat, k \in T PROVE k + 1 \in T
    <3>1. CASE k + 1 <= n
      <4>1. k + 1 \in 0 .. n /\ k + 1 # 0 /\ k + 1 - 1 = k /\ d[k] = e[k]
        BY <2>4, <3>1
      <4>2. d[k + 1] = 2 * d[k] /\ e[k + 1] = 2 * e[k]
        BY <2>1, <2>2, <4>1
      <4> QED BY <4>1, <4>2
    <3> QED BY <3>1
  <2> HIDE DEF T
  <2>5. Nat \subseteq T
    BY <2>3, <2>4, CountedUp
  <2>6. n \in T /\ n <= n
    BY <2>5
  <2> QED BY <2>6 DEF T
<1> DEFINE of(n) == CHOOSE d : Doubles(from, d, n)
           f == [n \in Nat |-> of(n)[n]]
<1>5. \A n \in Nat : Doubles(from, of(n), n)
  BY <1>3
<1>6. \A n \in Nat : f[n] = of(n)[n]
  OBVIOUS
<1>7. f = [n \in Nat |-> f[n]]
  OBVIOUS
<1> HIDE DEF of, f
<1>8. ASSUME NEW n \in Nat PROVE f[n] = IF n = 0 THEN from ELSE 2 * f[n - 1]
  <2>1. of(n)[n] = IF n = 0 THEN from ELSE 2 * of(n)[n - 1]
    BY <1>5 DEF Doubles
  <2>2. ASSUME n # 0 PROVE of(n)[n - 1] = of(n - 1)[n - 1]
    <3>1. n - 1 \in Nat /\ n - 1 + 1 = n
      BY <2>2
    <3>2. Doubles(from, of(n - 1), n - 1) /\ Doubles(from, of(n), n - 1 + 1)
      BY <1>5, <3>1
    <3> QED BY <1>4, <3>1, <3>2
  <2> QED BY <1>6, <2>1, <2>2
<1> QED BY <1>7, <1>8

LEMMA GrownLaw ==
  ASSUME NEW cap \in Nat, NEW first \in Nat \ {0}, NEW needed \in Nat
  PROVE  Grown(cap, first, needed) \in Nat /\ needed <= Grown(cap, first, needed)
<1>1. CASE needed <= cap
  BY <1>1 DEF Grown
<1>2. CASE ~ (needed <= cap)
  <2> DEFINE from == IF cap = 0 THEN first ELSE cap
             double == CHOOSE d : d = [k \in Nat |-> IF k = 0 THEN from ELSE 2 * d[k - 1]]
             Enough(k) == double[k] >= needed /\ \A j \in 0 .. k - 1 : double[j] < needed
             m == CHOOSE k \in 0 .. needed : Enough(k)
  <2>1. from \in Nat \ {0}
    OBVIOUS
  <2>2. Grown(cap, first, needed) = double[m]
    BY <1>2 DEF Grown
  <2> HIDE DEF from
  <2>3. double = [k \in Nat |-> IF k = 0 THEN from ELSE 2 * double[k - 1]]
    BY <2>1, DoublesFarEnough
  <2> HIDE DEF double
  <2> DEFINE S == {k \in Nat : double[k] \in Nat /\ double[k] > k}
  <2>4. 0 \in S
    BY <2>1, <2>3
  <2>5. ASSUME NEW k \in Nat, k \in S PROVE k + 1 \in S
    <3>1. double[k + 1] = 2 * double[k]
      BY <2>3
    <3> QED BY <2>5, <3>1
  <2> HIDE DEF S
  <2>6. \A k \in Nat : double[k] \in Nat /\ double[k] > k
    BY <2>4, <2>5, CountedUp DEF S
  <2> DEFINE T == {k \in Nat : double[k] >= needed}
  <2>7. PICK k \in T : \A j \in T : <<j, k>> \notin OpToRel(<, Nat)
    <3>1. needed \in T
      BY <2>6
    <3> QED BY <3>1, NatLessThanWellFounded, WFMin
  <2>8. \A j \in T : ~ (j < k)
    BY <2>7 DEF OpToRel
  <2>9. k \in 0 .. needed /\ Enough(k)
    <3>1. needed \in T /\ k \in Nat /\ double[k] >= needed
      BY <2>6
    <3>2. k <= needed
      BY <2>8, <3>1
    <3>3. ASSUME NEW j \in 0 .. k - 1 PROVE double[j] < needed
      <4>1. j \in Nat /\ j < k /\ double[j] \in Nat
        BY <2>6, <3>1
      <4> QED BY <2>8, <4>1
    <3> QED BY <3>1, <3>2, <3>3
  <2>10. m \in 0 .. needed /\ Enough(m)
    <3> HIDE DEF Enough
    <3> QED BY <2>9
  <2> QED BY <2>2, <2>6, <2>10
<1> QED BY <1>1, <1>2

(* The prints of an array of numbers are none or one, and so is its file.  *)
LEMMA OnePrint ==
  ASSUME NEW n \in {0, 1}, NEW parts, n = 1 => parts[0] \in Seq(Int)
  PROVE  Concatenated(n, parts) \in Seq(Int)
<1> DEFINE upto == CHOOSE f : f = [i \in 0 .. n |-> IF i = 0 THEN <<>> ELSE f[i - 1] \o parts[i - 1]]
           g == [i \in 0 .. n |-> IF i = 0 THEN <<>> ELSE <<>> \o parts[0]]
<1>1. g = [i \in 0 .. n |-> IF i = 0 THEN <<>> ELSE g[i - 1] \o parts[i - 1]]
  <2>1. \A i \in 0 .. n : g[i] = IF i = 0 THEN <<>> ELSE g[i - 1] \o parts[i - 1]
    <3>1. g[0] = <<>> /\ \A i \in 0 .. n : i # 0 => i = 1 /\ g[i] = <<>> \o parts[0]
      OBVIOUS
    <3> QED BY <3>1
  <2>2. g = [i \in 0 .. n |-> g[i]]
    OBVIOUS
  <2> HIDE DEF g
  <2> QED BY <2>1, <2>2
<1> HIDE DEF g
<1>2. upto = [i \in 0 .. n |-> IF i = 0 THEN <<>> ELSE upto[i - 1] \o parts[i - 1]]
  BY <1>1
<1>3. Concatenated(n, parts) = upto[n]
  BY DEF Concatenated
<1> HIDE DEF upto
<1>4. CASE n = 0
  BY <1>2, <1>3, <1>4
<1>5. CASE n = 1
  <2>1. upto[1] = <<>> \o parts[0]
    BY <1>2, <1>5
  <2> QED BY <1>3, <1>5, <2>1
<1> QED BY <1>4, <1>5

(* The entries of a row: the function that scans them exists, and a row has*)
(* no more entries than there is room for.                                 *)
NextEntry(f, s) == IF StartsInt(s.rest) /\ EntryFits(f, s) THEN Entry(f, s) ELSE s
RowStart(ws) == [rest |-> ws, ents |-> <<>>]
Scans(f, ws, g, n) == g = [t \in 0 .. n |-> IF t = 0 THEN RowStart(ws) ELSE NextEntry(f, g[t - 1])]
ScanLoop(f, ws, g) == g = [t \in Nat |-> IF t = 0 THEN RowStart(ws) ELSE NextEntry(f, g[t - 1])]

LEMMA ScanExists ==
  ASSUME NEW f, NEW ws
  PROVE  \E g : ScanLoop(f, ws, g)
<1> DEFINE S == {n \in Nat : \E g : Scans(f, ws, g, n)}
<1>1. 0 \in S
  <2> DEFINE g == [t \in 0 .. 0 |-> RowStart(ws)]
  <2>1. Scans(f, ws, g, 0)
    BY DEF Scans
  <2> QED BY <2>1
<1>2. ASSUME NEW n \in Nat, n \in S PROVE n + 1 \in S
  <2>1. PICK g : Scans(f, ws, g, n)
    BY <1>2
  <2> DEFINE h == [t \in 0 .. n + 1 |-> IF t = n + 1 THEN NextEntry(f, g[n]) ELSE g[t]]
  <2>2. \A t \in 0 .. n + 1 : h[t] = IF t = 0 THEN RowStart(ws) ELSE NextEntry(f, h[t - 1])
    <3>1. ASSUME NEW t \in 0 .. n PROVE g[t] = IF t = 0 THEN RowStart(ws) ELSE NextEntry(f, g[t - 1])
      BY <2>1 DEF Scans
    <3> QED BY <3>1
  <2>3. h = [t \in 0 .. n + 1 |-> h[t]]
    OBVIOUS
  <2> HIDE DEF h
  <2>4. Scans(f, ws, h, n + 1)
    BY <2>2, <2>3 DEF Scans
  <2> QED BY <2>4
<1> HIDE DEF S
<1>3. \A n \in Nat : \E g : Scans(f, ws, g, n)
  BY <1>1, <1>2, CountedUp DEF S
<1>4. ASSUME NEW n \in Nat, NEW g, NEW h, Scans(f, ws, g, n), Scans(f, ws, h, n + 1)
      PROVE  g[n] = h[n]
  <2> DEFINE T == {t \in Nat : t <= n => g[t] = h[t]}
  <2>1. \A t \in 0 .. n : g[t] = IF t = 0 THEN RowStart(ws) ELSE NextEntry(f, g[t - 1])
    BY <1>4 DEF Scans
  <2>2. \A t \in 0 .. n + 1 : h[t] = IF t = 0 THEN RowStart(ws) ELSE NextEntry(f, h[t - 1])
    BY <1>4 DEF Scans
  <2>3. 0 \in T
    BY <2>1, <2>2
  <2>4. ASSUME NEW t \in Nat, t \in T PROVE t + 1 \in T
    <3>1. CASE t + 1 <= n
      <4>1. t + 1 \in 0 .. n /\ t + 1 # 0 /\ t + 1 - 1 = t /\ g[t] = h[t]
        BY <2>4, <3>1
      <4>2. g[t + 1] = NextEntry(f, g[t]) /\ h[t + 1] = NextEntry(f, h[t])
        BY <2>1, <2>2, <4>1
      <4> QED BY <4>1, <4>2
    <3> QED BY <3>1
  <2> HIDE DEF T
  <2>5. Nat \subseteq T
    BY <2>3, <2>4, CountedUp
  <2>6. n \in T /\ n <= n
    BY <2>5
  <2> QED BY <2>6 DEF T
<1> DEFINE of(n) == CHOOSE g : Scans(f, ws, g, n)
           scan == [n \in Nat |-> of(n)[n]]
<1>5. \A n \in Nat : Scans(f, ws, of(n), n)
  BY <1>3
<1>6. \A n \in Nat : scan[n] = of(n)[n]
  OBVIOUS
<1>7. scan = [n \in Nat |-> scan[n]]
  OBVIOUS
<1> HIDE DEF of, scan
<1>8. ASSUME NEW n \in Nat PROVE scan[n] = IF n = 0 THEN RowStart(ws) ELSE NextEntry(f, scan[n - 1])
  <2>1. of(n)[n] = IF n = 0 THEN RowStart(ws) ELSE NextEntry(f, of(n)[n - 1])
    BY <1>5 DEF Scans
  <2>2. ASSUME n # 0 PROVE of(n)[n - 1] = of(n - 1)[n - 1]
    <3>1. n - 1 \in Nat /\ n - 1 + 1 = n
      BY <2>2
    <3>2. Scans(f, ws, of(n - 1), n - 1) /\ Scans(f, ws, of(n), n - 1 + 1)
      BY <1>5, <3>1
    <3> QED BY <1>4, <3>1, <3>2
  <2> QED BY <1>6, <2>1, <2>2
<1>9. ScanLoop(f, ws, scan)
  BY <1>7, <1>8 DEF ScanLoop
<1> QED BY <1>9

LEMMA RowLaw ==
  ASSUME NEW f, NEW ws, f.room \in Nat
  PROVE  Listed(RowOf(f, ws).ents) /\ Len(RowOf(f, ws).ents) <= f.room
<1> DEFINE more(s) == StartsInt(s.rest) /\ EntryFits(f, s)
           F(g) == [t \in Nat |-> IF t = 0 THEN [rest |-> ws, ents |-> <<>>]
                     ELSE LET s == g[t - 1] IN IF more(s) THEN Entry(f, s) ELSE s]
           G(g) == [t \in Nat |-> IF t = 0 THEN RowStart(ws) ELSE NextEntry(f, g[t - 1])]
           scan == CHOOSE g : g = F(g)
<1>1. RowOf(f, ws) = scan[CHOOSE t \in 0 .. f.room : ~more(scan[t])]
  BY DEF RowOf
<1>2. scan = G(scan)
  <2>1. ASSUME NEW g PROVE F(g) = G(g)
    <3>1. ASSUME NEW s PROVE (IF more(s) THEN Entry(f, s) ELSE s) = NextEntry(f, s)
      BY DEF NextEntry
    <3>2. [rest |-> ws, ents |-> <<>>] = RowStart(ws)
      BY DEF RowStart
    <3> QED BY <3>1, <3>2
  <2>2. \E g : g = G(g)
    <3>1. PICK g : ScanLoop(f, ws, g)
      BY ScanExists
    <3>2. g = G(g)
      BY <3>1 DEF ScanLoop
    <3> HIDE DEF G
    <3> QED BY <3>2
  <2> HIDE DEF F, G
  <2> QED BY <2>1, <2>2
<1> HIDE DEF scan
<1>3. scan[0] = RowStart(ws) /\ \A t \in Nat : scan[t + 1] = NextEntry(f, scan[t])
  <2>1. \A t \in Nat : scan[t] = IF t = 0 THEN RowStart(ws) ELSE NextEntry(f, scan[t - 1])
    BY <1>2
  <2> QED BY <2>1
<1> HIDE DEF F, G
<1> DEFINE Good(s, t) == /\ DOMAIN s = {"rest", "ents"} /\ Listed(s.ents) /\ Len(s.ents) <= t
                         /\ more(s) => Len(s.ents) = t
           S == {t \in Nat : Good(scan[t], t)}
<1>4. 0 \in S
  <2>1. scan[0] = RowStart(ws)
    BY <1>3
  <2>2. DOMAIN RowStart(ws) = {"rest", "ents"} /\ RowStart(ws).ents = <<>>
    BY DEF RowStart
  <2>3. Listed(<<>>) /\ Len(<<>>) = 0
    BY ListedLaws
  <2>4. Good(RowStart(ws), 0)
    BY <2>2, <2>3
  <2> HIDE DEF Good
  <2> QED BY <2>1, <2>4
<1>5. ASSUME NEW t \in Nat, t \in S PROVE t + 1 \in S
  <2>1. scan[t + 1] = NextEntry(f, scan[t])
    BY <1>3
  <2>2. PICK s : s = scan[t]
    OBVIOUS
  <2>3. Good(s, t) /\ Len(s.ents) \in Nat
    BY <1>5, <2>2, ListedLaws
  <2>4. CASE ~more(s)
    <3>1. NextEntry(f, s) = s
      BY <2>4 DEF NextEntry
    <3>2. Good(s, t + 1)
      BY <2>3, <2>4
    <3> HIDE DEF Good
    <3> QED BY <2>1, <2>2, <3>1, <3>2
  <2>5. CASE more(s)
    <3> DEFINE after == AfterInt(s.rest)
               e == <<IntAt(s.rest) - f.shift, IF f.vals THEN NumberAt(after, f.float) ELSE f.default>>
               r == IF f.vals THEN AfterNumber(after, f.float) ELSE after
    <3>1. Entry(f, s) = [s EXCEPT !.ents = Append(@, e), !.rest = r]
      BY DEF Entry
    <3> HIDE DEF after, e, r
    <3>2. DOMAIN Entry(f, s) = {"rest", "ents"} /\ Entry(f, s).ents = Append(s.ents, e)
      BY <2>3, <3>1
    <3>3. Listed(Append(s.ents, e)) /\ Len(Append(s.ents, e)) = Len(s.ents) + 1
      BY <2>3, ListedLaws
    <3>4. Len(s.ents) = t
      BY <2>3, <2>5
    <3> HIDE DEF more
    <3>5. Good(Entry(f, s), t + 1)
      BY <3>2, <3>3, <3>4
    <3>6. NextEntry(f, s) = Entry(f, s)
      BY <2>5 DEF NextEntry, more
    <3> HIDE DEF Good
    <3> QED BY <2>1, <2>2, <3>5, <3>6
  <2> QED BY <2>4, <2>5
<1> HIDE DEF S
<1>6. \A t \in Nat : t \in S
  BY <1>4, <1>5, CountedUp
<1>7. ~more(scan[f.room])
  <2>1. PICK s : s = scan[f.room]
    OBVIOUS
  <2>2. Good(s, f.room)
    BY <1>6, <2>1 DEF S
  <2>3. more(s) => Len(s.ents) < f.room
    BY DEF EntryFits
  <2>4. ~more(s)
    BY <2>2, <2>3
  <2> HIDE DEF more
  <2> QED BY <2>1, <2>4
<1> HIDE DEF more
<1>8. f.room \in 0 .. f.room
  OBVIOUS
<1>9. PICK t \in 0 .. f.room : t = CHOOSE n \in 0 .. f.room : ~more(scan[n])
  BY <1>7, <1>8
<1>10. RowOf(f, ws) = scan[t]
  BY <1>1, <1>9
<1>11. Good(scan[t], t)
  BY <1>6 DEF S
<1>12. Listed(scan[t].ents) /\ Len(scan[t].ents) <= t /\ Len(scan[t].ents) \in Nat
  BY <1>11, ListedLaws
<1> QED BY <1>10, <1>12
-----------------------------------------------------------------------------
(* A call that runs has overrun nothing. When it fails it has released what*)
(* it held, if that, and what it had just got, is what the path frees.     *)
Ends == Shape /\ Quiet /\ Ended

LEMMA NoEntries ==
  Listed(<<>>) /\ Len(<<>>) = 0 /\ Listed(<<0>>) /\ Len(<<0>>) = 1
<1>1. <<0>> \in Seq(Int) /\ Len(<<0>>) = 1
  OBVIOUS
<1> QED BY <1>1, ListedIs, ListedLaws

LEMMA RunningIs ==
  ASSUME Running
  PROVE  ~Over /\ WithinCapacity
<1>1. CASE rd.pc = "open" /\ Starts
  <2>1. ~Over /\ rd.pc = "open"
    BY <1>1 DEF Over
  <2>2. rd.ents = <<>> /\ rd.cap = 0 /\ rd.ptr = <<0>> /\ rd.rows = 0
    BY <1>1 DEF Starts, Reading
  <2>3. Len(rd.ents) <= rd.cap /\ RowCount <= rd.rows
    BY <2>2, NoEntries DEF RowCount
  <2> QED BY <2>1, <2>3 DEF WithinCapacity
<1>2. CASE ~Over /\ rd.pc # "open" /\ Working
  <2>1. rd.call.what # "getline" => Len(rd.ents) <= rd.cap
    BY <1>2 DEF Working, RowsAt, VerticesAt, TriplesAt, BinaryAt, BIJVAt, LinesAt, BinAt, GetlineAt, SeqAt, Gathers, LineReaders
  <2>2. rd.call.what = "getline" => Len(rd.ents) < rd.cap
    BY <1>2 DEF Working, RowsAt, VerticesAt, TriplesAt, BinaryAt, BIJVAt, LinesAt, BinAt, GetlineAt, SeqAt, LineReaders
  <2>3. rd.call.what = "csr" /\ rd.call.fmt \in RowFormats => RowCount <= rd.rows
    BY <1>2 DEF Working, RowsAt, VerticesAt, TriplesAt, BinaryAt, BIJVAt, LinesAt, BinAt, GetlineAt, SeqAt, LineReaders,
                RowFormats, BinaryFormats
  <2> QED BY <1>2, <2>1, <2>2, <2>3 DEF WithinCapacity
<1> QED BY <1>1, <1>2 DEF Running

LEMMA RaiseEnds ==
  ASSUME Shape, Quiet, Running, rd.call.what # "getline",
         NEW got, NEW freed, NEW sig, heap \cup got \subseteq freed, Raise(got, freed, sig)
  PROVE  Ends'
<1>1. ~Over /\ WithinCapacity
  BY RunningIs
<1>2. rd' = [rd EXCEPT !.pc = "done", !.sig = sig] /\ heap' = {} /\ stream' = "closed"
  BY DEF Raise
<1>3. /\ DOMAIN rd' = DOMAIN rd /\ rd'.pc = "done" /\ rd'.call = rd.call /\ rd'.head = rd.head
      /\ rd'.ret = Nothing /\ rd'.ents = rd.ents /\ rd'.cap = rd.cap /\ rd'.ptr = rd.ptr /\ rd'.rows = rd.rows
  BY <1>1, <1>2 DEF Shape, Quiet
<1>4. Shape' /\ Over'
  BY <1>3 DEF Shape, Over
<1>5. ~HasResult'
  BY <1>3 DEF HasResult, Nothing
<1>6. Quiet'
  BY <1>4, <1>5 DEF Quiet
<1>7. NothingLeaked'
  BY <1>2, <1>3, <1>5 DEF NothingLeaked, ResultBlocks
<1>8. WithinCapacity'
  BY <1>1, <1>3 DEF WithinCapacity, RowCount
<1> QED BY <1>4, <1>5, <1>6, <1>7, <1>8 DEF Ends, Ended

LEMMA RefuseEnds ==
  ASSUME Shape, Quiet, Running, rd.call.what # "getline",
         NEW got, NEW freed, NEW sig, heap \cup got \subseteq freed, RefuseHolding(got, freed, sig)
  PROVE  Ends'
BY RaiseEnds DEF RefuseHolding

LEMMA BrokenEnds ==
  ASSUME Shape, Quiet, Running, rd.call.what # "getline",
         NEW what, NEW got, NEW freed, heap \cup got \subseteq freed, BrokenHolding(what, got, freed)
  PROVE  Ends'
<1> PICK sig : Raise(got, freed, sig)
  BY DEF BrokenHolding
<1> QED BY RaiseEnds

LEMMA MemoryEnds ==
  ASSUME Shape, Quiet, Running, rd.call.what # "getline",
         NEW wanted, NEW freed, heap \cup wanted \subseteq freed, OutOfMemory(wanted, freed)
  PROVE  Ends'
<1>1. PICK b \in wanted : BrokenHolding("memory", {c \in wanted : Rank(c) < Rank(b)}, freed)
  BY DEF OutOfMemory
<1>2. PICK got : got = {c \in wanted : Rank(c) < Rank(b)}
  OBVIOUS
<1>3. BrokenHolding("memory", got, freed)
  BY <1>1, <1>2
<1>4. heap \cup got \subseteq freed
  BY <1>2
<1> QED BY <1>3, <1>4, BrokenEnds

(* The same of a path that releases freed, with nothing just got.          *)
LEMMA PathEnds ==
  ASSUME Shape, Quiet, Running, rd.call.what # "getline", NEW freed, heap \subseteq freed
  PROVE  /\ \A sig : Refuse(freed, sig) => Ends'
         /\ \A what : Broken(what, freed) => Ends'
         /\ \A wanted : wanted \subseteq freed /\ OutOfMemory(wanted, freed) => Ends'
         /\ LineFails(freed, freed) => Ends'
         /\ CannotOpen(freed) => Ends'
         /\ \A got, sig : got \subseteq freed /\ RefuseHolding(got, freed, sig) => Ends'
         /\ \A what, got : got \subseteq freed /\ BrokenHolding(what, got, freed) => Ends'
<1>1. \A got, sig : got \subseteq freed /\ RefuseHolding(got, freed, sig) => Ends'
  <2> TAKE got, sig
  <2> HAVE got \subseteq freed /\ RefuseHolding(got, freed, sig)
  <2>1. heap \cup got \subseteq freed
    OBVIOUS
  <2> QED BY <2>1, RefuseEnds
<1>2. \A what, got : got \subseteq freed /\ BrokenHolding(what, got, freed) => Ends'
  <2> TAKE what, got
  <2> HAVE got \subseteq freed /\ BrokenHolding(what, got, freed)
  <2>1. heap \cup got \subseteq freed
    OBVIOUS
  <2> QED BY <2>1, BrokenEnds
<1>3. \A wanted : wanted \subseteq freed /\ OutOfMemory(wanted, freed) => Ends'
  <2> TAKE wanted
  <2> HAVE wanted \subseteq freed /\ OutOfMemory(wanted, freed)
  <2>1. heap \cup wanted \subseteq freed
    OBVIOUS
  <2> QED BY <2>1, MemoryEnds
<1>4. PICK none : none = {}
  OBVIOUS
<1>5. none \subseteq freed
  BY <1>4
<1>6. \A sig : Refuse(freed, sig) => Ends'
  BY <1>1, <1>4, <1>5, Zenon DEF Refuse
<1>7. \A what : Broken(what, freed) => Ends'
  BY <1>2, <1>4, <1>5, Zenon DEF Broken
<1>8. LineFails(freed, freed) => Ends'
  BY <1>7 DEF LineFails
<1>9. CannotOpen(freed) => Ends'
  BY <1>6, <1>7 DEF CannotOpen
<1> QED BY <1>1, <1>2, <1>3, <1>6, <1>7, <1>8, <1>9

(* Where a call that runs is.                                              *)
LEMMA Begins ==
  ASSUME Running, rd.pc = "open"
  PROVE  /\ rd.ents = <<>> /\ rd.cap = 0 /\ rd.ptr = <<0>> /\ rd.rows = 0 /\ rd.at = 0
         /\ rd.head = NoHeader /\ heap = {} /\ stream = "closed" /\ FileMeant
<1>1. rd = Reading(rd.call) /\ heap = {} /\ stream = "closed" /\ FileMeant
  BY DEF Running, Starts
<1> QED BY <1>1 DEF Reading

LEMMA Where ==
  ASSUME Running, rd.pc # "open"
  PROVE  /\ rd.call.what = "csr" /\ rd.pc \in {"header", "allocate", "rows", "close"} => RowsAt
         /\ rd.call.what = "graph" /\ rd.call.fmt = "METIS" => VerticesAt
         /\ rd.call.what = "csr" /\ rd.call.fmt = "IJV" => TriplesAt
         /\ rd.call.what = "graph" /\ rd.call.fmt \in TripleFormats => TriplesAt
         /\ rd.call.what = "csr" /\ rd.call.fmt \in BinaryFormats => BinaryAt
         /\ rd.call.what = "csr" /\ rd.call.fmt = "BIJV" => BIJVAt
         /\ rd.call.what \in LineReaders => LinesAt
         /\ rd.call.what = "bin" => BinAt
         /\ rd.call.what = "getline" => GetlineAt
         /\ rd.call.what = "seq" => SeqAt
<1>1. Working /\ rd.pc \notin {"done", "freed"}
  BY DEF Running, Over
<1> QED BY <1>1 DEF Working, RowsAt, VerticesAt, TriplesAt, BinaryAt, BIJVAt, LinesAt, BinAt, GetlineAt, SeqAt,
                    LineReaders, RowFormats, BinaryFormats, TripleFormats

LEMMA SoundRuns ==
  ASSUME Sound, ~Over
  PROVE  Shape /\ Quiet /\ Running
BY DEF Sound, Ended

LEMMA EndsSound ==
  ASSUME Ends'
  PROVE  Sound'
BY DEF Ends, Sound

(* A step that goes on: the record with other fields, at another place.    *)
LEMMA GoesOn ==
  ASSUME Shape, Quiet, Running, DOMAIN rd' = DOMAIN rd, DOMAIN rd'.head = DOMAIN rd.head,
         rd'.ret = rd.ret, rd'.sig = rd.sig, rd'.pc \notin {"open", "done", "freed"}, Working'
  PROVE  Sound'
<1>1. Shape' /\ ~Over'
  BY DEF Shape, Over
<1>2. rd.ret = Nothing /\ rd.sig = "none"
  BY RunningIs DEF Quiet
<1>3. Quiet'
  BY <1>1, <1>2 DEF Quiet
<1>4. Running'
  BY <1>1 DEF Running
<1> QED BY <1>1, <1>3, <1>4 DEF Sound
-----------------------------------------------------------------------------
(* The readers of rows.                                                    *)
LEMMA BlocksIn ==
  ASSUME NEW vals, NEW sizes, NEW wgts
  PROVE  Blocks(vals, sizes, wgts) \subseteq Object /\ "line" \notin Blocks(vals, sizes, wgts)
BY DEF Blocks, Object

Counts(head) ==
  /\ DOMAIN head = {"nrows", "ncols", "nnz", "sizes", "wgts", "vals"}
  /\ head.nrows \in Nat /\ head.nnz \in Nat

LEMMA DigitsCount ==
  ASSUME NEW ws, ws[1].n \in Nat, ws[2].n \in Nat, METISDigits(ws).sig = "none"
  PROVE  Counts(METISDigits(ws).head)
<1>1. 2 * ws[2].n \in Nat
  OBVIOUS
<1> QED BY <1>1 DEF METISDigits, Counts, Usable, Unusable

LEMMA HeadersCount ==
  ASSUME NEW ws
  PROVE  /\ CLUTOHeader(ws).sig = "none" => Counts(CLUTOHeader(ws).head)
         /\ METISHeader(ws).sig = "none" => Counts(METISHeader(ws).head)
         /\ GraphSizes(ws).sig = "none" => Counts(GraphSizes(ws).head)
<1>1. SizeMax \in Nat
  BY WordConstants
<1>2. ASSUME CLUTOHeader(ws).sig = "none" PROVE Counts(CLUTOHeader(ws).head)
  <2>1. gk_csr_ParseHeader(ws, 3, 3) /\ CLUTOHeader(ws).head = [nrows |-> ws[1].n, ncols |-> ws[2].n, nnz |-> ws[3].n,
               sizes |-> FALSE, wgts |-> FALSE, vals |-> TRUE]
    BY <1>2 DEF CLUTOHeader, Usable, Unusable
  <2>2. ws[1].n \in Nat /\ ws[3].n \in Nat
    <3>1. Len(ws) = 3 /\ \A i \in 1 .. Len(ws) : ws[i].n \in 0 .. SizeMax
      BY <2>1 DEF gk_csr_ParseHeader, Sizes
    <3>2. 1 \in 1 .. Len(ws) /\ 3 \in 1 .. Len(ws)
      BY <3>1
    <3> QED BY <1>1, <3>1, <3>2
  <2> QED BY <2>1, <2>2 DEF Counts
<1>3. ASSUME METISHeader(ws).sig = "none" PROVE Counts(METISHeader(ws).head)
  <2>1. gk_csr_ParseHeader(ws, 2, 4) /\ METISHeader(ws) = METISDigits(ws)
    BY <1>3 DEF METISHeader, Unusable
  <2>2. ws[1].n \in Nat /\ ws[2].n \in Nat
    BY <1>1, <2>1 DEF gk_csr_ParseHeader, Sizes
  <2> QED BY <1>3, <2>1, <2>2, DigitsCount
<1>4. ASSUME GraphSizes(ws).sig = "none" PROVE Counts(GraphSizes(ws).head)
  <2>1. gk_graph_ParseHeader(ws) /\ GraphSizes(ws) = METISDigits(ws)
    BY <1>4 DEF GraphSizes, Unusable
  <2>2. ws[1].n \in Nat /\ ws[2].n \in Nat
    BY <1>1, <2>1 DEF gk_graph_ParseHeader, Sizes
  <2> QED BY <1>4, <2>1, <2>2, DigitsCount
<1> QED BY <1>2, <1>3, <1>4

LEMMA CSROpenSound ==
  ASSUME Sound, CSROpen
  PROVE  Sound'
<1>1. rd.call.what = "csr" /\ rd.call.fmt \in RowFormats /\ rd.pc = "open" /\ ~Over
  BY DEF CSROpen, AtFormat, At, Over
<1>2. Shape /\ Quiet /\ Running
  BY <1>1, SoundRuns
<1>3. /\ rd.ents = <<>> /\ rd.cap = 0 /\ rd.ptr = <<0>> /\ rd.rows = 0
      /\ rd.head = NoHeader /\ heap = {}
  BY <1>1, <1>2, Begins
<1> DEFINE next == [rd EXCEPT !.pc = IF rd.call.fmt = "CSR" THEN "allocate" ELSE "header"]
<1>4. CASE CannotOpen({})
  <2>1. Ends'
    BY <1>1, <1>2, <1>3, <1>4, PathEnds
  <2> QED BY <2>1, EndsSound
<1>5. CASE Opened(next)
  <2>1. rd' = next /\ heap' = heap
    BY <1>5 DEF Opened
  <2>2. /\ DOMAIN rd' = DOMAIN rd /\ rd'.pc \in {"header", "allocate"} /\ rd'.call = rd.call /\ rd'.head = rd.head
        /\ rd'.ret = rd.ret /\ rd'.sig = rd.sig /\ rd'.ents = rd.ents /\ rd'.cap = rd.cap
        /\ rd'.ptr = rd.ptr /\ rd'.rows = rd.rows
    BY <1>2, <2>1 DEF Shape
  <2>3. Gathers'
    BY <1>3, <2>2, NoEntries DEF Gathers
  <2>4. RowCount' = 0 /\ Listed(rd'.ptr) /\ rd'.head.nrows = 0 /\ rd'.head.nnz = 0
    BY <1>3, <2>2, NoEntries DEF RowCount, NoHeader
  <2>5. RowsAt'
    BY <1>1, <1>3, <2>1, <2>2, <2>3, <2>4 DEF RowsAt
  <2> QED BY <1>2, <2>2, <2>5, GoesOn DEF Working
<1> QED BY <1>4, <1>5 DEF CSROpen, gk_fopen

LEMMA CSRHeaderSound ==
  ASSUME Sound, CSRHeader
  PROVE  Sound'
<1>1. rd.call.what = "csr" /\ rd.pc = "header" /\ ~Over
  BY DEF CSRHeader, At, Over
<1>2. Shape /\ Quiet /\ Running
  BY <1>1, SoundRuns
<1>3. RowsAt /\ heap \subseteq {"line"} /\ rd.ents = <<>> /\ RowCount = 0
  BY <1>1, <1>2, Where DEF RowsAt
<1>4. LineFails({"line"}, {"line"}) => Ends'
  BY <1>1, <1>2, <1>3, PathEnds
<1>5. ASSUME NEW sig, gk_csr_TextReadError(sig) PROVE Ends'
  <2>1. PICK freed : freed = {"line"} \cup Object
    OBVIOUS
  <2>2. heap \subseteq freed /\ Refuse(freed, sig)
    BY <1>3, <1>5, <2>1 DEF gk_csr_TextReadError
  <2> QED BY <1>1, <1>2, <2>2, PathEnds
<1>6. CASE Goes([rd EXCEPT !.at = @ + 1], gk_getline)
  <2>1. rd' = [rd EXCEPT !.at = @ + 1] /\ heap' = heap \cup {"line"}
    BY <1>6 DEF Goes, gk_getline
  <2>2. /\ DOMAIN rd' = DOMAIN rd /\ rd'.pc = rd.pc /\ rd'.call = rd.call /\ rd'.head = rd.head
        /\ rd'.ret = rd.ret /\ rd'.sig = rd.sig /\ rd'.ents = rd.ents /\ rd'.cap = rd.cap
        /\ rd'.ptr = rd.ptr /\ rd'.rows = rd.rows
    BY <1>2, <2>1 DEF Shape
  <2>3. RowsAt'
    BY <1>1, <1>3, <2>1, <2>2 DEF RowsAt, Gathers, RowCount
  <2> QED BY <1>1, <1>2, <2>2, <2>3, GoesOn DEF Working
<1>7. ASSUME NEW head, Counts(head), Goes([rd EXCEPT !.pc = "allocate", !.at = @ + 1, !.head = head], gk_getline)
      PROVE  Sound'
  <2>1. rd' = [rd EXCEPT !.pc = "allocate", !.at = @ + 1, !.head = head] /\ heap' = heap \cup {"line"}
    BY <1>7 DEF Goes, gk_getline
  <2>2. /\ DOMAIN rd' = DOMAIN rd /\ rd'.pc = "allocate" /\ rd'.call = rd.call /\ rd'.head = head
        /\ rd'.ret = rd.ret /\ rd'.sig = rd.sig /\ rd'.ents = rd.ents /\ rd'.cap = rd.cap
        /\ rd'.ptr = rd.ptr /\ rd'.rows = rd.rows
    BY <1>2, <2>1 DEF Shape
  <2>3. RowsAt'
    BY <1>1, <1>3, <1>7, <2>1, <2>2 DEF RowsAt, Gathers, RowCount, Counts
  <2>4. DOMAIN rd'.head = DOMAIN rd.head
    BY <1>2, <1>7, <2>2 DEF Shape, Counts
  <2> QED BY <1>2, <2>2, <2>3, <2>4, GoesOn DEF Working
<1>8. PICK ws : ws = NextLine.words
  OBVIOUS
<1>9. PICK h : h = IF rd.call.fmt = "CLUTO" THEN CLUTOHeader(ws) ELSE METISHeader(ws)
  OBVIOUS
<1>10. h.sig = "none" => Counts(h.head)
  BY <1>9, HeadersCount
<1>11. CASE LineFails({"line"}, {"line"}) \/ (AtEnd /\ gk_csr_TextReadError("SIGERR"))
  BY <1>4, <1>5, <1>11, EndsSound
<1>12. CASE IF HasNul(NextLine) THEN gk_csr_TextReadError("SIGERR")
            ELSE IF IsComment(NextLine) THEN Goes([rd EXCEPT !.at = @ + 1], gk_getline)
            ELSE IF h.sig # "none" THEN gk_csr_TextReadError(h.sig)
            ELSE Goes([rd EXCEPT !.pc = "allocate", !.at = @ + 1, !.head = h.head], gk_getline)
  BY <1>5, <1>6, <1>7, <1>10, <1>12, EndsSound
<1> QED BY <1>8, <1>9, <1>11, <1>12 DEF CSRHeader

(* A call that ends with a result, with its arrays as they are.            *)
LEMMA ResultSound ==
  ASSUME Shape, Quiet, Running, NEW result, result.what # "none",
         rd' = [rd EXCEPT !.pc = "done", !.ret = result],
         stream' = "closed", rd.call.what # "getline" => heap' = ResultBlocks',
         rd.call.what = "seq" => result.items = rd.ents,
         "line" \in heap' => "line" \in heap
  PROVE  Sound'
<1>1. ~Over /\ WithinCapacity
  BY RunningIs
<1>2. /\ DOMAIN rd' = DOMAIN rd /\ rd'.pc = "done" /\ rd'.call = rd.call /\ rd'.head = rd.head /\ rd'.sig = rd.sig
      /\ rd'.ret = result /\ rd'.ents = rd.ents /\ rd'.cap = rd.cap /\ rd'.ptr = rd.ptr /\ rd'.rows = rd.rows
  BY DEF Shape
<1>3. Shape' /\ Over' /\ HasResult'
  BY <1>2 DEF Shape, Over, HasResult
<1>4. Quiet' /\ rd'.sig = "none"
  BY <1>1, <1>2, <1>3 DEF Quiet
<1>5. NothingLeaked'
  BY <1>2, <1>4 DEF NothingLeaked
<1>6. WithinCapacity'
  <2>1. rd.call.what = "getline" /\ "line" \in heap' => Len(rd.ents) < rd.cap
    <3>1. ASSUME rd.call.what = "getline", rd.pc # "open" PROVE Len(rd.ents) < rd.cap
      BY <3>1, Where DEF GetlineAt
    <3>2. ASSUME rd.call.what = "getline", rd.pc = "open" PROVE "line" \notin heap'
      BY <3>2, Begins
    <3> QED BY <3>1, <3>2
  <2> QED BY <1>1, <1>2, <2>1 DEF WithinCapacity, RowCount
<1>7. rd'.call.what = "seq" => rd'.ret.items = rd'.ents
  BY <1>2
<1> QED BY <1>3, <1>4, <1>5, <1>6, <1>7 DEF Sound, Ended, At

LEMMA CSRAllocateSound ==
  ASSUME Sound, CSRAllocate
  PROVE  Sound'
<1>1. rd.call.what = "csr" /\ rd.pc = "allocate" /\ ~Over
  BY DEF CSRAllocate, At, Over
<1>2. Shape /\ Quiet /\ Running
  BY <1>1, SoundRuns
<1>3. RowsAt /\ heap \subseteq {"line"} /\ rd.ents = <<>> /\ RowCount = 0
  BY <1>1, <1>2, Where DEF RowsAt
<1>4. PICK wanted : wanted = Blocks(HasVals, rd.head.sizes, rd.head.wgts)
  OBVIOUS
<1>5. wanted \subseteq Object /\ "line" \notin wanted
  BY <1>4, BlocksIn
<1>6. CASE gk_csr_TextAllocationError(wanted)
  <2>1. PICK freed : freed = {"line"} \cup Object
    OBVIOUS
  <2>2. heap \subseteq freed /\ wanted \subseteq freed /\ OutOfMemory(wanted, freed)
    BY <1>3, <1>5, <1>6, <2>1 DEF gk_csr_TextAllocationError
  <2> QED BY <1>1, <1>2, <2>2, PathEnds, EndsSound
<1>7. CASE Goes([rd EXCEPT !.pc = "rows", !.rows = rd.head.nrows, !.cap = rd.head.nnz], wanted)
  <2>1. rd' = [rd EXCEPT !.pc = "rows", !.rows = rd.head.nrows, !.cap = rd.head.nnz] /\ heap' = heap \cup wanted
    BY <1>7 DEF Goes
  <2>2. /\ DOMAIN rd' = DOMAIN rd /\ rd'.pc = "rows" /\ rd'.call = rd.call /\ rd'.head = rd.head
        /\ rd'.ret = rd.ret /\ rd'.sig = rd.sig /\ rd'.ents = rd.ents /\ rd'.cap = rd.head.nnz
        /\ rd'.ptr = rd.ptr /\ rd'.rows = rd.head.nrows
    BY <1>2, <2>1 DEF Shape
  <2>3. heap' \ {"line"} = wanted
    BY <1>3, <1>5, <2>1
  <2>4. heap' \ {"line"} = Blocks(HasVals, rd.head.sizes, rd.head.wgts)'
    BY <1>4, <2>2, <2>3 DEF HasVals, Dynamic
  <2>5. Gathers'
    BY <1>3, <2>2, NoEntries DEF RowsAt, Gathers
  <2>6. RowCount' = 0 /\ rd'.rows \in Nat /\ RowCount' <= rd'.rows
    <3>1. rd.head.nrows \in Nat
      BY <1>3 DEF RowsAt
    <3>2. RowCount' = RowCount
      BY <2>2 DEF RowCount
    <3> QED BY <1>3, <2>2, <3>1, <3>2
  <2>7. RowsAt'
    BY <1>1, <1>3, <2>2, <2>4, <2>5, <2>6 DEF RowsAt
  <2> QED BY <1>2, <2>2, <2>7, GoesOn DEF Working
<1> QED BY <1>4, <1>6, <1>7 DEF CSRAllocate

(* A row is one more in the pointers, and its entries fit.                 *)
LEMMA RowsGrow ==
  ASSUME RowsAt, NEW n \in Nat, n = RowCount + 1, RowCount = rd.rows => RowCount < Int32Max
  PROVE  CSRRows(n) \in Nat /\ n <= CSRRows(n)
<1>1. Int32Max \in Nat /\ RowCount \in Nat /\ rd.rows \in Nat /\ RowCount <= rd.rows
  BY WordConstants DEF RowsAt
<1>2. CASE n <= rd.rows
  BY <1>1, <1>2 DEF CSRRows
<1>3. CASE ~ (n <= rd.rows)
  <2>1. rd.rows = RowCount /\ n <= Int32Max /\ 2 * rd.rows \in Nat
    BY <1>1, <1>3
  <2> QED BY <1>1, <1>3, <2>1 DEF CSRRows
<1> QED BY <1>2, <1>3

LEMMA CSRRowGoes ==
  ASSUME Shape, Quiet, Running, RowsAt, rd.pc = "rows", NEW row, NEW lab, NEW ws,
         row = RowOf(CSRFields, ws), RowCount = rd.rows => RowCount < Int32Max,
         Goes([rd EXCEPT
           !.at = @ + 1, !.ptr = Append(@, Len(rd.ents) + Len(row.ents)), !.ents = @ \o row.ents,
           !.lab = Append(@, lab),
           !.rows = CSRRows(RowCount + 1), !.cap = CSREntries(Len(rd.ents) + Len(row.ents))], gk_getline)
  PROVE  Sound'
<1>1. /\ Listed(rd.ents) /\ Len(rd.ents) \in Nat /\ rd.cap \in Nat /\ Len(rd.ents) <= rd.cap
      /\ Listed(rd.ptr) /\ RowCount \in Nat
  BY ListedLaws DEF RowsAt, Gathers
<1>2. PICK f : f = CSRFields
  OBVIOUS
<1>3. f.room \in Nat
  BY <1>1, <1>2, WordConstants DEF CSRFields
<1>4. Listed(row.ents) /\ Len(row.ents) \in Nat
  <2>1. Listed(RowOf(f, ws).ents)
    BY <1>3, RowLaw
  <2>2. Listed(row.ents)
    BY <1>2, <2>1
  <2> QED BY <2>2, ListedLaws
<1>5. PICK size : size = Len(rd.ents) + Len(row.ents)
  OBVIOUS
<1>6. PICK ents : ents = rd.ents \o row.ents
  OBVIOUS
<1>7. Listed(ents) /\ Len(ents) = size /\ size \in Nat
  <2>1. PICK r : r = row.ents
    OBVIOUS
  <2>2. Listed(r) /\ Len(r) \in Nat
    BY <1>4, <2>1
  <2>3. PICK e : e = rd.ents
    OBVIOUS
  <2>4. Listed(e) /\ Len(e) \in Nat
    BY <1>1, <2>3
  <2>5. Listed(e \o r) /\ Len(e \o r) = Len(e) + Len(r)
    BY <2>2, <2>4, ListedLaws
  <2>6. ents = e \o r
    BY <1>6, <2>1, <2>3, Zenon
  <2>7. size = Len(e) + Len(r)
    BY <1>5, <2>1, <2>3, Zenon
  <2> QED BY <2>2, <2>4, <2>5, <2>6, <2>7
<1>8. PICK ptr : ptr = Append(rd.ptr, size)
  OBVIOUS
<1>9. Listed(ptr) /\ Len(ptr) = Len(rd.ptr) + 1
  BY <1>1, <1>8, ListedLaws
<1>10. PICK rows, cap : rows = CSRRows(RowCount + 1) /\ cap = CSREntries(size)
  OBVIOUS
<1>11. rows \in Nat /\ RowCount + 1 <= rows
  BY <1>1, <1>10, RowsGrow
<1>12. cap \in Nat /\ size <= cap
  <2>1. cap = Grown(rd.cap, 1, size) /\ 1 \in Nat \ {0}
    BY <1>10 DEF CSREntries
  <2> QED BY <1>1, <1>7, <2>1, GrownLaw
<1>13. PICK labs : labs = Append(rd.lab, lab)
  OBVIOUS
<1>14. rd' = [rd EXCEPT !.at = @ + 1, !.ptr = ptr, !.ents = ents, !.lab = labs, !.rows = rows, !.cap = cap]
       /\ heap' = heap \cup {"line"}
  BY <1>5, <1>6, <1>8, <1>10, <1>13 DEF Goes, gk_getline
<1>15. /\ DOMAIN rd' = DOMAIN rd /\ rd'.pc = "rows" /\ rd'.call = rd.call /\ rd'.head = rd.head
       /\ rd'.ret = rd.ret /\ rd'.sig = rd.sig /\ rd'.ents = ents /\ rd'.cap = cap
       /\ rd'.ptr = ptr /\ rd'.rows = rows
  BY <1>14 DEF Shape
<1>16. Gathers' /\ RowCount' = RowCount + 1
  <2>1. Len(rd.ptr) \in Nat
    BY <1>1, ListedLaws
  <2> QED BY <1>7, <1>9, <1>12, <1>15, <2>1 DEF Gathers, RowCount
<1>17. heap' \ {"line"} = Blocks(HasVals, rd.head.sizes, rd.head.wgts)'
  <2>1. heap \ {"line"} = Blocks(HasVals, rd.head.sizes, rd.head.wgts)
    BY DEF RowsAt
  <2>2. heap' \ {"line"} = heap \ {"line"}
    BY <1>14
  <2> QED BY <1>15, <2>1, <2>2 DEF HasVals, Dynamic
<1>18. RowsAt'
  BY <1>1, <1>9, <1>11, <1>15, <1>16, <1>17 DEF RowsAt
<1> QED BY <1>15, <1>18, GoesOn DEF Working

LEMMA CSRPaths ==
  ASSUME Shape, Quiet, Running, RowsAt, rd.pc \in {"rows", "close"}
  PROVE  /\ \A sig : gk_csr_TextReadError(sig) => Ends'
         /\ \A wanted \in SUBSET Object : gk_csr_TextAllocationError(wanted) => Ends'
         /\ LineFails({"line"} \cup Object, {"line"} \cup Object) => Ends'
         /\ \A what : Broken(what, {"line"} \cup Object) => Ends'
<1>1. PICK freed : freed = {"line"} \cup Object
  OBVIOUS
<1>2. heap \subseteq freed
  <2>1. heap \ {"line"} \subseteq Object
    BY BlocksIn DEF RowsAt
  <2> QED BY <1>1, <2>1
<1>3. rd.call.what # "getline" /\ \A wanted \in SUBSET Object : wanted \subseteq freed
  BY <1>1 DEF RowsAt
<1> QED BY <1>1, <1>2, <1>3, PathEnds DEF gk_csr_TextReadError, gk_csr_TextAllocationError

(* A line that is passed over, or the last.                                *)
LEMMA CSRPasses ==
  ASSUME Shape, Quiet, Running, RowsAt, rd.pc = "rows", NEW next, NEW got \in SUBSET {"line"}, Goes(next, got),
         next = [rd EXCEPT !.at = @ + 1] \/ next = [rd EXCEPT !.pc = "close"]
  PROVE  Sound'
<1>1. rd' = next /\ heap' = heap \cup got
  BY DEF Goes
<1>2. /\ DOMAIN rd' = DOMAIN rd /\ rd'.pc \in {"rows", "close"} /\ rd'.call = rd.call /\ rd'.head = rd.head
      /\ rd'.ret = rd.ret /\ rd'.sig = rd.sig /\ rd'.ents = rd.ents /\ rd'.cap = rd.cap
      /\ rd'.ptr = rd.ptr /\ rd'.rows = rd.rows
  BY <1>1 DEF Shape
<1>3. heap' \ {"line"} = Blocks(HasVals, rd.head.sizes, rd.head.wgts)'
  <2>1. heap \ {"line"} = Blocks(HasVals, rd.head.sizes, rd.head.wgts)
    BY DEF RowsAt
  <2>2. heap' \ {"line"} = heap \ {"line"}
    BY <1>1
  <2> QED BY <1>2, <2>1, <2>2 DEF HasVals, Dynamic
<1>4. RowsAt'
  BY <1>2, <1>3 DEF RowsAt, Gathers, RowCount
<1> QED BY <1>2, <1>4, GoesOn DEF Working

LEMMA CSRRowSound ==
  ASSUME Sound, CSRRow
  PROVE  Sound'
<1>1. rd.call.what = "csr" /\ rd.pc = "rows" /\ ~Over
  BY DEF CSRRow, At, Over
<1>2. Shape /\ Quiet /\ Running /\ RowsAt
  <2>1. Shape /\ Quiet /\ Running
    BY <1>1, SoundRuns
  <2> QED BY <1>1, <2>1, Where
<1>3. /\ \A sig : gk_csr_TextReadError(sig) => Sound'
      /\ \A wanted \in SUBSET Object : gk_csr_TextAllocationError(wanted) => Sound'
      /\ LineFails({"line"} \cup Object, {"line"} \cup Object) => Sound'
  BY <1>1, <1>2, CSRPaths, EndsSound
<1>4. {"ptr"} \in SUBSET Object /\ EntryBlocks \in SUBSET Object
  BY DEF Object, Blocks, EntryBlocks
<1>5. gk_getline \in SUBSET {"line"}
  BY DEF gk_getline
<1>6. CASE LineFails({"line"} \cup Object, {"line"} \cup Object)
  BY <1>3, <1>6
<1>7. CASE IF Dynamic THEN Goes([rd EXCEPT !.pc = "close"], gk_getline) ELSE gk_csr_TextReadError("SIGERR")
  BY <1>1, <1>2, <1>3, <1>5, <1>7, CSRPasses
<1>8. CASE /\ HasLine
           /\ ~LineFails({"line"} \cup Object, {"line"} \cup Object)
           /\ ~(IF Dynamic THEN Goes([rd EXCEPT !.pc = "close"], gk_getline) ELSE gk_csr_TextReadError("SIGERR"))
  <2>1. CASE HasNul(NextLine)
    BY <1>3, <1>8, <2>1 DEF CSRRow
  <2>2. CASE ~HasNul(NextLine) /\ IsComment(NextLine)
    <3>1. Goes([rd EXCEPT !.at = @ + 1], gk_getline)
      BY <1>8, <2>2 DEF CSRRow
    <3> QED BY <1>1, <1>2, <1>5, <3>1, CSRPasses
  <2>3. CASE ~HasNul(NextLine) /\ ~IsComment(NextLine)
    <3> DEFINE ws == NextLine.words
               n == Places0(0)
               row == RowOf(CSRFields, AfterLabel(ws, n, TRUE))
               size == Len(rd.ents) + Len(row.ents)
               wanted == size + (IF StartsInt(row.rest) /\ InRange(IntAt(row.rest)) THEN 1 ELSE 0)
               next == [rd EXCEPT
                         !.at = @ + 1, !.ptr = Append(@, size), !.ents = @ \o row.ents,
                         !.lab = Append(@, LabelOf(ws, n, TRUE)),
                         !.rows = CSRRows(RowCount + 1), !.cap = CSREntries(size)]
    <3>1. IF RowCount = rd.rows /\ RowCount >= Int32Max THEN gk_csr_TextReadError("SIGMEM")
          ELSE \/ RowCount = rd.rows /\ gk_csr_TextAllocationError({"ptr"})
               \/ ~LabelFits(ws, n, TRUE) /\ gk_csr_TextReadError("SIGERR")
               \/ /\ LabelFits(ws, n, TRUE)
                  /\ \/ Dynamic /\ wanted > rd.cap /\ gk_csr_TextAllocationError(EntryBlocks)
                     \/ row.rest # <<>> /\ gk_csr_TextReadError("SIGERR")
                     \/ row.rest = <<>> /\ Goes(next, gk_getline)
      BY <1>8, <2>3 DEF CSRRow
    <3>2. RowCount = rd.rows /\ ~(RowCount >= Int32Max) => RowCount < Int32Max
      BY <1>2, WordConstants DEF RowsAt
    <3>3. ASSUME RowCount = rd.rows => RowCount < Int32Max, Goes(next, gk_getline) PROVE Sound'
      <4>1. PICK r, lab, after : r = row /\ lab = LabelOf(ws, n, TRUE) /\ after = AfterLabel(ws, n, TRUE)
        OBVIOUS
      <4>2. r = RowOf(CSRFields, after)
        BY <4>1
      <4>3. Goes([rd EXCEPT
              !.at = @ + 1, !.ptr = Append(@, Len(rd.ents) + Len(r.ents)), !.ents = @ \o r.ents,
              !.lab = Append(@, lab),
              !.rows = CSRRows(RowCount + 1), !.cap = CSREntries(Len(rd.ents) + Len(r.ents))], gk_getline)
        BY <3>3, <4>1
      <4> QED BY <1>1, <1>2, <3>3, <4>2, <4>3, CSRRowGoes
    <3> HIDE DEF ws, n, row, size, wanted, next
    <3> QED BY <1>3, <1>4, <3>1, <3>2, <3>3
  <2> QED BY <2>1, <2>2, <2>3
<1> QED BY <1>6, <1>7, <1>8 DEF CSRRow

LEMMA CSRTailSound ==
  ASSUME Sound, CSRTail
  PROVE  Sound'
<1>1. rd.call.what = "csr" /\ rd.pc = "rows" /\ ~Over
  BY DEF CSRTail, At, Over
<1>2. Shape /\ Quiet /\ Running /\ RowsAt
  <2>1. Shape /\ Quiet /\ Running
    BY <1>1, SoundRuns
  <2> QED BY <1>1, <2>1, Where
<1>3. /\ \A sig : gk_csr_TextReadError(sig) => Sound'
      /\ LineFails({"line"} \cup Object, {"line"} \cup Object) => Sound'
  BY <1>1, <1>2, CSRPaths, EndsSound
<1>4. Goes([rd EXCEPT !.pc = "close"], {}) => Sound'
  BY <1>1, <1>2, CSRPasses
<1>5. Goes([rd EXCEPT !.at = @ + 1], {}) => Sound'
  BY <1>1, <1>2, CSRPasses
<1> QED BY <1>3, <1>4, <1>5 DEF CSRTail

LEMMA CSRCloseSound ==
  ASSUME Sound, CSRClose
  PROVE  Sound'
<1>1. rd.call.what = "csr" /\ rd.pc = "close" /\ ~Over
  BY DEF CSRClose, AtFormat, At, Over
<1>2. Shape /\ Quiet /\ Running /\ RowsAt
  <2>1. Shape /\ Quiet /\ Running
    BY <1>1, SoundRuns
  <2> QED BY <1>1, <2>1, Where
<1>3. CASE Broken("file", {"line"} \cup Object)
  BY <1>1, <1>2, <1>3, CSRPaths, EndsSound
<1>4. CASE Closes([rd EXCEPT !.pc = "done", !.ret = CSRMatrix], {"line"})
  <2>1. PICK result : result = CSRMatrix
    OBVIOUS
  <2>2. result.what = "csr" /\ result.vals = HasVals
    BY <2>1 DEF CSRMatrix, Result
  <2>3. rd' = [rd EXCEPT !.pc = "done", !.ret = result] /\ heap' = heap \ {"line"} /\ stream' = "closed"
    BY <1>4, <2>1 DEF Closes
  <2>4. rd'.call = rd.call /\ rd'.head = rd.head /\ rd'.ret = result
    BY <1>2, <2>3 DEF Shape
  <2>5. heap' = Blocks(HasVals, rd.head.sizes, rd.head.wgts)
    BY <1>1, <1>2, <2>3 DEF RowsAt
  <2>6. ResultBlocks' = Blocks(HasVals, rd.head.sizes, rd.head.wgts)
    BY <1>1, <2>2, <2>4 DEF ResultBlocks, HasResult, Matrixwise, Blocks
  <2>7. "line" \notin heap'
    BY <2>3
  <2> QED BY <1>1, <1>2, <2>2, <2>3, <2>5, <2>6, <2>7, ResultSound
<1> QED BY <1>3, <1>4 DEF CSRClose

LEMMA GraphOpenSound ==
  ASSUME Sound, GraphOpen
  PROVE  Sound'
<1>1. rd.call.what = "graph" /\ rd.call.fmt = "METIS" /\ rd.pc = "open" /\ ~Over
  BY DEF GraphOpen, AtFormat, At, Over
<1>2. Shape /\ Quiet /\ Running
  BY <1>1, SoundRuns
<1>3. rd.ents = <<>> /\ rd.cap = 0 /\ rd.head = NoHeader /\ heap = {}
  BY <1>1, <1>2, Begins
<1>4. CASE CannotOpen({})
  <2>1. Ends'
    BY <1>1, <1>2, <1>3, <1>4, PathEnds
  <2> QED BY <2>1, EndsSound
<1>5. CASE Opened([rd EXCEPT !.pc = "header"])
  <2>1. rd' = [rd EXCEPT !.pc = "header"] /\ heap' = heap
    BY <1>5 DEF Opened
  <2>2. /\ DOMAIN rd' = DOMAIN rd /\ rd'.pc = "header" /\ rd'.call = rd.call /\ rd'.head = rd.head
        /\ rd'.ret = rd.ret /\ rd'.sig = rd.sig /\ rd'.ents = rd.ents /\ rd'.cap = rd.cap
    BY <1>2, <2>1 DEF Shape
  <2>3. Gathers' /\ rd'.head.nnz = 0
    BY <1>3, <2>2, NoEntries DEF Gathers, NoHeader
  <2>4. VerticesAt'
    BY <1>1, <1>3, <2>1, <2>2, <2>3 DEF VerticesAt
  <2> QED BY <1>2, <2>2, <2>4, GoesOn DEF Working
<1> QED BY <1>4, <1>5 DEF GraphOpen, gk_fopen

LEMMA GraphPaths ==
  ASSUME Shape, Quiet, Running, VerticesAt
  PROVE  /\ \A sig : gk_graph_ReadError(sig) => Sound'
         /\ \A wanted \in SUBSET Object : gk_graph_ReadAllocationError(wanted) => Sound'
         /\ LineFails({"line"} \cup Object, {"line"} \cup Object) => Sound'
         /\ \A what : Broken(what, {"line"} \cup Object) => Sound'
<1>1. PICK freed : freed = {"line"} \cup Object
  OBVIOUS
<1>2. heap \subseteq freed
  <2>1. heap \ {"line"} \subseteq Object
    BY BlocksIn DEF VerticesAt
  <2> QED BY <1>1, <2>1
<1>3. rd.call.what # "getline" /\ \A wanted \in SUBSET Object : wanted \subseteq freed
  BY <1>1 DEF VerticesAt
<1> QED BY <1>1, <1>2, <1>3, PathEnds, EndsSound DEF gk_graph_ReadError, gk_graph_ReadAllocationError

LEMMA GraphHeaderSound ==
  ASSUME Sound, GraphHeader
  PROVE  Sound'
<1>1. rd.call.what = "graph" /\ rd.call.fmt = "METIS" /\ rd.pc = "header" /\ ~Over
  BY DEF GraphHeader, AtFormat, At, Over
<1>2. Shape /\ Quiet /\ Running /\ VerticesAt
  <2>1. Shape /\ Quiet /\ Running
    BY <1>1, SoundRuns
  <2> QED BY <1>1, <2>1, Where
<1>3. heap \subseteq {"line"} /\ rd.ents = <<>>
  BY <1>1, <1>2 DEF VerticesAt
<1>4. LineFails({"line"}, {"line"}) => Sound'
  BY <1>1, <1>2, <1>3, PathEnds, EndsSound
<1>5. \A sig : gk_graph_ReadError(sig) => Sound'
  BY <1>2, GraphPaths
<1>6. CASE Goes([rd EXCEPT !.at = @ + 1], gk_getline)
  <2>1. rd' = [rd EXCEPT !.at = @ + 1] /\ heap' = heap \cup {"line"}
    BY <1>6 DEF Goes, gk_getline
  <2>2. /\ DOMAIN rd' = DOMAIN rd /\ rd'.pc = rd.pc /\ rd'.call = rd.call /\ rd'.head = rd.head
        /\ rd'.ret = rd.ret /\ rd'.sig = rd.sig /\ rd'.ents = rd.ents /\ rd'.cap = rd.cap
    BY <1>2, <2>1 DEF Shape
  <2>3. VerticesAt'
    BY <1>1, <1>2, <1>3, <2>1, <2>2 DEF VerticesAt, Gathers
  <2> QED BY <1>1, <1>2, <2>2, <2>3, GoesOn DEF Working
<1>7. ASSUME NEW head, Counts(head), Goes([rd EXCEPT !.pc = "allocate", !.at = @ + 1, !.head = head], gk_getline)
      PROVE  Sound'
  <2>1. rd' = [rd EXCEPT !.pc = "allocate", !.at = @ + 1, !.head = head] /\ heap' = heap \cup {"line"}
    BY <1>7 DEF Goes, gk_getline
  <2>2. /\ DOMAIN rd' = DOMAIN rd /\ rd'.pc = "allocate" /\ rd'.call = rd.call /\ rd'.head = head
        /\ rd'.ret = rd.ret /\ rd'.sig = rd.sig /\ rd'.ents = rd.ents /\ rd'.cap = rd.cap
    BY <1>2, <2>1 DEF Shape
  <2>3. VerticesAt'
    BY <1>1, <1>2, <1>3, <1>7, <2>1, <2>2 DEF VerticesAt, Gathers, Counts
  <2>4. DOMAIN rd'.head = DOMAIN rd.head
    BY <1>2, <1>7, <2>2 DEF Shape, Counts
  <2> QED BY <1>2, <2>2, <2>3, <2>4, GoesOn DEF Working
<1>8. PICK h : h = GraphSizes(NextLine.words)
  OBVIOUS
<1>9. h.sig = "none" => Counts(h.head)
  BY <1>8, HeadersCount
<1>10. CASE LineFails({"line"}, {"line"}) \/ (AtEnd /\ gk_graph_ReadError("SIGERR"))
  BY <1>4, <1>5, <1>10
<1>11. CASE IF HasNul(NextLine) THEN gk_graph_ReadError("SIGERR")
            ELSE IF IsComment(NextLine) THEN Goes([rd EXCEPT !.at = @ + 1], gk_getline)
            ELSE IF h.sig # "none" THEN gk_graph_ReadError(h.sig)
            ELSE Goes([rd EXCEPT !.pc = "allocate", !.at = @ + 1, !.head = h.head], gk_getline)
  BY <1>5, <1>6, <1>7, <1>9, <1>11
<1> QED BY <1>8, <1>10, <1>11 DEF GraphHeader

LEMMA GraphAllocateSound ==
  ASSUME Sound, GraphAllocate
  PROVE  Sound'
<1>1. rd.call.what = "graph" /\ rd.call.fmt = "METIS" /\ rd.pc = "allocate" /\ ~Over
  BY DEF GraphAllocate, AtFormat, At, Over
<1>2. Shape /\ Quiet /\ Running /\ VerticesAt
  <2>1. Shape /\ Quiet /\ Running
    BY <1>1, SoundRuns
  <2> QED BY <1>1, <2>1, Where
<1>3. heap \subseteq {"line"} /\ rd.ents = <<>> /\ rd.head.nnz \in Nat
  BY <1>1, <1>2 DEF VerticesAt
<1>4. PICK wanted : wanted = Blocks(rd.head.vals, rd.head.sizes, rd.head.wgts)
  OBVIOUS
<1>5. wanted \in SUBSET Object /\ "line" \notin wanted
  BY <1>4, BlocksIn
<1>6. CASE gk_graph_ReadAllocationError(wanted)
  BY <1>2, <1>5, <1>6, GraphPaths
<1>7. CASE Goes([rd EXCEPT !.pc = "rows", !.rows = rd.head.nrows, !.cap = rd.head.nnz], wanted)
  <2>1. rd' = [rd EXCEPT !.pc = "rows", !.rows = rd.head.nrows, !.cap = rd.head.nnz] /\ heap' = heap \cup wanted
    BY <1>7 DEF Goes
  <2>2. /\ DOMAIN rd' = DOMAIN rd /\ rd'.pc = "rows" /\ rd'.call = rd.call /\ rd'.head = rd.head
        /\ rd'.ret = rd.ret /\ rd'.sig = rd.sig /\ rd'.ents = rd.ents /\ rd'.cap = rd.head.nnz
    BY <1>2, <2>1 DEF Shape
  <2>3. heap' \ {"line"} = wanted
    BY <1>3, <1>5, <2>1
  <2>4. heap' \ {"line"} = Blocks(rd.head.vals, rd.head.sizes, rd.head.wgts)'
    BY <1>4, <2>2, <2>3
  <2>5. Gathers'
    BY <1>3, <2>2, NoEntries DEF Gathers
  <2>6. VerticesAt'
    BY <1>1, <1>3, <2>2, <2>4, <2>5 DEF VerticesAt
  <2> QED BY <1>2, <2>2, <2>6, GoesOn DEF Working
<1> QED BY <1>4, <1>6, <1>7 DEF GraphAllocate

LEMMA GraphRowSound ==
  ASSUME Sound, GraphRow
  PROVE  Sound'
<1>1. rd.call.what = "graph" /\ rd.call.fmt = "METIS" /\ rd.pc = "rows" /\ ~Over
  BY DEF GraphRow, AtFormat, At, Over
<1>2. Shape /\ Quiet /\ Running /\ VerticesAt
  <2>1. Shape /\ Quiet /\ Running
    BY <1>1, SoundRuns
  <2> QED BY <1>1, <2>1, Where
<1>3. /\ \A sig : gk_graph_ReadError(sig) => Sound'
      /\ LineFails({"line"} \cup Object, {"line"} \cup Object) => Sound'
  BY <1>2, GraphPaths
<1>4. heap \ {"line"} = Blocks(rd.head.vals, rd.head.sizes, rd.head.wgts)
  BY <1>1, <1>2 DEF VerticesAt
<1>5. ASSUME rd' = [rd EXCEPT !.at = @ + 1] , heap' = heap \cup {"line"} PROVE Sound'
  <2>1. /\ DOMAIN rd' = DOMAIN rd /\ rd'.pc = rd.pc /\ rd'.call = rd.call /\ rd'.head = rd.head
        /\ rd'.ret = rd.ret /\ rd'.sig = rd.sig /\ rd'.ents = rd.ents /\ rd'.cap = rd.cap
    BY <1>2, <1>5 DEF Shape
  <2>2. heap' \ {"line"} = Blocks(rd.head.vals, rd.head.sizes, rd.head.wgts)'
    <3>1. heap' \ {"line"} = heap \ {"line"}
      BY <1>5
    <3> QED BY <1>4, <2>1, <3>1
  <2>3. VerticesAt'
    BY <1>1, <1>2, <2>1, <2>2 DEF VerticesAt, Gathers
  <2> QED BY <1>1, <1>2, <2>1, <2>3, GoesOn DEF Working
<1>6. ASSUME NEW row, NEW after, NEW lab, row = RowOf(GraphFields, after),
             Goes([rd EXCEPT !.at = @ + 1, !.ents = @ \o row.ents,
                             !.ptr = Append(@, Len(rd.ents) + Len(row.ents)), !.lab = Append(@, lab)], gk_getline)
      PROVE  Sound'
  <2>1. Listed(rd.ents) /\ Len(rd.ents) \in Nat /\ rd.cap \in Nat /\ Len(rd.ents) <= rd.cap
    BY <1>2, ListedLaws DEF VerticesAt, Gathers
  <2>2. PICK f : f = GraphFields
    OBVIOUS
  <2>3. f.room = rd.cap - Len(rd.ents) /\ f.room \in Nat
    BY <2>1, <2>2 DEF GraphFields
  <2>4. Listed(row.ents) /\ Len(row.ents) \in Nat /\ Len(row.ents) <= f.room
    BY <1>6, <2>2, <2>3, RowLaw, ListedLaws
  <2>5. PICK ents : ents = rd.ents \o row.ents
    OBVIOUS
  <2>6. Listed(ents) /\ Len(ents) <= rd.cap
    <3>1. Listed(ents) /\ Len(ents) = Len(rd.ents) + Len(row.ents)
      BY <2>1, <2>4, <2>5, ListedLaws
    <3> DEFINE a == Len(rd.ents)
               b == Len(row.ents)
    <3>2. a \in Nat /\ b \in Nat /\ b <= rd.cap - a /\ rd.cap \in Nat
      BY <2>1, <2>3, <2>4
    <3>3. Len(ents) = a + b
      BY <3>1
    <3>4. PICK n, c : n = Len(ents) /\ c = rd.cap
      OBVIOUS
    <3> HIDE DEF a, b
    <3>5. n <= c
      BY <3>2, <3>3, <3>4
    <3> QED BY <3>1, <3>4, <3>5
  <2>7. PICK ptr, labs : ptr = Append(rd.ptr, Len(rd.ents) + Len(row.ents)) /\ labs = Append(rd.lab, lab)
    OBVIOUS
  <2>8. rd' = [rd EXCEPT !.at = @ + 1, !.ents = ents, !.ptr = ptr, !.lab = labs] /\ heap' = heap \cup {"line"}
    BY <1>6, <2>5, <2>7 DEF Goes, gk_getline
  <2>9. /\ DOMAIN rd' = DOMAIN rd /\ rd'.pc = rd.pc /\ rd'.call = rd.call /\ rd'.head = rd.head
        /\ rd'.ret = rd.ret /\ rd'.sig = rd.sig /\ rd'.ents = ents /\ rd'.cap = rd.cap
    BY <1>2, <2>8 DEF Shape
  <2>10. Gathers'
    BY <2>1, <2>6, <2>9 DEF Gathers
  <2>11. heap' \ {"line"} = Blocks(rd.head.vals, rd.head.sizes, rd.head.wgts)'
    <3>1. heap' \ {"line"} = heap \ {"line"}
      BY <2>8
    <3> QED BY <1>4, <2>9, <3>1
  <2>12. VerticesAt'
    BY <1>1, <1>2, <2>9, <2>10, <2>11 DEF VerticesAt
  <2> QED BY <1>1, <1>2, <2>9, <2>12, GoesOn DEF Working
<1>7. CASE LineFails({"line"} \cup Object, {"line"} \cup Object) \/ (AtEnd /\ gk_graph_ReadError("SIGERR"))
  BY <1>3, <1>7
<1>8. CASE HasLine /\ IF HasNul(NextLine) THEN gk_graph_ReadError("SIGERR")
           ELSE IF IsComment(NextLine) THEN Goes([rd EXCEPT !.at = @ + 1], gk_getline)
           ELSE LET ws == NextLine.words
                    row == RowOf(GraphFields, AfterLabel(ws, GraphLabels, Float))
                IN IF ~LabelFits(ws, GraphLabels, Float) \/ row.rest # <<>> THEN gk_graph_ReadError("SIGERR")
                   ELSE Goes([rd EXCEPT !.at = @ + 1, !.ents = @ \o row.ents,
                                        !.ptr = Append(@, Len(rd.ents) + Len(row.ents)),
                                        !.lab = Append(@, LabelOf(ws, GraphLabels, Float))], gk_getline)
  <2>1. PICK after, lab : after = AfterLabel(NextLine.words, GraphLabels, Float) /\ lab = LabelOf(NextLine.words, GraphLabels, Float)
    OBVIOUS
  <2>2. PICK row : row = RowOf(GraphFields, after)
    OBVIOUS
  <2>3. \/ gk_graph_ReadError("SIGERR")
        \/ Goes([rd EXCEPT !.at = @ + 1], gk_getline)
        \/ Goes([rd EXCEPT !.at = @ + 1, !.ents = @ \o row.ents,
                           !.ptr = Append(@, Len(rd.ents) + Len(row.ents)), !.lab = Append(@, lab)], gk_getline)
    BY <1>8, <2>1, <2>2
  <2>4. CASE Goes([rd EXCEPT !.at = @ + 1], gk_getline)
    BY <1>5, <2>4 DEF Goes, gk_getline
  <2> QED BY <1>3, <1>6, <2>2, <2>3, <2>4
<1> QED BY <1>7, <1>8 DEF GraphRow

LEMMA GraphTailSound ==
  ASSUME Sound, GraphTail
  PROVE  Sound'
<1>1. rd.call.what = "graph" /\ rd.call.fmt = "METIS" /\ rd.pc = "rows" /\ ~Over
  BY DEF GraphTail, AtFormat, At, Over
<1>2. Shape /\ Quiet /\ Running /\ VerticesAt
  <2>1. Shape /\ Quiet /\ Running
    BY <1>1, SoundRuns
  <2> QED BY <1>1, <2>1, Where
<1>3. /\ \A sig : gk_graph_ReadError(sig) => Sound'
      /\ LineFails({"line"} \cup Object, {"line"} \cup Object) => Sound'
      /\ Broken("file", {"line"} \cup Object) => Sound'
  BY <1>2, GraphPaths
<1>4. heap \ {"line"} = Blocks(rd.head.vals, rd.head.sizes, rd.head.wgts)
  BY <1>1, <1>2 DEF VerticesAt
<1>5. ASSUME Goes([rd EXCEPT !.at = @ + 1], {}) PROVE Sound'
  <2>0. rd' = [rd EXCEPT !.at = @ + 1] /\ heap' = heap
    BY <1>5 DEF Goes
  <2>1. /\ DOMAIN rd' = DOMAIN rd /\ rd'.pc = rd.pc /\ rd'.call = rd.call /\ rd'.head = rd.head
        /\ rd'.ret = rd.ret /\ rd'.sig = rd.sig /\ rd'.ents = rd.ents /\ rd'.cap = rd.cap
    BY <1>2, <2>0 DEF Shape
  <2>2. heap' \ {"line"} = Blocks(rd.head.vals, rd.head.sizes, rd.head.wgts)'
    BY <1>4, <2>0, <2>1
  <2>3. VerticesAt'
    BY <1>1, <1>2, <2>1, <2>2 DEF VerticesAt, Gathers
  <2> QED BY <1>1, <1>2, <2>1, <2>3, GoesOn DEF Working
<1>6. ASSUME NEW result, result.what = "graph", result.vals = rd.head.vals,
             Closes([rd EXCEPT !.pc = "done", !.ret = result], {"line"})
      PROVE  Sound'
  <2>1. rd' = [rd EXCEPT !.pc = "done", !.ret = result] /\ heap' = heap \ {"line"} /\ stream' = "closed"
    BY <1>6 DEF Closes
  <2>2. rd'.call = rd.call /\ rd'.head = rd.head /\ rd'.ret = result
    BY <1>2, <2>1 DEF Shape
  <2>3. heap' = Blocks(rd.head.vals, rd.head.sizes, rd.head.wgts)
    BY <1>4, <2>1
  <2>4. ResultBlocks' = Blocks(rd.head.vals, rd.head.sizes, rd.head.wgts)
    BY <1>1, <1>6, <2>2 DEF ResultBlocks, HasResult, Matrixwise, Blocks
  <2>5. "line" \notin heap'
    BY <2>1
  <2> QED BY <1>1, <1>2, <1>6, <2>1, <2>3, <2>4, <2>5, ResultSound
<1>7. PICK result : result = Result("graph", rd.head.nrows, rd.head.ncols, TRUE, rd.head.vals,
                                    ViewOf(rd.ptr, rd.ents, rd.head.vals), rd.lab)
  OBVIOUS
<1>8. result.what = "graph" /\ result.vals = rd.head.vals
  BY <1>7 DEF Result
<1>9. \/ gk_graph_ReadError("SIGERR")
      \/ LineFails({"line"} \cup Object, {"line"} \cup Object)
      \/ Goes([rd EXCEPT !.at = @ + 1], {})
      \/ Broken("file", {"line"} \cup Object)
      \/ Closes([rd EXCEPT !.pc = "done", !.ret = result], {"line"})
  BY <1>7 DEF GraphTail
<1> QED BY <1>3, <1>5, <1>6, <1>8, <1>9
-----------------------------------------------------------------------------
(* The readers of triples: what gk_csr_Read and gk_graph_Read do alike.    *)
LEMMA TriplePaths ==
  ASSUME Shape, Quiet, Running, TriplesAt
  PROVE  /\ \A sig : IJVFailure(sig) \/ TripleFailure(sig) => Sound'
         /\ \A wanted \in SUBSET (Triples \cup Object) :
              IJVAllocationFailure(wanted) \/ TripleAllocationFailure(wanted) => Sound'
         /\ LineFails({"line"} \cup Triples \cup Object, {"line"} \cup Triples) => Sound'
         /\ Broken("file", {"line"} \cup Triples) => Sound'
<1>1. rd.call.what # "getline" /\ heap \subseteq {"line"} \cup Triples
  BY DEF TriplesAt
<1>2. PICK small, large : small = {"line"} \cup Triples /\ large = {"line"} \cup Triples \cup Object
  OBVIOUS
<1>3. heap \subseteq small /\ heap \subseteq large
  BY <1>1, <1>2
<1>4. \A wanted \in SUBSET (Triples \cup Object) : wanted \subseteq large
  BY <1>2
<1>5. /\ \A sig : Refuse(small, sig) => Sound'
      /\ \A what : Broken(what, small) => Sound'
  BY <1>1, <1>3, PathEnds, EndsSound
<1>6. /\ \A what : Broken(what, large) => Sound'
      /\ \A wanted : wanted \subseteq large /\ OutOfMemory(wanted, large) => Sound'
  BY <1>1, <1>3, PathEnds, EndsSound
<1>7. LineFails(large, small) => Sound'
  BY <1>5, <1>6 DEF LineFails
<1> QED BY <1>2, <1>4, <1>5, <1>6, <1>7
        DEF IJVFailure, TripleFailure, IJVAllocationFailure, TripleAllocationFailure

LEMMA TripleStarts ==
  ASSUME Shape, Quiet, Running, rd.pc = "open",
         (rd.call.what = "csr" /\ rd.call.fmt = "IJV") \/ (rd.call.what = "graph" /\ rd.call.fmt \in TripleFormats),
         NEW pc \in {"header", "triples"}, pc = "header" => rd.call.what = "graph",
         gk_fopen([rd EXCEPT !.pc = pc])
  PROVE  Sound'
<1>1. rd.ents = <<>> /\ rd.cap = 0 /\ rd.head = NoHeader /\ heap = {}
  BY Begins
<1>2. CASE CannotOpen({})
  BY <1>1, <1>2, PathEnds, EndsSound
<1>3. CASE Opened([rd EXCEPT !.pc = pc])
  <2>1. rd' = [rd EXCEPT !.pc = pc] /\ heap' = heap
    BY <1>3 DEF Opened
  <2>2. /\ DOMAIN rd' = DOMAIN rd /\ rd'.pc = pc /\ rd'.call = rd.call /\ rd'.head = rd.head
        /\ rd'.ret = rd.ret /\ rd'.sig = rd.sig /\ rd'.ents = rd.ents /\ rd'.cap = rd.cap
    BY <2>1 DEF Shape
  <2>3. Gathers' /\ Unlabelled'
    BY <1>1, <2>2, NoEntries DEF Gathers, Unlabelled, NoHeader
  <2>4. TriplesAt'
    BY <1>1, <2>1, <2>2, <2>3 DEF TriplesAt
  <2> QED BY <2>2, <2>4, GoesOn DEF Working
<1> QED BY <1>2, <1>3 DEF gk_fopen

LEMMA TriplePassed ==
  ASSUME Shape, Quiet, Running, TriplesAt, rd.pc = "triples", Goes([rd EXCEPT !.at = @ + 1], gk_getline)
  PROVE  Sound'
<1>1. rd' = [rd EXCEPT !.at = @ + 1] /\ heap' = heap \cup {"line"}
  BY DEF Goes, gk_getline
<1>2. /\ DOMAIN rd' = DOMAIN rd /\ rd'.pc = rd.pc /\ rd'.call = rd.call /\ rd'.head = rd.head
      /\ rd'.ret = rd.ret /\ rd'.sig = rd.sig /\ rd'.ents = rd.ents /\ rd'.cap = rd.cap
  BY <1>1 DEF Shape
<1>3. TriplesAt'
  BY <1>1, <1>2 DEF TriplesAt, Gathers, Unlabelled
<1> QED BY <1>2, <1>3, GoesOn DEF Working

LEMMA TripleTaken ==
  ASSUME Shape, Quiet, Running, TriplesAt, rd.pc = "triples", NEW triple, NEW vals,
         Goes([rd EXCEPT
           !.at = @ + 1, !.ents = Append(@, triple),
           !.cap = IF Len(rd.ents) = rd.cap THEN Grown(@, FirstCap, @ + 1) ELSE @],
           gk_getline \cup TripleBlocks(vals))
  PROVE  Sound'
<1>1. Listed(rd.ents) /\ rd.cap \in Nat /\ Len(rd.ents) <= rd.cap /\ Len(rd.ents) \in Nat
  BY ListedLaws DEF TriplesAt, Gathers
<1>2. PICK ents : ents = Append(rd.ents, triple)
  OBVIOUS
<1>3. Listed(ents) /\ Len(ents) = Len(rd.ents) + 1
  BY <1>1, <1>2, ListedLaws
<1>4. PICK cap : cap = IF Len(rd.ents) = rd.cap THEN Grown(rd.cap, FirstCap, rd.cap + 1) ELSE rd.cap
  OBVIOUS
<1>5. cap \in Nat /\ Len(ents) <= cap
  <2>1. PICK n : n = Len(rd.ents)
    OBVIOUS
  <2>2. PICK grown : grown = Grown(rd.cap, FirstCap, rd.cap + 1)
    OBVIOUS
  <2>3. grown \in Nat /\ rd.cap + 1 <= grown
    <3>1. FirstCap \in Nat \ {0} /\ rd.cap + 1 \in Nat
      BY <1>1, FirstCapPositive
    <3> QED BY <1>1, <2>2, <3>1, GrownLaw
  <2> QED BY <1>1, <1>3, <1>4, <2>1, <2>2, <2>3
<1>6. rd' = [rd EXCEPT !.at = @ + 1, !.ents = ents, !.cap = cap] /\ heap' = heap \cup {"line"} \cup TripleBlocks(vals)
  BY <1>2, <1>4 DEF Goes, gk_getline
<1>7. /\ DOMAIN rd' = DOMAIN rd /\ rd'.pc = rd.pc /\ rd'.call = rd.call /\ rd'.head = rd.head
      /\ rd'.ret = rd.ret /\ rd'.sig = rd.sig /\ rd'.ents = ents /\ rd'.cap = cap
  BY <1>6 DEF Shape
<1>8. Gathers' /\ Unlabelled'
  BY <1>3, <1>5, <1>7 DEF TriplesAt, Gathers, Unlabelled
<1>9. heap' \subseteq {"line"} \cup Triples
  BY <1>6 DEF TriplesAt, TripleBlocks, Triples
<1>10. TriplesAt'
  BY <1>7, <1>8, <1>9 DEF TriplesAt
<1> QED BY <1>7, <1>10, GoesOn DEF Working

(* The end of the file; the head may get dimensions.                       *)
LEMMA TripleClosed ==
  ASSUME Shape, Quiet, Running, TriplesAt, rd.pc = "triples", NEW head,
         DOMAIN head = DOMAIN rd.head, ~head.sizes, ~head.wgts,
         Closes([rd EXCEPT !.pc = "build", !.head = head], {"line"})
  PROVE  Sound'
<1>1. rd' = [rd EXCEPT !.pc = "build", !.head = head] /\ heap' = heap \ {"line"} /\ stream' = "closed"
  BY DEF Closes
<1>2. /\ DOMAIN rd' = DOMAIN rd /\ rd'.pc = "build" /\ rd'.call = rd.call /\ rd'.head = head
      /\ rd'.ret = rd.ret /\ rd'.sig = rd.sig /\ rd'.ents = rd.ents /\ rd'.cap = rd.cap
  BY <1>1 DEF Shape
<1>3. TriplesAt'
  BY <1>1, <1>2 DEF TriplesAt, Gathers, Unlabelled
<1> QED BY <1>2, <1>3, GoesOn DEF Working

Builds(result, vals) ==
  /\ result.what \in {"csr", "graph"} /\ result.vals = vals
  /\ rd' = [rd EXCEPT !.pc = "done", !.ret = result]
  /\ heap' = (heap \cup Blocks(vals, FALSE, FALSE)) \ Triples /\ stream' = stream

LEMMA TripleBuilt ==
  ASSUME Shape, Quiet, Running, TriplesAt, rd.pc = "build", NEW result, NEW vals, Builds(result, vals)
  PROVE  Sound'
<1>0. /\ result.what \in {"csr", "graph"} /\ result.vals = vals
      /\ rd' = [rd EXCEPT !.pc = "done", !.ret = result]
      /\ heap' = (heap \cup Blocks(vals, FALSE, FALSE)) \ Triples /\ stream' = stream
  BY DEF Builds
<1>1. rd'.call = rd.call /\ rd'.head = rd.head /\ rd'.ret = result
  BY <1>0 DEF Shape
<1>2. heap \subseteq Triples /\ stream = "closed" /\ rd.call.what \in {"csr", "graph"} /\ Unlabelled
  BY DEF TriplesAt
<1>3. heap' = Blocks(vals, FALSE, FALSE)
  <2>1. \A b \in Blocks(vals, FALSE, FALSE) : b \notin Triples
    BY DEF Blocks, Triples
  <2> QED BY <1>0, <1>2, <2>1
<1>4. ResultBlocks' = Blocks(vals, FALSE, FALSE)
  BY <1>0, <1>1, <1>2 DEF ResultBlocks, HasResult, Matrixwise, Blocks, Unlabelled
<1>5. "line" \notin heap'
  BY <1>3, BlocksIn
<1> QED BY <1>0, <1>2, <1>3, <1>4, <1>5, ResultSound

LEMMA IJVOpenSound ==
  ASSUME Sound, IJVOpen
  PROVE  Sound'
<1>1. rd.call.what = "csr" /\ rd.call.fmt = "IJV" /\ rd.pc = "open" /\ ~Over
  BY DEF IJVOpen, AtFormat, At, Over
<1>2. gk_fopen([rd EXCEPT !.pc = "triples"])
  BY DEF IJVOpen
<1> QED BY <1>1, <1>2, SoundRuns, TripleStarts

LEMMA IJVRecordSound ==
  ASSUME Sound, IJVRecord
  PROVE  Sound'
<1>1. rd.call.what = "csr" /\ rd.call.fmt = "IJV" /\ rd.pc = "triples" /\ ~Over
  BY DEF IJVRecord, AtFormat, At, Over
<1>2. Shape /\ Quiet /\ Running /\ TriplesAt
  <2>1. Shape /\ Quiet /\ Running
    BY <1>1, SoundRuns
  <2> QED BY <1>1, <2>1, Where
<1>3. TripleBlocks(IJVVals) \in SUBSET (Triples \cup Object)
  BY DEF TripleBlocks, Triples
<1>4. PICK triple, taken : triple = Triple(NextLine.words, IJVVals) /\ taken = TripleFits(NextLine.words, IJVVals)
  OBVIOUS
<1>5. \/ LineFails({"line"} \cup Triples \cup Object, {"line"} \cup Triples)
      \/ IJVFailure("SIGERR")
      \/ Goes([rd EXCEPT !.at = @ + 1], gk_getline)
      \/ IJVAllocationFailure(TripleBlocks(IJVVals))
      \/ Goes([rd EXCEPT !.at = @ + 1, !.ents = Append(@, triple),
                         !.cap = IF Len(rd.ents) = rd.cap THEN Grown(@, FirstCap, @ + 1) ELSE @],
              gk_getline \cup TripleBlocks(IJVVals))
  BY <1>4 DEF IJVRecord
<1>6. CASE LineFails({"line"} \cup Triples \cup Object, {"line"} \cup Triples) \/ IJVFailure("SIGERR")
           \/ IJVAllocationFailure(TripleBlocks(IJVVals))
  BY <1>2, <1>3, <1>6, TriplePaths
<1>7. CASE Goes([rd EXCEPT !.at = @ + 1], gk_getline)
  BY <1>1, <1>2, <1>7, TriplePassed
<1>8. CASE Goes([rd EXCEPT !.at = @ + 1, !.ents = Append(@, triple),
                         !.cap = IF Len(rd.ents) = rd.cap THEN Grown(@, FirstCap, @ + 1) ELSE @],
              gk_getline \cup TripleBlocks(IJVVals))
  <2>1. PICK vals : vals = IJVVals
    OBVIOUS
  <2> QED BY <1>1, <1>2, <1>8, <2>1, TripleTaken
<1> QED BY <1>5, <1>6, <1>7, <1>8

LEMMA IJVEndSound ==
  ASSUME Sound, IJVEnd
  PROVE  Sound'
<1>1. rd.call.what = "csr" /\ rd.call.fmt = "IJV" /\ rd.pc = "triples" /\ ~Over
  BY DEF IJVEnd, AtFormat, At, Over
<1>2. Shape /\ Quiet /\ Running /\ TriplesAt
  <2>1. Shape /\ Quiet /\ Running
    BY <1>1, SoundRuns
  <2> QED BY <1>1, <2>1, Where
<1>3. PICK a, b : a = Largest(rd.ents, 1) + 1 /\ b = Largest(rd.ents, 2) + 1
  OBVIOUS
<1>4. \/ IJVFailure("SIGERR")
      \/ IJVFailure("SIGMEM")
      \/ Broken("file", {"line"} \cup Triples)
      \/ Closes([rd EXCEPT !.pc = "build", !.head.nrows = a, !.head.ncols = b], {"line"})
  BY <1>3 DEF IJVEnd
<1>5. CASE Closes([rd EXCEPT !.pc = "build", !.head.nrows = a, !.head.ncols = b], {"line"})
  <2>1. PICK head : head = [rd.head EXCEPT !.nrows = a, !.ncols = b]
    OBVIOUS
  <2>2. [rd EXCEPT !.pc = "build", !.head.nrows = a, !.head.ncols = b] = [rd EXCEPT !.pc = "build", !.head = head]
    BY <1>2, <2>1 DEF Shape
  <2>3. DOMAIN head = DOMAIN rd.head /\ ~head.sizes /\ ~head.wgts
    BY <1>2, <2>1 DEF Shape, TriplesAt, Unlabelled
  <2>4. Closes([rd EXCEPT !.pc = "build", !.head = head], {"line"})
    BY <1>5, <2>2
  <2> QED BY <1>1, <1>2, <2>3, <2>4, TripleClosed
<1> QED BY <1>2, <1>4, <1>5, TriplePaths

LEMMA IJVBuildSound ==
  ASSUME Sound, IJVBuild
  PROVE  Sound'
<1>1. rd.call.what = "csr" /\ rd.call.fmt = "IJV" /\ rd.pc = "build" /\ ~Over
  BY DEF IJVBuild, AtFormat, At, Over
<1>2. Shape /\ Quiet /\ Running /\ TriplesAt
  <2>1. Shape /\ Quiet /\ Running
    BY <1>1, SoundRuns
  <2> QED BY <1>1, <2>1, Where
<1>3. Blocks(IJVVals, FALSE, FALSE) \in SUBSET (Triples \cup Object)
  BY BlocksIn
<1>4. CASE IJVAllocationFailure(Blocks(IJVVals, FALSE, FALSE))
  BY <1>2, <1>3, <1>4, TriplePaths
<1>5. CASE ~IJVAllocationFailure(Blocks(IJVVals, FALSE, FALSE))
  <2>1. PICK result : result = Result("csr", rd.head.nrows, rd.head.ncols, TRUE, IJVVals,
                                      Compressed(rd.head.nrows, rd.ents, IJVVals), <<>>)
    OBVIOUS
  <2>2. PICK vals : vals = IJVVals
    OBVIOUS
  <2>3. result.what \in {"csr", "graph"} /\ result.vals = vals
    BY <2>1, <2>2 DEF Result
  <2>4. Builds(result, vals)
    BY <1>5, <2>1, <2>2, <2>3 DEF Builds, IJVBuild
  <2> QED BY <1>1, <1>2, <2>4, TripleBuilt
<1> QED BY <1>4, <1>5

LEMMA TriplesOpenSound ==
  ASSUME Sound, TriplesOpen
  PROVE  Sound'
<1>1. rd.call.what = "graph" /\ rd.call.fmt \in TripleFormats /\ rd.pc = "open" /\ ~Over
  BY DEF TriplesOpen, AtFormat, At, Over
<1>2. PICK pc : pc = IF rd.call.fmt = "HIJV" THEN "header" ELSE "triples"
  OBVIOUS
<1>3. gk_fopen([rd EXCEPT !.pc = pc]) /\ pc \in {"header", "triples"}
  BY <1>2 DEF TriplesOpen
<1> QED BY <1>1, <1>3, SoundRuns, TripleStarts

LEMMA TriplesHeaderSound ==
  ASSUME Sound, TriplesHeader
  PROVE  Sound'
<1>1. rd.call.what = "graph" /\ rd.call.fmt \in TripleFormats /\ rd.pc = "header" /\ ~Over
  BY DEF TriplesHeader, AtFormat, At, Over, TripleFormats
<1>2. Shape /\ Quiet /\ Running /\ TriplesAt
  <2>1. Shape /\ Quiet /\ Running
    BY <1>1, SoundRuns
  <2> QED BY <1>1, <2>1, Where
<1>3. PICK n : n = IntAt(NextLine.words)
  OBVIOUS
<1>4. \/ LineFails({"line"} \cup Triples \cup Object, {"line"} \cup Triples)
      \/ TripleFailure("SIGERR")
      \/ Goes([rd EXCEPT !.pc = "triples", !.at = @ + 1, !.head.nrows = n], gk_getline)
  BY <1>3 DEF TriplesHeader
<1>5. CASE Goes([rd EXCEPT !.pc = "triples", !.at = @ + 1, !.head.nrows = n], gk_getline)
  <2>1. rd' = [rd EXCEPT !.pc = "triples", !.at = @ + 1, !.head.nrows = n] /\ heap' = heap \cup {"line"}
    BY <1>5 DEF Goes, gk_getline
  <2>2. /\ DOMAIN rd' = DOMAIN rd /\ rd'.pc = "triples" /\ rd'.call = rd.call /\ rd'.head = [rd.head EXCEPT !.nrows = n]
        /\ rd'.ret = rd.ret /\ rd'.sig = rd.sig /\ rd'.ents = rd.ents /\ rd'.cap = rd.cap
    BY <1>2, <2>1 DEF Shape
  <2>3. DOMAIN rd'.head = DOMAIN rd.head /\ Unlabelled'
    BY <1>2, <2>2 DEF Shape, TriplesAt, Unlabelled
  <2>4. TriplesAt'
    BY <1>1, <1>2, <2>1, <2>2, <2>3 DEF TriplesAt, Gathers
  <2> QED BY <1>2, <2>2, <2>3, <2>4, GoesOn DEF Working
<1> QED BY <1>2, <1>4, <1>5, TriplePaths

LEMMA TriplesRecordSound ==
  ASSUME Sound, TriplesRecord
  PROVE  Sound'
<1>1. rd.call.what = "graph" /\ rd.call.fmt \in TripleFormats /\ rd.pc = "triples" /\ ~Over
  BY DEF TriplesRecord, AtFormat, At, Over, TripleFormats
<1>2. Shape /\ Quiet /\ Running /\ TriplesAt
  <2>1. Shape /\ Quiet /\ Running
    BY <1>1, SoundRuns
  <2> QED BY <1>1, <2>1, Where
<1>3. TripleBlocks(EdgeVals) \in SUBSET (Triples \cup Object)
  BY DEF TripleBlocks, Triples
<1>4. PICK triple : triple = EdgeOf(NextLine.words)
  OBVIOUS
<1>5. \/ LineFails({"line"} \cup Triples \cup Object, {"line"} \cup Triples)
      \/ TripleFailure("SIGERR")
      \/ Goes([rd EXCEPT !.at = @ + 1], gk_getline)
      \/ TripleAllocationFailure(TripleBlocks(EdgeVals))
      \/ Goes([rd EXCEPT !.at = @ + 1, !.ents = Append(@, triple),
                         !.cap = IF Len(rd.ents) = rd.cap THEN Grown(@, FirstCap, @ + 1) ELSE @],
              gk_getline \cup TripleBlocks(EdgeVals))
  BY <1>4 DEF TriplesRecord, gk_grow_read_buffer
<1>6. CASE LineFails({"line"} \cup Triples \cup Object, {"line"} \cup Triples) \/ TripleFailure("SIGERR")
           \/ TripleAllocationFailure(TripleBlocks(EdgeVals))
  BY <1>2, <1>3, <1>6, TriplePaths
<1>7. CASE Goes([rd EXCEPT !.at = @ + 1], gk_getline)
  BY <1>1, <1>2, <1>7, TriplePassed
<1>8. CASE Goes([rd EXCEPT !.at = @ + 1, !.ents = Append(@, triple),
                         !.cap = IF Len(rd.ents) = rd.cap THEN Grown(@, FirstCap, @ + 1) ELSE @],
              gk_getline \cup TripleBlocks(EdgeVals))
  <2>1. PICK vals : vals = EdgeVals
    OBVIOUS
  <2> QED BY <1>1, <1>2, <1>8, <2>1, TripleTaken
<1> QED BY <1>5, <1>6, <1>7, <1>8

LEMMA TriplesEndSound ==
  ASSUME Sound, TriplesEnd
  PROVE  Sound'
<1>1. rd.call.what = "graph" /\ rd.call.fmt \in TripleFormats /\ rd.pc = "triples" /\ ~Over
  BY DEF TriplesEnd, AtFormat, At, Over, TripleFormats
<1>2. Shape /\ Quiet /\ Running /\ TriplesAt
  <2>1. Shape /\ Quiet /\ Running
    BY <1>1, SoundRuns
  <2> QED BY <1>1, <2>1, Where
<1>3. PICK n : n = IF rd.call.fmt = "HIJV" THEN rd.head.nrows
                   ELSE IF rd.ents = <<>> THEN 0 ELSE LargestVertex(rd.ents) + 1
  OBVIOUS
<1>4. \/ TripleFailure("SIGERR")
      \/ TripleFailure("SIGMEM")
      \/ Broken("file", {"line"} \cup Triples)
      \/ Closes([rd EXCEPT !.pc = "build", !.head.nrows = n], {"line"})
  BY <1>3 DEF TriplesEnd
<1>5. CASE Closes([rd EXCEPT !.pc = "build", !.head.nrows = n], {"line"})
  <2>1. PICK head : head = [rd.head EXCEPT !.nrows = n]
    OBVIOUS
  <2>2. [rd EXCEPT !.pc = "build", !.head.nrows = n] = [rd EXCEPT !.pc = "build", !.head = head]
    BY <1>2, <2>1 DEF Shape
  <2>3. DOMAIN head = DOMAIN rd.head /\ ~head.sizes /\ ~head.wgts
    BY <1>2, <2>1 DEF Shape, TriplesAt, Unlabelled
  <2>4. Closes([rd EXCEPT !.pc = "build", !.head = head], {"line"})
    BY <1>5, <2>2
  <2> QED BY <1>1, <1>2, <2>3, <2>4, TripleClosed
<1> QED BY <1>2, <1>4, <1>5, TriplePaths

LEMMA TriplesBuildSound ==
  ASSUME Sound, TriplesBuild
  PROVE  Sound'
<1>1. rd.call.what = "graph" /\ rd.call.fmt \in TripleFormats /\ rd.pc = "build" /\ ~Over
  BY DEF TriplesBuild, AtFormat, At, Over, TripleFormats
<1>2. Shape /\ Quiet /\ Running /\ TriplesAt
  <2>1. Shape /\ Quiet /\ Running
    BY <1>1, SoundRuns
  <2> QED BY <1>1, <2>1, Where
<1>3. Blocks(EdgeVals, FALSE, FALSE) \in SUBSET (Triples \cup Object)
  BY BlocksIn
<1>4. CASE TripleAllocationFailure(Blocks(EdgeVals, FALSE, FALSE))
  BY <1>2, <1>3, <1>4, TriplePaths
<1>5. CASE ~TripleAllocationFailure(Blocks(EdgeVals, FALSE, FALSE))
  <2>1. PICK result : result = Result("graph", rd.head.nrows, rd.head.nrows, TRUE, EdgeVals,
                                      Compressed(rd.head.nrows, rd.ents, EdgeVals), <<>>)
    OBVIOUS
  <2>2. PICK vals : vals = EdgeVals
    OBVIOUS
  <2>3. result.what \in {"csr", "graph"} /\ result.vals = vals
    BY <2>1, <2>2 DEF Result
  <2>4. Builds(result, vals)
    BY <1>5, <2>1, <2>2, <2>3 DEF Builds, TriplesBuild
  <2> QED BY <1>1, <1>2, <2>4, TripleBuilt
<1> QED BY <1>4, <1>5
-----------------------------------------------------------------------------
(* The readers of binary views.                                            *)
LEMMA BinaryPaths ==
  ASSUME Shape, Quiet, Running, rd.call.what # "getline", heap \subseteq BinaryBlocks
  PROVE  /\ \A got, sig : got \subseteq BinaryBlocks /\ BinaryRefused(got, sig) => Sound'
         /\ \A wanted : wanted \subseteq BinaryBlocks /\ BinaryBroken(wanted) => Sound'
         /\ Broken("file", BinaryBlocks) => Sound'
<1>1. PICK freed : freed = BinaryBlocks
  OBVIOUS
<1>2. heap \subseteq freed
  BY <1>1
<1>3. /\ \A what : Broken(what, freed) => Sound'
      /\ \A wanted : wanted \subseteq freed /\ OutOfMemory(wanted, freed) => Sound'
      /\ \A got, sig : got \subseteq freed /\ RefuseHolding(got, freed, sig) => Sound'
      /\ \A what, got : got \subseteq freed /\ BrokenHolding(what, got, freed) => Sound'
  BY <1>2, PathEnds, EndsSound
<1>4. \A got, sig : got \subseteq freed /\ BinaryRefused(got, sig) => Sound'
  BY <1>1, <1>3 DEF BinaryRefused
<1>5. \A wanted : wanted \subseteq freed /\ BinaryBroken(wanted) => Sound'
  BY <1>1, <1>3 DEF BinaryBroken
<1> QED BY <1>1, <1>3, <1>4, <1>5

(* At a place, with what is just got.                                      *)
LEMMA BinaryHeld ==
  ASSUME Shape, Quiet, Running, BinaryAt, NEW b \in BinaryBlocks
  PROVE  /\ \A sig : BinaryRefused({b}, sig) \/ BinaryRefused({}, sig) => Sound'
         /\ BinaryBroken({b}) \/ BinaryBroken({}) \/ Broken("file", BinaryBlocks) => Sound'
<1>1. rd.call.what # "getline" /\ heap \subseteq BinaryBlocks
  BY DEF BinaryAt, BinaryBlocks, Blocks
<1>2. PICK one, none : one = {b} /\ none = {}
  OBVIOUS
<1>3. one \subseteq BinaryBlocks /\ none \subseteq BinaryBlocks
  BY <1>2
<1>4. /\ \A got, sig : got \subseteq BinaryBlocks /\ BinaryRefused(got, sig) => Sound'
      /\ \A wanted : wanted \subseteq BinaryBlocks /\ BinaryBroken(wanted) => Sound'
      /\ Broken("file", BinaryBlocks) => Sound'
  BY <1>1, BinaryPaths
<1>5. \A sig : BinaryRefused(one, sig) \/ BinaryRefused(none, sig) => Sound'
  BY <1>3, <1>4
<1>6. BinaryBroken(one) \/ BinaryBroken(none) => Sound'
  BY <1>3, <1>4
<1> QED BY <1>2, <1>4, <1>5, <1>6

LEMMA BinaryOpenSound ==
  ASSUME Sound, BinaryOpen
  PROVE  Sound'
<1>1. rd.call.what = "csr" /\ rd.call.fmt \in BinaryFormats /\ rd.pc = "open" /\ ~Over
  BY DEF BinaryOpen, AtFormat, At, Over
<1>2. Shape /\ Quiet /\ Running
  BY <1>1, SoundRuns
<1>3. rd.ents = <<>> /\ rd.cap = 0 /\ rd.head = NoHeader /\ heap = {}
  BY <1>1, <1>2, Begins
<1>4. PICK mat : mat = {"mat"}
  OBVIOUS
<1>5. heap \subseteq BinaryBlocks /\ mat \subseteq BinaryBlocks
  BY <1>3, <1>4 DEF BinaryBlocks
<1>6. CASE BinaryBroken(mat) \/ BinaryRefused(mat, "SIGERR")
  BY <1>1, <1>2, <1>5, <1>6, BinaryPaths
<1>7. CASE rd' = [rd EXCEPT !.pc = "sizes"] /\ heap' = heap \cup {"mat"}
  <2>1. /\ DOMAIN rd' = DOMAIN rd /\ rd'.pc = "sizes" /\ rd'.call = rd.call /\ rd'.head = rd.head
        /\ rd'.ret = rd.ret /\ rd'.sig = rd.sig /\ rd'.ents = rd.ents /\ rd'.cap = rd.cap
    BY <1>2, <1>7 DEF Shape
  <2>2. Gathers' /\ Unlabelled' /\ heap' = {"mat"}
    BY <1>3, <1>7, <2>1, NoEntries DEF Gathers, Unlabelled, NoHeader
  <2>3. BinaryAt'
    BY <1>1, <2>1, <2>2 DEF BinaryAt
  <2> QED BY <1>2, <2>1, <2>3, GoesOn DEF Working
<1> QED BY <1>4, <1>6, <1>7 DEF BinaryOpen

LEMMA BinarySizesSound ==
  ASSUME Sound, BinarySizes
  PROVE  Sound'
<1>1. rd.call.what = "csr" /\ rd.call.fmt \in BinaryFormats /\ rd.pc = "sizes" /\ ~Over
  BY DEF BinarySizes, AtFormat, At, Over
<1>2. Shape /\ Quiet /\ Running /\ BinaryAt
  <2>1. Shape /\ Quiet /\ Running
    BY <1>1, SoundRuns
  <2> QED BY <1>1, <2>1, Where
<1>3. CASE BinaryBroken({}) \/ BinaryRefused({}, "SIGERR")
  <2>1. "mat" \in BinaryBlocks
    BY DEF BinaryBlocks
  <2> QED BY <1>2, <1>3, <2>1, BinaryHeld
<1>4. PICK n, m : n = Item(1) /\ m = Item(2)
  OBVIOUS
<1>5. CASE n \in Nat /\ m \in Nat
           /\ Goes([rd EXCEPT !.pc = "pointers", !.at = 2, !.head.nrows = n, !.head.ncols = m], {})
  <2>1. PICK head : head = [rd.head EXCEPT !.nrows = n, !.ncols = m]
    OBVIOUS
  <2>2. rd' = [rd EXCEPT !.pc = "pointers", !.at = 2, !.head = head] /\ heap' = heap
    BY <1>2, <1>5, <2>1 DEF Shape, Goes
  <2>3. /\ DOMAIN rd' = DOMAIN rd /\ rd'.pc = "pointers" /\ rd'.call = rd.call /\ rd'.head = head /\ rd'.at = 2
        /\ rd'.ret = rd.ret /\ rd'.sig = rd.sig /\ rd'.ents = rd.ents /\ rd'.cap = rd.cap
    BY <1>2, <2>2 DEF Shape
  <2>4. /\ DOMAIN head = DOMAIN rd.head /\ ~head.sizes /\ ~head.wgts
        /\ head.nrows = n /\ head.ncols = m
    BY <1>2, <2>1 DEF Shape, BinaryAt, Unlabelled
  <2>5. Gathers' /\ Unlabelled' /\ heap' = {"mat"} /\ rd'.at \in Nat /\ Dimension' \in Nat
    BY <1>1, <1>2, <1>5, <2>2, <2>3, <2>4 DEF BinaryAt, Gathers, Unlabelled, Dimension
  <2>6. BinaryAt'
    BY <1>1, <2>3, <2>5 DEF BinaryAt
  <2> QED BY <1>2, <2>3, <2>4, <2>6, GoesOn DEF Working
<1>6. \/ BinaryBroken({}) \/ BinaryRefused({}, "SIGERR")
      \/ n \in Nat /\ m \in Nat /\ Goes([rd EXCEPT !.pc = "pointers", !.at = 2, !.head.nrows = n, !.head.ncols = m], {})
  BY <1>4 DEF BinarySizes
<1> QED BY <1>3, <1>5, <1>6

LEMMA BinaryPointersSound ==
  ASSUME Sound, BinaryPointers
  PROVE  Sound'
<1>1. rd.call.what = "csr" /\ rd.call.fmt \in BinaryFormats /\ rd.pc = "pointers" /\ ~Over
  BY DEF BinaryPointers, AtFormat, At, Over
<1>2. Shape /\ Quiet /\ Running /\ BinaryAt
  <2>1. Shape /\ Quiet /\ Running
    BY <1>1, SoundRuns
  <2> QED BY <1>1, <2>1, Where
<1>3. heap = {"mat"} /\ rd.at \in Nat /\ Dimension \in Nat
  BY <1>1, <1>2 DEF BinaryAt
<1>4. CASE BinaryBroken({"ptr"}) \/ \E sig : BinaryRefused({"ptr"}, sig)
  <2>1. "ptr" \in BinaryBlocks
    BY DEF BinaryBlocks
  <2> QED BY <1>2, <1>4, <2>1, BinaryHeld
<1>5. PICK ptr, n, at : ptr = Taken(Dimension + 1) /\ n = ptr[Dimension + 1] /\ at = rd.at + Dimension + 1
  OBVIOUS
<1>6. at \in Nat
  BY <1>3, <1>5
<1>7. CASE n \in 0 .. SizeMax /\ Goes([rd EXCEPT !.pc = "indices", !.at = at, !.ptr = ptr, !.head.nnz = n], {"ptr"})
  <2>1. PICK head : head = [rd.head EXCEPT !.nnz = n]
    OBVIOUS
  <2>2. rd' = [rd EXCEPT !.pc = "indices", !.at = at, !.ptr = ptr, !.head = head] /\ heap' = heap \cup {"ptr"}
    BY <1>2, <1>7, <2>1 DEF Shape, Goes
  <2>3. /\ DOMAIN rd' = DOMAIN rd /\ rd'.pc = "indices" /\ rd'.call = rd.call /\ rd'.head = head /\ rd'.at = at
        /\ rd'.ret = rd.ret /\ rd'.sig = rd.sig /\ rd'.ents = rd.ents /\ rd'.cap = rd.cap
    BY <1>2, <2>2 DEF Shape
  <2>4. DOMAIN head = DOMAIN rd.head /\ ~head.sizes /\ ~head.wgts /\ head.nnz = n
    BY <1>2, <2>1 DEF Shape, BinaryAt, Unlabelled
  <2>5. n \in Nat
    BY <1>7, WordConstants
  <2>6. Gathers' /\ Unlabelled' /\ heap' = {"mat", "ptr"}
    BY <1>2, <1>3, <2>2, <2>3, <2>4 DEF BinaryAt, Gathers, Unlabelled
  <2>7. BinaryAt'
    BY <1>1, <1>6, <2>3, <2>4, <2>5, <2>6 DEF BinaryAt
  <2> QED BY <1>2, <2>3, <2>4, <2>7, GoesOn DEF Working
<1>8. \/ BinaryBroken({"ptr"}) \/ \E sig : BinaryRefused({"ptr"}, sig)
      \/ n \in 0 .. SizeMax /\ Goes([rd EXCEPT !.pc = "indices", !.at = @ + Dimension + 1, !.ptr = ptr, !.head.nnz = n], {"ptr"})
  BY <1>5 DEF BinaryPointers
<1>9. [rd EXCEPT !.pc = "indices", !.at = @ + Dimension + 1, !.ptr = ptr, !.head.nnz = n]
        = [rd EXCEPT !.pc = "indices", !.at = at, !.ptr = ptr, !.head.nnz = n]
  BY <1>5
<1> QED BY <1>4, <1>7, <1>8, <1>9

LEMMA BinaryIndicesSound ==
  ASSUME Sound, BinaryIndices
  PROVE  Sound'
<1>1. rd.call.what = "csr" /\ rd.call.fmt \in BinaryFormats /\ rd.pc = "indices" /\ ~Over
  BY DEF BinaryIndices, AtFormat, At, Over
<1>2. Shape /\ Quiet /\ Running /\ BinaryAt
  <2>1. Shape /\ Quiet /\ Running
    BY <1>1, SoundRuns
  <2> QED BY <1>1, <2>1, Where
<1>3. heap = {"mat", "ptr"} /\ rd.at \in Nat /\ rd.head.nnz \in Nat
  BY <1>1, <1>2 DEF BinaryAt
<1>4. CASE BinaryBroken({"ind"}) \/ \E sig : BinaryRefused({"ind"}, sig)
  <2>1. "ind" \in BinaryBlocks
    BY DEF BinaryBlocks
  <2> QED BY <1>2, <1>4, <2>1, BinaryHeld
<1>5. PICK ind : ind = Taken(rd.head.nnz)
  OBVIOUS
<1>6. PICK ents, at, pc : /\ ents = [p \in DOMAIN ind |-> <<ind[p]>>] /\ at = rd.at + rd.head.nnz
                          /\ pc = IF BinaryVals THEN "values" ELSE "end"
  OBVIOUS
<1>7. DOMAIN ind = 1 .. rd.head.nnz /\ at \in Nat
  <2>1. PICK n, m \in Nat : n = rd.head.nnz /\ m = rd.at
    BY <1>3
  <2>2. ind = SubSeq(Items, m + 1, m + n)
    BY <1>5, <2>1 DEF Taken
  <2>3. DOMAIN ind = 1 .. (1 + (m + n) - (m + 1)) /\ 1 + (m + n) - (m + 1) = n
    BY <2>2
  <2>4. at \in Nat
    BY <1>6, <2>1
  <2> QED BY <2>1, <2>3, <2>4
<1>8. Listed(ents) /\ Len(ents) = rd.head.nnz
  <2>1. PICK n \in Nat : n = rd.head.nnz
    BY <1>3
  <2>2. ents = [p \in 1 .. n |-> <<ind[p]>>]
    BY <1>6, <1>7, <2>1
  <2>3. ents = [p \in 1 .. n |-> ents[p]]
    BY <2>2
  <2> QED BY <2>1, <2>3, ListedFunction
<1>9. CASE Goes([rd EXCEPT !.pc = pc, !.at = at, !.cap = rd.head.nnz, !.ents = ents], {"ind"})
  <2>1. rd' = [rd EXCEPT !.pc = pc, !.at = at, !.cap = rd.head.nnz, !.ents = ents] /\ heap' = heap \cup {"ind"}
    BY <1>9 DEF Goes
  <2>2. /\ DOMAIN rd' = DOMAIN rd /\ rd'.pc = pc /\ rd'.call = rd.call /\ rd'.head = rd.head /\ rd'.at = at
        /\ rd'.ret = rd.ret /\ rd'.sig = rd.sig /\ rd'.ents = ents /\ rd'.cap = rd.head.nnz
    BY <1>2, <2>1 DEF Shape
  <2>3. Gathers' /\ Unlabelled' /\ heap' = {"mat", "ptr", "ind"} /\ (BinaryVals' <=> BinaryVals)
    BY <1>2, <1>3, <1>8, <2>1, <2>2 DEF BinaryAt, Gathers, Unlabelled, BinaryVals, ByRow
  <2>4. ASSUME BinaryVals PROVE BinaryAt'
    BY <1>1, <1>6, <1>7, <2>2, <2>3, <2>4 DEF BinaryAt
  <2>5. ASSUME ~BinaryVals PROVE BinaryAt'
    <3>1. heap' = Blocks(BinaryVals', FALSE, FALSE)
      BY <2>3, <2>5 DEF Blocks
    <3>2. rd'.pc = "end"
      BY <1>6, <2>2, <2>5
    <3> QED BY <1>1, <2>2, <2>3, <3>1, <3>2 DEF BinaryAt
  <2>6. rd'.pc \in {"values", "end"}
    BY <1>6, <2>2
  <2> QED BY <1>2, <2>2, <2>4, <2>5, <2>6, GoesOn DEF Working
<1>10. \/ BinaryBroken({"ind"}) \/ \E sig : BinaryRefused({"ind"}, sig)
       \/ Goes([rd EXCEPT !.pc = IF BinaryVals THEN "values" ELSE "end", !.at = @ + rd.head.nnz, !.cap = rd.head.nnz,
                          !.ents = [p \in DOMAIN ind |-> <<ind[p]>>]], {"ind"})
  BY <1>5 DEF BinaryIndices
<1>11. [rd EXCEPT !.pc = IF BinaryVals THEN "values" ELSE "end", !.at = @ + rd.head.nnz, !.cap = rd.head.nnz,
                  !.ents = [p \in DOMAIN ind |-> <<ind[p]>>]]
         = [rd EXCEPT !.pc = pc, !.at = at, !.cap = rd.head.nnz, !.ents = ents]
  BY <1>6
<1> QED BY <1>4, <1>9, <1>10, <1>11

LEMMA BinaryValuesSound ==
  ASSUME Sound, BinaryValues
  PROVE  Sound'
<1>1. rd.call.what = "csr" /\ rd.call.fmt \in BinaryFormats /\ rd.pc = "values" /\ ~Over
  BY DEF BinaryValues, AtFormat, At, Over
<1>2. Shape /\ Quiet /\ Running /\ BinaryAt
  <2>1. Shape /\ Quiet /\ Running
    BY <1>1, SoundRuns
  <2> QED BY <1>1, <2>1, Where
<1>3. heap = {"mat", "ptr", "ind"} /\ rd.at \in Nat /\ rd.cap = rd.head.nnz /\ rd.cap \in Nat /\ BinaryVals
  BY <1>1, <1>2 DEF BinaryAt, Gathers
<1>4. CASE BinaryBroken({"val"}) \/ \E sig : BinaryRefused({"val"}, sig)
  <2>1. "val" \in BinaryBlocks
    BY DEF BinaryBlocks
  <2> QED BY <1>2, <1>4, <2>1, BinaryHeld
<1>5. PICK val : val = Taken(rd.head.nnz)
  OBVIOUS
<1>6. PICK ents : ents = [p \in DOMAIN val |-> <<rd.ents[p][1], val[p]>>]
  OBVIOUS
<1>7. DOMAIN val = 1 .. rd.cap
  BY <1>3, <1>5 DEF Taken
<1>8. Listed(ents) /\ Len(ents) = rd.cap
  <2>1. PICK n \in Nat : n = rd.cap
    BY <1>3
  <2>2. ents = [p \in 1 .. n |-> <<rd.ents[p][1], val[p]>>]
    BY <1>6, <1>7, <2>1
  <2>3. ents = [p \in 1 .. n |-> ents[p]]
    BY <2>2
  <2> QED BY <2>1, <2>3, ListedFunction
<1>9. CASE Goes([rd EXCEPT !.pc = "end", !.ents = ents], {"val"})
  <2>1. rd' = [rd EXCEPT !.pc = "end", !.ents = ents] /\ heap' = heap \cup {"val"}
    BY <1>9 DEF Goes
  <2>2. /\ DOMAIN rd' = DOMAIN rd /\ rd'.pc = "end" /\ rd'.call = rd.call /\ rd'.head = rd.head
        /\ rd'.ret = rd.ret /\ rd'.sig = rd.sig /\ rd'.ents = ents /\ rd'.cap = rd.cap
    BY <1>2, <2>1 DEF Shape
  <2>3. Gathers' /\ Unlabelled' /\ heap' = {"mat", "ptr", "ind", "val"} /\ BinaryVals'
    BY <1>2, <1>3, <1>8, <2>1, <2>2 DEF BinaryAt, Gathers, Unlabelled, BinaryVals, ByRow
  <2>4. heap' = Blocks(BinaryVals', FALSE, FALSE)
    BY <2>3 DEF Blocks
  <2>5. BinaryAt'
    BY <1>1, <2>2, <2>3, <2>4 DEF BinaryAt
  <2> QED BY <1>2, <2>2, <2>5, GoesOn DEF Working
<1>10. \/ BinaryBroken({"val"}) \/ \E sig : BinaryRefused({"val"}, sig)
       \/ Goes([rd EXCEPT !.pc = "end", !.ents = [p \in DOMAIN val |-> <<@[p][1], val[p]>>]], {"val"})
  BY <1>5 DEF BinaryValues
<1>11. [rd EXCEPT !.pc = "end", !.ents = [p \in DOMAIN val |-> <<@[p][1], val[p]>>]] = [rd EXCEPT !.pc = "end", !.ents = ents]
  BY <1>6
<1> QED BY <1>4, <1>9, <1>10, <1>11

LEMMA BinaryEndSound ==
  ASSUME Sound, BinaryEnd
  PROVE  Sound'
<1>1. rd.call.what = "csr" /\ rd.call.fmt \in BinaryFormats /\ rd.pc = "end" /\ ~Over
  BY DEF BinaryEnd, AtFormat, At, Over
<1>2. Shape /\ Quiet /\ Running /\ BinaryAt
  <2>1. Shape /\ Quiet /\ Running
    BY <1>1, SoundRuns
  <2> QED BY <1>1, <2>1, Where
<1>3. CASE Broken("file", BinaryBlocks)
  <2>1. "mat" \in BinaryBlocks
    BY DEF BinaryBlocks
  <2> QED BY <1>2, <1>3, <2>1, BinaryHeld
<1>4. PICK result : result = Result("csr", rd.head.nrows, rd.head.ncols, ByRow, BinaryVals,
                                    ViewOf(rd.ptr, rd.ents, BinaryVals), <<>>)
  OBVIOUS
<1>5. result.what = "csr" /\ result.vals = BinaryVals
  BY <1>4 DEF Result
<1>6. CASE Closes([rd EXCEPT !.pc = "done", !.ret = result], {})
  <2>1. rd' = [rd EXCEPT !.pc = "done", !.ret = result] /\ heap' = heap /\ stream' = "closed"
    BY <1>6 DEF Closes
  <2>2. rd'.call = rd.call /\ rd'.head = rd.head /\ rd'.ret = result
    BY <1>2, <2>1 DEF Shape
  <2>3. heap' = Blocks(BinaryVals, FALSE, FALSE)
    BY <1>1, <1>2, <2>1 DEF BinaryAt
  <2>4. ResultBlocks' = Blocks(BinaryVals, FALSE, FALSE)
    BY <1>1, <1>2, <1>5, <2>2 DEF ResultBlocks, HasResult, Matrixwise, Blocks, BinaryAt, Unlabelled
  <2>5. "line" \notin heap'
    BY <2>3, BlocksIn
  <2> QED BY <1>1, <1>2, <1>5, <2>1, <2>3, <2>4, <2>5, ResultSound
<1>7. Broken("file", BinaryBlocks) \/ Closes([rd EXCEPT !.pc = "done", !.ret = result], {})
  BY <1>4 DEF BinaryEnd
<1> QED BY <1>3, <1>6, <1>7
-----------------------------------------------------------------------------
(* The reader of binary triples.                                           *)
LEMMA BIJVPaths ==
  ASSUME Shape, Quiet, Running, rd.call.what # "getline", heap \subseteq BIJVBlocks
  PROVE  /\ \A got, sig : got \subseteq BIJVBlocks /\ BIJVFailure(got, sig) => Sound'
         /\ \A wanted : wanted \subseteq BIJVBlocks /\ BIJVBroken(wanted) => Sound'
         /\ \A wanted : wanted \subseteq BIJVBlocks /\ OutOfMemory(wanted, BIJVBlocks) => Sound'
         /\ Broken("file", BIJVBlocks) => Sound'
<1>1. PICK freed : freed = BIJVBlocks
  OBVIOUS
<1>2. heap \subseteq freed
  BY <1>1
<1>3. /\ \A what : Broken(what, freed) => Sound'
      /\ \A wanted : wanted \subseteq freed /\ OutOfMemory(wanted, freed) => Sound'
      /\ \A got, sig : got \subseteq freed /\ RefuseHolding(got, freed, sig) => Sound'
      /\ \A what, got : got \subseteq freed /\ BrokenHolding(what, got, freed) => Sound'
  BY <1>2, PathEnds, EndsSound
<1>4. \A got, sig : got \subseteq freed /\ BIJVFailure(got, sig) => Sound'
  BY <1>1, <1>3 DEF BIJVFailure
<1>5. \A wanted : wanted \subseteq freed /\ BIJVBroken(wanted) => Sound'
  BY <1>1, <1>3 DEF BIJVBroken
<1> QED BY <1>1, <1>3, <1>4, <1>5

LEMMA BIJVHeld ==
  ASSUME Shape, Quiet, Running, BIJVAt
  PROVE  /\ \A vals : BIJVBroken(TripleBlocks(vals)) => Sound'
         /\ \A vals, sig : BIJVFailure(TripleBlocks(vals), sig) => Sound'
         /\ \A sig : BIJVFailure({}, sig) => Sound'
         /\ BIJVBroken({}) \/ Broken("file", BIJVBlocks) => Sound'
         /\ \A vals : OutOfMemory(Blocks(vals, FALSE, FALSE), BIJVBlocks) => Sound'
<1>1. rd.call.what # "getline" /\ heap \subseteq BIJVBlocks
  BY DEF BIJVAt, BIJVBlocks, Triples, Object, Blocks
<1>2. PICK none : none = {}
  OBVIOUS
<1>3. none \subseteq BIJVBlocks
  BY <1>2
<1>4. \A vals : TripleBlocks(vals) \subseteq BIJVBlocks /\ Blocks(vals, FALSE, FALSE) \subseteq BIJVBlocks
  BY BlocksIn DEF TripleBlocks, BIJVBlocks, Triples
<1>5. /\ \A got, sig : got \subseteq BIJVBlocks /\ BIJVFailure(got, sig) => Sound'
      /\ \A wanted : wanted \subseteq BIJVBlocks /\ BIJVBroken(wanted) => Sound'
      /\ \A wanted : wanted \subseteq BIJVBlocks /\ OutOfMemory(wanted, BIJVBlocks) => Sound'
      /\ Broken("file", BIJVBlocks) => Sound'
  BY <1>1, BIJVPaths
<1>6. BIJVBroken(none) => Sound'
  BY <1>3, <1>5
<1>7. \A sig : BIJVFailure(none, sig) => Sound'
  BY <1>3, <1>5
<1> QED BY <1>2, <1>4, <1>5, <1>6, <1>7

LEMMA BIJVOpenSound ==
  ASSUME Sound, BIJVOpen
  PROVE  Sound'
<1>1. rd.call.what = "csr" /\ rd.call.fmt = "BIJV" /\ rd.pc = "open" /\ ~Over
  BY DEF BIJVOpen, AtFormat, At, Over
<1>2. Shape /\ Quiet /\ Running
  BY <1>1, SoundRuns
<1>3. rd.ents = <<>> /\ rd.cap = 0 /\ rd.head = NoHeader /\ heap = {}
  BY <1>1, <1>2, Begins
<1>4. PICK mat : mat = {"mat"}
  OBVIOUS
<1>5. heap \subseteq BIJVBlocks /\ mat \subseteq BIJVBlocks
  BY <1>3, <1>4 DEF BIJVBlocks, Object, Blocks
<1>6. CASE BIJVBroken(mat) \/ BIJVFailure(mat, "SIGERR")
  BY <1>1, <1>2, <1>5, <1>6, BIJVPaths
<1>7. CASE rd' = [rd EXCEPT !.pc = "sizes"] /\ heap' = heap \cup {"mat"}
  <2>1. /\ DOMAIN rd' = DOMAIN rd /\ rd'.pc = "sizes" /\ rd'.call = rd.call /\ rd'.head = rd.head
        /\ rd'.ret = rd.ret /\ rd'.sig = rd.sig /\ rd'.ents = rd.ents /\ rd'.cap = rd.cap
    BY <1>2, <1>7 DEF Shape
  <2>2. Gathers' /\ Unlabelled' /\ heap' = {"mat"}
    BY <1>3, <1>7, <2>1, NoEntries DEF Gathers, Unlabelled, NoHeader
  <2>3. BIJVAt'
    BY <1>1, <2>1, <2>2 DEF BIJVAt
  <2> QED BY <1>2, <2>1, <2>3, GoesOn DEF Working
<1> QED BY <1>4, <1>6, <1>7 DEF BIJVOpen

LEMMA BIJVSizesSound ==
  ASSUME Sound, BIJVSizes
  PROVE  Sound'
<1>1. rd.call.what = "csr" /\ rd.call.fmt = "BIJV" /\ rd.pc = "sizes" /\ ~Over
  BY DEF BIJVSizes, AtFormat, At, Over
<1>2. Shape /\ Quiet /\ Running /\ BIJVAt
  <2>1. Shape /\ Quiet /\ Running
    BY <1>1, SoundRuns
  <2> QED BY <1>1, <2>1, Where
<1>3. CASE BIJVBroken({}) \/ \E sig : BIJVFailure({}, sig)
  BY <1>2, <1>3, BIJVHeld
<1>4. PICK head : head = [NoHeader EXCEPT !.nrows = Item(1), !.ncols = Item(2), !.nnz = Item(3), !.vals = Item(4) = 1]
  OBVIOUS
<1>5. DOMAIN head = DOMAIN rd.head /\ ~head.sizes /\ ~head.wgts /\ head.nnz = Item(3)
  BY <1>2, <1>4 DEF Shape, NoHeader
<1>6. CASE Item(3) \in 0 .. SizeMax /\ Goes([rd EXCEPT !.pc = "triples", !.at = 4, !.head = head], {})
  <2>1. rd' = [rd EXCEPT !.pc = "triples", !.at = 4, !.head = head] /\ heap' = heap
    BY <1>6 DEF Goes
  <2>2. /\ DOMAIN rd' = DOMAIN rd /\ rd'.pc = "triples" /\ rd'.call = rd.call /\ rd'.head = head
        /\ rd'.ret = rd.ret /\ rd'.sig = rd.sig /\ rd'.ents = rd.ents /\ rd'.cap = rd.cap
    BY <1>2, <2>1 DEF Shape
  <2>3. head.nnz \in Nat
    BY <1>5, <1>6, WordConstants
  <2>4. Gathers' /\ Unlabelled' /\ heap' = {"mat"}
    BY <1>1, <1>2, <1>5, <2>1, <2>2 DEF BIJVAt, Gathers, Unlabelled
  <2>5. BIJVAt'
    BY <1>1, <2>2, <2>3, <2>4 DEF BIJVAt
  <2> QED BY <1>2, <1>5, <2>2, <2>5, GoesOn DEF Working
<1>7. \/ BIJVBroken({}) \/ \E sig : BIJVFailure({}, sig)
      \/ Item(3) \in 0 .. SizeMax /\ Goes([rd EXCEPT !.pc = "triples", !.at = 4, !.head = head], {})
  BY <1>4 DEF BIJVSizes
<1> QED BY <1>3, <1>6, <1>7

LEMMA BIJVTriplesSound ==
  ASSUME Sound, BIJVTriples
  PROVE  Sound'
<1>1. rd.call.what = "csr" /\ rd.call.fmt = "BIJV" /\ rd.pc = "triples" /\ ~Over
  BY DEF BIJVTriples, AtFormat, At, Over
<1>2. Shape /\ Quiet /\ Running /\ BIJVAt
  <2>1. Shape /\ Quiet /\ Running
    BY <1>1, SoundRuns
  <2> QED BY <1>1, <2>1, Where
<1>3. heap = {"mat"} /\ rd.head.nnz \in Nat
  BY <1>1, <1>2 DEF BIJVAt
<1>4. PICK vals : vals = rd.head.vals
  OBVIOUS
<1>5. CASE BIJVBroken(TripleBlocks(vals)) \/ \E sig : BIJVFailure(TripleBlocks(vals), sig)
  BY <1>2, <1>5, BIJVHeld
<1>6. PICK width : width = IF rd.head.vals THEN 3 ELSE 2
  OBVIOUS
<1>7. PICK ents : ents = [p \in 1 .. rd.head.nnz |-> SubSeq(Items, 5 + (p - 1) * width, 4 + p * width)]
  OBVIOUS
<1>8. Listed(ents) /\ Len(ents) = rd.head.nnz
  <2>1. PICK n \in Nat : n = rd.head.nnz
    BY <1>3
  <2>2. ents = [p \in 1 .. n |-> SubSeq(Items, 5 + (p - 1) * width, 4 + p * width)]
    BY <1>7, <2>1
  <2>3. ents = [p \in 1 .. n |-> ents[p]]
    BY <2>2
  <2> QED BY <2>1, <2>3, ListedFunction
<1>9. CASE Goes([rd EXCEPT !.pc = "end", !.ents = ents, !.cap = rd.head.nnz], TripleBlocks(vals))
  <2>1. rd' = [rd EXCEPT !.pc = "end", !.ents = ents, !.cap = rd.head.nnz] /\ heap' = heap \cup TripleBlocks(vals)
    BY <1>9 DEF Goes
  <2>2. /\ DOMAIN rd' = DOMAIN rd /\ rd'.pc = "end" /\ rd'.call = rd.call /\ rd'.head = rd.head
        /\ rd'.ret = rd.ret /\ rd'.sig = rd.sig /\ rd'.ents = ents /\ rd'.cap = rd.head.nnz
    BY <1>2, <2>1 DEF Shape
  <2>3. heap' \subseteq {"mat"} \cup Triples
    BY <1>3, <2>1 DEF TripleBlocks, Triples
  <2>4. Gathers' /\ Unlabelled'
    BY <1>2, <1>3, <1>8, <2>2 DEF BIJVAt, Gathers, Unlabelled
  <2>5. BIJVAt'
    BY <1>1, <2>2, <2>3, <2>4 DEF BIJVAt
  <2> QED BY <1>2, <2>2, <2>5, GoesOn DEF Working
<1>10. \/ BIJVBroken(TripleBlocks(vals)) \/ \E sig : BIJVFailure(TripleBlocks(vals), sig)
       \/ Goes([rd EXCEPT !.pc = "end", !.ents = ents, !.cap = rd.head.nnz], TripleBlocks(vals))
  BY <1>4, <1>6, <1>7 DEF BIJVTriples
<1> QED BY <1>5, <1>9, <1>10

LEMMA BIJVEndSound ==
  ASSUME Sound, BIJVEnd
  PROVE  Sound'
<1>1. rd.call.what = "csr" /\ rd.call.fmt = "BIJV" /\ rd.pc = "end" /\ ~Over
  BY DEF BIJVEnd, AtFormat, At, Over
<1>2. Shape /\ Quiet /\ Running /\ BIJVAt
  <2>1. Shape /\ Quiet /\ Running
    BY <1>1, SoundRuns
  <2> QED BY <1>1, <2>1, Where
<1>3. CASE Broken("file", BIJVBlocks)
  BY <1>2, <1>3, BIJVHeld
<1>4. CASE Closes([rd EXCEPT !.pc = "build"], {})
  <2>1. rd' = [rd EXCEPT !.pc = "build"] /\ heap' = heap /\ stream' = "closed"
    BY <1>4 DEF Closes
  <2>2. /\ DOMAIN rd' = DOMAIN rd /\ rd'.pc = "build" /\ rd'.call = rd.call /\ rd'.head = rd.head
        /\ rd'.ret = rd.ret /\ rd'.sig = rd.sig /\ rd'.ents = rd.ents /\ rd'.cap = rd.cap
    BY <1>2, <2>1 DEF Shape
  <2>3. BIJVAt'
    BY <1>1, <1>2, <2>1, <2>2 DEF BIJVAt, Gathers, Unlabelled
  <2> QED BY <1>2, <2>2, <2>3, GoesOn DEF Working
<1> QED BY <1>3, <1>4 DEF BIJVEnd

LEMMA BIJVBuildSound ==
  ASSUME Sound, BIJVBuild
  PROVE  Sound'
<1>1. rd.call.what = "csr" /\ rd.call.fmt = "BIJV" /\ rd.pc = "build" /\ ~Over
  BY DEF BIJVBuild, AtFormat, At, Over
<1>2. Shape /\ Quiet /\ Running /\ BIJVAt
  <2>1. Shape /\ Quiet /\ Running
    BY <1>1, SoundRuns
  <2> QED BY <1>1, <2>1, Where
<1>3. PICK vals, result : vals = rd.head.vals
                          /\ result = Result("csr", rd.head.nrows, rd.head.ncols, TRUE, rd.head.vals,
                                             Compressed(rd.head.nrows, rd.ents, rd.head.vals), <<>>)
  OBVIOUS
<1>4. result.what = "csr" /\ result.vals = vals
  BY <1>3 DEF Result
<1>5. CASE OutOfMemory(Blocks(vals, FALSE, FALSE), BIJVBlocks)
  BY <1>2, <1>5, BIJVHeld
<1>6. CASE /\ rd' = [rd EXCEPT !.pc = "done", !.ret = result]
           /\ heap' = (heap \cup Blocks(vals, FALSE, FALSE)) \ Triples /\ stream' = stream
  <2>1. rd'.call = rd.call /\ rd'.head = rd.head /\ rd'.ret = result
    BY <1>2, <1>6 DEF Shape
  <2>2. heap \subseteq {"mat"} \cup Triples /\ stream = "closed"
    BY <1>1, <1>2 DEF BIJVAt
  <2>3. heap' = Blocks(vals, FALSE, FALSE)
    <3>1. \A b \in Blocks(vals, FALSE, FALSE) : b \notin Triples
      BY DEF Blocks, Triples
    <3>2. "mat" \in Blocks(vals, FALSE, FALSE)
      BY DEF Blocks
    <3> QED BY <1>6, <2>2, <3>1, <3>2
  <2>4. ResultBlocks' = Blocks(vals, FALSE, FALSE)
    BY <1>1, <1>2, <1>4, <2>1 DEF ResultBlocks, HasResult, Matrixwise, Blocks, BIJVAt, Unlabelled
  <2>5. "line" \notin heap'
    BY <2>3, BlocksIn
  <2> QED BY <1>1, <1>2, <1>4, <1>6, <2>2, <2>3, <2>4, <2>5, ResultSound
<1>7. \/ OutOfMemory(Blocks(vals, FALSE, FALSE), BIJVBlocks)
      \/ /\ rd' = [rd EXCEPT !.pc = "done", !.ret = result]
         /\ heap' = (heap \cup Blocks(vals, FALSE, FALSE)) \ Triples /\ stream' = stream
  BY <1>3 DEF BIJVBuild
<1> QED BY <1>5, <1>6, <1>7
-----------------------------------------------------------------------------
(* The readers of lines. Each line is a block, apart from all others.      *)
LEMMA NumberedLaws ==
  ASSUME NEW name, NEW n \in Nat
  PROVE  /\ Numbered(name, 0) = {}
         /\ Numbered(name, n + 1) = Numbered(name, n) \cup {name \o ToString(n + 1)}
<1>1. 1 .. 0 = {} /\ 1 .. n + 1 = (1 .. n) \cup {n + 1}
  OBVIOUS
<1> DEFINE block(k) == name \o ToString(k)
<1>2. Numbered(name, 0) = {block(k) : k \in 1 .. 0}
      /\ Numbered(name, n) = {block(k) : k \in 1 .. n}
      /\ Numbered(name, n + 1) = {block(k) : k \in 1 .. n + 1}
      /\ name \o ToString(n + 1) = block(n + 1)
  BY DEF Numbered
<1> HIDE DEF block
<1>3. {block(k) : k \in 1 .. n + 1} = {block(k) : k \in 1 .. n} \cup {block(n + 1)}
  BY <1>1
<1>4. {block(k) : k \in 1 .. 0} = {}
  BY <1>1
<1> QED BY <1>2, <1>3, <1>4

LEMMA NumberedElsewhere ==
  ASSUME NEW name \in {"line", "pssm", "psfm"}, NEW n \in 0 .. SizeMax
  PROVE  \A b \in Numbered(name, n) : b # "line" /\ \A i \in DOMAIN Order : b # Order[i]
<1> SUFFICES ASSUME NEW k \in 1 .. n
             PROVE  name \o ToString(k) # "line" /\ \A i \in DOMAIN Order : name \o ToString(k) # Order[i]
  BY DEF Numbered
<1>1. k \in 1 .. SizeMax
  BY WordConstants
<1>2. name \o ToString(k) \notin {"line"} \cup {Order[i] : i \in DOMAIN Order}
  BY <1>1, NumberedApart
<1>3. PICK b : b = name \o ToString(k)
  OBVIOUS
<1>4. b \notin {"line"} /\ b \notin {Order[i] : i \in DOMAIN Order}
  BY <1>2, <1>3
<1> HIDE DEF Order
<1>5. b # "line" /\ \A i \in DOMAIN Order : b # Order[i]
  BY <1>4
<1> QED BY <1>3, <1>5

LEMMA LinesPaths ==
  ASSUME Shape, Quiet, Running, LinesAt, rd.pc = "lines"
  PROVE  /\ Refuse(Held, "SIGERR") => Sound'
         /\ BrokenHolding("memory", {"line"}, Held) => Sound'
         /\ BrokenHolding("memory", {"line", "array"}, Held) => Sound'
         /\ LineFails(Held, Held) => Sound'
         /\ Broken("file", Held) => Sound'
<1>1. rd.call.what # "getline" /\ heap \subseteq Held
  BY DEF LinesAt, LinesHeld, Held, LineReaders
<1>2. PICK freed, one, two : freed = Held /\ one = {"line"} /\ two = {"line", "array"}
  OBVIOUS
<1>3. heap \subseteq freed /\ one \subseteq freed /\ two \subseteq freed
  BY <1>1, <1>2 DEF Held
<1>4. /\ Refuse(freed, "SIGERR") => Sound'
      /\ LineFails(freed, freed) => Sound'
      /\ Broken("file", freed) => Sound'
      /\ BrokenHolding("memory", one, freed) => Sound'
      /\ BrokenHolding("memory", two, freed) => Sound'
  BY <1>1, <1>3, PathEnds, EndsSound
<1> QED BY <1>2, <1>4, Zenon

LEMMA ElementSound ==
  ASSUME Sound, NEW what \in LineReaders, Element(what)
  PROVE  Sound'
<1>1. rd.call.what = what /\ rd.pc = "lines" /\ ~Over
  BY DEF Element, At, Over
<1>2. Shape /\ Quiet /\ Running /\ LinesAt
  <2>1. Shape /\ Quiet /\ Running
    BY <1>1, SoundRuns
  <2> QED BY <1>1, <2>1, Where
<1>3. /\ Listed(rd.ents) /\ Len(rd.ents) \in Nat /\ rd.cap \in Nat /\ Len(rd.ents) <= rd.cap /\ heap = LinesHeld
      /\ rd.at \in Nat /\ Len(rd.ents) <= rd.at /\ rd.at < Len(disk.lines) /\ Len(disk.lines) \in 0 .. SizeMax
  BY <1>1, <1>2, ListedLaws DEF LinesAt, Gathers, Element, HasLine
<1>4. PICK n, ents, cap, lines : /\ n = Len(rd.ents) /\ ents = Append(rd.ents, Taking(what, NextLine))
                                 /\ cap = Grown(rd.cap, FirstCap, n + 1) /\ lines = Len(disk.lines)
  OBVIOUS
<1>5. Listed(ents) /\ Len(ents) = n + 1 /\ ents # <<>>
  BY <1>3, <1>4, ListedLaws
<1>6. cap \in Nat /\ n + 1 <= cap
  <2>1. n + 1 \in Nat /\ FirstCap \in Nat \ {0} /\ rd.cap \in Nat
    BY <1>3, <1>4, FirstCapPositive
  <2>2. Grown(rd.cap, FirstCap, n + 1) \in Nat /\ n + 1 <= Grown(rd.cap, FirstCap, n + 1)
    BY <2>1, GrownLaw
  <2> QED BY <1>4, <2>2
<1>7. CASE Goes([rd EXCEPT !.at = @ + 1, !.ents = ents, !.cap = cap], {"line", "array"} \cup LineBlock(what))
  <2>1. rd' = [rd EXCEPT !.at = @ + 1, !.ents = ents, !.cap = cap] /\ heap' = heap \cup ({"line", "array"} \cup LineBlock(what))
        /\ disk' = disk
    BY <1>7 DEF Goes
  <2>2. /\ DOMAIN rd' = DOMAIN rd /\ rd'.pc = "lines" /\ rd'.call = rd.call /\ rd'.head = rd.head
        /\ rd'.ret = rd.ret /\ rd'.sig = rd.sig /\ rd'.ents = ents /\ rd'.cap = cap /\ rd'.at = rd.at + 1
    BY <1>1, <1>2, <2>1 DEF Shape
  <2>3. PICK block : block = "line" \o ToString(n + 1)
    OBVIOUS
  <2>4. Numbered("line", n + 1) = Numbered("line", n) \cup {block} /\ (n = 0 => Numbered("line", n) = {})
    BY <1>3, <1>4, <2>3, NumberedLaws
  <2>5. LineBlock(what) = IF what = "lines" THEN {block} ELSE {}
    BY <1>4, <2>3 DEF LineBlock
  <2>6. LinesHeld = IF n = 0 THEN {} ELSE {"line", "array"} \cup (IF what = "lines" THEN Numbered("line", n) ELSE {})
    BY <1>1, <1>3, <1>4, ListedLaws DEF LinesHeld
  <2>7. LinesHeld' = {"line", "array"} \cup (IF what = "lines" THEN Numbered("line", n + 1) ELSE {})
    BY <1>1, <1>5, <2>2 DEF LinesHeld
  <2>8. heap' = LinesHeld'
    BY <1>3, <2>1, <2>4, <2>5, <2>6, <2>7
  <2>9. rd.at + 1 \in Nat /\ n + 1 <= rd.at + 1 /\ rd.at + 1 <= lines
    BY <1>3, <1>4, WordConstants
  <2>10. /\ rd'.at \in Nat /\ Len(rd'.ents) <= rd'.at /\ rd'.at <= Len(disk'.lines) /\ Len(disk'.lines) \in 0 .. SizeMax
         /\ Gathers'
    BY <1>3, <1>4, <1>5, <1>6, <2>1, <2>2, <2>9 DEF Gathers
  <2>11. LinesAt'
    BY <1>1, <2>2, <2>8, <2>10 DEF LinesAt
  <2> QED BY <1>2, <2>2, <2>11, GoesOn DEF Working
<1>8. \/ Refuse(Held, "SIGERR")
      \/ BrokenHolding("memory", {"line"}, Held)
      \/ BrokenHolding("memory", {"line", "array"}, Held)
      \/ Goes([rd EXCEPT !.at = @ + 1, !.ents = Append(@, Taking(what, NextLine)),
                         !.cap = Grown(@, FirstCap, Len(rd.ents) + 1)], {"line", "array"} \cup LineBlock(what))
  BY DEF Element, gk_grow_read_buffer
<1>9. [rd EXCEPT !.at = @ + 1, !.ents = Append(@, Taking(what, NextLine)), !.cap = Grown(@, FirstCap, Len(rd.ents) + 1)]
        = [rd EXCEPT !.at = @ + 1, !.ents = ents, !.cap = cap]
  BY <1>4
<1> QED BY <1>1, <1>2, <1>7, <1>8, <1>9, LinesPaths

LEMMA ElementsEndSound ==
  ASSUME Sound, NEW what \in LineReaders, At(what, "lines"),
         \/ rd.ents # <<>> /\ Closes([rd EXCEPT !.pc = "done", !.ret = Array], {"line"})
         \/ rd.ents = <<>> /\ Closes([rd EXCEPT !.pc = "empty"], {"line"})
  PROVE  Sound'
<1>1. rd.call.what = what /\ rd.pc = "lines" /\ ~Over
  BY DEF At, Over
<1>2. Shape /\ Quiet /\ Running /\ LinesAt
  <2>1. Shape /\ Quiet /\ Running
    BY <1>1, SoundRuns
  <2> QED BY <1>1, <2>1, Where
<1>3. /\ Listed(rd.ents) /\ Len(rd.ents) \in Nat /\ heap = LinesHeld
      /\ rd.at \in Nat /\ Len(rd.ents) <= rd.at /\ rd.at <= Len(disk.lines) /\ Len(disk.lines) \in 0 .. SizeMax
  BY <1>1, <1>2, ListedLaws DEF LinesAt, Gathers
<1>4. PICK n : n = Len(rd.ents)
  OBVIOUS
<1>5. CASE rd.ents # <<>> /\ Closes([rd EXCEPT !.pc = "done", !.ret = Array], {"line"})
  <2>1. PICK result : result = Array
    OBVIOUS
  <2>2. result.what = what /\ result.items = rd.ents /\ what \notin {"none", "getline", "csr", "graph", "seq"}
    BY <1>1, <2>1 DEF Array, LineReaders
  <2>3. rd' = [rd EXCEPT !.pc = "done", !.ret = result] /\ heap' = heap \ {"line"} /\ stream' = "closed"
    BY <1>5, <2>1 DEF Closes
  <2>4. rd'.call = rd.call /\ rd'.head = rd.head /\ rd'.ret = result
    BY <1>2, <2>3 DEF Shape
  <2>5. n \in 0 .. SizeMax
    <3>1. PICK lines : lines = Len(disk.lines)
      OBVIOUS
    <3> QED BY <1>3, <1>4, <3>1, WordConstants
  <2>6. "line" \notin Numbered("line", n)
    BY <2>5, NumberedElsewhere
  <2>7. heap = {"line", "array"} \cup (IF what = "lines" THEN Numbered("line", n) ELSE {})
    BY <1>1, <1>3, <1>4, <1>5 DEF LinesHeld
  <2>8. heap' = {"array"} \cup (IF what = "lines" THEN Numbered("line", n) ELSE {})
    BY <2>3, <2>6, <2>7
  <2>9. ResultBlocks' = {"array"} \cup (IF what = "lines" THEN Numbered("line", n) ELSE {})
    BY <1>1, <1>4, <2>2, <2>4 DEF ResultBlocks, HasResult, Matrixwise
  <2>10. "line" \notin heap'
    BY <2>3
  <2> QED BY <1>1, <1>2, <2>2, <2>3, <2>8, <2>9, <2>10, ResultSound
<1>6. CASE rd.ents = <<>> /\ Closes([rd EXCEPT !.pc = "empty"], {"line"})
  <2>1. rd' = [rd EXCEPT !.pc = "empty"] /\ heap' = heap \ {"line"} /\ stream' = "closed"
    BY <1>6 DEF Closes
  <2>2. /\ DOMAIN rd' = DOMAIN rd /\ rd'.pc = "empty" /\ rd'.call = rd.call /\ rd'.head = rd.head
        /\ rd'.ret = rd.ret /\ rd'.sig = rd.sig /\ rd'.ents = rd.ents /\ rd'.cap = rd.cap
    BY <1>2, <2>1 DEF Shape
  <2>3. heap' = {}
    BY <1>3, <1>6, <2>1 DEF LinesHeld
  <2>4. LinesAt'
    BY <1>1, <1>2, <1>6, <2>1, <2>2, <2>3 DEF LinesAt, Gathers
  <2> QED BY <1>2, <2>2, <2>4, GoesOn DEF Working
<1> QED BY <1>5, <1>6

LEMMA EmptySound ==
  ASSUME Sound, NEW what \in LineReaders, gk_empty_read_result(what)
  PROVE  Sound'
<1>1. rd.call.what = what /\ rd.pc = "empty" /\ ~Over
  BY DEF gk_empty_read_result, At, Over
<1>2. Shape /\ Quiet /\ Running /\ LinesAt
  <2>1. Shape /\ Quiet /\ Running
    BY <1>1, SoundRuns
  <2> QED BY <1>1, <2>1, Where
<1>3. heap = {} /\ rd.ents = <<>> /\ stream = "closed" /\ what \notin {"none", "getline", "csr", "graph", "seq"}
  BY <1>1, <1>2 DEF LinesAt, LineReaders
<1>4. CASE OutOfMemory({"array"}, {})
  <2>1. BrokenHolding("memory", {c \in {"array"} : Rank(c) < Rank("array")}, {})
    BY <1>4 DEF OutOfMemory
  <2>2. Rank("array") \in Int
    <3>1. 16 \in DOMAIN Order /\ Order[16] = "array" /\ DOMAIN Order \subseteq Int
      BY DEF Order
    <3> HIDE DEF Order
    <3>2. Rank("array") \in DOMAIN Order
      BY <3>1 DEF Rank
    <3> QED BY <3>1, <3>2
  <2>3. {c \in {"array"} : Rank(c) < Rank("array")} = {}
    BY <2>2
  <2>4. PICK none : none = {}
    OBVIOUS
  <2>5. BrokenHolding("memory", none, none)
    BY <2>1, <2>3, <2>4, Zenon
  <2>6. heap \cup none \subseteq none
    BY <1>3, <2>4
  <2> QED BY <1>1, <1>2, <1>3, <2>5, <2>6, BrokenEnds, EndsSound
<1>5. CASE rd' = [rd EXCEPT !.pc = "done", !.ret = Array] /\ heap' = heap \cup {"array"} /\ stream' = stream
  <2>1. PICK result : result = Array
    OBVIOUS
  <2>2. result.what = what /\ result.items = <<>>
    BY <1>1, <1>3, <2>1 DEF Array
  <2>3. rd' = [rd EXCEPT !.pc = "done", !.ret = result] /\ heap' = {"array"} /\ stream' = "closed"
    BY <1>3, <1>5, <2>1
  <2>4. rd'.call = rd.call /\ rd'.head = rd.head /\ rd'.ret = result
    BY <1>2, <2>3 DEF Shape
  <2>5. Numbered("line", Len(<<>>)) = {}
    BY NoEntries, NumberedLaws
  <2>6. ResultBlocks' = {"array"}
    BY <1>1, <1>3, <2>2, <2>4, <2>5 DEF ResultBlocks, HasResult, Matrixwise
  <2>7. "line" \notin heap'
    BY <2>3
  <2> QED BY <1>1, <1>2, <1>3, <2>2, <2>3, <2>6, <2>7, ResultSound
<1> QED BY <1>4, <1>5 DEF gk_empty_read_result

LEMMA ElementsSound ==
  ASSUME Sound, NEW what \in LineReaders, Elements(what)
  PROVE  Sound'
<1>1. CASE At(what, "open") /\ gk_fopen([rd EXCEPT !.pc = "lines"])
  <2>1. rd.call.what = what /\ rd.pc = "open" /\ ~Over /\ what # "getline"
    BY <1>1 DEF At, Over, LineReaders
  <2>2. Shape /\ Quiet /\ Running
    BY <2>1, SoundRuns
  <2>3. rd.ents = <<>> /\ rd.cap = 0 /\ rd.at = 0 /\ heap = {} /\ FileMeant
    BY <2>1, <2>2, Begins
  <2>4. CASE CannotOpen({})
    BY <2>1, <2>2, <2>3, <2>4, PathEnds, EndsSound
  <2>5. CASE Opened([rd EXCEPT !.pc = "lines"])
    <3>1. rd' = [rd EXCEPT !.pc = "lines"] /\ heap' = heap /\ disk' = disk /\ disk # Missing
      BY <2>5 DEF Opened, CanOpen
    <3>2. /\ DOMAIN rd' = DOMAIN rd /\ rd'.pc = "lines" /\ rd'.call = rd.call /\ rd'.head = rd.head
          /\ rd'.ret = rd.ret /\ rd'.sig = rd.sig /\ rd'.ents = rd.ents /\ rd'.cap = rd.cap /\ rd'.at = rd.at
      BY <2>2, <3>1 DEF Shape
    <3>3. Len(disk.lines) \in 0 .. SizeMax
      BY <2>1, <2>3, <3>1 DEF FileMeant
    <3>4. Gathers' /\ heap' = LinesHeld'
      BY <2>3, <3>1, <3>2, NoEntries DEF Gathers, LinesHeld
    <3>5. 0 <= Len(disk.lines)
      BY <3>3, WordConstants
    <3>6. LinesAt'
      BY <2>1, <2>3, <3>1, <3>2, <3>3, <3>4, <3>5, NoEntries DEF LinesAt
    <3> QED BY <2>2, <3>2, <3>6, GoesOn DEF Working
  <2> QED BY <1>1, <2>4, <2>5 DEF gk_fopen
<1>2. CASE At(what, "lines") /\ (LineFails(Held, Held) \/ Broken("file", Held))
  <2>1. rd.call.what = what /\ rd.pc = "lines" /\ ~Over
    BY <1>2 DEF At, Over
  <2>2. Shape /\ Quiet /\ Running
    BY <2>1, SoundRuns
  <2> QED BY <1>2, <2>1, <2>2, Where, LinesPaths
<1>3. CASE Element(what)
  BY <1>3, ElementSound
<1>4. CASE At(what, "lines") /\ (\/ rd.ents # <<>> /\ Closes([rd EXCEPT !.pc = "done", !.ret = Array], {"line"})
                                 \/ rd.ents = <<>> /\ Closes([rd EXCEPT !.pc = "empty"], {"line"}))
  BY <1>4, ElementsEndSound
<1>5. CASE gk_empty_read_result(what)
  BY <1>5, EmptySound
<1> QED BY <1>1, <1>2, <1>3, <1>4, <1>5 DEF Elements
-----------------------------------------------------------------------------
(* The reader of arrays.                                                   *)
LEMMA ArraySound ==
  ASSUME Sound, NEW elem, gk_readfilebin_impl(elem)
  PROVE  Sound'
<1>1. rd.call.what = "bin" /\ rd.pc \in {"open", "size", "read"} /\ ~Over
  BY DEF gk_readfilebin_impl, At, Over
<1>2. Shape /\ Quiet /\ Running
  BY <1>1, SoundRuns
<1>3. PICK array : array = {"array"}
  OBVIOUS
<1>4. CASE rd.pc = "open" /\ CanOpen /\ Opened([rd EXCEPT !.pc = "size"])
  <2>1. rd.ents = <<>> /\ rd.cap = 0 /\ heap = {} /\ FileMeant
    BY <1>2, <1>4, Begins
  <2>2. rd' = [rd EXCEPT !.pc = "size"] /\ heap' = heap /\ disk' = disk /\ disk # Missing
    BY <1>4 DEF Opened, CanOpen
  <2>3. /\ DOMAIN rd' = DOMAIN rd /\ rd'.pc = "size" /\ rd'.call = rd.call /\ rd'.head = rd.head
        /\ rd'.ret = rd.ret /\ rd'.sig = rd.sig /\ rd'.ents = rd.ents /\ rd'.cap = rd.cap
    BY <1>2, <2>2 DEF Shape
  <2>4. disk.items \in Seq(Int)
    BY <1>1, <2>1, <2>2 DEF FileMeant
  <2>5. BinAt'
    BY <1>1, <2>1, <2>2, <2>3, <2>4, NoEntries DEF BinAt, Gathers
  <2> QED BY <1>2, <2>3, <2>5, GoesOn DEF Working
<1>5. CASE rd.pc = "open" /\ CannotOpen({})
  <2>1. heap = {}
    BY <1>2, <1>5, Begins
  <2> QED BY <1>1, <1>2, <1>5, <2>1, PathEnds, EndsSound
<1>6. ASSUME rd.pc # "open" PROVE BinAt
  BY <1>1, <1>2, <1>6, Where
<1>7. CASE rd.pc = "size" /\ (Broken("file", {}) \/ Refuse({}, "SIGERR"))
  <2>1. heap = {}
    BY <1>1, <1>6, <1>7 DEF BinAt
  <2> QED BY <1>1, <1>2, <1>7, <2>1, PathEnds, EndsSound
<1>8. CASE rd.pc = "size" /\ OutOfMemory(array, array)
  <2>1. heap \subseteq array
    BY <1>1, <1>6, <1>8 DEF BinAt
  <2> QED BY <1>1, <1>2, <1>8, <2>1, PathEnds, EndsSound
<1>9. CASE rd.pc = "size" /\ Goes([rd EXCEPT !.pc = "read", !.cap = Len(disk.items)], {"array"})
  <2>1. heap = {} /\ disk.items \in Seq(Int) /\ Gathers
    BY <1>1, <1>6, <1>9 DEF BinAt
  <2>2. PICK n \in Nat : n = Len(disk.items)
    BY <2>1
  <2>3. rd' = [rd EXCEPT !.pc = "read", !.cap = n] /\ heap' = heap \cup {"array"} /\ disk' = disk
    BY <1>9, <2>2 DEF Goes
  <2>4. /\ DOMAIN rd' = DOMAIN rd /\ rd'.pc = "read" /\ rd'.call = rd.call /\ rd'.head = rd.head
        /\ rd'.ret = rd.ret /\ rd'.sig = rd.sig /\ rd'.ents = rd.ents /\ rd'.cap = n
    BY <1>2, <2>3 DEF Shape
  <2>5. rd.ents = <<>>
    BY <1>1, <1>6, <1>9 DEF BinAt
  <2>6. BinAt'
    BY <1>1, <2>1, <2>2, <2>3, <2>4, <2>5, NoEntries DEF BinAt, Gathers
  <2> QED BY <1>2, <2>4, <2>6, GoesOn DEF Working
<1>10. CASE rd.pc = "read" /\ Broken("file", array)
  <2>1. heap \subseteq array
    BY <1>1, <1>3, <1>6, <1>10 DEF BinAt
  <2> QED BY <1>1, <1>2, <1>10, <2>1, PathEnds, EndsSound
<1>11. CASE rd.pc = "read" /\ Closes([rd EXCEPT !.pc = "done", !.ents = disk.items, !.ret = Bytes], {})
  <2>1. heap = {"array"} /\ disk.items \in Seq(Int) /\ rd.cap = Len(disk.items)
    BY <1>1, <1>6, <1>11 DEF BinAt
  <2>2. PICK items, result : items = disk.items /\ result = Bytes
    OBVIOUS
  <2>3. result.what = "bin"
    BY <2>2 DEF Bytes
  <2>4. rd' = [rd EXCEPT !.pc = "done", !.ents = items, !.ret = result] /\ heap' = {"array"} /\ stream' = "closed"
    BY <1>11, <2>1, <2>2 DEF Closes
  <2>5. /\ DOMAIN rd' = DOMAIN rd /\ rd'.pc = "done" /\ rd'.call = rd.call /\ rd'.head = rd.head /\ rd'.sig = rd.sig
        /\ rd'.ret = result /\ rd'.ents = items /\ rd'.cap = rd.cap
    BY <1>2, <2>4 DEF Shape
  <2>6. Shape' /\ Over' /\ rd'.sig = "none"
    BY <1>1, <1>2, <2>5 DEF Shape, Over, Quiet
  <2>7. ResultBlocks' = {"array"}
    BY <1>1, <2>3, <2>5 DEF ResultBlocks, HasResult, Matrixwise
  <2>8. NothingLeaked'
    BY <2>4, <2>5, <2>6, <2>7 DEF NothingLeaked
  <2>9. Len(items) <= rd.cap
    BY <2>1, <2>2
  <2>10. WithinCapacity'
    BY <1>1, <2>5, <2>9 DEF WithinCapacity
  <2> QED BY <1>1, <2>5, <2>6, <2>8, <2>10 DEF Sound, Ended, Quiet, At
<1>12. \/ rd.pc = "open" /\ CanOpen /\ Opened([rd EXCEPT !.pc = "size"])
       \/ rd.pc = "open" /\ CannotOpen({})
       \/ rd.pc = "size" /\ (Broken("file", {}) \/ Refuse({}, "SIGERR"))
       \/ rd.pc = "size" /\ OutOfMemory(array, array)
       \/ rd.pc = "size" /\ Goes([rd EXCEPT !.pc = "read", !.cap = Len(disk.items)], {"array"})
       \/ rd.pc = "read" /\ Broken("file", array)
       \/ rd.pc = "read" /\ Closes([rd EXCEPT !.pc = "done", !.ents = disk.items, !.ret = Bytes], {})
  BY <1>3 DEF gk_readfilebin_impl, At
<1> QED BY <1>4, <1>5, <1>7, <1>8, <1>9, <1>10, <1>11, <1>12
-----------------------------------------------------------------------------
(* One line, byte by byte. The buffer stays the caller's.                  *)
LEMMA GetlineEnds ==
  ASSUME Shape, Quiet, Running, rd.call.what = "getline", NEW ret, rd' = [rd EXCEPT !.pc = "done", !.ret = ret],
         stream' = "closed", heap' = heap
  PROVE  Sound'
<1>1. rd.sig = "none"
  BY RunningIs DEF Quiet
<1>2. /\ DOMAIN rd' = DOMAIN rd /\ rd'.pc = "done" /\ rd'.call = rd.call /\ rd'.head = rd.head /\ rd'.sig = "none"
      /\ rd'.ret = ret /\ rd'.ents = rd.ents /\ rd'.cap = rd.cap
  BY <1>1 DEF Shape
<1>3. Shape' /\ Over' /\ Quiet' /\ NothingLeaked'
  BY <1>2 DEF Shape, Over, Quiet, NothingLeaked
<1>4. "line" \in heap => Len(rd.ents) < rd.cap
  <2>1. ASSUME rd.pc = "open" PROVE heap = {}
    BY <2>1, Begins
  <2>2. ASSUME rd.pc # "open" PROVE Len(rd.ents) < rd.cap
    BY <2>2, Where DEF GetlineAt
  <2> QED BY <2>1, <2>2
<1>5. WithinCapacity'
  BY <1>2, <1>4 DEF WithinCapacity
<1> QED BY <1>2, <1>3, <1>5 DEF Sound, Ended, At

LEMMA GetlineFailsSound ==
  ASSUME Shape, Quiet, Running, rd.call.what = "getline", NEW what, GetlineFails(what)
  PROVE  Sound'
<1>1. rd' = [rd EXCEPT !.pc = "done"] /\ stream' = "closed" /\ heap' = heap
  BY DEF GetlineFails
<1>2. PICK ret : ret = rd.ret
  OBVIOUS
<1>3. rd' = [rd EXCEPT !.pc = "done", !.ret = ret]
  BY <1>1, <1>2 DEF Shape
<1> QED BY <1>1, <1>3, GetlineEnds

LEMMA GetlineBufferSound ==
  ASSUME Sound, GetlineBuffer
  PROVE  Sound'
<1>1. rd.call.what = "getline" /\ rd.pc = "open" /\ ~Over
  BY DEF GetlineBuffer, At, Over
<1>2. Shape /\ Quiet /\ Running
  BY <1>1, SoundRuns
<1>3. rd.ents = <<>> /\ rd.call.cap \in Nat
  BY <1>1, <1>2, Begins DEF FileMeant
<1>4. PICK cap : cap = IF rd.call.cap = 0 THEN FirstLine ELSE rd.call.cap
  OBVIOUS
<1>5. cap \in Nat /\ 0 < cap
  BY <1>3, <1>4, ReaderWidths
<1>6. CASE rd' = [rd EXCEPT !.pc = "bytes", !.cap = cap]
  <2>1. /\ DOMAIN rd' = DOMAIN rd /\ rd'.pc = "bytes" /\ rd'.call = rd.call /\ rd'.head = rd.head
        /\ rd'.ret = rd.ret /\ rd'.sig = rd.sig /\ rd'.ents = rd.ents /\ rd'.cap = cap
    BY <1>2, <1>6 DEF Shape
  <2>2. GetlineAt'
    BY <1>1, <1>3, <1>5, <2>1, NoEntries DEF GetlineAt
  <2> QED BY <1>2, <2>1, <2>2, GoesOn DEF Working
<1>7. GetlineFails("memory") \/ rd' = [rd EXCEPT !.pc = "bytes", !.cap = cap]
  BY <1>4 DEF GetlineBuffer
<1> QED BY <1>1, <1>2, <1>6, <1>7, GetlineFailsSound

LEMMA GetlineByteSound ==
  ASSUME Sound, GetlineByte
  PROVE  Sound'
<1>1. rd.call.what = "getline" /\ rd.pc = "bytes" /\ ~Over
  BY DEF GetlineByte, At, Over
<1>2. Shape /\ Quiet /\ Running /\ GetlineAt
  <2>1. Shape /\ Quiet /\ Running
    BY <1>1, SoundRuns
  <2> QED BY <1>1, <2>1, Where
<1>3. Listed(rd.ents) /\ Len(rd.ents) \in Nat /\ rd.cap \in Nat /\ Len(rd.ents) < rd.cap
  BY <1>2, ListedLaws DEF GetlineAt
<1>4. PICK byte, ents, cap, pc : /\ byte = disk.items[rd.at + 1] /\ ents = Append(rd.ents, byte)
                                 /\ cap = (IF Room THEN rd.cap ELSE 2 * rd.cap)
                                 /\ pc = IF byte = 0 THEN "line" ELSE rd.pc
  OBVIOUS
<1>5. Listed(ents) /\ Len(ents) = Len(rd.ents) + 1
  BY <1>3, <1>4, ListedLaws
<1>6. cap \in Nat /\ Len(ents) < cap
  <2>1. PICK n \in Nat : n = Len(rd.ents)
    BY <1>3
  <2>2. PICK old \in Nat : old = rd.cap
    BY <1>3
  <2>3. cap = IF n < old - 1 THEN old ELSE 2 * old
    BY <1>4, <2>1, <2>2 DEF Room
  <2>4. n < old /\ Len(ents) = n + 1
    BY <1>3, <1>5, <2>1, <2>2
  <2> QED BY <2>3, <2>4
<1>7. CASE Goes([rd EXCEPT !.at = @ + 1, !.ents = ents, !.cap = cap, !.pc = pc], {})
  <2>1. rd' = [rd EXCEPT !.at = @ + 1, !.ents = ents, !.cap = cap, !.pc = pc]
    BY <1>7 DEF Goes
  <2>2. /\ DOMAIN rd' = DOMAIN rd /\ rd'.pc = pc /\ rd'.call = rd.call /\ rd'.head = rd.head
        /\ rd'.ret = rd.ret /\ rd'.sig = rd.sig /\ rd'.ents = ents /\ rd'.cap = cap
    BY <1>2, <2>1 DEF Shape
  <2>3. pc \in {"bytes", "line"}
    BY <1>1, <1>4
  <2>4. GetlineAt'
    BY <1>1, <1>5, <1>6, <2>2, <2>3 DEF GetlineAt
  <2> QED BY <1>2, <2>2, <2>3, <2>4, GoesOn DEF Working
<1>8. \/ GetlineFails("memory")
      \/ Goes([rd EXCEPT !.at = @ + 1, !.ents = Append(@, byte), !.cap = IF Room THEN @ ELSE 2 * @,
                         !.pc = IF byte = 0 THEN "line" ELSE @], {})
  BY <1>4 DEF GetlineByte
<1>9. [rd EXCEPT !.at = @ + 1, !.ents = Append(@, byte), !.cap = IF Room THEN @ ELSE 2 * @,
                 !.pc = IF byte = 0 THEN "line" ELSE @]
        = [rd EXCEPT !.at = @ + 1, !.ents = ents, !.cap = cap, !.pc = pc]
  BY <1>4
<1> QED BY <1>1, <1>2, <1>7, <1>8, <1>9, GetlineFailsSound

LEMMA GetlineSound ==
  ASSUME Sound, gk_getline_fallback
  PROVE  Sound'
<1>1. CASE GetlineEnd
  <2>1. rd.call.what = "getline" /\ ~Over
    BY <1>1 DEF GetlineEnd, At, Over
  <2>2. Shape /\ Quiet /\ Running
    BY <2>1, SoundRuns
  <2>3. GetlineFails("file") => Sound'
    BY <2>1, <2>2, GetlineFailsSound
  <2>4. \A ret : LineStops(ret) => Sound'
    BY <2>1, <2>2, GetlineEnds DEF LineStops
  <2> QED BY <1>1, <2>3, <2>4 DEF GetlineEnd
<1> QED BY <1>1, GetlineBufferSound, GetlineByteSound DEF gk_getline_fallback
-----------------------------------------------------------------------------
(* The reader of sequences.                                                *)
LEMMA SeqPaths ==
  ASSUME Shape, Quiet, Running, rd.call.what = "seq", heap \subseteq SeqAll
  PROVE  /\ \A wanted : wanted \subseteq SeqAll /\ OutOfMemory(wanted, SeqAll) => Sound'
         /\ \A what, got : got \subseteq SeqAll /\ BrokenHolding(what, got, SeqAll) => Sound'
         /\ \A got : got \subseteq SeqAll /\ SeqRefused(got) => Sound'
         /\ LineFails(SeqAll, SeqAll) => Sound'
         /\ CannotOpen(SeqAll) => Sound'
         /\ Broken("file", SeqAll) => Sound'
<1>1. PICK freed : freed = SeqAll
  OBVIOUS
<1>2. heap \subseteq freed
  BY <1>1
<1>3. /\ \A what : Broken(what, freed) => Sound'
      /\ \A wanted : wanted \subseteq freed /\ OutOfMemory(wanted, freed) => Sound'
      /\ LineFails(freed, freed) => Sound'
      /\ CannotOpen(freed) => Sound'
      /\ \A got, sig : got \subseteq freed /\ RefuseHolding(got, freed, sig) => Sound'
      /\ \A what, got : got \subseteq freed /\ BrokenHolding(what, got, freed) => Sound'
  BY <1>2, PathEnds, EndsSound
<1>4. \A got : got \subseteq freed /\ SeqRefused(got) => Sound'
  BY <1>1, <1>3 DEF SeqRefused
<1> QED BY <1>1, <1>3, <1>4

LEMMA SeqCreateSound ==
  ASSUME Sound, gk_i2cc2i_create_common
  PROVE  Sound'
<1>1. rd.call.what = "seq" /\ rd.pc = "open" /\ ~Over
  BY DEF gk_i2cc2i_create_common, At, Over
<1>2. Shape /\ Quiet /\ Running
  BY <1>1, SoundRuns
<1>3. rd.ents = <<>> /\ rd.cap = 0 /\ rd.at = 0 /\ heap = {} /\ FileMeant
  BY <1>1, <1>2, Begins
<1>4. PICK table : table = {"i2c", "c2i", "conv"}
  OBVIOUS
<1>5. CASE OutOfMemory(table, table)
  <2>1. heap \subseteq table
    BY <1>3
  <2> QED BY <1>1, <1>2, <1>5, <2>1, PathEnds, EndsSound
<1>6. CASE Goes([rd EXCEPT !.pc = "create"], table)
  <2>1. rd' = [rd EXCEPT !.pc = "create"] /\ heap' = {"i2c", "c2i", "conv"} /\ disk' = disk
    BY <1>3, <1>4, <1>6 DEF Goes
  <2>2. /\ DOMAIN rd' = DOMAIN rd /\ rd'.pc = "create" /\ rd'.call = rd.call /\ rd'.head = rd.head
        /\ rd'.ret = rd.ret /\ rd'.sig = rd.sig /\ rd'.ents = rd.ents /\ rd'.cap = rd.cap /\ rd'.at = rd.at
    BY <1>2, <2>1 DEF Shape
  <2>3. disk # Missing => Len(disk.lines) \in 0 .. SizeMax
    BY <1>1, <1>3 DEF FileMeant
  <2>4. Gathers'
    BY <1>3, <2>2, NoEntries DEF Gathers
  <2>5. SeqAt'
    BY <1>1, <1>3, <2>1, <2>2, <2>3, <2>4 DEF SeqAt
  <2> QED BY <1>2, <2>2, <2>5, GoesOn DEF Working
<1> QED BY <1>4, <1>5, <1>6 DEF gk_i2cc2i_create_common

LEMMA SeqHeld ==
  ASSUME SeqAt
  PROVE  heap \subseteq SeqAll /\ rd.call.what = "seq"
<1>1. {"i2c", "c2i", "conv"} \subseteq SeqCommon
  BY DEF SeqCommon
<1>2. PICK common, arrays, rows : common = SeqCommon /\ arrays = SeqArrays /\ rows = SeqRows
  OBVIOUS
<1>3. common \subseteq SeqAll /\ arrays \subseteq SeqAll /\ rows \subseteq SeqAll /\ "line" \in SeqAll
  BY <1>2 DEF SeqAll
<1>4. \/ heap \subseteq common
      \/ heap \subseteq {"line"} \cup common \cup rows \cup arrays
  BY <1>1, <1>2 DEF SeqAt
<1> QED BY <1>3, <1>4 DEF SeqAt

LEMMA SeqInitSound ==
  ASSUME Sound, gk_seq_init
  PROVE  Sound'
<1>1. rd.call.what = "seq" /\ rd.pc = "create" /\ ~Over
  BY DEF gk_seq_init, At, Over
<1>2. Shape /\ Quiet /\ Running /\ SeqAt
  <2>1. Shape /\ Quiet /\ Running
    BY <1>1, SoundRuns
  <2> QED BY <1>1, <2>1, Where
<1>3. PICK wanted : wanted = {"header", "seq", "name"}
  OBVIOUS
<1>4. CASE OutOfMemory(wanted, SeqAll)
  <2>1. wanted \subseteq SeqAll
    BY <1>3 DEF SeqAll, SeqCommon
  <2> QED BY <1>2, <1>4, <2>1, SeqHeld, SeqPaths
<1>5. CASE Goes([rd EXCEPT !.pc = "file"], wanted)
  <2>1. rd' = [rd EXCEPT !.pc = "file"] /\ heap' = heap \cup {"header", "seq", "name"} /\ disk' = disk
    BY <1>3, <1>5 DEF Goes
  <2>2. /\ DOMAIN rd' = DOMAIN rd /\ rd'.pc = "file" /\ rd'.call = rd.call /\ rd'.head = rd.head
        /\ rd'.ret = rd.ret /\ rd'.sig = rd.sig /\ rd'.ents = rd.ents /\ rd'.cap = rd.cap /\ rd'.at = rd.at
    BY <1>2, <2>1 DEF Shape
  <2>3. heap = {"i2c", "c2i", "conv"} /\ rd.ents = <<>> /\ rd.at = 0 /\ Gathers
        /\ (disk # Missing => Len(disk.lines) \in 0 .. SizeMax)
    BY <1>1, <1>2 DEF SeqAt
  <2>4. heap' = SeqCommon
    BY <2>1, <2>3 DEF SeqCommon
  <2>5. Gathers'
    BY <2>2, <2>3 DEF Gathers
  <2>6. SeqAt'
    BY <1>1, <2>1, <2>2, <2>3, <2>4, <2>5 DEF SeqAt, SeqCommon
  <2> QED BY <1>2, <2>2, <2>6, GoesOn DEF Working
<1> QED BY <1>3, <1>4, <1>5 DEF gk_seq_init

LEMMA SeqOpenSound ==
  ASSUME Sound, SeqOpen
  PROVE  Sound'
<1>1. rd.call.what = "seq" /\ rd.pc = "file" /\ ~Over
  BY DEF SeqOpen, At, Over
<1>2. Shape /\ Quiet /\ Running /\ SeqAt
  <2>1. Shape /\ Quiet /\ Running
    BY <1>1, SoundRuns
  <2> QED BY <1>1, <2>1, Where
<1>3. CASE CannotOpen(SeqAll)
  BY <1>2, <1>3, SeqHeld, SeqPaths
<1>4. CASE Opened([rd EXCEPT !.pc = "header"])
  <2>1. rd' = [rd EXCEPT !.pc = "header"] /\ heap' = heap /\ disk' = disk /\ disk # Missing
    BY <1>4 DEF Opened, CanOpen
  <2>2. /\ DOMAIN rd' = DOMAIN rd /\ rd'.pc = "header" /\ rd'.call = rd.call /\ rd'.head = rd.head
        /\ rd'.ret = rd.ret /\ rd'.sig = rd.sig /\ rd'.ents = rd.ents /\ rd'.cap = rd.cap /\ rd'.at = rd.at
    BY <1>2, <2>1 DEF Shape
  <2>3. heap = SeqCommon /\ rd.ents = <<>> /\ rd.at = 0 /\ Gathers
        /\ (disk # Missing => Len(disk.lines) \in 0 .. SizeMax)
    BY <1>1, <1>2 DEF SeqAt
  <2>4. Gathers' /\ heap' = SeqCommon
    BY <2>1, <2>2, <2>3 DEF Gathers
  <2>5. SeqAt'
    BY <1>1, <2>1, <2>2, <2>3, <2>4 DEF SeqAt, SeqCommon
  <2> QED BY <1>2, <2>2, <2>5, GoesOn DEF Working
<1> QED BY <1>3, <1>4 DEF SeqOpen

LEMMA SeqHeaderSound ==
  ASSUME Sound, SeqHeader
  PROVE  Sound'
<1>1. rd.call.what = "seq" /\ rd.pc = "header" /\ ~Over
  BY DEF SeqHeader, At, Over
<1>2. Shape /\ Quiet /\ Running /\ SeqAt
  <2>1. Shape /\ Quiet /\ Running
    BY <1>1, SoundRuns
  <2> QED BY <1>1, <2>1, Where
<1>3. PICK line : line = {"line"}
  OBVIOUS
<1>4. line \subseteq SeqAll
  BY <1>3 DEF SeqAll
<1>5. CASE LineFails(SeqAll, SeqAll) \/ SeqRefused(line)
  BY <1>2, <1>4, <1>5, SeqHeld, SeqPaths
<1>6. PICK lab : lab = [i \in 1 .. Width |-> NextLine.words[i].n]
  OBVIOUS
<1>7. CASE HasLine /\ Goes([rd EXCEPT !.pc = "rows", !.at = @ + 1, !.lab = lab], {"line"})
  <2>1. heap = SeqCommon /\ rd.ents = <<>> /\ rd.at = 0 /\ Gathers /\ disk # Missing
        /\ Len(disk.lines) \in 0 .. SizeMax
    BY <1>1, <1>2 DEF SeqAt
  <2>2. rd' = [rd EXCEPT !.pc = "rows", !.at = @ + 1, !.lab = lab] /\ heap' = heap \cup {"line"} /\ disk' = disk
    BY <1>7 DEF Goes
  <2>3. /\ DOMAIN rd' = DOMAIN rd /\ rd'.pc = "rows" /\ rd'.call = rd.call /\ rd'.head = rd.head
        /\ rd'.ret = rd.ret /\ rd'.sig = rd.sig /\ rd'.ents = <<>> /\ rd'.cap = rd.cap /\ rd'.at = 1
    BY <1>2, <2>1, <2>2 DEF Shape
  <2>4. Gathers'
    BY <2>1, <2>3 DEF Gathers
  <2>5. SeqRows' = {}
    BY <2>3, NoEntries, NumberedLaws DEF SeqRows
  <2>6. heap' = {"line"} \cup SeqCommon
    BY <2>1, <2>2
  <2>7. 1 <= Len(disk'.lines)
    <3>1. PICK lines : lines = Len(disk.lines)
      OBVIOUS
    <3>2. 0 < lines /\ lines \in 0 .. SizeMax
      BY <1>7, <2>1, <3>1 DEF HasLine
    <3>3. 1 <= lines
      BY <3>2, WordConstants
    <3> QED BY <2>2, <3>1, <3>3
  <2>8. PICK common, rows : common = SeqCommon /\ rows = SeqRows'
    OBVIOUS
  <2>9. heap' = {"line"} \cup SeqCommon \cup SeqRows' \cup {}
    BY <2>5, <2>6, <2>8
  <2>10. SeqAt'
    BY <1>1, <2>1, <2>2, <2>3, <2>4, <2>7, <2>9, NoEntries DEF SeqAt, SeqCommon
  <2> QED BY <1>2, <2>3, <2>10, GoesOn DEF Working
<1>8. \/ LineFails(SeqAll, SeqAll) \/ SeqRefused(line)
      \/ HasLine /\ Goes([rd EXCEPT !.pc = "rows", !.at = @ + 1, !.lab = lab], {"line"})
  BY <1>3, <1>6 DEF SeqHeader, gk_seq_getline
<1> QED BY <1>5, <1>7, <1>8

LEMMA SeqRowSound ==
  ASSUME Sound, SeqRow
  PROVE  Sound'
<1>1. rd.call.what = "seq" /\ rd.pc = "rows" /\ ~Over /\ HasLine
  BY DEF SeqRow, At, Over
<1>2. Shape /\ Quiet /\ Running /\ SeqAt
  <2>1. Shape /\ Quiet /\ Running
    BY <1>1, SoundRuns
  <2> QED BY <1>1, <2>1, Where
<1>3. PICK none, arrays, this : none = {} /\ arrays = SeqArrays /\ this = ThisRow
  OBVIOUS
<1>4. none \subseteq SeqAll /\ arrays \subseteq SeqAll /\ arrays \cup this \subseteq SeqAll
  BY <1>3 DEF SeqAll
<1>5. PICK both : both = arrays \cup this
  OBVIOUS
<1>6. CASE \/ SeqRefused(none) \/ OutOfMemory(arrays, SeqAll)
           \/ BrokenHolding("memory", arrays, SeqAll) \/ SeqRefused(both)
  BY <1>2, <1>4, <1>5, <1>6, SeqHeld, SeqPaths
<1>7. PICK row : row = [sym |-> NextLine.words[2].n, pssm |-> Row(NextLine.words, 2), psfm |-> Row(NextLine.words, 2 + Width)]
  OBVIOUS
<1>8. CASE Goes([rd EXCEPT !.at = @ + 1, !.cap = gk_seq_grow, !.ents = Append(@, row)], both)
  <2>1. /\ Listed(rd.ents) /\ Len(rd.ents) \in Nat /\ rd.cap \in Nat /\ Len(rd.ents) <= rd.cap /\ disk # Missing
        /\ rd.at \in Nat /\ Len(rd.ents) < rd.at /\ rd.at < Len(disk.lines) /\ Len(disk.lines) \in 0 .. SizeMax
        /\ heap = {"line"} \cup SeqCommon \cup SeqRows \cup (IF rd.ents = <<>> THEN {} ELSE SeqArrays)
    BY <1>1, <1>2, ListedLaws DEF SeqAt, Gathers, HasLine
  <2>2. PICK n, ents, cap, lines, at : /\ n = Len(rd.ents) /\ ents = Append(rd.ents, row) /\ cap = gk_seq_grow
                                       /\ lines = Len(disk.lines) /\ at = rd.at + 1
    OBVIOUS
  <2>3. Listed(ents) /\ Len(ents) = n + 1 /\ ents # <<>>
    BY <2>1, <2>2, ListedLaws
  <2>4. cap \in Nat /\ n + 1 <= cap
    <3>1. n + 1 \in Nat /\ FirstCap \in Nat \ {0} /\ rd.cap \in Nat
      BY <2>1, <2>2, FirstCapPositive
    <3>2. Grown(rd.cap, FirstCap, n + 1) \in Nat /\ n + 1 <= Grown(rd.cap, FirstCap, n + 1)
      BY <3>1, GrownLaw
    <3> QED BY <2>2, <3>2 DEF gk_seq_grow
  <2>5. rd' = [rd EXCEPT !.at = at, !.cap = cap, !.ents = ents] /\ heap' = heap \cup both /\ disk' = disk
    BY <1>8, <2>2 DEF Goes
  <2>6. /\ DOMAIN rd' = DOMAIN rd /\ rd'.pc = "rows" /\ rd'.call = rd.call /\ rd'.head = rd.head
        /\ rd'.ret = rd.ret /\ rd'.sig = rd.sig /\ rd'.ents = ents /\ rd'.cap = cap /\ rd'.at = at
    BY <1>1, <1>2, <2>5 DEF Shape
  <2>7. Gathers' /\ at \in Nat /\ n + 1 < at /\ at <= lines
    BY <2>1, <2>2, <2>3, <2>4, <2>6, WordConstants DEF Gathers
  <2>8. SeqRows' = SeqRows \cup this
    <3>1. PICK a, b : a = "pssm" \o ToString(n + 1) /\ b = "psfm" \o ToString(n + 1)
      OBVIOUS
    <3>2. this = {a, b}
      BY <1>3, <2>2, <3>1 DEF ThisRow
    <3>3. Numbered("pssm", n + 1) = Numbered("pssm", n) \cup {a} /\ Numbered("psfm", n + 1) = Numbered("psfm", n) \cup {b}
      BY <2>1, <2>2, <3>1, NumberedLaws
    <3>4. SeqRows = Numbered("pssm", n) \cup Numbered("psfm", n)
      BY <2>2 DEF SeqRows
    <3>5. SeqRows' = Numbered("pssm", n + 1) \cup Numbered("psfm", n + 1)
      BY <2>3, <2>6 DEF SeqRows
    <3> QED BY <3>2, <3>3, <3>4, <3>5
  <2>9. PICK common, rows, after : common = SeqCommon /\ rows = SeqRows /\ after = SeqRows'
    OBVIOUS
  <2>10. heap' = {"line"} \cup SeqCommon \cup SeqRows' \cup SeqArrays
    <3>1. heap = {"line"} \cup common \cup rows \/ heap = {"line"} \cup common \cup rows \cup arrays
      BY <1>3, <2>1, <2>9
    <3>2. after = rows \cup this
      BY <2>8, <2>9
    <3>3. heap' = {"line"} \cup common \cup after \cup arrays
      BY <1>5, <2>5, <3>1, <3>2
    <3> QED BY <1>3, <2>9, <3>3
  <2>11. SeqAt'
    BY <1>1, <2>1, <2>2, <2>3, <2>5, <2>6, <2>7, <2>10 DEF SeqAt, SeqCommon, SeqArrays
  <2> QED BY <1>2, <2>6, <2>11, GoesOn DEF Working
<1>9. \/ SeqRefused(none) \/ OutOfMemory(arrays, SeqAll)
      \/ BrokenHolding("memory", arrays, SeqAll) \/ SeqRefused(both)
      \/ Goes([rd EXCEPT !.at = @ + 1, !.cap = gk_seq_grow, !.ents = Append(@, row)], both)
  BY <1>3, <1>5, <1>7, Zenon DEF SeqRow
<1> QED BY <1>6, <1>8, <1>9

LEMMA SeqEndSound ==
  ASSUME Sound, SeqEnd
  PROVE  Sound'
<1>1. rd.call.what = "seq" /\ rd.pc = "rows" /\ ~Over
  BY DEF SeqEnd, At, Over
<1>2. Shape /\ Quiet /\ Running /\ SeqAt
  <2>1. Shape /\ Quiet /\ Running
    BY <1>1, SoundRuns
  <2> QED BY <1>1, <2>1, Where
<1>3. CASE LineFails(SeqAll, SeqAll) \/ Broken("file", SeqAll)
  BY <1>2, <1>3, SeqHeld, SeqPaths
<1>4. PICK result : result = [what |-> "seq", items |-> rd.ents]
  OBVIOUS
<1>5. CASE Closes([rd EXCEPT !.pc = "done", !.ret = result], {"line", "header", "i2c", "c2i", "conv"})
  <2>1. /\ Listed(rd.ents) /\ Len(rd.ents) \in Nat /\ disk # Missing
        /\ rd.at \in Nat /\ Len(rd.ents) < rd.at /\ rd.at <= Len(disk.lines) /\ Len(disk.lines) \in 0 .. SizeMax
        /\ heap = {"line"} \cup SeqCommon \cup SeqRows \cup (IF rd.ents = <<>> THEN {} ELSE SeqArrays)
    BY <1>1, <1>2, ListedLaws DEF SeqAt, Gathers
  <2>2. PICK n : n = Len(rd.ents)
    OBVIOUS
  <2>3. n \in 0 .. SizeMax
    <3>1. PICK lines : lines = Len(disk.lines)
      OBVIOUS
    <3> QED BY <2>1, <2>2, <3>1, WordConstants
  <2>4. rd' = [rd EXCEPT !.pc = "done", !.ret = result] /\ stream' = "closed"
        /\ heap' = heap \ {"line", "header", "i2c", "c2i", "conv"}
    BY <1>5 DEF Closes
  <2>5. rd'.call = rd.call /\ rd'.head = rd.head /\ rd'.ret = result
    BY <1>2, <2>4 DEF Shape
  <2>6. PICK rows : rows = SeqRows
    OBVIOUS
  <2>7. PICK arrays : arrays = IF rd.ents = <<>> THEN {} ELSE SeqArrays
    OBVIOUS
  <2>8. rows \cap {"line", "header", "i2c", "c2i", "conv"} = {}
    <3>1. {"header", "i2c", "c2i", "conv"} \subseteq {Order[i] : i \in DOMAIN Order}
      <4>1. 1 \in DOMAIN Order /\ 2 \in DOMAIN Order /\ 3 \in DOMAIN Order /\ 4 \in DOMAIN Order
        BY DEF Order
      <4>2. Order[1] = "i2c" /\ Order[2] = "c2i" /\ Order[3] = "conv" /\ Order[4] = "header"
        BY DEF Order
      <4> HIDE DEF Order
      <4> QED BY <4>1, <4>2
    <3>2. \A b \in rows : b # "line" /\ \A i \in DOMAIN Order : b # Order[i]
      BY <2>2, <2>3, <2>6, NumberedElsewhere DEF SeqRows
    <3> HIDE DEF Order
    <3> QED BY <3>1, <3>2
  <2>9. arrays \cap {"line", "header", "i2c", "c2i", "conv"} = {} /\ (rd.ents = <<>> => arrays = {})
    BY <2>7 DEF SeqArrays
  <2>10. heap = {"line"} \cup {"i2c", "c2i", "conv", "header", "seq", "name"} \cup rows \cup arrays
    BY <2>1, <2>6, <2>7 DEF SeqCommon
  <2>11. heap' = {"seq", "name"} \cup rows \cup arrays
    BY <2>4, <2>8, <2>9, <2>10
  <2>12. ResultBlocks' = {"seq", "name"} \cup rows \cup arrays
    <3>1. result.items = rd.ents /\ result.what = "seq"
      BY <1>4
    <3>2. ResultBlocks' = {"seq", "name"} \cup Numbered("pssm", Len(rd.ents)) \cup Numbered("psfm", Len(rd.ents))
                            \cup (IF rd.ents # <<>> THEN {"sequence", "pssm", "psfm"} ELSE {})
      BY <1>1, <2>5, <3>1 DEF ResultBlocks, HasResult, Matrixwise
    <3>3. rows = Numbered("pssm", Len(rd.ents)) \cup Numbered("psfm", Len(rd.ents))
      BY <2>6 DEF SeqRows
    <3>4. arrays = IF rd.ents # <<>> THEN {"sequence", "pssm", "psfm"} ELSE {}
      BY <2>7 DEF SeqArrays
    <3> QED BY <3>2, <3>3, <3>4
  <2>13. "line" \notin heap' /\ result.items = rd.ents /\ result.what = "seq"
    BY <1>4, <2>4
  <2> QED BY <1>1, <1>2, <2>4, <2>11, <2>12, <2>13, ResultSound
<1>6. \/ LineFails(SeqAll, SeqAll) \/ Broken("file", SeqAll)
      \/ Closes([rd EXCEPT !.pc = "done", !.ret = result], {"line", "header", "i2c", "c2i", "conv"})
  BY <1>4 DEF SeqEnd
<1> QED BY <1>3, <1>5, <1>6

(* What was returned is freed by the program.                              *)
LEMMA FreedSound ==
  ASSUME Sound, rd.pc = "done", rd' = [rd EXCEPT !.pc = "freed"], heap' = {}
  PROVE  Sound'
<1>1. Shape /\ Quiet /\ Ended
  BY DEF Sound, Running, Over
<1>2. /\ DOMAIN rd' = DOMAIN rd /\ rd'.pc = "freed" /\ rd'.call = rd.call /\ rd'.head = rd.head /\ rd'.sig = rd.sig
      /\ rd'.ret = rd.ret /\ rd'.ents = rd.ents /\ rd'.cap = rd.cap /\ rd'.ptr = rd.ptr /\ rd'.rows = rd.rows
  BY <1>1 DEF Shape
<1>3. Shape' /\ Over'
  BY <1>1, <1>2 DEF Shape, Over
<1>4. HasResult' <=> HasResult
  BY <1>2 DEF HasResult
<1>5. Quiet'
  BY <1>1, <1>2, <1>3, <1>4 DEF Quiet
<1>6. NothingLeaked'
  BY <1>1, <1>2, <1>4 DEF NothingLeaked, Quiet
<1>7. WithinCapacity'
  BY <1>1, <1>2 DEF Ended, WithinCapacity, RowCount
<1> QED BY <1>2, <1>3, <1>5, <1>6, <1>7 DEF Sound, Ended, At

LEMMA SeqFreeSound ==
  ASSUME Sound, gk_seq_free
  PROVE  Sound'
<1>1. rd.call.what = "seq" /\ rd.pc = "done" /\ HasResult /\ Ended
  BY DEF gk_seq_free, At, Sound, Running, Over
<1>2. heap = ResultBlocks /\ rd.ret.items = rd.ents
  BY <1>1 DEF Ended, NothingLeaked, At
<1>3. PICK rows : rows = SeqRows
  OBVIOUS
<1>4. heap \subseteq {"seq", "name"} \cup rows \cup SeqArrays
  <2>1. ResultBlocks = {"seq", "name"} \cup Numbered("pssm", Len(rd.ents)) \cup Numbered("psfm", Len(rd.ents))
                         \cup (IF rd.ents # <<>> THEN {"sequence", "pssm", "psfm"} ELSE {})
    BY <1>1, <1>2 DEF ResultBlocks, Matrixwise
  <2>2. rows = Numbered("pssm", Len(rd.ents)) \cup Numbered("psfm", Len(rd.ents))
    BY <1>3 DEF SeqRows
  <2> QED BY <1>2, <2>1, <2>2 DEF SeqArrays
<1>5. rd' = [rd EXCEPT !.pc = "freed"] /\ heap' = heap \ ({"seq", "name"} \cup SeqArrays \cup rows)
  BY <1>3 DEF gk_seq_free
<1>6. heap' = {}
  BY <1>4, <1>5
<1> QED BY <1>1, <1>5, <1>6, FreedSound

LEMMA GraphFreeSound ==
  ASSUME Sound, gk_graph_Free
  PROVE  Sound'
<1>1. rd.call.what = "graph" /\ rd.pc = "done" /\ HasResult /\ Ended
  BY DEF gk_graph_Free, At, Sound, Running, Over
<1>2. heap = ResultBlocks
  BY <1>1 DEF Ended, NothingLeaked
<1>3. heap \subseteq Object
  BY <1>1, <1>2 DEF ResultBlocks, Matrixwise, Object, Blocks
<1>4. rd' = [rd EXCEPT !.pc = "freed"] /\ heap' = (heap \ (Object \ {"mat"})) \ {"mat"}
  BY DEF gk_graph_Free, gk_graph_FreeContents
<1>5. PICK object : object = Object
  OBVIOUS
<1>6. heap' = {}
  BY <1>3, <1>4, <1>5
<1> QED BY <1>1, <1>4, <1>6, FreedSound
-----------------------------------------------------------------------------
(* Any step of a reader.                                                   *)
LEMMA CSRReadSound ==
  ASSUME Sound, gk_csr_Read
  PROVE  Sound'
BY CSROpenSound, CSRHeaderSound, CSRAllocateSound, CSRRowSound, CSRTailSound, CSRCloseSound,
   IJVOpenSound, IJVRecordSound, IJVEndSound, IJVBuildSound,
   BinaryOpenSound, BinarySizesSound, BinaryPointersSound, BinaryIndicesSound, BinaryValuesSound, BinaryEndSound,
   BIJVOpenSound, BIJVSizesSound, BIJVTriplesSound, BIJVEndSound, BIJVBuildSound
   DEF gk_csr_Read

LEMMA GraphReadSound ==
  ASSUME Sound, gk_graph_Read
  PROVE  Sound'
BY GraphOpenSound, GraphHeaderSound, GraphAllocateSound, GraphRowSound, GraphTailSound,
   TriplesOpenSound, TriplesHeaderSound, TriplesRecordSound, TriplesEndSound, TriplesBuildSound
   DEF gk_graph_Read

LEMMA ReadSound ==
  ASSUME Sound, Read
  PROVE  Sound'
<1>1. CASE gk_readfile \/ gk_i32readfile \/ gk_i64readfile \/ gk_zreadfile
  <2>1. "lines" \in LineReaders /\ "i32" \in LineReaders /\ "i64" \in LineReaders /\ "z" \in LineReaders
    BY DEF LineReaders
  <2> QED BY <1>1, <2>1, ElementsSound DEF gk_readfile, gk_i32readfile, gk_i64readfile, gk_zreadfile
<1>2. CASE \E elem : gk_readfilebin_impl(elem)
  BY <1>2, ArraySound
<1>3. CASE gk_seq_ReadGKMODPSSM
  BY <1>3, SeqOpenSound, SeqHeaderSound, SeqRowSound, SeqEndSound DEF gk_seq_ReadGKMODPSSM
<1>4. \/ gk_csr_Read \/ gk_graph_Read \/ gk_graph_Free
      \/ gk_readfile \/ gk_i32readfile \/ gk_i64readfile \/ gk_zreadfile
      \/ \E elem : gk_readfilebin_impl(elem)
      \/ gk_getline_fallback
      \/ gk_i2cc2i_create_common \/ gk_seq_init \/ gk_seq_ReadGKMODPSSM \/ gk_seq_free
  BY DEF Read, gk_creadfilebin, gk_i32readfilebin, gk_i64readfilebin, gk_zreadfilebin, gk_freadfilebin, gk_dreadfilebin
<1> QED BY <1>1, <1>2, <1>3, <1>4, CSRReadSound, GraphReadSound, GraphFreeSound, GetlineSound, SeqCreateSound,
          SeqInitSound, SeqFreeSound
-----------------------------------------------------------------------------
(* Any step of a writer, and the call that reads what was written.         *)
LEMMA ReadyIs ==
  ASSUME NEW call, rd' = Reading(call), heap' = {}, stream' = "closed", FileMeant'
  PROVE  Sound'
<1>1. /\ DOMAIN rd' = {"call", "pc", "at", "head", "ptr", "lab", "ents", "rows", "cap", "ret", "sig"}
      /\ rd'.call = call /\ rd'.pc = "open" /\ rd'.head = NoHeader /\ rd'.ret = Nothing /\ rd'.sig = "none"
  BY DEF Reading
<1>2. DOMAIN NoHeader = {"nrows", "ncols", "nnz", "sizes", "wgts", "vals"}
  BY DEF NoHeader
<1>3. Shape' /\ ~Over' /\ Quiet'
  BY <1>1, <1>2 DEF Shape, Over, Quiet
<1>4. Starts'
  BY <1>1 DEF Starts
<1> QED BY <1>1, <1>3, <1>4 DEF Sound, Running

LEMMA IdleSound ==
  ASSUME Idle'
  PROVE  Sound'
<1>1. PICK call : call = [what |-> "none"]
  OBVIOUS
<1>2. rd' = Reading(call) /\ heap' = {} /\ stream' = "closed"
  BY <1>1 DEF Idle
<1>3. rd'.call = call
  BY <1>2 DEF Reading
<1>4. rd'.call.what = "none"
  BY <1>1, <1>3
<1>5. FileMeant'
  BY <1>4 DEF FileMeant, LineReaders
<1> QED BY <1>2, <1>5, ReadyIs

LEMMA WriterGoes ==
  ASSUME FormatsInv, wr.pc # "done", WriteFrame, DOMAIN wr' = DOMAIN wr, wr'.call = wr.call,
         wr.call.what = "binwrite" /\ wr'.pc # "done" =>
           /\ (wr'.at = 0 /\ wr'.out = <<>>) \/ (wr'.at = 1 /\ wr'.out = <<Written>>)
           /\ wr'.pc = "written" => disk'.items \in Seq(Int)
  PROVE  FormatsInv'
<1>1. Waiting
  BY DEF FormatsInv
<1>2. Idle'
  BY <1>1 DEF Waiting, Idle, WriteFrame
<1>3. wr'.pc # "done" => Waiting'
  BY <1>1, <1>2 DEF Waiting, Written
<1> QED BY <1>2, <1>3, IdleSound DEF FormatsInv

LEMMA WriterSound ==
  ASSUME FormatsInv, NEW what, Writes(what)
  PROVE  FormatsInv'
<1>1. wr.call.what = what /\ wr.pc \in {"check", "print"}
  BY DEF Writes, WriterOpens, WriterPrints, WriterFinishes, Wrote
<1>2. Waiting
  BY <1>1 DEF FormatsInv
<1>3. CASE WriterOpens(what)
  <2>1. WriteFrame
    BY <1>3 DEF WriterOpens, Fails
  <2>3. \/ wr' = [wr EXCEPT !.pc = "done", !.sig = "SIGERR"]
        \/ wr' = [wr EXCEPT !.pc = "done", !.sig = "SIGMEM"]
        \/ wr' = [wr EXCEPT !.pc = "print"]
    BY <1>3 DEF WriterOpens, Fails
  <2>2. DOMAIN wr' = DOMAIN wr /\ wr'.call = wr.call /\ wr'.at = wr.at /\ wr'.out = wr.out /\ wr'.pc \in {"done", "print"}
    BY <1>2, <2>3 DEF Waiting
  <2> QED BY <1>1, <1>2, <2>1, <2>2, WriterGoes DEF Waiting
<1>4. CASE WriterPrints(what)
  <2>1. WriteFrame /\ wr.at < Len(Prints) /\ wr.pc = "print"
    BY <1>4 DEF WriterPrints, Wrote
  <2>2. CASE wr' = [wr EXCEPT !.failed = TRUE]
    <3>1. DOMAIN wr' = DOMAIN wr /\ wr'.call = wr.call /\ wr'.at = wr.at /\ wr'.out = wr.out /\ wr'.pc = "print"
      BY <1>2, <2>1, <2>2 DEF Waiting
    <3> QED BY <1>1, <1>2, <2>1, <3>1, WriterGoes DEF Waiting
  <2>3. CASE wr' = [wr EXCEPT !.at = @ + 1, !.out = Append(@, Prints[wr.at + 1])]
    <3>1. /\ DOMAIN wr' = DOMAIN wr /\ wr'.call = wr.call /\ wr'.at = wr.at + 1 /\ wr'.pc = "print"
          /\ wr'.out = Append(wr.out, Prints[wr.at + 1])
      BY <1>2, <2>1, <2>3 DEF Waiting
    <3>2. ASSUME what = "binwrite" PROVE wr'.at = 1 /\ wr'.out = <<Written>>
      <4>1. Prints = IF Written = <<>> THEN <<>> ELSE <<Written>>
        BY <1>1, <3>2 DEF Prints
      <4>2. Prints = <<Written>> /\ wr.at = 0 /\ wr.out = <<>>
        <5>1. (wr.at = 0 /\ wr.out = <<>>) \/ wr.at = 1
          BY <1>1, <1>2, <3>2 DEF Waiting
        <5>2. Len(<<>>) = 0 /\ Len(<<Written>>) = 1
          OBVIOUS
        <5> QED BY <2>1, <4>1, <5>1, <5>2
      <4>3. PICK w : w = Written
        OBVIOUS
      <4>4. Append(<<>>, w) = <<w>> /\ <<w>>[1] = w
        OBVIOUS
      <4> QED BY <3>1, <4>2, <4>3, <4>4
    <3> QED BY <1>1, <1>2, <2>1, <3>1, <3>2, WriterGoes
  <2> QED BY <1>4, <2>2, <2>3 DEF WriterPrints
<1>5. CASE WriterFinishes(what)
  <2>1. WriteFrame
    BY <1>5 DEF WriterFinishes
  <2>2. CASE wr' = [wr EXCEPT !.pc = "done", !.sig = "SIGERR"]
    <3>1. DOMAIN wr' = DOMAIN wr /\ wr'.call = wr.call /\ wr'.pc = "done"
      BY <1>2, <2>2 DEF Waiting
    <3> QED BY <1>1, <2>1, <3>1, WriterGoes
  <2>3. CASE wr' = [wr EXCEPT !.pc = "written"] /\ disk' = FileOf(wr.out)
    <3>1. DOMAIN wr' = DOMAIN wr /\ wr'.call = wr.call /\ wr'.pc = "written" /\ wr'.at = wr.at /\ wr'.out = wr.out
      BY <1>2, <2>3 DEF Waiting
    <3>2. ASSUME what = "binwrite"
          PROVE  disk'.items \in Seq(Int) /\ ((wr.at = 0 /\ wr.out = <<>>) \/ (wr.at = 1 /\ wr.out = <<Written>>))
      <4>1. (wr.at = 0 /\ wr.out = <<>>) \/ (wr.at = 1 /\ wr.out = <<Written>>)
        BY <1>1, <1>2, <3>2 DEF Waiting
      <4>2. Written \in Seq(Int)
        BY <1>1, <1>2, <3>2, WriteCallsMeant DEF Waiting, Written
      <4>3. PICK n, parts : n = Len(wr.out) /\ parts = [k \in First(Len(wr.out)) |-> wr.out[k + 1]]
        OBVIOUS
      <4>4. PICK w : w = Written
        OBVIOUS
      <4>5. (n = 0) \/ (n = 1 /\ parts[0] = w)
        <5>1. Len(<<>>) = 0 /\ Len(<<w>>) = 1 /\ <<w>>[1] = w
          OBVIOUS
        <5>2. CASE wr.out = <<>>
          BY <4>3, <5>1, <5>2
        <5>3. CASE wr.out = <<Written>>
          <6>1. wr.out = <<w>> /\ n = 1 /\ 0 \in First(1)
            BY <4>3, <4>4, <5>1, <5>3 DEF First
          <6>2. parts[0] = wr.out[0 + 1]
            BY <4>3, <6>1
          <6> QED BY <5>1, <6>1, <6>2
        <5> QED BY <4>1, <5>2, <5>3
      <4>6. Concatenated(n, parts) \in Seq(Int)
        BY <4>2, <4>4, <4>5, OnePrint
      <4>7. disk' = Binary(Concatenated(n, parts), FALSE)
        BY <1>1, <2>3, <3>2, <4>3 DEF FileOf, InBinary
      <4>8. PICK items : items = Concatenated(n, parts)
        OBVIOUS
      <4>9. disk'.items = items
        BY <4>7, <4>8 DEF Binary
      <4> QED BY <4>1, <4>6, <4>8, <4>9
    <3> QED BY <1>1, <2>1, <3>1, <3>2, WriterGoes
  <2> QED BY <1>5, <2>2, <2>3 DEF WriterFinishes
<1> QED BY <1>3, <1>4, <1>5 DEF Writes

LEMMA ReadBackSound ==
  ASSUME FormatsInv, ReadBack
  PROVE  FormatsInv'
<1>1. Waiting /\ wr.pc = "written"
  BY DEF FormatsInv, ReadBack
<1>2. wr' = [wr EXCEPT !.pc = "done"] /\ rd' = Reading(wr.call.back) /\ disk' = disk /\ heap' = {} /\ stream' = "closed"
  BY <1>1 DEF ReadBack, Waiting, Idle
<1>3. PICK back : back = wr.call.back
  OBVIOUS
<1>4. IF wr.call.what = "binwrite" THEN back.what = "bin" ELSE back.what \in {"csr", "graph"}
  BY <1>1, <1>3, WriteCallsMeant DEF Waiting
<1>5. rd'.call = back
  BY <1>2, <1>3 DEF Reading
<1>6. wr.call.what = "binwrite" => disk.items \in Seq(Int)
  BY <1>1 DEF Waiting
<1>7. FileMeant'
  BY <1>2, <1>4, <1>5, <1>6 DEF FileMeant, LineReaders
<1>8. Sound'
  BY <1>2, <1>3, <1>7, ReadyIs
<1>9. wr'.pc = "done"
  BY <1>1, <1>2 DEF Waiting
<1> QED BY <1>8, <1>9 DEF FormatsInv
-----------------------------------------------------------------------------
LEMMA FormatsStart ==
  ASSUME Init
  PROVE  FormatsInv
<1>1. heap = {} /\ stream = "closed"
  BY DEF Init
<1>2. ASSUME NEW call, rd = Reading(call), call.what # "none" => FileMeant,
             call.what = "none" => rd.call.what = "none"
      PROVE  Sound
  <2>1. /\ DOMAIN rd = {"call", "pc", "at", "head", "ptr", "lab", "ents", "rows", "cap", "ret", "sig"}
        /\ rd.call = call /\ rd.pc = "open" /\ rd.head = NoHeader /\ rd.ret = Nothing /\ rd.sig = "none"
    BY <1>2 DEF Reading
  <2>2. DOMAIN NoHeader = {"nrows", "ncols", "nnz", "sizes", "wgts", "vals"}
    BY DEF NoHeader
  <2>3. Shape /\ ~Over /\ Quiet
    BY <2>1, <2>2 DEF Shape, Over, Quiet
  <2>4. Starts
    BY <1>1, <1>2, <2>1 DEF Starts, FileMeant, LineReaders
  <2> QED BY <2>1, <2>3, <2>4 DEF Sound, Running
<1>3. CASE \E c \in ReadCalls : rd = Reading(c.call) /\ disk = c.disk /\ wr = NoWriting
  <2>1. PICK c \in ReadCalls : rd = Reading(c.call) /\ disk = c.disk /\ wr = NoWriting
    BY <1>3
  <2>2. PICK call : call = c.call
    OBVIOUS
  <2>3. rd.call = call
    BY <2>1, <2>2 DEF Reading
  <2>4. FileMeant
    BY <2>1, <2>2, <2>3, ReadCallsMeant DEF FileMeant
  <2>5. wr.pc = "done"
    BY <2>1 DEF NoWriting, Writing
  <2>6. Sound
    BY <1>2, <2>1, <2>2, <2>3, <2>4
  <2> QED BY <2>5, <2>6 DEF FormatsInv
<1>4. CASE \E c \in WriteCalls : wr = Writing(c) /\ rd = Reading([what |-> "none"]) /\ disk = Missing
  <2>1. PICK c \in WriteCalls : wr = Writing(c) /\ rd = Reading([what |-> "none"]) /\ disk = Missing
    BY <1>4
  <2>2. PICK call : call = [what |-> "none"]
    OBVIOUS
  <2>3. rd = Reading(call) /\ rd.call = call /\ call.what = "none"
    BY <2>1, <2>2 DEF Reading
  <2>4. Sound
    BY <1>2, <2>3
  <2>5. Waiting
    BY <1>1, <2>1 DEF Waiting, Idle, Writing
  <2> QED BY <2>4, <2>5 DEF FormatsInv
<1> QED BY <1>3, <1>4 DEF Init

LEMMA ReadersCalled ==
  ASSUME Read
  PROVE  rd.call.what # "none"
BY DEF Read, gk_csr_Read, gk_graph_Read, gk_graph_Free, gk_readfile, gk_i32readfile, gk_i64readfile, gk_zreadfile,
       Elements, Element, gk_empty_read_result,
       gk_creadfilebin, gk_i32readfilebin, gk_i64readfilebin, gk_zreadfilebin, gk_freadfilebin, gk_dreadfilebin,
       gk_readfilebin_impl, gk_getline_fallback, GetlineBuffer, GetlineByte, GetlineEnd,
       gk_i2cc2i_create_common, gk_seq_init, gk_seq_ReadGKMODPSSM, SeqOpen, SeqHeader, SeqRow, SeqEnd, gk_seq_free,
       CSROpen, CSRHeader, CSRAllocate, CSRRow, CSRTail, CSRClose, IJVOpen, IJVRecord, IJVEnd, IJVBuild,
       BinaryOpen, BinarySizes, BinaryPointers, BinaryIndices, BinaryValues, BinaryEnd,
       BIJVOpen, BIJVSizes, BIJVTriples, BIJVEnd, BIJVBuild,
       GraphOpen, GraphHeader, GraphAllocate, GraphRow, GraphTail,
       TriplesOpen, TriplesHeader, TriplesRecord, TriplesEnd, TriplesBuild, AtFormat, At

LEMMA FormatsNext ==
  ASSUME FormatsInv, [Next]_formatVars
  PROVE  FormatsInv'
<1>1. CASE Read
  <2>1. Sound' /\ wr' = wr
    BY <1>1, ReadSound DEF FormatsInv, Read
  <2>2. ASSUME Waiting PROVE rd.call.what = "none"
    <3>1. PICK call : call = [what |-> "none"]
      OBVIOUS
    <3>2. rd.call = call
      BY <2>2, <3>1 DEF Waiting, Idle, Reading
    <3> QED BY <3>1, <3>2
  <2>3. wr.pc = "done"
    BY <1>1, <2>2, ReadersCalled DEF FormatsInv
  <2> QED BY <2>1, <2>3 DEF FormatsInv
<1>2. CASE Write
  <2>1. (\E what : Writes(what)) \/ ReadBack
    BY <1>2 DEF Write, gk_csr_Write, gk_graph_Write, gk_writefilebin_impl, gk_cwritefilebin, gk_i32writefilebin,
                gk_i64writefilebin, gk_zwritefilebin, gk_fwritefilebin, gk_dwritefilebin
  <2> QED BY <2>1, WriterSound, ReadBackSound
<1>3. CASE UNCHANGED formatVars
  <2>1. disk' = disk /\ rd' = rd /\ heap' = heap /\ stream' = stream /\ wr' = wr
    BY <1>3 DEF formatVars
  <2>2. /\ Shape' /\ Quiet' /\ (Over' <=> Over) /\ (Starts' <=> Starts) /\ (Ended' <=> Ended)
    BY <2>1 DEF FormatsInv, Sound, Shape, Quiet, HasResult, Over, Starts, FileMeant, Ended, NothingLeaked, ResultBlocks,
                Matrixwise, WithinCapacity, RowCount, At
  <2>3. Working' <=> Working
    <3>1. Gathers' <=> Gathers
      BY <2>1 DEF Gathers
    <3>2. (VerticesAt' <=> VerticesAt) /\ (TriplesAt' <=> TriplesAt)
      BY <2>1, <3>1, Zenon DEF VerticesAt, TriplesAt, Unlabelled
    <3>6. RowsAt' <=> RowsAt
      BY <2>1, <3>1 DEF RowsAt, RowCount, HasVals, Dynamic
    <3>3. (BinaryAt' <=> BinaryAt) /\ (BIJVAt' <=> BIJVAt)
      BY <2>1, <3>1, Zenon DEF BinaryAt, BIJVAt, Unlabelled, Dimension, ByRow, BinaryVals
    <3>4. (LinesAt' <=> LinesAt) /\ (BinAt' <=> BinAt) /\ (GetlineAt' <=> GetlineAt)
      BY <2>1, <3>1, Zenon DEF LinesAt, BinAt, GetlineAt, LinesHeld
    <3>5. SeqAt' <=> SeqAt
      BY <2>1, <3>1, Zenon DEF SeqAt, SeqRows
    <3> QED BY <3>2, <3>3, <3>4, <3>5, <3>6 DEF Working
  <2>4. Waiting' <=> Waiting
    BY <2>1 DEF Waiting, Idle, Written
  <2> QED BY <2>1, <2>2, <2>3, <2>4 DEF FormatsInv, Sound, Running
<1> QED BY <1>1, <1>2, <1>3 DEF Next

(* A reader holds what it allocated and releases it on every way out:      *)
(* whichever step of a call failed, for whatever reason, and for files of  *)
(* any length and any numbers, the call that has ended has closed its      *)
(* stream and left only the memory of its result, and one that raised left *)
(* none and no result (csr.c:653, graph.c:84, io.c:171, seq.c:385).        *)
THEOREM LeakTheorem == Spec => []NothingLeaked
<1>1. Init => FormatsInv
  BY FormatsStart
<1>2. FormatsInv /\ [Next]_formatVars => FormatsInv'
  BY FormatsNext
<1>3. FormatsInv => NothingLeaked
  <2> SUFFICES ASSUME FormatsInv PROVE NothingLeaked
    OBVIOUS
  <2>1. CASE Running
    <3>1. rd.pc \notin {"done", "freed"}
      BY <2>1, RunningIs DEF Over
    <3> QED BY <3>1 DEF FormatsInv, Sound, Quiet, NothingLeaked
  <2>2. CASE Ended
    BY <2>2 DEF Ended
  <2> QED BY <2>1, <2>2 DEF FormatsInv, Sound
<1> QED BY <1>1, <1>2, <1>3, PTL DEF Spec

(* No reader writes past the end of an array, a line or the rows it has    *)
(* allocated, whatever the file says: each growth makes room for what is   *)
(* stored next, with the byte that ends a line (csr.c:1659, io.c:171,      *)
(* io_internal.h:73, seq.c:185).                                           *)
THEOREM CapacityTheorem == Spec => []WithinCapacity
<1>1. Init => FormatsInv
  BY FormatsStart
<1>2. FormatsInv /\ [Next]_formatVars => FormatsInv'
  BY FormatsNext
<1>3. FormatsInv => WithinCapacity
  BY RunningIs DEF FormatsInv, Sound, Ended
<1> QED BY <1>1, <1>2, <1>3, PTL DEF Spec
=============================================================================
