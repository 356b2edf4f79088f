------------------------------- MODULE Calls -------------------------------
(***************************************************************************)
(* One call at a time: of gk_strstr_replace, which takes many steps, or of *)
(* a function that answers in one: those of src/src/string.c, tokenizer.c  *)
(* and fs.c that work on the strings they are given, those of Select, the  *)
(* transfers of src/src/io.c, base64, the permutations, the queue without  *)
(* locators and the constructors of several blocks.                        *)
(*                                                                         *)
(* A string is the sequence of its characters, a character its code; a     *)
(* function that edits a buffer in place edits one that ends with a NUL.   *)
(***************************************************************************)
EXTENDS Select, FiniteSetsExt, TLC

CONSTANTS
  NULL,
  IntMax,        \* INT_MAX
  SizeMax,       \* SIZE_MAX
  PointerSize,   \* sizeof(char *)
  BufferSize     \* of the reads of gk_getfilestats

NUL == 0
Slash == 1
Dot == 2
Blank == 3
Newline == 4
ToLower(c) == IF c \in 15 .. 20 THEN c - 10 ELSE c    \* 15 is the capital of 5

Buffer(str) == Append(str, NUL)
StringAt(buf, p) == SubSeq(buf, p, Min({q \in p .. Len(buf) : buf[q] = NUL}) - 1)
UpTo(n) == [p \in 1 .. n |-> p]
LastOf(str, c) == Max({0} \cup {p \in DOMAIN str : str[p] = c})     \* strrchr
After(str, p) == SubSeq(str, p + 1, Len(str))
Ahead(str, p) == SubSeq(str, 1, p - 1)
Members(list) == {list[k] : k \in DOMAIN list}

(* What a character becomes: that of tolist at its first place in fromlist,*)
(* nothing when tolist is shorter.                                         *)
BecomesOf(c, fromlist, tolist) ==
  LET places == {k \in DOMAIN fromlist : fromlist[k] = c}
  IN IF places = {} THEN <<c>>
     ELSE IF Min(places) <= Len(tolist) THEN <<tolist[Min(places)]>> ELSE <<>>
gk_strchr_replace(str, fromlist, tolist) ==
  LET copy(s, i) == LET c == BecomesOf(s.buf[i], fromlist, tolist)
                    IN IF c = <<>> THEN s ELSE [buf |-> [s.buf EXCEPT ![s.j] = c[1]], j |-> s.j + 1]
      end == FoldLeft(copy, [buf |-> Buffer(str), j |-> 1], UpTo(Len(str)))
  IN StringAt([end.buf EXCEPT ![end.j] = NUL], 1)

(* The characters of rmlist at the end, and at the beginning.              *)
gk_strtprune(str, rmlist) ==
  LET kept == Max({0} \cup {i \in DOMAIN str : str[i] \notin Members(rmlist)})
  IN StringAt([Buffer(str) EXCEPT ![kept + 1] = NUL], 1)
gk_strhprune(str, rmlist) ==
  LET buf == Buffer(str)
      gone == Min({i \in DOMAIN buf : buf[i] \notin Members(rmlist)}) - 1
      move(b, i) == [b EXCEPT ![i - gone] = b[i]]
  IN StringAt(FoldLeft(move, buf, SubSeq(UpTo(Len(buf)), gone + 1, Len(buf))), 1)

ToUpper(c) == IF c \in 5 .. 10 THEN c + 10 ELSE c
gk_strtoupper(str) == [i \in DOMAIN str |-> ToUpper(str[i])]
gk_strtolower(str) == [i \in DOMAIN str |-> ToLower(str[i])]
gk_strcasecmp(s1, s2) == Len(s1) = Len(s2) /\ \A i \in DOMAIN s1 : ToLower(s1[i]) = ToLower(s2[i])
(* The difference of the last characters that differ, else the shorter     *)
(* string is the lesser.                                                   *)
gk_strrcmp(s1, s2) ==
  LET differ == {k \in 0 .. Min({Len(s1), Len(s2)}) - 1 : s1[Len(s1) - k] # s2[Len(s2) - k]}
  IN IF differ # {} THEN s1[Len(s1) - Min(differ)] - s2[Len(s2) - Min(differ)]
     ELSE IF Len(s1) < Len(s2) THEN -1 ELSE IF Len(s1) > Len(s2) THEN 1 ELSE 0
(* The id of the first name of a map that equals the key, by case or not.  *)
gk_GetStringID(strmap, key) ==
  LET same == {i \in DOMAIN strmap : gk_strcasecmp(key, strmap[i].name)}
  IN IF same = {} THEN -1 ELSE strmap[Min(same)].id

-----------------------------------------------------------------------------
(* The parts of a path (fs.c).                                             *)
gk_getfilename(path) == After(path, LastOf(path, Slash))
gk_getbasename(path) ==
  LET name == After(path, LastOf(path, Slash))
  IN IF LastOf(name, Dot) = 0 THEN name ELSE Ahead(name, LastOf(name, Dot))
gk_getextname(path) == After(path, LastOf(path, Dot))
getpathname(path) == IF LastOf(path, Slash) = 0 THEN <<Dot>> ELSE Ahead(path, LastOf(path, Slash))

(* gk_strtokenize: the tokens are counted, the string is copied, and the   *)
(* delimiters of the copy become NULs; the list points into the copy. fault*)
(* is the allocation that fails.                                           *)
NoTokens(sig) == [sig |-> sig, strbuf |-> NULL, list |-> NULL]
Starts(str, delim) == {i \in DOMAIN str : str[i] \notin Members(delim) /\ (i = 1 \/ str[i - 1] \in Members(delim))}
Linked(str, delim) ==
  LET scan(s, i) ==
        IF str[i] \in Members(delim) THEN [s EXCEPT !.strbuf[i] = NUL, !.inside = FALSE]
        ELSE IF s.inside THEN s
        ELSE [s EXCEPT !.list = Append(@, i), !.inside = TRUE]
      end == FoldLeft(scan, [strbuf |-> Buffer(str), list |-> <<>>, inside |-> FALSE], UpTo(Len(str)))
  IN [sig |-> "none", strbuf |-> end.strbuf, list |-> end.list]
gk_strtokenize(str, delim, fault) ==
  IF str = NULL \/ delim = NULL THEN NoTokens("SIGERR")
  ELSE LET ntoks == Cardinality(Starts(str, delim))
       IN IF ntoks > IntMax \/ ntoks > SizeMax \div PointerSize \/ Len(str) = SizeMax \/ fault \in {"strbuf", "list"}
          THEN NoTokens("SIGMEM")
          ELSE Linked(str, delim)
gk_freetokenslist(tokens) == [tokens EXCEPT !.list = NULL, !.strbuf = NULL]
TokensIn(tokens) == [k \in DOMAIN tokens.list |-> StringAt(tokens.strbuf, tokens.list[k])]

(* gk_getfilestats, of a file read a buffer at a time, the read after      *)
(* reads ones failing (NULL: none does).                                   *)
NoStats == [lines |-> 0, tokens |-> 0, longest |-> 0, bytes |-> 0]
Larger(a, b) == IF a < b THEN b ELSE a
Count(s, c) ==
  IF c = Newline
  THEN [s EXCEPT !.lines = @ + 1, !.intoken = FALSE, !.longest = Larger(@, s.inline), !.inline = 0]
  ELSE IF c = Blank THEN [s EXCEPT !.intoken = FALSE]
  ELSE IF s.intoken THEN s
  ELSE [s EXCEPT !.tokens = @ + 1, !.inline = @ + 1, !.intoken = TRUE]
ReadBuffer(s, k, file) ==
  LET part == SubSeq(file, k * BufferSize + 1, Min({(k + 1) * BufferSize, Len(file)}))
  IN FoldLeft(Count, [s EXCEPT !.bytes = @ + Len(part)], part)
Reads(file) == (Len(file) + BufferSize - 1) \div BufferSize
gk_getfilestats(file, reads) ==
  LET s[k \in 0 .. Reads(file)] ==
        IF k = 0 THEN NoStats @@ [inline |-> 0, intoken |-> FALSE] ELSE ReadBuffer(s[k - 1], k - 1, file)
      end == s[Reads(file)]
  IN IF file = NULL \/ reads # NULL THEN [sig |-> "SIGERR", stats |-> NoStats]
     ELSE [sig |-> "none",
           stats |-> [lines |-> end.lines, tokens |-> end.tokens, bytes |-> end.bytes,
                      longest |-> Larger(end.longest, end.inline)]]

-----------------------------------------------------------------------------
(***************************************************************************)
(* gk_strstr_replace (src/src/string.c:182): the matches of a regular      *)
(* expression are replaced, in an output that grows as it is written. Any  *)
(* allocation may fail and the matcher may.                                *)
(*                                                                         *)
(* A pattern is the set of the words it matches, with what $1 takes of     *)
(* them; the matcher, which is external, finds the leftmost longest one.   *)
(***************************************************************************)

CONSTANT CallsMade   \* the calls that may be made

VARIABLE job

Backslash == 21
Dollar == 22
Zero == 30     \* '0'; '9' is 39

Asked(call) ==
  [call |-> call, pc |-> "asked", sig |-> "none", answer |-> NULL, new |-> "none", re |-> 0, faulty |-> FALSE,
   out |-> <<>>, cap |-> 0, offset |-> 0, nmatches |-> 0, match |-> NULL, i |-> 0]
Replacing(pc) == job.call.fn = "replace" /\ job.pc = pc

(* The words of the pattern that stand at a place, an anchored one only at *)
(* the beginning; what regexec answers from an offset.                     *)
StandsAt(pat, str, w, p) == p + Len(w) <= Len(str) /\ SubSeq(str, p + 1, p + Len(w)) = w
Found(pat, str, offset) ==
  {p \in offset .. Len(str) : (pat.bol => p = 0 /\ offset = 0) /\ \E w \in pat.words : StandsAt(pat, str, w, p)}
regexec(pat, str, offset) ==
  IF Found(pat, str, offset) = {} THEN NULL
  ELSE LET so == Min(Found(pat, str, offset))
           len == Max({Len(w) : w \in {w \in pat.words : StandsAt(pat, str, w, so)}})
       IN [so |-> so - offset, eo |-> so - offset + len, group |-> IF pat.group = NULL THEN NULL ELSE Min({len, pat.group})]

(* Returning: with a result, with a diagnostic, or after an error; what the*)
(* call held is released first, for the raise may not return.              *)
Ends(j, answer, new) == [j EXCEPT !.pc = "done", !.answer = answer, !.new = new, !.re = 0]
gk_strstr_replace_error(j, sig) == [Ends(j, 0, "none") EXCEPT !.sig = sig]
OutOfMemoryAt(j) == [gk_strstr_replace_error(j, "SIGMEM") EXCEPT !.faulty = TRUE]
gk_strstr_error_message(j) ==
  \/ job' = Ends(j, 0, "diagnostic")
  \/ job' = OutOfMemoryAt(j)

(* Room for extra characters and the NUL: the capacity doubles while it is *)
(* too small, as long as a size_t holds it.                                *)
Grown(cap, required) ==
  LET double[k \in Nat] ==
        IF k = 0 THEN cap
        ELSE IF double[k - 1] >= required THEN double[k - 1]
        ELSE IF double[k - 1] > SizeMax \div 2 THEN required
        ELSE 2 * double[k - 1]
  IN double[required]
gk_strbuf_reserve(j, extra) ==
  IF extra > SizeMax - Len(j.out) - 1 THEN NULL
  ELSE IF Len(j.out) + extra + 1 <= j.cap THEN j.cap
  ELSE Grown(j.cap, Len(j.out) + extra + 1)
Appends(j, text) ==
  LET cap == gk_strbuf_reserve(j, Len(text))
  IN \/ cap = NULL /\ job' = gk_strstr_replace_error(j, "SIGMEM")
     \/ cap # NULL /\ job' = [j EXCEPT !.out = @ \o text, !.cap = cap]
     \/ cap \notin {NULL, j.cap} /\ job' = OutOfMemoryAt(j)

Rest(j) == After(j.call.str, j.offset)

ReplaceStart ==
  /\ Replacing("asked")
  /\ LET c == job.call
         len == Len(c.str)
         cap == IF len <= (SizeMax - 1) \div 2 THEN 2 * len + 1 ELSE len + 1
     IN IF NULL \in {c.str, c.pat, c.repl} THEN job' = gk_strstr_replace_error(job, "SIGERR")
        ELSE IF c.pat.words = {} THEN gk_strstr_error_message(job)
        ELSE \/ job' = [job EXCEPT !.pc = "match", !.new = "output", !.re = 1, !.cap = cap]
             \/ job' = OutOfMemoryAt([job EXCEPT !.re = 1])

ReplaceMatch ==
  /\ Replacing("match")
  /\ LET m == regexec(job.call.pat, job.call.str, job.offset)
     IN \/ /\ m = NULL
           /\ Appends([job EXCEPT !.pc = "end"], Rest(job))
        \/ /\ m # NULL /\ job.nmatches = IntMax - 1
           /\ job' = gk_strstr_replace_error(job, "SIGMEM")
        \/ /\ m # NULL /\ job.nmatches < IntMax - 1
           /\ Appends([job EXCEPT !.pc = "append", !.match = m, !.nmatches = @ + 1, !.i = 1], SubSeq(Rest(job), 1, m.so))

(* The matcher fails, or answers with a range outside the string.          *)
MatcherFails == Replacing("match") /\ gk_strstr_error_message([job EXCEPT !.faulty = TRUE])
MatcherWrong ==
  /\ Replacing("match") \/ (Replacing("append") /\ job.i < Len(job.call.repl) /\ job.call.repl[job.i] = Dollar
                            /\ job.call.repl[job.i + 1] \in Zero .. Zero + 9)
  /\ job' = gk_strstr_replace_error([job EXCEPT !.faulty = TRUE], "SIGERR")

Capture(j, d) ==
  IF d = 0 THEN SubSeq(Rest(j), j.match.so + 1, j.match.eo)
  ELSE IF d = 1 /\ j.match.group # NULL THEN SubSeq(Rest(j), j.match.so + 1, j.match.so + j.match.group)
  ELSE <<>>
ReplaceAppend ==
  /\ Replacing("append") /\ job.i <= Len(job.call.repl)
  /\ LET repl == job.call.repl
         c == repl[job.i]
         pair == job.i < Len(repl)
         next == [job EXCEPT !.i = @ + IF c \in {Backslash, Dollar} THEN 2 ELSE 1]
     IN \/ c \notin {Backslash, Dollar} /\ Appends(next, <<c>>)
        \/ c = Backslash /\ pair /\ Appends(next, <<repl[job.i + 1]>>)
        \/ c = Dollar /\ pair /\ repl[job.i + 1] \in Zero .. Zero + 9 /\ Appends(next, Capture(job, repl[job.i + 1] - Zero))
        \/ c = Dollar /\ pair /\ repl[job.i + 1] \notin Zero .. Zero + 9 /\ gk_strstr_error_message(job)
        \/ c \in {Backslash, Dollar} /\ ~pair /\ gk_strstr_error_message(job)

(* After a match: on, past one character more when the match was empty;    *)
(* without the option g the rest is kept.                                  *)
BugReplaceAdvance ==
  /\ Replacing("append") /\ job.i > Len(job.call.repl)
  /\ LET past == [job EXCEPT !.offset = @ + job.match.eo]
         rest == Rest(past)
     IN IF ~job.call.global THEN Appends([past EXCEPT !.pc = "end"], rest)
        ELSE IF job.match.so < job.match.eo THEN job' = [past EXCEPT !.pc = "match"]
        ELSE IF rest = <<>> THEN job' = [past EXCEPT !.pc = "end"]
        ELSE job' = [past EXCEPT !.pc = "match", !.offset = @ + 1]
ReplaceAdvance ==
  /\ Replacing("append") /\ job.i > Len(job.call.repl)
  /\ LET past == [job EXCEPT !.offset = @ + job.match.eo]
         rest == Rest(past)
     IN IF ~job.call.global THEN Appends([past EXCEPT !.pc = "end"], rest)
        ELSE IF job.match.so < job.match.eo THEN job' = [past EXCEPT !.pc = "match"]
        ELSE IF rest = <<>> THEN job' = [past EXCEPT !.pc = "end"]
        ELSE Appends([past EXCEPT !.pc = "match", !.offset = @ + 1], <<Head(rest)>>)

ReplaceEnd == Replacing("end") /\ job' = Ends(job, job.nmatches + 1, "output")

gk_strstr_replace ==
  \/ ReplaceStart \/ ReplaceMatch \/ MatcherFails \/ MatcherWrong
  \/ ReplaceAppend \/ ReplaceAdvance \/ ReplaceEnd

-----------------------------------------------------------------------------
(* What the documentation promises of a replacement: the matches one after *)
(* the other, each by what the replacement says; after an empty match one  *)
(* character is kept, and an empty match at the end is the last.           *)
Says(repl, j) ==
  LET from[i \in 1 .. Len(repl) + 2] ==
        IF i > Len(repl) THEN <<>>
        ELSE IF repl[i] = Backslash THEN <<repl[i + 1]>> \o from[i + 2]
        ELSE IF repl[i] = Dollar THEN Capture(j, repl[i + 1] - Zero) \o from[i + 2]
        ELSE <<repl[i]>> \o from[i + 1]
  IN from[1]
Replaced(c) ==
  LET at(o) == regexec(c.pat, c.str, o)
      by(o) == SubSeq(After(c.str, o), 1, at(o).so)
                 \o Says(c.repl, [call |-> c, offset |-> o, match |-> at(o)])
      end(o) == o + at(o).eo
      from[o \in 0 .. Len(c.str)] ==
        IF at(o) = NULL THEN [text |-> After(c.str, o), n |-> 0]
        ELSE IF ~c.global \/ (at(o).so = at(o).eo /\ end(o) = Len(c.str))
             THEN [text |-> by(o) \o After(c.str, end(o)), n |-> 1]
        ELSE LET empty == at(o).so = at(o).eo
                 rest == from[IF empty THEN end(o) + 1 ELSE end(o)]
             IN [text |-> by(o) \o (IF empty THEN <<c.str[end(o) + 1]>> ELSE <<>>) \o rest.text, n |-> 1 + rest.n]
  IN from[0]
Dangling(repl) ==
  LET bad[i \in 1 .. Len(repl) + 2] ==
        IF i > Len(repl) THEN FALSE
        ELSE IF repl[i] \notin {Backslash, Dollar} THEN bad[i + 1]
        ELSE i = Len(repl) \/ (repl[i] = Dollar /\ repl[i + 1] \notin Zero .. Zero + 9) \/ bad[i + 2]
  IN bad[1]
Replaceable(c) == NULL \notin {c.str, c.pat, c.repl} /\ c.pat.words # {}
ReplaceRight ==
  LET c == job.call
  IN /\ job.new = "output" => Len(job.out) < job.cap /\ job.cap <= SizeMax
     /\ job.pc = "done" =>
          /\ job.re = 0
          /\ job.sig # "none" => job.new = "none" /\ job.answer = 0
          /\ job.new = "diagnostic" => job.sig = "none" /\ job.answer = 0
          /\ job.answer > 0 => job.new = "output" /\ job.out = Replaced(c).text /\ job.answer = 1 + Replaced(c).n
          /\ ~job.faulty /\ job.answer = 0 =>
               \/ ~Replaceable(c)
               \/ regexec(c.pat, c.str, 0) # NULL /\ Dangling(c.repl)
               \/ Replaced(c).n >= IntMax \/ Len(Replaced(c).text) >= SizeMax

-----------------------------------------------------------------------------
(* gk_read and gk_write (src/src/io.c): one system call moves at most      *)
(* INT_MAX bytes and may move fewer. able says of each system call how many*)
(* bytes it moves at most, -1 that it fails; left is what the file has.    *)
Least(a, b) == IF a <= b THEN a ELSE b
PtrdiffMax == SizeMax \div 2
Moving(count) == [remaining |-> count, ret |-> NULL]
gk_read(left, count, able) ==
  LET read(s, k) ==
        LET request == Least(s.remaining, IntMax)
            rsize == Least(request, Least(k, left - (count - s.remaining)))
            after == s.remaining - rsize
        IN IF s.ret # NULL THEN s
           ELSE IF k = -1 THEN [s EXCEPT !.ret = -1]
           ELSE [remaining |-> after, ret |-> IF after > 0 /\ rsize > 0 THEN NULL ELSE count - after]
  IN IF count > PtrdiffMax THEN [Moving(count) EXCEPT !.ret = -1] ELSE FoldLeft(read, Moving(count), able)
gk_write(count, able) ==
  LET write(s, k) ==
        LET size == Least(Least(s.remaining, IntMax), k)
            after == s.remaining - size
        IN IF s.ret # NULL THEN s
           ELSE IF k = -1 \/ (size = 0 /\ s.remaining > 0) THEN [s EXCEPT !.ret = -1]
           ELSE [remaining |-> after, ret |-> IF after > 0 THEN NULL ELSE count]
  IN IF count > PtrdiffMax THEN [Moving(count) EXCEPT !.ret = -1] ELSE FoldLeft(write, Moving(count), able)

(* Base64 (src/src/b64.c). A byte is a number below 256, shifts and masks  *)
(* are quotients and remainders. What is decoded was encoded, so no digit  *)
(* is above 63 and | adds. The input of a decoder loses its offsets. The   *)
(* report of a length that fits no block does not return to the call.      *)
B64OFFSET == 48
encodeblock(b) ==
  [k \in 1 .. 4 |-> B64OFFSET +
     <<b[1] \div 4, (b[1] % 4) * 16 + (b[2] \div 16), (b[2] % 16) * 4 + (b[3] \div 64), b[3] % 64>>[k]]
Digits(b) == [k \in DOMAIN b |-> (b[k] - B64OFFSET) % 256]
decodeblock(b) ==
  LET d == Digits(b)
  IN <<d[1] * 4 + (d[2] \div 16), (d[2] % 16) * 16 + (d[3] \div 4), (d[3] % 4) * 64 + d[4]>>
Blocks(n, b) == [k \in 1 .. Len(b) \div n |-> SubSeq(b, n * (k - 1) + 1, n * k)]
GKEncodeBase64(b) ==
  IF Len(b) % 3 # 0 THEN NULL ELSE FlattenSeq([k \in DOMAIN Blocks(3, b) |-> encodeblock(Blocks(3, b)[k])])
GKDecodeBase64(b) ==
  IF Len(b) % 4 # 0 THEN NULL
  ELSE [out |-> FlattenSeq([k \in DOMAIN Blocks(4, b) |-> decodeblock(Blocks(4, b)[k])]), in |-> Digits(b)]

(* The permutations of src/include/gk_mkrandom.h: draws are the numbers    *)
(* that the generator returns, in pairs <<v, u>> or one for each place.    *)
Numbered(p, flag) == IF flag = 1 THEN [i \in DOMAIN p |-> i - 1] ELSE p
SwapBlock(p, d) ==
  Swapped(Swapped(Swapped(Swapped(p, d[1] + 1, d[2] + 3), d[1] + 2, d[2] + 4), d[1] + 3, d[2] + 1), d[1] + 4, d[2] + 2)
randArrayPermute(p, draws, flag) ==
  IF Len(p) < 10 THEN FoldLeft(LAMBDA s, d : Swapped(s, d[1] + 1, d[2] + 1), Numbered(p, flag), draws)
  ELSE FoldLeft(SwapBlock, Numbered(p, flag), draws)
randArrayPermuteFine(p, draws, flag) ==
  FoldLeft(LAMBDA s, i : Swapped(s, i, draws[i] + 1), Numbered(p, flag), [i \in DOMAIN p |-> i])

(* The bounded queue of src/include/gk_mkpqueue2.h, a heap without         *)
(* locators: at[i] is the key and value of place i.                        *)
Queue2(maxnodes) == [nnodes |-> 0, maxnodes |-> maxnodes, at |-> [i \in 0 .. maxnodes - 1 |-> <<0, 0>>], ret |-> 0]
Insert2(s, val, key) ==
  LET up[i \in 0 .. s.nnodes] ==
        LET j == (i - 1) \div 2
        IN IF i > 0 /\ key < s.at[j][1] THEN [up[j] EXCEPT ![i] = s.at[j]] ELSE [s.at EXCEPT ![i] = <<key, val>>]
  IN IF s.nnodes = s.maxnodes THEN [s EXCEPT !.ret = 0]
     ELSE [s EXCEPT !.nnodes = @ + 1, !.at = up[s.nnodes], !.ret = 1]
Sinks(s, n, i, key) ==
  LET j == 2 * i + 1
  IN IF j >= n THEN i
     ELSE IF s.at[j][1] < key THEN IF j + 1 < n /\ s.at[j + 1][1] < s.at[j][1] THEN j + 1 ELSE j
     ELSE IF j + 1 < n /\ s.at[j + 1][1] < key THEN j + 1 ELSE i
GetTop2(s) ==
  LET n == s.nnodes - 1
      down[i \in 0 .. s.maxnodes] ==
        LET j == Sinks(s, n, i, s.at[n][1])
        IN IF j = i THEN [s.at EXCEPT ![i] = s.at[n]] ELSE [down[j] EXCEPT ![i] = s.at[j]]
  IN IF s.nnodes = 0 THEN [s EXCEPT !.ret = 0]
     ELSE [s EXCEPT !.nnodes = n, !.at = IF n > 0 THEN down[0] ELSE @, !.ret = s.at[0][2]]
Reset2(s) == [s EXCEPT !.nnodes = 0, !.ret = 0]
(* Key 0 is a call of GetTop2 and -1 one of Reset2; values are the numbers *)
(* of the calls.                                                           *)
QueueUse(maxnodes, keys) ==
  LET does(s, k) ==
        LET t == IF keys[k] = 0 THEN GetTop2(s.q) ELSE IF keys[k] = -1 THEN Reset2(s.q) ELSE Insert2(s.q, k, keys[k])
        IN [q |-> t, rets |-> Append(s.rets, t.ret)]
  IN FoldLeft(does, [q |-> Queue2(maxnodes), rets |-> <<>>], [k \in DOMAIN keys |-> k]).rets

(* The constructors that make several blocks, of which the heap may refuse *)
(* one (fault), or with no binding left to make ("trap"): what is returned,*)
(* the blocks that then live, and the signal that leaves the call. Without *)
(* gk_exit_on_error none does, and what is refused is only NULL.           *)
Made(ret, live, sig) == [ret |-> ret, live |-> live, sig |-> sig]
Got(blocks, fault) == {blocks[k] : k \in {k \in DOMAIN blocks : \A j \in 1 .. k : blocks[j] # fault}}
Throws(c, sig) == IF c.exits THEN sig ELSE "none"

gk_AllocMatrix(c) ==
  LET pointers == c.ndim1 * PointerSize
      got == Got([k \in 1 .. c.ndim1 + 1 |-> k - 1], c.fault)      \* 0 is the array of rows
  IN IF pointers > SizeMax \/ (c.ndim1 # 0 /\ c.ndim2 * c.elmlen > SizeMax) THEN Made(NULL, {}, Throws(c, "SIGMEM"))
     ELSE IF c.fault \in 0 .. c.ndim1 THEN Made(NULL, got \ ({0} \cup 1 .. c.fault - 1), Throws(c, "SIGMEM"))
     ELSE Made("matrix", got, "none")
gk_FreeMatrix(c, m) == IF m.ret = NULL THEN m ELSE Made(NULL, m.live \ ({0} \cup 1 .. c.ndim1), "none")

(* pqInit keeps the heap only with a locator. Create, around it, gives back*)
(* the queue too; each throws again what its own binding caught.           *)
pqInit(c) ==
  LET got == Got(<<"heap", "locator">>, c.fault)
  IN IF c.maxnodes > PtrdiffMax \/ c.fault = "inner trap" THEN Made("queue", {}, Throws(c, "SIGMEM"))
     ELSE IF got = {"heap", "locator"} THEN Made("queue", got, "none")
     ELSE Made("queue", got \ {"heap"}, Throws(c, "SIGMEM"))
pqFree(q) == [q EXCEPT !.live = @ \ {"heap", "locator"}]
pqDestroy(q) == Made(NULL, pqFree(q).live \ {"queue"}, q.sig)
pqCreate(c) ==
  LET init == pqInit(c)
  IN IF c.fault \in {"queue", "trap"} THEN Made(NULL, {}, Throws(c, "SIGMEM"))
     ELSE IF {"heap", "locator"} \subseteq init.live THEN Made("queue", init.live \cup {"queue"}, "none")
     ELSE Made(NULL, pqFree(init).live, init.sig)
pqCreate2(c) ==
  LET got == Got(<<"queue", "keys", "vals">>, c.fault)
  IN IF c.fault = "trap" THEN Made(NULL, {}, Throws(c, "SIGMEM"))
     ELSE IF {"keys", "vals"} \subseteq got THEN Made("queue", got, "none")
     ELSE Made(NULL, got \ {"keys", "vals", "queue"}, Throws(c, "SIGMEM"))
pqDestroy2(q) == Made(NULL, q.live \ {"keys", "vals", "queue"}, q.sig)
-----------------------------------------------------------------------------
(* The kernels of src/include/gk_mkblas.h and gk_mkutils.h, on n elements  *)
(* of an array that are incx places apart. The arrays are memory, whose    *)
(* place i is element i + 1 of the sequence; a root is that of an integer  *)
(* type. A kernel that changes its array says where it returns to.         *)
Unit(b) == IF b THEN 1 ELSE 0
Along(n, incx) == [i \in 1 .. n |-> incx * (i - 1) + 1]
Strided(n, x, incx) == [i \in 1 .. n |-> x[Along(n, incx)[i]]]
gk_incset(n, baseval, x) == [i \in DOMAIN x |-> IF i <= n THEN baseval + (i - 1) ELSE x[i]]
(* sign is 1 for the maximum and -1 for the minimum.                       *)
Extreme(n, x, incx, sign) ==
  IF n = 0 THEN 0 ELSE FoldLeft(LAMBDA m, e : IF sign * e > sign * m THEN e ELSE m, x[1], Strided(n, x, incx))
ArgExtreme(n, x, incx, sign) ==
  FoldLeft(LAMBDA best, j : IF j > 1 /\ sign * x[j] > sign * x[best + 1] THEN j - 1 ELSE best, 0, Along(n, incx)) \div incx
gk_max(n, x, incx) == Extreme(n, x, incx, 1)
gk_min(n, x, incx) == Extreme(n, x, incx, -1)
gk_argmax(n, x, incx) == ArgExtreme(n, x, incx, 1)
gk_argmin(n, x, incx) == ArgExtreme(n, x, incx, -1)
(* The sort leaves ties in any order, so that there are several answers.   *)
(* The array it sorts is taken as allocated: callers exit on error.        *)
kvsortd(cand) == {s \in SetToSeqs(Members(cand)) : \A i, j \in DOMAIN s : i < j => s[i].key >= s[j].key}
gk_argmax_n(n, x, incx, k) ==
  LET cand == [i \in 1 .. n |-> [val |-> i - 1, key |-> Strided(n, x, incx)[i]]]
  IN {s[k].val : s \in kvsortd(cand)}
gk_sum(n, x, incx) == FoldLeft(LAMBDA s, e : s + e, 0, Strided(n, x, incx))
gk_dot(n, x, incx, y, incy) == FoldLeft(LAMBDA s, i : s + Strided(n, x, incx)[i] * Strided(n, y, incy)[i], 0, UpTo(n))
gk_norm2(n, x, incx) ==
  LET partial == gk_dot(n, x, incx, x, incx) IN Max({r \in 0 .. partial : r * r <= partial})
gk_scale(n, alpha, x, incx) ==
  [x |-> FoldLeft(LAMBDA a, j : [a EXCEPT ![j] = @ * alpha], x, Along(n, incx)), ret |-> n * incx]
gk_axpy(n, alpha, x, incx, y, incy) ==
  [y |-> FoldLeft(LAMBDA a, i : [a EXCEPT ![Along(n, incy)[i]] = @ + alpha * Strided(n, x, incx)[i]], y, UpTo(n)), ret |-> 0]

(* gk_array2csr: how many hold each number, where each number's begin, and *)
(* the places in order of their numbers; MAKECSR and SHIFTCSR move ptr by  *)
(* one place.                                                              *)
Shifted(ptr) == [i \in DOMAIN ptr |-> IF i = 0 THEN 0 ELSE ptr[i - 1]]
gk_array2csr(n, range, array) ==
  LET counts == FoldLeft(LAMBDA p, i : [p EXCEPT ![array[i]] = @ + 1], [r \in 0 .. range |-> 0], UpTo(n))
      ends == FoldLeft(LAMBDA p, r : [p EXCEPT ![r] = @ + p[r - 1]], counts, UpTo(range - 1))
      put(s, i) == [ptr |-> [s.ptr EXCEPT ![array[i]] = @ + 1], ind |-> [s.ind EXCEPT ![s.ptr[array[i]] + 1] = i - 1]]
      end == FoldLeft(put, [ptr |-> Shifted(ends), ind |-> [i \in 1 .. n |-> 0]], UpTo(n))
  IN [ptr |-> Shifted(end.ptr), ind |-> end.ind]
Kernels(c) ==
  [max |-> gk_max(c.n, c.x, c.incx), min |-> gk_min(c.n, c.x, c.incx), argmax |-> gk_argmax(c.n, c.x, c.incx),
   argmin |-> gk_argmin(c.n, c.x, c.incx), sum |-> gk_sum(c.n, c.x, c.incx), norm2 |-> gk_norm2(c.n, c.x, c.incx),
   dot |-> gk_dot(c.n, c.x, c.incx, c.y, 1), scale |-> gk_scale(c.n, c.alpha, c.x, c.incx),
   axpy |-> gk_axpy(c.n, c.alpha, c.y, 1, c.x, c.incx), incset |-> gk_incset(c.n, c.alpha, c.x)]

(* The measures of src/src/evaluate.c over a ranked list of elements in two*)
(* classes, fractions for what the code divides. / between integers cuts   *)
(* the half of a trapezoid off.                                            *)
Positives(list) == Cardinality({i \in DOMAIN list : list[i].val = 1})
ComputeAccuracy(list) ==
  LET N == Len(list) - Positives(list)
      after(s, e) ==
        LET tp == s.tp + Unit(e.val = 1)  fn == s.fn + Unit(e.val # 1)
        IN [tp |-> tp, fn |-> fn, best |-> Larger(s.best, tp + N - fn)]
  IN <<FoldLeft(after, [tp |-> 0, fn |-> 0, best |-> 0], list).best, Len(list)>>
Trapezoid(s) == ((s.tp + s.tpprev) * (s.fp - s.fpprev)) \div 2
ComputeROCn(maxN, list) ==
  LET turn(s, e) == IF e.key = s.prev THEN s
                    ELSE [s EXCEPT !.auc = @ + Trapezoid(s), !.prev = e.key, !.fpprev = s.fp, !.tpprev = s.tp]
      step(s, e) ==
        IF s.fp >= maxN THEN s
        ELSE IF e.val = 1 THEN [turn(s, e) EXCEPT !.tp = @ + 1] ELSE [turn(s, e) EXCEPT !.fp = @ + 1]
      start == [tp |-> 0, fp |-> 0, tpprev |-> 0, fpprev |-> 0, auc |-> 0, prev |-> list[1].key - 1]
      end == FoldLeft(step, start, list)
  IN IF end.tp * end.fp > 0 THEN <<end.auc + Trapezoid(end), Positives(list) * end.fp>> ELSE <<0, 1>>
ComputeMedianRFP(list) ==
  LET step(s, e) ==
        IF s.tp >= (Positives(list) + 1) \div 2 THEN s
        ELSE IF e.val = 1 THEN [s EXCEPT !.tp = @ + 1] ELSE [s EXCEPT !.fp = @ + 1]
  IN <<FoldLeft(step, [tp |-> 0, fp |-> 0], list).fp, Len(list) - Positives(list)>>

(* gk_strdup, whose allocation may fail.                                   *)
gk_strdup(c) ==
  IF c.str = NULL THEN [str |-> NULL, sig |-> "none"]
  ELSE IF Len(c.str) = SizeMax \/ c.fault THEN [str |-> NULL, sig |-> Throws(c, "SIGMEM")]
  ELSE [str |-> StringAt(Buffer(c.str), 1), sig |-> "none"]
-----------------------------------------------------------------------------
callVars == <<job>>
CallInit == job \in {Asked(call) : call \in CallsMade}

Answer(c) ==
  CASE c.fn = "translate" -> gk_strchr_replace(c.str, c.from, c.to)
    [] c.fn = "prune"     -> <<gk_strhprune(c.str, c.list), gk_strtprune(c.str, c.list)>>
    [] c.fn = "case"      -> <<gk_strtoupper(c.str), gk_strtolower(c.str)>>
    [] c.fn = "compare"   -> <<gk_strcasecmp(c.str, c.with), gk_strrcmp(c.str, c.with)>>
    [] c.fn = "id"        -> gk_GetStringID(c.map, c.str)
    [] c.fn = "path"      -> [name |-> gk_getfilename(c.str), base |-> gk_getbasename(c.str),
                              ext |-> gk_getextname(c.str), path |-> getpathname(c.str)]
    [] c.fn = "tokens"    -> gk_strtokenize(c.str, c.delim, c.fault)
    [] c.fn = "stats"     -> gk_getfilestats(c.str, c.reads)
    [] c.fn = "largest"   -> gk_dfkvkselect(c.cand, c.topk)
    [] c.fn = "smallest"  -> gk_ifkvkselect(c.cand, c.topk)
    [] c.fn = "read"      -> gk_read(c.left, c.count, c.able).ret
    [] c.fn = "write"     -> gk_write(c.count, c.able)
    [] c.fn = "base64"    -> GKEncodeBase64(c.bytes)
    [] c.fn = "permute"   -> randArrayPermute(c.p, c.draws, c.flag)
    [] c.fn = "fine"      -> randArrayPermuteFine(c.p, c.draws, c.flag)
    [] c.fn = "queue2"    -> QueueUse(c.maxnodes, c.keys)
    [] c.fn = "matrix"    -> gk_AllocMatrix(c)
    [] c.fn = "create"    -> <<pqInit(c), pqCreate(c), pqCreate2(c)>>
    [] c.fn = "kernel"    -> Kernels(c)
    [] c.fn = "invert"    -> gk_array2csr(Len(c.array), c.range, c.array)
    [] c.fn = "rank"      -> [accuracy |-> ComputeAccuracy(c.list), roc |-> ComputeROCn(c.maxN, c.list),
                              median |-> ComputeMedianRFP(c.list)]
    [] c.fn = "copy"      -> gk_strdup(c)
SimpleCall ==
  /\ job.pc = "asked" /\ job.call.fn \notin {"replace", "nth"}
  /\ job' = [job EXCEPT !.pc = "done", !.answer = Answer(job.call)]
NthCall ==
  /\ job.pc = "asked" /\ job.call.fn = "nth"
  /\ \E a \in gk_argmax_n(job.call.n, job.call.x, job.call.incx, job.call.k) :
       job' = [job EXCEPT !.pc = "done", !.answer = a]
FreeTokens ==
  /\ job.pc = "done" /\ job.call.fn = "tokens"
  /\ job' = [job EXCEPT !.pc = "freed", !.answer = gk_freetokenslist(@)]

CallNext == gk_strstr_replace \/ SimpleCall \/ NthCall \/ FreeTokens
CallSpec == CallInit /\ [][CallNext]_callVars

(* What the other answers must agree with, said without scanning.          *)
Runs(str, delim) ==
  {r \in {<<p, q>> \in (DOMAIN str) \X (DOMAIN str) : p <= q} :
     /\ \A i \in r[1] .. r[2] : str[i] \notin Members(delim)
     /\ r[1] = 1 \/ str[r[1] - 1] \in Members(delim)
     /\ r[2] = Len(str) \/ str[r[2] + 1] \in Members(delim)}
RunsInOrder(str, delim) == SetToSortSeq(Runs(str, delim), LAMBDA r, s : r[1] < s[1])
LinesIn(file) ==
  LET ends == {0} \cup {p \in DOMAIN file : file[p] = Newline}
  IN {SubSeq(file, p + 1, Min({q \in ends \cup {Len(file) + 1} : q > p}) - 1) : p \in ends}
Inside(keys, rets, k) ==     \* the calls before the k-th that put in what is still there
  {j \in 1 .. k - 1 : /\ keys[j] > 0 /\ rets[j] = 1
                       /\ \A i \in j + 1 .. k - 1 : keys[i] # -1 /\ (keys[i] = 0 => rets[i] # j)}
KernelsRight(c, a) ==
  LET places == {i \in DOMAIN c.x : i <= c.n * c.incx /\ (i - 1) % c.incx = 0}
      at(arg) == c.x[arg * c.incx + 1]
  IN /\ c.n > 0 => at(a.argmax) = a.max /\ at(a.argmin) = a.min
     /\ \A i \in places : c.x[i] <= a.max /\ c.x[i] >= a.min
     /\ \A i \in places : c.x[i] = a.max => i > a.argmax * c.incx
     /\ \A i \in places : c.x[i] = a.min => i > a.argmin * c.incx
     /\ c.n = 0 => a.max = 0 /\ a.min = 0 /\ a.sum = 0 /\ a.norm2 = 0 /\ a.dot = 0
     /\ a.sum = MapThenSumSet(LAMBDA i : c.x[i], places)
     /\ a.dot = MapThenSumSet(LAMBDA i : c.x[i] * c.y[1 + (i - 1) \div c.incx], places)
     /\ a.norm2 * a.norm2 <= MapThenSumSet(LAMBDA i : c.x[i] * c.x[i], places)
     /\ MapThenSumSet(LAMBDA i : c.x[i] * c.x[i], places) < (a.norm2 + 1) * (a.norm2 + 1)
     /\ \A i \in DOMAIN c.x : a.scale.x[i] = IF i \in places THEN c.alpha * c.x[i] ELSE c.x[i]
     /\ \A i \in DOMAIN c.x : a.axpy.y[i] = IF i \in places THEN c.x[i] + c.alpha * c.y[1 + (i - 1) \div c.incx] ELSE c.x[i]
     /\ \A i \in DOMAIN c.x : a.incset[i] = IF i <= c.n THEN c.alpha + i - 1 ELSE c.x[i]
(* Positives ranked above negatives, of the elements up to the maxN-th     *)
(* negative; among ties half a pair, which the code may cut off.           *)
RankRight(c, a) ==
  LET negatives == {i \in DOMAIN c.list : c.list[i].val # 1}
      seen == {i \in DOMAIN c.list : Cardinality({j \in negatives : j < i}) < c.maxN}
      pairs(Related(_, _)) == Cardinality({<<i, j>> \in (seen \ negatives) \X (seen \cap negatives) : Related(c.list[i].key, c.list[j].key)})
      above == pairs(LAMBDA k, l : k > l)
      tied == pairs(LAMBDA k, l : k = l)
      P == Positives(c.list)
  IN /\ a.roc[2] = P * Cardinality(seen \cap negatives) =>
          2 * a.roc[1] <= 2 * above + tied /\ 2 * above + tied <= 2 * a.roc[1] + Cardinality({c.list[i].key : i \in seen})
     /\ tied = 0 /\ P > 0 /\ seen \cap negatives # {} => a.roc[1] = above
     /\ a.accuracy[1] = Max({Cardinality({i \in DOMAIN c.list : (i <= k) = (i \notin negatives)}) : k \in DOMAIN c.list})
     /\ P > 0 => \E i \in DOMAIN c.list \ negatives :
                   /\ Cardinality({j \in DOMAIN c.list \ negatives : j <= i}) = (P + 1) \div 2
                   /\ a.median[1] = Cardinality({j \in negatives : j < i})
CallRight(c, a) ==
  CASE c.fn = "translate" -> a = FlattenSeq([i \in DOMAIN c.str |-> BecomesOf(c.str[i], c.from, c.to)])
    [] c.fn = "prune"     -> /\ a[1] = Reverse(gk_strtprune(Reverse(c.str), c.list))
                             /\ \E p \in 1 .. Len(c.str) + 1 : a[2] = Ahead(c.str, p) /\ Members(After(c.str, p - 1)) \subseteq Members(c.list)
                             /\ a[2] # <<>> => Last(a[2]) \notin Members(c.list)
    [] c.fn = "case"      -> gk_strcasecmp(a[1], a[2]) /\ gk_strcasecmp(a[1], c.str) /\ gk_strtolower(a[1]) = a[2]
    [] c.fn = "compare"   -> /\ a[2] = 0 <=> c.str = c.with
                             /\ c.str = c.with => a[1]
                             /\ a[1] = gk_strcasecmp(c.with, c.str)
                             /\ (a[2] < 0) = (gk_strrcmp(c.with, c.str) > 0)
                             /\ IsSuffix(c.str, c.with) /\ c.str # c.with => a[2] < 0
    [] c.fn = "id"        -> a = -1 <=> \A i \in DOMAIN c.map : ~gk_strcasecmp(c.str, c.map[i].name)
    [] c.fn = "path"      -> /\ Slash \in Members(c.str) => a.path \o <<Slash>> \o a.name = c.str
                             /\ Slash \notin Members(a.name)
                             /\ Dot \in Members(a.name) => a.base \o <<Dot>> \o a.ext = a.name
                             /\ Dot \notin Members(a.name) => a.base = a.name
    [] c.fn = "tokens"    -> IF a.list = NULL
                             THEN /\ a.strbuf = NULL
                                  /\ a.sig = IF NULL \in {c.str, c.delim} THEN "SIGERR" ELSE "SIGMEM"
                                  /\ a.sig = "SIGERR" \/ c.fault # "none" \/ Cardinality(Runs(c.str, c.delim)) > IntMax
                             ELSE TokensIn(a) = [k \in 1 .. Cardinality(Runs(c.str, c.delim)) |->
                                    LET r == RunsInOrder(c.str, c.delim)[k] IN SubSeq(c.str, r[1], r[2])]
    [] c.fn = "stats"     -> \/ a.sig # "none" /\ a.stats = NoStats
                             \/ a.stats = [bytes |-> Len(c.str), lines |-> Cardinality({p \in DOMAIN c.str : c.str[p] = Newline}),
                                           tokens |-> Cardinality(Runs(c.str, <<Blank, Newline>>)),
                                           longest |-> Max({Cardinality(Runs(l, <<Blank>>)) : l \in LinesIn(c.str)})]
    [] c.fn \in {"largest", "smallest"} ->
                             /\ \E f \in [DOMAIN a -> DOMAIN a] : IsInjective(f) /\ a = [p \in DOMAIN a |-> c.cand[f[p]]]
                             /\ \A p, q \in DOMAIN a : p <= c.topk /\ q > c.topk =>
                                  IF c.fn = "largest" THEN AtLeast(a[p].key, a[q].key) ELSE AtLeast(a[q].key, a[p].key)
    [] c.fn = "read"      -> \/ a = Least(c.count, c.left)
                             \/ a = -1 /\ (c.count > PtrdiffMax \/ -1 \in Members(c.able))
    [] c.fn = "write"     -> \/ a = [remaining |-> 0, ret |-> c.count]
                             \/ a.ret = -1 /\ (c.count > PtrdiffMax \/ {-1, 0} \cap Members(c.able) # {})
    [] c.fn = "base64"    -> IF Len(c.bytes) % 3 # 0 THEN a = NULL
                             ELSE GKDecodeBase64(a).out = c.bytes /\ 3 * Len(a) = 4 * Len(c.bytes) /\ Members(a) \subseteq 48 .. 111
    [] c.fn \in {"permute", "fine"} ->
                             IsInjective(a) /\ Len(a) = Len(c.p) /\ Members(a) = Members(Numbered(c.p, c.flag))
    [] c.fn = "queue2"    -> \A k \in DOMAIN a :
                               LET inside == Inside(c.keys, a, k)
                               IN IF c.keys[k] = -1 THEN a[k] = 0
                                  ELSE IF c.keys[k] > 0 THEN a[k] = IF Cardinality(inside) < c.maxnodes THEN 1 ELSE 0
                                  ELSE IF inside = {} THEN a[k] = 0
                                  ELSE a[k] \in inside /\ \A j \in inside : c.keys[a[k]] <= c.keys[j]
    [] c.fn = "matrix"    -> /\ a.live = IF a.ret = NULL THEN {} ELSE 0 .. c.ndim1
                             /\ (a.sig # "none") = (a.ret = NULL /\ c.exits)
                             /\ gk_FreeMatrix(c, a).live = {}
    [] c.fn = "create"    -> /\ a[1].live \in {{}, {"heap", "locator"}} /\ (a[1].sig # "none") = (a[1].live = {} /\ c.exits)
                             /\ \A k \in {2, 3} : /\ Cardinality(a[k].live) = IF a[k].ret = NULL THEN 0 ELSE 3
                                                  /\ (a[k].sig # "none") = (a[k].ret = NULL /\ c.exits)
                             /\ pqDestroy(a[2]).live = {} /\ pqDestroy2(a[3]).live = {}
    [] c.fn = "kernel"    -> KernelsRight(c, a)
    [] c.fn = "nth"       -> /\ Cardinality({i \in 0 .. c.n - 1 : c.x[c.incx * i + 1] > c.x[c.incx * a + 1]}) < c.k
                             /\ Cardinality({i \in 0 .. c.n - 1 : c.x[c.incx * i + 1] >= c.x[c.incx * a + 1]}) >= c.k
    [] c.fn = "invert"    -> LET list(r) == {p \in DOMAIN c.array : c.array[p] = r}
                             IN \A r \in 0 .. c.range - 1 :
                                  SubSeq(a.ind, a.ptr[r] + 1, a.ptr[r + 1]) = [k \in 1 .. Cardinality(list(r)) |-> SetToSortSeq(list(r), <)[k] - 1]
    [] c.fn = "rank"      -> RankRight(c, a)
    [] c.fn = "copy"      -> /\ a.str # c.str => a.str = NULL /\ (c.fault \/ Len(c.str) = SizeMax)
                             /\ (a.sig # "none") = (c.str # NULL /\ a.str = NULL /\ c.exits)

(* A replacement is what the documentation says, within the output's       *)
(* capacity, or it fails with the pattern and the output released; and the *)
(* tokens, counts and names are those of the string, though the string is  *)
(* edited while it is read and a file comes buffer by buffer; a selection  *)
(* keeps every element and divides them by key (string.c:182,              *)
(* tokenizer.c:32, fs.c:109, fkvkselect.c:20). A transfer is complete or   *)
(* fails, however few bytes the system moves at a time (io.c:72); what is  *)
(* encoded is decoded again (b64.c:60), a shuffle loses no element though  *)
(* its blocks overlap (gk_mkrandom.h:72), the bounded queue hands out a    *)
(* least key of what it took (gk_mkpqueue2.h:110), and a constructor that  *)
(* fails leaves no block behind (memory.c:208, gk_mkpqueue.h:19).          *)
AnswersRight ==
  /\ job.call.fn = "replace" => ReplaceRight
  /\ job.call.fn # "replace" /\ job.pc = "done" => CallRight(job.call, job.answer)
  /\ job.pc = "freed" => job.answer.list = NULL /\ job.answer.strbuf = NULL
=============================================================================
