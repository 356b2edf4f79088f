------------------------------- MODULE MCParts -------------------------------
(***************************************************************************)
(* The parts of the library that no other part's state depends on, one at a*)
(* time: a behaviour uses the part that used names, and the others stay as *)
(* they are at first.                                                      *)
(***************************************************************************)
EXTENDS PQueue, Cache, Recovery, OutputFile, Calls, Itemsets, Similarity

CONSTANTS
  FirstMask,    \* the signal mask the program starts with
  Used          \* the parts that are used

(* Short strings and arrays for Calls: 5 and 6 are letters, 15 is the capital *)
(* of 5.                                                                   *)
Upto(n, chars) == UNION {[1 .. k -> chars] : k \in 0 .. n}

Pattern(words, bol, group) == [words |-> words, bol |-> bol, group |-> group]
Patterns ==
  {Pattern({<<5>>}, FALSE, NULL), Pattern({<<>>, <<5>>, <<5, 5>>}, FALSE, NULL), Pattern({<<5>>}, TRUE, NULL),
   Pattern({<<5, 6>>, <<5>>}, FALSE, 1), Pattern({<<6>>, <<5, 6, 5>>}, FALSE, 0), Pattern({}, FALSE, NULL), NULL}
Replacements ==
  {<<>>, <<6>>, <<6, 5>>, <<Dollar, 30>>, <<Dollar, 31, 6>>, <<Dollar, 32>>, <<Backslash, Dollar>>, <<5, Backslash, Backslash>>,
   <<Dollar>>, <<Backslash>>, <<6, Dollar, 5>>, <<6, 6, 6, 6>>, <<Dollar, 30, Dollar, 30>>, NULL}
ReplaceCalls ==
  {[fn |-> "replace", str |-> s, pat |-> p, repl |-> r, global |-> g] :
     s \in Upto(3, {5, 6}) \cup {<<5, 6, 5, 6>>, <<6, 6, 5, 5, 5>>, NULL}, p \in Patterns, r \in Replacements, g \in BOOLEAN}

Transfers ==
  {[fn |-> "read", left |-> l, count |-> n, able |-> k] : l \in {0, 2, 4}, n \in {0, 1, 4, 5}, k \in [1 .. 5 -> {-1, 1, 3}]}
    \cup {[fn |-> "write", count |-> n, able |-> k] : n \in {0, 1, 4, 5}, k \in [1 .. 5 -> {-1, 0, 1, 3}]}
Shuffles ==
  {[fn |-> "permute", p |-> <<2, 0, 1>>, draws |-> d, flag |-> f] : d \in [1 .. 3 -> (0 .. 2) \X (0 .. 2)], f \in {0, 1}}
    \cup {[fn |-> "permute", p |-> [i \in 1 .. 10 |-> 10 - i], draws |-> d, flag |-> 0] : d \in [1 .. 2 -> (0 .. 6) \X (0 .. 6)]}
    \cup {[fn |-> "fine", p |-> <<2, 0, 1>>, draws |-> d, flag |-> f] : d \in [1 .. 3 -> 0 .. 2], f \in {0, 1}}

KernelCalls ==
  {[fn |-> "kernel", n |-> n, incx |-> k, x |-> x, y |-> <<2, -1, 1>>, alpha |-> 3] : n \in {0, 1, 3}, k \in {1, 2}, x \in [1 .. 5 -> {-2, 0, 1}]}
    \cup {[fn |-> "nth", n |-> 3, incx |-> i, x |-> x, k |-> k] : i \in {1, 2}, k \in 1 .. 3, x \in [1 .. 5 -> 1 .. 2]}
    \cup {[fn |-> "invert", array |-> a, range |-> 3] : a \in Upto(4, 0 .. 2)}
    \cup {[fn |-> "copy", str |-> s, fault |-> f, exits |-> x] : s \in {NULL, <<>>, <<5>>, <<5, 6, 5, 6, 5>>, <<1, 2, 3, 4, 5, 6, 1, 2, 3>>}, f \in BOOLEAN, x \in BOOLEAN}
    \cup {[fn |-> "rank", maxN |-> m, list |-> [i \in DOMAIN v |-> [key |-> k[i], val |-> v[i]]]] :
            m \in 1 .. 3, v \in Upto(5, {1, -1}) \ {<<>>}, k \in {<<5, 4, 3, 2, 1>>, <<3, 3, 2, 1, 1>>, <<2, 2, 2, 1, 1>>, <<1, 1, 1, 1, 1>>}}

MCCallsMade ==
  ReplaceCalls \cup Transfers \cup Shuffles \cup KernelCalls
    \cup {[fn |-> "base64", bytes |-> b] : b \in Upto(3, {0, 1, 3, 15, 16, 63, 64, 170, 255}) \cup {<<1, 2, 3, 253, 254, 255>>}}
    \cup {[fn |-> "queue2", maxnodes |-> n, keys |-> k \o <<0, 0, 0, 0, 0>>] : n \in {2, 5}, k \in [1 .. 5 -> -1 .. 3]}
    \cup {[fn |-> "matrix", ndim1 |-> n, ndim2 |-> m, elmlen |-> e, fault |-> f, exits |-> x] :
            n \in 0 .. 5, m \in {0, 3}, e \in {1, 4}, f \in -1 .. 5, x \in BOOLEAN}
    \cup {[fn |-> "create", maxnodes |-> n, fault |-> f, exits |-> x] :
            n \in {0, 4, 5}, f \in {"none", "queue", "trap", "inner trap", "heap", "locator", "keys", "vals"}, x \in BOOLEAN}
    \cup {[fn |-> "translate", str |-> s, from |-> f, to |-> t] :
            s \in Upto(3, {5, 6}), f \in Upto(2, {5, 6}), t \in Upto(2, {5, 6})}
    \cup {[fn |-> "prune", str |-> s, list |-> l] : s \in Upto(4, {4, 5}), l \in {<<>>, <<4>>, <<5, 4>>}}
    \cup {[fn |-> "compare", str |-> s, with |-> t] : s \in Upto(2, {5, 6, 15}), t \in Upto(2, {5, 6, 15})}
    \cup {[fn |-> "case", str |-> s] : s \in Upto(3, {4, 5, 15})}
    \cup {[fn |-> "id", str |-> s, map |-> <<[name |-> <<5>>, id |-> 0], [name |-> <<6, 15>>, id |-> 1]>>] : s \in Upto(2, {5, 6, 15})}
    \cup {[fn |-> "path", str |-> s] : s \in Upto(4, {1, 2, 5})}
    \cup {[fn |-> "tokens", str |-> s, delim |-> d, fault |-> f] :
            s \in Upto(5, {4, 5}) \cup {<<5, 4, 5, 4, 5, 4, 5>>, NULL}, d \in {<<>>, <<4>>, <<4, 5>>, NULL}, f \in {"none", "strbuf", "list"}}
    \cup {[fn |-> "stats", str |-> s, reads |-> r] : s \in Upto(5, {3, 4, 5}) \cup {NULL}, r \in {NULL, 0, 1}}
    \cup {[fn |-> f, cand |-> [p \in DOMAIN k |-> [val |-> p, key |-> <<k[p], 1>>]], topk |-> t] :
            f \in {"largest", "smallest"}, k \in Upto(4, {1, 2, 3}) \cup {<<2, 1, 3, 2, 4>>, <<1, 2, 3, 4, 5>>, <<1, 1, 2, 1, 1>>}, t \in 0 .. 4}

(* Matrices of three rows and two columns, queries of one and two columns, *)
(* one of them a column that the matrix does not have.                     *)
Table(cells) == [c \in (0 .. 2) \X (0 .. 1) |-> IF c \in cells THEN 1 + ((c[1] + c[2]) % 2) ELSE 0]
MCTables == {Table(cells) : cells \in {s \in SUBSET ((0 .. 2) \X (0 .. 1)) : Cardinality(s) \in {3, 5}}}
              \cup {Table({}), Table({<<1, 0>>}), [c \in {0} \X (0 .. 3) |-> IF c[2] = 2 THEN 0 ELSE 2],
                    [c \in {0} \X {0, 1} |-> IF c[2] = 0 THEN -2 ELSE 1]}
MCPresent == {{"ROW", "COL"}, {"ROW"}}
MCOthers == {[c \in {0} \X (0 .. 1) |-> 2], [c \in {0, 1} \X {1} |-> 1]}

Queries == {<<<<0, 1>>>>, <<<<1, 2>>, <<0, 1>>>>, <<<<0, 1>>, <<4, 1>>>>}
Wanted == {<<-1, <<0, 1>>>>, <<1, <<0, 1>>>>, <<2, <<1, 2>>>>, <<1, <<2, 1>>>>}
MCSearches ==
  {[q |-> asked, simtype |-> t, nsim |-> w[1], minsim |-> w[2]] : asked \in Queries, t \in SimTypes \cup {"DOTP"}, w \in Wanted}
    \cup {[q |-> asked, simtype |-> t, nsim |-> 1, minsim |-> <<1, 2>>] : asked \in {<<>>, <<<<0, 1>>>>}, t \in {"COS", "OTHER"}}

-----------------------------------------------------------------------------
VARIABLE used
vars == <<used, queueVars, cacheVars, recoveryVars, outputVars, callVars, itemsetVars, similarVars>>

R(minfreq, maxfreq, minlen, maxlen) == [minfreq |-> minfreq, maxfreq |-> maxfreq, minlen |-> minlen, maxlen |-> maxlen]
MCRequests == {R(1, -1, 1, -1), R(2, -1, 2, -1), R(1, 2, 1, 2)}

NoCall == Asked([fn |-> "id", str |-> <<>>, map |-> <<>>])
NoItemsets ==
  /\ tranind = <<>> /\ params = R(0, 0, 0, 0) /\ rmarker = <<>> /\ levels = Entered /\ pattern = <<>> /\ found = <<>>
NoMatrix ==
  /\ mat = [sums |-> [view \in Views |-> NoArray], norms |-> [view \in Views |-> NoArray]]
  /\ marker = <<>> /\ last = [fn |-> "none"] /\ calls = 0

Init ==
  /\ used \in Used
  /\ QueueInit /\ CacheInit /\ RecoveryInit /\ OutputInit
  /\ used # "recovery" => mask = FirstMask
  /\ used # "output" => dest = Absent
  /\ IF used = "call" THEN CallInit ELSE job = NoCall
  /\ IF used = "itemsets" THEN ItemsetInit ELSE NoItemsets
  /\ IF used = "similar" THEN SimilarInit ELSE NoMatrix

Next ==
  \/ used = "queue" /\ QueueNext /\ UNCHANGED <<used, cacheVars, recoveryVars, outputVars, callVars, itemsetVars, similarVars>>
  \/ used = "cache" /\ CacheNext /\ UNCHANGED <<used, queueVars, recoveryVars, outputVars, callVars, itemsetVars, similarVars>>
  \/ used = "recovery" /\ RecoveryNext /\ UNCHANGED <<used, queueVars, cacheVars, outputVars, callVars, itemsetVars, similarVars>>
  \/ used = "output" /\ OutputNext /\ UNCHANGED <<used, queueVars, cacheVars, recoveryVars, callVars, itemsetVars, similarVars>>
  \/ used = "call" /\ CallNext /\ UNCHANGED <<used, queueVars, cacheVars, recoveryVars, outputVars, itemsetVars, similarVars>>
  \/ used = "itemsets" /\ ItemsetNext /\ UNCHANGED <<used, queueVars, cacheVars, recoveryVars, outputVars, callVars, similarVars>>
  \/ used = "similar" /\ SimilarNext /\ UNCHANGED <<used, queueVars, cacheVars, recoveryVars, outputVars, callVars, itemsetVars>>
  \/ used = "recovery" /\ ~alive /\ UNCHANGED vars
  \/ used = "call" /\ job.pc \in {"done", "freed"} /\ UNCHANGED vars
  \/ used = "itemsets" /\ levels = <<>> /\ UNCHANGED vars
  \/ used = "similar" /\ ~Ready /\ UNCHANGED vars

Spec == Init /\ [][Next]_vars
=============================================================================
