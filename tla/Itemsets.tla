------------------------------ MODULE Itemsets ------------------------------
(***************************************************************************)
(* gk_find_frequent_itemsets (src/src/itemsets.c): the sets of items that  *)
(* often occur together, found depth first. Every level works on the       *)
(* projection of the transactions on the items chosen so far: a list of    *)
(* columns, each an item and its transactions. All levels share the marks  *)
(* of the transactions.                                                    *)
(***************************************************************************)
EXTENDS Integers, SequencesExt, FiniteSetsExt

CONSTANTS
  Trans,       \* the transactions, 0 .. ntrans-1
  Items,       \* the items they may have, naturals
  Requests     \* records of minfreq, maxfreq, minlen, maxlen; -1 is no limit

VARIABLES
  tranind,     \* the items of each transaction
  params,
  rmarker,
  levels,      \* the activations of itemsets_find_frequent_itemsets, innermost last
  pattern,     \* the prefix array
  found        \* the calls of process_itemset
itemsetVars == <<tranind, params, rmarker, levels, pattern, found>>

(* The call is entered; gk_iargmax needs a transaction with an item.       *)
Entered == <<[cols |-> <<>>, i |-> 0]>>
ItemsetInit ==
  /\ tranind \in [Trans -> SUBSET Items] /\ UNION {tranind[t] : t \in Trans} # {}
  /\ params \in {[minfreq |-> r.minfreq, minlen |-> r.minlen,
                  maxfreq |-> IF r.maxfreq = -1 THEN Cardinality(Trans) ELSE r.maxfreq,
                  maxlen  |-> IF r.maxlen = -1 THEN Max(UNION {tranind[t] : t \in Trans}) + 1 ELSE r.maxlen] : r \in Requests}
  /\ rmarker = [t \in Trans |-> 0] /\ levels = Entered /\ pattern = <<>> /\ found = <<>>

(* The columns of the transactions as gk_csr_CreateIndex gives them.       *)
InOrder(S) == SetToSortSeq(S, LAMBDA a, b : a < b)
Columns ==
  [c \in 1 .. Max(UNION {tranind[t] : t \in Trans}) + 1 |->
     [id |-> c - 1, trans |-> InOrder({t \in Trans : c - 1 \in tranind[t]})]]

(* The projection on column cid: of the columns after it, what is left in  *)
(* the marked transactions, when that is often enough and not too often,   *)
(* by increasing length; columns of equal length in any order.             *)
Marked(marks, trans, mark) == [t \in Trans |-> IF t \in ToSet(trans) THEN mark ELSE marks[t]]
Kept(column, marks) == [column EXCEPT !.trans = SelectSeq(@, LAMBDA t : marks[t] = 1)]
Candidates(cols, cid, marks) ==
  {Kept(cols[c], marks) : c \in {c \in cid + 1 .. Len(cols) : Len(Kept(cols[c], marks).trans) \in params.minfreq .. params.maxfreq}}
Sorted(cands) ==
  {cols \in SetToSeqs(cands) : \A a, b \in DOMAIN cols : a < b => Len(cols[a].trans) <= Len(cols[b].trans)}
BugProjectKeepsMarks(cols, cid, kept, rest) ==
  /\ \E pmat \in Sorted(Candidates(cols, cid, Marked(rmarker, kept, 1))) :
       levels' = Append(rest, [cols |-> pmat, i |-> 1])
  /\ rmarker' = IF cid = 0 THEN rmarker ELSE Marked(rmarker, kept, 1)
itemsets_project_matrix(cols, cid, kept, rest) ==
  /\ \E pmat \in Sorted(Candidates(cols, cid, Marked(rmarker, kept, 1))) :
       levels' = Append(rest, [cols |-> pmat, i |-> 1])
  /\ rmarker' = Marked(Marked(rmarker, kept, 1), kept, 0)

gk_find_frequent_itemsets ==
  /\ levels = Entered
  /\ itemsets_project_matrix(Columns, 0, InOrder(Trans), <<>>)
  /\ pattern' = [p \in DOMAIN levels'[1].cols |-> -1]
  /\ UNCHANGED <<tranind, params, found>>

(* One turn of the loop of the innermost activation, with the call of      *)
(* process_itemset; and its return.                                        *)
Level == Last(levels)
Column == Level.cols[Level.i]
Resumed(front) ==
  IF front = <<>> THEN front ELSE Append(Front(front), [Last(front) EXCEPT !.i = @ + 1])
Chosen == SubSeq(pattern', 1, Len(levels))
itemsets_find_frequent_itemsets ==
  /\ levels \notin {<<>>, Entered} /\ Level.i <= Len(Level.cols)
  /\ pattern' = [pattern EXCEPT ![Len(levels)] = Column.id]
  /\ found' = IF Len(levels) >= params.minlen
              THEN Append(found, [items |-> Chosen, trans |-> Column.trans]) ELSE found
  /\ IF Len(levels) < params.maxlen
     THEN itemsets_project_matrix(Level.cols, Level.i, Column.trans, levels)
     ELSE levels' = Resumed(levels) /\ UNCHANGED rmarker
  /\ UNCHANGED <<tranind, params>>
LevelReturns ==
  /\ levels \notin {<<>>, Entered} /\ Level.i > Len(Level.cols)
  /\ levels' = Resumed(Front(levels))
  /\ UNCHANGED <<tranind, params, rmarker, pattern, found>>

ItemsetNext == gk_find_frequent_itemsets \/ itemsets_find_frequent_itemsets \/ LevelReturns
ItemsetSpec == ItemsetInit /\ [][ItemsetNext]_itemsetVars

-----------------------------------------------------------------------------
(* At the end process_itemset was called once for each set of items of a   *)
(* length asked for that occurs often enough and has no item that occurs   *)
(* too often, with the transactions that have all its items; and never in  *)
(* the meantime for another (itemsets.c:77, :125).                         *)
Together(items) == {t \in Trans : items \subseteq tranind[t]}
Frequent ==
  {s \in SUBSET (0 .. Max(UNION {tranind[t] : t \in Trans})) :
     /\ s # {} /\ Cardinality(s) \in params.minlen .. params.maxlen
     /\ Cardinality(Together(s)) >= params.minfreq
     /\ \A i \in s : Cardinality(Together({i})) <= params.maxfreq}
ItemsetsRight ==
  /\ \A k \in DOMAIN found :
       /\ ToSet(found[k].items) \in Frequent
       /\ found[k].trans = InOrder(Together(ToSet(found[k].items)))
       /\ IsInjective(found[k].items)
       /\ \A l \in DOMAIN found : ToSet(found[l].items) = ToSet(found[k].items) => l = k
  /\ levels = <<>> => {ToSet(found[k].items) : k \in DOMAIN found} = Frequent
=============================================================================
