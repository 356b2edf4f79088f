------------------------------- MODULE Select -------------------------------
(***************************************************************************)
(* gk_dfkvkselect and gk_ifkvkselect (src/src/fkvkselect.c): the topk      *)
(* largest, or smallest, of an array of keys with values are brought to    *)
(* its front. A key is a fraction of integers <<num, den>>, den > 0.       *)
(***************************************************************************)
EXTENDS Integers, SequencesExt

AtLeast(a, b) == a[1] * b[2] >= b[1] * a[2]
Above(a, b) == ~AtLeast(b, a)
Swapped(s, a, b) == [s EXCEPT ![a] = s[b], ![b] = s[a]]

(* Of the first, middle and last of a range the one in the middle by key,  *)
(* as the pivot is chosen; places are those of the array in C, plus one.   *)
Median(cand, lo, hi) ==
  LET mid == lo + (hi - lo) \div 2
      least == IF Above(cand[mid].key, cand[lo].key) THEN lo ELSE mid
  IN IF ~Above(cand[hi].key, cand[least].key) THEN least
     ELSE IF Above(cand[hi].key, cand[lo].key) THEN lo ELSE hi

(* The keys of the range that are at least the pivot go before it.         *)
Partition(cand, lo, hi) ==
  LET c == Swapped(cand, Median(cand, lo, hi), hi)
      move(s, j) == IF AtLeast(s.c[j].key, c[hi].key) THEN [c |-> Swapped(s.c, s.i, j), i |-> s.i + 1] ELSE s
      end == FoldLeft(move, [c |-> c, i |-> lo], [k \in 1 .. hi - lo |-> lo + k - 1])
  IN [cand |-> Swapped(end.c, end.i, hi), at |-> end.i]

Narrowed(s, topk) ==
  LET part == Partition(s.cand, s.lo, s.hi)
  IN [cand |-> part.cand,
      lo |-> IF part.at < topk + 1 THEN part.at + 1 ELSE s.lo,
      hi |-> IF part.at > topk + 1 THEN part.at - 1 ELSE IF part.at < topk + 1 THEN s.hi ELSE s.lo]
gk_dfkvkselect(cand, topk) ==
  LET turn[k \in Nat] ==
        IF k = 0 THEN [cand |-> cand, lo |-> 1, hi |-> Len(cand)]
        ELSE IF turn[k - 1].lo < turn[k - 1].hi THEN Narrowed(turn[k - 1], topk) ELSE turn[k - 1]
  IN IF Len(cand) <= topk THEN cand ELSE turn[Len(cand)].cand

(* The same with every comparison turned round.                            *)
Opposite(cand) == [p \in DOMAIN cand |-> [cand[p] EXCEPT !.key = <<-@[1], @[2]>>]]
gk_ifkvkselect(cand, topk) == Opposite(gk_dfkvkselect(Opposite(cand), topk))
=============================================================================
