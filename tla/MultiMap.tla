------------------------------ MODULE MultiMap ------------------------------
(***************************************************************************)
(* What the hash table of GKlib promises its callers, without its slots: a *)
(* bag of key/value pairs. A key may have several values; a search returns *)
(* one of them and a removal takes one of them away.                       *)
(***************************************************************************)
EXTENDS Integers

CONSTANTS
  Key,      \* the keys a caller may insert
  Val       \* the values a caller may insert

VARIABLES
  bag,      \* how many times each pair is held
  last      \* the last call: what it was asked and what it returned

mvars == <<bag, last>>

Absent == -1
Empty == [p \in Key \X Val |-> 0]
Values(k) == {v \in Val : bag[<<k, v>>] > 0}
Less(k, v) == [bag EXCEPT ![<<k, v>>] = @ - 1]
Reply(op, k, r) == [op |-> op, key |-> k, ret |-> r]

Init == bag = Empty /\ last = Reply("keep", 0, Absent)

Insert(k, v) ==
  /\ bag' = [bag EXCEPT ![<<k, v>>] = @ + 1]
  /\ last' = Reply("insert", k, v)

(* Removing a key that is not held does nothing.                           *)
Delete(k) ==
  /\ IF Values(k) = {} THEN bag' = bag ELSE \E v \in Values(k) : bag' = Less(k, v)
  /\ last' = Reply("delete", k, Absent)

Search(k) ==
  /\ IF Values(k) = {} THEN last' = Reply("search", k, Absent)
     ELSE \E v \in Values(k) : last' = Reply("search", k, v)
  /\ UNCHANGED bag

(* The value returned is the value removed.                                *)
Take(k) ==
  IF Values(k) = {} THEN bag' = bag /\ last' = Reply("take", k, Absent)
  ELSE \E v \in Values(k) : bag' = Less(k, v) /\ last' = Reply("take", k, v)

Clear == bag' = Empty /\ last' = Reply("clear", 0, Absent)

(* A call that fails, and one that only rearranges the table, keeps the    *)
(* pairs.                                                                  *)
Keep == bag' = bag /\ last' = Reply("keep", 0, Absent)

Next ==
  \/ Clear \/ Keep
  \/ \E k \in Key : Delete(k) \/ Search(k) \/ Take(k) \/ \E v \in Val : Insert(k, v)

Spec == Init /\ [][Next]_mvars
=============================================================================
