------------------------------- MODULE LRUSets -------------------------------
(***************************************************************************)
(* A set-associative cache with least-recently-used replacement, as a      *)
(* textbook defines it: at most NWay lines of each set are held, and they  *)
(* are ordered by their last loads.                                        *)
(***************************************************************************)
EXTENDS Integers, FiniteSets

CONSTANTS
  NWay,     \* lines in a set
  CSize,    \* how many sets there are
  Line      \* the line numbers of the addresses a caller loads

VARIABLES
  held,     \* the lines in the cache
  before,   \* the pairs <<l, m>> of held lines, l last loaded before m
  nhits,
  nmisses

lvars == <<held, before, nhits, nmisses>>

Init == held = {} /\ before = {} /\ nhits = 0 /\ nmisses = 0

(* The held lines that compete with a line for the places of its set.      *)
Rivals(line) == {l \in held : l % CSize = line % CSize}

(* A line not held evicts, from a set that is full, the line that no other *)
(* line of the set was loaded before.                                      *)
Evicted(line) ==
  IF line \in held \/ Cardinality(Rivals(line)) < NWay THEN {}
  ELSE {l \in Rivals(line) : \A m \in Rivals(line) : <<m, l>> \notin before}

Load(line) ==
  LET kept == (held \ Evicted(line)) \ {line}
  IN /\ held' = kept \cup {line}
     /\ before' = (before \cap (kept \X kept)) \cup (kept \X {line})
     /\ nhits' = nhits + (IF line \in held THEN 1 ELSE 0)
     /\ nmisses' = nmisses + (IF line \in held THEN 0 ELSE 1)

Clear == held' = {} /\ before' = {} /\ nhits' = 0 /\ nmisses' = 0

Next == Clear \/ \E line \in Line : Load(line)
Spec == Init /\ [][Next]_lvars
=============================================================================
