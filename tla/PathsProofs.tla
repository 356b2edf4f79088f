----------------------------- MODULE PathsProofs -----------------------------
(***************************************************************************)
(* Proofs about Paths, for every set of calls with every path, every finite*)
(* tree and everything that other programs do to it meanwhile.             *)
(*                                                                         *)
(* The invariant says where a call of gk_rmpath is (Working), that each    *)
(* directory it has open was in the tree it removes (Opens), and that what *)
(* it will find at its path, or in a directory that was in that tree, is in*)
(* it (Holds). It is inductive because what is remembered is closed under  *)
(* going down in the tree of the moment (BelowLaws).                       *)
(*                                                                         *)
(* The model looks paths up, takes them apart and goes down trees with     *)
(* recursive functions. That such a function exists is proved first: from  *)
(* steps counted by numbers (CarriedOn), or, for Below, as the least closed*)
(* set, and that the function grows to a closed set by the nodes left.     *)
(***************************************************************************)
EXTENDS Paths, FiniteSetTheorems, SequenceTheorems, WellFoundedInduction, TLAPS

(* Sets of numbers: the least member, and induction.                       *)
LEMMA LeastExists ==
  ASSUME NEW T \in SUBSET Nat, T # {}
  PROVE  \E m \in T : \A k \in T : m <= k
<1>1. PICK k \in T : \A l \in T : <<l, k>> \notin OpToRel(<, Nat)
  BY NatLessThanWellFounded, WFMin
<1>2. \A l \in T : ~ (l < k)
  BY <1>1 DEF OpToRel
<1> QED BY <1>2

LEMMA Inductive ==
  ASSUME NEW S, 0 \in S, \A n \in Nat : n \in S => n + 1 \in S
  PROVE  Nat \subseteq S
<1> DEFINE T == {n \in Nat : n \notin S}
<1> SUFFICES ASSUME NEW n \in T PROVE FALSE
  OBVIOUS
<1>1. PICK m \in T : \A k \in T : m <= k
  BY LeastExists
<1>2. m \in Nat /\ m # 0 /\ m \notin S
  OBVIOUS
<1>3. m - 1 \in Nat /\ m - 1 \notin T
  BY <1>1, <1>2
<1>4. m - 1 + 1 \in S
  BY <1>3
<1> QED BY <1>2, <1>4

(* A value that is carried on from step to step, as a function of the step.*)
Carries(V, x, step, f, n) ==
  f \in [0 .. n -> V] /\ f[0] = x /\ \A k \in 1 .. n : f[k] = step[<<k, f[k - 1]>>]

LEMMA CarriedOn ==
  ASSUME NEW V, NEW x \in V, NEW step \in [Nat \X V -> V]
  PROVE  \A n \in Nat : \E f : Carries(V, x, step, f, n)
<1> DEFINE Carried(f, n) == f[0] = x /\ \A k \in 1 .. n : f[k] = step[<<k, f[k - 1]>>]
           S == {n \in Nat : \E f \in [0 .. n -> V] : Carried(f, n)}
<1>1. 0 \in S
  <2> DEFINE f == [k \in 0 .. 0 |-> x]
  <2>1. f \in [0 .. 0 -> V] /\ Carried(f, 0)
    OBVIOUS
  <2> HIDE DEF f, Carried
  <2> QED BY <2>1
<1>2. ASSUME NEW n \in Nat, n \in S PROVE n + 1 \in S
  <2>1. PICK f \in [0 .. n -> V] : Carried(f, n)
    BY <1>2
  <2> DEFINE y == step[<<n + 1, f[n]>>]
             g == [k \in 0 .. n + 1 |-> IF k = n + 1 THEN y ELSE f[k]]
  <2>2. y \in V
    OBVIOUS
  <2> HIDE DEF y
  <2>3. g \in [0 .. n + 1 -> V] /\ g[n + 1] = y /\ \A k \in 0 .. n : g[k] = f[k]
    BY <2>2
  <2> HIDE DEF g
  <2>4. ASSUME NEW k \in 1 .. n + 1 PROVE g[k] = step[<<k, g[k - 1]>>]
    <3>1. CASE k = n + 1
      <4>1. g[k - 1] = f[n]
        BY <2>3, <3>1
      <4> QED BY <2>3, <3>1, <4>1 DEF y
    <3>2. CASE k # n + 1
      <4>1. k \in 1 .. n /\ k - 1 \in 0 .. n /\ k \in 0 .. n
        BY <3>2
      <4> QED BY <2>1, <2>3, <4>1
    <3> QED BY <3>1, <3>2
  <2>5. g[0] = x
    BY <2>1, <2>3
  <2> QED BY <2>3, <2>4, <2>5
<1> HIDE DEF S
<1>3. Nat \subseteq S
  BY <1>1, <1>2, Inductive
<1> QED BY <1>3 DEF S, Carries
-----------------------------------------------------------------------------
Parts == Name \cup {"", ".", ".."}
Place == Node \cup {NoNode}

(* A component leads to a node or to none; a name leads to an entry.       *)
LEMMA LookupType ==
  ASSUME NEW t \in Tree, NEW d \in Place, NEW c \in Parts
  PROVE  Lookup(t, d, c) \in Place
<1>1. CASE ~IsDir(t, d) \/ c \in {"", "."}
  BY <1>1 DEF Lookup, Place
<1>2. CASE IsDir(t, d) /\ c = ".."
  <2>1. Holders(t, d) # {} => (CHOOSE u \in Holders(t, d) : TRUE) \in Holders(t, d)
    OBVIOUS
  <2>2. Holders(t, d) \subseteq Node
    BY DEF Holders
  <2> QED BY <1>2, <2>1, <2>2 DEF Lookup, Place
<1>3. CASE IsDir(t, d) /\ c \notin {"", ".", ".."}
  <2>1. c \in Name /\ d \in Node
    BY <1>3 DEF Parts, Place, IsDir
  <2>2. t.entry[d][c] \in Place
    BY <2>1 DEF Tree, Place
  <2> QED BY <1>3, <2>2 DEF Lookup
<1> QED BY <1>1, <1>2, <1>3

LEMMA LookupName ==
  ASSUME NEW t, NEW d, NEW c \in Name, Lookup(t, d, c) # NoNode
  PROVE  IsDir(t, d) /\ Lookup(t, d, c) = t.entry[d][c]
BY TreeConstants DEF Lookup

(* ReachPlain is a recursive function of the component and the node reached*)
(* so far. It exists, and stays in the tree.                               *)
Plainly(t, cs, f) ==
  f = [e \in (1 .. Len(cs) + 1) \X Place |->
         IF e[1] > Len(cs) THEN e[2] ELSE f[<<e[1] + 1, Lookup(t, e[2], cs[e[1]])>>]]

LEMMA PlainlyExists ==
  ASSUME NEW t \in Tree, NEW cs \in Seq(Parts)
  PROVE  \E f : Plainly(t, cs, f)
<1> DEFINE N == Len(cs)
           V == [Place -> Place]
           step == [e \in Nat \X V |-> [n \in Place |->
                      IF N + 1 - e[1] \in 1 .. N THEN e[2][Lookup(t, n, cs[N + 1 - e[1]])] ELSE n]]
           x == [n \in Place |-> n]
<1>1. N \in Nat /\ \A k \in 1 .. N : cs[k] \in Parts
  OBVIOUS
<1>2. x \in V
  OBVIOUS
<1>3. step \in [Nat \X V -> V]
  <2>1. ASSUME NEW e \in Nat \X V, NEW n \in Place
        PROVE  (IF N + 1 - e[1] \in 1 .. N THEN e[2][Lookup(t, n, cs[N + 1 - e[1]])] ELSE n) \in Place
    BY <1>1, LookupType
  <2> QED BY <2>1
<1> HIDE DEF V, x, step
<1>4. PICK g \in [0 .. N -> V] : g[0] = x /\ \A k \in 1 .. N : g[k] = step[<<k, g[k - 1]>>]
  <2>1. \A n \in Nat : \E g : Carries(V, x, step, g, n)
    BY <1>2, <1>3, CarriedOn
  <2> QED BY <1>1, <2>1 DEF Carries
<1> DEFINE f == [e \in (1 .. N + 1) \X Place |-> g[N + 1 - e[1]][e[2]]]
<1>5. ASSUME NEW e \in (1 .. N + 1) \X Place
      PROVE  f[e] = IF e[1] > N THEN e[2] ELSE f[<<e[1] + 1, Lookup(t, e[2], cs[e[1]])>>]
  <2>1. e[1] \in 1 .. N + 1 /\ e[2] \in Place /\ f[e] = g[N + 1 - e[1]][e[2]]
    OBVIOUS
  <2>2. CASE e[1] > N
    <3>1. N + 1 - e[1] = 0
      BY <1>1, <2>1, <2>2
    <3> QED BY <1>4, <2>1, <2>2, <3>1 DEF x
  <2>3. CASE ~ (e[1] > N)
    <3> DEFINE k == N + 1 - e[1]
               u == Lookup(t, e[2], cs[e[1]])
    <3>1. k \in 1 .. N /\ k - 1 \in 0 .. N /\ N + 1 - k = e[1] /\ e[1] \in 1 .. N /\ k \in Nat
          /\ N + 1 - (e[1] + 1) = k - 1 /\ e[1] + 1 \in 1 .. N + 1
      BY <1>1, <2>1, <2>3
    <3>2. u \in Place
      BY <1>1, <2>1, <3>1, LookupType
    <3>3. g[k] = step[<<k, g[k - 1]>>] /\ g[k - 1] \in V
      BY <1>4, <3>1
    <3>4. step[<<k, g[k - 1]>>][e[2]] = g[k - 1][u]
      BY <2>1, <3>1, <3>3 DEF step
    <3>5. f[<<e[1] + 1, u>>] = g[k - 1][u]
      BY <3>1, <3>2
    <3> QED BY <2>1, <2>3, <3>3, <3>4, <3>5
  <2> QED BY <2>2, <2>3
<1>6. DOMAIN f = (1 .. N + 1) \X Place /\ f = [e \in DOMAIN f |-> f[e]]
  OBVIOUS
<1> HIDE DEF f
<1>7. Plainly(t, cs, f)
  BY <1>5, <1>6 DEF Plainly
<1> QED BY <1>7

(* A path of one component is that component, looked up.                   *)
LEMMA PlainLaws ==
  ASSUME NEW t \in Tree, NEW d \in Place, NEW cs \in Seq(Parts)
  PROVE  /\ ReachPlain(t, d, cs) \in Place
         /\ Len(cs) = 1 => ReachPlain(t, d, cs) = Lookup(t, d, cs[1])
<1> DEFINE N == Len(cs)
           f == CHOOSE h : Plainly(t, cs, h)
<1>1. ReachPlain(t, d, cs) = f[<<1, d>>]
  BY DEF ReachPlain, Plainly, Place
<1>2. Plainly(t, cs, f)
  BY PlainlyExists
<1> HIDE DEF f
<1>3. N \in Nat /\ \A k \in 1 .. N : cs[k] \in Parts
  OBVIOUS
<1>4. \A k \in 1 .. N + 1, n \in Place :
        f[<<k, n>>] = IF k > N THEN n ELSE f[<<k + 1, Lookup(t, n, cs[k])>>]
  BY <1>2 DEF Plainly
<1> DEFINE S == {i \in Nat : i <= N => \A n \in Place : f[<<N + 1 - i, n>>] \in Place}
<1>5. 0 \in S
  <2>1. N + 1 - 0 = N + 1 /\ N + 1 \in 1 .. N + 1 /\ N + 1 > N
    BY <1>3
  <2> QED BY <1>4, <2>1
<1>6. ASSUME NEW i \in Nat, i \in S PROVE i + 1 \in S
  <2> SUFFICES ASSUME i + 1 <= N, NEW n \in Place PROVE f[<<N + 1 - (i + 1), n>>] \in Place
    OBVIOUS
  <2>1. N - i \in 1 .. N + 1 /\ ~ (N - i > N) /\ N - i \in 1 .. N /\ N + 1 - (i + 1) = N - i
        /\ (N - i) + 1 = N + 1 - i /\ i <= N
    BY <1>3
  <2>2. Lookup(t, n, cs[N - i]) \in Place
    BY <1>3, <2>1, LookupType
  <2>3. f[<<N - i, n>>] = f[<<(N - i) + 1, Lookup(t, n, cs[N - i])>>]
    BY <1>4, <2>1
  <2> QED BY <1>6, <2>1, <2>2, <2>3
<1> HIDE DEF S
<1>7. N \in S
  BY <1>3, <1>5, <1>6, Inductive
<1>8. f[<<1, d>>] \in Place
  <2>1. N + 1 - N = 1 /\ N <= N
    BY <1>3
  <2> QED BY <1>7, <2>1 DEF S
<1>9. ASSUME N = 1 PROVE f[<<1, d>>] = Lookup(t, d, cs[1])
  <2>1. Lookup(t, d, cs[1]) \in Place
    BY <1>3, <1>9, LookupType
  <2>2. 1 \in 1 .. N + 1 /\ ~ (1 > N) /\ 2 \in 1 .. N + 1 /\ 2 > N /\ 1 + 1 = 2
    BY <1>9
  <2>3. f[<<1, d>>] = f[<<2, Lookup(t, d, cs[1])>>]
    BY <1>4, <2>2
  <2> QED BY <1>4, <2>1, <2>2, <2>3
<1> QED BY <1>1, <1>8, <1>9

(* Below is a recursive function of a set of nodes. Closed sets that hold  *)
(* the set say what it can be: their intersection solves the recursion, and*)
(* as it grows only while there are nodes left, whatever solves it is      *)
(* closed.                                                                 *)
Within(t, U) == {t.entry[e[1]][e[2]] : e \in U \X Name} \ {NoNode}
Complete(t, U) == \A n \in U, m \in Name : t.entry[n][m] \in U \cup {NoNode}
Grows(t, f) ==
  f = [U \in SUBSET Node |-> IF U \cup Within(t, U) = U THEN U ELSE f[U \cup Within(t, U)]]

(* One turn of going down stays in the nodes and in every closed set, and  *)
(* changes nothing exactly when the set is closed.                         *)
LEMMA WithinIs ==
  ASSUME NEW t \in Tree, NEW U \in SUBSET Node
  PROVE  /\ U \cup Within(t, U) \in SUBSET Node
         /\ U \cup Within(t, U) = U <=> Complete(t, U)
         /\ \A W \in SUBSET Node : U \subseteq W /\ Complete(t, W) => U \cup Within(t, U) \subseteq W
<1>1. \A e \in U \X Name : e[1] \in U /\ e[2] \in Name /\ t.entry[e[1]][e[2]] \in Node \cup {NoNode}
  BY DEF Tree
<1>2. \A n \in U, m \in Name : t.entry[n][m] # NoNode => t.entry[n][m] \in Within(t, U)
  <2> SUFFICES ASSUME NEW n \in U, NEW m \in Name, t.entry[n][m] # NoNode
               PROVE  t.entry[n][m] \in Within(t, U)
    OBVIOUS
  <2>1. <<n, m>> \in U \X Name /\ t.entry[<<n, m>>[1]][<<n, m>>[2]] = t.entry[n][m]
    OBVIOUS
  <2> QED BY <2>1 DEF Within
<1>3. \A u \in Within(t, U) : u # NoNode /\ \E n \in U, m \in Name : u = t.entry[n][m]
  BY <1>1 DEF Within
<1>4. U \cup Within(t, U) \in SUBSET Node
  BY <1>1, <1>3 DEF Tree
<1>5. U \cup Within(t, U) = U <=> Complete(t, U)
  BY <1>2, <1>3 DEF Complete
<1>6. \A W \in SUBSET Node : U \subseteq W /\ Complete(t, W) => U \cup Within(t, U) \subseteq W
  BY <1>3 DEF Complete
<1> QED BY <1>4, <1>5, <1>6

LEMMA GrowsExists ==
  ASSUME NEW t \in Tree
  PROVE  \E f : Grows(t, f)
<1> DEFINE Hull(U) == {n \in Node : \A W \in SUBSET Node : U \subseteq W /\ Complete(t, W) => n \in W}
           f == [U \in SUBSET Node |-> Hull(U)]
<1>1. ASSUME NEW U \in SUBSET Node
      PROVE  f[U] = IF U \cup Within(t, U) = U THEN U ELSE f[U \cup Within(t, U)]
  <2> DEFINE more == U \cup Within(t, U)
  <2>1. more \in SUBSET Node /\ (more = U <=> Complete(t, U)) /\ U \subseteq more
        /\ \A W \in SUBSET Node : U \subseteq W /\ Complete(t, W) => more \subseteq W
    BY WithinIs
  <2> HIDE DEF more
  <2>2. CASE more = U
    <3>1. Hull(U) = U
      BY <2>1, <2>2
    <3> QED BY <2>2, <3>1 DEF more
  <2>3. CASE more # U
    <3>1. Hull(U) = Hull(more)
      BY <2>1
    <3>2. f[U] = Hull(U) /\ f[more] = Hull(more)
      BY <2>1
    <3> QED BY <2>3, <3>1, <3>2 DEF more
  <2> QED BY <2>2, <2>3
<1>2. DOMAIN f = SUBSET Node /\ f = [U \in DOMAIN f |-> f[U]]
  OBVIOUS
<1> HIDE DEF f
<1>3. Grows(t, f)
  BY <1>1, <1>2 DEF Grows
<1> QED BY <1>3

(* What is below a set has the set in it, and all that is in its           *)
(* directories.                                                            *)
LEMMA BelowLaws ==
  ASSUME NEW t \in Tree, NEW S \in SUBSET Node
  PROVE  Below(t, S) \in SUBSET Node /\ S \subseteq Below(t, S) /\ Complete(t, Below(t, S))
<1> DEFINE f == CHOOSE h : Grows(t, h)
           Good(U) == f[U] \in SUBSET Node /\ U \subseteq f[U] /\ Complete(t, f[U])
           Bad == {U \in SUBSET Node : ~ Good(U)}
           Left(U) == Cardinality(Node \ U)
<1>1. Below(t, S) = f[S]
  BY DEF Below, Grows, Within
<1>2. Grows(t, f)
  BY GrowsExists
<1> HIDE DEF f
<1>3. \A U \in SUBSET Node :
        f[U] = IF U \cup Within(t, U) = U THEN U ELSE f[U \cup Within(t, U)]
  BY <1>2 DEF Grows
<1>4. \A U \in SUBSET Node : Left(U) \in Nat /\ IsFiniteSet(Node \ U)
  <2>1. \A U \in SUBSET Node : IsFiniteSet(Node \ U)
    BY TreeConstants, FS_Difference
  <2> QED BY <2>1, FS_CardinalityType
<1>5. ASSUME Bad # {} PROVE FALSE
  <2> DEFINE T == {Left(U) : U \in Bad}
  <2>1. T \in SUBSET Nat /\ T # {}
    BY <1>4, <1>5
  <2> HIDE DEF T
  <2>2. PICK m \in T : \A k \in T : m <= k
    BY <2>1, LeastExists
  <2>3. PICK U \in Bad : \A W \in Bad : Left(U) <= Left(W)
    BY <2>2 DEF T
  <2> DEFINE more == U \cup Within(t, U)
  <2>4. U \in SUBSET Node /\ ~ Good(U)
    BY <2>3
  <2>5. more \in SUBSET Node /\ (more = U <=> Complete(t, U)) /\ U \subseteq more
    BY <2>4, WithinIs
  <2>6. more # U
    BY <1>3, <2>4, <2>5
  <2>7. f[U] = f[more]
    BY <1>3, <2>4, <2>6
  <2> HIDE DEF more
  <2>8. Left(more) < Left(U)
    <3>1. Node \ more \subseteq Node \ U /\ Node \ more # Node \ U
      BY <2>4, <2>5, <2>6
    <3>2. Cardinality(Node \ more) <= Cardinality(Node \ U)
          /\ (Cardinality(Node \ more) = Cardinality(Node \ U) => Node \ more = Node \ U)
      BY <1>4, <2>4, <3>1, FS_Subset
    <3> QED BY <1>4, <2>4, <2>5, <3>1, <3>2
  <2>9. more \notin Bad
    BY <1>4, <2>3, <2>4, <2>5, <2>8
  <2>10. Good(more)
    BY <2>5, <2>9
  <2> QED BY <2>4, <2>5, <2>7, <2>10
<1> QED BY <1>1, <1>5
-----------------------------------------------------------------------------
(* The components of a path, its parts but the empty ones.                 *)
Selects(path, f) ==
  f = [k \in 0 .. Len(path) |->
         IF k = 0 THEN <<>>
         ELSE IF path[k] = "" THEN f[k - 1] ELSE Append(f[k - 1], path[k])]

LEMMA ComponentsType ==
  ASSUME NEW path \in Seq(Parts)
  PROVE  Components(path) \in Seq(Parts \ {""})
<1> DEFINE N == Len(path)
           V == Seq(Parts \ {""})
           step == [e \in Nat \X V |->
                      IF e[1] \in 1 .. N /\ path[e[1]] # "" THEN Append(e[2], path[e[1]]) ELSE e[2]]
           f == CHOOSE h : Selects(path, h)
<1>1. N \in Nat /\ \A k \in 1 .. N : path[k] \in Parts
  OBVIOUS
<1>10. <<>> \in V /\ \A v \in V, c \in Parts : c # "" => Append(v, c) \in V
  <2>1. \A c \in Parts : c # "" => c \in Parts \ {""}
    OBVIOUS
  <2> QED BY <2>1, EmptySeq, AppendProperties
<1> HIDE DEF V
<1>2. step \in [Nat \X V -> V]
  <2>1. ASSUME NEW e \in Nat \X V
        PROVE  (IF e[1] \in 1 .. N /\ path[e[1]] # "" THEN Append(e[2], path[e[1]]) ELSE e[2]) \in V
    <3>1. e[2] \in V /\ (e[1] \in 1 .. N => path[e[1]] \in Parts)
      BY <1>1
    <3> QED BY <3>1, <1>10
  <2> QED BY <2>1
<1>3. \E h : Selects(path, h)
  <2> HIDE DEF step
  <2>1. \A n \in Nat : \E g : Carries(V, <<>>, step, g, n)
    BY <1>2, <1>10, CarriedOn
  <2>2. PICK g \in [0 .. N -> V] : g[0] = <<>> /\ \A k \in 1 .. N : g[k] = step[<<k, g[k - 1]>>]
    BY <1>1, <2>1 DEF Carries
  <2>3. ASSUME NEW k \in 0 .. N
        PROVE  g[k] = IF k = 0 THEN <<>>
                      ELSE IF path[k] = "" THEN g[k - 1] ELSE Append(g[k - 1], path[k])
    <3>1. CASE k = 0
      BY <2>2, <3>1
    <3>2. CASE k # 0
      <4>1. k \in 1 .. N /\ k - 1 \in 0 .. N /\ k \in Nat
        BY <1>1, <3>2
      <4>2. g[k - 1] \in V /\ g[k] = step[<<k, g[k - 1]>>]
        BY <2>2, <4>1
      <4> QED BY <3>2, <4>1, <4>2 DEF step
    <3> QED BY <3>1, <3>2
  <2>4. Selects(path, g)
    BY <2>2, <2>3 DEF Selects
  <2> QED BY <2>4
<1>4. Components(path) = f[N]
  BY DEF Components, Selects
<1>5. Selects(path, f)
  BY <1>3
<1> HIDE DEF f, step
<1>6. \A k \in 0 .. N : f[k] = IF k = 0 THEN <<>>
                               ELSE IF path[k] = "" THEN f[k - 1] ELSE Append(f[k - 1], path[k])
  BY <1>5 DEF Selects
<1> HIDE DEF N
<1> DEFINE S == {k \in Nat : k <= N => f[k] \in V}
<1>7. 0 \in S
  <2>1. 0 \in 0 .. N
    BY <1>1
  <2>2. f[0] = <<>>
    BY <1>6, <2>1
  <2> QED BY <1>10, <2>2
<1>8. ASSUME NEW k \in Nat, k \in S PROVE k + 1 \in S
  <2> SUFFICES ASSUME k + 1 <= N PROVE f[k + 1] \in V
    OBVIOUS
  <2>1. k + 1 \in 0 .. N /\ k + 1 \in 1 .. N /\ k + 1 # 0 /\ k <= N /\ k + 1 - 1 = k
    BY <1>1
  <2>2. f[k] \in V
    BY <1>8, <2>1
  <2>3. f[k + 1] = IF path[k + 1] = "" THEN f[k] ELSE Append(f[k], path[k + 1])
    <3>1. \A m \in 0 .. N : m # 0 /\ m - 1 = k =>
             f[m] = IF path[m] = "" THEN f[k] ELSE Append(f[k], path[m])
      BY <1>6
    <3> DEFINE m == k + 1
    <3>2. m \in 0 .. N /\ m # 0 /\ m - 1 = k
      BY <2>1
    <3> HIDE DEF m
    <3>3. f[m] = IF path[m] = "" THEN f[k] ELSE Append(f[k], path[m])
      BY <3>1, <3>2
    <3> QED BY <3>3 DEF m
  <2>4. path[k + 1] \in Parts
    BY <1>1, <2>1
  <2> QED BY <1>10, <2>2, <2>3, <2>4
<1> HIDE DEF S
<1>9. N \in S
  BY <1>1, <1>7, <1>8, Inductive
<1>11. f[N] \in V
  BY <1>1, <1>9 DEF S
<1> QED BY <1>4, <1>11 DEF V, N
-----------------------------------------------------------------------------
(* The least number of a set is in it.                                     *)
LEMMA MinOf ==
  ASSUME NEW S \in SUBSET Nat, S # {}
  PROVE  Min(S) \in S
BY LeastExists DEF Min

(* Making, removing and renaming an entry: the tree is one again, and only *)
(* what is removed dies.                                                   *)
LEMMA TreeSteps ==
  ASSUME NEW t \in Tree, NEW d, NEW m
  PROVE  /\ \A n \in Node, kind \in Live :
              Put(t, d, m, n, kind) \in Tree /\ Dead(Put(t, d, m, n, kind)) \subseteq Dead(t)
         /\ Cut(t, d, m) \in Tree /\ Dead(Cut(t, d, m)) \subseteq Dead(t) \cup {t.entry[d][m]}
         /\ d \in Node /\ m \in Name =>
              \A u \in Node, l \in Name :
                Move(t, d, m, u, l) \in Tree /\ Dead(Move(t, d, m, u, l)) = Dead(t)
<1>1. /\ t.kind \in [Node -> Live \cup {"free", "dead"}]
      /\ t.entry \in [Node -> [Name -> Node \cup {NoNode}]]
      /\ t = [kind |-> t.kind, entry |-> t.entry]
  BY DEF Tree
<1>2. ASSUME NEW n \in Node, NEW kind \in Live
      PROVE  Put(t, d, m, n, kind) \in Tree /\ Dead(Put(t, d, m, n, kind)) \subseteq Dead(t)
  <2>1. [t.kind EXCEPT ![n] = kind] \in [Node -> Live \cup {"free", "dead"}]
    BY <1>1
  <2>2. [t.entry EXCEPT ![d][m] = n] \in [Node -> [Name -> Node \cup {NoNode}]]
    BY <1>1
  <2>3. kind # "dead"
    BY DEF Live
  <2> QED BY <1>1, <2>1, <2>2, <2>3 DEF Put, Tree, Dead
<1>3. Cut(t, d, m) \in Tree /\ Dead(Cut(t, d, m)) \subseteq Dead(t) \cup {t.entry[d][m]}
  <2>1. [t.kind EXCEPT ![t.entry[d][m]] = "dead"] \in [Node -> Live \cup {"free", "dead"}]
    BY <1>1
  <2>2. [t.entry EXCEPT ![d][m] = NoNode] \in [Node -> [Name -> Node \cup {NoNode}]]
    BY <1>1
  <2> QED BY <1>1, <2>1, <2>2 DEF Cut, Tree, Dead
<1>4. ASSUME d \in Node, m \in Name, NEW u \in Node, NEW l \in Name
      PROVE  Move(t, d, m, u, l) \in Tree /\ Dead(Move(t, d, m, u, l)) = Dead(t)
  <2>1. [[t.entry EXCEPT ![d][m] = NoNode] EXCEPT ![u][l] = t.entry[d][m]]
          \in [Node -> [Name -> Node \cup {NoNode}]]
    <3>1. [t.entry EXCEPT ![d][m] = NoNode] \in [Node -> [Name -> Node \cup {NoNode}]]
      BY <1>1
    <3>2. t.entry[d][m] \in Node \cup {NoNode}
      BY <1>1, <1>4
    <3> QED BY <3>1, <3>2
  <2> QED BY <1>1, <2>1 DEF Move, Tree, Dead
<1> QED BY <1>2, <1>3, <1>4
-----------------------------------------------------------------------------
PCs == {"call", "mkdir", "stat", "fail", "walk", "open", "lstat", "unlink", "read", "rmdir",
        "back", "close", "done"}
OpenDir == [dir : Node, name : Name, first : SUBSET Name, seen : SUBSET Name]
Calls == [op : {"gk_mkpath", "gk_rmpath"}, path : Seq(Parts), pc : PCs, k : Nat, fd : Place,
          name : Parts, dirs : Seq(OpenDir), mem : {0, 1}, hit : BOOLEAN, ret : {0, -1}]

(* Where gk_rmpath is: below the last component but one of the path, with  *)
(* the directories open in which it works, and a name to remove: the last  *)
(* component, or one that it read.                                         *)
Naming == {"open", "lstat", "unlink", "rmdir"}
Working(c) ==
  LET cs == Components(c.path) IN
  /\ ~gk_path_is_dangerous(c.path) /\ c.fd \in Node /\ c.k \in 1 .. Len(cs)
  /\ c.pc \in Naming \cup {"read", "close"} => c.k = Len(cs)
  /\ c.dirs # <<>> => c.k = Len(cs) /\ c.dirs[1].name = cs[c.k]
  /\ c.pc \in {"walk", "close"} => c.dirs = <<>>
  /\ c.pc = "read" => c.dirs # <<>>
  /\ c.pc \in Naming => c.name \in Name /\ (c.dirs = <<>> => c.name = cs[c.k])

Placed(c) ==
  /\ c.pc \in {"call", "done"} => c.fd = NoNode /\ c.dirs = <<>> /\ c.mem = 0
  /\ c.op = "gk_mkpath" => /\ c.pc \in {"call", "mkdir", "stat", "fail", "done"}
                           /\ c.fd = NoNode /\ c.dirs = <<>>
  /\ c.op = "gk_rmpath" => c.pc \notin {"mkdir", "stat", "fail"}
  /\ Removing(c) => Working(c)

(* What gk_rmpath has open was in the tree it removes, and what it will    *)
(* find at its path, or in a directory that was in the tree, is in it.     *)
Opens(c, U) == \A i \in DOMAIN c.dirs : c.dirs[i].dir \in U
Holds(t, c, U) == Complete(t, U) /\ Target(t, c) \in U \cup {NoNode}

PathsTypes ==
  tree \in Tree /\ call \in [Proc -> Calls] /\ inside \in [Proc -> SUBSET Node]
FilesInv ==
  /\ PathsTypes
  /\ \A p \in Proc : Placed(call[p]) /\ call[p].path # <<>>
  /\ \A p \in Proc : Removing(call[p]) => Opens(call[p], inside[p]) /\ Holds(tree, call[p], inside[p])

(* The components of a path that is not refused are names.                 *)
LEMMA NamesOfPath ==
  ASSUME NEW path \in Seq(Parts), ~gk_path_is_dangerous(path)
  PROVE  /\ Components(path) \in Seq(Name) /\ Len(Components(path)) \in Nat
         /\ Len(Components(path)) > 0
<1> DEFINE cs == Components(path)
           P == Parts \ {""}
<1>1. cs \in Seq(P)
  BY ComponentsType
<1>2. cs # <<>> /\ \A k \in DOMAIN cs : cs[k] \notin {".", ".."}
  BY DEF gk_path_is_dangerous
<1> HIDE DEF cs, P
<1>3. Len(cs) \in Nat /\ Len(cs) > 0 /\ DOMAIN cs = 1 .. Len(cs)
  BY <1>1, <1>2, EmptySeq, LenProperties
<1>4. \A k \in 1 .. Len(cs) : cs[k] \in Name
  <2>1. \A k \in 1 .. Len(cs) : cs[k] \in P
    BY <1>1
  <2> QED BY <1>2, <1>3, <2>1 DEF Parts, P
<1>5. cs \in Seq(Name)
  BY <1>1, <1>3, <1>4
<1> QED BY <1>3, <1>5 DEF cs

(* The rest of the path from the component the call is at.                 *)
LEMMA RestIs ==
  ASSUME NEW c \in Calls, Working(c)
  PROVE  /\ Rest(c) \in Seq(Name) /\ Len(Rest(c)) = Len(Components(c.path)) - c.k + 1
         /\ Rest(c) # <<>> /\ Head(Rest(c)) = Components(c.path)[c.k] /\ Head(Rest(c)) \in Name
         /\ Len(Rest(c)) \in Nat /\ Rest(c)[1] = Components(c.path)[c.k]
<1> DEFINE cs == Components(c.path)
<1>1. cs \in Seq(Name) /\ Len(cs) \in Nat /\ c.k \in 1 .. Len(cs)
  BY NamesOfPath DEF Working, Calls
<1> HIDE DEF cs
<1>2. Rest(c) = SubSeq(cs, c.k, Len(cs))
  BY DEF Rest, cs
<1>3. /\ SubSeq(cs, c.k, Len(cs)) \in Seq(Name) /\ Len(SubSeq(cs, c.k, Len(cs))) = Len(cs) - c.k + 1
      /\ SubSeq(cs, c.k, Len(cs))[1] = cs[c.k] /\ cs[c.k] \in Name
  BY <1>1
<1>4. Len(Rest(c)) \in Nat /\ Len(Rest(c)) > 0
  BY <1>1, <1>2, <1>3
<1>5. Rest(c) # <<>> /\ Head(Rest(c)) = Rest(c)[1]
  <2> DEFINE r == Rest(c)
  <2>1. r \in Seq(Name) /\ Len(r) > 0
    BY <1>2, <1>3, <1>4
  <2> HIDE DEF r
  <2>2. r # <<>> /\ Head(r) = r[1]
    BY <2>1, EmptySeq
  <2> QED BY <2>2 DEF r
<1> QED BY <1>2, <1>3, <1>4, <1>5 DEF cs

(* What is to be removed is a node, or there is none; for the last         *)
(* component, it is the entry of that name.                                *)
LEMMA TargetType ==
  ASSUME NEW t \in Tree, NEW c \in Calls, Working(c)
  PROVE  /\ Target(t, c) \in Place
         /\ c.k = Len(Components(c.path)) => Target(t, c) = Lookup(t, c.fd, Components(c.path)[c.k])
<1>1. /\ Rest(c) \in Seq(Name) /\ Len(Rest(c)) = Len(Components(c.path)) - c.k + 1
      /\ Rest(c)[1] = Components(c.path)[c.k]
  BY RestIs
<1>2. Rest(c) \in Seq(Parts) /\ c.fd \in Place
  <2>1. Name \subseteq Parts
    BY DEF Parts
  <2>2. \A s : s \in Seq(Name) => s \in Seq(Parts)
    BY <2>1
  <2> QED BY <1>1, <2>2 DEF Place, Working
<1>3. c.k \in Nat
  BY DEF Calls
<1>4. c.k = Len(Components(c.path)) => Len(Rest(c)) = 1
  BY <1>1, <1>3
<1> QED BY <1>1, <1>2, <1>4, PlainLaws DEF Target

(* What a removal is about to take was in the tree to be removed.          *)
LEMMA EntryInside ==
  ASSUME FilesInv, NEW p \in Proc, Removing(call[p]), call[p].pc \in Naming
  PROVE  /\ Entry(call[p]) \in inside[p] \cup {NoNode} /\ inside[p] \in SUBSET Node
         /\ call[p].name \in Name /\ Here(call[p]) \in Node
         /\ Entry(call[p]) # NoNode =>
              IsDir(tree, Here(call[p])) /\ Entry(call[p]) = tree.entry[Here(call[p])][call[p].name]
<1> DEFINE c == call[p]
<1>1. /\ c \in Calls /\ Working(c) /\ tree \in Tree /\ inside[p] \in SUBSET Node
      /\ Opens(c, inside[p]) /\ Holds(tree, c, inside[p])
  BY DEF FilesInv, PathsTypes, Placed
<1>2. c.name \in Name
  BY <1>1 DEF Working
<1>3. c.dirs \in Seq(OpenDir) /\ c.fd \in Node
  BY <1>1 DEF Calls, Working
<1> HIDE DEF c
<1>4. Here(c) \in Node /\ Entry(c) \in inside[p] \cup {NoNode}
  <2>1. CASE c.dirs = <<>>
    <3>1. Here(c) = c.fd /\ Entry(c) = Lookup(tree, c.fd, Components(c.path)[c.k])
          /\ c.k = Len(Components(c.path))
      BY <1>1, <2>1 DEF Here, Entry, Working, c
    <3>2. Entry(c) = Target(tree, c)
      BY <1>1, <3>1, TargetType
    <3> QED BY <1>1, <1>3, <3>1, <3>2 DEF Holds
  <2>2. CASE c.dirs # <<>>
    <3>1. Len(c.dirs) \in DOMAIN c.dirs
      BY <1>3, <2>2, EmptySeq, LenProperties
    <3>2. Here(c) = c.dirs[Len(c.dirs)].dir
      BY <2>2 DEF Here, Last
    <3>3. Here(c) \in inside[p]
      BY <1>1, <3>1, <3>2 DEF Opens
    <3>4. tree.entry[Here(c)][c.name] \in inside[p] \cup {NoNode}
      BY <1>1, <1>2, <3>3 DEF Holds, Complete
    <3> QED BY <1>1, <1>2, <3>3, <3>4, LookupName DEF Entry
  <2> QED BY <2>1, <2>2
<1>5. Entry(c) # NoNode => IsDir(tree, Here(c)) /\ Entry(c) = tree.entry[Here(c)][c.name]
  BY <1>2, LookupName DEF Entry
<1> QED BY <1>1, <1>2, <1>4, <1>5 DEF c

(* A call that returns, with the fields given or not.                      *)
Ended(c, n) ==
  /\ n \in Calls /\ n.op = c.op /\ n.path = c.path /\ n.dirs = c.dirs /\ n.pc = "done"
LEMMA ReturnedIs ==
  ASSUME NEW c \in Calls, NEW ret \in {0, -1}
  PROVE  /\ \A n \in {Returned(c, ret), [Returned(c, ret) EXCEPT !.hit = TRUE]} :
              Ended(c, n) /\ n.fd = c.fd /\ n.mem = c.mem
         /\ \A n \in {[Returned(c, ret) EXCEPT !.mem = 0], [Returned(c, ret) EXCEPT !.mem = 0, !.hit = TRUE]} :
              Ended(c, n) /\ n.fd = c.fd /\ n.mem = 0
         /\ \A n \in {[Returned(c, ret) EXCEPT !.fd = NoNode, !.mem = 0],
                      [Returned(c, ret) EXCEPT !.fd = NoNode, !.mem = 0, !.hit = TRUE]} :
              Ended(c, n) /\ n.fd = NoNode /\ n.mem = 0
<1> DEFINE n == Returned(c, ret)
<1>1. /\ n \in Calls /\ n.op = c.op /\ n.path = c.path /\ n.fd = c.fd /\ n.dirs = c.dirs
      /\ n.pc = "done" /\ n.mem = c.mem
  BY DEF Calls, PCs, Returned
<1> HIDE DEF n
<1>2. ASSUME NEW m, m = n \/ m = [n EXCEPT !.hit = TRUE]
      PROVE  Ended(c, m) /\ m.fd = c.fd /\ m.mem = c.mem
  BY <1>1, <1>2 DEF Ended, Calls
<1>3. ASSUME NEW m, m = [n EXCEPT !.mem = 0] \/ m = [n EXCEPT !.mem = 0, !.hit = TRUE]
      PROVE  Ended(c, m) /\ m.fd = c.fd /\ m.mem = 0
  <2>1. CASE m = [n EXCEPT !.mem = 0]
    BY <1>1, <2>1 DEF Ended, Calls
  <2>2. CASE m = [n EXCEPT !.mem = 0, !.hit = TRUE]
    BY <1>1, <2>2 DEF Ended, Calls
  <2> QED BY <1>3, <2>1, <2>2
<1>4. ASSUME NEW m, m = [n EXCEPT !.fd = NoNode, !.mem = 0]
                    \/ m = [n EXCEPT !.fd = NoNode, !.mem = 0, !.hit = TRUE]
      PROVE  Ended(c, m) /\ m.fd = NoNode /\ m.mem = 0
  <2>1. CASE m = [n EXCEPT !.fd = NoNode, !.mem = 0]
    BY <1>1, <2>1 DEF Ended, Calls, Place
  <2>2. CASE m = [n EXCEPT !.fd = NoNode, !.mem = 0, !.hit = TRUE]
    BY <1>1, <2>2 DEF Ended, Calls, Place
  <2> QED BY <1>4, <2>1, <2>2
<1> QED BY <1>2, <1>3, <1>4 DEF n

(* A step of a call: what the call becomes, and what dies.                 *)
Takes(p) ==
  /\ tree' \in Tree /\ Dead(tree') \ Dead(tree) \subseteq inside[p]
  /\ \E c \in Calls : Set(p, c) /\ c.path = call[p].path /\ Placed(c) /\ (Removing(c) => Opens(c, inside[p]))

(* A step that leaves the tree alone removes nothing.                      *)
LEMMA SameTree ==
  ASSUME FilesInv, UNCHANGED tree, NEW p
  PROVE  tree' \in Tree /\ Dead(tree') \ Dead(tree) \subseteq inside[p]
BY DEF FilesInv, PathsTypes

(* A removal goes on, or back, with what it has.                           *)
LEMMA GoesOn ==
  ASSUME FilesInv, NEW p \in Proc, Removing(call[p]),
         NEW pc \in {"open", "lstat", "unlink", "read", "rmdir", "back", "close"},
         Goes(p, pc) \/ HitAt(p, pc),
         pc # "back" => call[p].pc \in Naming,
         pc = "read" => call[p].dirs # <<>>, pc = "close" => call[p].dirs = <<>>,
         tree' \in Tree, Dead(tree') \ Dead(tree) \subseteq inside[p]
  PROVE  Takes(p)
<1> DEFINE c == call[p]
<1>1. c \in Calls /\ Placed(c) /\ Working(c) /\ Opens(c, inside[p]) /\ c.op = "gk_rmpath"
  BY DEF FilesInv, PathsTypes, Placed, Removing, Calls
<1>2. PICK n : Set(p, n) /\ n \in {[c EXCEPT !.pc = pc], [c EXCEPT !.pc = pc, !.hit = TRUE]}
  BY DEF Goes, HitAt
<1> HIDE DEF c
<1>3. n \in Calls
  <2>1. pc \in PCs
    BY DEF PCs
  <2>2. CASE n = [c EXCEPT !.pc = pc]
    BY ONLY <1>1, <2>1, <2>2 DEF Calls
  <2>3. CASE n = [c EXCEPT !.pc = pc, !.hit = TRUE]
    BY ONLY <1>1, <2>1, <2>3 DEF Calls
  <2> QED BY <1>2, <2>2, <2>3
<1>4. /\ n.op = c.op /\ n.path = c.path /\ n.fd = c.fd /\ n.k = c.k /\ n.dirs = c.dirs
      /\ n.name = c.name /\ n.pc = pc
  BY <1>1, <1>2 DEF Calls
<1>5. Working(n)
  <2>1. /\ ~gk_path_is_dangerous(c.path) /\ c.fd \in Node /\ c.k \in 1 .. Len(Components(c.path))
        /\ c.dirs # <<>> => c.k = Len(Components(c.path)) /\ c.dirs[1].name = Components(c.path)[c.k]
    BY <1>1 DEF Working
  <2>2. pc # "back" => /\ c.k = Len(Components(c.path)) /\ c.name \in Name
                       /\ c.dirs = <<>> => c.name = Components(c.path)[c.k]
    BY <1>1 DEF Working, c
  <2>3. pc \in Naming \cup {"read", "close"} => pc # "back"
    BY DEF Naming
  <2> QED BY <1>4, <2>1, <2>2, <2>3 DEF Working, Naming, c
<1>6. Placed(n)
  BY <1>1, <1>4, <1>5 DEF Placed
<1>7. Opens(n, inside[p])
  BY <1>1, <1>4 DEF Opens
<1> QED BY <1>2, <1>3, <1>4, <1>6, <1>7 DEF Takes, c

(* The steps of gk_mkpath, which removes nothing.                          *)
LEMMA MakeTakes ==
  ASSUME FilesInv, NEW p \in Proc, Makes(p)
  PROVE  Takes(p)
<1> DEFINE c == call[p]
<1>1. c \in Calls /\ Placed(c) /\ c.path \in Seq(Parts) /\ Len(c.path) \in Nat
  BY DEF FilesInv, PathsTypes, Calls
<1>2. Stops(c.path) \in SUBSET Nat /\ (c.path # <<>> => Stops(c.path) # {})
  <2> DEFINE s == c.path
  <2>1. s \in Seq(Parts) /\ Len(s) \in Nat
    BY <1>1
  <2> HIDE DEF s
  <2>2. s # <<>> => Len(s) \in 1 .. Len(s)
    BY <2>1, EmptySeq
  <2>3. Stops(s) \subseteq 1 .. Len(s) /\ (s # <<>> => Len(s) \in Stops(s))
    BY <2>2 DEF Stops
  <2> QED BY <2>1, <2>3 DEF s
<1>11. c.path # <<>>
  BY DEF FilesInv
<1>3. c.op = "gk_mkpath"
  BY <1>1 DEF Makes, MakeCall, MakeDirectory, AcceptExisting, MakeFails, At, Placed, Calls
<1> HIDE DEF c
<1>4. ASSUME NEW n \in Calls, Set(p, n), n.op = "gk_mkpath", n.path = c.path, n.fd = c.fd, n.dirs = c.dirs,
             n.pc \in {"mkdir", "stat", "fail", "done"}, n.pc = "done" => n.mem = 0,
             tree' \in Tree, Dead(tree') \ Dead(tree) \subseteq inside[p]
      PROVE  Takes(p)
  BY <1>1, <1>3, <1>4 DEF Takes, Placed, Removing, c
<1>5. ASSUME Accepted(p)
      PROVE  \E n \in Calls : /\ Set(p, n) /\ n.op = "gk_mkpath" /\ n.path = c.path /\ n.fd = c.fd /\ n.dirs = c.dirs
                              /\ n.pc \in {"mkdir", "done"} /\ (n.pc = "done" => n.mem = 0)
  <2> DEFINE later == {k \in Stops(c.path) : k > c.k}
  <2>1. CASE later = {}
    <3> DEFINE n == [Returned(c, 0) EXCEPT !.mem = 0]
    <3>1. Set(p, n)
      BY <1>5, <2>1 DEF Accepted, c
    <3>2. n \in Calls /\ n.op = c.op /\ n.path = c.path /\ n.fd = c.fd /\ n.dirs = c.dirs /\ n.pc = "done" /\ n.mem = 0
      BY <1>1, ReturnedIs DEF Ended
    <3> QED BY <1>3, <3>1, <3>2
  <2>2. CASE later # {}
    <3> DEFINE n == [c EXCEPT !.pc = "mkdir", !.k = Min(later)]
    <3>1. Set(p, n)
      BY <1>5, <2>2 DEF Accepted, c
    <3>2. Min(later) \in Nat
      BY <1>2, <2>2, MinOf
    <3>3. n \in Calls /\ n.op = c.op /\ n.path = c.path /\ n.fd = c.fd /\ n.dirs = c.dirs /\ n.pc = "mkdir"
      BY <1>1, <3>2 DEF Calls, PCs
    <3> QED BY <1>3, <3>1, <3>3
  <2> QED BY <2>1, <2>2
<1>6. ASSUME NEW pc \in {"stat", "fail"}, Goes(p, pc) \/ HitAt(p, pc)
      PROVE  \E n \in Calls : /\ Set(p, n) /\ n.op = "gk_mkpath" /\ n.path = c.path /\ n.fd = c.fd /\ n.dirs = c.dirs
                              /\ n.pc = pc
  <2>1. PICK n : Set(p, n) /\ n \in {[c EXCEPT !.pc = pc], [c EXCEPT !.pc = pc, !.hit = TRUE]}
    BY <1>6 DEF Goes, HitAt, c
  <2>2. n \in Calls /\ n.op = c.op /\ n.path = c.path /\ n.fd = c.fd /\ n.dirs = c.dirs /\ n.pc = pc
    BY <1>1, <2>1 DEF Calls, PCs
  <2> QED BY <1>3, <2>1, <2>2
<1>7. CASE MakeCall(p)
  <2> DEFINE begun == [c EXCEPT !.pc = "mkdir", !.mem = 1, !.k = Min(Stops(c.path))]
  <2>1. PICK n : Set(p, n) /\ n \in {Returned(c, -1), [Returned(c, -1) EXCEPT !.hit = TRUE], begun}
    BY <1>7 DEF MakeCall, c
  <2>2. Min(Stops(c.path)) \in Nat
    BY <1>2, <1>11, MinOf
  <2>5. begun \in Calls /\ begun.op = c.op /\ begun.path = c.path /\ begun.fd = c.fd /\ begun.dirs = c.dirs /\ begun.pc = "mkdir"
    BY <1>1, <2>2 DEF Calls, PCs
  <2>3. n \in Calls /\ n.op = c.op /\ n.path = c.path /\ n.fd = c.fd /\ n.dirs = c.dirs /\ n.pc \in {"mkdir", "done"}
        /\ (n.pc = "done" => n.mem = c.mem)
    <3>1. CASE n = begun
      BY <2>5, <3>1
    <3>2. CASE n # begun
      <4>1. n \in {Returned(c, -1), [Returned(c, -1) EXCEPT !.hit = TRUE]}
        BY <2>1, <3>2
      <4>2. Ended(c, n) /\ n.fd = c.fd /\ n.mem = c.mem
        BY <1>1, <4>1, ReturnedIs
      <4> QED BY <4>2 DEF Ended
    <3> QED BY <3>1, <3>2
  <2>4. c.mem = 0 /\ UNCHANGED tree
    BY <1>1, <1>7 DEF MakeCall, At, Placed, c
  <2> QED BY <1>3, <1>4, <2>1, <2>3, <2>4, SameTree
<1>8. CASE MakeDirectory(p)
  <2>1. CASE UNCHANGED tree
    <3>1. (\E pc \in {"stat", "fail"} : Goes(p, pc) \/ HitAt(p, pc)) \/ Accepted(p)
      BY <1>8 DEF MakeDirectory
    <3> QED BY <1>4, <1>5, <1>6, <2>1, <3>1, SameTree
  <2>2. CASE ~UNCHANGED tree
    <3>1. /\ Accepted(p) /\ IsDir(tree, Parent(c)) /\ Last(Prefix(c)) \in Name /\ Unused(tree) # {}
          /\ tree' = Put(tree, Parent(c), Last(Prefix(c)), CHOOSE n \in Unused(tree) : TRUE, "dir")
      BY <1>8, <2>2 DEF MakeDirectory, c
    <3>2. tree \in Tree /\ (CHOOSE n \in Unused(tree) : TRUE) \in Node
      BY <3>1 DEF Unused, FilesInv, PathsTypes
    <3>4. tree' \in Tree /\ Dead(tree') \subseteq Dead(tree)
      BY <3>1, <3>2, TreeSteps DEF Live
    <3> QED BY <1>4, <1>5, <3>1, <3>4
  <2> QED BY <2>1, <2>2
<1>9. CASE AcceptExisting(p)
  <2>1. UNCHANGED tree /\ (Accepted(p) \/ Goes(p, "fail") \/ HitAt(p, "fail"))
    BY <1>9 DEF AcceptExisting
  <2> QED BY <1>4, <1>5, <1>6, <2>1, SameTree
<1>10. CASE MakeFails(p)
  <2> DEFINE n == [Returned(c, -1) EXCEPT !.mem = 0]
  <2>1. Set(p, n) /\ UNCHANGED tree
    BY <1>10 DEF MakeFails, c
  <2>2. n \in Calls /\ n.op = c.op /\ n.path = c.path /\ n.fd = c.fd /\ n.dirs = c.dirs /\ n.pc = "done" /\ n.mem = 0
    BY <1>1, ReturnedIs DEF Ended
  <2> QED BY <1>3, <1>4, <2>1, <2>2, SameTree
<1> QED BY <1>7, <1>8, <1>9, <1>10 DEF Makes

(* What a removal has open, after it opened one more or closed the last.   *)
LEMMA DirsChange ==
  ASSUME NEW ds \in Seq(OpenDir), ds # <<>>
  PROVE  /\ Last(ds) = ds[Len(ds)] /\ Len(ds) \in DOMAIN ds /\ Last(ds) \in OpenDir /\ Len(ds) \in Nat
         /\ 1 \in DOMAIN ds
         /\ Front(ds) \in Seq(OpenDir) /\ (Front(ds) = <<>> => Len(ds) = 1)
         /\ \A i \in DOMAIN Front(ds) : i \in DOMAIN ds /\ Front(ds)[i] = ds[i]
         /\ Front(ds) # <<>> => 1 \in DOMAIN Front(ds)
<1>1. Len(ds) \in Nat /\ Len(ds) > 0 /\ DOMAIN ds = 1 .. Len(ds)
  BY EmptySeq, LenProperties
<1>2. Last(ds) = ds[Len(ds)] /\ Len(ds) \in DOMAIN ds /\ ds[Len(ds)] \in OpenDir /\ 1 \in DOMAIN ds
  BY <1>1 DEF Last
<1>3. Front(ds) = SubSeq(ds, 1, Len(ds) - 1)
  BY DEF Front
<1>4. /\ SubSeq(ds, 1, Len(ds) - 1) \in Seq(OpenDir) /\ Len(SubSeq(ds, 1, Len(ds) - 1)) = Len(ds) - 1
      /\ \A i \in 1 .. Len(ds) - 1 : SubSeq(ds, 1, Len(ds) - 1)[i] = ds[i]
  BY <1>1
<1> DEFINE fs == Front(ds)
<1>5. fs \in Seq(OpenDir) /\ Len(fs) = Len(ds) - 1 /\ \A i \in 1 .. Len(ds) - 1 : fs[i] = ds[i]
  BY <1>3, <1>4
<1> HIDE DEF fs
<1>6. DOMAIN fs = 1 .. Len(ds) - 1 /\ (fs = <<>> => Len(ds) = 1) /\ (fs # <<>> => 1 \in DOMAIN fs)
  <2>1. DOMAIN fs = 1 .. Len(fs) /\ Len(fs) \in Nat
    BY <1>5, LenProperties
  <2>2. fs = <<>> => Len(fs) = 0
    OBVIOUS
  <2>3. fs # <<>> => Len(fs) # 0
    BY <1>5, EmptySeq
  <2> QED BY <1>1, <1>5, <2>1, <2>2, <2>3
<1> QED BY <1>1, <1>2, <1>5, <1>6 DEF fs

(* A step that leaves a removal at work, or returns from it.               *)
LEMMA StillAtWork ==
  ASSUME FilesInv, NEW p \in Proc, NEW n \in Calls, Set(p, n), n.path = call[p].path, n.op = "gk_rmpath",
         n.pc \notin {"call", "done", "mkdir", "stat", "fail"}, Working(n), Opens(n, inside[p]),
         tree' \in Tree, Dead(tree') \ Dead(tree) \subseteq inside[p]
  PROVE  Takes(p)
BY DEF Takes, Placed

LEMMA Returning ==
  ASSUME FilesInv, NEW p \in Proc, NEW n, Set(p, n), Ended(call[p], n), call[p].op = "gk_rmpath",
         n.fd = NoNode, n.mem = 0, n.dirs = <<>>, UNCHANGED tree
  PROVE  Takes(p)
<1>1. tree' \in Tree /\ Dead(tree') \ Dead(tree) \subseteq inside[p]
  BY SameTree
<1>2. Placed(n) /\ ~Removing(n)
  BY DEF Placed, Removing, Ended
<1> QED BY <1>1, <1>2 DEF Takes, Ended

(* The steps of gk_rmpath: it starts in the root, or is refused.           *)
LEMMA CallTakes ==
  ASSUME FilesInv, NEW p \in Proc, RemoveCall(p)
  PROVE  Takes(p)
<1> DEFINE c == call[p]
<1>1. c \in Calls /\ c.pc = "call" /\ c.op = "gk_rmpath" /\ c.fd = NoNode /\ c.dirs = <<>> /\ c.mem = 0
      /\ c.path \in Seq(Parts) /\ UNCHANGED tree
  BY DEF FilesInv, PathsTypes, Placed, RemoveCall, At, Calls
<1> HIDE DEF c
<1>2. CASE gk_path_is_dangerous(c.path) \/ Set(p, [Returned(c, -1) EXCEPT !.hit = TRUE])
  <2>1. PICK n : Set(p, n) /\ n \in {Returned(c, -1), [Returned(c, -1) EXCEPT !.hit = TRUE]}
    BY <1>2 DEF RemoveCall, c
  <2>2. Ended(c, n) /\ n.fd = c.fd /\ n.mem = c.mem
    BY <1>1, <2>1, ReturnedIs
  <2>3. n.dirs = <<>> /\ n.fd = NoNode /\ n.mem = 0
    BY <1>1, <2>2 DEF Ended
  <2> QED BY <1>1, <2>1, <2>2, <2>3, Returning DEF c
<1>3. CASE ~gk_path_is_dangerous(c.path) /\ ~Set(p, [Returned(c, -1) EXCEPT !.hit = TRUE])
  <2> DEFINE n == [c EXCEPT !.pc = "walk", !.mem = 1, !.fd = Root, !.k = 1]
  <2>1. Set(p, n)
    BY <1>3 DEF RemoveCall, c
  <2>2. /\ n \in Calls /\ n.op = c.op /\ n.path = c.path /\ n.dirs = <<>> /\ n.pc = "walk" /\ n.fd = Root /\ n.k = 1
    <3>1. Root \in Place /\ "walk" \in PCs
      BY TreeConstants DEF Place, PCs
    <3>2. n \in Calls
      BY ONLY <1>1, <3>1 DEF Calls
    <3>3. /\ n.op = c.op /\ n.path = c.path /\ n.dirs = c.dirs /\ n.pc = "walk" /\ n.fd = Root /\ n.k = 1
      BY ONLY <1>1 DEF Calls
    <3> QED BY ONLY <1>1, <3>2, <3>3
  <2> HIDE DEF n
  <2>3. Working(n)
    <3>1. 1 \in 1 .. Len(Components(c.path))
      BY <1>1, <1>3, NamesOfPath
    <3> QED BY <1>3, <2>2, <3>1, TreeConstants DEF Working, Naming
  <2>4. Opens(n, inside[p])
    BY <2>2 DEF Opens
  <2> QED BY <1>1, <2>1, <2>2, <2>3, <2>4, SameTree, StillAtWork DEF c
<1> QED BY <1>2, <1>3

(* A removal at work, before a step.                                       *)
LEMMA AtWork ==
  ASSUME FilesInv, NEW p \in Proc, call[p].pc \in {"walk", "open", "lstat", "unlink", "read", "rmdir", "back", "close"}
  PROVE  /\ call[p] \in Calls /\ call[p].op = "gk_rmpath" /\ Removing(call[p]) /\ Working(call[p])
         /\ Opens(call[p], inside[p]) /\ inside[p] \in SUBSET Node /\ tree \in Tree
BY DEF FilesInv, PathsTypes, Placed, Removing, Calls

(* A component further, with a directory of the tree of the moment.        *)
LEMMA WalkTakes ==
  ASSUME FilesInv, NEW p \in Proc, Walk(p)
  PROVE  Takes(p)
<1> DEFINE c == call[p]
<1>1. /\ c.pc = "walk" /\ c \in Calls /\ c.op = "gk_rmpath" /\ Removing(c) /\ Working(c)
      /\ Opens(c, inside[p]) /\ tree \in Tree /\ UNCHANGED tree
  BY AtWork DEF Walk, At
<1> HIDE DEF c
<1>2. /\ ~gk_path_is_dangerous(c.path) /\ c.fd \in Node /\ c.k \in 1 .. Len(Components(c.path)) /\ c.dirs = <<>>
  BY <1>1 DEF Working
<1>3. /\ Len(Rest(c)) = Len(Components(c.path)) - c.k + 1 /\ Len(Rest(c)) \in Nat
      /\ Head(Rest(c)) = Components(c.path)[c.k] /\ Head(Rest(c)) \in Name
  BY <1>1, RestIs
<1>4. Len(Components(c.path)) \in Nat
  BY <1>1, <1>2, NamesOfPath DEF Calls
<1>5. CASE Goes(p, "back") \/ HitAt(p, "back")
  BY <1>1, <1>5, SameTree, GoesOn DEF c
<1>6. CASE Len(Rest(c)) = 1 /\ Set(p, [c EXCEPT !.pc = "open", !.name = Head(Rest(c))])
  <2> DEFINE n == [c EXCEPT !.pc = "open", !.name = Head(Rest(c))]
  <2>1. Name \subseteq Parts
    BY DEF Parts
  <2>2. /\ n \in Calls /\ n.op = c.op /\ n.path = c.path /\ n.dirs = c.dirs /\ n.pc = "open" /\ n.fd = c.fd
        /\ n.k = c.k /\ n.name = Head(Rest(c))
    BY <1>1, <1>3, <2>1 DEF Calls, PCs
  <2> HIDE DEF n
  <2>3. c.k = Len(Components(c.path))
    <3>1. \A N, k, l \in Nat : l = N - k + 1 /\ l = 1 => k = N
      OBVIOUS
    <3>2. c.k \in Nat
      BY <1>1 DEF Calls
    <3> QED BY <1>3, <1>4, <1>6, <3>1, <3>2
  <2>4. Working(n) /\ Opens(n, inside[p])
    BY <1>1, <1>2, <1>3, <2>2, <2>3 DEF Working, Naming, Opens
  <2>5. Set(p, n)
    BY <1>6 DEF n
  <2> QED BY <1>1, <2>2, <2>4, <2>5, SameTree, StillAtWork DEF c
<1>7. CASE Len(Rest(c)) > 1 /\ IsDir(tree, NextDir(c)) /\ Set(p, [c EXCEPT !.k = @ + 1, !.fd = NextDir(c)])
  <2> DEFINE d == NextDir(c)
             n == [c EXCEPT !.k = @ + 1, !.fd = d]
  <2>1. d \in Node
    <3>1. c.fd \in Place /\ Head(Rest(c)) \in Parts
      BY <1>2, <1>3 DEF Place, Parts
    <3>2. d \in Place /\ d # NoNode
      BY <1>1, <1>7, <3>1, LookupType DEF NextDir, IsDir
    <3> QED BY <3>2 DEF Place
  <2>2. Set(p, n)
    BY <1>7
  <2> HIDE DEF d
  <2>3. c.k + 1 \in Nat /\ c.k + 1 \in 1 .. Len(Components(c.path))
    BY <1>2, <1>3, <1>4, <1>7
  <2>4. /\ n \in Calls /\ n.op = c.op /\ n.path = c.path /\ n.dirs = c.dirs /\ n.pc = "walk" /\ n.fd = d
        /\ n.k = c.k + 1
    BY <1>1, <2>1, <2>3 DEF Calls, Place
  <2> HIDE DEF n
  <2>5. Working(n) /\ Opens(n, inside[p])
    BY <1>1, <1>2, <2>1, <2>3, <2>4 DEF Working, Naming, Opens
  <2> QED BY <1>1, <2>2, <2>4, <2>5, SameTree, StillAtWork DEF c
<1> QED BY <1>5, <1>6, <1>7 DEF Walk, c

(* The directory that is opened is the entry to be removed.                *)
LEMMA OpenTakes ==
  ASSUME FilesInv, NEW p \in Proc, OpenEntry(p)
  PROVE  Takes(p)
<1> DEFINE c == call[p]
<1>1. /\ c.pc = "open" /\ c \in Calls /\ c.op = "gk_rmpath" /\ Removing(c) /\ Working(c)
      /\ Opens(c, inside[p]) /\ inside[p] \in SUBSET Node /\ UNCHANGED tree
  BY AtWork DEF OpenEntry, At
<1>2. c.pc \in Naming
  BY <1>1 DEF Naming
<1>3. Entry(c) \in inside[p] \cup {NoNode} /\ c.name \in Name
  BY <1>1, <1>2, EntryInside
<1> HIDE DEF c
<1>4. CASE \E pc \in {"lstat", "back"} : Goes(p, pc) \/ HitAt(p, pc)
  BY <1>1, <1>2, <1>4, SameTree, GoesOn DEF c
<1>5. CASE IsDir(tree, Entry(c)) /\ Opened(p, Entry(c))
  <2> DEFINE new == [dir |-> Entry(c), name |-> c.name, first |-> Present(tree, Entry(c)), seen |-> {}]
             ds == Append(c.dirs, new)
             n == [c EXCEPT !.pc = "read", !.dirs = ds]
  <2>1. Entry(c) \in inside[p]
    BY <1>3, <1>5 DEF IsDir
  <2>2. new \in OpenDir /\ new.dir \in inside[p] /\ new.name = c.name
    BY <1>1, <1>3, <2>1 DEF OpenDir, Present
  <2>3. Set(p, n)
    BY <1>5 DEF Opened, c
  <2> HIDE DEF new
  <2>4. c.dirs \in Seq(OpenDir) /\ Len(c.dirs) \in Nat
    BY <1>1 DEF Calls
  <2>5. /\ ds \in Seq(OpenDir) /\ DOMAIN ds = 1 .. Len(c.dirs) + 1 /\ ds # <<>>
        /\ ds[Len(c.dirs) + 1] = new /\ \A i \in 1 .. Len(c.dirs) : ds[i] = c.dirs[i]
    <3>1. ds \in Seq(OpenDir) /\ Len(ds) = Len(c.dirs) + 1 /\ ds # <<>>
          /\ ds[Len(c.dirs) + 1] = new /\ \A i \in 1 .. Len(c.dirs) : ds[i] = c.dirs[i]
      BY <2>2, <2>4, AppendProperties
    <3> QED BY <3>1, LenProperties
  <2> HIDE DEF ds
  <2>6. /\ n \in Calls /\ n.op = c.op /\ n.path = c.path /\ n.dirs = ds /\ n.pc = "read" /\ n.fd = c.fd
        /\ n.k = c.k
    BY <1>1, <2>5 DEF Calls, PCs
  <2> HIDE DEF n
  <2>7. c.k = Len(Components(c.path)) /\ (c.dirs = <<>> => c.name = Components(c.path)[c.k])
    BY <1>1 DEF Working, Naming
  <2>8. ds[1].name = Components(c.path)[c.k]
    <3>1. CASE c.dirs = <<>>
      <4>1. ds[1] = new
        BY <2>5, <3>1
      <4> QED BY <2>2, <2>7, <3>1, <4>1
    <3>2. CASE c.dirs # <<>>
      <4>1. 1 \in 1 .. Len(c.dirs)
        BY <2>4, <3>2, EmptySeq
      <4> QED BY <1>1, <2>5, <3>2, <4>1 DEF Working
    <3> QED BY <3>1, <3>2
  <2>9. Working(n)
    BY <1>1, <2>5, <2>6, <2>7, <2>8 DEF Working, Naming
  <2>10. Opens(n, inside[p])
    <3> SUFFICES ASSUME NEW i \in DOMAIN ds PROVE ds[i].dir \in inside[p]
      BY <2>6 DEF Opens
    <3>1. CASE i = Len(c.dirs) + 1
      BY <2>2, <2>5, <3>1
    <3>2. CASE i # Len(c.dirs) + 1
      <4>1. i \in 1 .. Len(c.dirs)
        BY <2>4, <2>5, <3>2
      <4>2. i \in DOMAIN c.dirs
        BY <2>4, <4>1, LenProperties
      <4> QED BY <1>1, <2>5, <4>1, <4>2 DEF Opens
    <3> QED BY <3>1, <3>2
  <2> QED BY <1>1, <2>3, <2>6, <2>9, <2>10, SameTree, StillAtWork DEF c
<1> QED BY <1>4, <1>5 DEF OpenEntry, c

(* The entry is looked at once more.                                       *)
LEMMA StatTakes ==
  ASSUME FilesInv, NEW p \in Proc, StatEntry(p)
  PROVE  Takes(p)
<1>1. Removing(call[p]) /\ call[p].pc \in Naming /\ UNCHANGED tree
  BY AtWork DEF StatEntry, At, Naming
<1>2. \E pc \in {"unlink", "back"} : Goes(p, pc) \/ HitAt(p, pc)
  BY DEF StatEntry
<1> QED BY <1>1, <1>2, SameTree, GoesOn

(* What unlinkat takes was inside.                                         *)
LEMMA CutTakes ==
  ASSUME FilesInv, NEW p \in Proc, call[p].pc \in {"unlink", "rmdir"},
         CanUnlink(tree, Here(call[p]), call[p].name) \/ CanRemoveDir(tree, Here(call[p]), call[p].name),
         tree' = Cut(tree, Here(call[p]), call[p].name), Removed(p)
  PROVE  Takes(p)
<1>1. Removing(call[p]) /\ call[p].pc \in Naming /\ tree \in Tree
  BY AtWork DEF Naming
<1>2. Entry(call[p]) # NoNode
  BY DEF CanUnlink, CanRemoveDir, IsDir, Entry
<1>3. /\ Entry(call[p]) \in inside[p]
      /\ Entry(call[p]) = tree.entry[Here(call[p])][call[p].name]
  BY <1>1, <1>2, EntryInside
<1>4. tree' \in Tree /\ Dead(tree') \subseteq Dead(tree) \cup {tree.entry[Here(call[p])][call[p].name]}
  BY <1>1, TreeSteps
<1>5. tree' \in Tree /\ Dead(tree') \ Dead(tree) \subseteq inside[p]
  BY <1>3, <1>4
<1>6. \/ call[p].dirs = <<>> /\ Goes(p, "close")
      \/ call[p].dirs # <<>> /\ Goes(p, "read")
  BY DEF Removed
<1> QED BY <1>1, <1>5, <1>6, GoesOn

(* The entry, or the directory that was read to its end, is removed.       *)
LEMMA UnlinkTakes ==
  ASSUME FilesInv, NEW p \in Proc, UnlinkEntry(p) \/ RemoveDirectory(p)
  PROVE  Takes(p)
<1>1. call[p].pc \in {"unlink", "rmdir"}
  BY DEF UnlinkEntry, RemoveDirectory, At
<1>2. Removing(call[p]) /\ call[p].pc \in Naming
  BY <1>1, AtWork DEF Naming
<1>3. CASE (Goes(p, "back") \/ HitAt(p, "back")) /\ UNCHANGED tree
  BY <1>2, <1>3, SameTree, GoesOn
<1>4. CASE ~ ((Goes(p, "back") \/ HitAt(p, "back")) /\ UNCHANGED tree)
  BY <1>1, <1>4, CutTakes DEF UnlinkEntry, RemoveDirectory
<1> QED BY <1>3, <1>4

(* The next entry of the directory, or the end of it.                      *)
LEMMA ReadTakes ==
  ASSUME FilesInv, NEW p \in Proc, ReadEntry(p)
  PROVE  Takes(p)
<1> DEFINE c == call[p]
           ds == c.dirs
           f == Last(ds)
<1>1. /\ c.pc = "read" /\ c \in Calls /\ c.op = "gk_rmpath" /\ Removing(c) /\ Working(c)
      /\ Opens(c, inside[p]) /\ tree \in Tree /\ UNCHANGED tree
  BY AtWork DEF ReadEntry, At
<1>2. ds \in Seq(OpenDir) /\ ds # <<>> /\ c.k = Len(Components(c.path)) /\ ds[1].name = Components(c.path)[c.k]
  BY <1>1 DEF Working, Calls
<1>3. CASE HitAt(p, "back")
  BY <1>1, <1>3, SameTree, GoesOn
<1>4. CASE \E m \in (f.first \cup Present(tree, f.dir)) \ f.seen :
             Set(p, [c EXCEPT !.pc = "open", !.name = m, !.dirs[Len(c.dirs)].seen = @ \cup {m}])
  <2>1. PICK m : /\ m \in f.first \cup Present(tree, f.dir)
                 /\ Set(p, [c EXCEPT !.pc = "open", !.name = m, !.dirs[Len(c.dirs)].seen = @ \cup {m}])
    BY <1>4
  <2>2. f = ds[Len(ds)] /\ Len(ds) \in DOMAIN ds /\ f \in OpenDir /\ 1 \in DOMAIN ds
    BY <1>2, DirsChange
  <2>3. m \in Name
    BY <2>1, <2>2 DEF OpenDir, Present
  <2> DEFINE es == [ds EXCEPT ![Len(c.dirs)].seen = @ \cup {m}]
             n == [c EXCEPT !.pc = "open", !.name = m, !.dirs[Len(c.dirs)].seen = @ \cup {m}]
  <2>4. es \in Seq(OpenDir) /\ DOMAIN es = DOMAIN ds /\ es # <<>>
        /\ \A i \in DOMAIN ds : es[i].dir = ds[i].dir /\ es[i].name = ds[i].name
    <3> DEFINE e == [f EXCEPT !.seen = @ \cup {m}]
    <3>1. e \in OpenDir /\ e.dir = f.dir /\ e.name = f.name
      BY ONLY <2>2, <2>3 DEF OpenDir
    <3>2. es = [ds EXCEPT ![Len(ds)] = e]
      BY ONLY <2>2
    <3> HIDE DEF e, es, f
    <3> QED BY ONLY <1>2, <2>2, <3>1, <3>2
  <2>5. n = [c EXCEPT !.pc = "open", !.name = m, !.dirs = es]
    BY <1>1 DEF Calls
  <2>6. Set(p, n)
    BY <2>1
  <2> HIDE DEF es, n
  <2>7. /\ n \in Calls /\ n.op = c.op /\ n.path = c.path /\ n.dirs = es /\ n.pc = "open" /\ n.fd = c.fd
        /\ n.k = c.k /\ n.name = m
    BY <1>1, <2>3, <2>4, <2>5 DEF Calls, PCs, Parts
  <2>8. Working(n)
    BY <1>1, <1>2, <2>2, <2>3, <2>4, <2>7 DEF Working, Naming
  <2>9. Opens(n, inside[p])
    BY <1>1, <2>4, <2>7 DEF Opens
  <2> QED BY <1>1, <2>6, <2>7, <2>8, <2>9, SameTree, StillAtWork
<1>5. CASE Set(p, [c EXCEPT !.pc = "rmdir", !.name = f.name, !.dirs = Front(@)])
  <2> DEFINE es == Front(ds)
             n == [c EXCEPT !.pc = "rmdir", !.name = f.name, !.dirs = es]
  <2>1. /\ f = ds[Len(ds)] /\ f \in OpenDir /\ es \in Seq(OpenDir) /\ (es = <<>> => Len(ds) = 1)
        /\ (\A i \in DOMAIN es : i \in DOMAIN ds /\ es[i] = ds[i]) /\ (es # <<>> => 1 \in DOMAIN es)
    BY <1>2, DirsChange
  <2>2. Set(p, n)
    BY <1>5
  <2> HIDE DEF es, f
  <2>3. f.name \in Name
    BY <2>1 DEF OpenDir
  <2>4. /\ n \in Calls /\ n.op = c.op /\ n.path = c.path /\ n.dirs = es /\ n.pc = "rmdir" /\ n.fd = c.fd
        /\ n.k = c.k /\ n.name = f.name
    BY <1>1, <2>1, <2>3 DEF Calls, PCs, Parts
  <2> HIDE DEF n
  <2>5. /\ es # <<>> => es[1].name = Components(c.path)[c.k]
        /\ es = <<>> => f.name = Components(c.path)[c.k]
    BY <1>2, <2>1
  <2>6. Working(n)
    BY <1>1, <1>2, <2>3, <2>4, <2>5 DEF Working, Naming
  <2>7. Opens(n, inside[p])
    BY <1>1, <2>1, <2>4 DEF Opens
  <2> QED BY <1>1, <2>2, <2>4, <2>6, <2>7, SameTree, StillAtWork
<1> QED BY <1>3, <1>4, <1>5 DEF ReadEntry

(* After a failure, a directory more is closed.                            *)
LEMMA BackTakes ==
  ASSUME FilesInv, NEW p \in Proc, Back(p)
  PROVE  Takes(p)
<1> DEFINE c == call[p]
           ds == c.dirs
<1>1. /\ c.pc = "back" /\ c \in Calls /\ c.op = "gk_rmpath" /\ Removing(c) /\ Working(c)
      /\ Opens(c, inside[p]) /\ tree \in Tree /\ UNCHANGED tree
  BY AtWork DEF Back, At
<1>2. ds \in Seq(OpenDir)
  BY <1>1 DEF Calls
<1>3. CASE ds # <<>>
  <2> DEFINE es == Front(ds)
             n == [c EXCEPT !.dirs = es]
  <2>1. /\ es \in Seq(OpenDir)
        /\ (\A i \in DOMAIN es : i \in DOMAIN ds /\ es[i] = ds[i]) /\ (es # <<>> => 1 \in DOMAIN es)
    BY <1>2, <1>3, DirsChange
  <2>2. Set(p, n)
    BY <1>3 DEF Back
  <2> HIDE DEF es
  <2>3. /\ n \in Calls /\ n.op = c.op /\ n.path = c.path /\ n.dirs = es /\ n.pc = "back" /\ n.fd = c.fd
        /\ n.k = c.k
    BY <1>1, <2>1 DEF Calls
  <2> HIDE DEF n
  <2>4. Working(n)
    BY <1>1, <1>3, <2>1, <2>3 DEF Working, Naming
  <2>5. Opens(n, inside[p])
    BY <1>1, <2>1, <2>3 DEF Opens
  <2> QED BY <1>1, <2>2, <2>3, <2>4, <2>5, SameTree, StillAtWork
<1>4. CASE ds = <<>>
  <2> DEFINE n == [Returned(c, -1) EXCEPT !.fd = NoNode, !.mem = 0]
  <2>1. Set(p, n)
    BY <1>4 DEF Back
  <2>2. Ended(c, n) /\ n.fd = NoNode /\ n.mem = 0
    BY <1>1, ReturnedIs
  <2>3. n.dirs = <<>>
    BY <1>4, <2>2 DEF Ended
  <2> HIDE DEF n
  <2> QED BY <1>1, <2>1, <2>2, <2>3, Returning
<1> QED BY <1>3, <1>4

(* The last descriptor is closed.                                          *)
LEMMA CloseTakes ==
  ASSUME FilesInv, NEW p \in Proc, CloseParent(p)
  PROVE  Takes(p)
<1> DEFINE c == call[p]
<1>1. /\ c.pc = "close" /\ c \in Calls /\ c.op = "gk_rmpath" /\ Working(c) /\ UNCHANGED tree
  BY AtWork DEF CloseParent, At
<1>2. c.dirs = <<>>
  BY <1>1 DEF Working
<1> DEFINE Gave(ret, n) ==
             \/ n = [Returned(c, ret) EXCEPT !.fd = NoNode, !.mem = 0]
             \/ n = [Returned(c, ret) EXCEPT !.fd = NoNode, !.mem = 0, !.hit = TRUE]
<1>3. PICK ret \in {0, -1} : \E n : Set(p, n) /\ Gave(ret, n)
  BY DEF CloseParent
<1>4. PICK n : Set(p, n) /\ Gave(ret, n)
  BY <1>3
<1> HIDE DEF c
<1>5. n \in {[Returned(c, ret) EXCEPT !.fd = NoNode, !.mem = 0],
            [Returned(c, ret) EXCEPT !.fd = NoNode, !.mem = 0, !.hit = TRUE]}
  BY <1>4
<1>6. Ended(c, n) /\ n.fd = NoNode /\ n.mem = 0
  <2>1. c \in Calls
    BY <1>1
  <2>2. \A m \in {[Returned(c, ret) EXCEPT !.fd = NoNode, !.mem = 0],
                  [Returned(c, ret) EXCEPT !.fd = NoNode, !.mem = 0, !.hit = TRUE]} :
          Ended(c, m) /\ m.fd = NoNode /\ m.mem = 0
    BY ONLY <2>1, ReturnedIs, ret \in {0, -1}
  <2> QED BY ONLY <1>5, <2>2
<1>7. n.dirs = <<>>
  BY <1>2, <1>6 DEF Ended
<1> QED BY <1>1, <1>4, <1>6, <1>7, Returning DEF c

(* Every step of a call keeps what is said of calls.                       *)
LEMMA RunTakes ==
  ASSUME FilesInv, NEW p \in Proc, Runs(p)
  PROVE  Takes(p)
BY MakeTakes, CallTakes, WalkTakes, OpenTakes, StatTakes, UnlinkTakes, ReadTakes, BackTakes, CloseTakes
   DEF Runs, Removes
-----------------------------------------------------------------------------
(* What is remembered after a step holds all that will be found.           *)
LEMMA RememberStep ==
  ASSUME FilesInv, tree' \in Tree, call' \in [Proc -> Calls],
         \A q \in Proc : /\ Placed(call'[q]) /\ call'[q].path # <<>>
                         /\ Removing(call'[q]) => Opens(call'[q], inside[q]),
         inside' = [q \in Proc |->
           IF Removing(call'[q]) THEN Below(tree', inside[q] \cup ({Target(tree', call'[q])} \ {NoNode})) ELSE {}]
  PROVE  FilesInv'
<1>1. ASSUME NEW q \in Proc, Removing(call'[q])
      PROVE  /\ inside'[q] \in SUBSET Node
             /\ Opens(call'[q], inside'[q]) /\ Holds(tree', call'[q], inside'[q])
  <2> DEFINE n == Target(tree', call'[q])
             S == inside[q] \cup ({n} \ {NoNode})
  <2>1. inside[q] \in SUBSET Node /\ inside'[q] = Below(tree', S)
    BY <1>1 DEF FilesInv, PathsTypes
  <2>2. n \in Place
    <3>1. call'[q] \in Calls /\ Working(call'[q])
      BY <1>1 DEF Placed
    <3> QED BY <3>1, TargetType
  <2>3. S \in SUBSET Node /\ inside[q] \subseteq S /\ n \in S \cup {NoNode}
    BY <2>1, <2>2 DEF Place
  <2> HIDE DEF n, S
  <2>4. Below(tree', S) \in SUBSET Node /\ S \subseteq Below(tree', S) /\ Complete(tree', Below(tree', S))
    BY <2>3, BelowLaws
  <2>5. Opens(call'[q], inside'[q])
    BY <1>1, <2>1, <2>3, <2>4 DEF Opens
  <2>6. n \in inside'[q] \cup {NoNode}
    BY <2>1, <2>3, <2>4
  <2> QED BY <2>1, <2>4, <2>5, <2>6 DEF Holds, n
<1>2. inside' \in [Proc -> SUBSET Node]
  <2>1. \A q \in Proc : inside'[q] \in SUBSET Node
    BY <1>1
  <2> QED BY <2>1
<1>3. PathsTypes'
  BY <1>2 DEF PathsTypes
<1>4. \A q \in Proc : (Placed(call[q]) /\ call[q].path # <<>>)'
  OBVIOUS
<1>5. \A q \in Proc : (Removing(call[q]) => Opens(call[q], inside[q]) /\ Holds(tree, call[q], inside[q]))'
  BY <1>1
<1> QED BY <1>3, <1>4, <1>5 DEF FilesInv

(* A step of a call keeps the invariant, and what it removes was inside.   *)
LEMMA OwnStep ==
  ASSUME FilesInv, NEW p \in Proc, Step(p)
  PROVE  FilesInv' /\ Dead(tree') \ Dead(tree) \subseteq inside[p] /\ (\A q \in Proc \ {p} : call'[q] = call[q])
<1>1. Takes(p)
  BY RunTakes DEF Step
<1>2. PICK c \in Calls : Set(p, c) /\ c.path = call[p].path /\ Placed(c) /\ (Removing(c) => Opens(c, inside[p]))
  BY <1>1 DEF Takes
<1>3. call \in [Proc -> Calls] /\ (\A q \in Proc : Placed(call[q]) /\ call[q].path # <<>>)
      /\ (\A q \in Proc : Removing(call[q]) => Opens(call[q], inside[q]))
  BY DEF FilesInv, PathsTypes
<1>4. call' \in [Proc -> Calls] /\ call'[p] = c /\ \A q \in Proc \ {p} : call'[q] = call[q]
  BY <1>2, <1>3 DEF Set
<1>5. \A q \in Proc : /\ Placed(call'[q]) /\ call'[q].path # <<>>
                      /\ Removing(call'[q]) => Opens(call'[q], inside[q])
  BY <1>2, <1>3, <1>4
<1>6. tree' \in Tree /\ Dead(tree') \ Dead(tree) \subseteq inside[p]
  BY <1>1 DEF Takes
<1>7. FilesInv'
  BY <1>4, <1>5, <1>6, RememberStep DEF Step, Remembered
<1> QED BY <1>4, <1>6, <1>7

(* So does a step of another program, which no call notices.               *)
LEMMA OtherSteps ==
  ASSUME FilesInv, Others
  PROVE  FilesInv' /\ UNCHANGED call
<1>1. tree \in Tree /\ call \in [Proc -> Calls] /\ (\A q \in Proc : Placed(call[q]) /\ call[q].path # <<>>)
      /\ (\A q \in Proc : Removing(call[q]) => Opens(call[q], inside[q]))
  BY DEF FilesInv, PathsTypes
<1>2. tree' \in Tree /\ UNCHANGED call
  <2>1. CASE OtherAdds
    <3>1. PICK d \in Dirs, m \in Name, n \in Unused(tree), kind \in Live : OtherStep(Put(tree, d, m, n, kind))
      BY <2>1 DEF OtherAdds
    <3> QED BY <1>1, <3>1, TreeSteps DEF OtherStep, Unused
  <2>2. CASE OtherRemoves
    <3>1. PICK d \in Dirs, m \in Name : OtherStep(Cut(tree, d, m))
      BY <2>2 DEF OtherRemoves
    <3> QED BY <1>1, <3>1, TreeSteps DEF OtherStep
  <2>3. CASE OtherRenames
    <3>1. PICK d \in Dirs, u \in Dirs, m \in Name, l \in Name : OtherStep(Move(tree, d, m, u, l))
      BY <2>3 DEF OtherRenames
    <3> QED BY <1>1, <3>1, TreeSteps DEF OtherStep, Dirs
  <2> QED BY <2>1, <2>2, <2>3 DEF Others
<1>3. FilesInv'
  BY <1>1, <1>2, RememberStep DEF Others, Remembered
<1> QED BY <1>2, <1>3

(* Calls that have not begun have nothing open.                            *)
LEMMA PathsStart ==
  ASSUME Init
  PROVE  FilesInv
<1>1. PICK plan \in Plans : call = [p \in Proc |-> Fresh(plan[p])]
  BY DEF Init
<1>2. ASSUME NEW p \in Proc
      PROVE  /\ call[p] \in Calls /\ call[p].pc = "call" /\ call[p].fd = NoNode /\ call[p].dirs = <<>>
             /\ call[p].mem = 0 /\ call[p].path # <<>>
  <2>1. /\ plan[p].op \in {"gk_mkpath", "gk_rmpath"} /\ plan[p].path # <<>> /\ plan[p].path \in Seq(Parts)
    BY PathConstants DEF Parts
  <2>2. call[p] = Fresh(plan[p])
    BY <1>1
  <2>3. <<>> \in Seq(OpenDir) /\ "" \in Parts /\ NoNode \in Place
    BY EmptySeq DEF Parts, Place
  <2>4. Fresh(plan[p]) \in Calls
    BY <2>1, <2>3 DEF Fresh, Calls, PCs
  <2>5. LET c == Fresh(plan[p])
        IN c.pc = "call" /\ c.fd = NoNode /\ c.dirs = <<>> /\ c.mem = 0 /\ c.path = plan[p].path
    BY DEF Fresh
  <2> QED BY <2>1, <2>2, <2>4, <2>5
<1>3. PathsTypes
  <2>1. call \in [Proc -> Calls]
    BY <1>1, <1>2
  <2> QED BY <2>1, PathConstants DEF Init, PathsTypes
<1>4. \A p \in Proc : Placed(call[p]) /\ ~Removing(call[p])
  BY <1>2 DEF Placed, Removing
<1> QED BY <1>2, <1>3, <1>4 DEF FilesInv

(* Every step keeps the invariant and removes only what was inside.        *)
LEMMA PathsNext ==
  ASSUME FilesInv, [Next]_vars
  PROVE  /\ FilesInv'
         /\ \A p \in Proc : call'[p] # call[p] => Dead(tree') \ Dead(tree) \subseteq inside[p]
<1>1. ASSUME NEW p \in Proc, Step(p)
      PROVE  /\ FilesInv'
             /\ \A q \in Proc : call'[q] # call[q] => Dead(tree') \ Dead(tree) \subseteq inside[q]
  BY <1>1, OwnStep
<1>2. CASE Others
  BY <1>2, OtherSteps
<1>3. CASE UNCHANGED vars
  <2>1. tree' = tree /\ call' = call /\ inside' = inside
    BY <1>3 DEF vars
  <2> QED BY <2>1 DEF FilesInv, PathsTypes
<1> QED BY <1>1, <1>2, <1>3 DEF Next, AllDone

(* Whatever the tree and the paths, and however others change the tree,    *)
(* the calls keep their types, and a gk_rmpath works below the directory   *)
(* that it opened for the last component but one, with every directory it  *)
(* has open one that was in the tree to be removed.                        *)
THEOREM FilesTheorem == Spec => []FilesInv
<1>1. Init => FilesInv
  BY PathsStart
<1>2. FilesInv /\ [Next]_vars => FilesInv'
  BY PathsNext
<1> QED BY <1>1, <1>2, PTL DEF Spec

(* A call of gk_mkpath or gk_rmpath that returned has closed all that it   *)
(* opened and freed its copy of the path, whichever way it returned.       *)
THEOREM ClosedTheorem == Spec => [](\A p \in Proc : At(p, "done") => Closed(call[p]))
<1>1. FilesInv => \A p \in Proc : At(p, "done") => Closed(call[p])
  BY DEF FilesInv, Placed, At, Closed
<1> QED BY <1>1, FilesTheorem, PTL

(* A step of a gk_rmpath removes nothing that was never in the tree at its *)
(* path, or in a directory that was (RemovalConfined): for any number of   *)
(* calls, any tree with symbolic links, and any renames by others.         *)
THEOREM ConfinedTheorem == Spec => RemovalConfined
<1>1. FilesInv /\ [Next]_vars =>
        [\A p \in Proc : call'[p] # call[p] => (Dead(tree') \ Dead(tree)) \subseteq inside[p]]_vars
  BY PathsNext
<1> QED BY <1>1, FilesTheorem, PTL DEF Spec, RemovalConfined
=============================================================================
