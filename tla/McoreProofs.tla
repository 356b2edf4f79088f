---------------------------- MODULE McoreProofs -----------------------------
(***************************************************************************)
(* The workspace allocator, for every core, every alignment, every word    *)
(* size and every set of addresses and requests.                           *)
(*                                                                         *)
(* The inductive invariant IInv says what an mcore is to the tracker it    *)
(* allocates from (Good): its three blocks are live, distinct and of one   *)
(* frame (Stands); each heap payload is live and recorded once (Records);  *)
(* corecpos and the counters are sums over the log (Counts). An mcore whose*)
(* whole life is within one frame is also Tidy: its core records lie one   *)
(* after the other on either side of every mark, so that a pop gives back  *)
(* the space above the others, and its payloads are of the innermost frame,*)
(* so that the tracker never refuses to free them. While gk_malloc_cleanup *)
(* runs, what is in use is not of the frame that it closes (Closing).      *)
(*                                                                         *)
(* Each call has a lemma that it leads from a settled state to another; the*)
(* theorems at the end are those about the specification.                  *)
(***************************************************************************)
EXTENDS Mcore, TrackerProofs, FiniteSetTheorems

(* The shape of a log from which a record is dropped.                      *)
LEMMA SwapOutIs ==
  ASSUME NEW D, NEW mops \in Seq(D), NEW i \in 1 .. Len(mops)
  PROVE  /\ SwapOut(mops, i) \in Seq(D) /\ Len(SwapOut(mops, i)) = Len(mops) - 1
         /\ DOMAIN SwapOut(mops, i) = 1 .. Len(mops) - 1
         /\ \A j \in 1 .. Len(mops) - 1 :
              SwapOut(mops, i)[j] = IF j = i THEN mops[Len(mops)] ELSE mops[j]
<1> DEFINE put == [mops EXCEPT ![i] = mops[Len(mops)]]
           N == Len(mops)
<1>1. N \in Nat /\ N >= 1 /\ N \in 1 .. N
  BY LenProperties
<1>2. put \in Seq(D) /\ Len(put) = N /\ \A j \in 1 .. N : put[j] = IF j = i THEN mops[N] ELSE mops[j]
  BY <1>1
<1>3. SwapOut(mops, i) = SubSeq(put, 1, N - 1)
  BY DEF SwapOut
<1> HIDE DEF put, N
<1>4. /\ SubSeq(put, 1, N - 1) \in Seq(D) /\ Len(SubSeq(put, 1, N - 1)) = N - 1
      /\ \A j \in 1 .. N - 1 : SubSeq(put, 1, N - 1)[j] = put[j]
  BY <1>1, <1>2, SubSeqProperties
<1>5. DOMAIN SubSeq(put, 1, N - 1) = 1 .. N - 1
  BY <1>4, LenProperties
<1>6. \A j \in 1 .. N - 1 : j \in 1 .. N
  BY <1>1
<1> QED BY <1>2, <1>3, <1>4, <1>5, <1>6 DEF N

Front(mops) == SubSeq(mops, 1, Len(mops) - 1)
LEMMA FrontIs ==
  ASSUME NEW D, NEW mops \in Seq(D), mops # <<>>
  PROVE  /\ Front(mops) \in Seq(D) /\ Len(Front(mops)) = Len(mops) - 1
         /\ DOMAIN Front(mops) = 1 .. Len(mops) - 1
         /\ \A j \in 1 .. Len(mops) - 1 : Front(mops)[j] = mops[j]
         /\ Len(mops) \in Nat /\ Len(mops) >= 1 /\ DOMAIN mops = 1 .. Len(mops)
<1> DEFINE N == Len(mops)
<1>1. N \in Nat /\ N >= 1 /\ DOMAIN mops = 1 .. N /\ \A j \in 1 .. N : mops[j] \in D
  BY EmptySeq, LenProperties
<1> HIDE DEF N
<1>2. /\ SubSeq(mops, 1, N - 1) \in Seq(D) /\ Len(SubSeq(mops, 1, N - 1)) = N - 1
      /\ \A j \in 1 .. N - 1 : SubSeq(mops, 1, N - 1)[j] = mops[j]
  BY <1>1, SubSeqProperties
<1>3. DOMAIN SubSeq(mops, 1, N - 1) = 1 .. N - 1
  BY <1>2, LenProperties
<1> QED BY <1>1, <1>2, <1>3 DEF N, Front
-----------------------------------------------------------------------------
(* The log of an mcore: who its heap records are, and how its core records *)
(* lie in the core.                                                        *)
CORE == {"CORE"}
HeapOf(mops) == {i \in DOMAIN mops : mops[i].type = "HEAP"}
CoreOf(mops) == {i \in DOMAIN mops : mops[i].type = "CORE"}
PayloadsOf(mops) == {mops[i].at : i \in HeapOf(mops)}
OnePlace(mops) == \A i, j \in HeapOf(mops) : mops[i].at = mops[j].at => i = j

(* The core records on either side of position j are on either side of the *)
(* sum of their sizes up to j; so it is at every mark, and between pops at *)
(* the end of the log.                                                     *)
Cut(mops, j) ==
  \A i \in CoreOf(mops) :
    /\ i <= j => mops[i].at + mops[i].nbytes <= Below(mops, CORE, j)
    /\ i > j => mops[i].at >= Below(mops, CORE, j)
Disjoint(a, b) == a.at + a.nbytes <= b.at \/ b.at + b.nbytes <= a.at
Packed(mops) ==
  /\ \A i \in CoreOf(mops) : mops[i].at \in Nat
  /\ \A j \in MarkSet(mops) : Cut(mops, j)
  /\ \A i, j \in CoreOf(mops) : i # j => Disjoint(mops[i], mops[j])

LEMMA McMopFacts ==
  /\ Sized(McMop) /\ SizeMax \in Nat
  /\ \A e \in McMop : e.type \in {"MARK", "CORE", "HEAP"} /\ e.nbytes \in Nat /\ e.nbytes <= SizeMax
BY WordSizes DEF Sized, McMop, Size

LEMMA McLogIs ==
  ASSUME NEW mops \in Seq(McMop)
  PROVE  /\ DOMAIN mops = 1 .. Len(mops) /\ Len(mops) \in Nat
         /\ \A i \in 1 .. Len(mops) :
              /\ mops[i] \in McMop /\ mops[i].nbytes \in Nat
              /\ mops[i].type \in {"MARK", "CORE", "HEAP"}
         /\ \A T : \A j \in 0 .. Len(mops) : Below(mops, T, j) \in Nat
         /\ \A T : Total(mops, T) \in Nat
<1>1. DOMAIN mops = 1 .. Len(mops) /\ Len(mops) \in Nat /\ \A i \in 1 .. Len(mops) : mops[i] \in McMop
  BY LenProperties
<1>2. \A T : \A j \in 0 .. Len(mops) : Below(mops, T, j) \in Nat
  BY McMopFacts, BelowLaws
<1>3. \A T : Total(mops, T) \in Nat
  BY <1>1, <1>2 DEF Total
<1> QED BY <1>1, <1>2, <1>3, McMopFacts

LEMMA LoggedTotal ==
  ASSUME NEW m, m.mops \in Seq(McMop), NEW type
  PROVE  LoggedBytes(m, type) = Total(m.mops, {type})
<1> DEFINE n == Len(m.mops)
           w == Weights(m.mops, {type})
           IsF(f) == f = [i \in 0 .. n |->
                            IF i = 0 THEN 0
                            ELSE f[i - 1] + IF m.mops[i].type = type THEN m.mops[i].nbytes ELSE 0]
<1>1. n \in Nat /\ w \in [1 .. n -> Nat]
      /\ \A i \in 1 .. n : w[i] = IF m.mops[i].type = type THEN m.mops[i].nbytes ELSE 0
  <2>1. n \in Nat /\ w \in [1 .. n -> Nat] /\ \A i \in 1 .. n : w[i] = Weight(m.mops[i], {type})
    BY McMopFacts, WeightsAre
  <2> QED BY <2>1 DEF Weight
<1>2. LoggedBytes(m, type) = (CHOOSE f : IsF(f))[n]
  BY DEF LoggedBytes
<1>3. ASSUME NEW f PROVE IsF(f) <=> IsRec(f, w, n)
  <2> DEFINE part(i) == IF m.mops[i].type = type THEN m.mops[i].nbytes ELSE 0
  <2>1. ASSUME NEW i \in 0 .. n, i # 0 PROVE part(i) = w[i]
    <3> HIDE DEF w, n
    <3>1. i \in 1 .. n
      BY <1>1, <2>1
    <3> QED BY <1>1, <3>1
  <2> HIDE DEF part, w, n
  <2>2. [i \in 0 .. n |-> IF i = 0 THEN 0 ELSE f[i - 1] + part(i)]
          = [i \in 0 .. n |-> IF i = 0 THEN 0 ELSE f[i - 1] + w[i]]
    BY <2>1
  <2> QED BY <2>2 DEF IsRec, part
<1> HIDE DEF IsF, n, w
<1>4. \E f : IsF(f)
  <2>1. n \in 0 .. n
    BY <1>1
  <2>2. PICK f : IsSum(f, w, n)
    BY <1>1, <2>1, SumExists
  <2> QED BY <1>1, <1>3, <2>2, RecIsSum
<1> DEFINE f == CHOOSE f : IsF(f)
<1>5. IsSum(f, w, n)
  <2>1. IsF(f)
    BY <1>4
  <2> HIDE DEF f
  <2> QED BY <1>1, <1>3, <2>1, RecIsSum
<1> HIDE DEF f
<1>6. f[n] = Sum(w, n)
  BY <1>1, <1>5, SumIs
<1> QED BY <1>1, <1>2, <1>6 DEF f, n, w, Total, Below

(* A record appended.                                                      *)
LEMMA AppendPayload ==
  ASSUME NEW mops \in Seq(McMop), OnePlace(mops), NEW e \in McMop,
         e.type = "HEAP" => e.at \notin PayloadsOf(mops)
  PROVE  /\ OnePlace(Append(mops, e))
         /\ PayloadsOf(Append(mops, e)) =
              IF e.type = "HEAP" THEN PayloadsOf(mops) \cup {e.at} ELSE PayloadsOf(mops)
<1> DEFINE new == Append(mops, e)
           N == Len(mops)
<1>1. /\ DOMAIN mops = 1 .. N /\ N \in Nat /\ DOMAIN new = 1 .. N + 1 /\ new[N + 1] = e
      /\ \A i \in 1 .. N : new[i] = mops[i]
  BY AppendProperties
<1> HIDE DEF new
<1>2. HeapOf(new) = IF e.type = "HEAP" THEN HeapOf(mops) \cup {N + 1} ELSE HeapOf(mops)
  BY <1>1 DEF HeapOf
<1>3. \A i \in HeapOf(mops) : new[i] = mops[i] /\ mops[i].at \in PayloadsOf(mops)
  BY <1>1 DEF HeapOf, PayloadsOf
<1>4. PayloadsOf(new) = IF e.type = "HEAP" THEN PayloadsOf(mops) \cup {e.at} ELSE PayloadsOf(mops)
  BY <1>1, <1>2, <1>3 DEF PayloadsOf
<1>5. OnePlace(new)
  BY <1>1, <1>2, <1>3 DEF OnePlace
<1> QED BY <1>4, <1>5 DEF new

LEMMA AppendPacked ==
  ASSUME NEW mops \in Seq(McMop), Packed(mops), Cut(mops, Len(mops)), NEW e \in McMop,
         e.type = "CORE" => e.at = Total(mops, CORE)
  PROVE  Packed(Append(mops, e)) /\ Cut(Append(mops, e), Len(mops) + 1)
<1> DEFINE new == Append(mops, e)
           N == Len(mops)
           B(j) == Below(mops, CORE, j)
           w == Weight(e, CORE)
<1>1. /\ DOMAIN mops = 1 .. N /\ N \in Nat /\ DOMAIN new = 1 .. N + 1 /\ new[N + 1] = e
      /\ \A i \in 1 .. N : new[i] = mops[i]
  BY AppendProperties
<1>2. /\ \A j \in 0 .. N : Below(new, CORE, j) = B(j)
      /\ Below(new, CORE, N + 1) = B(N) + w
  <2>1. /\ \A j \in 0 .. N : Below(new, CORE, j) = B(j)
        /\ Total(new, CORE) = Total(mops, CORE) + w
    <3>1. /\ \A j \in 0 .. Len(mops) : Below(Append(mops, e), CORE, j) = Below(mops, CORE, j)
          /\ Total(Append(mops, e), CORE) = Total(mops, CORE) + Weight(e, CORE)
      <4> HIDE DEF new, B, w, N
      <4>1. Sized(McMop)
        BY McMopFacts
      <4> QED BY <4>1, AppendTotal
    <3> QED BY <3>1
  <2>2. Len(new) = N + 1
    BY <1>1, AppendProperties
  <2> QED BY <2>1, <2>2 DEF Total
<1>3. /\ \A j \in 0 .. N : B(j) \in Nat /\ B(j) <= B(N)
      /\ e.nbytes \in Nat /\ w \in Nat /\ (e.type = "CORE" => w = e.nbytes /\ e.at = B(N))
  <2>1. \A j \in 0 .. N, k \in 0 .. N : j <= k => Below(mops, CORE, j) <= Below(mops, CORE, k)
    BY McMopFacts, BelowLaws
  <2>2. \A j \in 0 .. N : Below(mops, CORE, j) \in Nat
    BY McLogIs
  <2>3. N \in 0 .. N /\ \A j \in 0 .. N : j <= N
    BY <1>1
  <2>4. e.nbytes \in Nat /\ w = (IF e.type = "CORE" THEN e.nbytes ELSE 0)
    BY McMopFacts DEF Weight, CORE
  <2> QED BY <2>1, <2>2, <2>3, <2>4 DEF Total
<1> HIDE DEF new, B, w, N
<1>4. /\ \A i \in CoreOf(new) : \/ i \in CoreOf(mops) /\ new[i] = mops[i]
                                \/ i = N + 1 /\ e.type = "CORE" /\ new[i] = e
      /\ CoreOf(mops) \subseteq 1 .. N
  BY <1>1 DEF CoreOf
<1>5. \A i \in CoreOf(mops) : /\ mops[i].at \in Nat /\ mops[i].nbytes \in Nat
                              /\ mops[i].at + mops[i].nbytes <= B(N)
  <2>1. \A i \in 1 .. N : mops[i].nbytes \in Nat
    BY McLogIs DEF N
  <2>2. \A i \in CoreOf(mops) : i <= N
    BY <1>1, <1>4
  <2> QED BY <1>4, <2>1, <2>2 DEF Packed, Cut, B, N
<1>6. Cut(new, N + 1)
  <2>1. ASSUME NEW i \in CoreOf(new)
        PROVE  /\ new[i].at + new[i].nbytes <= Below(new, CORE, N + 1) /\ ~(i > N + 1)
    <3>1. CASE i \in CoreOf(mops) /\ new[i] = mops[i]
      <4>1. N \in 0 .. N
        BY <1>1
      <4> QED BY <1>1, <1>2, <1>3, <1>4, <1>5, <3>1, <4>1
    <3>2. CASE i = N + 1 /\ e.type = "CORE" /\ new[i] = e
      BY <1>1, <1>2, <1>3, <3>2
    <3> QED BY <1>4, <2>1, <3>1, <3>2
  <2> QED BY <2>1 DEF Cut
<1>7. ASSUME NEW j \in MarkSet(new) PROVE Cut(new, j)
  <2>1. CASE j = N + 1
    BY <1>6, <2>1
  <2>2. CASE j \in MarkSet(mops) /\ j \in 1 .. N /\ j \in 0 .. N
    <3>1. Cut(mops, j) /\ Below(new, CORE, j) = B(j) /\ B(j) <= B(N) /\ B(j) \in Nat /\ B(N) \in Nat
      <4>1. N \in 0 .. N
        BY <1>1
      <4> QED BY <1>2, <1>3, <2>2, <4>1 DEF Packed
    <3>2. ASSUME NEW i \in CoreOf(new)
          PROVE  /\ i <= j => new[i].at + new[i].nbytes <= Below(new, CORE, j)
                 /\ i > j => new[i].at >= Below(new, CORE, j)
      <4>1. CASE i \in CoreOf(mops) /\ new[i] = mops[i]
        BY <3>1, <4>1 DEF Cut, B
      <4>2. CASE i = N + 1 /\ e.type = "CORE" /\ new[i] = e
        BY <1>1, <1>3, <2>2, <3>1, <4>2
      <4> QED BY <1>4, <3>2, <4>1, <4>2
    <3> QED BY <3>2 DEF Cut
  <2>3. j = N + 1 \/ (j \in MarkSet(mops) /\ j \in 1 .. N /\ j \in 0 .. N)
    BY <1>1, <1>7 DEF MarkSet
  <2> QED BY <2>1, <2>2, <2>3
<1>8. ASSUME NEW i \in CoreOf(new), NEW j \in CoreOf(new), i # j
      PROVE  Disjoint(new[i], new[j])
  <2>1. CASE i \in CoreOf(mops) /\ j \in CoreOf(mops)
    BY <1>1, <1>4, <1>8, <2>1 DEF Packed
  <2>2. CASE i \in CoreOf(mops) /\ j = N + 1
    <3>1. new[i].at + new[i].nbytes <= B(N) /\ new[j].at = B(N)
      BY <1>1, <1>3, <1>4, <1>5, <1>8, <2>2
    <3> QED BY <3>1 DEF Disjoint
  <2>3. CASE j \in CoreOf(mops) /\ i = N + 1
    <3>1. new[j].at + new[j].nbytes <= B(N) /\ new[i].at = B(N)
      BY <1>1, <1>3, <1>4, <1>5, <1>8, <2>3
    <3> QED BY <3>1 DEF Disjoint
  <2> QED BY <1>4, <1>8, <2>1, <2>2, <2>3
<1>9. \A i \in CoreOf(new) : new[i].at \in Nat
  <2>1. N \in 0 .. N
    BY <1>1
  <2> QED BY <1>3, <1>4, <1>5, <2>1
<1>10. Packed(new)
  BY <1>7, <1>8, <1>9 DEF Packed
<1> QED BY <1>6, <1>10 DEF new, N
-----------------------------------------------------------------------------
(* A heap record of the innermost frame dropped.                           *)
LEMMA SwapOutPayload ==
  ASSUME NEW mops \in Seq(McMop), OnePlace(mops), NEW i \in HeapOf(mops)
  PROVE  /\ OnePlace(SwapOut(mops, i))
         /\ PayloadsOf(SwapOut(mops, i)) = PayloadsOf(mops) \ {mops[i].at}
<1> DEFINE new == SwapOut(mops, i)
           N == Len(mops)
<1>1. DOMAIN mops = 1 .. N /\ N \in Nat /\ i \in 1 .. N /\ N \in 1 .. N /\ mops[i].type = "HEAP"
  BY McLogIs DEF HeapOf
<1>2. /\ DOMAIN new = 1 .. N - 1
      /\ \A j \in 1 .. N - 1 : new[j] = IF j = i THEN mops[N] ELSE mops[j]
  BY <1>1, SwapOutIs
<1> HIDE DEF new, N
<1>3. ASSUME NEW j \in HeapOf(new)
      PROVE  \E k \in HeapOf(mops) \ {i} :
               new[j] = mops[k] /\ (k = IF j = i THEN N ELSE j) /\ j # N
  <2>1. j \in 1 .. N - 1 /\ j \in 1 .. N /\ j # N
    BY <1>1, <1>2 DEF HeapOf
  <2> QED BY <1>1, <1>2, <2>1 DEF HeapOf
<1>4. ASSUME NEW k \in HeapOf(mops), k # i
      PROVE  \E j \in HeapOf(new) : new[j] = mops[k]
  <2>1. k \in 1 .. N /\ mops[k].type = "HEAP"
    BY <1>1 DEF HeapOf
  <2>2. CASE k = N
    <3>1. i \in 1 .. N - 1 /\ new[i] = mops[k]
      BY <1>1, <1>2, <1>4, <2>2
    <3> QED BY <1>2, <2>1, <3>1 DEF HeapOf
  <2>3. CASE k # N
    <3>1. k \in 1 .. N - 1 /\ new[k] = mops[k]
      BY <1>1, <1>2, <1>4, <2>1, <2>3
    <3> QED BY <1>2, <2>1, <3>1 DEF HeapOf
  <2> QED BY <2>2, <2>3
<1>5. OnePlace(new)
  <2>1. ASSUME NEW a \in HeapOf(new), NEW b \in HeapOf(new), new[a].at = new[b].at PROVE a = b
    <3>1. PICK k \in HeapOf(mops) : new[a] = mops[k] /\ (k = IF a = i THEN N ELSE a) /\ a # N
      BY <1>3
    <3>2. PICK l \in HeapOf(mops) : new[b] = mops[l] /\ (l = IF b = i THEN N ELSE b) /\ b # N
      BY <1>3
    <3>3. k = l
      BY <2>1, <3>1, <3>2 DEF OnePlace
    <3> QED BY <3>1, <3>2, <3>3
  <2> QED BY <2>1 DEF OnePlace
<1>6. PayloadsOf(new) = PayloadsOf(mops) \ {mops[i].at}
  <2>1. ASSUME NEW x \in PayloadsOf(new) PROVE x \in PayloadsOf(mops) \ {mops[i].at}
    <3>1. PICK j \in HeapOf(new) : x = new[j].at
      BY <2>1 DEF PayloadsOf
    <3> QED BY <1>3, <3>1 DEF OnePlace, PayloadsOf
  <2>2. ASSUME NEW x \in PayloadsOf(mops), x # mops[i].at PROVE x \in PayloadsOf(new)
    <3>1. PICK k \in HeapOf(mops) : x = mops[k].at
      BY <2>2 DEF PayloadsOf
    <3>2. PICK j \in HeapOf(new) : new[j] = mops[k]
      BY <1>4, <2>2, <3>1
    <3> QED BY <3>1, <3>2 DEF PayloadsOf
  <2> QED BY <2>1, <2>2
<1> QED BY <1>5, <1>6 DEF new

LEMMA SwapOutPacked ==
  ASSUME NEW mops \in Seq(McMop), Packed(mops), Cut(mops, Len(mops)),
         NEW i \in HeapOf(mops), \A j \in MarkSet(mops) : j < i
  PROVE  Packed(SwapOut(mops, i)) /\ Cut(SwapOut(mops, i), Len(mops) - 1)
<1> DEFINE new == SwapOut(mops, i)
           N == Len(mops)
<1>1. DOMAIN mops = 1 .. N /\ N \in Nat /\ i \in 1 .. N /\ N \in 1 .. N /\ mops[i].type = "HEAP"
  BY McLogIs DEF HeapOf
<1>2. /\ DOMAIN new = 1 .. N - 1
      /\ \A j \in 1 .. N - 1 : new[j] = IF j = i THEN mops[N] ELSE mops[j]
  BY <1>1, SwapOutIs
<1>3. /\ \A j \in 0 .. i - 1 : Below(new, CORE, j) = Below(mops, CORE, j)
      /\ Below(new, CORE, N - 1) = Below(mops, CORE, N)
  <2>1. /\ \A j \in 0 .. i - 1 : Below(new, CORE, j) = Below(mops, CORE, j)
        /\ Total(mops, CORE) = Total(new, CORE) + Weight(mops[i], CORE)
        /\ Len(new) = N - 1 /\ new \in Seq(McMop)
    <3> HIDE DEF N
    <3>1. Sized(McMop) /\ i \in 1 .. Len(mops)
      BY <1>1, McMopFacts DEF N
    <3>2. /\ SwapOut(mops, i) \in Seq(McMop) /\ Len(SwapOut(mops, i)) = Len(mops) - 1
          /\ \A j \in 0 .. i - 1 : Below(SwapOut(mops, i), CORE, j) = Below(mops, CORE, j)
          /\ Total(mops, CORE) = Total(SwapOut(mops, i), CORE) + Weight(mops[i], CORE)
      BY <3>1, SwapOutTotal
    <3> QED BY <3>2 DEF N
  <2>2. Weight(mops[i], CORE) = 0
    BY <1>1 DEF Weight, CORE
  <2>3. Total(new, CORE) \in Nat
    BY <2>1, McLogIs
  <2> QED BY <2>1, <2>2, <2>3 DEF Total
<1> HIDE DEF new, N
<1>4. ASSUME NEW j \in CoreOf(new)
      PROVE  \E k \in CoreOf(mops) : /\ new[j] = mops[k] /\ k = IF j = i THEN N ELSE j
                                     /\ j \in 1 .. N - 1 /\ k \in 1 .. N
  <2>1. j \in 1 .. N - 1 /\ j \in 1 .. N /\ j # N
    BY <1>1, <1>2 DEF CoreOf
  <2> QED BY <1>1, <1>2, <2>1 DEF CoreOf
<1>5. MarkSet(new) \subseteq MarkSet(mops)
  <2>1. ASSUME NEW j \in MarkSet(new) PROVE j \in MarkSet(mops)
    <3>1. j \in 1 .. N - 1 /\ new[j].type = "MARK" /\ j \in 1 .. N
      BY <1>1, <1>2 DEF MarkSet
    <3>2. j # i
      <4>1. ASSUME j = i PROVE FALSE
        <5>1. N \in MarkSet(mops)
          BY <1>1, <1>2, <3>1, <4>1 DEF MarkSet
        <5>2. N < i
          BY <5>1
        <5> QED BY <1>1, <5>2
      <4> QED BY <4>1
    <3> QED BY <1>1, <1>2, <3>1, <3>2 DEF MarkSet
  <2> QED BY <2>1
<1>6. ASSUME NEW m \in MarkSet(new) PROVE Cut(new, m)
  <2>1. m \in MarkSet(mops) /\ m < i /\ m \in 1 .. N /\ m \in 0 .. i - 1
    <3>1. m \in MarkSet(mops) /\ m \in 1 .. N /\ m < i
      BY <1>1, <1>5 DEF MarkSet
    <3> QED BY <1>1, <3>1
  <2>2. Cut(mops, m) /\ Below(new, CORE, m) = Below(mops, CORE, m)
    BY <1>3, <2>1 DEF Packed
  <2>3. ASSUME NEW j \in CoreOf(new)
        PROVE  /\ j <= m => new[j].at + new[j].nbytes <= Below(new, CORE, m)
               /\ j > m => new[j].at >= Below(new, CORE, m)
    <3>1. PICK k \in CoreOf(mops) : /\ new[j] = mops[k] /\ k = IF j = i THEN N ELSE j
                                    /\ j \in 1 .. N - 1 /\ k \in 1 .. N
      BY <1>4
    <3>2. (j <= m => k <= m) /\ (j > m => k > m)
      BY <1>1, <2>1, <3>1
    <3> QED BY <2>2, <3>1, <3>2 DEF Cut
  <2> QED BY <2>3 DEF Cut
<1>7. Cut(new, N - 1)
  <2>1. ASSUME NEW j \in CoreOf(new)
        PROVE  new[j].at + new[j].nbytes <= Below(new, CORE, N - 1) /\ ~(j > N - 1)
    <3>1. PICK k \in CoreOf(mops) : new[j] = mops[k] /\ j \in 1 .. N - 1 /\ k \in 1 .. N
      BY <1>4
    <3>2. k <= N /\ ~(j > N - 1)
      BY <1>1, <3>1
    <3> QED BY <1>3, <3>1, <3>2 DEF Cut, N
  <2> QED BY <2>1 DEF Cut
<1>8. ASSUME NEW a \in CoreOf(new), NEW b \in CoreOf(new), a # b
      PROVE  Disjoint(new[a], new[b])
  <2>1. PICK k \in CoreOf(mops) : /\ new[a] = mops[k] /\ k = IF a = i THEN N ELSE a
                                  /\ a \in 1 .. N - 1 /\ k \in 1 .. N
    BY <1>4
  <2>2. PICK l \in CoreOf(mops) : /\ new[b] = mops[l] /\ l = IF b = i THEN N ELSE b
                                  /\ b \in 1 .. N - 1 /\ l \in 1 .. N
    BY <1>4
  <2>3. k # l
    BY <1>1, <1>8, <2>1, <2>2
  <2> QED BY <2>1, <2>2, <2>3 DEF Packed
<1>9. \A j \in CoreOf(new) : new[j].at \in Nat
  BY <1>4 DEF Packed
<1>10. Packed(new)
  BY <1>6, <1>8, <1>9 DEF Packed
<1> QED BY <1>7, <1>10 DEF new, N

(* The last record popped.                                                 *)
LEMMA PopPayload ==
  ASSUME NEW mops \in Seq(McMop), mops # <<>>, OnePlace(mops)
  PROVE  /\ OnePlace(Front(mops))
         /\ PayloadsOf(Front(mops)) = IF mops[Len(mops)].type = "HEAP"
                                      THEN PayloadsOf(mops) \ {mops[Len(mops)].at}
                                      ELSE PayloadsOf(mops)
         /\ mops[Len(mops)].type = "HEAP" => mops[Len(mops)].at \in PayloadsOf(mops)
<1> DEFINE new == Front(mops)
           N == Len(mops)
<1>1. /\ DOMAIN new = 1 .. N - 1 /\ \A j \in 1 .. N - 1 : new[j] = mops[j]
      /\ N \in Nat /\ N >= 1 /\ DOMAIN mops = 1 .. N /\ N \in 1 .. N
  BY FrontIs
<1> HIDE DEF new, N
<1>2. HeapOf(new) = HeapOf(mops) \ {N} /\ \A j \in HeapOf(new) : new[j] = mops[j]
  BY <1>1 DEF HeapOf
<1>3. OnePlace(new)
  BY <1>2 DEF OnePlace
<1>4. CASE mops[N].type = "HEAP"
  <2>1. N \in HeapOf(mops)
    BY <1>1, <1>4 DEF HeapOf
  <2>2. PayloadsOf(new) = PayloadsOf(mops) \ {mops[N].at} /\ mops[N].at \in PayloadsOf(mops)
    BY <1>2, <2>1 DEF PayloadsOf, OnePlace
  <2> QED BY <1>3, <1>4, <2>2 DEF new, N
<1>5. CASE mops[N].type # "HEAP"
  <2>1. HeapOf(new) = HeapOf(mops)
    BY <1>2, <1>5 DEF HeapOf
  <2>2. PayloadsOf(new) = PayloadsOf(mops)
    BY <1>2, <2>1 DEF PayloadsOf
  <2> QED BY <1>3, <1>5, <2>2 DEF new, N
<1> QED BY <1>4, <1>5

LEMMA PopPacked ==
  ASSUME NEW mops \in Seq(McMop), mops # <<>>, Packed(mops)
  PROVE  /\ Packed(Front(mops))
         /\ mops[Len(mops)].type = "MARK" \/ Front(mops) = <<>> => Cut(Front(mops), Len(mops) - 1)
<1> DEFINE new == Front(mops)
           N == Len(mops)
<1>1. /\ DOMAIN new = 1 .. N - 1 /\ \A j \in 1 .. N - 1 : new[j] = mops[j]
      /\ N \in Nat /\ N >= 1 /\ DOMAIN mops = 1 .. N /\ N \in 1 .. N
  BY FrontIs
<1>2. /\ \A j \in 0 .. N - 1 : Below(new, CORE, j) = Below(mops, CORE, j)
      /\ Total(mops, CORE) = Total(new, CORE) + Weight(mops[N], CORE)
      /\ Len(new) = N - 1 /\ new \in Seq(McMop)
  <2> HIDE DEF N
  <2>1. Sized(McMop)
    BY McMopFacts
  <2>2. /\ SubSeq(mops, 1, Len(mops) - 1) \in Seq(McMop)
        /\ Len(SubSeq(mops, 1, Len(mops) - 1)) = Len(mops) - 1
        /\ \A j \in 0 .. Len(mops) - 1 :
              Below(SubSeq(mops, 1, Len(mops) - 1), CORE, j) = Below(mops, CORE, j)
        /\ Total(mops, CORE) = Total(SubSeq(mops, 1, Len(mops) - 1), CORE) + Weight(mops[Len(mops)], CORE)
    BY <2>1, PopTotal
  <2> QED BY <2>2 DEF N, Front
<1>3. Total(new, CORE) \in Nat /\ Total(mops, CORE) \in Nat
  BY <1>2, McLogIs
<1> HIDE DEF new, N
<1>4. CoreOf(new) \subseteq CoreOf(mops) /\ \A j \in CoreOf(new) : new[j] = mops[j] /\ j \in 1 .. N - 1
  BY <1>1 DEF CoreOf
<1>5. MarkSet(new) \subseteq MarkSet(mops) /\ MarkSet(new) \subseteq 0 .. N - 1
  BY <1>1 DEF MarkSet
<1>6. \A m \in MarkSet(new) : Cut(new, m)
  BY <1>2, <1>4, <1>5 DEF Packed, Cut
<1>7. Packed(new)
  BY <1>4, <1>6 DEF Packed
<1>8. CASE mops[N].type = "MARK"
  <2>1. N \in MarkSet(mops)
    BY <1>1, <1>8 DEF MarkSet
  <2>2. Cut(mops, N)
    BY <2>1 DEF Packed
  <2>3. Below(mops, CORE, N) = Below(new, CORE, N - 1)
    <3>1. Weight(mops[N], CORE) = 0
      BY <1>8 DEF Weight, CORE
    <3> QED BY <1>2, <1>3, <3>1 DEF Total, N
  <2>4. ASSUME NEW j \in CoreOf(new)
        PROVE  new[j].at + new[j].nbytes <= Below(new, CORE, N - 1) /\ ~(j > N - 1)
    <3>1. j <= N /\ ~(j > N - 1)
      BY <1>1, <1>4
    <3> QED BY <1>4, <2>2, <2>3, <3>1 DEF Cut
  <2>5. Cut(new, N - 1)
    BY <2>4 DEF Cut
  <2> QED BY <1>7, <2>5 DEF new, N
<1>9. CASE new = <<>>
  <2>1. CoreOf(new) = {}
    BY <1>9 DEF CoreOf
  <2> QED BY <1>7, <2>1 DEF Cut, new
<1> QED BY <1>7, <1>8, <1>9 DEF new, N
-----------------------------------------------------------------------------
(* What an mcore m, with payloads d detached from it, is to a tracker t.   *)
Handles(m) == {m.self, m.core, m.ops}
Stands(t, m, d) ==
  /\ m \in McoreType
  /\ m.self # m.core /\ m.self # m.ops /\ m.core # m.ops
  /\ Handles(m) \subseteq t.live \ d
  /\ Home(t.mops, m.core) = Home(t.mops, m.self)
  /\ Home(t.mops, m.ops) = Home(t.mops, m.self)
Records(t, m, d) ==
  /\ OnePlace(m.mops)
  /\ PayloadsOf(m.mops) \subseteq t.live \ (Handles(m) \cup d)
Counts(m) ==
  /\ m.corecpos = Total(m.mops, CORE) /\ m.ccur = m.corecpos /\ m.corecpos <= CoreSize
  /\ m.hcur = Total(m.mops, HEAP)
Good(t, m, d) == Stands(t, m, d) /\ Records(t, m, d) /\ Counts(m)

(* Blocks of the innermost frame, which the tracker frees on demand, and   *)
(* blocks outside of it, which its cleanup does not reach.                 *)
Quiet(t, B) == \A q \in B : MarkSet(t.mops) \in Home(t.mops, q)
Apart(t, B) == \A q \in B : MarkSet(t.mops) \notin Home(t.mops, q)

(* Of an mcore whose whole life is within a frame: a pop is never refused. *)
Tidy(t, m) == Packed(m.mops) /\ (t.on => Quiet(t, PayloadsOf(m.mops)))
AtEnd(m) == Cut(m.mops, Len(m.mops))

(* Between calls.                                                          *)
Settled(nest, t, m, d) ==
  /\ Sound(t) /\ d \subseteq t.live
  /\ m = NoMcore \/ (m \in McoreType /\ Good(t, m, d) /\ (nest \/ (Tidy(t, m) /\ AtEnd(m))))

LEMMA McoreIsNot == ASSUME NEW m \in McoreType PROVE m # NoMcore
  BY NullIsNoAddress DEF McoreType, NoMcore

LEMMA McoreFacts ==
  ASSUME NEW m \in McoreType
  PROVE  /\ m.self \in Ptr /\ m.core \in Ptr /\ m.ops \in Ptr /\ m.mops \in Seq(McMop)
         /\ m.nmops \in Size /\ m.corecpos \in Size /\ m.cnum \in Size /\ m.csize \in Size
         /\ m.ccur \in Size /\ m.hnum \in Size /\ m.hsize \in Size /\ m.hcur \in Size
  BY DEF McoreType

(* The blocks that the mcore needs are still where they were.              *)
LEMMA GoodElsewhere ==
  ASSUME NEW t, NEW u, NEW m, NEW d, Good(t, m, d),
         \A q \in Handles(m) \cup PayloadsOf(m.mops) :
           q \in u.live /\ Home(u.mops, q) = Home(t.mops, q)
  PROVE  Good(u, m, d)
<1>1. Stands(u, m, d)
  BY DEF Good, Stands, Handles
<1>2. Records(u, m, d)
  BY DEF Good, Records
<1> QED BY <1>1, <1>2 DEF Good

(* The log of the mcore grows through the tracker.                         *)
SameLog(m, w) ==
  /\ w.mops = m.mops /\ w.self = m.self /\ w.core = m.core
  /\ w.corecpos = m.corecpos /\ w.cnum = m.cnum /\ w.csize = m.csize /\ w.ccur = m.ccur
  /\ w.hnum = m.hnum /\ w.hsize = m.hsize /\ w.hcur = m.hcur

LEMMA McEnsureGood ==
  ASSUME NEW t, Sound(t), NEW d \in SUBSET t.live, NEW m, Good(t, m, d),
         NEW r \in McEnsureCapacity(t, m)
  PROVE  /\ Sound(r.t) /\ d \subseteq r.t.live /\ Good(r.t, r.mc, d) /\ SameLog(m, r.mc)
         /\ r.err \in {"ok", "ENOMEM", "EOVERFLOW"}
         /\ Unmoved(t, r.t, PayloadsOf(m.mops))
<1> DEFINE grown == IF m.nmops = 0 THEN InitMops ELSE m.nmops + m.nmops
<1>1. /\ m \in McoreType /\ m.ops \in Ptr /\ m.nmops \in Nat /\ m.nmops \in Size /\ m.ops \in t.live
      /\ SizeMax \in Nat /\ t.live \subseteq Ptr /\ m.ops \notin d
  BY WordIsNat, McoreFacts, SoundParts DEF Good, Stands, Handles, Size
<1>2. CASE r = Step(t, m, "ok") \/ r = Step(t, m, "EOVERFLOW")
  <2>1. r.t = t /\ r.mc = m /\ r.err \in {"ok", "ENOMEM", "EOVERFLOW"}
    BY <1>2 DEF Step
  <2> QED BY <2>1, UnmovedSelf DEF SameLog
<1>3. ASSUME Fits(m.nmops, m.nmops), MulFits(grown, MopBytes),
             NEW o \in ReallocMcore(t, m.ops, grown * MopBytes),
             r = IF o.err # "ok" THEN Step(o.t, m, o.err)
                 ELSE Step(o.t, [m EXCEPT !.ops = o.ptr, !.nmops = grown], "ok")
      PROVE  /\ Sound(r.t) /\ d \subseteq r.t.live /\ Good(r.t, r.mc, d) /\ SameLog(m, r.mc)
             /\ r.err \in {"ok", "ENOMEM", "EOVERFLOW"}
             /\ Unmoved(t, r.t, PayloadsOf(m.mops))
  <2>1. grown \in Size
    BY <1>1, <1>3, WordSizes DEF Fits, Size
  <2> HIDE DEF grown
  <2>2. grown * MopBytes \in Size
    <3>1. grown \in Nat /\ MopBytes \in Nat
      BY <2>1, WordSizes DEF Size
    <3>2. grown * MopBytes \in Nat
      BY <3>1
    <3> QED BY <1>3, <3>2 DEF MulFits, Size
  <2>3. Resizes(t, m.ops, o) /\ Sound(o.t)
    BY <1>1, <1>3, <2>2, ReallocResizes, ReallocSound DEF SoundOutcome
  <2>4. \A q \in PayloadsOf(m.mops) \cup {m.self, m.core} \cup d : q \in t.live \ {m.ops}
    BY <1>1 DEF Good, Stands, Records, Handles
  <2>5. Unmoved(t, o.t, PayloadsOf(m.mops))
    BY <2>3, <2>4 DEF Resizes, Unmoved
  <2>6. CASE o.err # "ok"
    <3>1. r.t = o.t /\ r.mc = m /\ r.err = o.err
      BY <1>3, <2>6 DEF Step
    <3>2. o.t.live = t.live /\ Home(o.t.mops, m.ops) = Home(t.mops, m.ops)
      BY <2>3, <2>6 DEF Resizes
    <3>3. \A q \in Handles(m) \cup PayloadsOf(m.mops) :
            q \in o.t.live /\ Home(o.t.mops, q) = Home(t.mops, q)
      BY <1>1, <2>3, <2>4, <3>2 DEF Resizes, Unmoved, Handles
    <3>4. Good(o.t, m, d)
      BY <3>3, GoodElsewhere
    <3> QED BY <2>3, <2>5, <3>1, <3>2, <3>4 DEF Resizes, SameLog
  <2>7. CASE o.err = "ok"
    <3> DEFINE w == [m EXCEPT !.ops = o.ptr, !.nmops = grown]
    <3>1. r.t = o.t /\ r.mc = w /\ r.err = "ok"
      BY <1>3, <2>7 DEF Step
    <3>2. /\ o.ptr \in (Ptr \ t.live) \cup {m.ops} /\ o.t.live = (t.live \ {m.ops}) \cup {o.ptr}
          /\ Home(o.t.mops, o.ptr) = Home(t.mops, m.ops)
          /\ \A q \in t.live \ {m.ops} : Home(o.t.mops, q) = Home(t.mops, q)
      BY <2>3, <2>7 DEF Resizes, Unmoved
    <3>3. w \in McoreType /\ SameLog(m, w) /\ w.ops = o.ptr
      BY <1>1, <2>1, <3>2 DEF McoreType, SameLog
    <3> HIDE DEF w
    <3>4. Handles(w) = {m.self, m.core, o.ptr}
      BY <3>3 DEF Handles, SameLog
    <3>5. Stands(o.t, w, d)
      <4>1. m.self # o.ptr /\ m.core # o.ptr /\ o.ptr \notin d
        BY <1>1, <2>4, <3>2
      <4>2. Handles(w) \subseteq o.t.live \ d
        BY <2>4, <3>2, <3>4, <4>1 DEF Good, Stands, Handles
      <4>3. /\ Home(o.t.mops, m.self) = Home(t.mops, m.self)
            /\ Home(o.t.mops, m.core) = Home(t.mops, m.core)
        BY <2>4, <3>2
      <4> QED BY <3>2, <3>3, <4>1, <4>2, <4>3 DEF Good, Stands, SameLog
    <3>6. Records(o.t, w, d)
      <4>1. PayloadsOf(m.mops) \subseteq o.t.live \ (Handles(w) \cup d)
        BY <1>1, <2>4, <3>2, <3>4 DEF Good, Records, Handles
      <4> QED BY <3>3, <4>1 DEF Good, Records, SameLog
    <3>7. Counts(w)
      BY <3>3 DEF Good, Counts, SameLog
    <3>8. d \subseteq o.t.live
      BY <2>4, <3>2
    <3> QED BY <2>3, <2>5, <3>1, <3>3, <3>5, <3>6, <3>7, <3>8 DEF Good
  <2> QED BY <2>6, <2>7
<1> QED BY <1>2, <1>3 DEF McEnsureCapacity
-----------------------------------------------------------------------------
LEMMA Constants ==
  /\ SizeMax \in Nat /\ CoreSize \in Nat /\ CoreSize \in Size /\ CoreSize # 0 /\ StructBytes \in Size
  /\ Align \in Nat \ {0} /\ Align <= SizeMax /\ Requests \subseteq Size
  /\ InitMops \in Size /\ InitMops * MopBytes \in Size /\ PtrdiffMax <= SizeMax /\ PtrdiffMax \in Nat
<1>1. /\ SizeMax \in Nat /\ PtrdiffMax \in Nat /\ PtrdiffMax <= SizeMax /\ MopBytes \in Nat
      /\ InitMops \in Nat /\ InitMops * MopBytes <= SizeMax /\ InitMops <= SizeMax
  BY WordSizes
<1>2. InitMops * MopBytes \in Nat
  BY <1>1
<1>3. CoreSize \in Size \ {0} /\ StructBytes \in Size /\ Align \in Size \ {0} /\ Requests \subseteq Size
  BY McoreSizes
<1> QED BY <1>1, <1>2, <1>3 DEF Size

(* A record added to the log: m is the mcore before, w after, t and u the  *)
(* trackers, which differ by the block of a heap record.                   *)
Logs(m, w, e) ==
  /\ w \in McoreType /\ w.mops = Append(m.mops, e) /\ e \in McMop
  /\ w.self = m.self /\ w.core = m.core /\ w.ops = m.ops
  /\ w.corecpos = m.corecpos + Weight(e, CORE) /\ w.ccur = m.ccur + Weight(e, CORE)
  /\ w.hcur = m.hcur + Weight(e, HEAP) /\ w.corecpos <= CoreSize

LEMMA LogSettled ==
  ASSUME NEW nest \in BOOLEAN, NEW t, NEW m \in McoreType, NEW d, Settled(nest, t, m, d),
         NEW u, NEW w, NEW e, Logs(m, w, e),
         \/ e.type # "HEAP" /\ u = t
         \/ /\ e.type = "HEAP" /\ e.at \in Ptr \ t.live /\ Sound(u) /\ u.live = t.live \cup {e.at}
            /\ Unmoved(t, u, t.live)
            /\ t.on => Home(u.mops, e.at) = {MarkSet(t.mops)},
         e.type = "CORE" => e.at = m.corecpos
  PROVE  Settled(nest, u, w, d)
<1>1. /\ Sound(t) /\ d \subseteq t.live /\ Good(t, m, d) /\ m.mops \in Seq(McMop)
      /\ nest \/ (Tidy(t, m) /\ AtEnd(m))
  BY McoreIsNot, McoreFacts DEF Settled
<1>2. /\ Sound(u) /\ d \subseteq u.live /\ u.on = t.on /\ MarkSet(u.mops) = MarkSet(t.mops)
      /\ \A q \in t.live : q \in u.live /\ Home(u.mops, q) = Home(t.mops, q)
      /\ e.type = "HEAP" => e.at \in u.live \ t.live /\ (t.on => MarkSet(u.mops) \in Home(u.mops, e.at))
  BY <1>1 DEF Unmoved
<1>3. e \in McMop /\ w \in McoreType /\ w.mops = Append(m.mops, e)
  BY DEF Logs
<1>4. Handles(m) \subseteq t.live \ d /\ PayloadsOf(m.mops) \subseteq t.live \ (Handles(m) \cup d)
  BY <1>1 DEF Good, Stands, Records
<1>5. /\ OnePlace(w.mops)
      /\ PayloadsOf(w.mops) = IF e.type = "HEAP" THEN PayloadsOf(m.mops) \cup {e.at} ELSE PayloadsOf(m.mops)
  <2>1. e.type = "HEAP" => e.at \notin PayloadsOf(m.mops)
    BY <1>2, <1>4
  <2>2. OnePlace(m.mops)
    BY <1>1 DEF Good, Records
  <2> QED BY <1>1, <1>3, <2>1, <2>2, AppendPayload
<1>6. Handles(w) = Handles(m)
  BY DEF Logs, Handles
<1>7. Stands(u, w, d)
  <2>1. w.self \in t.live /\ w.core \in t.live /\ w.ops \in t.live
    BY <1>4, <1>6 DEF Handles
  <2> QED BY <1>1, <1>2, <1>3, <1>4, <1>6, <2>1 DEF Good, Stands, Logs
<1>8. Records(u, w, d)
  BY <1>1, <1>2, <1>4, <1>5, <1>6 DEF Records
<1>9. Counts(w)
  <2>1. /\ Total(Append(m.mops, e), CORE) = Total(m.mops, CORE) + Weight(e, CORE)
        /\ Total(Append(m.mops, e), HEAP) = Total(m.mops, HEAP) + Weight(e, HEAP)
    <3>1. Sized(McMop)
      BY McMopFacts
    <3> QED BY <1>1, <1>3, <3>1, AppendTotal
  <2> QED BY <1>1, <1>3, <2>1 DEF Good, Counts, Logs
<1>10. ASSUME ~nest PROVE Tidy(u, w) /\ AtEnd(w)
  <2>1. Packed(m.mops) /\ Cut(m.mops, Len(m.mops)) /\ (t.on => Quiet(t, PayloadsOf(m.mops)))
    BY <1>1, <1>10 DEF Tidy, AtEnd
  <2>2. e.type = "CORE" => e.at = Total(m.mops, CORE)
    BY <1>1 DEF Good, Counts
  <2>3. Packed(w.mops) /\ Cut(w.mops, Len(m.mops) + 1)
    BY <1>1, <1>3, <2>1, <2>2, AppendPacked
  <2>4. Len(w.mops) = Len(m.mops) + 1
    BY <1>1, <1>3, AppendProperties
  <2>5. u.on => Quiet(u, PayloadsOf(w.mops))
    BY <1>2, <1>4, <1>5, <2>1 DEF Quiet
  <2> QED BY <2>3, <2>4, <2>5 DEF Tidy, AtEnd
<1> QED BY <1>2, <1>3, <1>7, <1>8, <1>9, <1>10 DEF Settled, Good

LEMMA EnsureSettled ==
  ASSUME NEW nest \in BOOLEAN, NEW t, NEW m \in McoreType, NEW d, Settled(nest, t, m, d),
         NEW r \in McEnsureCapacity(t, m)
  PROVE  /\ Settled(nest, r.t, r.mc, d) /\ r.mc \in McoreType /\ SameLog(m, r.mc)
         /\ r.err \in {"ok", "ENOMEM", "EOVERFLOW"}
<1>1. /\ Sound(t) /\ d \subseteq t.live /\ Good(t, m, d)
      /\ nest \/ (Tidy(t, m) /\ AtEnd(m))
  BY McoreIsNot DEF Settled
<1>2. /\ Sound(r.t) /\ d \subseteq r.t.live /\ Good(r.t, r.mc, d) /\ SameLog(m, r.mc)
      /\ r.err \in {"ok", "ENOMEM", "EOVERFLOW"}
      /\ Unmoved(t, r.t, PayloadsOf(m.mops))
  BY <1>1, McEnsureGood
<1>3. r.mc.mops = m.mops /\ r.mc \in McoreType
  BY <1>2 DEF SameLog, Good, Stands
<1>4. Tidy(t, m) => Tidy(r.t, r.mc)
  BY <1>2, <1>3 DEF Tidy, Quiet, Unmoved
<1>5. AtEnd(m) => AtEnd(r.mc)
  BY <1>3 DEF AtEnd
<1> QED BY <1>1, <1>2, <1>3, <1>4, <1>5 DEF Settled

LEMMA PushSettled ==
  ASSUME NEW nest \in BOOLEAN, NEW t, NEW m \in McoreType, NEW d, Settled(nest, t, m, d),
         NEW o \in McPushOutcomes(t, m)
  PROVE  /\ Settled(nest, o.t, o.mc, d) /\ o.err \in {"ok", "ENOMEM", "EOVERFLOW"}
<1>1. PICK r \in McEnsureCapacity(t, m) :
        o = IF r.err # "ok" THEN r ELSE Step(r.t, McAddReserved(r.mc, "MARK", 0, NULL), "ok")
  BY DEF McPushOutcomes
<1>2. /\ Settled(nest, r.t, r.mc, d) /\ r.mc \in McoreType
      /\ r.err \in {"ok", "ENOMEM", "EOVERFLOW"}
  BY EnsureSettled
<1>3. CASE r.err = "ok"
  <2> DEFINE e == [type |-> "MARK", nbytes |-> 0, at |-> NULL]
             w == [r.mc EXCEPT !.mops = Append(@, e)]
  <2>1. o.t = r.t /\ o.mc = w /\ o.err = "ok"
    BY <1>1, <1>3 DEF Step, McAddReserved
  <2>2. e \in McMop /\ e.type = "MARK" /\ Weight(e, CORE) = 0 /\ Weight(e, HEAP) = 0
    BY Constants DEF McMop, Weight, CORE, HEAP, Size
  <2> HIDE DEF e
  <2>3. w \in McoreType /\ w.mops = Append(r.mc.mops, e)
        /\ w.self = r.mc.self /\ w.core = r.mc.core /\ w.ops = r.mc.ops
        /\ w.corecpos = r.mc.corecpos /\ w.ccur = r.mc.ccur /\ w.hcur = r.mc.hcur
    <3>1. Append(r.mc.mops, e) \in Seq(McMop)
      BY <1>2, <2>2, McoreFacts, AppendProperties
    <3> QED BY <1>2, <3>1 DEF McoreType
  <2> HIDE DEF w
  <2>4. Logs(r.mc, w, e)
    <3>1. /\ r.mc.corecpos \in Nat /\ r.mc.ccur \in Nat /\ r.mc.hcur \in Nat
      BY <1>2, Constants, McoreFacts DEF Size
    <3>2. r.mc.corecpos <= CoreSize
      BY <1>2, McoreIsNot DEF Settled, Good, Counts
    <3> QED BY <2>2, <2>3, <3>1, <3>2 DEF Logs
  <2>5. Settled(nest, r.t, w, d)
    BY <1>2, <2>2, <2>4, LogSettled
  <2> QED BY <2>1, <2>5
<1> QED BY <1>1, <1>2, <1>3

LEMMA ServeSettled ==
  ASSUME NEW nest \in BOOLEAN, NEW t, NEW m \in McoreType, NEW d, Settled(nest, t, m, d),
         NEW n \in Nat, McCanAdd(m, Source(m, n), n), NEW o \in Serve(t, m, n)
  PROVE  /\ Settled(nest, o.t, o.mc, d) /\ o.err \in {"ok", "ENOMEM", "EOVERFLOW"}
<1>1. /\ m.corecpos \in Nat /\ m.ccur \in Nat /\ m.hcur \in Nat /\ m.cnum \in Nat /\ m.hnum \in Nat
      /\ m.csize \in Nat /\ m.hsize \in Nat /\ m.mops \in Seq(McMop)
  BY Constants, McoreFacts DEF Size
<1>2. Sound(t) /\ m.corecpos <= CoreSize
  BY McoreIsNot DEF Settled, Good, Counts
<1>3. n \in Size
  BY Constants DEF McCanAdd, Size
<1>4. CASE Source(m, n) = "CORE"
  <2> DEFINE e == [type |-> "CORE", nbytes |-> n, at |-> m.corecpos]
             w == [m EXCEPT !.mops = Append(@, e), !.corecpos = m.corecpos + n,
                            !.cnum = m.cnum + 1, !.csize = m.csize + n, !.ccur = m.ccur + n]
  <2>1. o.t = t /\ o.mc = w /\ o.err = "ok"
    <3>1. o = Step(t, McAddReserved([m EXCEPT !.corecpos = @ + n], "CORE", n, m.corecpos), "ok")
      BY <1>4 DEF Serve
    <3> QED BY <3>1 DEF Step, McAddReserved, McoreType
  <2>2. /\ m.corecpos + n <= CoreSize /\ m.corecpos + n \in Size
        /\ m.cnum + 1 \in Size /\ m.csize + n \in Size /\ m.ccur + n \in Size
    <3>1. m.corecpos <= CoreSize /\ n < CoreSize - m.corecpos
      BY <1>4 DEF Source
    <3>2. McCanAdd(m, "CORE", n)
      BY <1>4
    <3>3. m.cnum < SizeMax /\ m.csize <= SizeMax - n /\ m.ccur <= SizeMax - n
      BY <3>2 DEF McCanAdd, Fits
    <3>4. SizeMax \in Nat /\ CoreSize \in Nat /\ CoreSize <= SizeMax
      BY Constants DEF Size
    <3>5. m.corecpos + n <= CoreSize /\ m.corecpos + n <= SizeMax /\ m.corecpos + n \in Nat
      BY SMTT(30), <1>1, <3>1, <3>4
    <3>6. m.cnum + 1 <= SizeMax /\ m.cnum + 1 \in Nat
      BY <1>1, <3>3, <3>4
    <3>7. m.csize + n <= SizeMax /\ m.csize + n \in Nat
      BY <1>1, <3>3, <3>4
    <3>8. m.ccur + n <= SizeMax /\ m.ccur + n \in Nat
      BY <1>1, <3>3, <3>4
    <3> QED BY <3>4, <3>5, <3>6, <3>7, <3>8 DEF Size
  <2>3. e \in McMop /\ e.type = "CORE" /\ e.at = m.corecpos /\ Weight(e, CORE) = n /\ Weight(e, HEAP) = 0
    BY <1>1, <1>2, <1>3 DEF McMop, Weight, CORE, HEAP, CoreOffset
  <2> HIDE DEF e
  <2>4. w \in McoreType /\ w.mops = Append(m.mops, e)
        /\ w.self = m.self /\ w.core = m.core /\ w.ops = m.ops
        /\ w.corecpos = m.corecpos + n /\ w.ccur = m.ccur + n /\ w.hcur = m.hcur
    <3>1. Append(m.mops, e) \in Seq(McMop)
      BY <1>1, <2>3, AppendProperties
    <3> QED BY <2>2, <3>1 DEF McoreType
  <2> HIDE DEF w
  <2>5. Logs(m, w, e)
    BY <1>1, <2>2, <2>3, <2>4 DEF Logs
  <2>6. Settled(nest, t, w, d)
    BY <2>3, <2>5, LogSettled
  <2> QED BY <2>1, <2>6
<1>5. CASE Source(m, n) = "HEAP"
  <2>1. PICK r \in MallocNosignal(t, n) :
          o = IF r.err # "ok" THEN Step(r.t, m, r.err)
              ELSE Step(r.t, McAddReserved(m, "HEAP", n, r.ptr), "ok")
    BY <1>5 DEF Serve
  <2>2. Allocates(t, r) /\ Sound(r.t)
    BY <1>2, <1>3, MallocAllocates, MallocSound DEF SoundOutcome
  <2>3. CASE r.err # "ok"
    <3>1. o.t = r.t /\ o.mc = m /\ o.err = r.err
      BY <2>1, <2>3 DEF Step
    <3>2. Settled(nest, r.t, m, d)
      <4>1. r.t.live = t.live /\ Unmoved(t, r.t, t.live)
        BY <2>2, <2>3 DEF Allocates
      <4>2. /\ Good(t, m, d) /\ d \subseteq t.live /\ (nest \/ (Tidy(t, m) /\ AtEnd(m)))
        BY McoreIsNot DEF Settled
      <4>3. Handles(m) \subseteq t.live /\ PayloadsOf(m.mops) \subseteq t.live
        BY <4>2 DEF Good, Stands, Records
      <4>4. Good(r.t, m, d)
        BY <4>1, <4>2, <4>3, GoodElsewhere DEF Unmoved
      <4>5. Tidy(t, m) => Tidy(r.t, m)
        BY <4>1, <4>3 DEF Tidy, Quiet, Unmoved
      <4> QED BY <2>2, <4>1, <4>2, <4>4, <4>5 DEF Settled
    <3> QED BY <2>2, <3>1, <3>2 DEF Allocates
  <2>4. CASE r.err = "ok"
    <3> DEFINE p == r.ptr
               e == [type |-> "HEAP", nbytes |-> n, at |-> p]
               w == [m EXCEPT !.mops = Append(@, e), !.hnum = m.hnum + 1,
                              !.hsize = m.hsize + n, !.hcur = m.hcur + n]
    <3>1. o.t = r.t /\ o.mc = w /\ o.err = "ok"
      BY <2>1, <2>4 DEF Step, McAddReserved, McoreType
    <3>2. /\ p \in Ptr \ t.live /\ r.t.live = t.live \cup {p} /\ Unmoved(t, r.t, t.live)
          /\ t.on => Home(r.t.mops, p) = {MarkSet(t.mops)}
      BY <2>2, <2>4 DEF Allocates
    <3> HIDE DEF p
    <3>3. m.hnum + 1 \in Size /\ m.hsize + n \in Size /\ m.hcur + n \in Size
      <4>1. McCanAdd(m, "HEAP", n)
        BY <1>5
      <4>2. m.hnum < SizeMax /\ m.hsize <= SizeMax - n /\ m.hcur <= SizeMax - n
        BY <4>1 DEF McCanAdd, Fits
      <4>3. SizeMax \in Nat
        BY Constants
      <4>4. m.hnum \in Nat /\ m.hsize \in Nat /\ m.hcur \in Nat /\ n \in Nat
        BY <1>1 DEF Size
      <4> QED BY ONLY <4>2, <4>3, <4>4 DEF Size
    <3>4. e \in McMop /\ e.type = "HEAP" /\ e.at = p /\ Weight(e, CORE) = 0 /\ Weight(e, HEAP) = n
      BY <1>3, <3>2 DEF McMop, Weight, CORE, HEAP
    <3> HIDE DEF e
    <3>5. w \in McoreType /\ w.mops = Append(m.mops, e)
          /\ w.self = m.self /\ w.core = m.core /\ w.ops = m.ops
          /\ w.corecpos = m.corecpos /\ w.ccur = m.ccur /\ w.hcur = m.hcur + n
      <4>1. Append(m.mops, e) \in Seq(McMop)
        BY <1>1, <3>4, AppendProperties
      <4> QED BY <3>3, <4>1 DEF McoreType
    <3> HIDE DEF w
    <3>6. Logs(m, w, e)
      BY <1>1, <1>2, <3>4, <3>5 DEF Logs
    <3>7. Settled(nest, r.t, w, d)
      BY <2>2, <3>2, <3>4, <3>6, LogSettled
    <3> QED BY <3>1, <3>7
  <2> QED BY <2>3, <2>4
<1> QED BY <1>4, <1>5 DEF Source

LEMMA McMallocSettled ==
  ASSUME NEW nest \in BOOLEAN, NEW t, NEW m \in McoreType, NEW d, Settled(nest, t, m, d),
         NEW nbytes \in Requests, NEW o \in McMallocOutcomes(t, m, nbytes)
  PROVE  /\ Settled(nest, o.t, o.mc, d) /\ o.err \in {"ok", "ENOMEM", "EOVERFLOW"}
<1> DEFINE n == nbytes + Padding(nbytes)
<1>1. n \in Nat
  <2>1. nbytes \in Nat /\ Align \in Nat \ {0}
    BY Constants DEF Size
  <2>2. nbytes % Align \in 0 .. Align - 1
    BY <2>1
  <2>3. Padding(nbytes) \in Nat
    BY <2>1, <2>2 DEF Padding
  <2> QED BY <2>1, <2>3
<1>2. CASE o = Step(t, m, "EOVERFLOW")
  BY <1>2 DEF Step
<1>3. ASSUME McCanAdd(m, Source(m, n), n), NEW r \in McEnsureCapacity(t, m),
             IF r.err # "ok" THEN o = r ELSE o \in Serve(r.t, r.mc, n)
      PROVE  /\ Settled(nest, o.t, o.mc, d) /\ o.err \in {"ok", "ENOMEM", "EOVERFLOW"}
  <2> HIDE DEF n
  <2>1. /\ Settled(nest, r.t, r.mc, d) /\ r.mc \in McoreType /\ SameLog(m, r.mc)
        /\ r.err \in {"ok", "ENOMEM", "EOVERFLOW"}
    BY EnsureSettled
  <2>2. McCanAdd(r.mc, Source(r.mc, n), n)
    BY <1>3, <2>1 DEF McCanAdd, Source, SameLog
  <2> QED BY <1>1, <1>3, <2>1, <2>2, ServeSettled
<1> QED BY <1>2, <1>3 DEF McMallocOutcomes
-----------------------------------------------------------------------------
(* Also within a pop.                                                      *)
Whole(nest, t, m, d) ==
  /\ Sound(t) /\ d \subseteq t.live
  /\ m = NoMcore \/ (m \in McoreType /\ Good(t, m, d) /\ (nest \/ Tidy(t, m)))

LEMMA WholeSettled ==
  ASSUME NEW nest, NEW t, NEW m, NEW d
  PROVE  Settled(nest, t, m, d) <=> Whole(nest, t, m, d) /\ (m # NoMcore => nest \/ AtEnd(m))
BY McoreIsNot DEF Settled, Whole

LEMMA GoodLess ==
  ASSUME NEW t, NEW m, NEW d, Good(t, m, d), NEW c, c \subseteq d
  PROVE  Good(t, m, c)
<1>1. Stands(t, m, c)
  BY DEF Good, Stands
<1>2. Records(t, m, c)
  BY DEF Good, Records
<1> QED BY <1>1, <1>2 DEF Good

(* What happens to other blocks in the same frames.                        *)
LEMMA SettledElsewhere ==
  ASSUME NEW nest, NEW t, NEW m, NEW d, Settled(nest, t, m, d), NEW c, c \subseteq d,
         NEW u, Sound(u), c \subseteq u.live, nest \/ m = NoMcore \/ (u.on = t.on /\ MarkSet(u.mops) = MarkSet(t.mops)),
         m # NoMcore => \A q \in Handles(m) \cup PayloadsOf(m.mops) :
                          q \in u.live /\ Home(u.mops, q) = Home(t.mops, q)
  PROVE  Settled(nest, u, m, c)
<1>1. CASE m = NoMcore
  BY <1>1 DEF Settled
<1>2. CASE m # NoMcore
  <2>1. Good(t, m, d) /\ m \in McoreType /\ (nest \/ (Tidy(t, m) /\ AtEnd(m)))
    BY <1>2 DEF Settled
  <2>2. Good(u, m, c)
    BY <1>2, <2>1, GoodElsewhere, GoodLess
  <2>3. nest \/ Tidy(u, m)
    BY <1>2, <2>1 DEF Tidy, Quiet
  <2> QED BY <2>1, <2>2, <2>3 DEF Settled
<1> QED BY <1>1, <1>2
-----------------------------------------------------------------------------
LEMMA EmptyLog ==
  /\ <<>> \in Seq(McMop) /\ Len(<<>>) = 0 /\ DOMAIN <<>> = {}
  /\ \A T : Total(<<>>, T) = 0
  /\ OnePlace(<<>>) /\ PayloadsOf(<<>>) = {} /\ Packed(<<>>) /\ Cut(<<>>, 0)
<1>1. <<>> \in Seq(McMop) /\ Len(<<>>) = 0 /\ DOMAIN <<>> = {}
  BY EmptySeq
<1>2. \A T : Total(<<>>, T) = 0
  BY <1>1, McMopFacts, BelowLaws DEF Total
<1>3. HeapOf(<<>>) = {} /\ CoreOf(<<>>) = {} /\ MarkSet(<<>>) = {}
  BY <1>1 DEF HeapOf, CoreOf, MarkSet
<1>4. OnePlace(<<>>) /\ PayloadsOf(<<>>) = {} /\ Packed(<<>>) /\ Cut(<<>>, 0)
  BY <1>3 DEF OnePlace, PayloadsOf, Packed, Cut
<1> QED BY <1>1, <1>2, <1>4

(* A failed gk_mcoreCreate frees what it had staged, and nothing else.     *)
LEMMA CreateSettled ==
  ASSUME NEW nest, NEW t, NEW d, Settled(nest, t, NoMcore, d), NEW r \in CreateOutcomes(t)
  PROVE  /\ Settled(nest, r.t, r.mc, d) /\ r.err \in {"ok", "ENOMEM", "EOVERFLOW"}
<1>1. Sound(t) /\ d \subseteq t.live
  BY DEF Settled
<1>2. ASSUME NEW u, Sound(u), t.live \subseteq u.live, NEW e \in {"ENOMEM", "EOVERFLOW"},
             r = Step(u, NoMcore, e)
      PROVE  /\ Settled(nest, r.t, r.mc, d) /\ r.err \in {"ok", "ENOMEM", "EOVERFLOW"}
  BY <1>1, <1>2 DEF Settled, Step
<1>3. PICK s \in MallocNosignal(t, StructBytes) :
        IF s.err # "ok" THEN r = Step(s.t, NoMcore, s.err)
        ELSE \E c \in MallocNosignal(s.t, CoreSize) :
               IF c.err # "ok" THEN r = Step(GkFree(c.t, <<s.ptr>>).t, NoMcore, c.err)
               ELSE \E o \in MallocNosignal(c.t, InitMops * MopBytes) :
                      r = IF o.err # "ok"
                          THEN Step(GkFree(o.t, <<c.ptr, s.ptr>>).t, NoMcore, o.err)
                          ELSE Step(o.t, NewMcore(s.ptr, c.ptr, o.ptr), "ok")
  <2> DEFINE Last3(s, c) ==
               {IF o.err # "ok" THEN Step(GkFree(o.t, <<c.ptr, s.ptr>>).t, NoMcore, o.err)
                ELSE Step(o.t, NewMcore(s.ptr, c.ptr, o.ptr), "ok") :
                  o \in MallocNosignal(c.t, InitMops * MopBytes)}
             Last2(s) ==
               UNION {IF c.err # "ok" THEN {Step(GkFree(c.t, <<s.ptr>>).t, NoMcore, c.err)}
                      ELSE Last3(s, c) : c \in MallocNosignal(s.t, CoreSize)}
  <2>1. PICK s \in MallocNosignal(t, StructBytes) :
          r \in IF s.err # "ok" THEN {Step(s.t, NoMcore, s.err)} ELSE Last2(s)
    BY DEF CreateOutcomes
  <2>2. ASSUME r \in Last2(s)
        PROVE  \E c \in MallocNosignal(s.t, CoreSize) :
                 r \in IF c.err # "ok" THEN {Step(GkFree(c.t, <<s.ptr>>).t, NoMcore, c.err)} ELSE Last3(s, c)
    <3> HIDE DEF Last3
    <3> QED BY <2>2
  <2>3. CASE s.err # "ok"
    BY <2>1, <2>3
  <2>4. CASE s.err = "ok"
    <3>1. PICK c \in MallocNosignal(s.t, CoreSize) :
            r \in IF c.err # "ok" THEN {Step(GkFree(c.t, <<s.ptr>>).t, NoMcore, c.err)} ELSE Last3(s, c)
      <4> HIDE DEF Last2, Last3
      <4> QED BY <2>1, <2>2, <2>4
    <3> QED BY <2>4, <3>1
  <2> QED BY <2>3, <2>4
<1>4. StructBytes \in Size /\ CoreSize \in Size /\ InitMops * MopBytes \in Size /\ InitMops \in Size
  BY Constants
<1>5. Allocates(t, s) /\ Sound(s.t)
  BY <1>1, <1>4, MallocAllocates, MallocSound DEF SoundOutcome
<1>6. CASE s.err # "ok"
  <2>1. t.live \subseteq s.t.live /\ s.err \in {"ENOMEM", "EOVERFLOW"}
    BY <1>5, <1>6 DEF Allocates
  <2> QED BY <1>2, <1>3, <1>5, <1>6, <2>1
<1>7. CASE s.err = "ok"
  <2>1. PICK c \in MallocNosignal(s.t, CoreSize) :
          IF c.err # "ok" THEN r = Step(GkFree(c.t, <<s.ptr>>).t, NoMcore, c.err)
          ELSE \E o \in MallocNosignal(c.t, InitMops * MopBytes) :
                 r = IF o.err # "ok"
                     THEN Step(GkFree(o.t, <<c.ptr, s.ptr>>).t, NoMcore, o.err)
                     ELSE Step(o.t, NewMcore(s.ptr, c.ptr, o.ptr), "ok")
    BY <1>3, <1>7
  <2>2. Allocates(s.t, c) /\ Sound(c.t)
    BY <1>4, <1>5, MallocAllocates, MallocSound DEF SoundOutcome
  <2> DEFINE self == s.ptr
  <2>3. /\ self \in Ptr \ t.live /\ s.t.live = t.live \cup {self}
        /\ Home(s.t.mops, self) = (IF t.on THEN {MarkSet(t.mops)} ELSE {})
        /\ s.t.on = t.on /\ MarkSet(s.t.mops) = MarkSet(t.mops)
    BY <1>5, <1>7 DEF Allocates, Unmoved
  <2>4. CASE c.err # "ok"
    <3> DEFINE u == GkFree(c.t, <<self>>).t
    <3>1. c.t.live = t.live \cup {self} /\ c.err \in {"ENOMEM", "EOVERFLOW"}
      BY <2>2, <2>3, <2>4 DEF Allocates
    <3>2. Frees(c.t, self, GkFree(c.t, <<self>>)) /\ Sound(u)
      BY <2>2, <2>3, GkFreeOne
    <3>3. t.live \subseteq u.live
      BY <2>3, <3>1, <3>2 DEF Frees
    <3>4. r = Step(u, NoMcore, c.err)
      BY <2>1, <2>4
    <3> HIDE DEF u
    <3> QED BY <1>2, <3>1, <3>2, <3>3, <3>4
  <2>5. CASE c.err = "ok"
    <3>1. PICK o \in MallocNosignal(c.t, InitMops * MopBytes) :
            r = IF o.err # "ok"
                THEN Step(GkFree(o.t, <<c.ptr, s.ptr>>).t, NoMcore, o.err)
                ELSE Step(o.t, NewMcore(s.ptr, c.ptr, o.ptr), "ok")
      BY <2>1, <2>5
    <3>2. Allocates(c.t, o) /\ Sound(o.t)
      BY <1>4, <2>2, MallocAllocates, MallocSound DEF SoundOutcome
    <3> DEFINE core == c.ptr
    <3>3. /\ core \in Ptr \ s.t.live /\ c.t.live = t.live \cup {self, core}
          /\ Home(c.t.mops, core) = (IF t.on THEN {MarkSet(t.mops)} ELSE {})
          /\ Home(c.t.mops, self) = Home(s.t.mops, self)
          /\ c.t.on = t.on /\ MarkSet(c.t.mops) = MarkSet(t.mops)
      BY <2>2, <2>3, <2>5 DEF Allocates, Unmoved
    <3>4. CASE o.err # "ok"
      <4> DEFINE u == GkFree(o.t, <<core, self>>).t
      <4>1. o.t.live = t.live \cup {self, core} /\ o.err \in {"ENOMEM", "EOVERFLOW"}
        BY <3>2, <3>3, <3>4 DEF Allocates
      <4>2. Sound(u) /\ o.t.live \ {core, self} \subseteq u.live
        BY <2>3, <3>2, <3>3, GkFreeTwo
      <4>3. t.live \subseteq u.live
        BY <2>3, <3>3, <4>1, <4>2
      <4>4. r = Step(u, NoMcore, o.err)
        BY <3>1, <3>4
      <4> HIDE DEF u
      <4> QED BY <1>2, <4>1, <4>2, <4>3, <4>4
    <3>5. CASE o.err = "ok"
      <4> DEFINE ops == o.ptr
                 m == NewMcore(self, core, ops)
      <4>1. r.t = o.t /\ r.mc = m /\ r.err = "ok"
        BY <3>1, <3>5 DEF Step
      <4>2. /\ ops \in Ptr \ c.t.live /\ o.t.live = t.live \cup {self, core, ops}
            /\ Home(o.t.mops, ops) = (IF t.on THEN {MarkSet(t.mops)} ELSE {})
            /\ Home(o.t.mops, self) = Home(c.t.mops, self)
            /\ Home(o.t.mops, core) = Home(c.t.mops, core)
        BY <3>2, <3>3, <3>5 DEF Allocates, Unmoved
      <4> HIDE DEF self, core, ops
      <4>3. /\ m \in McoreType /\ m.self = self /\ m.core = core /\ m.ops = ops /\ m.mops = <<>>
            /\ m.corecpos = 0 /\ m.ccur = 0 /\ m.hcur = 0
        <5>1. 0 \in Size /\ self \in Ptr /\ core \in Ptr /\ ops \in Ptr /\ <<>> \in Seq(McMop)
          BY <2>3, <3>3, <4>2, Constants, EmptyLog DEF Size
        <5> QED BY <1>4, <5>1 DEF NewMcore, McoreType
      <4> HIDE DEF m
      <4>4. Stands(o.t, m, d)
        <5>1. self # core /\ self # ops /\ core # ops
          BY <2>3, <3>3, <4>2
        <5>2. {self, core, ops} \subseteq o.t.live \ d
          BY <1>1, <2>3, <3>3, <4>2
        <5> QED BY <2>3, <3>3, <4>2, <4>3, <5>1, <5>2 DEF Stands, Handles
      <4>5. Records(o.t, m, d) /\ Counts(m)
        <5>1. 0 <= CoreSize
          BY Constants
        <5> QED BY <4>3, <5>1, EmptyLog DEF Records, Counts
      <4>6. Tidy(o.t, m) /\ AtEnd(m)
        BY <4>3, EmptyLog DEF Tidy, AtEnd, Quiet
      <4>7. d \subseteq o.t.live
        BY <1>1, <4>2
      <4>8. Settled(nest, o.t, m, d)
        BY <3>2, <4>3, <4>4, <4>5, <4>6, <4>7 DEF Settled, Good
      <4> QED BY <4>1, <4>8
    <3> QED BY <3>4, <3>5
  <2> QED BY <2>4, <2>5
<1> QED BY <1>6, <1>7
-----------------------------------------------------------------------------
(* A payload that is deleted passes to a new owner.                        *)
LEMMA DelSettled ==
  ASSUME NEW nest, NEW t, NEW m \in McoreType, NEW d, Settled(nest, t, m, d),
         NEW at, NEW i \in Deletable(m, at), NEW w, w = McDel(m, i)
  PROVE  Settled(nest, t, w, d \cup {at}) /\ w \in McoreType
<1>1. /\ Sound(t) /\ d \subseteq t.live /\ Good(t, m, d) /\ m.mops \in Seq(McMop)
      /\ nest \/ (Tidy(t, m) /\ AtEnd(m))
  BY McoreIsNot, McoreFacts DEF Settled
<1>2. /\ i \in DOMAIN m.mops /\ DOMAIN m.mops = 1 .. Len(m.mops) /\ Len(m.mops) \in Nat
      /\ m.mops[i].type = "HEAP" /\ m.mops[i].at = at /\ i \in McFrame(m)
      /\ m.mops[i] \in McMop /\ m.mops[i].nbytes \in Nat
  BY <1>1, McLogIs DEF Deletable, Last, McFrame
<1>3. i \in HeapOf(m.mops) /\ \A j \in MarkSet(m.mops) : j < i
  BY <1>2 DEF HeapOf, MarkSet, McFrame
<1> DEFINE mops == SwapOut(m.mops, i)
           n == m.mops[i].nbytes
<1>4. w = [m EXCEPT !.hcur = WordSub(m.hcur, n), !.mops = mops]
  BY DEF McDel, SwapOut
<1>5. /\ mops \in Seq(McMop) /\ Len(mops) = Len(m.mops) - 1
      /\ Total(m.mops, CORE) = Total(mops, CORE) + Weight(m.mops[i], CORE)
      /\ Total(m.mops, HEAP) = Total(mops, HEAP) + Weight(m.mops[i], HEAP)
  <2>1. Sized(McMop) /\ i \in 1 .. Len(m.mops)
    BY <1>2, McMopFacts
  <2> HIDE DEF mops
  <2>2. /\ SwapOut(m.mops, i) \in Seq(McMop) /\ Len(SwapOut(m.mops, i)) = Len(m.mops) - 1
        /\ Total(m.mops, CORE) = Total(SwapOut(m.mops, i), CORE) + Weight(m.mops[i], CORE)
        /\ Total(m.mops, HEAP) = Total(SwapOut(m.mops, i), HEAP) + Weight(m.mops[i], HEAP)
    BY <1>1, <2>1, SwapOutTotal
  <2> QED BY <2>2 DEF mops
<1>6. Weight(m.mops[i], CORE) = 0 /\ Weight(m.mops[i], HEAP) = n
  BY <1>2 DEF Weight, CORE, HEAP
<1>7. OnePlace(mops) /\ PayloadsOf(mops) = PayloadsOf(m.mops) \ {at} /\ at \in PayloadsOf(m.mops)
  <2>1. OnePlace(m.mops)
    BY <1>1 DEF Good, Records
  <2>2. at \in PayloadsOf(m.mops)
    BY <1>2, <1>3 DEF PayloadsOf
  <2> QED BY <1>1, <1>2, <1>3, <2>1, <2>2, SwapOutPayload
<1>8. ASSUME ~nest PROVE Packed(mops) /\ Cut(mops, Len(mops))
  <2>1. Packed(m.mops) /\ Cut(m.mops, Len(m.mops))
    BY <1>1, <1>8 DEF Tidy, AtEnd
  <2>2. Packed(SwapOut(m.mops, i)) /\ Cut(SwapOut(m.mops, i), Len(m.mops) - 1)
    BY <1>1, <1>3, <2>1, SwapOutPacked
  <2> QED BY <1>5, <2>2
<1>9. Total(mops, HEAP) \in Nat /\ Total(mops, CORE) \in Nat
  BY <1>5, McLogIs
<1> HIDE DEF mops, n
<1>10. m.hcur \in Nat /\ m.hcur \in Size /\ SizeMax \in Nat /\ n \in Nat
  BY <1>2, Constants, McoreFacts DEF Size, n
<1>11. m.hcur = Total(m.mops, HEAP) /\ m.corecpos = Total(m.mops, CORE) /\ m.ccur = m.corecpos
       /\ m.corecpos <= CoreSize
  BY <1>1 DEF Good, Counts
<1>12. WordSub(m.hcur, n) = Total(mops, HEAP) /\ WordSub(m.hcur, n) \in Size
  <2>1. n <= m.hcur /\ m.hcur - n = Total(mops, HEAP) /\ m.hcur <= SizeMax
    BY <1>5, <1>6, <1>9, <1>10, <1>11 DEF Size
  <2>2. WordSub(m.hcur, n) = m.hcur - n
    BY <2>1 DEF WordSub
  <2>3. m.hcur - n \in 0 .. SizeMax
    BY <1>9, <1>10, <2>1
  <2> QED BY <2>1, <2>2, <2>3 DEF Size
<1>13. /\ w \in McoreType /\ w.mops = mops /\ w.hcur = Total(mops, HEAP)
       /\ w.self = m.self /\ w.core = m.core /\ w.ops = m.ops
       /\ w.corecpos = m.corecpos /\ w.ccur = m.ccur
  BY <1>4, <1>5, <1>12 DEF McoreType
<1>14. Handles(w) = Handles(m)
  BY <1>13 DEF Handles
<1>15. /\ PayloadsOf(m.mops) \subseteq t.live \ (Handles(m) \cup d) /\ Handles(m) \subseteq t.live \ d
  BY <1>1 DEF Good, Records, Stands
<1>16. Stands(t, w, d \cup {at})
  BY <1>1, <1>7, <1>13, <1>14, <1>15 DEF Good, Stands
<1>17. Records(t, w, d \cup {at})
  BY <1>7, <1>13, <1>14, <1>15 DEF Records
<1>18. Counts(w)
  BY <1>5, <1>6, <1>9, <1>11, <1>13 DEF Counts
<1>19. ASSUME ~nest PROVE Tidy(t, w) /\ AtEnd(w)
  BY <1>1, <1>7, <1>8, <1>13, <1>19 DEF Tidy, AtEnd, Quiet
<1> QED BY <1>1, <1>7, <1>13, <1>15, <1>16, <1>17, <1>18, <1>19 DEF Settled, Good

(* And its owner frees it.                                                 *)
LEMMA FreeDetachedSettled ==
  ASSUME NEW nest, NEW t, NEW m, NEW d, Settled(nest, t, m, d), NEW p \in Ptr, p \in d,
         NEW o \in FreeNosignal(t, p)
  PROVE  /\ Settled(nest, o.t, m, IF o.err = "ok" THEN d \ {p} ELSE d)
         /\ o.err \in {"ok", "EINVAL"} /\ (o.err # "ok" => o.t = t)
<1>1. Sound(t) /\ d \subseteq t.live
  BY DEF Settled
<1>2. Frees(t, p, o) /\ Sound(o.t)
  BY <1>1, FreeFrees, FreeSound DEF SoundOutcome
<1>3. CASE o.err # "ok"
  BY <1>2, <1>3 DEF Frees
<1>4. CASE o.err = "ok"
  <2>1. /\ o.t.live = t.live \ {p} /\ o.t.on = t.on /\ MarkSet(o.t.mops) = MarkSet(t.mops)
        /\ \A q \in Ptr \ {p} : Home(o.t.mops, q) = Home(t.mops, q)
    BY <1>2, <1>4 DEF Frees, Unmoved
  <2>2. ASSUME m # NoMcore, NEW q \in Handles(m) \cup PayloadsOf(m.mops)
        PROVE  q \in o.t.live /\ Home(o.t.mops, q) = Home(t.mops, q)
    <3>1. q \in t.live \ d
      BY <2>2 DEF Settled, Good, Stands, Records
    <3>2. q \in Ptr
      BY <1>1, <3>1 DEF Sound, Tracker
    <3> QED BY <2>1, <3>1, <3>2
  <2>3. d \ {p} \subseteq o.t.live
    BY <1>1, <2>1
  <2>4. Settled(nest, o.t, m, d \ {p})
    BY <1>2, <2>1, <2>2, <2>3, SettledElsewhere
  <2> QED BY <1>4, <2>4
<1> QED BY <1>3, <1>4
-----------------------------------------------------------------------------
(* A record taken from the end of the log, with the block of a heap record *)
(* when the tracker gives it up.                                           *)
Gone(e) == IF e.type = "HEAP" THEN {e.at} ELSE {}
LosesOnly(t, u, blocks) ==
  /\ Sound(u) /\ u.on = t.on /\ MarkSet(u.mops) = MarkSet(t.mops) /\ u.live = t.live \ blocks
  /\ \A q \in Ptr \ blocks : Home(u.mops, q) = Home(t.mops, q)
PopsTo(m, top, w) ==
  /\ w \in McoreType /\ w.mops = Front(m.mops)
  /\ w.self = m.self /\ w.core = m.core /\ w.ops = m.ops
  /\ w.corecpos = m.corecpos - Weight(top, CORE) /\ w.ccur = m.ccur - Weight(top, CORE)
  /\ w.hcur = m.hcur - Weight(top, HEAP)

LEMMA PopSettled ==
  ASSUME NEW nest, NEW t, NEW m \in McoreType, NEW d, Whole(nest, t, m, d), m.mops # <<>>,
         NEW top, top = m.mops[Len(m.mops)],
         NEW u, LosesOnly(t, u, Gone(top)), NEW w, PopsTo(m, top, w)
  PROVE  /\ Whole(nest, u, w, d)
         /\ top.type = "MARK" \/ w.mops = <<>> => (nest \/ AtEnd(w))
<1> DEFINE gone == Gone(top)
<1>0. /\ Sound(u) /\ u.on = t.on /\ MarkSet(u.mops) = MarkSet(t.mops)
      /\ gone = (IF top.type = "HEAP" THEN {top.at} ELSE {}) /\ u.live = t.live \ gone
      /\ \A q \in Ptr \ gone : Home(u.mops, q) = Home(t.mops, q)
      /\ w \in McoreType /\ w.mops = Front(m.mops)
      /\ w.self = m.self /\ w.core = m.core /\ w.ops = m.ops
      /\ w.corecpos = m.corecpos - Weight(top, CORE) /\ w.ccur = m.ccur - Weight(top, CORE)
      /\ w.hcur = m.hcur - Weight(top, HEAP)
  BY DEF LosesOnly, PopsTo, Gone
<1> HIDE DEF gone
<1> USE <1>0
<1>1. /\ Sound(t) /\ d \subseteq t.live /\ Good(t, m, d) /\ m.mops \in Seq(McMop)
      /\ nest \/ Tidy(t, m)
  BY McoreIsNot, McoreFacts DEF Whole
<1>2. /\ Len(m.mops) \in 1 .. Len(m.mops) /\ top \in McMop /\ top.nbytes \in Nat
      /\ top.type \in {"MARK", "CORE", "HEAP"} /\ Len(w.mops) = Len(m.mops) - 1
  <2>1. Len(m.mops) \in Nat /\ Len(m.mops) >= 1 /\ Len(w.mops) = Len(m.mops) - 1
    BY <1>1, FrontIs
  <2>2. Len(m.mops) \in 1 .. Len(m.mops)
    BY <2>1
  <2> QED BY <1>1, <2>1, <2>2, McLogIs
<1>3. /\ OnePlace(w.mops) /\ PayloadsOf(w.mops) = PayloadsOf(m.mops) \ gone
      /\ gone \subseteq PayloadsOf(m.mops)
  <2>1. OnePlace(m.mops)
    BY <1>1 DEF Good, Records
  <2>2. /\ OnePlace(Front(m.mops))
        /\ PayloadsOf(Front(m.mops)) = IF m.mops[Len(m.mops)].type = "HEAP"
                                       THEN PayloadsOf(m.mops) \ {m.mops[Len(m.mops)].at}
                                       ELSE PayloadsOf(m.mops)
        /\ m.mops[Len(m.mops)].type = "HEAP" => m.mops[Len(m.mops)].at \in PayloadsOf(m.mops)
    BY <1>1, <2>1, PopPayload
  <2> QED BY <2>2
<1>4. PayloadsOf(m.mops) \subseteq t.live \ (Handles(m) \cup d) /\ Handles(m) \subseteq t.live \ d
  BY <1>1 DEF Good, Records, Stands
<1>5. Handles(w) = Handles(m) /\ t.live \subseteq Ptr
  BY <1>1 DEF Handles, Sound, Tracker
<1>6. Stands(u, w, d)
  <2>1. \A q \in Handles(m) : q \in u.live /\ Home(u.mops, q) = Home(t.mops, q)
    BY <1>3, <1>4, <1>5
  <2>2. /\ Home(u.mops, m.self) = Home(t.mops, m.self) /\ Home(u.mops, m.core) = Home(t.mops, m.core)
        /\ Home(u.mops, m.ops) = Home(t.mops, m.ops)
    BY <2>1 DEF Handles
  <2> QED BY <1>1, <1>4, <1>5, <2>1, <2>2 DEF Good, Stands
<1>7. Records(u, w, d)
  BY <1>3, <1>4, <1>5 DEF Records
<1>8. Counts(w)
  <2>1. /\ Total(m.mops, CORE) = Total(w.mops, CORE) + Weight(top, CORE)
        /\ Total(m.mops, HEAP) = Total(w.mops, HEAP) + Weight(top, HEAP)
    <3>1. Sized(McMop)
      BY McMopFacts
    <3> QED BY <1>1, <3>1, PopTotal DEF Front
  <2>2. /\ Total(w.mops, CORE) \in Nat /\ Total(w.mops, HEAP) \in Nat
        /\ Weight(top, CORE) \in Nat /\ Weight(top, HEAP) \in Nat
    <3>1. w.mops \in Seq(McMop)
      BY McoreFacts
    <3> QED BY <1>2, <3>1, McLogIs DEF Weight
  <2>3. /\ m.corecpos = Total(m.mops, CORE) /\ m.ccur = m.corecpos /\ m.corecpos <= CoreSize
        /\ m.hcur = Total(m.mops, HEAP)
    BY <1>1 DEF Good, Counts
  <2>4. CoreSize \in Nat
    BY Constants
  <2> QED BY <2>1, <2>2, <2>3, <2>4 DEF Counts
<1>9. ASSUME ~nest
      PROVE  Tidy(u, w) /\ (top.type = "MARK" \/ w.mops = <<>> => AtEnd(w))
  <2>1. Packed(m.mops) /\ (t.on => Quiet(t, PayloadsOf(m.mops)))
    BY <1>1, <1>9 DEF Tidy
  <2>2. Packed(w.mops) /\ (top.type = "MARK" \/ w.mops = <<>> => Cut(w.mops, Len(m.mops) - 1))
    BY <1>1, <2>1, PopPacked
  <2>3. u.on => Quiet(u, PayloadsOf(w.mops))
    BY <1>3, <1>4, <1>5, <2>1 DEF Quiet
  <2> QED BY <1>2, <2>2, <2>3 DEF Tidy, AtEnd
<1>10. d \subseteq u.live
  BY <1>1, <1>3, <1>4
<1> QED BY <1>6, <1>7, <1>8, <1>9, <1>10 DEF Whole, Good

LEMMA PopTurnSettled ==
  ASSUME NEW nest \in BOOLEAN, NEW t, NEW m \in McoreType, NEW d, Whole(nest, t, m, d), m.mops # <<>>,
         NEW o, o = McPopTurn(t, m)
  PROVE  /\ Whole(nest, o.t, o.mc, d) /\ o.mc \in McoreType /\ o.err \in {"ok", "EINVAL"}
         /\ o.err # "ok" => o.t = t /\ o.mc = m /\ nest
         /\ o.err = "ok" /\ (m.mops[Len(m.mops)].type = "MARK" \/ o.mc.mops = <<>>)
              => (nest \/ AtEnd(o.mc))
<1> DEFINE top == m.mops[Len(m.mops)]
           n == top.nbytes
           mops == Front(m.mops)
<1>1. /\ Sound(t) /\ d \subseteq t.live /\ Good(t, m, d) /\ m.mops \in Seq(McMop)
      /\ nest \/ Tidy(t, m)
  BY McoreIsNot, McoreFacts DEF Whole
<1>2. /\ Len(m.mops) \in 1 .. Len(m.mops) /\ top \in McMop /\ n \in Nat
      /\ top.type \in {"MARK", "CORE", "HEAP"} /\ mops \in Seq(McMop)
  <2>1. Len(m.mops) \in Nat /\ Len(m.mops) >= 1 /\ mops \in Seq(McMop)
    BY <1>1, FrontIs
  <2>2. Len(m.mops) \in 1 .. Len(m.mops)
    BY <2>1
  <2> QED BY <1>1, <2>1, <2>2, McLogIs
<1>3. /\ Total(m.mops, CORE) = Total(mops, CORE) + Weight(top, CORE)
      /\ Total(m.mops, HEAP) = Total(mops, HEAP) + Weight(top, HEAP)
      /\ Total(mops, CORE) \in Nat /\ Total(mops, HEAP) \in Nat
  <2>1. Sized(McMop)
    BY McMopFacts
  <2>2. Total(mops, CORE) \in Nat /\ Total(mops, HEAP) \in Nat
    <3> HIDE DEF mops
    <3> QED BY <1>2, McLogIs
  <2> QED BY <1>1, <2>1, <2>2, PopTotal DEF Front
<1>4. /\ m.corecpos = Total(m.mops, CORE) /\ m.ccur = m.corecpos
      /\ m.hcur = Total(m.mops, HEAP)
      /\ m.corecpos \in Size /\ m.hcur \in Size /\ m.corecpos \in Nat /\ m.hcur \in Nat /\ SizeMax \in Nat
  BY <1>1, Constants, McoreFacts DEF Good, Counts, Size
<1>5. Unmoved(t, t, Ptr)
  BY UnmovedSelf
<1>6. /\ McPopTurn(t, m) =
           CASE top.type = "MARK" -> Step(t, [m EXCEPT !.mops = mops], "ok")
             [] top.type = "CORE" ->
                  IF m.corecpos < n THEN Step(t, m, "INTERNAL")
                  ELSE Step(t, [m EXCEPT !.mops = mops, !.corecpos = WordSub(m.corecpos, n),
                                         !.ccur = WordSub(m.ccur, n)], "ok")
             [] top.type = "HEAP" ->
                  IF GkFree(t, <<top.at>>).err # "ok" THEN Step(t, m, GkFree(t, <<top.at>>).err)
                  ELSE Step(GkFree(t, <<top.at>>).t,
                            [m EXCEPT !.mops = mops, !.hcur = WordSub(m.hcur, n)], "ok")
  BY DEF McPopTurn, Front, McoreType
<1> HIDE DEF top, n, mops
<1>7. /\ top = m.mops[Len(m.mops)] /\ mops = Front(m.mops) /\ n = top.nbytes
  BY DEF top, mops, n
<1>8. CASE top.type = "MARK"
  <2> DEFINE w == [m EXCEPT !.mops = mops]
  <2>1. o.t = t /\ o.mc = w /\ o.err = "ok"
    BY <1>6, <1>8 DEF Step
  <2>2. /\ w \in McoreType /\ w.mops = mops /\ w.self = m.self /\ w.core = m.core /\ w.ops = m.ops
        /\ w.corecpos = m.corecpos /\ w.ccur = m.ccur /\ w.hcur = m.hcur
    BY <1>2 DEF McoreType
  <2> HIDE DEF w
  <2>3. Weight(top, CORE) = 0 /\ Weight(top, HEAP) = 0
    BY <1>8 DEF Weight, CORE, HEAP
  <2>4. /\ Whole(nest, t, w, d)
        /\ top.type = "MARK" \/ w.mops = <<>> => (nest \/ AtEnd(w))
    <3>1. LosesOnly(t, t, Gone(top))
      BY <1>1, <1>8 DEF LosesOnly, Gone
    <3>2. PopsTo(m, top, w)
      BY <1>4, <1>7, <2>2, <2>3 DEF PopsTo
    <3> QED BY <1>7, <3>1, <3>2, PopSettled
  <2> QED BY <1>7, <2>1, <2>2, <2>4
<1>9. CASE top.type = "CORE"
  <2> DEFINE w == [m EXCEPT !.mops = mops, !.corecpos = WordSub(m.corecpos, n),
                            !.ccur = WordSub(m.ccur, n)]
  <2>1. Weight(top, CORE) = n /\ Weight(top, HEAP) = 0
    BY <1>7, <1>9 DEF Weight, CORE, HEAP
  <2>2. n <= m.corecpos /\ m.corecpos - n \in Size
    <3>1. n <= m.corecpos /\ m.corecpos <= SizeMax
      BY <1>2, <1>3, <1>4, <2>1 DEF Size
    <3> QED BY <1>2, <1>4, <3>1 DEF Size
  <2>3. WordSub(m.corecpos, n) = m.corecpos - n /\ WordSub(m.ccur, n) = m.ccur - n
    BY <1>4, <2>2 DEF WordSub
  <2>4. ~(m.corecpos < n)
    BY <1>2, <1>4, <2>2
  <2>5. o.t = t /\ o.mc = w /\ o.err = "ok"
    BY <1>6, <1>9, <2>4 DEF Step
  <2>6. /\ w \in McoreType /\ w.mops = mops /\ w.self = m.self /\ w.core = m.core /\ w.ops = m.ops
        /\ w.corecpos = m.corecpos - n /\ w.ccur = m.ccur - n /\ w.hcur = m.hcur
    BY <1>2, <1>4, <2>2, <2>3 DEF McoreType
  <2> HIDE DEF w
  <2>7. /\ Whole(nest, t, w, d)
        /\ top.type = "MARK" \/ w.mops = <<>> => (nest \/ AtEnd(w))
    <3>1. LosesOnly(t, t, Gone(top))
      BY <1>1, <1>9 DEF LosesOnly, Gone
    <3>2. PopsTo(m, top, w)
      BY <1>4, <1>7, <2>1, <2>6 DEF PopsTo
    <3> QED BY <1>7, <3>1, <3>2, PopSettled
  <2> QED BY <1>7, <2>5, <2>6, <2>7
<1>10. CASE top.type = "HEAP"
  <2> DEFINE p == top.at
             f == GkFree(t, <<p>>)
             w == [m EXCEPT !.mops = mops, !.hcur = WordSub(m.hcur, n)]
  <2>1. p \in t.live /\ p \in Ptr /\ p \in PayloadsOf(m.mops)
    <3>1. OnePlace(m.mops) /\ PayloadsOf(m.mops) \subseteq t.live /\ t.live \subseteq Ptr
      BY <1>1 DEF Good, Records, Sound, Tracker
    <3>2. p \in PayloadsOf(m.mops)
      BY <1>1, <1>7, <1>10, <3>1, PopPayload
    <3> QED BY <3>1, <3>2
  <2>2. Frees(t, p, f) /\ Sound(f.t)
    BY <1>1, <2>1, GkFreeOne
  <2> HIDE DEF p
  <2>3. CASE f.err # "ok"
    <3>1. o.t = t /\ o.mc = m /\ o.err = "EINVAL"
      BY <1>6, <1>10, <2>2, <2>3 DEF Step, Frees, p
    <3>2. nest
      <4>1. t.on /\ MarkSet(t.mops) \notin Home(t.mops, p)
        BY <2>2, <2>3 DEF Frees
      <4> QED BY <1>1, <2>1, <4>1 DEF Tidy, Quiet
    <3> QED BY <3>1, <3>2
  <2>4. CASE f.err = "ok"
    <3>1. o.t = f.t /\ o.mc = w /\ o.err = "ok"
      BY <1>6, <1>10, <2>4 DEF Step, p
    <3>2. Weight(top, CORE) = 0 /\ Weight(top, HEAP) = n
      BY <1>7, <1>10 DEF Weight, CORE, HEAP
    <3>3. n <= m.hcur /\ m.hcur - n \in Size
      <4>1. n <= m.hcur /\ m.hcur <= SizeMax
        BY <1>2, <1>3, <1>4, <3>2 DEF Size
      <4> QED BY <1>2, <1>4, <4>1 DEF Size
    <3>4. WordSub(m.hcur, n) = m.hcur - n
      BY <3>3 DEF WordSub
    <3>5. /\ w \in McoreType /\ w.mops = mops /\ w.self = m.self /\ w.core = m.core /\ w.ops = m.ops
          /\ w.corecpos = m.corecpos /\ w.ccur = m.ccur /\ w.hcur = m.hcur - n
      BY <1>2, <3>3, <3>4 DEF McoreType
    <3>6. /\ f.t.live = t.live \ {p} /\ f.t.on = t.on /\ MarkSet(f.t.mops) = MarkSet(t.mops)
          /\ \A q \in Ptr \ {p} : Home(f.t.mops, q) = Home(t.mops, q)
      BY <2>2, <2>4 DEF Frees, Unmoved
    <3> HIDE DEF w, f
    <3>7. /\ Whole(nest, f.t, w, d)
          /\ top.type = "MARK" \/ w.mops = <<>> => (nest \/ AtEnd(w))
      <4> DEFINE u == f.t
      <4>1. Gone(top) = {p}
        BY <1>10 DEF Gone, p
      <4>2. LosesOnly(t, u, Gone(top))
        BY <2>2, <3>6, <4>1 DEF LosesOnly
      <4>3. PopsTo(m, top, w)
        BY <1>4, <1>7, <3>2, <3>5 DEF PopsTo
      <4> HIDE DEF u
      <4>4. /\ Whole(nest, u, w, d)
            /\ top.type = "MARK" \/ w.mops = <<>> => (nest \/ AtEnd(w))
        BY <1>7, <4>2, <4>3, PopSettled
      <4> QED BY <4>4 DEF u
    <3> QED BY <1>7, <3>1, <3>5, <3>7
  <2> QED BY <2>3, <2>4
<1> QED BY <1>2, <1>8, <1>9, <1>10

(* gk_mcoreDestroy frees all three of its blocks or changes nothing.       *)
LEMMA DestroySettled ==
  ASSUME NEW nest, NEW t, NEW m \in McoreType, NEW d, Settled(nest, t, m, d),
         NEW o, o = DestroyOutcome(t, m)
  PROVE  \/ o.err = "EINVAL" /\ o.t = t /\ o.mc = m
         \/ o.err = "ok" /\ o.mc = NoMcore /\ Settled(nest, o.t, NoMcore, d \cup PayloadsOf(m.mops))
<1> DEFINE f == GkFree(t, <<m.core, m.ops, m.self>>)
<1>1. Sound(t) /\ d \subseteq t.live /\ Good(t, m, d)
  BY McoreIsNot DEF Settled
<1>2. /\ m.core \in Ptr /\ m.ops \in Ptr /\ m.self \in Ptr
      /\ m.core # m.ops /\ m.core # m.self /\ m.ops # m.self
      /\ Home(t.mops, m.ops) = Home(t.mops, m.core) /\ Home(t.mops, m.self) = Home(t.mops, m.core)
      /\ PayloadsOf(m.mops) \subseteq t.live \ {m.core, m.ops, m.self}
      /\ d \subseteq t.live \ {m.core, m.ops, m.self}
  BY <1>1, McoreFacts DEF Good, Stands, Records, Handles
<1>3. \/ f.err = "EINVAL" /\ f.t = t /\ f.kept = <<m.core, m.ops, m.self>>
      \/ f.err = "ok" /\ Sound(f.t) /\ f.t.live = t.live \ {m.core, m.ops, m.self}
  BY <1>1, <1>2, GkFreeThree
<1>4. o = IF f.err = "ok" THEN Step(f.t, NoMcore, "ok")
          ELSE Step(f.t, [m EXCEPT !.core = f.kept[1], !.ops = f.kept[2]], f.err)
  BY DEF DestroyOutcome
<1> HIDE DEF f
<1>5. CASE f.err = "ok"
  BY <1>2, <1>3, <1>4, <1>5 DEF Step, Settled
<1>6. CASE f.err # "ok"
  <2>1. f.kept[1] = m.core /\ f.kept[2] = m.ops
    BY <1>3, <1>6
  <2>2. [m EXCEPT !.core = m.core, !.ops = m.ops] = m
    BY DEF McoreType
  <2> QED BY <1>3, <1>4, <1>6, <2>1, <2>2 DEF Step
<1> QED BY <1>5, <1>6
-----------------------------------------------------------------------------
Outcomes == Errno \cup {"REFUSED", "INTERNAL"}
Closing ==
  /\ tr.mops # <<>> /\ Apart(tr, detached)
  /\ mc # NoMcore => nested /\ Apart(tr, Handles(mc) \cup PayloadsOf(mc.mops))

IInv ==
  /\ nested \in BOOLEAN
  /\ pc \in {"idle", "pop", "cleanup"} /\ err \in Outcomes
  /\ Whole(nested, tr, mc, detached)
  /\ pc = "idle" /\ mc # NoMcore => (nested \/ AtEnd(mc))
  /\ pc = "pop" => mc # NoMcore /\ mc.mops # <<>>
  /\ pc = "cleanup" => Closing

LEMMA IdleSettled == ASSUME IInv, pc = "idle" PROVE Settled(nested, tr, mc, detached)
  BY WholeSettled DEF IInv

LEMMA McoreInUse == ASSUME IInv, mc # NoMcore PROVE mc \in McoreType
  BY DEF IInv, Whole

(* A call that returns to a settled state.                                 *)
LEMMA Ends ==
  ASSUME IInv, nested' = nested, pc' = "idle", err' \in Outcomes,
         Settled(nested, tr', mc', detached')
  PROVE  IInv'
<1>1. Whole(nested', tr', mc', detached') /\ (mc' # NoMcore => nested' \/ AtEnd(mc'))
  BY WholeSettled
<1> QED BY <1>1 DEF IInv

(* Any block is in the innermost frame or not, in the terms of the code    *)
(* and in those of Home.                                                   *)
LEMMA TopHome ==
  ASSUME NEW t, Sound(t), NEW p \in Ptr
  PROVE  p \in TopBlocks(t) <=> MarkSet(t.mops) \in Home(t.mops, p)
<1>1. t.mops \in Seq(Mop)
  BY DEF Sound, Tracker
<1> QED BY <1>1, QuietHome DEF TopBlocks

LEMMA PayloadsAre == ASSUME mc # NoMcore PROVE Payloads = PayloadsOf(mc.mops)
  BY DEF Payloads, PayloadsOf, HeapOf

LEMMA CleanupInv ==
  ASSUME IInv, CleanupTurn
  PROVE  IInv'
<1>1. /\ pc = "cleanup" /\ nested' = nested /\ mc' = mc /\ detached' = detached /\ err' = "ok"
      /\ tr' = CleanupStep(tr)
      /\ pc' = IF LoopEnds(tr) THEN "idle" ELSE "cleanup"
  BY DEF CleanupTurn, CleanupStep
<1>2. /\ Sound(tr) /\ detached \subseteq tr.live /\ tr.mops # <<>> /\ Apart(tr, detached)
      /\ mc # NoMcore => nested /\ Apart(tr, Handles(mc) \cup PayloadsOf(mc.mops))
  BY <1>1 DEF IInv, Closing, Whole
<1> DEFINE u == CleanupStep(tr)
<1>3. /\ Sound(u) /\ u.live \subseteq tr.live
      /\ \A q \in tr.live : MarkSet(tr.mops) \notin Home(tr.mops, q)
                              => q \in u.live /\ Home(u.mops, q) = Home(tr.mops, q)
      /\ ~LoopEnds(tr) => u.mops # <<>> /\ MarkSet(u.mops) = MarkSet(tr.mops)
  BY <1>2, CleanupKeeps
<1>4. Settled(nested, tr, mc, detached)
  BY <1>1, <1>2, WholeSettled DEF IInv
<1>5. ASSUME NEW q \in detached PROVE q \in u.live /\ Home(u.mops, q) = Home(tr.mops, q)
  BY <1>2, <1>3 DEF Apart
<1>6. ASSUME mc # NoMcore, NEW q \in Handles(mc) \cup PayloadsOf(mc.mops)
      PROVE  q \in u.live /\ Home(u.mops, q) = Home(tr.mops, q)
  <2>1. q \in tr.live
    BY <1>6 DEF IInv, Whole, Good, Stands, Records
  <2> QED BY <1>2, <1>3, <1>6, <2>1 DEF Apart
<1> HIDE DEF u
<1>7. Settled(nested, u, mc, detached)
  BY <1>2, <1>3, <1>4, <1>5, <1>6, SettledElsewhere
<1>8. tr' = u
  BY <1>1 DEF u
<1>9. CASE LoopEnds(tr)
  BY <1>1, <1>7, <1>8, <1>9, Ends DEF Outcomes, Errno
<1>10. CASE ~LoopEnds(tr)
  <2>1. Whole(nested, u, mc, detached)
    BY <1>7, WholeSettled
  <2>2. Apart(u, detached)
    BY <1>2, <1>3, <1>5, <1>10 DEF Apart
  <2>3. mc # NoMcore => nested /\ Apart(u, Handles(mc) \cup PayloadsOf(mc.mops))
    BY <1>2, <1>3, <1>6, <1>10 DEF Apart
  <2> QED BY <1>1, <1>3, <1>8, <1>10, <2>1, <2>2, <2>3 DEF IInv, Closing, Outcomes, Errno
<1> QED BY <1>9, <1>10

LEMMA MallocCleanupInv ==
  ASSUME IInv, MallocCleanup
  PROVE  IInv'
<1> DEFINE top == TopBlocks(tr)
           whole == mc # NoMcore /\ mc.self \in top
<1>1. /\ pc = "idle" /\ tr.mops # <<>> /\ pc' = "cleanup" /\ err' = "ok"
      /\ nested' = nested /\ tr' = tr /\ detached' = detached \ top
      /\ mc' = IF whole THEN NoMcore ELSE mc
      /\ \/ mc = NoMcore \/ mc.self \in top
         \/ nested /\ Payloads \cap top = {}
  BY DEF MallocCleanup
<1>2. Sound(tr) /\ detached \subseteq tr.live /\ tr.live \subseteq Ptr
  BY DEF IInv, Whole, Sound, Tracker
<1>3. \A p \in Ptr : p \in top <=> MarkSet(tr.mops) \in Home(tr.mops, p)
  BY <1>2, TopHome
<1> HIDE DEF top
<1>4. Apart(tr, detached')
  BY <1>1, <1>2, <1>3 DEF Apart
<1>5. CASE mc' = NoMcore
  <2>1. Whole(nested, tr, mc', detached')
    BY <1>1, <1>2, <1>5 DEF Whole
  <2> QED BY <1>1, <1>4, <1>5, <2>1 DEF IInv, Closing, Outcomes, Errno
<1>6. CASE mc' # NoMcore
  <2>1. mc' = mc /\ mc # NoMcore /\ mc.self \notin top /\ nested /\ Payloads \cap top = {}
    BY <1>1, <1>6
  <2>2. Good(tr, mc, detached) /\ mc \in McoreType
    BY <2>1 DEF IInv, Whole
  <2>3. Good(tr, mc, detached')
    BY <1>1, <2>2, GoodLess
  <2>4. Whole(nested, tr, mc, detached')
    BY <1>1, <1>2, <2>1, <2>2, <2>3 DEF Whole
  <2>5. Apart(tr, PayloadsOf(mc.mops))
    <3>1. PayloadsOf(mc.mops) \subseteq Ptr /\ PayloadsOf(mc.mops) \cap top = {}
      BY <1>2, <2>1, <2>2, PayloadsAre DEF Good, Records
    <3> QED BY <1>3, <3>1 DEF Apart
  <2>6. Apart(tr, Handles(mc))
    <3>1. mc.self \in Ptr /\ MarkSet(tr.mops) \notin Home(tr.mops, mc.self)
      BY <1>3, <2>1, <2>2, McoreFacts
    <3> QED BY <2>2, <3>1 DEF Apart, Handles, Good, Stands
  <2> QED BY <1>1, <1>4, <2>1, <2>4, <2>5, <2>6 DEF IInv, Closing, Outcomes, Errno, Apart
<1> QED BY <1>5, <1>6

LEMMA MallocInitInv ==
  ASSUME IInv, MallocInit
  PROVE  IInv' /\ err' \in {"ok", "ENOMEM", "EOVERFLOW"}
<1>1. /\ pc = "idle" /\ pc' = "idle" /\ nested' = nested /\ mc' = mc /\ detached' = detached
      /\ nested \/ mc = NoMcore
  BY DEF MallocInit
<1>2. PICK o \in MallocInitOutcomes(tr) : tr' = o.t /\ err' = o.err
  BY DEF MallocInit
<1>3. Settled(nested, tr, mc, detached)
  BY <1>1, IdleSettled
<1>4. Sound(tr) /\ detached \subseteq tr.live
  BY <1>3 DEF Settled
<1>5. /\ o.t.live = tr.live /\ o.err \in {"ok", "ENOMEM", "EOVERFLOW"}
      /\ \A q : Home(o.t.mops, q) = Home(tr.mops, q)
  BY <1>4, MallocInitKeeps
<1>6. Sound(o.t)
  BY <1>4, MallocInitSound DEF SoundOutcome
<1>7. mc # NoMcore => \A q \in Handles(mc) \cup PayloadsOf(mc.mops) :
                        q \in o.t.live /\ Home(o.t.mops, q) = Home(tr.mops, q)
  BY <1>5 DEF IInv, Whole, Good, Stands, Records
<1>8. Settled(nested, o.t, mc, detached)
  BY <1>1, <1>3, <1>4, <1>5, <1>6, <1>7, SettledElsewhere
<1> QED BY <1>1, <1>2, <1>5, <1>8, Ends DEF Outcomes, Errno

(* Calls that return one of a set of outcomes.                             *)
LEMMA CallInv ==
  ASSUME IInv, pc = "idle", NEW S, Return(S), UNCHANGED detached,
         \A o \in S : Settled(nested, o.t, o.mc, detached) /\ o.err \in {"ok", "ENOMEM", "EOVERFLOW"}
  PROVE  IInv' /\ err' \in {"ok", "ENOMEM", "EOVERFLOW"}
<1>1. PICK o \in S : tr' = o.t /\ mc' = o.mc /\ err' = o.err
  BY DEF Return
<1>2. nested' = nested /\ pc' = "idle"
  BY DEF Return
<1>3. Settled(nested, tr', mc', detached') /\ err' \in {"ok", "ENOMEM", "EOVERFLOW"}
  BY <1>1
<1> QED BY <1>2, <1>3, Ends DEF Outcomes, Errno

LEMMA CallsInv ==
  ASSUME IInv, Create \/ Push \/ \E n \in Requests : Malloc(n)
  PROVE  IInv' /\ err' \in {"ok", "ENOMEM", "EOVERFLOW"}
<1>1. pc = "idle"
  BY DEF Create, Push, Malloc
<1>2. Settled(nested, tr, mc, detached) /\ nested \in BOOLEAN
  BY <1>1, IdleSettled DEF IInv
<1>3. CASE Create
  <2>1. mc = NoMcore /\ Return(CreateOutcomes(tr)) /\ UNCHANGED detached
    BY <1>3 DEF Create
  <2>2. \A o \in CreateOutcomes(tr) :
          Settled(nested, o.t, o.mc, detached) /\ o.err \in {"ok", "ENOMEM", "EOVERFLOW"}
    BY <1>2, <2>1, CreateSettled
  <2> QED BY <1>1, <2>1, <2>2, CallInv
<1>4. CASE Push
  <2>1. mc # NoMcore /\ Return(McPushOutcomes(tr, mc)) /\ UNCHANGED detached
    BY <1>4 DEF Push
  <2>2. \A o \in McPushOutcomes(tr, mc) :
          Settled(nested, o.t, o.mc, detached) /\ o.err \in {"ok", "ENOMEM", "EOVERFLOW"}
    BY <1>2, <2>1, McoreInUse, PushSettled
  <2> QED BY <1>1, <2>1, <2>2, CallInv
<1>5. ASSUME NEW n \in Requests, Malloc(n)
      PROVE  IInv' /\ err' \in {"ok", "ENOMEM", "EOVERFLOW"}
  <2>1. mc # NoMcore /\ Return(McMallocOutcomes(tr, mc, n)) /\ UNCHANGED detached
    BY <1>5 DEF Malloc
  <2>2. \A o \in McMallocOutcomes(tr, mc, n) :
          Settled(nested, o.t, o.mc, detached) /\ o.err \in {"ok", "ENOMEM", "EOVERFLOW"}
    BY <1>2, <2>1, McoreInUse, McMallocSettled
  <2> QED BY <1>1, <2>1, <2>2, CallInv
<1> QED BY <1>3, <1>4, <1>5

(* What a refused call leaves.                                             *)
Same == mc' = mc /\ tr' = tr /\ detached' = detached
Refused(e) == e \in {"EINVAL", "REFUSED", "INTERNAL"}

LEMMA DelInv ==
  ASSUME IInv, NEW at \in Ptr \cup CoreOffset, Del(at)
  PROVE  IInv' /\ (Refused(err') => Same)
<1>1. /\ pc = "idle" /\ mc # NoMcore /\ nested' = nested /\ tr' = tr /\ pc' = "idle"
      /\ IF Deletable(mc, at) = {}
         THEN err' = "REFUSED" /\ mc' = mc /\ detached' = detached
         ELSE /\ \E i \in Deletable(mc, at) : mc' = McDel(mc, i)
              /\ detached' = detached \cup {at}
              /\ err' = "ok"
  BY DEF Del
<1>2. Settled(nested, tr, mc, detached) /\ mc \in McoreType
  BY <1>1, IdleSettled, McoreInUse
<1>3. CASE Deletable(mc, at) = {}
  BY <1>1, <1>2, <1>3, Ends DEF Outcomes, Same
<1>4. ASSUME NEW i \in Deletable(mc, at), mc' = McDel(mc, i),
             detached' = detached \cup {at}, err' = "ok"
      PROVE  IInv' /\ (Refused(err') => Same)
  <2>1. Settled(nested, tr, mc', detached \cup {at})
    BY <1>2, <1>4, DelSettled
  <2> QED BY <1>1, <1>4, <2>1, Ends DEF Outcomes, Errno, Refused
<1> QED BY <1>1, <1>3, <1>4

LEMMA FreeDetachedInv ==
  ASSUME IInv, NEW p \in Ptr, FreeDetached(p)
  PROVE  IInv' /\ (Refused(err') => Same)
<1>1. /\ pc = "idle" /\ p \in detached /\ nested' = nested /\ mc' = mc /\ pc' = "idle"
  BY DEF FreeDetached
<1>2. PICK o \in FreeNosignal(tr, p) :
        /\ tr' = o.t /\ err' = o.err
        /\ detached' = IF o.err = "ok" THEN detached \ {p} ELSE detached
  BY DEF FreeDetached
<1>3. /\ Settled(nested, o.t, mc, IF o.err = "ok" THEN detached \ {p} ELSE detached)
      /\ o.err \in {"ok", "EINVAL"} /\ (o.err # "ok" => o.t = tr)
  BY <1>1, IdleSettled, FreeDetachedSettled
<1>4. Settled(nested, tr', mc', detached') /\ err' \in Outcomes
  BY <1>1, <1>2, <1>3 DEF Outcomes, Errno
<1> QED BY <1>1, <1>2, <1>3, <1>4, Ends DEF Refused, Same

LEMMA PopTurnInv ==
  ASSUME IInv, PopTurn
  PROVE  IInv' /\ (Refused(err') => Same)
<1> DEFINE o == McPopTurn(tr, mc)
           marked == mc.mops[Len(mc.mops)].type = "MARK"
<1>1. /\ pc = "pop" /\ tr' = o.t /\ mc' = o.mc /\ err' = o.err
      /\ pc' = IF marked \/ o.err # "ok" \/ o.mc.mops = <<>> THEN "idle" ELSE "pop"
      /\ nested' = nested /\ detached' = detached
  BY DEF PopTurn
<1>2. mc # NoMcore /\ mc.mops # <<>> /\ Whole(nested, tr, mc, detached) /\ mc \in McoreType
      /\ nested \in BOOLEAN
  BY <1>1, McoreInUse DEF IInv
<1>3. /\ Whole(nested, o.t, o.mc, detached) /\ o.mc \in McoreType /\ o.err \in {"ok", "EINVAL"}
      /\ o.err # "ok" => o.t = tr /\ o.mc = mc /\ nested
      /\ o.err = "ok" /\ (marked \/ o.mc.mops = <<>>) => (nested \/ AtEnd(o.mc))
  <2> HIDE DEF o
  <2>1. o = McPopTurn(tr, mc)
    BY DEF o
  <2>2. /\ Whole(nested, o.t, o.mc, detached) /\ o.mc \in McoreType /\ o.err \in {"ok", "EINVAL"}
        /\ o.err # "ok" => o.t = tr /\ o.mc = mc /\ nested
        /\ o.err = "ok" /\ (mc.mops[Len(mc.mops)].type = "MARK" \/ o.mc.mops = <<>>)
             => (nested \/ AtEnd(o.mc))
    BY <1>2, <2>1, PopTurnSettled
  <2> QED BY <2>2
<1> HIDE DEF o, marked
<1>4. o.mc # NoMcore
  BY <1>3, McoreIsNot
<1>5. IInv'
  <2>1. /\ Whole(nested', tr', mc', detached') /\ nested' \in BOOLEAN
        /\ pc' \in {"idle", "pop", "cleanup"} /\ pc' # "cleanup" /\ err' \in Outcomes
    BY <1>1, <1>3 DEF IInv, Outcomes, Errno
  <2>2. pc' = "idle" => nested' \/ AtEnd(mc')
    BY <1>1, <1>3
  <2>3. pc' = "pop" => mc' # NoMcore /\ mc'.mops # <<>>
    BY <1>1, <1>4
  <2> QED BY <2>1, <2>2, <2>3 DEF IInv
<1>6. Refused(err') => Same
  BY <1>1, <1>3 DEF Refused, Same
<1> QED BY <1>5, <1>6

LEMMA DestroyInv ==
  ASSUME IInv, Destroy
  PROVE  IInv' /\ (Refused(err') => Same)
<1> DEFINE o == DestroyOutcome(tr, mc)
<1>1. /\ pc = "idle" /\ mc # NoMcore /\ nested' = nested /\ pc' = "idle"
      /\ tr' = o.t /\ mc' = o.mc /\ err' = o.err
      /\ detached' = IF mc' = NoMcore THEN detached \cup Payloads ELSE detached
  BY DEF Destroy, Return
<1>2. mc \in McoreType /\ Settled(nested, tr, mc, detached) /\ Payloads = PayloadsOf(mc.mops)
  BY <1>1, McoreInUse, IdleSettled, PayloadsAre
<1>3. \/ o.err = "EINVAL" /\ o.t = tr /\ o.mc = mc
      \/ /\ o.err = "ok" /\ o.mc = NoMcore
         /\ Settled(nested, o.t, NoMcore, detached \cup PayloadsOf(mc.mops))
  BY <1>2, DestroySettled
<1> HIDE DEF o
<1>4. Settled(nested, tr', mc', detached') /\ err' \in Outcomes
  BY <1>1, <1>2, <1>3 DEF Outcomes, Errno
<1>5. Refused(err') => Same
  BY <1>1, <1>3 DEF Refused, Same
<1> QED BY <1>1, <1>4, <1>5, Ends

LEMMA StepInv == IInv /\ [Next]_vars => IInv' /\ [Refused(err') => Same]_vars
<1> SUFFICES ASSUME IInv, [Next]_vars PROVE IInv' /\ [Refused(err') => Same]_vars
  OBVIOUS
<1>1. CASE MallocInit
  BY <1>1, MallocInitInv DEF Refused
<1>2. CASE MallocCleanup
  <2>1. err' = "ok"
    BY <1>2 DEF MallocCleanup
  <2> QED BY <1>2, <2>1, MallocCleanupInv DEF Refused
<1>3. CASE CleanupTurn
  <2>1. err' = "ok"
    BY <1>3 DEF CleanupTurn
  <2> QED BY <1>3, <2>1, CleanupInv DEF Refused
<1>4. CASE Create \/ Push \/ \E n \in Requests : Malloc(n)
  BY <1>4, CallsInv DEF Refused
<1>5. CASE Pop
  <2>1. /\ pc = "idle" /\ mc # NoMcore /\ mc.mops # <<>> /\ pc' = "pop" /\ err' = "ok"
        /\ nested' = nested /\ tr' = tr /\ mc' = mc /\ detached' = detached
    BY <1>5 DEF Pop
  <2> QED BY <2>1 DEF IInv, Outcomes, Errno, Refused
<1>6. CASE PopTurn
  BY <1>6, PopTurnInv
<1>7. CASE Destroy
  BY <1>7, DestroyInv
<1>8. CASE \E at \in Ptr \cup CoreOffset : Del(at)
  BY <1>8, DelInv
<1>9. CASE \E p \in Ptr : FreeDetached(p)
  BY <1>9, FreeDetachedInv
<1>10. CASE UNCHANGED vars
  BY <1>10 DEF vars, IInv, Closing
<1> QED BY <1>1, <1>2, <1>3, <1>4, <1>5, <1>6, <1>7, <1>8, <1>9, <1>10 DEF Next

LEMMA InitInv == Init => IInv
<1> SUFFICES ASSUME Init PROVE IInv
  OBVIOUS
<1>1. 0 \in Size /\ <<>> \in Seq(Mop) /\ Len(<<>>) = 0
  BY WordIsNat, EmptySeq DEF Size
<1>2. tr \in Tracker /\ tr.on = FALSE /\ tr.mops = <<>> /\ tr.nmops = 0
  BY <1>1 DEF Init, Tracker
<1>3. Sound(tr)
  BY <1>1, <1>2 DEF Sound, Anchored, Owns, HeapRecords
<1> QED BY <1>3 DEF Init, IInv, Whole, Outcomes, Errno

(* Between any two steps of a thread, whatever it allocates and whichever  *)
(* calls fail, the tracker is sound and the mcore stands on it.            *)
THEOREM SpecInv == Spec => []IInv
<1> QED BY InitInv, StepInv, PTL DEF Spec

(* Type correctness.                                                       *)
LEMMA InvType == IInv => TypeOK
<1>1. ASSUME IInv PROVE detached \subseteq Ptr /\ tr \in Tracker
  BY <1>1 DEF IInv, Whole, Sound, Tracker
<1> QED BY <1>1 DEF IInv, TypeOK, Whole, Outcomes, Sound

THEOREM TypeCorrect == Spec => []TypeOK
<1> QED BY InvType, SpecInv, PTL

(* The struct, core and log are three live blocks, and each heap payload   *)
(* has one record and one owner.                                           *)
THEOREM StorageTheorem == Spec => []StorageOwned
<1>1. ASSUME IInv, mc # NoMcore PROVE HandlesLive /\ PayloadsOwned
  <2>1. /\ mc.self # mc.core /\ mc.self # mc.ops /\ mc.core # mc.ops
        /\ {mc.self, mc.core, mc.ops} \subseteq tr.live
        /\ OnePlace(mc.mops)
        /\ PayloadsOf(mc.mops) \subseteq tr.live \ ({mc.self, mc.core, mc.ops} \cup detached)
    BY <1>1 DEF IInv, Whole, Good, Stands, Records, Handles
  <2>2. Cardinality({mc.self, mc.core, mc.ops}) = 3
    <3> DEFINE one == {mc.self}
               two == one \cup {mc.core}
    <3>1. IsFiniteSet(one) /\ Cardinality(one) = 1
      BY FS_Singleton
    <3>2. IsFiniteSet(two) /\ Cardinality(two) = 2
      BY <2>1, <3>1, FS_AddElement
    <3>3. Cardinality(two \cup {mc.ops}) = 3
      <4>1. mc.ops \notin two
        BY <2>1
      <4> HIDE DEF two
      <4>2. Cardinality(two \cup {mc.ops}) = Cardinality(two) + 1
        BY <3>2, <4>1, FS_AddElement
      <4> QED BY <3>2, <4>2
    <3>4. {mc.self, mc.core, mc.ops} = two \cup {mc.ops}
      OBVIOUS
    <3> QED BY <3>3, <3>4
  <2>3. HeapMops = HeapOf(mc.mops) /\ Payloads = PayloadsOf(mc.mops)
    BY <1>1, PayloadsAre DEF HeapMops, HeapOf
  <2> QED BY <2>1, <2>2, <2>3 DEF HandlesLive, PayloadsOwned, OnePlace
<1>2. IInv => StorageOwned
  BY <1>1 DEF StorageOwned, HandlesLive, PayloadsOwned
<1> QED BY <1>2, SpecInv, PTL

(* The position in the core and the counters are the sums of the records   *)
(* left, so that no pop can take more than was given.                      *)
THEOREM CountersTheorem == Spec => []CountersExact
<1>1. ASSUME IInv, mc # NoMcore
      PROVE  /\ mc.corecpos = LoggedBytes(mc, "CORE") /\ mc.ccur = mc.corecpos
             /\ mc.hcur = LoggedBytes(mc, "HEAP")
  <2>1. mc.mops \in Seq(McMop)
    BY <1>1, McoreInUse, McoreFacts
  <2>2. LoggedBytes(mc, "CORE") = Total(mc.mops, CORE) /\ LoggedBytes(mc, "HEAP") = Total(mc.mops, HEAP)
    BY <2>1, LoggedTotal DEF CORE, HEAP
  <2> QED BY <1>1, <2>2 DEF IInv, Whole, Good, Counts
<1>2. IInv => CountersExact
  BY <1>1, InvType DEF CountersExact
<1> QED BY <1>2, SpecInv, PTL

(* Payloads in use do not overlap in the core of an mcore whose whole life *)
(* is within one frame, whatever was deleted and in whichever order.       *)
THEOREM DisjointTheorem == Spec => []DisjointInside
<1>1. ASSUME IInv, ~nested, mc # NoMcore PROVE CoreBlocksDisjoint
  <2>1. Packed(mc.mops)
    BY <1>1 DEF IInv, Whole, Tidy
  <2> QED BY <2>1 DEF Packed, Disjoint, CoreBlocksDisjoint, CoreMops, CoreOf
<1>2. IInv => DisjointInside
  BY <1>1 DEF DisjointInside, CoreBlocksDisjoint
<1> QED BY <1>2, SpecInv, PTL

(* A refusal changes nothing: in particular gk_mcoreDestroy never frees    *)
(* some of its three blocks and keeps the rest.                            *)
THEOREM RefusalTheorem == Spec => RefusalKeepsState
<1>1. IInv /\ [Next]_vars
        => [err' \in {"EINVAL", "REFUSED", "INTERNAL"} =>
              mc' = mc /\ tr' = tr /\ detached' = detached]_vars
  BY StepInv DEF Refused, Same
<1> QED BY <1>1, SpecInv, PTL DEF Spec, RefusalKeepsState
=============================================================================
