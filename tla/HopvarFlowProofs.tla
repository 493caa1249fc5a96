--------------------------- MODULE HopvarFlowProofs ---------------------------
(***************************************************************************)
(* Theorems about HopvarFlow, for any number of senders, flows, packets    *)
(* and slots.                                                              *)
(***************************************************************************)
EXTENDS HopvarFlow, FiniteSetTheorems, TLAPS

-----------------------------------------------------------------------------
(* Sums over finite sets.                                                  *)

\* Induction over the subsets of a finite set.
LEMMA SubsetInduction ==
  ASSUME NEW S, IsFiniteSet(S), NEW X,
         \A T \in SUBSET S : (\A U \in SUBSET T : U # T => U \in X) => T \in X
  PROVE  \A T \in SUBSET S : T \in X
<1> SUFFICES ASSUME NEW T0 \in SUBSET S, T0 \notin X PROVE FALSE
  OBVIOUS
<1> DEFINE Out == {T \in SUBSET S : T \notin X}
<1> DEFINE R == StrictSubsetOrdering(S)
<1>1. Out \subseteq SUBSET S /\ Out # {} /\ IsWellFoundedOn(R, SUBSET S)
  <2>1. IsWellFoundedOn(R, FiniteSubsetsOf(S))
    BY FS_StrictSubsetOrderingWellFounded
  <2>2. FiniteSubsetsOf(S) = SUBSET S
    BY FS_FiniteSubsetsOfFinite
  <2>3. Out \subseteq SUBSET S /\ Out # {}
    OBVIOUS
  <2> HIDE DEF R, Out
  <2> QED BY <2>1, <2>2, <2>3
<1>2. PICK T \in Out : \A U \in Out : ~(<<U, T>> \in R)
  <2> HIDE DEF Out, R
  <2> QED BY <1>1, WFMin
<1>3. ASSUME NEW U \in SUBSET T, U # T PROVE U \in X
  <2>1. U \in SUBSET S /\ T \in SUBSET S
    BY <1>2, <1>3
  <2>2. <<U, T>> \in StrictSubsetOrdering(S)
    BY <1>3, <2>1 DEF StrictSubsetOrdering
  <2> QED BY <1>2, <2>1, <2>2
<1> QED BY <1>2, <1>3

\* F sums g up over each subset of S.
SumsUpto(g, S, F) ==
  F = [s \in SUBSET S |->
         IF s = {} THEN 0
         ELSE g[CHOOSE x \in s : TRUE] + F[s \ {CHOOSE x \in s : TRUE}]]

LEMMA SumIs ==
  ASSUME NEW g, NEW S, \E F : SumsUpto(g, S, F)
  PROVE  \E F : SumsUpto(g, S, F) /\ SumFunctionOnSet(g, S) = F[S]
<1> DEFINE K == CHOOSE F : F = [s \in SUBSET S |->
         IF s = {} THEN 0
         ELSE g[CHOOSE x \in s : TRUE] + F[s \ {CHOOSE x \in s : TRUE}]]
<1>1. SumsUpto(g, S, K)
  BY DEF SumsUpto
<1>2. SumFunctionOnSet(g, S) = K[S]
  BY DEF SumFunctionOnSet, FoldFunctionOnSet, MapThenFoldSet
<1> QED BY <1>1, <1>2

\* Sums depend only on the values of the function on the set.
LEMMA SumsAgree ==
  ASSUME NEW g, NEW h, NEW S, NEW T, NEW F, NEW G,
         SumsUpto(g, S, F), SumsUpto(h, T, G),
         NEW R, IsFiniteSet(R), R \subseteq S, R \subseteq T, \A x \in R : g[x] = h[x]
  PROVE  \A s \in SUBSET R : F[s] = G[s]
<1> DEFINE X == {s \in SUBSET R : F[s] = G[s]}
<1>1. ASSUME NEW s \in SUBSET R, \A u \in SUBSET s : u # s => u \in X
      PROVE  s \in X
  <2>1. s \in SUBSET S /\ s \in SUBSET T
    OBVIOUS
  <2>2. CASE s = {}
    BY <2>1, <2>2 DEF SumsUpto
  <2>3. CASE s # {}
    <3> DEFINE p == CHOOSE x \in s : TRUE
    <3>1. p \in s
      BY <2>3
    <3> HIDE DEF X
    <3>2. s \ {p} \in X
      BY <1>1, <3>1
    <3>3. F[s \ {p}] = G[s \ {p}]
      BY <3>2 DEF X
    <3>4. F[s] = g[p] + F[s \ {p}] /\ G[s] = h[p] + G[s \ {p}]
      BY <2>1, <2>3 DEF SumsUpto
    <3> QED BY <3>1, <3>3, <3>4 DEF X
  <2> QED BY <2>2, <2>3
<1> HIDE DEF X
<1>2. \A s \in SUBSET R : s \in X
  BY <1>1, SubsetInduction
<1> QED BY <1>2 DEF X

LEMMA SumsExist ==
  ASSUME NEW g, NEW S, IsFiniteSet(S)
  PROVE  \E F : SumsUpto(g, S, F)
<1> DEFINE X == {T \in SUBSET S : \E F : SumsUpto(g, T, F)}
           P(s) == CHOOSE x \in s : TRUE
           V(T) == CHOOSE F : SumsUpto(g, T, F)
<1>1. ASSUME NEW T \in SUBSET S, \A U \in SUBSET T : U # T => U \in X
      PROVE  T \in X
  <2> DEFINE W(u) == IF u = {} THEN 0 ELSE g[P(u)] + V(u \ {P(u)})[u \ {P(u)}]
             H == [u \in SUBSET T |-> W(u)]
  <2>1. ASSUME NEW u \in SUBSET T, u # T PROVE SumsUpto(g, u, V(u)) /\ V(u)[u] = W(u)
    <3>1. u \in X
      BY <1>1, <2>1
    <3>2. SumsUpto(g, u, V(u))
      BY <3>1
    <3>3. CASE u = {}
      BY <3>2, <3>3 DEF SumsUpto
    <3>4. CASE u # {}
      <4>1. P(u) \in u
        BY <3>4
      <4> DEFINE v == u \ {P(u)}
      <4>2. v \in SUBSET u /\ v \in SUBSET T /\ v # T /\ IsFiniteSet(v)
        BY <4>1, FS_Subset
      <4>3. v \in X
        BY <1>1, <4>2
      <4>4. SumsUpto(g, v, V(v))
        BY <4>3
      <4>5. V(u)[u] = g[P(u)] + V(u)[v]
        BY <3>2, <3>4 DEF SumsUpto
      <4>6. V(u)[v] = V(v)[v]
        <5> HIDE DEF V, v
        <5> QED BY <3>2, <4>2, <4>4, SumsAgree
      <4> QED BY <3>2, <3>4, <4>5, <4>6
    <3> QED BY <3>3, <3>4
  <2>2. ASSUME NEW u \in SUBSET T
        PROVE  H[u] = IF u = {} THEN 0 ELSE g[P(u)] + H[u \ {P(u)}]
    <3>1. CASE u = {}
      BY <3>1
    <3>2. CASE u # {}
      <4>1. P(u) \in u
        BY <3>2
      <4> DEFINE v == u \ {P(u)}
      <4>2. v \in SUBSET T /\ v # T
        BY <4>1
      <4>3. V(v)[v] = H[v]
        <5>1. V(v)[v] = W(v)
          <6> HIDE DEF V, W, v
          <6> QED BY <2>1, <4>2
        <5>2. H[v] = W(v)
          <6> HIDE DEF V, W, v
          <6> QED BY <4>2
        <5> QED BY <5>1, <5>2
      <4>4. H[u] = g[P(u)] + V(v)[v]
        <5>1. H[u] = W(u)
          <6> HIDE DEF W
          <6> QED OBVIOUS
        <5> QED BY <3>2, <5>1
      <4> QED BY <3>2, <4>3, <4>4
    <3> QED BY <3>1, <3>2
  <2>3. H = [u \in SUBSET T |-> IF u = {} THEN 0 ELSE g[P(u)] + H[u \ {P(u)}]]
    <3>1. H = [u \in SUBSET T |-> H[u]]
      <4> HIDE DEF W
      <4> QED OBVIOUS
    <3> HIDE DEF H
    <3> QED BY <2>2, <3>1
  <2> HIDE DEF H
  <2> QED BY <2>3 DEF SumsUpto
<1> HIDE DEF X
<1>2. \A T \in SUBSET S : T \in X
  BY <1>1, SubsetInduction
<1> QED BY <1>2 DEF X

\* The facts about sums that the proofs below use.
LEMMA SumOfNone == ASSUME NEW g PROVE SumFunctionOnSet(g, {}) = 0
<1>1. PICK F : SumsUpto(g, {}, F) /\ SumFunctionOnSet(g, {}) = F[{}]
  BY SumsExist, SumIs, FS_EmptySet
<1> QED BY <1>1 DEF SumsUpto

LEMMA SumAgree ==
  ASSUME NEW S, IsFiniteSet(S), NEW g, NEW h, \A x \in S : g[x] = h[x]
  PROVE  SumFunctionOnSet(g, S) = SumFunctionOnSet(h, S)
<1>1. PICK F : SumsUpto(g, S, F) /\ SumFunctionOnSet(g, S) = F[S]
  BY SumsExist, SumIs
<1>2. PICK G : SumsUpto(h, S, G) /\ SumFunctionOnSet(h, S) = G[S]
  BY SumsExist, SumIs
<1>3. S \in SUBSET S /\ S \subseteq S
  OBVIOUS
<1> QED BY <1>1, <1>2, <1>3, SumsAgree

LEMMA SumType ==
  ASSUME NEW S, IsFiniteSet(S), NEW g, \A x \in S : g[x] \in Nat
  PROVE  SumFunctionOnSet(g, S) \in Nat
<1>1. PICK F : SumsUpto(g, S, F) /\ SumFunctionOnSet(g, S) = F[S]
  BY SumsExist, SumIs
<1> DEFINE X == {s \in SUBSET S : F[s] \in Nat}
<1>2. ASSUME NEW s \in SUBSET S, \A u \in SUBSET s : u # s => u \in X
      PROVE  s \in X
  <2>1. CASE s = {}
    BY <1>1, <2>1 DEF SumsUpto
  <2>2. CASE s # {}
    <3> DEFINE p == CHOOSE x \in s : TRUE
    <3>1. p \in s
      BY <2>2
    <3>2. s \ {p} \in X
      <4> HIDE DEF X
      <4> QED BY <1>2, <3>1
    <3>3. F[s] = g[p] + F[s \ {p}]
      BY <1>1, <2>2 DEF SumsUpto
    <3>4. g[p] \in Nat /\ F[s \ {p}] \in Nat
      BY <3>1, <3>2
    <3> HIDE DEF p
    <3> QED BY <3>3, <3>4
  <2> QED BY <2>1, <2>2
<1>3. \A s \in SUBSET S : s \in X
  <2> HIDE DEF X
  <2> QED BY <1>2, SubsetInduction
<1> QED BY <1>1, <1>3

LEMMA SumSplit ==
  ASSUME NEW S, IsFiniteSet(S), NEW g, \A x \in S : g[x] \in Nat, NEW e \in S
  PROVE  SumFunctionOnSet(g, S) = g[e] + SumFunctionOnSet(g, S \ {e})
<1>1. PICK F : SumsUpto(g, S, F) /\ SumFunctionOnSet(g, S) = F[S]
  BY SumsExist, SumIs
<1>2. \A s \in SUBSET S : SumFunctionOnSet(g, s) = F[s] /\ F[s] \in Nat
  <2> SUFFICES ASSUME NEW s \in SUBSET S
               PROVE  SumFunctionOnSet(g, s) = F[s] /\ F[s] \in Nat
    OBVIOUS
  <2>1. IsFiniteSet(s)
    BY FS_Subset
  <2>2. PICK G : SumsUpto(g, s, G) /\ SumFunctionOnSet(g, s) = G[s]
    BY <2>1, SumsExist, SumIs
  <2>3. s \in SUBSET s /\ s \subseteq S /\ s \subseteq s /\ \A x \in s : g[x] \in Nat
    OBVIOUS
  <2>4. G[s] = F[s]
    BY <1>1, <2>1, <2>2, <2>3, SumsAgree
  <2>5. SumFunctionOnSet(g, s) \in Nat
    BY <2>1, <2>3, SumType
  <2> QED BY <2>2, <2>4, <2>5
<1> DEFINE X == {s \in SUBSET S : \A x \in s : F[s] = g[x] + F[s \ {x}]}
<1>3. ASSUME NEW s \in SUBSET S, \A u \in SUBSET s : u # s => u \in X
      PROVE  s \in X
  <2> SUFFICES ASSUME NEW x \in s PROVE F[s] = g[x] + F[s \ {x}]
    OBVIOUS
  <2> DEFINE p == CHOOSE y \in s : TRUE
  <2>1. p \in s
    OBVIOUS
  <2>2. F[s] = g[p] + F[s \ {p}]
    BY <1>1 DEF SumsUpto
  <2> HIDE DEF p
  <2>3. CASE x = p
    BY <2>2, <2>3
  <2>4. CASE x # p
    <3> DEFINE u == s \ {x}
               v == s \ {p}
               w == (s \ {x}) \ {p}
    <3>1. u \in X /\ v \in X
      <4> HIDE DEF X
      <4> QED BY <1>3, <2>1
    <3>2. p \in u /\ x \in v /\ v \ {x} = w /\ w \in SUBSET S
      BY <2>1, <2>4
    <3>3. F[u] = g[p] + F[w] /\ F[v] = g[x] + F[w]
      BY <3>1, <3>2
    <3>4. g[p] \in Nat /\ g[x] \in Nat /\ F[w] \in Nat
      <4> HIDE DEF w
      <4> QED BY <1>2, <2>1, <3>2
    <3>5. F[s] = g[p] + F[v]
      BY <2>2
    <3> HIDE DEF u, v, w
    <3>6. F[s] = g[x] + F[u]
      BY <3>3, <3>4, <3>5
    <3> QED BY <3>6 DEF u
  <2> QED BY <2>3, <2>4
<1>4. \A s \in SUBSET S : s \in X
  <2> HIDE DEF X
  <2> QED BY <1>3, SubsetInduction
<1>5. F[S] = g[e] + F[S \ {e}] /\ S \ {e} \in SUBSET S
  BY <1>4
<1> QED BY <1>1, <1>2, <1>5

LEMMA SumMember ==
  ASSUME NEW S, IsFiniteSet(S), NEW g, \A x \in S : g[x] \in Nat, NEW e \in S
  PROVE  g[e] <= SumFunctionOnSet(g, S)
<1>1. SumFunctionOnSet(g, S) = g[e] + SumFunctionOnSet(g, S \ {e})
  BY SumSplit
<1>2. SumFunctionOnSet(g, S \ {e}) \in Nat
  BY FS_RemoveElement, SumType
<1> QED BY <1>1, <1>2

LEMMA SumPair ==
  ASSUME NEW S, IsFiniteSet(S), NEW g, \A x \in S : g[x] \in Nat,
         NEW d \in S, NEW e \in S, d # e
  PROVE  g[d] + g[e] <= SumFunctionOnSet(g, S)
<1>1. SumFunctionOnSet(g, S) = g[d] + SumFunctionOnSet(g, S \ {d})
  BY SumSplit
<1>2. IsFiniteSet(S \ {d}) /\ e \in S \ {d}
  BY FS_RemoveElement
<1>3. g[e] <= SumFunctionOnSet(g, S \ {d}) /\ SumFunctionOnSet(g, S \ {d}) \in Nat
  BY <1>2, SumMember, SumType
<1> QED BY <1>1, <1>3

\* A change of one summand.
LEMMA SumChange ==
  ASSUME NEW S, IsFiniteSet(S), NEW g, NEW h, NEW e \in S,
         \A x \in S : g[x] \in Nat /\ h[x] \in Nat /\ (x # e => g[x] = h[x])
  PROVE  SumFunctionOnSet(h, S) + g[e] = SumFunctionOnSet(g, S) + h[e]
<1> DEFINE R == S \ {e}
<1>1. SumFunctionOnSet(g, S) = g[e] + SumFunctionOnSet(g, R)
  BY SumSplit
<1>2. SumFunctionOnSet(h, S) = h[e] + SumFunctionOnSet(h, R)
  BY SumSplit
<1>3. IsFiniteSet(R)
  BY FS_RemoveElement
<1>4. SumFunctionOnSet(g, R) = SumFunctionOnSet(h, R) /\ SumFunctionOnSet(g, R) \in Nat
  BY <1>3, SumAgree, SumType
<1>5. g[e] \in Nat /\ h[e] \in Nat
  OBVIOUS
<1> QED BY <1>1, <1>2, <1>4, <1>5

\* One more summand.
LEMMA SumExtend ==
  ASSUME NEW S, IsFiniteSet(S), NEW g, NEW h, NEW e, e \notin S, h[e] \in Nat,
         \A x \in S : g[x] \in Nat /\ g[x] = h[x], NEW R, R = S \union {e}
  PROVE  SumFunctionOnSet(h, R) = SumFunctionOnSet(g, S) + h[e]
<1>1. IsFiniteSet(R) /\ e \in R /\ R \ {e} = S /\ \A x \in R : h[x] \in Nat
  BY FS_AddElement
<1>2. SumFunctionOnSet(h, R) = h[e] + SumFunctionOnSet(h, S)
  BY <1>1, SumSplit
<1>3. SumFunctionOnSet(h, S) = SumFunctionOnSet(g, S) /\ SumFunctionOnSet(g, S) \in Nat
  BY SumAgree, SumType
<1> QED BY <1>2, <1>3

LEMMA SumOfZeros ==
  ASSUME NEW S, IsFiniteSet(S), NEW g, \A x \in S : g[x] = 0
  PROVE  SumFunctionOnSet(g, S) = 0
<1> DEFINE X == {s \in SUBSET S : SumFunctionOnSet(g, s) = 0}
<1>1. ASSUME NEW s \in SUBSET S, \A u \in SUBSET s : u # s => u \in X
      PROVE  s \in X
  <2>1. CASE s = {}
    BY <2>1, SumOfNone
  <2>2. CASE s # {}
    <3>1. PICK x \in s : TRUE
      BY <2>2
    <3>2. s \ {x} \in X
      <4> HIDE DEF X
      <4> QED BY <1>1, <3>1
    <3>3. IsFiniteSet(s) /\ \A y \in s : g[y] \in Nat
      BY FS_Subset
    <3>4. SumFunctionOnSet(g, s) = g[x] + SumFunctionOnSet(g, s \ {x})
      BY <3>3, SumSplit
    <3>5. g[x] = 0 /\ SumFunctionOnSet(g, s \ {x}) = 0
      BY <3>2
    <3> QED BY <3>4, <3>5
  <2> QED BY <2>1, <2>2
<1>2. \A s \in SUBSET S : s \in X
  <2> HIDE DEF X
  <2> QED BY <1>1, SubsetInduction
<1> QED BY <1>2

\* All summands but one are zero.
LEMMA SumOfOne ==
  ASSUME NEW S, IsFiniteSet(S), NEW g, NEW e \in S, g[e] \in Nat,
         \A x \in S : x # e => g[x] = 0
  PROVE  SumFunctionOnSet(g, S) = g[e]
<1>1. \A x \in S : g[x] \in Nat
  OBVIOUS
<1>2. SumFunctionOnSet(g, S) = g[e] + SumFunctionOnSet(g, S \ {e})
  BY <1>1, SumSplit
<1>3. IsFiniteSet(S \ {e}) /\ \A x \in S \ {e} : g[x] = 0
  BY FS_RemoveElement
<1>4. SumFunctionOnSet(g, S \ {e}) = 0
  BY <1>3, SumOfZeros
<1> QED BY <1>2, <1>4

-----------------------------------------------------------------------------
(* The packets of a flow.                                                  *)

Indices == 0..(PktCnt - 1)

PktsOf(f) == {Packet(f, i, c) : i \in Indices, c \in Nat}

\* No two packets of a set are the same part of the flow.
Single(T) == \A p, q \in T : p.idx = q.idx => p = q

HasLast(T) == \E p \in T : p.idx = PktCnt - 1

\* The last packet of a flow carries the rest.
LEMMA PktCntType ==
  /\ PktCnt \in Nat \ {0}
  /\ (PktCnt - 1) * AppBytes < FlowSize
  /\ FlowSize <= PktCnt * AppBytes
<1> DEFINE n == FlowSize + AppBytes - 1
           q == n \div AppBytes
           r == n % AppBytes
<1>1. FlowSize \in Nat \ {0} /\ AppBytes \in Nat \ {0} /\ n \in Nat
  BY SizeAssumption
<1>2. n = AppBytes * q + r /\ q \in Nat /\ r \in 0..(AppBytes - 1)
  BY <1>1
<1>3. FlowSize + AppBytes - 1 = n /\ PktCnt = q
  BY DEF PktCnt
<1> HIDE DEF n, q, r
<1>4. q # 0
  <2> SUFFICES ASSUME q = 0 PROVE FALSE
    OBVIOUS
  <2>1. AppBytes * q = 0
    BY <1>1
  <2> QED BY <1>1, <1>2, <1>3, <2>1
<1>5. (q - 1) * AppBytes = AppBytes * q - AppBytes /\ q * AppBytes = AppBytes * q
  BY <1>1, <1>2
<1>6. AppBytes * q \in Nat
  BY <1>1, <1>2
<1> QED BY <1>1, <1>2, <1>3, <1>4, <1>5, <1>6

LEMMA PacketFields ==
  ASSUME NEW f, NEW i \in Indices, NEW c
  PROVE  /\ Packet(f, i, c).flow = f /\ Packet(f, i, c).idx = i /\ Packet(f, i, c).copy = c
         /\ Packet(f, i, c).bytes \in Nat \ {0}
         /\ i # PktCnt - 1 => Packet(f, i, c).bytes = AppBytes
         /\ i = PktCnt - 1 => Packet(f, i, c).bytes = FlowSize - (PktCnt - 1) * AppBytes
<1> DEFINE x == i * AppBytes
           y == (PktCnt - 1) * AppBytes
           rem == FlowSize - x
<1>1. FlowSize \in Nat \ {0} /\ AppBytes \in Nat \ {0} /\ PktCnt \in Nat \ {0} /\ i \in 0..(PktCnt - 1)
  BY SizeAssumption, PktCntType DEF Indices
<1>2. x \in Nat /\ y \in Nat /\ y < FlowSize /\ FlowSize <= y + AppBytes
  <2>1. PktCnt * AppBytes = y + AppBytes
    BY <1>1
  <2> QED BY <1>1, <2>1, PktCntType
<1>3. i # PktCnt - 1 => x + AppBytes <= y
  <2> SUFFICES ASSUME i # PktCnt - 1 PROVE x + AppBytes <= y
    OBVIOUS
  <2>1. i + 1 <= PktCnt - 1 /\ i + 1 \in Nat /\ PktCnt - 1 \in Nat
    BY <1>1
  <2>2. (i + 1) * AppBytes <= (PktCnt - 1) * AppBytes
    BY <1>1, <2>1
  <2>3. (i + 1) * AppBytes = x + AppBytes
    BY <1>1
  <2> QED BY <2>2, <2>3
<1>4. i = PktCnt - 1 => x = y
  OBVIOUS
<1>5. /\ Packet(f, i, c).flow = f /\ Packet(f, i, c).idx = i /\ Packet(f, i, c).copy = c
      /\ Packet(f, i, c).bytes = IF rem < AppBytes THEN rem ELSE AppBytes
  BY DEF Packet
<1> HIDE DEF x, y
<1> QED BY <1>1, <1>2, <1>3, <1>4, <1>5 DEF y

LEMMA IndicesCount == IsFiniteSet(Indices) /\ Cardinality(Indices) = PktCnt
<1> DEFINE n == PktCnt - 1
<1>1. n \in Nat /\ PktCnt = n + 1
  BY PktCntType
<1>2. Indices = 0..n
  BY DEF Indices
<1> HIDE DEF n
<1>3. IsFiniteSet(0..n) /\ Cardinality(0..n) = n + 1
  BY <1>1, FS_Interval
<1> QED BY <1>1, <1>2, <1>3

\* A flow has no more packets than indices, and one of each if it has as many.
LEMMA SinglesCount ==
  ASSUME NEW f, NEW T \in SUBSET PktsOf(f), Single(T)
  PROVE  /\ IsFiniteSet(T) /\ Cardinality(T) \in 0..PktCnt
         /\ Cardinality(T) = PktCnt => {p.idx : p \in T} = Indices
<1> DEFINE d == [p \in T |-> p.idx]
<1>1. \A p \in T : p.idx \in Indices
  BY PacketFields DEF PktsOf
<1>2. d \in Injection(T, Indices)
  BY <1>1 DEF Single, Injection, IsInjective
<1>3. /\ IsFiniteSet(T) /\ Cardinality(T) <= PktCnt
      /\ Cardinality(T) = PktCnt => d \in Surjection(T, Indices)
  <2> HIDE DEF d
  <2> QED BY <1>2, IndicesCount, FS_Injection
<1>4. Cardinality(T) \in Nat /\ PktCnt \in Nat
  BY <1>3, FS_CardinalityType, PktCntType
<1>5. d \in Surjection(T, Indices) => {p.idx : p \in T} = Indices
  BY <1>1 DEF Surjection
<1> HIDE DEF d
<1> QED BY <1>3, <1>4, <1>5

\* Packets of every index are at least as many as the flow has.
LEMMA ArrivedCount ==
  ASSUME NEW T, IsFiniteSet(T), {p.idx : p \in T} = Indices
  PROVE  Cardinality(T) >= PktCnt
<1> DEFINE d == [p \in T |-> p.idx]
<1>1. d \in Surjection(T, Indices)
  <2>1. d \in [T -> Indices]
    OBVIOUS
  <2>2. \A i \in Indices : \E p \in T : d[p] = i
    OBVIOUS
  <2> QED BY <2>1, <2>2 DEF Surjection
<1>2. Cardinality(Indices) <= Cardinality(T)
  <2> HIDE DEF d
  <2> QED BY <1>1, FS_Surjection
<1>3. Cardinality(T) \in Nat /\ PktCnt \in Nat
  BY FS_CardinalityType, PktCntType
<1> QED BY <1>2, <1>3, IndicesCount

\* What a set of packets of a flow holds: as many times AppBytes as there are
\* packets, less what the last one lacks.
LEMMA BytesOf ==
  ASSUME NEW f, NEW T \in SUBSET PktsOf(f), Single(T)
  PROVE  SumFunction([pkt \in T |-> pkt.bytes])
           = Cardinality(T) * AppBytes
               - IF HasLast(T) THEN PktCnt * AppBytes - FlowSize ELSE 0
<1> DEFINE g == [pkt \in T |-> pkt.bytes]
           lack == PktCnt * AppBytes - FlowSize
           Held(s) == Cardinality(s) * AppBytes - IF HasLast(s) THEN lack ELSE 0
           X == {s \in SUBSET T : SumFunctionOnSet(g, s) = Held(s)}
<1>1. IsFiniteSet(T)
  BY SinglesCount
<1>2. AppBytes \in Nat /\ lack \in Int
  BY SizeAssumption, PktCntType
<1>3. ASSUME NEW p \in T
      PROVE  g[p] \in Nat /\ g[p] = AppBytes - IF p.idx = PktCnt - 1 THEN lack ELSE 0
  <2>1. PICK i \in Indices, c \in Nat : p = Packet(f, i, c)
    BY DEF PktsOf
  <2>2. g[p] = p.bytes /\ p.idx = i
    BY <2>1, PacketFields
  <2>3. FlowSize - (PktCnt - 1) * AppBytes = AppBytes - lack
    <3>1. (PktCnt - 1) * AppBytes = PktCnt * AppBytes - AppBytes
      BY PktCntType, SizeAssumption
    <3> QED BY <3>1, PktCntType, SizeAssumption
  <2> HIDE DEF g, lack
  <2> QED BY <1>2, <2>1, <2>2, <2>3, PacketFields
<1>4. ASSUME NEW s \in SUBSET T, \A u \in SUBSET s : u # s => u \in X
      PROVE  s \in X
  <2>1. IsFiniteSet(s)
    BY <1>1, FS_Subset
  <2>2. CASE s = {}
    <3>1. Cardinality(s) = 0 /\ SumFunctionOnSet(g, s) = 0 /\ ~HasLast(s)
      BY <2>2, SumOfNone, FS_EmptySet DEF HasLast
    <3> HIDE DEF g
    <3> QED BY <1>2, <3>1
  <2>3. CASE s # {}
    <3>1. PICK p \in s : TRUE
      BY <2>3
    <3> DEFINE u == s \ {p}
    <3>2. u \in X
      <4> HIDE DEF X
      <4> QED BY <1>4, <3>1
    <3>3. \A x \in s : g[x] \in Nat
      BY <1>3
    <3>4. SumFunctionOnSet(g, s) = g[p] + SumFunctionOnSet(g, u)
      <4> HIDE DEF g
      <4> QED BY <2>1, <3>1, <3>3, SumSplit
    <3>5. Cardinality(s) = Cardinality(u) + 1 /\ Cardinality(u) \in Nat
      <4>1. IsFiniteSet(u) /\ Cardinality(u) = Cardinality(s) - 1
        BY <2>1, <3>1, FS_RemoveElement
      <4>2. Cardinality(u) \in Nat /\ Cardinality(s) \in Nat
        BY <2>1, <4>1, FS_CardinalityType
      <4> HIDE DEF u
      <4> QED BY <4>1, <4>2
    <3>6. SumFunctionOnSet(g, u) = Held(u)
      BY <3>2
    <3>7. g[p] = AppBytes - IF p.idx = PktCnt - 1 THEN lack ELSE 0
      <4> HIDE DEF g, lack
      <4> QED BY <1>3
    <3>8. HasLast(s) <=> (HasLast(u) \/ p.idx = PktCnt - 1)
      BY <3>1 DEF HasLast
    <3>9. ~(HasLast(u) /\ p.idx = PktCnt - 1)
      BY <3>1 DEF HasLast, Single
    <3>10. Cardinality(s) * AppBytes = Cardinality(u) * AppBytes + AppBytes
      BY <1>2, <3>5
    <3>11. Cardinality(u) * AppBytes \in Nat
      BY <1>2, <3>5
    <3> DEFINE c == Cardinality(u) * AppBytes
               d == Cardinality(s) * AppBytes
               l == p.idx = PktCnt - 1
               lu == HasLast(u)
               ls == HasLast(s)
    <3>12. Held(u) = c - IF lu THEN lack ELSE 0
      OBVIOUS
    <3>13. Held(s) = d - IF ls THEN lack ELSE 0
      OBVIOUS
    <3>14. d = c + AppBytes /\ c \in Nat
      BY <3>10, <3>11
    <3>15. (ls <=> (lu \/ l)) /\ ~(lu /\ l) /\ g[p] = AppBytes - IF l THEN lack ELSE 0
      BY <3>7, <3>8, <3>9
    <3> HIDE DEF g, l, lu, ls, lack, u, c, d, Held
    <3>16. SumFunctionOnSet(g, s) = Held(s)
      BY <1>2, <3>4, <3>6, <3>12, <3>13, <3>14, <3>15
    <3> QED BY <3>16
  <2> QED BY <2>2, <2>3
<1>5. \A s \in SUBSET T : s \in X
  <2> HIDE DEF X
  <2> QED BY <1>1, <1>4, SubsetInduction
<1>6. SumFunctionOnSet(g, T) = Held(T)
  BY <1>5
<1>7. SumFunction(g) = SumFunctionOnSet(g, T)
  BY DEF SumFunction
<1> QED BY <1>6, <1>7

LEMMA BytesOfAll ==
  ASSUME NEW f, NEW T \in SUBSET PktsOf(f), Single(T), Cardinality(T) = PktCnt
  PROVE  SumFunction([pkt \in T |-> pkt.bytes]) = FlowSize
<1>1. PktCnt - 1 \in Indices /\ PktCnt * AppBytes \in Nat /\ FlowSize \in Nat
  BY PktCntType, SizeAssumption DEF Indices
<1>2. HasLast(T)
  <2>1. PktCnt - 1 \in {p.idx : p \in T}
    BY <1>1, SinglesCount
  <2> QED BY <2>1 DEF HasLast
<1>3. SumFunction([pkt \in T |-> pkt.bytes]) = PktCnt * AppBytes - (PktCnt * AppBytes - FlowSize)
  BY <1>2, BytesOf
<1> DEFINE n == PktCnt * AppBytes
<1>4. n - (n - FlowSize) = FlowSize
  <2>1. n \in Nat
    BY <1>1
  <2> HIDE DEF n
  <2> QED BY <1>1, <2>1
<1> QED BY <1>3, <1>4

-----------------------------------------------------------------------------
(* Sums over entries.                                                      *)

Entry == [used : BOOLEAN, flow : Nat, expected : Nat, got : Nat, bytes : Nat]

Share(entry, f, field) == IF entry.used /\ entry.flow = f THEN entry[field] ELSE 0

LEMMA OfFlowIs ==
  ASSUME NEW f, NEW t, NEW field
  PROVE  OfFlow(f, t, field)
           = SumFunctionOnSet([k \in DOMAIN t |-> Share(t[k], f, field)], DOMAIN t)
BY DEF OfFlow, SumFunction, Share

LEMMA ShareType ==
  ASSUME NEW e \in Entry, NEW f, NEW field \in {"got", "bytes"}
  PROVE  Share(e, f, field) \in Nat
BY DEF Entry, Share

LEMMA OfFlowParts ==
  ASSUME NEW S, IsFiniteSet(S), NEW t \in [S -> Entry], NEW f, NEW field \in {"got", "bytes"}
  PROVE  /\ OfFlow(f, t, field) \in Nat
         /\ \A k \in S : Share(t[k], f, field) <= OfFlow(f, t, field)
         /\ \A k, m \in S : k # m =>
              Share(t[k], f, field) + Share(t[m], f, field) <= OfFlow(f, t, field)
         /\ \A k \in S : (\A m \in S : m # k => Share(t[m], f, field) = 0)
                            => OfFlow(f, t, field) = Share(t[k], f, field)
         /\ (\A k \in S : Share(t[k], f, field) = 0) => OfFlow(f, t, field) = 0
<1> DEFINE g == [k \in S |-> Share(t[k], f, field)]
<1>1. OfFlow(f, t, field) = SumFunctionOnSet(g, S)
  BY OfFlowIs
<1>2. \A k \in S : g[k] = Share(t[k], f, field) /\ g[k] \in Nat
  BY ShareType
<1> HIDE DEF g
<1>3. SumFunctionOnSet(g, S) \in Nat
  BY <1>2, SumType
<1>4. \A k \in S : g[k] <= SumFunctionOnSet(g, S)
  BY <1>2, SumMember
<1>5. \A k, m \in S : k # m => g[k] + g[m] <= SumFunctionOnSet(g, S)
  BY <1>2, SumPair
<1>6. \A k \in S : (\A m \in S : m # k => g[m] = 0) => SumFunctionOnSet(g, S) = g[k]
  BY <1>2, SumOfOne
<1>7. (\A k \in S : g[k] = 0) => SumFunctionOnSet(g, S) = 0
  BY SumOfZeros
<1> QED BY <1>1, <1>2, <1>3, <1>4, <1>5, <1>6, <1>7

LEMMA OfFlowChange ==
  ASSUME NEW S, IsFiniteSet(S), NEW t \in [S -> Entry], NEW u \in [S -> Entry], NEW slot \in S,
         \A k \in S : k # slot => u[k] = t[k], NEW f, NEW field \in {"got", "bytes"}
  PROVE  OfFlow(f, u, field) + Share(t[slot], f, field)
           = OfFlow(f, t, field) + Share(u[slot], f, field)
<1> DEFINE g == [k \in S |-> Share(t[k], f, field)]
           h == [k \in S |-> Share(u[k], f, field)]
<1>1. OfFlow(f, t, field) = SumFunctionOnSet(g, S) /\ OfFlow(f, u, field) = SumFunctionOnSet(h, S)
  BY OfFlowIs
<1>2. /\ \A k \in S : g[k] \in Nat /\ h[k] \in Nat /\ (k # slot => g[k] = h[k])
      /\ g[slot] = Share(t[slot], f, field) /\ h[slot] = Share(u[slot], f, field)
  BY ShareType
<1> HIDE DEF g, h
<1>3. SumFunctionOnSet(h, S) + g[slot] = SumFunctionOnSet(g, S) + h[slot]
  BY <1>2, SumChange
<1> QED BY <1>1, <1>2, <1>3

LEMMA OfFlowAppend ==
  ASSUME NEW s \in Seq(Entry), NEW e \in Entry, NEW f, NEW field \in {"got", "bytes"}
  PROVE  OfFlow(f, Append(s, e), field) = OfFlow(f, s, field) + Share(e, f, field)
<1> DEFINE n == Len(s)
           u == Append(s, e)
           g == [k \in 1..n |-> Share(s[k], f, field)]
           h == [k \in 1..(n + 1) |-> Share(u[k], f, field)]
<1>1. /\ n \in Nat /\ DOMAIN s = 1..n /\ DOMAIN u = 1..(n + 1) /\ u[n + 1] = e
      /\ \A k \in 1..n : u[k] = s[k] /\ s[k] \in Entry
  OBVIOUS
<1> HIDE DEF n, u
<1>2. /\ OfFlow(f, s, field) = SumFunctionOnSet(g, 1..n)
      /\ OfFlow(f, u, field) = SumFunctionOnSet(h, 1..(n + 1))
  BY <1>1, OfFlowIs
<1>3. 1..(n + 1) = (1..n) \union {n + 1} /\ n + 1 \notin 1..n /\ IsFiniteSet(1..n)
  <2>1. IsFiniteSet(1..n)
    BY <1>1, FS_Interval
  <2> QED BY <1>1, <2>1
<1>4. /\ \A k \in 1..n : g[k] \in Nat /\ g[k] = h[k]
      /\ h[n + 1] = Share(e, f, field) /\ h[n + 1] \in Nat
  BY <1>1, ShareType
<1> HIDE DEF g, h
<1>5. SumFunctionOnSet(h, 1..(n + 1)) = SumFunctionOnSet(g, 1..n) + h[n + 1]
  <2> DEFINE S == 1..n
             R == 1..(n + 1)
             x == n + 1
  <2>1. /\ IsFiniteSet(S) /\ x \notin S /\ h[x] \in Nat /\ R = S \union {x}
        /\ \A k \in S : g[k] \in Nat /\ g[k] = h[k]
    BY <1>3, <1>4
  <2> HIDE DEF S, R, x
  <2>2. SumFunctionOnSet(h, R) = SumFunctionOnSet(g, S) + h[x]
    BY <2>1, SumExtend
  <2> QED BY <2>2 DEF S, R, x
<1> QED BY <1>2, <1>4, <1>5 DEF u

-----------------------------------------------------------------------------
(* The inductive invariant.                                                *)

Pkts == {Packet(f, i, c) : f \in Flows, i \in Indices, c \in Nat}

\* An entry of the table that is in use, and an entry that was written.
InUse(e) ==
  /\ e \in Entry /\ e.used /\ e.flow \in Flows /\ e.expected = PktCnt
  /\ e.got \in 1..(PktCnt - 1) /\ e.bytes # 0

Written(e) ==
  /\ e \in Entry /\ e.used /\ e.flow \in Flows /\ e.got = PktCnt /\ e.bytes # 0

\* A packet is under way or counted, and not both; its copies are numbered.
SenderType ==
  /\ startFlowId \in Placements
  /\ pos \in [Senders -> [flow : Nat, idx : Indices]]
  /\ network \subseteq Pkts
  /\ counted \subseteq Pkts /\ IsFiniteSet(counted) /\ network \intersect counted = {}
  /\ repeats \in 0..MaxRepeats
  /\ \A p \in network \union counted : p.copy \in 0..repeats

ReceiverType ==
  /\ tbl \in [Slots -> Entry]
  /\ \A i \in Slots : tbl[i] = Free \/ InUse(tbl[i])
  /\ rows \in Seq(Entry)
  /\ \A k \in DOMAIN rows : Written(rows[k])
  /\ read \in Nat /\ (PacketCount # 0 => read <= PacketCount)
  /\ strays \in 0..MaxStrays

\* A sender sends each packet once: those it has sent, and their copies, come
\* before its position.
SentBefore ==
  \A s \in Senders : \A p \in network \union counted :
     p.flow \in FlowIds(s) =>
        p.flow < pos[s].flow \/ (p.flow = pos[s].flow /\ p.idx < pos[s].idx)

\* While no two flows share a home slot, every flow's entry is at home, and
\* no packet was refused.
AtHome ==
  Apart => /\ \A i \in Slots : tbl[i].used => i = Probe(tbl[i].flow, 0)
           /\ read = strays + Cardinality(counted)

IInv == SenderType /\ ReceiverType /\ SentBefore /\ PacketsAccounted /\ AtHome

LEMMA FlowsType ==
  ASSUME startFlowId \in Placements
  PROVE  /\ Flows \subseteq Nat
         /\ \A s \in Senders : startFlowId[s] \in Nat /\ FlowIds(s) \subseteq Nat
         /\ \A s, t \in Senders : s # t => FlowIds(s) \intersect FlowIds(t) = {}
<1>1. startFlowId \in [Senders -> Nat] /\ NumFlows \in Nat \ {0}
  BY FlowIdAssumption, SizeAssumption
<1>2. \A s \in Senders : startFlowId[s] \in Nat /\ FlowIds(s) \subseteq Nat
  BY <1>1 DEF FlowIds, IdsFrom
<1> QED BY <1>2, FlowIdAssumption DEF Flows, FlowIds

LEMMA PktType ==
  ASSUME NEW p \in Pkts
  PROVE  /\ p.flow \in Flows /\ p.idx \in Indices /\ p.bytes \in Nat \ {0}
         /\ p \in PktsOf(p.flow) /\ p.copy \in Nat /\ p = Packet(p.flow, p.idx, p.copy)
<1>1. PICK f \in Flows, i \in Indices, c \in Nat : p = Packet(f, i, c)
  BY DEF Pkts
<1> QED BY <1>1, PacketFields DEF PktsOf

LEMMA SlotsFinite == IsFiniteSet(Slots) /\ MaxFlows \in Nat \ {0} /\ 0 \in Slots
<1>1. MaxFlows \in Nat \ {0}
  BY SizeAssumption
<1>2. IsFiniteSet(0..(MaxFlows - 1))
  BY <1>1, FS_Interval
<1> QED BY <1>1, <1>2 DEF Slots

LEMMA RowsFinite ==
  ASSUME NEW s \in Seq(Entry)
  PROVE  IsFiniteSet(DOMAIN s) /\ s \in [DOMAIN s -> Entry]
<1>1. DOMAIN s = 1..Len(s) /\ Len(s) \in Nat
  OBVIOUS
<1>2. IsFiniteSet(1..Len(s))
  BY <1>1, FS_Interval
<1> QED BY <1>1, <1>2

LEMMA InitInv == Init => IInv
<1> SUFFICES ASSUME Init PROVE IInv
  OBVIOUS
<1>1. Free \in Entry
  BY DEF Free, Entry
<1>2. SenderType
  <2>1. 0 \in Indices
    BY PktCntType DEF Indices
  <2>2. \A s \in Senders : startFlowId[s] \in Nat
    BY FlowsType DEF Init
  <2>3. 0 \in 0..MaxRepeats
    BY SizeAssumption
  <2> QED BY <2>1, <2>2, <2>3, FS_EmptySet DEF Init, SenderType
<1>3. ReceiverType
  BY <1>1, SizeAssumption DEF Init, ReceiverType
<1>4. SentBefore
  BY DEF Init, SentBefore
<1>5. PacketsAccounted
  <2> SUFFICES ASSUME NEW f \in Flows
               PROVE  /\ OfFlow(f, tbl, "got") + OfFlow(f, rows, "got") = Cardinality(CountedOf(f))
                      /\ OfFlow(f, tbl, "bytes") + OfFlow(f, rows, "bytes")
                           = SumFunction([pkt \in CountedOf(f) |-> pkt.bytes])
    BY DEF PacketsAccounted
  <2>1. CountedOf(f) = {}
    BY DEF CountedOf, Init
  <2>2. Cardinality(CountedOf(f)) = 0 /\ SumFunction([pkt \in CountedOf(f) |-> pkt.bytes]) = 0
    BY <2>1, FS_EmptySet, SumOfNone DEF SumFunction
  <2>3. \A field \in {"got", "bytes"} : OfFlow(f, tbl, field) = 0
    <3>1. tbl \in [Slots -> Entry] /\ \A i \in Slots : ~tbl[i].used
      BY <1>1 DEF Init, Free
    <3>2. \A i \in Slots, field \in {"got", "bytes"} : Share(tbl[i], f, field) = 0
      BY <3>1 DEF Share
    <3> QED BY <3>1, <3>2, SlotsFinite, OfFlowParts
  <2>4. \A field \in {"got", "bytes"} : OfFlow(f, rows, field) = 0
    <3>1. rows \in Seq(Entry) /\ DOMAIN rows = {}
      BY DEF Init
    <3>2. \A field \in {"got", "bytes"} : \A k \in DOMAIN rows : Share(rows[k], f, field) = 0
      BY <3>1
    <3> QED BY <3>1, <3>2, RowsFinite, OfFlowParts
  <2> QED BY <2>2, <2>3, <2>4
<1>6. AtHome
  BY FS_EmptySet DEF Init, AtHome, Free
<1> QED BY <1>2, <1>3, <1>4, <1>5, <1>6 DEF IInv

\* What does not change while the flow ids do not.
LEMMA FlowsSame ==
  ASSUME startFlowId' = startFlowId
  PROVE  Flows' = Flows /\ Pkts' = Pkts /\ Apart' = Apart /\ \A s : FlowIds(s)' = FlowIds(s)
BY DEF Flows, Pkts, Apart, FlowIds

LEMMA ReceiverSame ==
  ASSUME ReceiverType, PacketsAccounted, UNCHANGED <<startFlowId, tbl, rows, counted>>,
         read' \in Nat, PacketCount # 0 => read' <= PacketCount, strays' \in 0..MaxStrays
  PROVE  ReceiverType' /\ PacketsAccounted'
<1>1. ReceiverType'
  BY FlowsSame DEF ReceiverType, InUse, Written
<1>2. PacketsAccounted'
  BY FlowsSame DEF PacketsAccounted, CountedOf, OfFlow
<1> QED BY <1>1, <1>2

LEMMA SendStep ==
  ASSUME IInv, NEW s \in Senders, Send(s)
  PROVE  IInv'
<1> DEFINE f == pos[s].flow
           i == pos[s].idx
           p == Packet(f, i, 0)
           q == Advance(pos[s])
<1>1. /\ f \in FlowIds(s) /\ f \in Flows /\ f \in Nat /\ i \in Indices /\ p \in Pkts
      /\ i \in Nat /\ pos[s] = [flow |-> f, idx |-> i]
  <2>1. pos[s] \in [flow : Nat, idx : Indices] /\ f \in FlowIds(s)
    BY DEF IInv, SenderType, Send
  <2>2. f \in Flows
    BY <2>1 DEF Flows
  <2> QED BY <2>1, <2>2, PktCntType DEF Pkts, Indices
<1>2. p.flow = f /\ p.idx = i /\ p.copy = 0
  BY <1>1, PacketFields
<1>3. p \notin counted
  <2> SUFFICES ASSUME p \in counted PROVE FALSE
    OBVIOUS
  <2>1. p.flow < f \/ (p.flow = f /\ p.idx < i)
    BY <1>1, <1>2 DEF IInv, SentBefore
  <2> HIDE DEF p, f, i
  <2> QED BY <1>1, <1>2, <2>1
<1>4. /\ q \in [flow : Nat, idx : Indices]
      /\ (q.flow = f /\ q.idx = i + 1) \/ (q.flow = f + 1 /\ q.idx = 0)
  <2>1. CASE i + 1 < PktCnt
    BY <1>1, <2>1, PktCntType DEF Advance, Indices
  <2>2. CASE ~(i + 1 < PktCnt)
    BY <1>1, <2>2, PktCntType DEF Advance, Indices
  <2> QED BY <2>1, <2>2
<1>5. pos' = [pos EXCEPT ![s] = q] /\ network' \subseteq network \union {p}
  BY DEF Send
<1>6. UNCHANGED <<startFlowId, tbl, rows, read, strays, repeats, counted>>
  BY DEF Send
<1> HIDE DEF p, q
<1>7. SenderType'
  <2>1. pos' \in [Senders -> [flow : Nat, idx : Indices]]
    BY <1>4, <1>5 DEF IInv, SenderType
  <2>2. \A r \in network' \union counted' : r.copy \in 0..repeats
    <3>1. repeats \in Nat
      BY SizeAssumption DEF IInv, SenderType
    <3> QED BY <1>2, <1>5, <1>6, <3>1 DEF IInv, SenderType
  <2> QED BY <1>1, <1>3, <1>5, <1>6, <2>1, <2>2, FlowsSame DEF IInv, SenderType
<1>8. SentBefore'
  <2> SUFFICES ASSUME NEW t \in Senders, NEW r \in network' \union counted', r.flow \in FlowIds(t)
               PROVE  r.flow < pos'[t].flow \/ (r.flow = pos'[t].flow /\ r.idx < pos'[t].idx)
    BY <1>6, FlowsSame DEF SentBefore
  <2>1. CASE t = s
    <3>1. pos'[t] = q
      BY <1>5, <2>1 DEF IInv, SenderType
    <3>2. r = p \/ r.flow < f \/ (r.flow = f /\ r.idx < i)
      BY <1>5, <1>6, <2>1 DEF IInv, SentBefore
    <3>3. r.flow \in Nat /\ r.idx \in Nat
      <4>1. r \in Pkts
        BY <1>1, <1>5, <1>6 DEF IInv, SenderType
      <4>2. r.flow \in Flows /\ r.idx \in Indices
        BY <4>1, PktType
      <4>3. Flows \subseteq Nat /\ Indices \subseteq Nat
        BY FlowsType, PktCntType DEF IInv, SenderType, Indices
      <4> QED BY <4>2, <4>3
    <3> HIDE DEF f, i
    <3> QED BY <1>1, <1>2, <1>4, <3>1, <3>2, <3>3
  <2>2. CASE t # s
    <3>1. pos'[t] = pos[t]
      BY <1>5, <2>2 DEF IInv, SenderType
    <3>2. r # p
      <4>1. FlowIds(s) \intersect FlowIds(t) = {}
        BY <2>2, FlowsType DEF IInv, SenderType
      <4> QED BY <1>1, <1>2, <4>1
    <3>3. r \in network \union counted
      BY <1>5, <1>6, <3>2
    <3> QED BY <3>1, <3>3 DEF IInv, SentBefore
  <2> QED BY <2>1, <2>2
<1>9. ReceiverType' /\ PacketsAccounted'
  BY <1>6, ReceiverSame DEF IInv, ReceiverType
<1>10. AtHome'
  BY <1>6, FlowsSame DEF IInv, AtHome, Probe
<1> QED BY <1>7, <1>8, <1>9, <1>10 DEF IInv

LEMMA RepeatStep ==
  ASSUME IInv, NEW pkt \in network, Repeat(pkt)
  PROVE  IInv'
<1> DEFINE p == Packet(pkt.flow, pkt.idx, repeats + 1)
<1>1. /\ network' = network \union {p} /\ repeats' = repeats + 1 /\ repeats < MaxRepeats
      /\ UNCHANGED <<startFlowId, pos, tbl, rows, read, strays, counted>>
  BY DEF Repeat
<1>2. /\ repeats \in Nat /\ repeats' \in 0..MaxRepeats
      /\ \A r \in network \union counted : r.copy \in 0..repeats
  BY <1>1, SizeAssumption DEF IInv, SenderType
<1>3. p \in Pkts /\ p.flow = pkt.flow /\ p.idx = pkt.idx /\ p.copy = repeats + 1
  <2>1. pkt.flow \in Flows /\ pkt.idx \in Indices
    BY PktType DEF IInv, SenderType
  <2> QED BY <1>2, <2>1, PacketFields DEF Pkts
<1> HIDE DEF p
<1>4. SenderType'
  <2>1. p \notin counted
    BY <1>2, <1>3
  <2>2. \A r \in network' \union counted' : r.copy \in 0..repeats'
    BY <1>1, <1>2, <1>3
  <2> QED BY <1>1, <1>2, <1>3, <2>1, <2>2, FlowsSame DEF IInv, SenderType
<1>5. SentBefore'
  BY <1>1, <1>3, FlowsSame DEF IInv, SentBefore
<1>6. ReceiverType' /\ PacketsAccounted'
  BY <1>1, ReceiverSame DEF IInv, ReceiverType
<1>7. AtHome'
  BY <1>1, FlowsSame DEF IInv, AtHome, Probe
<1> QED BY <1>4, <1>5, <1>6, <1>7 DEF IInv

LEMMA StrayStep ==
  ASSUME IInv, ReceiveStray
  PROVE  IInv'
<1>1. UNCHANGED <<startFlowId, pos, network, tbl, rows, repeats, counted>>
  BY DEF ReceiveStray
<1>2. /\ read' = read + 1 /\ strays' = strays + 1
      /\ read' \in Nat /\ (PacketCount # 0 => read' <= PacketCount) /\ strays' \in 0..MaxStrays
  BY SizeAssumption DEF ReceiveStray, Running, IInv, ReceiverType
<1>3. SenderType'
  BY <1>1, FlowsSame DEF IInv, SenderType
<1>4. SentBefore'
  BY <1>1, FlowsSame DEF IInv, SentBefore
<1>5. ReceiverType' /\ PacketsAccounted'
  BY <1>1, <1>2, ReceiverSame DEF IInv
<1>6. AtHome'
  <2>1. Cardinality(counted) \in Nat /\ read \in Nat /\ strays \in Nat
    BY SizeAssumption, FS_CardinalityType DEF IInv, SenderType, ReceiverType
  <2>2. Apart => (\A i \in Slots : tbl[i].used => i = Probe(tbl[i].flow, 0))
                   /\ read = strays + Cardinality(counted)
    BY DEF IInv, AtHome
  <2>3. read = strays + Cardinality(counted) => read' = strays' + Cardinality(counted')
    BY <1>1, <1>2, <2>1
  <2> QED BY <1>1, <2>2, <2>3, FlowsSame DEF AtHome, Probe
<1> QED BY <1>3, <1>4, <1>5, <1>6 DEF IInv

LEMMA LeastElement ==
  ASSUME NEW S \in SUBSET Nat, S # {}
  PROVE  Min(S) \in S /\ \A k \in S : Min(S) <= k
<1> DEFINE R == OpToRel(<, Nat)
<1>1. IsWellFoundedOn(R, Nat)
  BY NatLessThanWellFounded
<1>2. \A x, y \in Nat : x < y => <<x, y>> \in R
  BY DEF OpToRel
<1> HIDE DEF R
<1>3. PICK x \in S : \A y \in S : ~(<<y, x>> \in R)
  BY <1>1, WFMin
<1>4. ASSUME NEW k \in S PROVE x <= k
  <2>1. k \in Nat /\ x \in Nat /\ ~(k < x)
    BY <1>2, <1>3
  <2> QED BY <2>1
<1> QED BY <1>4 DEF Min

\* Where a packet is counted: in a free slot or in the entry of its flow.
LEMMA HitSlot ==
  ASSUME ReceiverType, NEW f \in Nat, Hits(f) # {}
  PROVE  /\ FirstHit(f) \in Slots
         /\ tbl[FirstHit(f)] = Free \/ (InUse(tbl[FirstHit(f)]) /\ tbl[FirstHit(f)].flow = f)
         /\ 0 \in Hits(f) => FirstHit(f) = Probe(f, 0)
<1> DEFINE m == Min(Hits(f))
<1>1. MaxFlows \in Nat \ {0} /\ Hits(f) \subseteq Slots
  BY SizeAssumption DEF Hits
<1>2. Hits(f) \in SUBSET Nat
  BY <1>1 DEF Slots
<1>3. m \in Hits(f) /\ \A k \in Hits(f) : m <= k
  BY <1>2, LeastElement
<1>4. m \in Nat /\ FirstHit(f) = Probe(f, m)
  BY <1>2, <1>3 DEF FirstHit
<1>5. ~tbl[Probe(f, m)].used \/ tbl[Probe(f, m)].flow = f
  BY <1>3 DEF Hits
<1> HIDE DEF m
<1>6. Probe(f, m) \in Slots
  BY <1>1, <1>4 DEF Probe, Slots
<1>7. 0 \in Hits(f) => m = 0
  <2> SUFFICES ASSUME 0 \in Hits(f) PROVE m = 0
    OBVIOUS
  <2>1. m <= 0
    BY <1>3
  <2> QED BY <1>4, <2>1
<1>8. tbl[Probe(f, m)] = Free \/ InUse(tbl[Probe(f, m)])
  BY <1>6 DEF ReceiverType
<1>9. ~Free.used
  BY DEF Free
<1> QED BY <1>4, <1>5, <1>6, <1>7, <1>8, <1>9 DEF InUse

\* The entry after a packet of its flow was counted in it.
LEMMA EnteredIs ==
  ASSUME NEW o, NEW pkt \in Pkts, startFlowId \in Placements,
         o = Free \/ (InUse(o) /\ o.flow = pkt.flow)
  PROVE  LET e == Entered(o, pkt)
         IN  /\ o \in Entry /\ e \in Entry /\ e.used /\ e.flow = pkt.flow /\ e.expected = PktCnt
             /\ e.got = o.got + 1 /\ e.bytes = o.bytes + pkt.bytes /\ e.bytes # 0
             /\ ~Complete(e) => InUse(e)
             /\ Complete(e) => Written(e)
             /\ Share(o, pkt.flow, "got") = o.got /\ Share(o, pkt.flow, "bytes") = o.bytes
             /\ \A f : f # pkt.flow => Share(o, f, "got") = 0 /\ Share(o, f, "bytes") = 0
<1> DEFINE e == Entered(o, pkt)
<1>1. pkt.flow \in Flows /\ pkt.flow \in Nat /\ pkt.bytes \in Nat \ {0}
  BY PktType, FlowsType
<1>2. PktCnt \in Nat \ {0}
  BY PktCntType
<1>3. /\ o \in Entry /\ (o.used => o.flow = pkt.flow)
      /\ ~o.used => o.got = 0 /\ o.bytes = 0
      /\ o.used => o.expected = PktCnt /\ o.got \in 1..(PktCnt - 1)
  <2>1. CASE o = Free
    <3>1. Free \in Entry /\ ~Free.used /\ Free.got = 0 /\ Free.bytes = 0
      BY DEF Free, Entry
    <3> QED BY <2>1, <3>1
  <2>2. CASE InUse(o) /\ o.flow = pkt.flow
    BY <2>2 DEF InUse
  <2> QED BY <2>1, <2>2
<1>4. /\ o.got \in Nat /\ o.bytes \in Nat /\ o.got + 1 <= PktCnt /\ o.used \in BOOLEAN
      /\ o.got = 0 <=> ~o.used
  BY <1>2, <1>3 DEF Entry
<1>5. e = [used |-> TRUE, flow |-> pkt.flow, expected |-> PktCnt,
           got |-> o.got + 1, bytes |-> o.bytes + pkt.bytes]
  BY <1>3, <1>4 DEF Entered
<1> HIDE DEF e
<1>6. /\ e \in Entry /\ e.used /\ e.flow = pkt.flow /\ e.expected = PktCnt
      /\ e.got = o.got + 1 /\ e.bytes = o.bytes + pkt.bytes /\ e.bytes # 0
  BY <1>1, <1>2, <1>4, <1>5 DEF Entry
<1>7. ~Complete(e) => InUse(e)
  BY <1>1, <1>2, <1>4, <1>6 DEF Complete, InUse
<1>8. Complete(e) => Written(e)
  BY <1>1, <1>6 DEF Complete, Written
<1>9. /\ Share(o, pkt.flow, "got") = o.got /\ Share(o, pkt.flow, "bytes") = o.bytes
      /\ \A f : f # pkt.flow => Share(o, f, "got") = 0 /\ Share(o, f, "bytes") = 0
  BY <1>3 DEF Share
<1> QED BY <1>3, <1>6, <1>7, <1>8, <1>9 DEF e

\* Counting a packet keeps the accounts of every flow.
LEMMA CountedAccounts ==
  ASSUME IInv, NEW pkt \in network, Hits(pkt.flow) # {}, Counted(pkt), startFlowId' = startFlowId
  PROVE  PacketsAccounted'
<1> DEFINE slot == FirstHit(pkt.flow)
           o == tbl[slot]
           e == Entered(o, pkt)
           Gain(f, field) == IF f = pkt.flow THEN (IF field = "got" THEN 1 ELSE pkt.bytes) ELSE 0
<1>1. /\ ReceiverType /\ SenderType /\ PacketsAccounted /\ pkt \in Pkts /\ pkt \notin counted
      /\ startFlowId \in Placements
  BY DEF IInv, SenderType
<1>2. pkt.flow \in Flows /\ pkt.flow \in Nat /\ pkt.bytes \in Nat
  BY <1>1, PktType, FlowsType
<1>3. slot \in Slots /\ (o = Free \/ (InUse(o) /\ o.flow = pkt.flow))
  BY <1>1, <1>2, HitSlot
<1>4. /\ o \in Entry /\ e \in Entry /\ e.used /\ e.flow = pkt.flow
      /\ e.got = o.got + 1 /\ e.bytes = o.bytes + pkt.bytes
      /\ Share(o, pkt.flow, "got") = o.got /\ Share(o, pkt.flow, "bytes") = o.bytes
      /\ \A f : f # pkt.flow => Share(o, f, "got") = 0 /\ Share(o, f, "bytes") = 0
  <2> HIDE DEF o, slot
  <2> QED BY <1>1, <1>3, EnteredIs
<1>5. \/ rows' = Append(rows, e) /\ tbl' = [tbl EXCEPT ![slot] = Free]
      \/ rows' = rows /\ tbl' = [tbl EXCEPT ![slot] = e]
  BY DEF Counted, Released
<1>6. counted' = counted \union {pkt}
  BY DEF Counted
<1> HIDE DEF slot, o, e
<1>7. o = tbl[slot]
  BY DEF o
<1>8. ASSUME NEW f, NEW field \in {"got", "bytes"}
      PROVE  OfFlow(f, tbl', field) + OfFlow(f, rows', field)
               = OfFlow(f, tbl, field) + OfFlow(f, rows, field) + Gain(f, field)
  <2>1. Share(e, f, field) = Share(o, f, field) + Gain(f, field)
    <3>1. CASE f = pkt.flow
      BY <1>4, <3>1 DEF Share
    <3>2. CASE f # pkt.flow
      BY <1>4, <3>2 DEF Share
    <3> QED BY <3>1, <3>2
  <2>2. /\ tbl \in [Slots -> Entry] /\ rows \in Seq(Entry) /\ IsFiniteSet(Slots)
        /\ Free \in Entry /\ Share(Free, f, field) = 0
    BY <1>1, SlotsFinite DEF ReceiverType, Free, Entry, Share
  <2>3. /\ OfFlow(f, tbl, field) \in Nat /\ OfFlow(f, rows, field) \in Nat
        /\ Share(o, f, field) \in Nat /\ Share(e, f, field) \in Nat
    BY <1>4, <2>2, OfFlowParts, RowsFinite, ShareType
  <2>4. Gain(f, field) \in Nat
    BY <1>2
  <2> HIDE DEF Gain
  <2>5. CASE rows' = Append(rows, e) /\ tbl' = [tbl EXCEPT ![slot] = Free]
    <3>1. tbl' \in [Slots -> Entry] /\ tbl'[slot] = Free /\ \A k \in Slots : k # slot => tbl'[k] = tbl[k]
      BY <1>3, <2>2, <2>5
    <3>2. OfFlow(f, tbl', field) + Share(tbl[slot], f, field)
            = OfFlow(f, tbl, field) + Share(tbl'[slot], f, field)
      BY <1>3, <2>2, <3>1, OfFlowChange
    <3>3. OfFlow(f, rows', field) = OfFlow(f, rows, field) + Share(e, f, field)
      BY <1>4, <2>2, <2>5, OfFlowAppend
    <3>4. OfFlow(f, tbl', field) \in Nat
      BY <2>2, <3>1, OfFlowParts
    <3> QED BY <1>7, <2>1, <2>2, <2>3, <2>4, <3>1, <3>2, <3>3, <3>4
  <2>6. CASE rows' = rows /\ tbl' = [tbl EXCEPT ![slot] = e]
    <3>1. tbl' \in [Slots -> Entry] /\ tbl'[slot] = e /\ \A k \in Slots : k # slot => tbl'[k] = tbl[k]
      BY <1>3, <1>4, <2>2, <2>6
    <3>2. OfFlow(f, tbl', field) + Share(tbl[slot], f, field)
            = OfFlow(f, tbl, field) + Share(tbl'[slot], f, field)
      BY <1>3, <2>2, <3>1, OfFlowChange
    <3>3. OfFlow(f, tbl', field) \in Nat
      BY <2>2, <3>1, OfFlowParts
    <3>4. OfFlow(f, rows', field) = OfFlow(f, rows, field)
      BY <2>6
    <3> QED BY <1>7, <2>1, <2>3, <2>4, <3>1, <3>2, <3>3, <3>4
  <2> QED BY <1>5, <2>5, <2>6
<1>9. ASSUME NEW f \in Flows
      PROVE  /\ Cardinality(CountedOf(f)') = Cardinality(CountedOf(f)) + Gain(f, "got")
             /\ SumFunction([q \in CountedOf(f)' |-> q.bytes])
                  = SumFunction([q \in CountedOf(f) |-> q.bytes]) + Gain(f, "bytes")
             /\ Cardinality(CountedOf(f)) \in Nat
             /\ SumFunction([q \in CountedOf(f) |-> q.bytes]) \in Nat
  <2> DEFINE C == CountedOf(f)
             g == [q \in C |-> q.bytes]
             h == [q \in C \union {pkt} |-> q.bytes]
  <2>1. IsFiniteSet(counted) /\ C \subseteq counted /\ C \subseteq Pkts
    BY <1>1 DEF SenderType, CountedOf
  <2>2. IsFiniteSet(C)
    BY <2>1, FS_Subset
  <2>3. \A q \in C : g[q] \in Nat /\ g[q] = h[q]
    BY <2>1, PktType
  <2>4. pkt \notin C /\ h[pkt] \in Nat /\ h[pkt] = pkt.bytes
    BY <1>1, <1>2, <2>1
  <2>5. SumFunction(g) = SumFunctionOnSet(g, C) /\ SumFunction(h) = SumFunctionOnSet(h, C \union {pkt})
    BY DEF SumFunction
  <2>6. Cardinality(C) \in Nat /\ SumFunctionOnSet(g, C) \in Nat
    <3> HIDE DEF g, C
    <3> QED BY <2>2, <2>3, SumType, FS_CardinalityType
  <2>7. CASE f = pkt.flow
    <3>1. CountedOf(f)' = C \union {pkt}
      BY <1>6, <2>7 DEF CountedOf
    <3>2. Cardinality(C \union {pkt}) = Cardinality(C) + 1
      BY <2>2, <2>4, FS_AddElement
    <3>3. SumFunctionOnSet(h, C \union {pkt}) = SumFunctionOnSet(g, C) + h[pkt]
      <4> DEFINE R == C \union {pkt}
      <4>1. R = C \union {pkt}
        OBVIOUS
      <4> HIDE DEF g, h, C, R
      <4>2. SumFunctionOnSet(h, R) = SumFunctionOnSet(g, C) + h[pkt]
        BY <2>2, <2>3, <2>4, <4>1, SumExtend
      <4> QED BY <4>1, <4>2
    <3> QED BY <2>4, <2>5, <2>6, <2>7, <3>1, <3>2, <3>3
  <2>8. CASE f # pkt.flow
    <3>1. CountedOf(f)' = C
      BY <1>6, <2>8 DEF CountedOf
    <3> QED BY <2>5, <2>6, <2>8, <3>1
  <2> QED BY <2>7, <2>8
<1>10. ASSUME NEW f \in Flows
       PROVE  /\ OfFlow(f, tbl', "got") + OfFlow(f, rows', "got") = Cardinality(CountedOf(f)')
              /\ OfFlow(f, tbl', "bytes") + OfFlow(f, rows', "bytes")
                   = SumFunction([q \in CountedOf(f)' |-> q.bytes])
  <2>1. /\ OfFlow(f, tbl, "got") + OfFlow(f, rows, "got") = Cardinality(CountedOf(f))
        /\ OfFlow(f, tbl, "bytes") + OfFlow(f, rows, "bytes")
             = SumFunction([q \in CountedOf(f) |-> q.bytes])
    BY <1>1 DEF PacketsAccounted
  <2> HIDE DEF Gain
  <2> QED BY <1>8, <1>9, <2>1
<1> QED BY <1>10, FlowsSame DEF PacketsAccounted

\* A flow's home slot is free or its own.
LEMMA HomeIsHit ==
  ASSUME IInv, Apart, NEW f \in Flows
  PROVE  0 \in Hits(f)
<1>1. MaxFlows \in Nat \ {0} /\ 0 \in Slots /\ Flows \subseteq Nat
  BY SlotsFinite, FlowsType DEF IInv, SenderType
<1>2. Probe(f, 0) \in Slots
  BY <1>1 DEF Probe, Slots
<1> SUFFICES ASSUME tbl[Probe(f, 0)].used PROVE tbl[Probe(f, 0)].flow = f
  BY <1>1 DEF Hits
<1> DEFINE g == tbl[Probe(f, 0)].flow
<1>3. Probe(f, 0) = Probe(g, 0)
  BY <1>2 DEF IInv, AtHome
<1>4. g \in Flows
  BY <1>2 DEF IInv, ReceiverType, InUse, Free
<1> HIDE DEF g
<1>5. f % MaxFlows = g % MaxFlows
  <2>1. f + 0 = f /\ g + 0 = g
    BY <1>1, <1>4
  <2> QED BY <1>3, <2>1 DEF Probe
<1>6. g = f
  BY <1>4, <1>5 DEF Apart
<1> QED BY <1>6 DEF g

LEMMA ReceiveStep ==
  ASSUME IInv, NEW pkt \in network, Receive(pkt)
  PROVE  IInv'
<1>1. UNCHANGED <<startFlowId, pos, strays, repeats>> /\ network' = network \ {pkt} /\ read' = read + 1
  BY DEF Receive
<1>2. read' \in Nat /\ (PacketCount # 0 => read' <= PacketCount) /\ strays' \in 0..MaxStrays
  BY SizeAssumption DEF Receive, Running, IInv, ReceiverType
<1>3. /\ pkt \in Pkts /\ pkt \notin counted /\ IsFiniteSet(counted) /\ startFlowId \in Placements
      /\ pkt.flow \in Flows /\ pkt.flow \in Nat /\ Cardinality(counted) \in Nat
      /\ read \in Nat /\ strays \in Nat
  <2>1. pkt \in Pkts /\ pkt \notin counted /\ IsFiniteSet(counted) /\ startFlowId \in Placements
    BY DEF IInv, SenderType
  <2>2. read \in Nat /\ strays \in Nat
    BY SizeAssumption DEF IInv, ReceiverType
  <2> QED BY <2>1, <2>2, PktType, FlowsType, FS_CardinalityType
<1>4. CASE Hits(pkt.flow) = {}
  <2>1. UNCHANGED <<tbl, rows, counted>>
    BY <1>4 DEF Receive
  <2>2. SenderType'
    BY <1>1, <2>1, FlowsSame DEF IInv, SenderType
  <2>3. SentBefore'
    BY <1>1, <2>1, FlowsSame DEF IInv, SentBefore
  <2>4. ReceiverType' /\ PacketsAccounted'
    BY <1>1, <1>2, <2>1, ReceiverSame DEF IInv
  <2>5. ~Apart
    BY <1>3, <1>4, HomeIsHit
  <2>6. AtHome'
    BY <1>1, <2>5, FlowsSame DEF AtHome
  <2> QED BY <2>2, <2>3, <2>4, <2>6 DEF IInv
<1>5. CASE Hits(pkt.flow) # {}
  <2> DEFINE slot == FirstHit(pkt.flow)
             o == tbl[slot]
             e == Entered(o, pkt)
  <2>1. Counted(pkt)
    BY <1>5 DEF Receive
  <2>2. /\ slot \in Slots /\ (o = Free \/ (InUse(o) /\ o.flow = pkt.flow))
        /\ 0 \in Hits(pkt.flow) => slot = Probe(pkt.flow, 0)
    BY <1>3, <1>5, HitSlot DEF IInv
  <2>3. /\ e \in Entry /\ e.flow = pkt.flow
        /\ ~Complete(e) => InUse(e)
        /\ Complete(e) => Written(e)
    <3> HIDE DEF o, slot
    <3> QED BY <1>3, <2>2, EnteredIs
  <2>4. \/ Complete(e) /\ rows' = Append(rows, e) /\ tbl' = [tbl EXCEPT ![slot] = Free]
        \/ ~Complete(e) /\ rows' = rows /\ tbl' = [tbl EXCEPT ![slot] = e]
    BY <2>1 DEF Counted, Released
  <2>5. counted' = counted \union {pkt}
    BY <2>1 DEF Counted
  <2> HIDE DEF e, o, slot
  <2>6. PacketsAccounted'
    BY <1>1, <1>5, <2>1, CountedAccounts
  <2>7. SenderType'
    <3>1. IsFiniteSet(counted') /\ counted' \subseteq Pkts /\ network' \subseteq Pkts
      BY <1>1, <1>3, <2>5, FS_AddElement DEF IInv, SenderType
    <3>2. network' \intersect counted' = {} /\ \A r \in network' \union counted' : r.copy \in 0..repeats
      BY <1>1, <2>5 DEF IInv, SenderType
    <3> QED BY <1>1, <3>1, <3>2, FlowsSame DEF IInv, SenderType
  <2>8. SentBefore'
    BY <1>1, <2>5, FlowsSame DEF IInv, SentBefore
  <2>9. ReceiverType'
    <3>1. /\ tbl \in [Slots -> Entry] /\ (\A i \in Slots : tbl[i] = Free \/ InUse(tbl[i]))
          /\ rows \in Seq(Entry) /\ (\A k \in DOMAIN rows : Written(rows[k]))
          /\ Free \in Entry
      BY DEF IInv, ReceiverType, Free, Entry
    <3>2. tbl' \in [Slots -> Entry] /\ \A i \in Slots : tbl'[i] = Free \/ InUse(tbl'[i])
      BY <2>2, <2>3, <2>4, <3>1
    <3>3. rows' \in Seq(Entry) /\ \A k \in DOMAIN rows' : Written(rows'[k])
      <4>1. CASE rows' = rows
        BY <3>1, <4>1
      <4>2. CASE rows' = Append(rows, e) /\ Written(e)
        <5>1. \A k \in DOMAIN rows' : rows'[k] = e \/ (k \in DOMAIN rows /\ rows'[k] = rows[k])
          BY <2>3, <3>1, <4>2
        <5>2. rows' \in Seq(Entry)
          BY <2>3, <3>1, <4>2
        <5> QED BY <3>1, <4>2, <5>1, <5>2
      <4> QED BY <2>3, <2>4, <4>1, <4>2
    <3>4. /\ \A x : InUse(x) <=> /\ x \in Entry /\ x.used /\ x.flow \in Flows' /\ x.expected = PktCnt
                                   /\ x.got \in 1..(PktCnt - 1) /\ x.bytes # 0
          /\ \A x : Written(x) <=> /\ x \in Entry /\ x.used /\ x.flow \in Flows' /\ x.got = PktCnt
                                     /\ x.bytes # 0
      BY <1>1, FlowsSame DEF InUse, Written
    <3> QED BY <1>2, <3>2, <3>3, <3>4 DEF ReceiverType, InUse, Written
  <2>10. AtHome'
    <3> SUFFICES ASSUME Apart
                 PROVE  /\ \A i \in Slots : tbl'[i].used => i = Probe(tbl'[i].flow, 0)
                        /\ read' = strays' + Cardinality(counted')
      BY <1>1, FlowsSame DEF AtHome, Probe
    <3>1. /\ \A i \in Slots : tbl[i].used => i = Probe(tbl[i].flow, 0)
          /\ read = strays + Cardinality(counted)
      BY DEF IInv, AtHome
    <3>2. slot = Probe(pkt.flow, 0)
      BY <1>3, <2>2, HomeIsHit
    <3>3. tbl \in [Slots -> Entry] /\ ~Free.used
      BY DEF IInv, ReceiverType, Free
    <3>4. \A i \in Slots : tbl'[i].used => i = Probe(tbl'[i].flow, 0)
      BY <2>2, <2>3, <2>4, <3>1, <3>2, <3>3
    <3>5. Cardinality(counted') = Cardinality(counted) + 1
      BY <1>3, <2>5, FS_AddElement
    <3>6. read' = strays' + Cardinality(counted')
      BY <1>1, <1>3, <3>1, <3>5
    <3> QED BY <3>4, <3>6
  <2> QED BY <2>6, <2>7, <2>8, <2>9, <2>10 DEF IInv
<1> QED BY <1>4, <1>5

LEMMA NextStep == IInv /\ [Next]_vars => IInv'
<1> SUFFICES ASSUME IInv, [Next]_vars PROVE IInv'
  OBVIOUS
<1>1. ASSUME NEW s \in Senders, Send(s) PROVE IInv'
  BY <1>1, SendStep
<1>2. ASSUME NEW pkt \in network, Repeat(pkt) PROVE IInv'
  BY <1>2, RepeatStep
<1>3. ASSUME NEW pkt \in network, Receive(pkt) PROVE IInv'
  BY <1>3, ReceiveStep
<1>4. CASE ReceiveStray
  BY <1>4, StrayStep
<1>5. CASE UNCHANGED vars
  <2>1. UNCHANGED <<startFlowId, pos, network, tbl, rows, read, strays, repeats, counted>>
    BY <1>5 DEF vars
  <2>2. ReceiverType' /\ PacketsAccounted'
    BY <2>1, ReceiverSame DEF IInv, ReceiverType
  <2>3. SenderType' /\ SentBefore' /\ AtHome'
    BY <2>1, FlowsSame DEF IInv, SenderType, SentBefore, AtHome, Probe
  <2> QED BY <2>2, <2>3 DEF IInv
<1> QED BY <1>1, <1>2, <1>3, <1>4, <1>5 DEF Next

THEOREM Invariance == Spec => []IInv
<1>1. Init => IInv
  BY InitInv
<1>2. IInv /\ [Next]_vars => IInv'
  BY NextStep
<1> QED BY <1>1, <1>2, PTL DEF Spec

-----------------------------------------------------------------------------
(* What follows from the invariant.                                        *)

LEMMA FlowAccounts ==
  ASSUME IInv, NEW f \in Flows
  PROVE  /\ IsFiniteSet(CountedOf(f)) /\ Cardinality(CountedOf(f)) \in Nat
         /\ \A field \in {"got", "bytes"} :
              OfFlow(f, tbl, field) \in Nat /\ OfFlow(f, rows, field) \in Nat
         /\ OfFlow(f, tbl, "got") + OfFlow(f, rows, "got") = Cardinality(CountedOf(f))
         /\ ~Doubled(f) =>
              /\ Cardinality(CountedOf(f)) <= PktCnt
              /\ Cardinality(CountedOf(f)) = PktCnt =>
                   /\ Arrived(f)
                   /\ OfFlow(f, tbl, "bytes") + OfFlow(f, rows, "bytes") = FlowSize
<1>1. CountedOf(f) \subseteq PktsOf(f) /\ CountedOf(f) \subseteq counted /\ IsFiniteSet(counted)
  BY PktType DEF IInv, SenderType, CountedOf
<1>2. \A field \in {"got", "bytes"} :
         OfFlow(f, tbl, field) \in Nat /\ OfFlow(f, rows, field) \in Nat
  <2>1. tbl \in [Slots -> Entry] /\ rows \in Seq(Entry)
    BY DEF IInv, ReceiverType
  <2> QED BY <2>1, SlotsFinite, RowsFinite, OfFlowParts
<1>3. /\ OfFlow(f, tbl, "got") + OfFlow(f, rows, "got") = Cardinality(CountedOf(f))
      /\ OfFlow(f, tbl, "bytes") + OfFlow(f, rows, "bytes")
           = SumFunction([pkt \in CountedOf(f) |-> pkt.bytes])
  BY DEF IInv, PacketsAccounted
<1>4. IsFiniteSet(CountedOf(f)) /\ Cardinality(CountedOf(f)) \in Nat
  BY <1>1, FS_Subset, FS_CardinalityType
<1>5. ASSUME ~Doubled(f)
      PROVE  /\ Cardinality(CountedOf(f)) <= PktCnt
             /\ Cardinality(CountedOf(f)) = PktCnt =>
                  /\ Arrived(f)
                  /\ SumFunction([pkt \in CountedOf(f) |-> pkt.bytes]) = FlowSize
  <2>1. Single(CountedOf(f))
    BY <1>5 DEF Doubled, Single
  <2>2. /\ Cardinality(CountedOf(f)) \in 0..PktCnt
        /\ Cardinality(CountedOf(f)) = PktCnt => {p.idx : p \in CountedOf(f)} = Indices
    BY <1>1, <2>1, SinglesCount
  <2>3. Cardinality(CountedOf(f)) <= PktCnt
    BY <2>2, PktCntType
  <2>4. Cardinality(CountedOf(f)) = PktCnt => Arrived(f)
    BY <2>2 DEF Arrived, Indices
  <2>5. Cardinality(CountedOf(f)) = PktCnt
          => SumFunction([pkt \in CountedOf(f) |-> pkt.bytes]) = FlowSize
    BY <1>1, <2>1, BytesOfAll
  <2> QED BY <2>3, <2>4, <2>5
<1> QED BY <1>2, <1>3, <1>4, <1>5

LEMMA TypeFollows == IInv => TypeOK
<1> SUFFICES ASSUME IInv PROVE TypeOK
  OBVIOUS
<1>1. \A i \in Slots : \/ tbl[i] = Free
                        \/ /\ tbl[i].used /\ tbl[i].flow \in Flows
                           /\ tbl[i].expected = PktCnt
                           /\ tbl[i].got \in 1..(PktCnt - 1)
                           /\ tbl[i].bytes \in Nat \ {0}
  BY DEF IInv, ReceiverType, InUse, Entry
<1>2. network \subseteq {Packet(f, i, c) : f \in Flows, i \in 0..(PktCnt - 1), c \in 0..repeats}
  BY PktType DEF IInv, SenderType, Indices
<1> QED BY <1>1, <1>2 DEF IInv, SenderType, ReceiverType, TypeOK, Indices

LEMMA RowsFollow == IInv => RowsTruthful
<1> SUFFICES ASSUME IInv, NEW k \in DOMAIN rows
             PROVE  /\ Cardinality(CountedOf(rows[k].flow)) >= PktCnt
                    /\ ~Doubled(rows[k].flow) =>
                         /\ Arrived(rows[k].flow)
                         /\ rows[k].bytes = FlowSize
                         /\ \A m \in DOMAIN rows : rows[m].flow = rows[k].flow => m = k
  BY DEF RowsTruthful
<1> DEFINE f == rows[k].flow
           S == DOMAIN rows
<1>1. /\ tbl \in [Slots -> Entry] /\ rows \in [S -> Entry] /\ IsFiniteSet(S) /\ IsFiniteSet(Slots)
      /\ \A m \in S : Written(rows[m])
  BY RowsFinite, SlotsFinite DEF IInv, ReceiverType
<1>2. f \in Flows /\ PktCnt \in Nat \ {0} /\ k \in S
  BY <1>1, PktCntType DEF Written
<1>3. \A m \in S : Share(rows[m], f, "got") = IF rows[m].flow = f THEN PktCnt ELSE 0
  BY <1>1 DEF Share, Written
<1> HIDE DEF f, S
<1>4. rows[k].flow = f
  BY DEF f
<1>5. /\ Cardinality(CountedOf(f)) \in Nat
      /\ OfFlow(f, tbl, "got") \in Nat /\ OfFlow(f, rows, "got") \in Nat
      /\ OfFlow(f, tbl, "bytes") \in Nat /\ OfFlow(f, rows, "bytes") \in Nat
      /\ OfFlow(f, tbl, "got") + OfFlow(f, rows, "got") = Cardinality(CountedOf(f))
      /\ ~Doubled(f) =>
           /\ Cardinality(CountedOf(f)) <= PktCnt
           /\ Cardinality(CountedOf(f)) = PktCnt =>
                /\ Arrived(f)
                /\ OfFlow(f, tbl, "bytes") + OfFlow(f, rows, "bytes") = FlowSize
  BY <1>2, FlowAccounts
<1>6. PktCnt <= OfFlow(f, rows, "got")
  <2>1. Share(rows[k], f, "got") <= OfFlow(f, rows, "got")
    BY <1>1, <1>2, OfFlowParts
  <2> QED BY <1>2, <1>3, <1>4, <2>1
<1>7. Cardinality(CountedOf(f)) >= PktCnt
  BY <1>2, <1>5, <1>6
<1> SUFFICES ASSUME ~Doubled(f)
             PROVE  /\ Arrived(f) /\ rows[k].bytes = FlowSize
                    /\ \A m \in S : rows[m].flow = f => m = k
  BY <1>4, <1>7 DEF S
<1>8. /\ Cardinality(CountedOf(f)) = PktCnt /\ OfFlow(f, rows, "got") = PktCnt
      /\ OfFlow(f, tbl, "got") = 0
  BY <1>2, <1>5, <1>6
<1>9. ASSUME NEW m \in S, rows[m].flow = f PROVE m = k
  <2> SUFFICES ASSUME m # k PROVE FALSE
    OBVIOUS
  <2>1. Share(rows[m], f, "got") + Share(rows[k], f, "got") <= OfFlow(f, rows, "got")
    BY <1>1, <1>2, OfFlowParts
  <2>2. PktCnt + PktCnt <= PktCnt
    BY <1>2, <1>3, <1>4, <1>8, <1>9, <2>1
  <2> QED BY <1>2, <2>2
<1>10. OfFlow(f, tbl, "bytes") = 0
  <2>1. ASSUME NEW i \in Slots PROVE Share(tbl[i], f, "bytes") = 0
    <3>1. Share(tbl[i], f, "got") <= 0 /\ Share(tbl[i], f, "got") \in Nat
      BY <1>1, <1>8, OfFlowParts, ShareType
    <3>2. tbl[i] = Free \/ InUse(tbl[i])
      BY DEF IInv, ReceiverType
    <3>3. ~(tbl[i].used /\ tbl[i].flow = f)
      <4> SUFFICES ASSUME tbl[i].used, tbl[i].flow = f PROVE FALSE
        OBVIOUS
      <4>1. tbl[i].got \in 1..(PktCnt - 1)
        BY <3>2 DEF InUse, Free
      <4>2. Share(tbl[i], f, "got") = tbl[i].got
        BY DEF Share
      <4> QED BY <1>2, <3>1, <4>1, <4>2
    <3> QED BY <3>3 DEF Share
  <2> QED BY <1>1, <2>1, OfFlowParts
<1>11. OfFlow(f, rows, "bytes") = rows[k].bytes
  <2>1. \A m \in S : m # k => Share(rows[m], f, "bytes") = 0
    BY <1>9 DEF Share
  <2>2. OfFlow(f, rows, "bytes") = Share(rows[k], f, "bytes")
    BY <1>1, <1>2, <2>1, OfFlowParts
  <2>3. Share(rows[k], f, "bytes") = rows[k].bytes
    BY <1>1, <1>2, <1>4 DEF Share, Written
  <2> QED BY <2>2, <2>3
<1>12. rows[k].bytes = FlowSize
  BY <1>1, <1>2, <1>5, <1>8, <1>10, <1>11 DEF Entry
<1> QED BY <1>5, <1>8, <1>9, <1>12

LEMMA ApartFollows == IInv => ApartFlowHasRow
<1> SUFFICES ASSUME IInv, Apart
             PROVE  ArrivedFlowHasRow /\ read = strays + Cardinality(counted)
  BY DEF ApartFlowHasRow
<1>1. read = strays + Cardinality(counted)
  BY DEF IInv, AtHome
<1>2. ASSUME NEW f \in Flows, Arrived(f), \A k \in DOMAIN rows : rows[k].flow # f
      PROVE  FALSE
  <2> DEFINE S == DOMAIN rows
             home == Probe(f, 0)
  <2>1. /\ tbl \in [Slots -> Entry] /\ rows \in [S -> Entry] /\ IsFiniteSet(S) /\ IsFiniteSet(Slots)
        /\ PktCnt \in Nat \ {0}
    BY RowsFinite, SlotsFinite, PktCntType DEF IInv, ReceiverType
  <2>2. \A k \in S : Share(rows[k], f, "got") = 0
    BY <1>2 DEF Share
  <2> HIDE DEF S
  <2>3. OfFlow(f, rows, "got") = 0
    BY <2>1, <2>2, OfFlowParts
  <2>4. OfFlow(f, tbl, "got") \in Nat /\ OfFlow(f, tbl, "got") >= PktCnt
    <3>1. Cardinality(CountedOf(f)) >= PktCnt
      BY <1>2, FlowAccounts, ArrivedCount DEF Arrived, Indices
    <3> QED BY <1>2, <2>1, <2>3, <3>1, FlowAccounts
  <2>5. home \in Slots
    <3>1. f \in Nat /\ MaxFlows \in Nat \ {0}
      BY FlowsType, SlotsFinite DEF IInv, SenderType
    <3> QED BY <3>1 DEF Probe, Slots
  <2>6. \A i \in Slots : i # home => Share(tbl[i], f, "got") = 0
    BY DEF IInv, AtHome, Share
  <2> HIDE DEF home
  <2>7. OfFlow(f, tbl, "got") = Share(tbl[home], f, "got")
    BY <2>1, <2>5, <2>6, OfFlowParts
  <2>8. tbl[home] = Free \/ InUse(tbl[home])
    BY <2>5 DEF IInv, ReceiverType
  <2>9. Share(tbl[home], f, "got") \in 0..(PktCnt - 1)
    BY <2>1, <2>8 DEF Share, Free, InUse
  <2> QED BY <2>1, <2>4, <2>7, <2>9
<1> QED BY <1>1, <1>2 DEF ArrivedFlowHasRow

-----------------------------------------------------------------------------
(* Theorems.                                                               *)

\* The type invariant holds: in particular an entry left in the table lacks at
\* least one packet, and a slot is either zeroed or in use (memset at
\* hopvar_receiver.c:352).
THEOREM TypeCorrect == Spec => []TypeOK
BY Invariance, TypeFollows, PTL

\* Every packet counted is in exactly one entry or row of its own flow, even
\* if the flow is split over several entries or the network repeated packets
\* (get_flow_state).
THEOREM NothingMiscounted == Spec => []PacketsAccounted
<1>1. IInv => PacketsAccounted
  BY DEF IInv
<1> QED BY <1>1, Invariance, PTL

\* A row stands for as many packets as its flow has and, if none of them is a
\* repetition, for the whole flow, with all its bytes and no other row
\* (lines 318-359).
THEOREM RowsCorrect == Spec => []RowsTruthful
BY Invariance, RowsFollow, PTL

\* While no two flow ids share a home slot, no packet is refused and every
\* flow received in full has its row (get_flow_state).
THEOREM CompleteIfApart == Spec => []ApartFlowHasRow
BY Invariance, ApartFollows, PTL
=============================================================================
