------------------------ MODULE FctMeasurementProofs ------------------------
(***************************************************************************)
(* Theorems about FctMeasurement, for any numbers of packets, passes and   *)
(* flows.                                                                  *)
(***************************************************************************)
EXTENDS FctMeasurementProps, SequenceTheorems, FiniteSetTheorems, TLAPS

-----------------------------------------------------------------------------
(* Flattening a sequence of sequences.                                     *)

LEMMA LeastElement ==
  ASSUME NEW S \in SUBSET Nat, S # {}
  PROVE  \E n \in S : \A k \in S : n <= k
<1> DEFINE R == OpToRel(<, Nat)
<1>1. IsWellFoundedOn(R, Nat)
  BY NatLessThanWellFounded
<1>2. \A x, y \in Nat : x < y => <<x, y>> \in R
  BY DEF OpToRel
<1> HIDE DEF R
<1>3. PICK x \in S : \A y \in S : ~(<<y, x>> \in R)
  BY <1>1, WFMin
<1>4. ASSUME NEW k \in S PROVE x <= k
  <2>1. k \in Nat /\ x \in Nat /\ ~(k < x)
    BY <1>2, <1>3
  <2> QED BY <2>1
<1> QED BY <1>4

\* Induction up to m for a set of numbers.
LEMMA BoundedInduction ==
  ASSUME NEW m \in Nat, NEW S, 0 \in S, \A n \in 0..m : n \in S /\ n < m => n + 1 \in S
  PROVE  \A n \in 0..m : n \in S
<1> SUFFICES ASSUME NEW l \in 0..m, l \notin S PROVE FALSE
  OBVIOUS
<1> DEFINE Out == {n \in 0..m : n \notin S}
<1>1. Out \in SUBSET Nat /\ Out # {}
  OBVIOUS
<1>2. PICK x \in Out : \A k \in Out : x <= k
  BY <1>1, LeastElement
<1>3. x \in Nat /\ x # 0 /\ x - 1 \in 0..m /\ x - 1 \notin Out
  BY <1>2
<1>4. x - 1 \in S /\ x - 1 < m /\ (x - 1) + 1 = x
  BY <1>3
<1> QED BY <1>2, <1>3, <1>4

\* The equation that defines FlattenSeq.
FlattenUpto(s, m, G) == G = [i \in 1..m |-> IF i = 1 THEN s[i] ELSE G[i - 1] \o s[i]]

LEMMA FlattenExists ==
  ASSUME NEW s, NEW m \in Nat
  PROVE  \E G : FlattenUpto(s, m, G)
<1> DEFINE S == {n \in 0..m : \E G : FlattenUpto(s, n, G)}
<1>1. 0 \in S
  <2> DEFINE G == [i \in 1..0 |-> <<>>]
  <2>1. G = [i \in 1..0 |-> IF i = 1 THEN s[i] ELSE G[i - 1] \o s[i]]
    OBVIOUS
  <2>2. FlattenUpto(s, 0, G)
    BY <2>1 DEF FlattenUpto
  <2>3. 0 \in 0..m
    OBVIOUS
  <2> HIDE DEF G
  <2> QED BY <2>2, <2>3
<1>2. ASSUME NEW n \in 0..m, n \in S, n < m PROVE n + 1 \in S
  <2> DEFINE Body(F, i) == IF i = 1 THEN s[i] ELSE F[i - 1] \o s[i]
  <2>1. PICK G : G = [i \in 1..n |-> Body(G, i)]
    BY <1>2 DEF FlattenUpto
  <2> DEFINE H == [i \in 1..(n + 1) |-> IF i <= n THEN G[i] ELSE Body(G, n + 1)]
  <2>2. ASSUME NEW i \in 1..(n + 1) PROVE H[i] = Body(H, i)
    <3>1. i # 1 => i - 1 \in 1..n /\ H[i - 1] = G[i - 1]
      OBVIOUS
    <3>2. Body(H, i) = Body(G, i)
      BY <3>1
    <3>3. H[i] = Body(G, i)
      <4>1. CASE i \in 1..n
        <5>1. G[i] = Body(G, i)
          <6> HIDE DEF Body
          <6> QED BY <2>1, <4>1
        <5> QED BY <4>1, <5>1
      <4>2. CASE i = n + 1
        BY <4>2
      <4> QED BY <4>1, <4>2
    <3> QED BY <3>2, <3>3
  <2>3. H = [i \in 1..(n + 1) |-> Body(H, i)]
    <3> HIDE DEF Body
    <3> QED BY <2>2
  <2>4. n + 1 \in 0..m
    BY <1>2
  <2> QED BY <2>3, <2>4 DEF FlattenUpto
<1>3. \A n \in 0..m : n \in S
  <2> HIDE DEF S
  <2> QED BY <1>1, <1>2, BoundedInduction
<1> QED BY <1>3

LEMMA FlattenDef ==
  ASSUME NEW s, Len(s) \in Nat \ {0}
  PROVE  \E G : FlattenUpto(s, Len(s), G) /\ FlattenSeq(s) = G[Len(s)]
<1> DEFINE K == CHOOSE G : G = [i \in 1..Len(s) |-> IF i = 1 THEN s[i] ELSE G[i - 1] \o s[i]]
<1>1. FlattenUpto(s, Len(s), K)
  BY FlattenExists DEF FlattenUpto
<1>2. FlattenSeq(s) = K[Len(s)]
  BY DEF FlattenSeq
<1> QED BY <1>1, <1>2

LEMMA FlattenAppend ==
  ASSUME NEW A, NEW s \in Seq(Seq(A)), NEW e \in Seq(A)
  PROVE  FlattenSeq(Append(s, e)) = FlattenSeq(s) \o e
<1> DEFINE t == Append(s, e)
<1>1. /\ Len(s) \in Nat /\ Len(t) = Len(s) + 1 /\ t[Len(s) + 1] = e
      /\ \A i \in 1..Len(s) : t[i] = s[i]
  OBVIOUS
<1> HIDE DEF t
<1>2. PICK H : FlattenUpto(t, Len(t), H) /\ FlattenSeq(t) = H[Len(t)]
  BY <1>1, FlattenDef
<1>3. \A i \in 1..(Len(s) + 1) : H[i] = IF i = 1 THEN t[i] ELSE H[i - 1] \o t[i]
  BY <1>1, <1>2 DEF FlattenUpto
<1>4. CASE Len(s) = 0
  <2>1. s = <<>> /\ FlattenSeq(s) = <<>>
    BY <1>4 DEF FlattenSeq
  <2>2. H[1] = e
    BY <1>1, <1>3, <1>4
  <2>3. <<>> \o e = e
    OBVIOUS
  <2> QED BY <1>1, <1>2, <1>4, <2>1, <2>2, <2>3 DEF t
<1>5. CASE Len(s) # 0
  <2>1. PICK G : FlattenUpto(s, Len(s), G) /\ FlattenSeq(s) = G[Len(s)]
    BY <1>1, <1>5, FlattenDef
  <2>2. \A i \in 1..Len(s) : G[i] = IF i = 1 THEN s[i] ELSE G[i - 1] \o s[i]
    BY <2>1 DEF FlattenUpto
  <2> DEFINE S == {n \in 0..Len(s) : n = 0 \/ H[n] = G[n]}
  <2>3. ASSUME NEW n \in 0..Len(s), n \in S, n < Len(s) PROVE n + 1 \in S
    <3>1. n + 1 \in 1..Len(s) /\ n + 1 \in 1..(Len(s) + 1) /\ (n + 1) - 1 = n /\ n + 1 \in 0..Len(s)
      BY <1>1, <2>3
    <3>2. H[n + 1] = G[n + 1]
      BY <1>1, <1>3, <2>2, <2>3, <3>1
    <3> QED BY <3>1, <3>2
  <2>4. \A n \in 0..Len(s) : n \in S
    <3>1. 0 \in S
      BY <1>1
    <3> HIDE DEF S
    <3> QED BY <1>1, <2>3, <3>1, BoundedInduction
  <2>5. H[Len(s)] = G[Len(s)]
    BY <1>1, <1>5, <2>4
  <2>6. H[Len(s) + 1] = H[Len(s)] \o e
    <3>1. Len(s) + 1 \in 1..(Len(s) + 1) /\ Len(s) + 1 # 1 /\ (Len(s) + 1) - 1 = Len(s)
      BY <1>1, <1>5
    <3> QED BY <1>1, <1>3, <3>1
  <2> QED BY <1>1, <1>2, <2>1, <2>5, <2>6 DEF t
<1> QED BY <1>4, <1>5

LEMMA FlattenType ==
  ASSUME NEW A, NEW s \in Seq(Seq(A))
  PROVE  FlattenSeq(s) \in Seq(A)
<1>1. CASE Len(s) = 0
  <2>1. s = <<>>
    BY <1>1
  <2> QED BY <1>1, <2>1 DEF FlattenSeq
<1>2. CASE Len(s) # 0
  <2>1. Len(s) \in Nat \ {0}
    BY <1>2
  <2>2. PICK G : FlattenUpto(s, Len(s), G) /\ FlattenSeq(s) = G[Len(s)]
    BY <2>1, FlattenDef
  <2>3. \A i \in 1..Len(s) : G[i] = IF i = 1 THEN s[i] ELSE G[i - 1] \o s[i]
    BY <2>2 DEF FlattenUpto
  <2> DEFINE S == {n \in 0..Len(s) : n = 0 \/ G[n] \in Seq(A)}
  <2>4. ASSUME NEW n \in 0..Len(s), n \in S, n < Len(s) PROVE n + 1 \in S
    <3>1. n + 1 \in 1..Len(s) /\ (n + 1) - 1 = n /\ n + 1 \in 0..Len(s)
      BY <2>1, <2>4
    <3>2. CASE n = 0
      <4>1. G[1] = s[1] /\ s[1] \in Seq(A)
        BY <2>1, <2>3
      <4> QED BY <3>1, <3>2, <4>1
    <3>3. CASE n # 0
      <4>1. G[n] \in Seq(A) /\ s[n + 1] \in Seq(A) /\ n + 1 # 1
        BY <2>4, <3>1, <3>3
      <4>2. G[n + 1] = G[n] \o s[n + 1]
        BY <2>3, <3>1, <4>1
      <4> QED BY <3>1, <4>1, <4>2, ConcatProperties
    <3> QED BY <3>2, <3>3
  <2>5. \A n \in 0..Len(s) : n \in S
    <3>1. 0 \in S
      BY <2>1
    <3> HIDE DEF S
    <3> QED BY <2>1, <2>4, <3>1, BoundedInduction
  <2>6. Len(s) \in S
    BY <2>1, <2>5
  <2> QED BY <2>1, <2>2, <2>6
<1> QED BY <1>1, <1>2

-----------------------------------------------------------------------------
(* The inductive invariant.                                                *)

Packet == [req : Nat, count : Nat, overflow : BOOLEAN, stamps : Seq(Nat)]

\* A packet that was generated: it has a stamp from every pass for which there
\* was a branch, in order, none from before the experiment or after now.
Made(pkt) ==
  /\ pkt \in Packet /\ pkt.req \in 1..seqReg
  /\ Len(pkt.stamps) \in 1..StampSlots /\ Len(pkt.stamps) <= pkt.count
  /\ \A n \in 1..Len(pkt.stamps) : pkt.stamps[n] \in pkt.stamps[1]..clock /\ epoch <= pkt.stamps[n]

\* Packets are stamped first in the order of their numbers.
FirstBefore(p, q) == p.req < q.req => p.stamps[1] <= q.stamps[1]

NetInv ==
  /\ epoch \in Nat /\ clock \in epoch..(epoch + MaxTicks)
  /\ seqReg \in 0..MaxPkts
  /\ \A pkt \in fabric : Made(pkt)
  /\ \A p, q \in fabric : FirstBefore(p, q)

\* What holds of a flow or a row with packets.
FlowOK(s) ==
  /\ s.cnt \in 1..Expected
  /\ Made(s.first) /\ Made(s.last)
  /\ s.last.req = s.first.req + s.cnt - 1
  /\ \A n \in 1..Len(s.last.stamps) : s.first.stamps[1] <= s.last.stamps[n]

Flow == [flow : 1..FlowCount, cnt : 0..Expected, first : Packet, last : Packet,
         outcome : {"partial", "complete", "fail"}]

RowSet == [flow : Nat, cnt : Nat, first : Packet, last : Packet,
           fct : [0..(HdrSlots - 1) -> Int], outcome : {"partial", "complete", "fail"}]

RowOK(r, k) ==
  /\ r.flow = k
  /\ r.outcome = "complete" <=> r.cnt = Expected
  /\ r.last.req = r.first.req + r.cnt - 1
  /\ \A n \in 0..(HdrSlots - 1) : r.fct[n] # 0 =>
       n < Len(r.last.stamps) /\ r.fct[n] = r.last.stamps[n + 1] - r.first.stamps[1]

RowsOK(rs) ==
  /\ rs \in Seq(RowSet) /\ Len(rs) <= FlowCount
  /\ \A k \in DOMAIN rs : RowOK(rs[k], k)

NoPartial(rs) == \A k \in DOMAIN rs : rs[k].outcome # "partial"

\* The request ids of the rows, and those read.
Runs(rs) == [k \in DOMAIN rs |-> Run(rs[k])]
Written(rs) == FlattenSeq(Runs(rs))
ReadIds == [n \in DOMAIN taken |-> taken[n].req]

RecvInv ==
  /\ st \in Flow
  /\ st.cnt = 0 => st.first = NoPacket /\ st.last = NoPacket
  /\ st.cnt > 0 => FlowOK(st) /\ \A p \in fabric : FirstBefore(st.first, p)
  /\ running \in BOOLEAN
  /\ running => st.cnt < Expected /\ Len(rows) = st.flow - 1 /\ NoPartial(rows) /\ st.outcome = "partial"
  /\ RowsOK(rows)
  /\ \A k \in DOMAIN rows : rows[k].outcome = "partial" => k = Len(rows)

SegInv ==
  /\ taken \in Seq(Packet)
  /\ running => Written(rows) \o Run(st) = ReadIds
  /\ ~running => \/ Written(rows) = ReadIds
                 \/ /\ rows # <<>> /\ rows[Len(rows)].outcome = "fail"
                    /\ Written(rows) = SubSeq(ReadIds, 1, Len(ReadIds) - 1)

-----------------------------------------------------------------------------
(* Rows.                                                                   *)

LEMMA RunType ==
  ASSUME NEW s, s.cnt \in Nat, s.first.req \in Nat
  PROVE  Run(s) \in Seq(Int) /\ Len(Run(s)) = s.cnt
BY DEF Run

LEMMA RunsType ==
  ASSUME NEW rs \in Seq(RowSet)
  PROVE  Runs(rs) \in Seq(Seq(Int)) /\ Written(rs) \in Seq(Int)
<1>1. \A k \in DOMAIN rs : Run(rs[k]) \in Seq(Int)
  <2> SUFFICES ASSUME NEW k \in DOMAIN rs PROVE Run(rs[k]) \in Seq(Int)
    OBVIOUS
  <2>1. rs[k] \in RowSet
    OBVIOUS
  <2>2. rs[k].cnt \in Nat /\ rs[k].first.req \in Nat
    BY <2>1 DEF RowSet, Packet
  <2> QED BY <2>2, RunType
<1>2. Runs(rs) \in Seq(Seq(Int))
  BY <1>1 DEF Runs
<1> QED BY <1>2, FlattenType DEF Written

LEMMA WrittenAppend ==
  ASSUME NEW rs \in Seq(RowSet), NEW r, r.cnt \in Nat, r.first.req \in Nat
  PROVE  FlattenSeq([k \in DOMAIN Append(rs, r) |-> Run(Append(rs, r)[k])]) = Written(rs) \o Run(r)
<1>1. Runs(rs) \in Seq(Seq(Int)) /\ Run(r) \in Seq(Int)
  BY RunsType, RunType
<1>2. [k \in DOMAIN Append(rs, r) |-> Run(Append(rs, r)[k])] = Append(Runs(rs), Run(r))
  BY DEF Runs
<1> QED BY <1>1, <1>2, FlattenAppend DEF Written

\* The difference of two wrapped times, where it is not negative.
LEMMA Elapsed ==
  ASSUME NEW e \in Nat, NEW a \in Nat, NEW b \in Nat, e <= a, a <= b, b <= e + MaxTicks,
         (b % Wrap) >= (a % Wrap)
  PROVE  (b % Wrap) - (a % Wrap) = b - a
<1>1. Wrap \in Nat \ {0} /\ MaxTicks \in Nat /\ MaxTicks < Wrap
  BY BoundAssumption
<1> DEFINE qa == a \div Wrap
           ra == a % Wrap
           qb == b \div Wrap
           rb == b % Wrap
<1>2. a = Wrap * qa + ra /\ qa \in Nat /\ ra \in 0..(Wrap - 1)
  BY <1>1
<1>3. b = Wrap * qb + rb /\ qb \in Nat /\ rb \in 0..(Wrap - 1)
  BY <1>1
<1>4. rb >= ra /\ b - a < Wrap /\ b - a >= 0
  BY <1>1
<1> HIDE DEF qa, ra, qb, rb
<1>5. qb <= qa
  <2> SUFFICES ASSUME qb >= qa + 1 PROVE FALSE
    BY <1>2, <1>3
  <2>1. Wrap * qb >= Wrap * (qa + 1)
    BY <1>1, <1>2, <1>3
  <2>2. Wrap * (qa + 1) = Wrap * qa + Wrap
    BY <1>1, <1>2
  <2>3. Wrap * qa \in Nat /\ Wrap * qb \in Nat
    BY <1>1, <1>2, <1>3
  <2> QED BY <1>1, <1>2, <1>3, <1>4, <2>1, <2>2, <2>3
<1>6. qa <= qb
  <2> SUFFICES ASSUME qa >= qb + 1 PROVE FALSE
    BY <1>2, <1>3
  <2>1. Wrap * qa >= Wrap * (qb + 1)
    BY <1>1, <1>2, <1>3
  <2>2. Wrap * (qb + 1) = Wrap * qb + Wrap
    BY <1>1, <1>3
  <2>3. Wrap * qa \in Nat /\ Wrap * qb \in Nat
    BY <1>1, <1>2, <1>3
  <2> QED BY <1>1, <1>2, <1>3, <1>4, <2>1, <2>2, <2>3
<1>7. qa = qb
  BY <1>2, <1>3, <1>5, <1>6
<1>8. Wrap * qa \in Nat
  BY <1>1, <1>2
<1>9. b - a = rb - ra
  BY <1>2, <1>3, <1>7, <1>8
<1> QED BY <1>9 DEF ra, rb

LEMMA GoodRow ==
  ASSUME NetInv, NEW s \in Flow, FlowOK(s), NEW o \in {"partial", "complete", "fail"},
         o = "complete" <=> s.cnt = Expected
  PROVE  /\ Row(s, o) \in RowSet /\ RowOK(Row(s, o), s.flow)
         /\ Run(Row(s, o)) = Run(s) /\ Row(s, o).outcome = o
<1> DEFINE r == Row(s, o)
<1>1. /\ r.flow = s.flow /\ r.cnt = s.cnt /\ r.first = s.first /\ r.last = s.last /\ r.outcome = o
      /\ r.fct = [n \in 0..(HdrSlots - 1) |-> Fct(s, n)]
  BY DEF Row
<1>2. /\ s.flow \in Nat /\ s.cnt \in Nat /\ s.first \in Packet /\ s.last \in Packet
      /\ s.last.req = s.first.req + s.cnt - 1
  BY FlowAssumption DEF Flow, FlowOK
<1>3. ASSUME NEW n \in 0..(HdrSlots - 1)
      PROVE  /\ Fct(s, n) \in Int
             /\ Fct(s, n) # 0 => /\ n < Len(s.last.stamps)
                                 /\ Fct(s, n) = s.last.stamps[n + 1] - s.first.stamps[1]
  <2> DEFINE from == Ts(s.first, 0)
             to   == Ts(s.last, n)
             a == s.first.stamps[1]
             b == s.last.stamps[n + 1]
  <2>1. /\ s.first.stamps \in Seq(Nat) /\ s.last.stamps \in Seq(Nat)
        /\ Len(s.first.stamps) \in 1..StampSlots /\ Len(s.last.stamps) \in 1..StampSlots
    BY DEF FlowOK, Made, Packet
  <2>2. Wrap \in Nat \ {0} /\ n \in Nat /\ HdrSlots \in Nat /\ StampSlots \in Nat
    BY BoundAssumption, SlotAssumption
  <2>3. from = a % Wrap /\ a \in Nat /\ epoch <= a
    BY <2>1, <2>2 DEF Ts, FlowOK, Made
  <2>4. CASE n < Len(s.last.stamps)
    <3>1. n + 1 \in 1..Len(s.last.stamps)
      BY <2>1, <2>2, <2>4
    <3>2. to = b % Wrap /\ b \in Nat
      BY <2>1, <2>4, <3>1 DEF Ts
    <3>3. a <= b /\ b <= clock /\ clock <= epoch + MaxTicks /\ epoch \in Nat
      <4>1. b \in s.last.stamps[1]..clock
        BY <3>1 DEF FlowOK, Made
      <4>2. a <= b
        BY <3>1 DEF FlowOK
      <4>3. s.last.stamps[1] \in Nat /\ epoch \in Nat /\ clock \in epoch..(epoch + MaxTicks) /\ MaxTicks \in Nat
        BY <2>1, BoundAssumption DEF NetInv
      <4> HIDE DEF a, b
      <4> QED BY <4>1, <4>2, <4>3
    <3>4. from \in Int /\ to \in Int /\ (to >= from => to - from = b - a)
      <4> HIDE DEF a, b
      <4>1. b <= epoch + MaxTicks
        BY <2>3, <3>2, <3>3, BoundAssumption DEF NetInv
      <4> HIDE DEF from, to
      <4>2. (b % Wrap) >= (a % Wrap) => (b % Wrap) - (a % Wrap) = b - a
        BY <2>3, <3>2, <3>3, <4>1, Elapsed
      <4>3. (a % Wrap) \in Int /\ (b % Wrap) \in Int
        BY <2>2, <2>3, <3>2
      <4> QED BY <2>3, <3>2, <4>2, <4>3
    <3>5. Fct(s, n) = IF from # 0 /\ to # 0 /\ to >= from THEN to - from ELSE 0
      BY DEF Fct
    <3> HIDE DEF from, to, a, b
    <3>6. Fct(s, n) \in Int /\ (Fct(s, n) # 0 => Fct(s, n) = b - a)
      BY <3>4, <3>5
    <3> QED BY <2>4, <3>6 DEF a, b
  <2>5. CASE ~(n < Len(s.last.stamps))
    <3>1. to = 0
      BY <2>5 DEF Ts
    <3>2. Fct(s, n) = 0
      BY <3>1 DEF Fct
    <3> QED BY <3>2
  <2> QED BY <2>4, <2>5
<1>4. r.fct \in [0..(HdrSlots - 1) -> Int]
  BY <1>1, <1>3
<1>5. r \in RowSet
  BY <1>2, <1>4 DEF RowSet, Row
<1>6. RowOK(r, s.flow)
  BY <1>1, <1>2, <1>3 DEF RowOK
<1>7. Run(r) = Run(s)
  BY <1>1 DEF Run
<1> QED BY <1>1, <1>5, <1>6, <1>7

LEMMA AppendRow ==
  ASSUME NEW rs, RowsOK(rs), NEW r \in RowSet, RowOK(r, Len(rs) + 1), Len(rs) < FlowCount
  PROVE  /\ RowsOK(Append(rs, r)) /\ Len(Append(rs, r)) = Len(rs) + 1
         /\ Append(rs, r)[Len(rs) + 1] = r /\ \A k \in DOMAIN rs : Append(rs, r)[k] = rs[k]
         /\ DOMAIN Append(rs, r) = 1..(Len(rs) + 1) /\ DOMAIN rs = 1..Len(rs)
         /\ Written(Append(rs, r)) = Written(rs) \o Run(r)
<1>1. rs \in Seq(RowSet) /\ Len(rs) \in Nat
  BY DEF RowsOK
<1> DEFINE t == Append(rs, r)
<1>2. /\ t \in Seq(RowSet) /\ Len(t) = Len(rs) + 1 /\ t[Len(rs) + 1] = r
      /\ \A k \in DOMAIN rs : t[k] = rs[k]
      /\ DOMAIN t = 1..(Len(rs) + 1) /\ DOMAIN rs = 1..Len(rs)
  BY <1>1, AppendProperties
<1>3. Written(t) = Written(rs) \o Run(r)
  <2>1. r.cnt \in Nat /\ r.first.req \in Nat
    BY DEF RowSet, Packet
  <2> QED BY <1>1, <2>1, WrittenAppend DEF Written, Runs
<1> HIDE DEF t
<1>4. RowsOK(t)
  BY <1>1, <1>2, FlowAssumption DEF RowsOK
<1> QED BY <1>2, <1>3, <1>4 DEF t

-----------------------------------------------------------------------------
(* The steps of the fabric.                                                *)

LEMMA MadeLater ==
  ASSUME NetInv, NEW pkt, Made(pkt), epoch' = epoch, clock' \in Nat, clock' >= clock,
         seqReg' \in Nat, seqReg' >= seqReg
  PROVE  Made(pkt)'
<1>1. pkt.stamps \in Seq(Nat) /\ pkt.req \in 1..seqReg /\ seqReg \in Nat /\ clock \in Nat
  BY DEF Made, NetInv, Packet
<1>2. \A n \in 1..Len(pkt.stamps) :
        pkt.stamps[n] \in Nat /\ pkt.stamps[1] \in Nat /\ pkt.stamps[n] \in pkt.stamps[1]..clock
  BY <1>1 DEF Made
<1>3. \A n \in 1..Len(pkt.stamps) : pkt.stamps[n] \in pkt.stamps[1]..clock'
  BY <1>1, <1>2
<1>4. pkt.req \in 1..seqReg'
  BY <1>1
<1> QED BY <1>3, <1>4 DEF Made

LEMMA StampedMade ==
  ASSUME NetInv, NEW pkt, Made(pkt)
  PROVE  /\ Made(Stamped(pkt)) /\ Stamped(pkt).req = pkt.req
         /\ Stamped(pkt).stamps[1] = pkt.stamps[1]
<1> DEFINE new == Stamped(pkt)
           ss == pkt.stamps
<1>1. /\ pkt \in Packet /\ ss \in Seq(Nat) /\ clock \in Nat /\ epoch \in Nat /\ epoch <= clock
      /\ pkt.count \in Nat /\ Len(ss) \in 1..StampSlots /\ Len(ss) <= pkt.count
      /\ StampSlots \in Nat
  BY SlotAssumption DEF Made, NetInv, Packet
<1>2. /\ new.req = pkt.req /\ new.count = pkt.count + 1
      /\ new.stamps = IF pkt.count < StampSlots THEN Append(ss, clock) ELSE ss
      /\ new.overflow \in BOOLEAN
      /\ new = [req |-> new.req, count |-> new.count, overflow |-> new.overflow, stamps |-> new.stamps]
  <2> DEFINE o == pkt.overflow \/ pkt.count >= StampSlots
             t == IF pkt.count < StampSlots THEN Append(ss, clock) ELSE ss
             c == pkt.count + 1
  <2>1. new = [pkt EXCEPT !.count = c, !.stamps = t, !.overflow = o]
    BY DEF Stamped
  <2>2. o \in BOOLEAN
    OBVIOUS
  <2>3. DOMAIN pkt = {"req", "count", "overflow", "stamps"}
    BY <1>1 DEF Packet
  <2>4. pkt = [req |-> pkt.req, count |-> pkt.count, overflow |-> pkt.overflow, stamps |-> pkt.stamps]
    BY <1>1 DEF Packet
  <2> HIDE DEF o, t, c, new
  <2>5. new.req = pkt.req /\ new.count = c /\ new.stamps = t /\ new.overflow = o
    BY <2>1, <2>3
  <2>6. new = [req |-> pkt.req, count |-> c, overflow |-> o, stamps |-> t]
    BY <2>1, <2>4
  <2> QED BY <2>2, <2>5, <2>6 DEF o, t, c
<1> HIDE DEF new
<1>3. \A n \in 1..Len(ss) : ss[n] \in Nat /\ ss[n] \in ss[1]..clock /\ epoch <= ss[n] /\ ss[1] \in Nat
  BY <1>1 DEF Made
<1> HIDE DEF ss
<1>4. /\ new.stamps \in Seq(Nat) /\ Len(new.stamps) \in 1..StampSlots /\ Len(new.stamps) <= new.count
      /\ new.stamps[1] = ss[1]
      /\ \A n \in 1..Len(new.stamps) : new.stamps[n] \in ss[1]..clock /\ epoch <= new.stamps[n]
  <2>1. CASE pkt.count < StampSlots
    <3>1. /\ Append(ss, clock) \in Seq(Nat) /\ Len(Append(ss, clock)) = Len(ss) + 1
          /\ Append(ss, clock)[Len(ss) + 1] = clock
          /\ \A n \in 1..Len(ss) : Append(ss, clock)[n] = ss[n]
      BY <1>1, AppendProperties
    <3>2. new.stamps = Append(ss, clock)
      BY <1>2, <2>1
    <3>3. ss[1] \in 0..clock
      BY <1>1, <1>3
    <3> QED BY <1>1, <1>2, <1>3, <2>1, <3>1, <3>2, <3>3
  <2>2. CASE ~(pkt.count < StampSlots)
    BY <1>1, <1>2, <1>3, <2>2
  <2> QED BY <2>1, <2>2
<1>5. new \in Packet
  <2>1. pkt.req \in Nat /\ pkt.overflow \in BOOLEAN
    BY <1>1 DEF Packet
  <2>2. new.overflow \in BOOLEAN
    BY <1>2
  <2>3. new.req \in Nat /\ new.count \in Nat
    BY <1>1, <1>2, <2>1
  <2> QED BY <1>2, <1>4, <2>2, <2>3 DEF Packet
<1>6. new.req \in 1..seqReg
  BY <1>2 DEF Made
<1> QED BY <1>2, <1>4, <1>5, <1>6 DEF Made, new, ss

LEMMA RecordStamp ==
  ASSUME NEW a, NEW b, NEW c, NEW d, NEW x, NEW y, NEW z, NEW r,
         r = [req |-> a, count |-> b, overflow |-> c, stamps |-> d]
  PROVE  [r EXCEPT !.count = x, !.stamps = y, !.overflow = z]
           = [req |-> a, count |-> x, overflow |-> z, stamps |-> y]
<1> DEFINE l == [r EXCEPT !.count = x, !.stamps = y, !.overflow = z]
<1>1. l = [f \in {"req", "count", "overflow", "stamps"} |-> l[f]]
  OBVIOUS
<1>2. l.req = a /\ l.count = x /\ l.overflow = z /\ l.stamps = y
  OBVIOUS
<1> HIDE DEF l
<1>3. l = [req |-> a, count |-> x, overflow |-> z, stamps |-> y]
  BY <1>1, <1>2
<1> QED BY <1>3 DEF l

LEMMA GeneratedMade ==
  ASSUME NetInv, seqReg' = seqReg + 1, UNCHANGED <<clock, epoch>>,
         NEW pkt, pkt = Stamped([NoPacket EXCEPT !.req = seqReg + 1])
  PROVE  Made(pkt)' /\ pkt.req = seqReg + 1 /\ pkt.stamps[1] = clock
<1> DEFINE new == [NoPacket EXCEPT !.req = seqReg + 1]
           t   == IF new.count < StampSlots THEN Append(new.stamps, clock) ELSE new.stamps
           o   == new.overflow \/ new.count >= StampSlots
           ss  == <<clock>>
<1>1. /\ clock \in Nat /\ epoch \in Nat /\ epoch <= clock /\ seqReg \in Nat /\ StampSlots \in Nat \ {0}
      /\ epoch' = epoch /\ clock' = clock
  BY SlotAssumption DEF NetInv
<1>2. new = [req |-> seqReg + 1, count |-> 0, overflow |-> FALSE, stamps |-> << >>]
  <2>1. NoPacket = [req |-> 0, count |-> 0, overflow |-> FALSE, stamps |-> << >>]
    BY DEF NoPacket
  <2> DEFINE e == << >>
             x == seqReg + 1
  <2> HIDE DEF e, x
  <2>2. NoPacket = [req |-> 0, count |-> 0, overflow |-> FALSE, stamps |-> e]
    BY <2>1 DEF e
  <2> DEFINE l == [NoPacket EXCEPT !.req = x]
  <2>3. l = [f \in {"req", "count", "overflow", "stamps"} |-> l[f]]
    BY <2>2
  <2>4. l.req = x /\ l.count = 0 /\ l.overflow = FALSE /\ l.stamps = e
    BY <2>2
  <2> HIDE DEF l
  <2>5. l = [req |-> x, count |-> 0, overflow |-> FALSE, stamps |-> e]
    BY <2>3, <2>4
  <2> QED BY <2>5 DEF e, x, l
<1>3. new.count = 0 /\ new.stamps = << >> /\ new.overflow = FALSE
  <2> HIDE DEF new
  <2> QED BY <1>2
<1>4. pkt = [new EXCEPT !.count = new.count + 1, !.stamps = t, !.overflow = o]
  BY DEF Stamped
<1> HIDE DEF new
<1>5. new.count + 1 = 1 /\ t = ss /\ o = FALSE
  BY <1>1, <1>3
<1> HIDE DEF t, o
<1>6. ss \in Seq(Nat) /\ Len(ss) = 1 /\ ss[1] = clock
  BY <1>1
<1> HIDE DEF ss
<1>7. pkt = [req |-> seqReg + 1, count |-> 1, overflow |-> FALSE, stamps |-> ss]
  BY <1>2, <1>4, <1>5, RecordStamp
<1>8. pkt.req = seqReg + 1 /\ pkt.count = 1 /\ pkt.stamps = ss
  BY <1>7
<1>9. pkt \in Packet
  <2>1. seqReg + 1 \in Nat /\ 1 \in Nat /\ FALSE \in BOOLEAN
    BY <1>1
  <2>2. \A a, b \in Nat, c \in BOOLEAN, d \in Seq(Nat) :
          [req |-> a, count |-> b, overflow |-> c, stamps |-> d] \in Packet
    BY DEF Packet
  <2> QED BY <1>6, <1>7, <2>1, <2>2
<1>10. pkt.req \in 1..seqReg'
  BY <1>1, <1>8
<1>11. /\ Len(pkt.stamps) \in 1..StampSlots /\ Len(pkt.stamps) <= pkt.count
       /\ \A n \in 1..Len(pkt.stamps) : pkt.stamps[n] \in pkt.stamps[1]..clock' /\ epoch' <= pkt.stamps[n]
  <2>1. Len(pkt.stamps) = 1 /\ pkt.stamps[1] = clock /\ pkt.count = 1
    BY <1>6, <1>8
  <2>2. \A n \in 1..1 : n = 1
    OBVIOUS
  <2>3. clock \in clock..clock'
    BY <1>1
  <2>4. 1 \in 1..StampSlots /\ epoch' <= clock
    BY <1>1
  <2>5. \A n \in 1..Len(pkt.stamps) : pkt.stamps[n] = clock
    BY <2>1, <2>2
  <2>6. Len(pkt.stamps) \in 1..StampSlots /\ Len(pkt.stamps) <= pkt.count
    <3>1. 1 <= 1
      OBVIOUS
    <3> QED BY <2>1, <2>4, <3>1, Zenon
  <2>7. \A n \in 1..Len(pkt.stamps) : pkt.stamps[n] \in pkt.stamps[1]..clock'
    BY <2>1, <2>3, <2>5
  <2>8. \A n \in 1..Len(pkt.stamps) : epoch' <= pkt.stamps[n]
    BY <2>4, <2>5
  <2> QED BY <2>6, <2>7, <2>8
<1> QED BY <1>6, <1>8, <1>9, <1>10, <1>11 DEF Made

IInv == NetInv /\ RecvInv /\ SegInv

FabricStep ==
  \/ Generate
  \/ \E pkt \in fabric : Pass(pkt) \/ Lose(pkt)
  \/ Tick

\* A step of the fabric leaves the flow under way as good as it was.
LEMMA FlowKept ==
  ASSUME IInv, UNCHANGED recvVars, epoch' = epoch, clock' \in Nat, clock' >= clock,
         seqReg' \in Nat, seqReg' >= seqReg,
         st.cnt > 0 => \A p \in fabric' : FirstBefore(st.first, p)
  PROVE  RecvInv' /\ SegInv'
<1> USE DEF IInv
<1>1. UNCHANGED <<st, rows, running, keep, taken>>
  BY DEF recvVars
<1>2. st.cnt > 0 => FlowOK(st)'
  <2> SUFFICES ASSUME st.cnt > 0 PROVE FlowOK(st)'
    OBVIOUS
  <2>1. FlowOK(st)
    BY DEF RecvInv
  <2>2. Made(st.first)' /\ Made(st.last)'
    BY <1>1, <2>1, MadeLater DEF FlowOK
  <2> QED BY <1>1, <2>1, <2>2 DEF FlowOK
<1>3. RecvInv'
  <2>1. st'.cnt > 0 => FlowOK(st)' /\ \A p \in fabric' : FirstBefore(st'.first, p)
    BY <1>1, <1>2
  <2> QED BY <1>1, <2>1 DEF RecvInv
<1>4. SegInv'
  BY <1>1 DEF SegInv, ReadIds
<1> QED BY <1>3, <1>4

LEMMA FabricInv ==
  ASSUME IInv, FabricStep
  PROVE  IInv'
<1> USE DEF IInv
<1>1. /\ epoch \in Nat /\ clock \in Nat /\ clock \in epoch..(epoch + MaxTicks) /\ MaxTicks \in Nat
      /\ seqReg \in 0..MaxPkts /\ seqReg \in Nat /\ MaxPkts \in Nat
  BY BoundAssumption DEF NetInv
<1>2. \A p : Made(p) => p.req \in Nat /\ p.req <= seqReg /\ p.stamps[1] \in Nat /\ p.stamps[1] <= clock
  <2> SUFFICES ASSUME NEW p, Made(p)
               PROVE  p.req \in Nat /\ p.req <= seqReg /\ p.stamps[1] \in Nat /\ p.stamps[1] <= clock
    OBVIOUS
  <2>1. p.req \in 1..seqReg /\ p.stamps \in Seq(Nat) /\ Len(p.stamps) \in 1..StampSlots
    BY DEF Made, Packet
  <2>2. 1 \in 1..Len(p.stamps) /\ StampSlots \in Nat
    BY <2>1, SlotAssumption
  <2>3. p.stamps[1] \in p.stamps[1]..clock /\ p.stamps[1] \in Nat
    BY <2>1, <2>2 DEF Made
  <2> QED BY <1>1, <2>1, <2>3
<1>3. st.cnt > 0 => Made(st.first) /\ \A p \in fabric : FirstBefore(st.first, p)
  BY DEF RecvInv, FlowOK
<1>4. CASE Generate
  <2>0. PICK new : new = Stamped([NoPacket EXCEPT !.req = seqReg + 1])
    OBVIOUS
  <2>1. /\ seqReg' = seqReg + 1 /\ seqReg < MaxPkts /\ fabric' = fabric \union {new}
        /\ UNCHANGED <<clock, epoch>> /\ UNCHANGED recvVars
    BY <1>4, <2>0 DEF Generate
  <2>2. Made(new)' /\ new.req = seqReg + 1 /\ new.stamps[1] = clock
    BY <2>0, <2>1, GeneratedMade
  <2>3. \A p \in fabric : Made(p)'
    BY <1>1, <2>1, MadeLater DEF NetInv
  <2>4. \A p : Made(p) => FirstBefore(p, new) /\ FirstBefore(new, p)
    BY <1>1, <1>2, <2>2 DEF FirstBefore
  <2>5. FirstBefore(new, new)
    BY <1>1, <2>2 DEF FirstBefore
  <2>6. NetInv'
    <3>1. seqReg' \in 0..MaxPkts
      BY <1>1, <2>1
    <3>2. \A p \in fabric' : Made(p)'
      BY <2>1, <2>2, <2>3
    <3>3. \A p, q \in fabric' : FirstBefore(p, q)
      BY <2>1, <2>4, <2>5 DEF NetInv
    <3> QED BY <1>1, <2>1, <3>1, <3>2, <3>3 DEF NetInv
  <2>7. st.cnt > 0 => \A p \in fabric' : FirstBefore(st.first, p)
    BY <1>3, <2>1, <2>4
  <2>8. seqReg' \in Nat /\ seqReg' >= seqReg /\ clock' \in Nat /\ clock' >= clock
    BY <1>1, <2>1
  <2> QED BY <2>1, <2>6, <2>7, <2>8, FlowKept
<1>5. CASE \E pkt \in fabric : Pass(pkt) \/ Lose(pkt)
  <2>1. PICK pkt \in fabric : Pass(pkt) \/ Lose(pkt)
    BY <1>5
  <2> DEFINE new == Stamped(pkt)
  <2>2. fabric' \subseteq fabric \union {new} /\ UNCHANGED <<clock, epoch, seqReg>> /\ UNCHANGED recvVars
    BY <2>1 DEF Pass, Lose
  <2>3. Made(new) /\ new.req = pkt.req /\ new.stamps[1] = pkt.stamps[1] /\ Made(pkt)
    BY StampedMade DEF NetInv
  <2> HIDE DEF new
  <2>4. \A p \in fabric' : Made(p)'
    <3>1. \A p \in fabric' : Made(p)
      BY <2>2, <2>3 DEF NetInv
    <3> QED BY <2>2, <3>1 DEF Made
  <2>5. \A p : /\ FirstBefore(p, pkt) => FirstBefore(p, new)
               /\ FirstBefore(pkt, p) => FirstBefore(new, p)
    BY <2>3 DEF FirstBefore
  <2>6. FirstBefore(new, new)
    BY <1>1, <1>2, <2>3 DEF FirstBefore
  <2>7. NetInv'
    <3>1. \A p, q \in fabric' : FirstBefore(p, q)
      BY <2>2, <2>5, <2>6 DEF NetInv
    <3> QED BY <1>1, <2>2, <2>4, <3>1 DEF NetInv
  <2>8. st.cnt > 0 => \A p \in fabric' : FirstBefore(st.first, p)
    BY <1>3, <2>2, <2>5
  <2>9. seqReg' \in Nat /\ seqReg' >= seqReg /\ clock' \in Nat /\ clock' >= clock
    BY <1>1, <2>2
  <2> QED BY <2>2, <2>7, <2>8, <2>9, FlowKept
<1>6. CASE Tick
  <2>1. /\ clock < epoch + MaxTicks /\ clock' = clock + 1
        /\ UNCHANGED <<epoch, seqReg, fabric>> /\ UNCHANGED recvVars
    BY <1>6 DEF Tick
  <2>2. clock' \in Nat /\ clock' >= clock /\ clock' \in epoch..(epoch + MaxTicks)
        /\ seqReg' \in Nat /\ seqReg' >= seqReg
    BY <1>1, <2>1
  <2>3. \A p \in fabric : Made(p)'
    BY <2>1, <2>2, MadeLater DEF NetInv
  <2>4. NetInv'
    BY <2>1, <2>2, <2>3 DEF NetInv
  <2> QED BY <1>3, <2>1, <2>2, <2>4, FlowKept
<1> QED BY <1>4, <1>5, <1>6 DEF FabricStep

-----------------------------------------------------------------------------
(* The steps of the receiver.                                              *)

LEMMA MadeFacts ==
  ASSUME NEW p, Made(p)
  PROVE  /\ p \in Packet /\ p.req \in Nat /\ p.stamps \in Seq(Nat) /\ p.stamps[1] \in Nat
         /\ 1 \in 1..Len(p.stamps)
         /\ \A n \in 1..Len(p.stamps) : p.stamps[n] \in Nat /\ p.stamps[1] <= p.stamps[n]
<1>1. p \in Packet /\ p.req \in Nat /\ p.stamps \in Seq(Nat) /\ Len(p.stamps) \in 1..StampSlots
  BY DEF Made, Packet
<1>2. 1 \in 1..Len(p.stamps)
  BY <1>1, SlotAssumption
<1>3. \A n \in 1..Len(p.stamps) : p.stamps[n] \in Nat /\ p.stamps[n] \in p.stamps[1]..clock
  BY <1>1 DEF Made
<1> QED BY <1>1, <1>2, <1>3

LEMMA StartedFlow ==
  ASSUME NetInv, NEW pkt \in fabric, NEW id \in 1..FlowCount
  PROVE  LET s == Started(id, pkt) IN
           /\ s \in Flow /\ FlowOK(s) /\ s.outcome = "partial" /\ s.flow = id
           /\ \A p \in fabric : FirstBefore(s.first, p)
           /\ Run(s) = <<pkt.req>>
<1> DEFINE s == Started(id, pkt)
<1>1. Made(pkt) /\ pkt \in Packet /\ pkt.req \in Nat /\ pkt.stamps[1] \in Nat
  BY MadeFacts DEF NetInv
<1>2. s = [flow |-> id, cnt |-> 1, first |-> pkt, last |-> pkt, outcome |-> "partial"]
  <2> DEFINE f == Fresh(id)
  <2>1. f = [flow |-> id, cnt |-> 0, first |-> NoPacket, last |-> NoPacket, outcome |-> "partial"]
    BY DEF Fresh
  <2> HIDE DEF f
  <2>2. s = [f EXCEPT !.cnt = 1, !.first = pkt, !.last = pkt]
    BY DEF Started, f
  <2> HIDE DEF s
  <2>3. s = [x \in {"flow", "cnt", "first", "last", "outcome"} |-> s[x]]
    BY <2>1, <2>2
  <2>4. s.flow = id /\ s.cnt = 1 /\ s.first = pkt /\ s.last = pkt /\ s.outcome = "partial"
    BY <2>1, <2>2
  <2> QED BY <2>3, <2>4
<1> HIDE DEF s
<1>3. s.flow = id /\ s.cnt = 1 /\ s.first = pkt /\ s.last = pkt /\ s.outcome = "partial"
  BY <1>2
<1>4. s \in Flow
  <2>1. 1 \in 0..Expected
    BY FlowAssumption
  <2> QED BY <1>1, <1>2, <2>1 DEF Flow
<1>5. FlowOK(s)
  <2>1. 1 \in 1..Expected /\ pkt.req = pkt.req + 1 - 1
    BY <1>1, FlowAssumption
  <2>2. \A n \in 1..Len(pkt.stamps) : pkt.stamps[1] <= pkt.stamps[n]
    BY <1>1, MadeFacts
  <2> QED BY <1>1, <1>3, <2>1, <2>2 DEF FlowOK
<1>6. \A p \in fabric : FirstBefore(s.first, p)
  BY <1>3 DEF NetInv
<1>7. Run(s) = <<pkt.req>>
  <2>1. Run(s) = [n \in 1..1 |-> pkt.req + n - 1]
    BY <1>3 DEF Run
  <2>2. \A n \in 1..1 : pkt.req + n - 1 = pkt.req
    BY <1>1
  <2>3. Run(s) = [n \in 1..1 |-> pkt.req]
    BY <2>1, <2>2
  <2> QED BY <2>3
<1> QED BY <1>3, <1>4, <1>5, <1>6, <1>7 DEF s

LEMMA AppendedFlow ==
  ASSUME IInv, running, st.cnt > 0, NEW pkt \in fabric, pkt.req = st.last.req + 1
  PROVE  LET s == Appended(st, pkt) IN
           /\ s \in Flow /\ FlowOK(s) /\ s.outcome = "partial" /\ s.flow = st.flow
           /\ \A p \in fabric : FirstBefore(s.first, p)
           /\ Run(s) = Append(Run(st), pkt.req)
<1> DEFINE s == Appended(st, pkt)
<1> USE DEF IInv
<1>1. Made(pkt) /\ pkt \in Packet /\ pkt.req \in Nat /\ pkt.stamps[1] \in Nat
  BY MadeFacts DEF NetInv
<1>2. /\ st \in Flow /\ FlowOK(st) /\ st.cnt \in Nat /\ st.cnt < Expected /\ st.outcome = "partial"
      /\ \A p \in fabric : FirstBefore(st.first, p)
  BY FlowAssumption DEF RecvInv, FlowOK
<1>3. /\ st.first \in Packet /\ st.first.req \in Nat /\ st.first.stamps[1] \in Nat
      /\ st.last.req \in Nat /\ st.last.req = st.first.req + st.cnt - 1 /\ Made(st.first)
  BY <1>2, MadeFacts DEF FlowOK
<1>4. s = [flow |-> st.flow, cnt |-> st.cnt + 1, first |-> st.first, last |-> pkt, outcome |-> st.outcome]
  <2>1. st = [flow |-> st.flow, cnt |-> st.cnt, first |-> st.first, last |-> st.last, outcome |-> st.outcome]
    BY <1>2 DEF Flow
  <2>2. s = [st EXCEPT !.cnt = st.cnt + 1, !.last = pkt]
    BY DEF Appended
  <2> HIDE DEF s
  <2>3. s = [x \in {"flow", "cnt", "first", "last", "outcome"} |-> s[x]]
    BY <2>1, <2>2
  <2>4. /\ s.flow = st.flow /\ s.cnt = st.cnt + 1 /\ s.first = st.first /\ s.last = pkt
        /\ s.outcome = st.outcome
    BY <2>1, <2>2
  <2> QED BY <2>3, <2>4
<1> HIDE DEF s
<1>5. /\ s.flow = st.flow /\ s.cnt = st.cnt + 1 /\ s.first = st.first /\ s.last = pkt
      /\ s.outcome = st.outcome
  BY <1>4
<1>6. st.cnt + 1 \in 1..Expected /\ st.cnt + 1 \in 0..Expected
  BY <1>2, FlowAssumption
<1>7. s \in Flow
  BY <1>1, <1>2, <1>4, <1>6 DEF Flow
<1>8. FlowOK(s)
  <2>1. pkt.req = st.first.req + (st.cnt + 1) - 1
    BY <1>2, <1>3
  <2>2. st.first.stamps[1] <= pkt.stamps[1]
    <3>1. st.first.req < pkt.req
      BY <1>2, <1>3
    <3> QED BY <1>2, <3>1 DEF FirstBefore
  <2>3. \A n \in 1..Len(pkt.stamps) : st.first.stamps[1] <= pkt.stamps[n]
    <3>1. \A n \in 1..Len(pkt.stamps) : pkt.stamps[n] \in Nat /\ pkt.stamps[1] <= pkt.stamps[n]
      BY <1>1, MadeFacts
    <3> QED BY <1>1, <1>3, <2>2, <3>1
  <2> QED BY <1>1, <1>3, <1>5, <1>6, <2>1, <2>3 DEF FlowOK
<1>9. Run(s) = Append(Run(st), pkt.req)
  <2>1. Run(s) = [n \in 1..(st.cnt + 1) |-> st.first.req + n - 1]
    BY <1>5 DEF Run
  <2>2. pkt.req = st.first.req + (st.cnt + 1) - 1
    BY <1>2, <1>3
  <2>3. Run(st) = [n \in 1..st.cnt |-> st.first.req + n - 1]
    BY DEF Run
  <2>4. Run(st) \in Seq(Int) /\ Len(Run(st)) = st.cnt
    BY <1>2, <1>3, RunType
  <2> QED BY <1>2, <1>3, <2>1, <2>2, <2>3, <2>4
<1> QED BY <1>2, <1>5, <1>7, <1>8, <1>9 DEF s

LEMMA ReadEffect ==
  ASSUME IInv, NEW pkt \in fabric, Read(pkt)
  PROVE  /\ running /\ NetInv' /\ fabric' \subseteq fabric /\ taken' \in Seq(Packet)
         /\ ReadIds \in Seq(Int) /\ ReadIds' = Append(ReadIds, pkt.req) /\ pkt.req \in Nat
         /\ \A s : FlowOK(s) => FlowOK(s)'
<1> USE DEF IInv
<1>1. /\ running /\ fabric' = fabric \ {pkt} /\ taken' = Append(taken, pkt)
      /\ UNCHANGED <<clock, epoch, seqReg>>
  BY DEF Read
<1>2. NetInv'
  BY <1>1 DEF NetInv, Made
<1>3. pkt \in Packet /\ pkt.req \in Nat /\ taken \in Seq(Packet)
  BY MadeFacts DEF NetInv, SegInv
<1>4. \A x \in Packet : x.req \in Int
  BY DEF Packet
<1>5. ReadIds \in Seq(Int) /\ Len(ReadIds) = Len(taken)
  BY <1>3, <1>4 DEF ReadIds
<1>6. ReadIds' = Append(ReadIds, pkt.req)
  <2>1. /\ taken' \in Seq(Packet) /\ Len(taken') = Len(taken) + 1 /\ taken'[Len(taken) + 1] = pkt
        /\ \A n \in 1..Len(taken) : taken'[n] = taken[n]
    BY <1>1, <1>3, AppendProperties
  <2>2. ReadIds' = [n \in 1..(Len(taken) + 1) |-> taken'[n].req]
    BY <2>1 DEF ReadIds
  <2>3. ReadIds = [n \in 1..Len(taken) |-> taken[n].req]
    BY <1>3 DEF ReadIds
  <2>4. Append(ReadIds, pkt.req) = [n \in 1..(Len(taken) + 1) |->
                                      IF n <= Len(taken) THEN ReadIds[n] ELSE pkt.req]
    BY <1>3, <1>5
  <2>5. \A n \in 1..(Len(taken) + 1) :
          taken'[n].req = IF n <= Len(taken) THEN ReadIds[n] ELSE pkt.req
    BY <1>3, <2>1, <2>3
  <2> QED BY <2>2, <2>4, <2>5
<1>7. \A s : FlowOK(s) => FlowOK(s)'
  BY <1>1 DEF FlowOK, Made
<1> QED BY <1>1, <1>2, <1>3, <1>5, <1>6, <1>7, AppendProperties

\* The end of the loop's body: the flow s is under way, or gets its row.
LEMMA ConcludeStep ==
  ASSUME NetInv, running, fabric' \subseteq fabric, \A x : FlowOK(x) => FlowOK(x)',
         NEW s \in Flow, FlowOK(s), s.outcome = "partial",
         \A p \in fabric : FirstBefore(s.first, p),
         NEW rs, RowsOK(rs), Len(rs) = s.flow - 1, NoPartial(rs),
         ReadIds' \in Seq(Int), taken' \in Seq(Packet), Written(rs) \o Run(s) = ReadIds',
         Conclude(s, rs)
  PROVE  RecvInv' /\ SegInv'
<1>1. /\ s.flow \in 1..FlowCount /\ s.cnt \in 1..Expected /\ Expected \in Nat /\ FlowCount \in Nat
      /\ rs \in Seq(RowSet) /\ Len(rs) \in Nat /\ s.flow = Len(rs) + 1
  BY FlowAssumption DEF Flow, FlowOK, RowsOK
<1>2. \A k \in DOMAIN rs : rs[k].outcome # "partial"
  BY DEF NoPartial
<1>3. CASE s.cnt < Expected
  <2>1. st' = s /\ rows' = rs /\ running' = TRUE
    BY <1>3 DEF Conclude
  <2>2. FlowOK(st)'
    BY <2>1 DEF FlowOK
  <2>3. RecvInv'
    <3>1. st'.cnt # 0 /\ Len(rows') = st'.flow - 1
      <4>1. s.cnt # 0 /\ Len(rs) = s.flow - 1
        BY <1>1
      <4> QED BY <2>1, <4>1
    <3>2. \A p \in fabric' : FirstBefore(st'.first, p)
      BY <2>1
    <3>3. NoPartial(rows') /\ RowsOK(rows') /\ \A k \in DOMAIN rows' : rows'[k].outcome # "partial"
      BY <1>2, <2>1
    <3>4. st' \in Flow /\ st'.cnt < Expected /\ st'.outcome = "partial" /\ running' = TRUE
      BY <1>3, <2>1
    <3> QED BY <2>2, <3>1, <3>2, <3>3, <3>4 DEF RecvInv
  <2>4. SegInv'
    BY <2>1 DEF SegInv
  <2> QED BY <2>3, <2>4
<1>4. CASE ~(s.cnt < Expected)
  <2> DEFINE r == Row(s, "complete")
             t == Append(rs, r)
  <2>1. s.cnt = Expected
    BY <1>1, <1>4
  <2>2. r \in RowSet /\ RowOK(r, Len(rs) + 1) /\ Run(r) = Run(s) /\ r.outcome = "complete"
    BY <1>1, <2>1, GoodRow
  <2>3. /\ RowsOK(t) /\ Len(t) = Len(rs) + 1 /\ t[Len(rs) + 1] = r
        /\ \A k \in DOMAIN rs : t[k] = rs[k]
        /\ DOMAIN t = 1..(Len(rs) + 1) /\ DOMAIN rs = 1..Len(rs)
        /\ Written(t) = Written(rs) \o Run(r)
    <3>1. Len(rs) < FlowCount
      BY <1>1
    <3> HIDE DEF r
    <3> QED BY <2>2, <3>1, AppendRow
  <2>4. /\ rows' = t /\ running' = (s.flow < FlowCount)
        /\ st' = IF s.flow < FlowCount THEN Fresh(s.flow + 1) ELSE [s EXCEPT !.outcome = "complete"]
    BY <1>4 DEF Conclude
  <2> HIDE DEF t, r
  <2>5. NoPartial(t) /\ Written(t) = ReadIds'
    <3>0. Len(rs) \in Nat
      BY <1>1
    <3>1. \A k \in DOMAIN t : k \in DOMAIN rs \/ k = Len(rs) + 1
      BY <2>3, <3>0
    <3> QED BY <1>2, <2>2, <2>3, <3>1 DEF NoPartial
  <2>6. CASE s.flow < FlowCount
    <3>1. st' = [flow |-> s.flow + 1, cnt |-> 0, first |-> NoPacket, last |-> NoPacket, outcome |-> "partial"]
      BY <2>4, <2>6 DEF Fresh
    <3>2. /\ st'.flow = s.flow + 1 /\ st'.cnt = 0 /\ st'.first = NoPacket /\ st'.last = NoPacket
          /\ st'.outcome = "partial"
      BY <3>1
    <3>3. NoPacket \in Packet
      <4>1. << >> \in Seq(Nat) /\ 0 \in Nat /\ FALSE \in BOOLEAN
        OBVIOUS
      <4>2. \A a, b \in Nat, c \in BOOLEAN, d \in Seq(Nat) :
              [req |-> a, count |-> b, overflow |-> c, stamps |-> d] \in Packet
        BY DEF Packet
      <4> QED BY <4>1, <4>2 DEF NoPacket
    <3>4. st' \in Flow
      <4>1. s.flow + 1 \in 1..FlowCount /\ 0 \in 0..Expected
        BY <1>1, <2>6
      <4> QED BY <3>1, <3>3, <4>1 DEF Flow
    <3>5. RecvInv'
      <4>1. 0 < Expected /\ ~(0 > 0) /\ Len(rows') = st'.flow - 1
        <5>1. Len(rows') = Len(rs) + 1 /\ st'.flow = s.flow + 1
          BY <2>3, <2>4, <3>2
        <5>2. Len(rs) \in Nat /\ s.flow = Len(rs) + 1 /\ 0 < Expected
          BY <1>1
        <5> QED BY <5>1, <5>2
      <4>2. \A k \in DOMAIN rows' : rows'[k].outcome # "partial"
        BY <2>4, <2>5 DEF NoPartial
      <4>3. running' = TRUE /\ NoPartial(rows') /\ RowsOK(rows')
        BY <2>3, <2>4, <2>5, <2>6
      <4> QED BY <3>2, <3>4, <4>1, <4>2, <4>3 DEF RecvInv
    <3>6. SegInv'
      <4>1. Run(st') = << >>
        <5>1. Run(st') = [n \in 1..0 |-> st'.first.req + n - 1]
          BY <3>2 DEF Run
        <5> QED BY <5>1
      <4>2. Written(rows') \o << >> = ReadIds'
        BY <2>4, <2>5
      <4> QED BY <2>4, <2>6, <4>1, <4>2 DEF SegInv
    <3> QED BY <3>5, <3>6
  <2>7. CASE ~(s.flow < FlowCount)
    <3>1. running' = FALSE /\ rows' = t /\ st' = [s EXCEPT !.outcome = "complete"]
      <4>1. (s.flow < FlowCount) = FALSE
        BY <2>7
      <4> QED BY <2>4, <4>1
    <3>2. /\ s = [flow |-> s.flow, cnt |-> s.cnt, first |-> s.first, last |-> s.last, outcome |-> s.outcome]
          /\ s.first \in Packet /\ s.last \in Packet /\ s.cnt \in 0..Expected
      BY DEF Flow
    <3>3. /\ st'.flow = s.flow /\ st'.cnt = s.cnt /\ st'.first = s.first /\ st'.last = s.last
          /\ st'.outcome = "complete" /\ DOMAIN st' = {"flow", "cnt", "first", "last", "outcome"}
      BY <3>1, <3>2
    <3>4. st' \in Flow
      <4>1. st' = [x \in {"flow", "cnt", "first", "last", "outcome"} |-> st'[x]]
        BY <3>1, <3>2
      <4>2. st' = [flow |-> s.flow, cnt |-> s.cnt, first |-> s.first, last |-> s.last, outcome |-> "complete"]
        BY <3>3, <4>1
      <4> QED BY <1>1, <3>2, <4>2 DEF Flow
    <3>5. FlowOK(st)' /\ \A p \in fabric' : FirstBefore(st'.first, p)
      BY <3>3 DEF FlowOK
    <3>6. st'.cnt # 0
      BY <1>1, <3>3
    <3>7. RecvInv'
      BY <2>3, <2>5, <3>1, <3>4, <3>5, <3>6 DEF RecvInv, NoPartial
    <3>8. SegInv'
      BY <2>5, <3>1 DEF SegInv
    <3> QED BY <3>7, <3>8
  <2> QED BY <2>6, <2>7
<1> QED BY <1>3, <1>4

LEMMA ExtendStep ==
  ASSUME IInv, NEW pkt \in fabric, Extend(pkt)
  PROVE  IInv'
<1> DEFINE s == IF st.cnt = 0 THEN Started(st.flow, pkt) ELSE Appended(st, pkt)
<1> USE DEF IInv
<1>1. /\ running /\ NetInv' /\ fabric' \subseteq fabric /\ taken' \in Seq(Packet)
      /\ ReadIds \in Seq(Int) /\ ReadIds' = Append(ReadIds, pkt.req) /\ pkt.req \in Nat
      /\ \A x : FlowOK(x) => FlowOK(x)'
  BY ReadEffect DEF Extend
<1>2. /\ st \in Flow /\ st.cnt \in Nat /\ st.flow \in 1..FlowCount /\ Len(rows) = st.flow - 1
      /\ NoPartial(rows) /\ RowsOK(rows) /\ rows \in Seq(RowSet)
      /\ Written(rows) \o Run(st) = ReadIds
  BY <1>1, FlowAssumption DEF RecvInv, SegInv, Flow, RowsOK
<1>3. Written(rows) \in Seq(Int)
  BY <1>2, RunsType
<1>4. /\ s \in Flow /\ FlowOK(s) /\ s.outcome = "partial" /\ s.flow = st.flow
      /\ \A p \in fabric : FirstBefore(s.first, p)
      /\ Written(rows) \o Run(s) = ReadIds'
  <2>1. CASE st.cnt = 0
    <3>1. /\ s \in Flow /\ FlowOK(s) /\ s.outcome = "partial" /\ s.flow = st.flow
          /\ \A p \in fabric : FirstBefore(s.first, p)
          /\ Run(s) = <<pkt.req>>
      BY <1>2, <2>1, StartedFlow
    <3>2. Run(st) = << >>
      <4>1. Run(st) = [n \in 1..0 |-> st.first.req + n - 1]
        BY <2>1 DEF Run
      <4> QED BY <4>1
    <3>3. ReadIds = Written(rows)
      BY <1>2, <1>3, <3>2
    <3>4. Written(rows) \o <<pkt.req>> = Append(Written(rows), pkt.req)
      BY <1>1, <1>3
    <3> QED BY <1>1, <3>1, <3>3, <3>4
  <2>2. CASE st.cnt # 0
    <3>1. st.cnt > 0 /\ pkt.req = st.last.req + 1
      BY <1>2, <2>2 DEF Extend, Breaks
    <3>2. /\ s \in Flow /\ FlowOK(s) /\ s.outcome = "partial" /\ s.flow = st.flow
          /\ \A p \in fabric : FirstBefore(s.first, p)
          /\ Run(s) = Append(Run(st), pkt.req)
      BY <1>1, <2>2, <3>1, AppendedFlow
    <3>3. Run(st) \in Seq(Int)
      BY <1>2, MadeFacts, RunType DEF Flow, Packet
    <3>4. Written(rows) \o Append(Run(st), pkt.req) = Append(ReadIds, pkt.req)
      <4>1. pkt.req \in Int
        BY <1>1
      <4>2. Append(Written(rows) \o Run(st), pkt.req) = Written(rows) \o Append(Run(st), pkt.req)
        <5> DEFINE a == Written(rows)
                   b == Run(st)
                   x == pkt.req
                   I == Int
        <5>1. a \in Seq(I) /\ b \in Seq(I) /\ x \in I
          BY <1>3, <3>3, <4>1
        <5> HIDE DEF a, b, x, I
        <5>2. Append(a \o b, x) = a \o Append(b, x)
          BY <5>1
        <5> QED BY <5>2 DEF a, b, x
      <4> QED BY <1>2, <4>2
    <3> QED BY <1>1, <3>2, <3>4
  <2> QED BY <2>1, <2>2
<1>5. Conclude(s, rows)
  BY DEF Extend
<1>6. ReadIds' \in Seq(Int)
  BY <1>1
<1> HIDE DEF s
<1>7. RecvInv' /\ SegInv'
  BY <1>1, <1>2, <1>4, <1>5, <1>6, ConcludeStep
<1> QED BY <1>1, <1>7

\* The row of a flow that a packet out of sequence ends.
LEMMA BrokenRow ==
  ASSUME NetInv, RecvInv, running, st.cnt > 0, NEW o \in {"fail", "partial"}
  PROVE  LET r == Row(st, o)
             t == Append(rows, r)
         IN  /\ r \in RowSet /\ r.outcome = o
             /\ RowsOK(t) /\ Len(t) = Len(rows) + 1 /\ t[Len(rows) + 1] = r
             /\ \A k \in DOMAIN rows : t[k] = rows[k] /\ rows[k].outcome # "partial"
             /\ DOMAIN t = 1..(Len(rows) + 1) /\ DOMAIN rows = 1..Len(rows) /\ Len(rows) \in Nat
             /\ Written(t) = Written(rows) \o Run(st)
<1> DEFINE r == Row(st, o)
<1>1. /\ st \in Flow /\ FlowOK(st) /\ st.cnt < Expected /\ Len(rows) = st.flow - 1 /\ NoPartial(rows)
      /\ RowsOK(rows) /\ rows \in Seq(RowSet) /\ Len(rows) \in Nat
      /\ st.flow \in 1..FlowCount /\ FlowCount \in Nat /\ st.cnt \in Nat /\ Expected \in Nat
  BY FlowAssumption DEF RecvInv, RowsOK, Flow
<1>2. o = "complete" <=> st.cnt = Expected
  BY <1>1
<1>3. r \in RowSet /\ RowOK(r, st.flow) /\ Run(r) = Run(st) /\ r.outcome = o
  BY <1>1, <1>2, GoodRow
<1> HIDE DEF r
<1>4. st.flow = Len(rows) + 1 /\ Len(rows) < FlowCount
  BY <1>1
<1>5. RowOK(r, Len(rows) + 1)
  BY <1>3, <1>4
<1>6. /\ RowsOK(Append(rows, r)) /\ Len(Append(rows, r)) = Len(rows) + 1
      /\ Append(rows, r)[Len(rows) + 1] = r /\ \A k \in DOMAIN rows : Append(rows, r)[k] = rows[k]
      /\ DOMAIN Append(rows, r) = 1..(Len(rows) + 1) /\ DOMAIN rows = 1..Len(rows)
      /\ Written(Append(rows, r)) = Written(rows) \o Run(r)
  BY <1>1, <1>3, <1>4, <1>5, AppendRow
<1> QED BY <1>1, <1>3, <1>6 DEF NoPartial, r

LEMMA BreakStep ==
  ASSUME IInv, NEW pkt \in fabric, Break(pkt)
  PROVE  IInv'
<1> DEFINE r == Row(st, "fail")
           t == Append(rows, r)
<1> USE DEF IInv
<1>1. /\ running /\ NetInv' /\ fabric' \subseteq fabric /\ taken' \in Seq(Packet)
      /\ ReadIds \in Seq(Int) /\ ReadIds' = Append(ReadIds, pkt.req) /\ pkt.req \in Nat
      /\ \A x : FlowOK(x) => FlowOK(x)'
  BY ReadEffect DEF Break
<1>2. st.cnt > 0
  BY DEF Break, Breaks
<1>3. /\ r \in RowSet /\ r.outcome = "fail"
      /\ RowsOK(t) /\ Len(t) = Len(rows) + 1 /\ t[Len(rows) + 1] = r
      /\ \A k \in DOMAIN rows : t[k] = rows[k] /\ rows[k].outcome # "partial"
      /\ DOMAIN t = 1..(Len(rows) + 1) /\ DOMAIN rows = 1..Len(rows) /\ Len(rows) \in Nat
      /\ Written(t) = Written(rows) \o Run(st)
  BY <1>1, <1>2, BrokenRow
<1>4. /\ st \in Flow /\ st.flow \in 1..FlowCount /\ Len(rows) = st.flow - 1 /\ FlowCount \in Nat
      /\ Written(rows) \o Run(st) = ReadIds
  BY <1>1, FlowAssumption DEF RecvInv, SegInv, Flow
<1>5. \/ st.flow < FlowCount /\ Conclude(Started(st.flow + 1, pkt), t)
      \/ ~(st.flow < FlowCount) /\ rows' = t /\ st' = [st EXCEPT !.outcome = "fail"] /\ running' = FALSE
  BY DEF Break
<1> HIDE DEF t, r
<1>6. NoPartial(t)
  <2>1. \A k \in DOMAIN t : k \in DOMAIN rows \/ k = Len(rows) + 1
    BY <1>3
  <2> QED BY <1>3, <2>1 DEF NoPartial
<1>7. CASE st.flow < FlowCount /\ Conclude(Started(st.flow + 1, pkt), t)
  <2> DEFINE s == Started(st.flow + 1, pkt)
  <2>1. st.flow + 1 \in 1..FlowCount
    BY <1>4, <1>7
  <2>2. /\ s \in Flow /\ FlowOK(s) /\ s.outcome = "partial" /\ s.flow = st.flow + 1
        /\ \A p \in fabric : FirstBefore(s.first, p)
        /\ Run(s) = <<pkt.req>>
    BY <2>1, StartedFlow
  <2>3. Conclude(s, t)
    BY <1>7
  <2> HIDE DEF s
  <2>4. Written(t) \o Run(s) = ReadIds'
    <3>1. ReadIds \o <<pkt.req>> = Append(ReadIds, pkt.req)
      BY <1>1
    <3> QED BY <1>1, <1>3, <1>4, <2>2, <3>1
  <2>5. Len(t) = s.flow - 1
    BY <1>3, <1>4, <2>2
  <2>6. ReadIds' \in Seq(Int)
    BY <1>1
  <2>7. RecvInv' /\ SegInv'
    BY <1>1, <1>3, <1>6, <2>2, <2>3, <2>4, <2>5, <2>6, ConcludeStep
  <2> QED BY <1>1, <2>7
<1>8. CASE /\ ~(st.flow < FlowCount) /\ rows' = t
           /\ st' = [st EXCEPT !.outcome = "fail"] /\ running' = FALSE
  <2>1. /\ st = [flow |-> st.flow, cnt |-> st.cnt, first |-> st.first, last |-> st.last, outcome |-> st.outcome]
        /\ st.first \in Packet /\ st.last \in Packet /\ st.cnt \in 0..Expected /\ st.flow \in 1..FlowCount
    BY <1>4 DEF Flow
  <2>2. /\ st'.flow = st.flow /\ st'.cnt = st.cnt /\ st'.first = st.first /\ st'.last = st.last
        /\ st'.outcome = "fail"
    BY <1>8, <2>1
  <2>3. st' \in Flow
    <3>1. st' = [x \in {"flow", "cnt", "first", "last", "outcome"} |-> st'[x]]
      BY <1>8, <2>1
    <3>2. st' = [flow |-> st.flow, cnt |-> st.cnt, first |-> st.first, last |-> st.last, outcome |-> "fail"]
      BY <2>2, <3>1
    <3> QED BY <2>1, <3>2 DEF Flow
  <2>4. FlowOK(st)' /\ \A p \in fabric' : FirstBefore(st'.first, p)
    <3>1. FlowOK(st) /\ \A p \in fabric : FirstBefore(st.first, p)
      BY <1>2 DEF RecvInv
    <3>2. PICK x : x = st
      OBVIOUS
    <3>3. FlowOK(x)'
      BY <1>1, <3>1, <3>2
    <3>4. st'.cnt = x.cnt /\ st'.first = x.first /\ st'.last = x.last
      BY <2>2, <3>2
    <3> QED BY <1>1, <2>2, <3>1, <3>3, <3>4 DEF FlowOK
  <2>5. st'.cnt # 0
    BY <1>2, <2>2
  <2>6. RecvInv'
    BY <1>3, <1>6, <1>8, <2>3, <2>4, <2>5 DEF RecvInv, NoPartial
  <2>7. SegInv'
    <3>1. t # << >> /\ t[Len(t)].outcome = "fail"
      BY <1>3
    <3>2. SubSeq(ReadIds', 1, Len(ReadIds') - 1) = ReadIds
      BY <1>1
    <3>3. Written(rows') = SubSeq(ReadIds', 1, Len(ReadIds') - 1)
      BY <1>3, <1>4, <1>8, <3>2
    <3> QED BY <1>1, <1>8, <3>1, <3>3 DEF SegInv
  <2> QED BY <1>1, <2>6, <2>7
<1> QED BY <1>5, <1>7, <1>8

LEMMA LeaveStep ==
  ASSUME IInv, Leave
  PROVE  IInv'
<1> DEFINE r == Row(st, "partial")
           t == Append(rows, r)
<1> USE DEF IInv
<1>1. /\ running /\ running' = FALSE /\ UNCHANGED netVars /\ UNCHANGED <<st, keep, taken>>
      /\ rows' = IF st.cnt > 0 THEN t ELSE rows
  BY DEF Leave
<1>2. NetInv' /\ UNCHANGED <<clock, epoch, seqReg, fabric>>
  BY <1>1 DEF NetInv, netVars, Made
<1>3. /\ st \in Flow /\ st.cnt \in Nat /\ Written(rows) \o Run(st) = ReadIds /\ RowsOK(rows)
      /\ NoPartial(rows) /\ rows \in Seq(RowSet)
      /\ ReadIds' = ReadIds /\ taken' \in Seq(Packet)
  BY <1>1 DEF RecvInv, SegInv, RowsOK, Flow, ReadIds
<1>4. st'.cnt > 0 => FlowOK(st)' /\ \A p \in fabric' : FirstBefore(st'.first, p)
  BY <1>1, <1>2 DEF RecvInv, FlowOK, Made
<1>5. CASE st.cnt > 0
  <2>1. /\ r \in RowSet /\ r.outcome = "partial"
        /\ RowsOK(t) /\ Len(t) = Len(rows) + 1 /\ t[Len(rows) + 1] = r
        /\ \A k \in DOMAIN rows : t[k] = rows[k] /\ rows[k].outcome # "partial"
        /\ DOMAIN t = 1..(Len(rows) + 1) /\ DOMAIN rows = 1..Len(rows) /\ Len(rows) \in Nat
        /\ Written(t) = Written(rows) \o Run(st)
    BY <1>1, <1>5, BrokenRow
  <2> HIDE DEF t, r
  <2>2. rows' = t
    BY <1>1, <1>5
  <2>3. \A k \in DOMAIN t : t[k].outcome = "partial" => k = Len(t)
    <3>1. \A k \in DOMAIN t : k \in DOMAIN rows \/ k = Len(rows) + 1
      BY <2>1
    <3> QED BY <2>1, <3>1
  <2>4. RecvInv'
    BY <1>1, <1>3, <1>4, <1>5, <2>1, <2>2, <2>3 DEF RecvInv
  <2>5. SegInv'
    BY <1>1, <1>3, <2>1, <2>2 DEF SegInv
  <2> QED BY <1>2, <2>4, <2>5
<1>6. CASE ~(st.cnt > 0)
  <2>1. rows' = rows /\ st.cnt = 0
    BY <1>1, <1>3, <1>6
  <2>2. Run(st) = << >>
    <3>1. Run(st) = [n \in 1..0 |-> st.first.req + n - 1]
      BY <2>1 DEF Run
    <3> QED BY <3>1
  <2>3. Written(rows) = ReadIds
    BY <1>3, <2>2, RunsType
  <2>4. RecvInv'
    BY <1>1, <1>4, <2>1 DEF RecvInv
  <2>5. SegInv'
    BY <1>1, <1>3, <2>1, <2>3 DEF SegInv
  <2> QED BY <1>2, <2>4, <2>5
<1> QED BY <1>5, <1>6

LEMMA InitIInv == Init => IInv
<1> SUFFICES ASSUME Init PROVE IInv
  OBVIOUS
<1>1. /\ epoch \in 0..(Wrap - 1) /\ clock = epoch /\ seqReg = 0 /\ fabric = {} /\ rows = << >>
      /\ running = TRUE /\ keep = "set" /\ taken = << >> /\ st = Fresh(1)
  BY DEF Init
<1>2. NetInv
  BY <1>1, BoundAssumption DEF NetInv
<1>3. /\ st = [flow |-> 1, cnt |-> 0, first |-> NoPacket, last |-> NoPacket, outcome |-> "partial"]
  BY <1>1 DEF Fresh
<1>4. st.flow = 1 /\ st.cnt = 0 /\ st.first = NoPacket /\ st.last = NoPacket /\ st.outcome = "partial"
  BY <1>3
<1>5. NoPacket \in Packet
  <2>1. << >> \in Seq(Nat) /\ 0 \in Nat /\ FALSE \in BOOLEAN
    OBVIOUS
  <2>2. \A a, b \in Nat, c \in BOOLEAN, d \in Seq(Nat) :
          [req |-> a, count |-> b, overflow |-> c, stamps |-> d] \in Packet
    BY DEF Packet
  <2> QED BY <2>1, <2>2 DEF NoPacket
<1>6. st \in Flow
  <2>1. 1 \in 1..FlowCount /\ 0 \in 0..Expected
    BY FlowAssumption
  <2> QED BY <1>3, <1>5, <2>1 DEF Flow
<1>7. RowsOK(rows) /\ NoPartial(rows) /\ Len(rows) = 0
  BY <1>1, FlowAssumption DEF RowsOK, NoPartial
<1>8. RecvInv
  <2>1. 0 < Expected /\ ~(0 > 0) /\ 0 = 1 - 1
    BY FlowAssumption
  <2>2. \A k \in DOMAIN rows : rows[k].outcome # "partial"
    BY <1>7 DEF NoPartial
  <2> QED BY <1>1, <1>4, <1>6, <1>7, <2>1, <2>2 DEF RecvInv
<1>9. SegInv
  <2>1. Run(st) = << >>
    <3>1. Run(st) = [n \in 1..0 |-> st.first.req + n - 1]
      BY <1>4 DEF Run
    <3> QED BY <3>1
  <2>2. Runs(rows) = << >> /\ ReadIds = << >> /\ taken \in Seq(Packet)
    BY <1>1 DEF Runs, ReadIds
  <2>3. Written(rows) = << >>
    BY <2>2 DEF Written, FlattenSeq
  <2>4. << >> \o << >> = << >>
    OBVIOUS
  <2> QED BY <1>1, <2>1, <2>2, <2>3, <2>4 DEF SegInv
<1> QED BY <1>2, <1>8, <1>9 DEF IInv

LEMMA StepIInv == IInv /\ [Next]_vars => IInv'
<1> SUFFICES ASSUME IInv, [Next]_vars PROVE IInv'
  OBVIOUS
<1>1. CASE FabricStep
  BY <1>1, FabricInv
<1>2. CASE \E pkt \in fabric : Break(pkt) \/ Extend(pkt)
  BY <1>2, BreakStep, ExtendStep
<1>3. CASE Leave
  BY <1>3, LeaveStep
<1>4. CASE Interrupt \/ UNCHANGED vars
  <2>1. UNCHANGED <<clock, epoch, seqReg, fabric, st, rows, running, taken>>
    BY <1>4 DEF Interrupt, vars, netVars, recvVars
  <2> QED BY <2>1 DEF IInv, NetInv, RecvInv, SegInv, FlowOK, Made, ReadIds
<1> QED BY <1>1, <1>2, <1>3, <1>4 DEF Next, FabricStep

LEMMA Inductive == Spec => []IInv
BY InitIInv, StepIInv, PTL DEF Spec

-----------------------------------------------------------------------------
(* The theorems.                                                           *)

LEMMA MadePacketOK == ASSUME NetInv, NEW p, Made(p) PROVE PacketOK(p)
<1>1. /\ p \in Packet /\ p.req \in 1..seqReg /\ seqReg \in 0..MaxPkts /\ MaxPkts \in Nat
      /\ Len(p.stamps) \in 1..StampSlots /\ Len(p.stamps) <= p.count
  BY BoundAssumption DEF NetInv, Made
<1>2. p.overflow \in BOOLEAN /\ p.stamps \in Seq(Nat)
  BY <1>1 DEF Packet
<1>3. p.req \in 0..MaxPkts /\ Len(p.stamps) <= StampSlots
  BY <1>1, SlotAssumption
<1> QED BY <1>1, <1>2, <1>3 DEF PacketOK

KeepOK == keep \in {"set", "cleared", "seen"}

LEMMA KeepInv == Spec => []KeepOK
<1>1. Init => KeepOK
  BY DEF Init, KeepOK
<1>2. KeepOK /\ [Next]_vars => KeepOK'
  BY DEF KeepOK, Next, Generate, Pass, Lose, Tick, Break, Extend, Read, Interrupt, Leave,
         vars, netVars, recvVars
<1> QED BY <1>1, <1>2, PTL DEF Spec

\* The state stays within its types: a header never holds more stamps than the
\* pipeline has branches for, and a flow never more packets than it should.
THEOREM TypeCorrect == Spec => []TypeOK
<1>1. IInv /\ KeepOK => TypeOK
  <2> SUFFICES ASSUME IInv, KeepOK PROVE TypeOK
    OBVIOUS
  <2>1. /\ epoch \in Nat /\ clock \in epoch..(epoch + MaxTicks) /\ seqReg \in 0..MaxPkts
        /\ \A pkt \in fabric : PacketOK(pkt)
    BY MadePacketOK DEF IInv, NetInv
  <2>2. st.flow \in 1..FlowCount /\ st.cnt \in 0..Expected /\ running \in BOOLEAN
    BY DEF IInv, RecvInv, Flow
  <2>3. PacketOK(NoPacket)
    <3>1. /\ NoPacket.req = 0 /\ NoPacket.count = 0 /\ NoPacket.overflow = FALSE
          /\ NoPacket.stamps = << >>
      BY DEF NoPacket
    <3>2. << >> \in Seq(Nat) /\ Len(<< >>) = 0 /\ 0 \in 0..MaxPkts /\ 0 <= StampSlots /\ 0 <= 0
      BY SlotAssumption, BoundAssumption
    <3> QED BY <3>1, <3>2 DEF PacketOK
  <2>4. PacketOK(st.first) /\ PacketOK(st.last)
    <3>1. CASE st.cnt = 0
      BY <2>3, <3>1 DEF IInv, RecvInv
    <3>2. CASE st.cnt # 0
      <4>1. st.cnt > 0
        BY <2>2, <3>2, FlowAssumption
      <4>2. Made(st.first) /\ Made(st.last)
        BY <4>1 DEF IInv, RecvInv, FlowOK
      <4> QED BY <4>2, MadePacketOK DEF IInv
    <3> QED BY <3>1, <3>2
  <2> QED BY <2>1, <2>2, <2>4 DEF TypeOK, KeepOK
<1> QED BY <1>1, Inductive, KeepInv, PTL

\* Whatever the fabric loses or reorders, each packet read is in exactly one row
\* or in the flow under way, each row is a run of consecutive request ids, and
\* only a packet that breaks the last flow is dropped.
THEOREM StreamSegmented == Spec => []Segmentation
<1>1. IInv => Segmentation
  <2> SUFFICES ASSUME IInv PROVE Segmentation
    OBVIOUS
  <2>1. /\ rows \in Seq(RowSet) /\ taken \in Seq(Packet) /\ running \in BOOLEAN
        /\ st \in Flow /\ st.cnt \in Nat /\ st.first.req \in Nat
    BY FlowAssumption DEF IInv, RecvInv, SegInv, RowsOK, Flow, Packet
  <2>2. Written(rows) \in Seq(Int)
    BY <2>1, RunsType
  <2> DEFINE Covered == FlattenSeq([k \in DOMAIN (rows \o Open) |-> Run((rows \o Open)[k])])
  <2>3. CASE running /\ st.cnt > 0
    <3>1. rows \o Open = Append(rows, st)
      BY <2>1, <2>3 DEF Open
    <3>2. Covered = Written(rows) \o Run(st)
      BY <2>1, <3>1, WrittenAppend
    <3> QED BY <2>3, <3>2 DEF Segmentation, IInv, SegInv, ReadIds
  <2>4. CASE ~(running /\ st.cnt > 0)
    <3>1. rows \o Open = rows
      BY <2>1, <2>4 DEF Open
    <3>2. Covered = Written(rows)
      BY <3>1 DEF Written, Runs
    <3>3. CASE running
      <4>1. st.cnt = 0
        BY <2>1, <2>4, <3>3
      <4>2. Run(st) = << >>
        <5>1. Run(st) = [n \in 1..0 |-> st.first.req + n - 1]
          BY <4>1 DEF Run
        <5> QED BY <5>1
      <4>3. Written(rows) = ReadIds
        BY <2>2, <3>3, <4>2 DEF IInv, SegInv
      <4> QED BY <3>2, <4>3 DEF Segmentation, ReadIds
    <3>4. CASE ~running
      BY <3>2, <3>4 DEF Segmentation, IInv, SegInv, ReadIds, Last, Front
    <3> QED BY <3>3, <3>4
  <2> QED BY <2>3, <2>4
<1> QED BY <1>1, Inductive, PTL

\* A row is complete exactly when it has all the packets of its flow, flow ids
\* have no holes, there are at most flow_count rows and only the last is partial.
THEOREM RowsAreJustified == Spec => []RowsJustified
<1>1. IInv => RowsJustified
  <2> SUFFICES ASSUME IInv PROVE RowsJustified
    OBVIOUS
  <2>1. /\ RowsOK(rows) /\ (running => NoPartial(rows)) /\ running \in BOOLEAN
        /\ \A k \in DOMAIN rows : rows[k].outcome = "partial" => k = Len(rows)
    BY DEF IInv, RecvInv
  <2>2. Len(rows) <= FlowCount
    BY <2>1 DEF RowsOK
  <2>3. ASSUME NEW k \in DOMAIN rows
        PROVE  /\ rows[k].flow = k
               /\ rows[k].outcome = "complete" <=> rows[k].cnt = Expected
               /\ rows[k].outcome = "partial" => k = Len(rows) /\ ~running
               /\ rows[k].last.req = rows[k].first.req + rows[k].cnt - 1
    BY <2>1 DEF RowsOK, RowOK, NoPartial
  <2> QED BY <2>2, <2>3 DEF RowsJustified
<1> QED BY <1>1, Inductive, PTL

\* A flow completion time in a row is the true time or 0, also when a timestamp
\* wraps between the first packet of a flow and the last.
THEOREM FctIsTrueOrZero == Spec => []FctTrueOrZero
<1>1. IInv => FctTrueOrZero
  BY DEF IInv, RecvInv, RowsOK, RowOK, FctTrueOrZero
<1> QED BY <1>1, Inductive, PTL
=============================================================================
