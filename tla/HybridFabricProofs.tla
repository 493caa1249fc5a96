------------------------- MODULE HybridFabricProofs -------------------------
(***************************************************************************)
(* Theorems about HybridFabric, for every number of leaves and slots and   *)
(* every bound.                                                            *)
(***************************************************************************)
EXTENDS HybridFabric, Integers, SequenceTheorems, TLAPS

-----------------------------------------------------------------------------
(* The rotation.                                                           *)

\* Two numbers less than n apart have different remainders.
LEMMA ModDistinct ==
  ASSUME NEW n \in Nat \ {0}, NEW a \in Nat, NEW b \in Nat, a < b, b < a + n
  PROVE  a % n # b % n
<1>1. a = n * (a \div n) + (a % n) /\ b = n * (b \div n) + (b % n)
  OBVIOUS
<1>2. a \div n \in Int /\ b \div n \in Int /\ a % n \in Int /\ b % n \in Int
  OBVIOUS
<1>3. SUFFICES ASSUME a % n = b % n PROVE FALSE
  OBVIOUS
<1>4. PICK d \in Int : d = (b \div n) - (a \div n)
  BY <1>2
<1>5. b - a = n * d
  BY <1>1, <1>2, <1>3, <1>4
<1>6. d > 0
  BY <1>4, <1>5
<1>7. n * d >= n
  BY <1>4, <1>6
<1> QED BY <1>5, <1>7

LEMMA ModRange ==
  ASSUME NEW n \in Nat \ {0}, NEW a \in Nat
  PROVE  a % n \in 0..(n - 1)
OBVIOUS

\* A port is switched onto a port, two ports never onto the same one.
LEMMA RotateInjective ==
  ASSUME NEW i \in 1..NumOptical, NEW j \in 1..NumOptical, NEW s \in Nat, i # j
  PROVE  Rotate(i, s) \in 1..NumOptical /\ Rotate(i, s) # Rotate(j, s)
<1>1. NumOptical \in Nat \ {0} /\ i + s \in Nat /\ j + s \in Nat
  BY SizeAssumption
<1>2. (i + s) % NumOptical \in 0..(NumOptical - 1) /\ (j + s) % NumOptical \in 0..(NumOptical - 1)
  BY <1>1, ModRange
<1>3. (i + s) % NumOptical # (j + s) % NumOptical
  <2> DEFINE a == i + s
             b == j + s
  <2>1. a \in Nat /\ b \in Nat /\ a # b /\ a < b + NumOptical /\ b < a + NumOptical
    BY <1>1
  <2>2. a % NumOptical # b % NumOptical
    <3> HIDE DEF a, b
    <3>1. CASE a < b
      BY <1>1, <2>1, <3>1, ModDistinct
    <3>2. CASE b < a
      BY <1>1, <2>1, <3>2, ModDistinct
    <3> QED BY <2>1, <3>1, <3>2
  <2> QED BY <2>2
<1> QED BY <1>1, <1>2, <1>3 DEF Rotate

LEMMA MatchingHolds == NumSlots \in Nat => Matching
<1> SUFFICES ASSUME NumSlots \in Nat, NEW s \in 0..(NumSlots - 1),
                    NEW i \in 1..NumOptical, NEW j \in 1..NumOptical,
                    i # j, OcsOut(i, s) = OcsOut(j, s), OcsOut(i, s) # NoPort
             PROVE  FALSE
  BY DEF Matching
<1>1. Opt(Rotate(i, s)) = Opt(Rotate(j, s))
  BY DEF OcsOut
<1>2. Rotate(i, s) = Rotate(j, s)
  BY <1>1 DEF Opt, Port
<1> QED BY <1>2, RotateInjective

\* In no slot, and with no partly filled table, do two optical ports share an
\* output, for every number of ports and slots.
THEOREM MatchingTheorem == Spec => []Matching
<1>1. Matching
  BY MatchingHolds, SizeAssumption
<1> QED BY <1>1, PTL

\* A rotation of as many slots as there are ports brings every port onto
\* every other one in exactly one slot.
THEOREM EveryPairOnce ==
  ASSUME NEW i \in 1..NumOptical, NEW j \in 1..NumOptical, NumSlots = NumOptical
  PROVE  \E s \in 0..(NumSlots - 1) :
           /\ Rotate(i, s) = j
           /\ \A r \in 0..(NumSlots - 1) : Rotate(i, r) = j => r = s
<1>0. NumOptical \in Nat \ {0} /\ i \in 1..NumOptical /\ j \in 1..NumOptical
  BY SizeAssumption
<1> DEFINE s == IF i <= j - 1 THEN j - 1 - i ELSE j - 1 - i + NumOptical
<1>1. s \in 0..(NumSlots - 1)
  BY <1>0
<1>2. Rotate(i, s) = j
  <2>1. CASE i <= j - 1
    BY <1>0, <1>1, <2>1 DEF Rotate
  <2>2. CASE ~(i <= j - 1)
    <3>1. i + s = NumOptical + (j - 1)
      BY <1>0, <1>1, <2>2
    <3>2. (NumOptical + (j - 1)) % NumOptical = j - 1
      BY <1>0
    <3> QED BY <1>0, <3>1, <3>2 DEF Rotate
  <2> QED BY <2>1, <2>2
<1>3. ASSUME NEW r \in 0..(NumSlots - 1), Rotate(i, r) = j PROVE r = s
  <2>1. (i + r) % NumOptical = (i + s) % NumOptical
    <3>1. (i + r) % NumOptical \in Int /\ (i + s) % NumOptical \in Int
      BY <1>0, <1>1, ModRange
    <3> QED BY <1>2, <1>3, <3>1 DEF Rotate
  <2> DEFINE a == i + r
             b == i + s
  <2>2. a \in Nat /\ b \in Nat /\ a < b + NumOptical /\ b < a + NumOptical
    BY <1>0, <1>1
  <2>3. a = b
    <3> HIDE DEF a, b
    <3>1. ~(a < b)
      BY <1>0, <2>1, <2>2, ModDistinct DEF a, b
    <3>2. ~(b < a)
      BY <1>0, <2>1, <2>2, ModDistinct DEF a, b
    <3> QED BY <2>2, <3>1, <3>2
  <2> QED BY <1>0, <1>1, <2>3
<1> QED BY <1>1, <1>2, <1>3

-----------------------------------------------------------------------------
(* The tables' contents.                                                   *)

LEMMA SeqOfFunction ==
  ASSUME NEW S, NEW k \in Nat, NEW f \in [1..k -> S]
  PROVE  f \in Seq(S) /\ Len(f) = k
OBVIOUS

LEMMA DivNat ==
  ASSUME NEW n \in Nat, NEW k \in Nat, k > 0
  PROVE  n \div k \in Nat
OBVIOUS

LEMMA DigitRange ==
  ASSUME NEW n \in Nat, n > 0, NEW weight \in Nat, weight > 0, NEW base \in Nat, base > 0
  PROVE  Digit(n, weight, base) \in 1..base
<1>1. (n - 1) \div weight \in Nat
  OBVIOUS
<1>2. ((n - 1) \div weight) % base \in 0..(base - 1)
  BY <1>1, ModRange
<1> QED BY <1>2 DEF Digit

\* Ports between leaf and spine.
Inner == SpinePorts \union {Uplink(l, s) : l \in 1..NumLeaves, s \in 1..2}

\* Nobody is hosted between leaf and spine, and no cable leads out of there.
LEMMA InnerApart == Inner \intersect Hosted = {} /\ \A p \in Inner : Peer(p) \in Inner
<1> USE SizeAssumption DEF Inner, Port
<1>1. ASSUME NEW p \in SpinePorts
      PROVE  p \notin Hosted /\ Peer(p) \in Inner
  <2>1. PICK s \in 1..2, l \in 1..NumLeaves : p = Port("spine", s, l)
    BY DEF SpinePorts
  <2>2. p \notin Hosted
    BY <2>1 DEF Hosted, Downlinks, Downlink, OptPorts, Opt
  <2>3. Peer(p) = Uplink(l, s)
    BY <2>1 DEF Peer
  <2> QED BY <2>2, <2>3
<1>2. ASSUME NEW l \in 1..NumLeaves, NEW s \in 1..2
      PROVE  Uplink(l, s) \notin Hosted /\ Peer(Uplink(l, s)) \in Inner
  <2>1. Uplink(l, s).pos \in {1, 3} /\ Uplink(l, s).tier = "leaf"
    BY DEF Uplink
  <2>2. \A q \in Hosted : q.tier = "leaf" => q.pos \in {2, 4}
    BY DEF Hosted, Downlinks, Downlink, OptPorts, Opt
  <2>3. (Uplink(l, s).pos + 1) \div 2 = s
    BY DEF Uplink
  <2>4. Peer(Uplink(l, s)) = Port("spine", s, l)
    BY <2>3 DEF Peer, Uplink
  <2>5. Port("spine", s, l) \in SpinePorts
    BY DEF SpinePorts
  <2> QED BY <2>1, <2>2, <2>4, <2>5
<1> QED BY <1>1, <1>2

\* The timestamp tables have an entry for every hosted port, and no other.
LEMMA NicOrderHosted ==
  /\ NicOrder \in Seq(Hosted)
  /\ Len(NicOrder) = 4 * NumLeaves
  /\ \A p \in Hosted : \E n \in 1..Len(NicOrder) : NicOrder[n] = p
<1> USE SizeAssumption
<1>1. ASSUME NEW n \in 1..(4 * NumLeaves)
      PROVE  Digit(n, 2, 2 * NumLeaves) \in Fpgas
  <2>1. n \in Nat /\ n > 0 /\ 2 * NumLeaves \in Nat /\ 2 * NumLeaves > 0
    OBVIOUS
  <2> QED BY <2>1, DigitRange DEF Fpgas
<1>2. \A f \in Fpgas : Downlink(f) \in Hosted /\ Opt(f) \in Hosted
  BY DEF Hosted, Downlinks, OptPorts, Fpgas
<1>3. NicOrder \in [1..(4 * NumLeaves) -> Hosted]
  BY <1>1, <1>2 DEF NicOrder
<1>4. NicOrder \in Seq(Hosted) /\ Len(NicOrder) = 4 * NumLeaves
  BY <1>3
<1>5. ASSUME NEW f \in Fpgas
      PROVE  /\ \E n \in 1..Len(NicOrder) : NicOrder[n] = Downlink(f)
             /\ \E n \in 1..Len(NicOrder) : NicOrder[n] = Opt(f)
  <2>1. f \in 1..(2 * NumLeaves)
    BY DEF Fpgas
  <2>2. /\ (2 * f - 2) \div 2 = f - 1 /\ (2 * f - 1) \div 2 = f - 1
        /\ (2 * f - 1) % 2 = 1 /\ (2 * f) % 2 = 0
    BY <2>1
  <2>3. (f - 1) % (2 * NumLeaves) = f - 1
    BY <2>1
  <2>4. Digit(2 * f - 1, 2, 2 * NumLeaves) = f /\ Digit(2 * f, 2, 2 * NumLeaves) = f
    BY <2>1, <2>2, <2>3 DEF Digit
  <2>5. NicOrder[2 * f - 1] = Downlink(f) /\ NicOrder[2 * f] = Opt(f)
    BY <2>1, <2>2, <2>4 DEF NicOrder
  <2> QED BY <1>4, <2>1, <2>5
<1>6. \A p \in Hosted : \E f \in Fpgas : p = Downlink(f) \/ p = Opt(f)
  BY DEF Hosted, Downlinks, OptPorts, Fpgas
<1> QED BY <1>4, <1>5, <1>6

\* The three loop nests of the electrical table.
NumFpgas == 2 * NumLeaves
DownlinkKeys ==
  [n \in 1..(NumFpgas * NumFpgas) |-> <<Downlink(Digit(n, NumFpgas, NumFpgas)), Downlink(Digit(n, 1, NumFpgas))>>]
SpineKeys ==
  [n \in 1..(NumFpgas * NumFpgas) |->
    <<Port("spine", Digit(n, NumLeaves * NumFpgas, 2), Digit(n, NumFpgas, NumLeaves)), Downlink(Digit(n, 1, NumFpgas))>>]
UplinkKeys ==
  [n \in 1..(2 * NumFpgas) |->
    LET l == Digit(n, 4, NumLeaves)
    IN  <<Uplink(l, Digit(n, 2, 2)), Downlink(2 * l - 2 + Digit(n, 1, 2))>>]
EpsKeys == (Downlinks \union Inner) \X Downlinks

LEMMA SizesOfNests ==
  /\ NumLeaves \in Nat /\ NumLeaves > 0 /\ NumFpgas \in Nat /\ NumFpgas > 0
  /\ NumFpgas * NumFpgas \in Nat /\ NumFpgas * NumFpgas > 0
  /\ NumLeaves * NumFpgas \in Nat /\ NumLeaves * NumFpgas > 0
  /\ 2 * NumFpgas \in Nat
BY SizeAssumption DEF NumFpgas

LEMMA EpsNests ==
  /\ DownlinkKeys \in Seq(EpsKeys) /\ Len(DownlinkKeys) = NumFpgas * NumFpgas
  /\ SpineKeys \in Seq(EpsKeys) /\ Len(SpineKeys) = NumFpgas * NumFpgas
  /\ UplinkKeys \in Seq(EpsKeys) /\ Len(UplinkKeys) = 2 * NumFpgas
<1>1. \A f \in 1..NumFpgas : Downlink(f) \in Downlinks
  BY DEF Downlinks, Fpgas, NumFpgas
<1>2. \A n \in Nat : n > 0 => Digit(n, 1, NumFpgas) \in 1..NumFpgas /\ Digit(n, NumFpgas, NumFpgas) \in 1..NumFpgas
  BY SizesOfNests, DigitRange
<1>3. DownlinkKeys \in Seq(EpsKeys) /\ Len(DownlinkKeys) = NumFpgas * NumFpgas
  <2>1. DownlinkKeys \in [1..(NumFpgas * NumFpgas) -> EpsKeys]
    BY <1>1, <1>2, SizesOfNests DEF DownlinkKeys, EpsKeys
  <2> QED BY <2>1, SizesOfNests, SeqOfFunction
<1>4. SpineKeys \in Seq(EpsKeys) /\ Len(SpineKeys) = NumFpgas * NumFpgas
  <2>1. \A n \in 1..(NumFpgas * NumFpgas) :
          /\ Digit(n, NumLeaves * NumFpgas, 2) \in 1..2
          /\ Digit(n, NumFpgas, NumLeaves) \in 1..NumLeaves
    <3> TAKE n \in 1..(NumFpgas * NumFpgas)
    <3>0. n \in Nat /\ n > 0
      BY SizesOfNests
    <3>1. Digit(n, NumLeaves * NumFpgas, 2) \in 1..2
      <4>1. n - 1 \in Nat
        BY <3>0
      <4>2. (n - 1) \div (NumLeaves * NumFpgas) \in Nat
        BY SizesOfNests, <4>1, DivNat
      <4> QED BY <4>2 DEF Digit
    <3>2. Digit(n, NumFpgas, NumLeaves) \in 1..NumLeaves
      BY SizesOfNests, <3>0, DigitRange
    <3> QED BY <3>1, <3>2
  <2>2. \A s \in 1..2, l \in 1..NumLeaves : Port("spine", s, l) \in Inner
    BY DEF Inner, SpinePorts
  <2>3. \A n \in 1..(NumFpgas * NumFpgas) :
          <<Port("spine", Digit(n, NumLeaves * NumFpgas, 2), Digit(n, NumFpgas, NumLeaves)),
            Downlink(Digit(n, 1, NumFpgas))>> \in EpsKeys
    <3> TAKE n \in 1..(NumFpgas * NumFpgas)
    <3>1. n \in Nat /\ n > 0
      BY SizesOfNests
    <3>2. Downlink(Digit(n, 1, NumFpgas)) \in Downlinks
      BY <1>1, <1>2, <3>1
    <3> QED BY <2>1, <2>2, <3>2 DEF EpsKeys
  <2>4. SpineKeys \in [1..(NumFpgas * NumFpgas) -> EpsKeys]
    BY <2>3 DEF SpineKeys
  <2> QED BY <2>4, SizesOfNests, SeqOfFunction
<1>5. UplinkKeys \in Seq(EpsKeys) /\ Len(UplinkKeys) = 2 * NumFpgas
  <2>1. ASSUME NEW n \in 1..(2 * NumFpgas)
        PROVE  /\ Digit(n, 4, NumLeaves) \in 1..NumLeaves
               /\ Digit(n, 2, 2) \in 1..2
               /\ 2 * Digit(n, 4, NumLeaves) - 2 + Digit(n, 1, 2) \in 1..NumFpgas
    <3>0. n \in Nat /\ n > 0
      BY SizesOfNests
    <3>1. Digit(n, 4, NumLeaves) \in 1..NumLeaves
      BY SizesOfNests, <3>0, DigitRange
    <3>2. Digit(n, 2, 2) \in 1..2 /\ Digit(n, 1, 2) \in 1..2
      BY <3>0 DEF Digit
    <3> QED BY SizesOfNests, <3>1, <3>2 DEF NumFpgas
  <2>2. \A s \in 1..2, l \in 1..NumLeaves : Uplink(l, s) \in Inner
    BY DEF Inner
  <2>3. UplinkKeys \in [1..(2 * NumFpgas) -> EpsKeys]
    BY <1>1, <2>1, <2>2 DEF UplinkKeys, EpsKeys
  <2> QED BY <2>3, SizesOfNests, SeqOfFunction
<1> QED BY <1>3, <1>4, <1>5

\* Whether all elements of a are elements of c.
Contains(c, a) == \A n \in 1..Len(a) : \E m \in 1..Len(c) : c[m] = a[n]

LEMMA OneAfterTheOther ==
  ASSUME NEW S, NEW a \in Seq(S), NEW b \in Seq(S)
  PROVE  /\ a \o b \in Seq(S) /\ Len(a \o b) = Len(a) + Len(b)
         /\ Contains(a \o b, a) /\ Contains(a \o b, b)
<1>1. Len(a) \in Nat /\ Len(b) \in Nat
  OBVIOUS
<1>2. /\ a \o b \in Seq(S) /\ Len(a \o b) = Len(a) + Len(b)
      /\ \A i \in 1..(Len(a) + Len(b)) : (a \o b)[i] = IF i <= Len(a) THEN a[i] ELSE b[i - Len(a)]
  BY ConcatProperties
<1>3. ASSUME NEW n \in 1..Len(a) PROVE n \in 1..Len(a \o b) /\ (a \o b)[n] = a[n]
  BY <1>1, <1>2
<1>4. ASSUME NEW n \in 1..Len(b) PROVE Len(a) + n \in 1..Len(a \o b) /\ (a \o b)[Len(a) + n] = b[n]
  <2>1. Len(a) + n \in 1..(Len(a) + Len(b)) /\ ~(Len(a) + n <= Len(a)) /\ Len(a) + n - Len(a) = n
    BY <1>1
  <2> QED BY <1>2, <2>1
<1> QED BY <1>2, <1>3, <1>4 DEF Contains

\* Electrical entries are for frames on a leaf's or a spine's port to a downlink,
\* and have the keys of all three nests.
LEMMA EpsOrderKeys ==
  /\ EpsOrder \in Seq((Downlinks \union Inner) \X Downlinks) /\ Len(EpsOrder) > 0
  /\ \A n \in 1..(NumFpgas * NumFpgas) : \E m \in 1..Len(EpsOrder) : EpsOrder[m] = DownlinkKeys[n]
  /\ \A n \in 1..(NumFpgas * NumFpgas) : \E m \in 1..Len(EpsOrder) : EpsOrder[m] = SpineKeys[n]
  /\ \A n \in 1..(2 * NumFpgas) : \E m \in 1..Len(EpsOrder) : EpsOrder[m] = UplinkKeys[n]
<1> DEFINE ab == DownlinkKeys \o SpineKeys
<1>1. EpsOrder = ab \o UplinkKeys
  BY DEF EpsOrder, DownlinkKeys, SpineKeys, UplinkKeys, NumFpgas
<1>2. /\ ab \in Seq(EpsKeys) /\ Len(ab) = Len(DownlinkKeys) + Len(SpineKeys)
      /\ Contains(ab, DownlinkKeys) /\ Contains(ab, SpineKeys)
  BY EpsNests, OneAfterTheOther
<1> HIDE DEF ab
<1>3. /\ EpsOrder \in Seq(EpsKeys) /\ Len(EpsOrder) = Len(ab) + Len(UplinkKeys)
      /\ Contains(EpsOrder, ab) /\ Contains(EpsOrder, UplinkKeys)
  BY <1>1, <1>2, EpsNests, OneAfterTheOther
<1>4. Contains(EpsOrder, DownlinkKeys) /\ Contains(EpsOrder, SpineKeys)
  BY <1>2, <1>3 DEF Contains
<1>5. Len(EpsOrder) > 0
  BY <1>2, <1>3, EpsNests, SizesOfNests
<1> QED BY <1>3, <1>4, <1>5, EpsNests DEF EpsKeys, Contains

\* The digits of a number written with a last digit r.
LEMMA DivMod ==
  ASSUME NEW w \in Nat, w > 0, NEW q \in Nat, NEW r \in 0..(w - 1), NEW n, n = q * w + r
  PROVE  n \div w = q /\ n % w = r
<1> DEFINE d == n \div w
           m == n % w
<1>1. q * w \in Nat /\ n \in Nat
  OBVIOUS
<1>2. d \in Int /\ m \in 0..(w - 1) /\ n = w * d + m
  BY <1>1
<1> HIDE DEF d, m
<1>3. n = w * q + r
  BY <1>1
<1>4. w * (d - q) = r - m
  BY <1>2, <1>3
<1>5. r - m < w /\ r - m > -w
  BY <1>2
<1>6. d - q = 0
  <2> DEFINE e == d - q
  <2>1. e \in Int /\ w * e < w /\ w * e > -w
    BY <1>2, <1>4, <1>5
  <2> HIDE DEF e
  <2>2. ~(e >= 1)
    <3> SUFFICES ASSUME e >= 1 PROVE w * e >= w
      BY <2>1
    <3> QED BY <2>1
  <2>3. ~(e <= -1)
    <3> SUFFICES ASSUME e <= -1 PROVE w * e <= -w
      BY <2>1
    <3> QED BY <2>1
  <2>4. e = 0
    BY <2>1, <2>2, <2>3
  <2> QED BY <2>4 DEF e
<1>7. d = q /\ m = r
  BY <1>2, <1>3, <1>6
<1> QED BY <1>7 DEF d, m

\* The complete table has an entry for every electrical interface from every
\* electrical interface and spine port, and from the uplinks of its own leaf.
LEMMA EpsOrderComplete ==
  ASSUME NEW mac \in Downlinks
  PROVE  /\ \A p \in Downlinks \union SpinePorts : \E n \in 1..Len(EpsOrder) : EpsOrder[n] = <<p, mac>>
         /\ \A s \in 1..2 : \E n \in 1..Len(EpsOrder) : EpsOrder[n] = <<Uplink(mac.id, s), mac>>
<1> USE SizesOfNests
<1>1. PICK f \in 1..NumFpgas : mac = Downlink(f)
  BY DEF Downlinks, Fpgas, NumFpgas
<1>2. ASSUME NEW g \in 1..NumFpgas
      PROVE  \E n \in 1..Len(EpsOrder) : EpsOrder[n] = <<Downlink(g), mac>>
  <2> DEFINE n == (g - 1) * NumFpgas + f
  <2>0. g - 1 \in Nat /\ f - 1 \in 0..(NumFpgas - 1)
    OBVIOUS
  <2>1. n - 1 = (g - 1) * NumFpgas + (f - 1) /\ n - 1 \in Nat /\ n >= 1
    <3>1. (g - 1) * NumFpgas \in Nat
      BY <2>0
    <3> QED BY <2>0, <3>1
  <2>2. n \in 1..(NumFpgas * NumFpgas)
    <3>1. (g - 1) * NumFpgas <= (NumFpgas - 1) * NumFpgas
      BY <2>0
    <3>2. (NumFpgas - 1) * NumFpgas = NumFpgas * NumFpgas - NumFpgas
      OBVIOUS
    <3>3. (g - 1) * NumFpgas \in Nat
      BY <2>0
    <3> QED BY <2>0, <3>1, <3>2, <3>3
  <2> HIDE DEF n
  <2>3. (n - 1) \div NumFpgas = g - 1 /\ (n - 1) % NumFpgas = f - 1
    <3> DEFINE k == n - 1
    <3>1. k = (g - 1) * NumFpgas + (f - 1)
      BY <2>1
    <3> HIDE DEF k
    <3>2. k \div NumFpgas = g - 1 /\ k % NumFpgas = f - 1
      BY <2>0, <3>1, DivMod
    <3> QED BY <3>2 DEF k
  <2>4. (g - 1) % NumFpgas = g - 1 /\ (n - 1) \div 1 = n - 1
    BY <2>1
  <2>5. Digit(n, NumFpgas, NumFpgas) = g /\ Digit(n, 1, NumFpgas) = f
    BY <2>3, <2>4 DEF Digit
  <2>6. DownlinkKeys[n] = <<Downlink(g), mac>>
    BY <1>1, <2>2, <2>5 DEF DownlinkKeys
  <2> QED BY <2>2, <2>6, EpsOrderKeys
<1>3. ASSUME NEW s \in 1..2, NEW l \in 1..NumLeaves
      PROVE  \E n \in 1..Len(EpsOrder) : EpsOrder[n] = <<Port("spine", s, l), mac>>
  <2> DEFINE w == NumLeaves * NumFpgas
             c == (s - 1) * NumLeaves + (l - 1)
             n == c * NumFpgas + f
  <2>0. /\ s - 1 \in 0..1 /\ l - 1 \in 0..(NumLeaves - 1) /\ f - 1 \in 0..(NumFpgas - 1)
        /\ (s - 1) * NumLeaves \in Nat /\ c \in Nat /\ c * NumFpgas \in Nat
    <3>1. s - 1 \in 0..1 /\ l - 1 \in 0..(NumLeaves - 1) /\ f - 1 \in 0..(NumFpgas - 1)
      OBVIOUS
    <3>2. (s - 1) * NumLeaves \in Nat
      BY <3>1
    <3>3. c \in Nat
      BY <3>1, <3>2
    <3>4. c * NumFpgas \in Nat
      <4> HIDE DEF c
      <4> QED BY <3>3
    <3> QED BY <3>1, <3>2, <3>3, <3>4
  <2> DEFINE r == (l - 1) * NumFpgas + (f - 1)
  <2>1. n - 1 = c * NumFpgas + (f - 1) /\ n - 1 \in Nat /\ n >= 1
    <3> HIDE DEF c
    <3> QED BY <2>0
  <2>2. r \in 0..(w - 1) /\ w \in Nat /\ w > 0
    <3>1. (l - 1) * NumFpgas <= (NumLeaves - 1) * NumFpgas /\ (l - 1) * NumFpgas \in Nat
      BY <2>0
    <3>2. (NumLeaves - 1) * NumFpgas = w - NumFpgas
      OBVIOUS
    <3> HIDE DEF w
    <3>3. r \in Nat /\ w \in Nat /\ w > 0
      BY <2>0, <3>1 DEF w
    <3> QED BY <2>0, <3>1, <3>2, <3>3
  <2>3. n - 1 = (s - 1) * w + r
    <3>1. c * NumFpgas = ((s - 1) * NumLeaves) * NumFpgas + (l - 1) * NumFpgas
      BY <2>0
    <3>2. ((s - 1) * NumLeaves) * NumFpgas = (s - 1) * w
      BY <2>0
    <3> HIDE DEF c, w
    <3> QED BY <2>0, <2>1, <2>2, <3>1, <3>2
  <2>4. n \in 1..(NumFpgas * NumFpgas)
    <3>1. (s - 1) * w <= w
      <4> HIDE DEF w
      <4> QED BY <2>0, <2>2
    <3>2. w + w = NumFpgas * NumFpgas
      BY DEF NumFpgas
    <3>3. n - 1 <= w + (w - 1)
      <4> HIDE DEF w, r, n
      <4> QED BY <2>0, <2>1, <2>2, <2>3, <3>1
    <3> DEFINE N == NumFpgas * NumFpgas
    <3>4. n >= 1 /\ n - 1 \in Nat /\ n - 1 <= w + (w - 1) /\ w + w = N /\ w \in Nat
      BY <2>1, <2>2, <3>2, <3>3
    <3> HIDE DEF w, n, N
    <3>5. n \in Int
      BY <2>1 DEF n
    <3>6. n \in 1..N
      BY <3>4, <3>5
    <3> QED BY <3>6 DEF N
  <2> DEFINE k == n - 1
  <2> HIDE DEF n, c, r, w
  <2>5. (n - 1) \div w = s - 1
    <3>1. k = (s - 1) * w + r /\ s - 1 \in Nat
      BY <2>0, <2>3
    <3> HIDE DEF k
    <3>2. k \div w = s - 1
      BY <2>2, <3>1, DivMod
    <3> QED BY <3>2 DEF k
  <2>6. (n - 1) \div NumFpgas = c /\ (n - 1) % NumFpgas = f - 1
    <3>1. k = c * NumFpgas + (f - 1) /\ c \in Nat
      BY <2>0, <2>1
    <3> HIDE DEF k
    <3>2. k \div NumFpgas = c /\ k % NumFpgas = f - 1
      BY <2>0, <3>1, DivMod
    <3> QED BY <3>2 DEF k
  <2>7. c % NumLeaves = l - 1
    BY <2>0, DivMod DEF c
  <2>8. (s - 1) % 2 = s - 1 /\ (n - 1) \div 1 = n - 1
    BY <2>0, <2>1
  <2>9. /\ Digit(n, w, 2) = s /\ Digit(n, NumFpgas, NumLeaves) = l
        /\ Digit(n, 1, NumFpgas) = f
    BY <2>5, <2>6, <2>7, <2>8 DEF Digit
  <2>10. SpineKeys[n] = <<Port("spine", s, l), mac>>
    BY <1>1, <2>4, <2>9 DEF SpineKeys, w
  <2> QED BY <2>4, <2>10, EpsOrderKeys
<1>4. ASSUME NEW s \in 1..2
      PROVE  \E n \in 1..Len(EpsOrder) : EpsOrder[n] = <<Uplink(mac.id, s), mac>>
  <2> DEFINE l == mac.id
             k == f - (2 * l - 2)
             n == 4 * (l - 1) + 2 * (s - 1) + k
  <2>1. l = (f + 1) \div 2
    BY <1>1 DEF Downlink, Port
  <2>2. l \in 1..NumLeaves /\ k \in 1..2
    BY <2>1 DEF NumFpgas
  <2> HIDE DEF l, k
  <2>3. n \in 1..(2 * NumFpgas)
    BY <2>2 DEF NumFpgas
  <2>4. (n - 1) \div 4 = l - 1 /\ ((n - 1) \div 2) % 2 = s - 1 /\ (n - 1) % 2 = k - 1 /\ (n - 1) \div 1 = n - 1
    BY <2>2
  <2>5. (l - 1) % NumLeaves = l - 1
    BY <2>2
  <2> HIDE DEF n
  <2>6. Digit(n, 4, NumLeaves) = l /\ Digit(n, 2, 2) = s /\ Digit(n, 1, 2) = k
    BY <2>2, <2>3, <2>4, <2>5 DEF Digit
  <2>7. 2 * l - 2 + k = f
    BY <2>2 DEF k
  <2>8. UplinkKeys[n] = <<Uplink(l, s), Downlink(f)>>
    BY <2>3, <2>6, <2>7 DEF UplinkKeys
  <2> QED BY <1>1, <2>3, <2>8, EpsOrderKeys DEF l
<1>5. ASSUME NEW p \in Downlinks \union SpinePorts
      PROVE  \E n \in 1..Len(EpsOrder) : EpsOrder[n] = <<p, mac>>
  <2>1. CASE p \in Downlinks
    <3>1. PICK g \in 1..NumFpgas : p = Downlink(g)
      BY <2>1 DEF Downlinks, Fpgas, NumFpgas
    <3> QED BY <1>2, <3>1
  <2>2. CASE p \in SpinePorts
    <3>1. PICK s \in 1..2, l \in 1..NumLeaves : p = Port("spine", s, l)
      BY <2>2 DEF SpinePorts
    <3> QED BY <1>3, <3>1
  <2> QED BY <2>1, <2>2
<1> QED BY <1>4, <1>5

LEMMA OrderOf ==
  /\ Order("t_set_port_kind") = PortOrder /\ Order("t_eps_forward") = EpsOrder
  /\ Order("t_ocs_schedule") = OcsOrder
  /\ Order("t_meas_ingress") = NicOrder /\ Order("t_meas_egress") = NicOrder
BY DEF Order

LEMMA Sizes == \A t \in Tables : Size(t) \in Nat /\ Size(t) > 0
<1>1. Len(NicOrder) \in Nat /\ Len(NicOrder) > 0
  BY NicOrderHosted, SizeAssumption
<1>2. Len(EpsOrder) \in Nat /\ Len(EpsOrder) > 0
  BY EpsOrderKeys, LenProperties
<1>3. Len(OcsOrder) \in Nat /\ Len(OcsOrder) > 0
  <2> DEFINE k == NumSlots * NumOptical
             E(n) == <<Digit(n, 1, NumOptical), Digit(n, NumOptical, NumSlots) - 1>>
             K == {E(n) : n \in 1..k}
  <2>1. k \in Nat /\ k > 0
    BY SizeAssumption
  <2>2. OcsOrder \in [1..k -> K]
    BY DEF OcsOrder
  <2> HIDE DEF k, K
  <2> QED BY <2>1, <2>2, SeqOfFunction
<1>4. Len(PortOrder) \in Nat /\ Len(PortOrder) > 0
  <2> DEFINE A == [n \in 1..(4 * NumLeaves) |-> Port("leaf", Digit(n, 4, NumLeaves), Digit(n, 1, 4))]
             B == [n \in 1..(2 * NumLeaves) |-> Port("spine", Digit(n, NumLeaves, 2), Digit(n, 1, NumLeaves))]
             C == [n \in 1..NumOptical |-> Opt(n)]
             S == {A[n] : n \in 1..(4 * NumLeaves)} \union {B[n] : n \in 1..(2 * NumLeaves)}
                    \union {C[n] : n \in 1..NumOptical}
  <2>1. NumLeaves \in Nat /\ NumLeaves > 0 /\ NumOptical \in Nat /\ NumOptical > 0
    BY SizeAssumption
  <2>2. A \in [1..(4 * NumLeaves) -> S] /\ B \in [1..(2 * NumLeaves) -> S] /\ C \in [1..NumOptical -> S]
    OBVIOUS
  <2>3. PortOrder = (A \o B) \o C
    BY DEF PortOrder
  <2> HIDE DEF A, B, C, S
  <2>4. 4 * NumLeaves \in Nat /\ 2 * NumLeaves \in Nat
    BY <2>1
  <2>5. A \in Seq(S) /\ Len(A) = 4 * NumLeaves
    BY <2>2, <2>4, SeqOfFunction
  <2>6. B \in Seq(S) /\ Len(B) = 2 * NumLeaves
    BY <2>2, <2>4, SeqOfFunction
  <2>7. C \in Seq(S) /\ Len(C) = NumOptical
    BY <2>1, <2>2, SeqOfFunction
  <2>8. A \o B \in Seq(S) /\ Len(A \o B) = 4 * NumLeaves + 2 * NumLeaves
    <3>1. Len(A \o B) = Len(A) + Len(B)
      BY <2>5, <2>6, ConcatProperties
    <3> QED BY <2>5, <2>6, <3>1
  <2>9. Len(PortOrder) = (4 * NumLeaves + 2 * NumLeaves) + NumOptical
    BY <2>3, <2>7, <2>8, ConcatProperties
  <2> QED BY <2>1, <2>9
<1> QED BY <1>1, <1>2, <1>3, <1>4, OrderOf DEF Tables, Size

-----------------------------------------------------------------------------
(* The inductive invariant.                                                *)

MeasTables == {"t_meas_ingress", "t_meas_egress"}

\* No table has too many entries, the timestamp tables keep step, and they are
\* complete when the last run of their script was.
ScriptInv ==
  /\ filled \in [Tables -> Nat]
  /\ \A t \in Tables : filled[t] <= Size(t) /\ (pc = Filling(t) => filled[t] < Size(t))
  /\ pc \in {Idle} \union {Clearing(t) : t \in Tables} \union {Filling(t) : t \in Tables}
  /\ pc = Clearing("t_meas_egress") => filled["t_meas_ingress"] = 0
  /\ pc = Filling("t_meas_ingress") => filled["t_meas_ingress"] = filled["t_meas_egress"]
  /\ pc = Filling("t_meas_egress")  => filled["t_meas_ingress"] = filled["t_meas_egress"] + 1
  /\ runs \in 0..MaxRuns /\ done \subseteq Scripts /\ slot \in 0..(NumSlots - 1)
  /\ "meas" \in done => \A t \in MeasTables :
       filled[t] = Size(t) /\ pc # Clearing(t) /\ pc # Filling(t)

Frames ==
  [state : {"none", "arrived", "queued", "dropped", "delivered"}, at : Ports \union {NoPort},
   src : Hosted \union {NoPort}, dst : Downlinks \union {OtherMac}, hops : Nat, ts4 : {0, 1},
   ts5 : Nat, stable : SUBSET Scripts]

\* A frame is at a hosted port first and last and at inner ports between, and
\* has the stamps it is owed so far.
FrameInv ==
  /\ frame \in Frames /\ frame.stable \subseteq done
  /\ frame.state = "arrived" /\ frame.hops = 0 => frame.at \in Hosted
  /\ frame.state = "arrived" /\ frame.hops # 0 =>
       frame.at \in Inner /\ ("meas" \in frame.stable => frame.ts4 # 0)
  /\ frame.state = "queued" =>
       frame.at \in Hosted \union Inner /\ ("meas" \in frame.stable => frame.ts4 # 0)
  /\ frame.state # "delivered" => frame.ts5 = 0
  /\ frame.state = "delivered" =>
       frame.ts5 \in {0, frame.hops + 1} /\ ("meas" \in frame.stable => frame.ts4 # 0 /\ frame.ts5 # 0)

IInv == ScriptInv /\ FrameInv

\* The timestamp tables stamp at hosted ports only, and at all of them once complete.
LEMMA MeasEntries ==
  ASSUME ScriptInv, NEW t \in MeasTables, NEW p
  PROVE  /\ Has(t, p) => p \in Hosted
         /\ filled[t] = Size(t) /\ p \in Hosted => Has(t, p)
<1>1. Order(t) = NicOrder /\ Size(t) = Len(NicOrder) /\ t \in Tables
  BY OrderOf DEF MeasTables, Size, Tables
<1>2. filled[t] \in Nat /\ filled[t] <= Len(NicOrder)
  BY <1>1 DEF ScriptInv
<1> QED BY <1>1, <1>2, NicOrderHosted, LenProperties DEF Has

\* An electrical entry sends a frame to a port of the fabric or a downlink.
LEMMA RulePlace ==
  ASSUME NEW p \in Downlinks \union Inner, NEW mac \in Downlinks
  PROVE  EpsRule(p, mac) \in Hosted \union Inner
<1>1. mac.id \in 1..NumLeaves /\ mac \in Hosted
  BY SizeAssumption DEF Downlinks, Downlink, Fpgas, Port, Hosted
<1>2. CASE p \in SpinePorts
  <2>1. p.tier = "spine" /\ p.id \in 1..2
    BY <1>2 DEF SpinePorts, Port
  <2>2. Port("spine", p.id, mac.id) \in SpinePorts
    BY <1>1, <2>1 DEF SpinePorts
  <2> QED BY <2>1, <2>2 DEF EpsRule, Inner
<1>3. CASE p \notin SpinePorts
  <2>1. p.tier = "leaf" /\ p.id \in 1..NumLeaves
    BY <1>3, SizeAssumption DEF Inner, Uplink, Downlinks, Downlink, Fpgas, Port
  <2>2. Uplink(p.id, 1) \in Inner
    BY <2>1 DEF Inner
  <2> QED BY <1>1, <2>1, <2>2 DEF EpsRule
<1> QED BY <1>2, <1>3

\* Wherever a frame is, it leaves by a port of the fabric or a hosted one.
LEMMA OutputPlace ==
  ASSUME ScriptInv, NEW p \in Hosted \union Inner, NEW mac
  PROVE  /\ EpsOut(p, mac) \in Hosted \union Inner \union {NoPort}
         /\ IsOcs(p) => OcsOut(p.pos, slot) \in Hosted \union {NoPort}
<1>1. EpsOut(p, mac) \in Hosted \union Inner \union {NoPort}
  <2> SUFFICES ASSUME Has("t_eps_forward", <<p, mac>>)
               PROVE  EpsRule(p, mac) \in Hosted \union Inner
    BY DEF EpsOut
  <2>1. PICK n \in 1..filled["t_eps_forward"] : EpsOrder[n] = <<p, mac>>
    BY OrderOf DEF Has
  <2>2. n \in 1..Len(EpsOrder)
    BY <2>1, OrderOf, EpsOrderKeys, LenProperties DEF ScriptInv, Size, Tables
  <2>3. <<p, mac>> \in (Downlinks \union Inner) \X Downlinks
    BY <2>1, <2>2, EpsOrderKeys, ElementOfSeq
  <2> QED BY <2>3, RulePlace
<1>2. ASSUME IsOcs(p) PROVE OcsOut(p.pos, slot) \in Hosted \union {NoPort}
  <2>1. p \in OptPorts
    <3>1. p.tier = "opt"
      BY <1>2 DEF IsOcs
    <3>2. p \in Downlinks \/ p \in OptPorts \/ p \in SpinePorts
            \/ p \in {Uplink(l, s) : l \in 1..NumLeaves, s \in 1..2}
      BY DEF Hosted, Inner
    <3> QED BY <3>1, <3>2 DEF Downlinks, Downlink, SpinePorts, Uplink, Port
  <2>2. p.pos \in 1..NumOptical
    BY <2>1 DEF OptPorts, Opt, Port
  <2>3. p.pos + slot \in Nat /\ NumOptical \in Nat \ {0}
    BY <2>2, SizeAssumption DEF ScriptInv
  <2>4. Rotate(p.pos, slot) \in 1..NumOptical
    BY <2>3, ModRange DEF Rotate
  <2> QED BY <2>4 DEF OcsOut, Hosted, OptPorts
<1> QED BY <1>1, <1>2

LEMMA PlacesArePorts == Hosted \union Inner \subseteq Ports
<1>1. \A l \in 1..NumLeaves, s \in 1..2 : Uplink(l, s) \in LeafPorts
  BY DEF Uplink, LeafPorts
<1>2. Downlinks \subseteq LeafPorts
  BY SizeAssumption DEF Downlinks, Downlink, Fpgas, LeafPorts
<1> QED BY <1>1, <1>2 DEF Hosted, Inner, Ports

-----------------------------------------------------------------------------
(* The steps.                                                              *)

LEMMA InitInv == Init => IInv
<1> SUFFICES ASSUME Init PROVE IInv
  OBVIOUS
<1>1. ScriptInv
  <2>1. filled \in [Tables -> Nat] /\ \A t \in Tables : filled[t] <= Size(t)
    BY Sizes DEF Init
  <2>2. \A t \in Tables : pc # Filling(t) /\ pc # Clearing(t)
    BY DEF Init, Idle, Filling, Clearing
  <2>3. pc # Filling("t_meas_ingress") /\ pc # Filling("t_meas_egress") /\ pc # Clearing("t_meas_egress")
    BY <2>2 DEF Tables
  <2>4. "meas" \in done => \A t \in MeasTables : filled[t] = Size(t) /\ t \in Tables
    BY DEF Init, MeasTables, Tables
  <2> QED BY <2>1, <2>2, <2>3, <2>4, BoundAssumption DEF Init, ScriptInv, Scripts
<1>2. FrameInv
  BY DEF Init, FrameInv, NoFrame, Frames
<1> QED BY <1>1, <1>2 DEF IInv

LEMMA ScriptStep == ScriptInv /\ [Next]_vars => ScriptInv'
<1> SUFFICES ASSUME ScriptInv, [Next]_vars PROVE ScriptInv'
  OBVIOUS
<1> USE DEF ScriptInv
<1>0. /\ Size("t_meas_ingress") = Size("t_meas_egress") /\ MeasTables \subseteq Tables
      /\ \A t \in Tables : Clearing(t) # Idle /\ Filling(t) # Idle
      /\ \A t, u \in Tables : Clearing(t) # Filling(u)
      /\ \A t, u \in Tables : t # u => Clearing(t) # Clearing(u) /\ Filling(t) # Filling(u)
  BY OrderOf DEF Size, Clearing, Filling, Idle, Tables, MeasTables
<1>1. ASSUME NEW s \in Scripts, Start(s) PROVE ScriptInv'
  <2>1. /\ UNCHANGED <<filled, slot>> /\ pc' = Clearing(FirstTable(s)) /\ done' = done \ {s}
        /\ runs < MaxRuns /\ runs' = runs + 1
    BY <1>1 DEF Start
  <2>2. FirstTable(s) \in {"t_set_port_kind", "t_meas_ingress"} /\ (s # "meas" => FirstTable(s) \notin MeasTables)
    BY DEF FirstTable, Scripts, MeasTables
  <2>3. runs' \in 0..MaxRuns
    BY <2>1, BoundAssumption
  <2> QED BY <1>0, <2>1, <2>2, <2>3 DEF Scripts, MeasTables, Tables
<1>2. ASSUME NEW t \in Tables, Clear(t) PROVE ScriptInv'
  <2>1. /\ pc = Clearing(t) /\ filled' = [filled EXCEPT ![t] = 0] /\ UNCHANGED <<runs, done, slot>>
        /\ pc' = CASE t = "t_meas_ingress" -> Clearing("t_meas_egress")
                   [] t = "t_meas_egress"  -> Filling("t_meas_ingress")
                   [] OTHER                -> Filling(t)
    BY <1>2 DEF Clear
  <2>2. filled' \in [Tables -> Nat] /\ filled'[t] = 0 /\ \A u \in Tables \ {t} : filled'[u] = filled[u]
    BY <2>1
  <2>3. "meas" \in done => t \notin MeasTables
    BY <2>1
  <2>4. CASE t = "t_meas_ingress"
    BY <1>0, <2>1, <2>2, <2>3, <2>4, Sizes DEF Tables, MeasTables
  <2>5. CASE t = "t_meas_egress"
    BY <1>0, <2>1, <2>2, <2>3, <2>5, Sizes DEF Tables, MeasTables
  <2>6. CASE t \notin MeasTables
    <3>1. pc' = Filling(t)
      BY <2>1, <2>6 DEF MeasTables
    <3> QED BY <1>0, <2>1, <2>2, <2>6, <3>1, Sizes DEF Tables, MeasTables
  <2> QED BY <2>4, <2>5, <2>6 DEF MeasTables
<1>3. ASSUME NEW t \in Tables, Push(t) PROVE ScriptInv'
  <2>1. /\ pc = Filling(t) /\ filled' = [filled EXCEPT ![t] = @ + 1] /\ UNCHANGED <<runs, slot>>
        /\ pc' = IF t = "t_meas_ingress"          THEN Filling("t_meas_egress")
                 ELSE IF filled[t] + 1 = Size(t)  THEN AfterTable(t)
                 ELSE IF t = "t_meas_egress"      THEN Filling("t_meas_ingress")
                 ELSE pc
        /\ done' = IF pc' = Idle THEN done \union {IF t = "t_ocs_schedule" THEN "hybrid" ELSE "meas"}
                                 ELSE done
    BY <1>3 DEF Push
  <2>2. /\ filled' \in [Tables -> Nat] /\ filled'[t] = filled[t] + 1 /\ filled'[t] <= Size(t)
        /\ \A u \in Tables \ {t} : filled'[u] = filled[u]
    BY <2>1, Sizes
  <2>3. "meas" \in done => t \notin MeasTables
    BY <2>1
  <2>4. CASE t = "t_meas_ingress"
    <3>1. pc' = Filling("t_meas_egress") /\ done' = done
      BY <1>0, <2>1, <2>4 DEF Tables
    <3> QED BY <1>0, <2>1, <2>2, <2>3, <2>4, <3>1, Sizes DEF Tables, MeasTables
  <2>5. CASE t = "t_meas_egress"
    <3>1. CASE filled[t] + 1 = Size(t)
      <4>1. pc' = Idle
        BY <2>1, <2>5, <3>1 DEF AfterTable
      <4>2. done' = done \union {"meas"}
        BY <2>1, <2>5, <4>1
      <4>3. \A u \in MeasTables : filled'[u] = Size(u)
        BY <1>0, <2>1, <2>2, <2>5, <3>1 DEF Tables, MeasTables
      <4> QED BY <1>0, <2>1, <2>2, <2>5, <4>1, <4>2, <4>3 DEF Tables, MeasTables, Scripts
    <3>2. CASE filled[t] + 1 # Size(t)
      <4>1. pc' = Filling("t_meas_ingress") /\ done' = done
        BY <1>0, <2>1, <2>5, <3>2 DEF Tables
      <4> QED BY <1>0, <2>1, <2>2, <2>3, <2>5, <3>2, <4>1, Sizes DEF Tables, MeasTables
    <3> QED BY <3>1, <3>2
  <2>6. CASE t \notin MeasTables
    <3>1. \A u \in MeasTables : filled'[u] = filled[u]
      BY <1>0, <2>2, <2>6
    <3>2. CASE filled[t] + 1 = Size(t)
      <4>1. pc' = AfterTable(t)
        BY <2>1, <2>6, <3>2 DEF MeasTables
      <4>2. \/ pc' = Clearing("t_eps_forward") /\ done' = done
            \/ pc' = Clearing("t_ocs_schedule") /\ done' = done
            \/ pc' = Idle /\ done' = done \union {"hybrid"}
        BY <1>0, <2>1, <2>6, <4>1 DEF AfterTable, Tables, MeasTables
      <4> QED BY <1>0, <2>1, <2>2, <2>6, <3>1, <4>2 DEF Tables, MeasTables, Scripts
    <3>3. CASE filled[t] + 1 # Size(t)
      <4>1. pc' = Filling(t) /\ done' = done
        BY <1>0, <2>1, <2>6, <3>3 DEF MeasTables
      <4> QED BY <1>0, <2>1, <2>2, <2>6, <3>1, <3>3, <4>1, Sizes DEF Tables, MeasTables
    <3> QED BY <3>2, <3>3
  <2> QED BY <2>4, <2>5, <2>6 DEF MeasTables
<1>4. CASE Abort
  BY <1>0, <1>4 DEF Abort, MeasTables, Tables
<1>5. CASE Tick
  <2>1. slot' \in 0..(NumSlots - 1)
    <3>1. slot + 1 \in Nat /\ NumSlots \in Nat \ {0}
      BY SizeAssumption
    <3> QED BY <1>5, <3>1, ModRange DEF Tick
  <2> QED BY <1>5, <2>1 DEF Tick, scriptVars
<1>6. CASE UNCHANGED <<scriptVars, slot>>
  BY <1>6 DEF scriptVars
<1>7. ASSUME NEW src \in Senders, NEW dst \in Targets, Send(src, dst) PROVE ScriptInv'
  BY <1>6, <1>7 DEF Send
<1>8. CASE Ingress \/ Egress
  BY <1>6, <1>8 DEF Ingress, Egress
<1>9. CASE UNCHANGED vars
  BY <1>6, <1>9 DEF vars
<1> QED BY <1>1, <1>2, <1>3, <1>4, <1>5, <1>7, <1>8, <1>9 DEF Next

LEMMA FrameStep == ScriptInv /\ FrameInv /\ [Next]_vars => FrameInv'
<1> SUFFICES ASSUME ScriptInv, FrameInv, [Next]_vars PROVE FrameInv'
  OBVIOUS
<1> USE DEF FrameInv
<1>1. ASSUME NEW s \in Scripts, Start(s) PROVE FrameInv'
  <2>1. done' = done \ {s} /\ frame' = [frame EXCEPT !.stable = @ \ {s}]
    BY <1>1 DEF Start
  <2> QED BY <2>1 DEF Frames
<1>2. CASE UNCHANGED frame /\ done \subseteq done'
  BY <1>2
<1>3. ASSUME NEW t \in Tables, Clear(t) \/ Push(t) PROVE FrameInv'
  BY <1>2, <1>3 DEF Clear, Push
<1>4. CASE Abort \/ Tick
  BY <1>2, <1>4 DEF Abort, Tick, scriptVars
<1>5. ASSUME NEW src \in Senders, NEW dst \in Targets, Send(src, dst) PROVE FrameInv'
  <2>1. /\ frame' = [NoFrame EXCEPT !.state = "arrived", !.at = src, !.src = src, !.dst = dst, !.stable = done]
        /\ done' = done
    BY <1>5 DEF Send, scriptVars
  <2>2. src \in Hosted /\ src \in Ports /\ dst \in Downlinks \union {OtherMac} /\ done \in SUBSET Scripts
    BY BoundAssumption, PlacesArePorts DEF ScriptInv
  <2> QED BY <2>1, <2>2 DEF NoFrame, Frames
<1>6. CASE Ingress
  <2> DEFINE p == frame.at
             out == IF IsOcs(p) THEN OcsOut(p.pos, slot) ELSE EpsOut(p, frame.dst)
             ts4 == IF Has("t_meas_ingress", p) THEN frame.hops + 1 ELSE frame.ts4
  <2>1. /\ frame.state = "arrived" /\ done' = done
        /\ frame' = [frame EXCEPT !.state = IF out = NoPort THEN "dropped" ELSE "queued",
                                  !.at = out, !.ts4 = ts4]
    BY <1>6 DEF Ingress, scriptVars
  <2>2. p \in Hosted \union Inner
    BY <2>1
  <2>3. out \in Hosted \union Inner \union {NoPort}
    BY <2>2, OutputPlace
  <2>4. ts4 \in {0, 1} /\ ("meas" \in frame.stable => ts4 # 0)
    <3>1. CASE frame.hops = 0
      <4>1. "meas" \in frame.stable => Has("t_meas_ingress", p)
        BY <2>1, <3>1, MeasEntries DEF ScriptInv, MeasTables
      <4> QED BY <3>1, <4>1 DEF Frames
    <3>2. CASE frame.hops # 0
      <4>1. ~Has("t_meas_ingress", p)
        BY <2>1, <3>2, MeasEntries, InnerApart DEF MeasTables
      <4> QED BY <2>1, <3>2, <4>1 DEF Frames
    <3> QED BY <3>1, <3>2
  <2> HIDE DEF out, ts4
  <2>5. out \in Ports \union {NoPort}
    BY <2>3, PlacesArePorts
  <2> QED BY <2>1, <2>3, <2>4, <2>5 DEF Frames
<1>7. CASE Egress
  <2> DEFINE p == frame.at
             ts5 == IF Has("t_meas_egress", p) THEN frame.hops + 1 ELSE frame.ts5
  <2>1. /\ frame.state = "queued" /\ done' = done
        /\ frame' = IF p \in Hosted
                    THEN [[frame EXCEPT !.ts5 = ts5] EXCEPT !.state = "delivered"]
                    ELSE [[frame EXCEPT !.ts5 = ts5] EXCEPT !.state = "arrived", !.at = Peer(p), !.hops = @ + 1]
    BY <1>7 DEF Egress, scriptVars
  <2>2. frame.hops \in Nat /\ frame.ts5 = 0
    BY <2>1 DEF Frames
  <2>3. CASE p \in Hosted
    <3>1. "meas" \in frame.stable => Has("t_meas_egress", p)
      BY <2>3, MeasEntries DEF ScriptInv, MeasTables
    <3>2. ts5 \in {0, frame.hops + 1} /\ ("meas" \in frame.stable => ts5 # 0)
      BY <2>2, <3>1
    <3> HIDE DEF ts5
    <3>3. ts5 \in Nat /\ frame \in Frames
      BY <2>2, <3>2
    <3>4. frame' = [[frame EXCEPT !.ts5 = ts5] EXCEPT !.state = "delivered"]
      BY <2>1, <2>3
    <3>5. /\ frame' \in Frames /\ frame'.state = "delivered" /\ frame'.ts5 = ts5
          /\ frame'.hops = frame.hops /\ frame'.ts4 = frame.ts4 /\ frame'.stable = frame.stable
      BY <3>3, <3>4 DEF Frames
    <3> QED BY <2>1, <3>2, <3>5
  <2>4. CASE p \notin Hosted
    <3>1. p \in Inner
      BY <2>1, <2>4
    <3>2. Peer(p) \in Inner /\ Peer(p) \in Ports
      BY <3>1, InnerApart, PlacesArePorts
    <3>3. ~Has("t_meas_egress", p)
      BY <2>4, MeasEntries DEF MeasTables
    <3>4. ts5 = 0
      BY <2>2, <3>3
    <3> HIDE DEF ts5
    <3>5. frame' = [[frame EXCEPT !.ts5 = 0] EXCEPT !.state = "arrived", !.at = Peer(p), !.hops = @ + 1]
      BY <2>1, <2>4, <3>4
    <3>6. frame \in Frames /\ Peer(p) \in Ports
      BY <3>2
    <3>7. /\ frame' \in Frames /\ frame'.state = "arrived" /\ frame'.ts5 = 0 /\ frame'.at = Peer(p)
          /\ frame'.hops = frame.hops + 1 /\ frame'.ts4 = frame.ts4 /\ frame'.stable = frame.stable
      <4>1. frame.hops + 1 \in Nat
        BY <2>2
      <4>2. frame' = [frame EXCEPT !.ts5 = 0, !.state = "arrived", !.at = Peer(p), !.hops = frame.hops + 1]
        BY <3>5, <3>6 DEF Frames
      <4> HIDE DEF p
      <4> QED BY <3>6, <4>1, <4>2 DEF Frames
    <3> QED BY <2>1, <2>2, <3>2, <3>7
  <2> QED BY <2>3, <2>4
<1>8. CASE UNCHANGED vars
  BY <1>2, <1>8 DEF vars, scriptVars
<1> QED BY <1>1, <1>3, <1>4, <1>5, <1>6, <1>7, <1>8 DEF Next

LEMMA IInvHolds == Spec => []IInv
<1>1. IInv /\ [Next]_vars => IInv'
  BY ScriptStep, FrameStep DEF IInv
<1> QED BY InitInv, <1>1, PTL DEF Spec

-----------------------------------------------------------------------------
(* The way of an electrical frame.                                         *)

ElectricalTables == {"t_set_port_kind", "t_eps_forward", "t_ocs_schedule"}

\* The electrical table is complete from its last entry on, until a run clears it.
EpsInv ==
  /\ pc \in {Clearing("t_ocs_schedule"), Filling("t_ocs_schedule")} =>
       filled["t_eps_forward"] = Size("t_eps_forward")
  /\ "hybrid" \in done =>
       /\ filled["t_eps_forward"] = Size("t_eps_forward")
       /\ \A t \in ElectricalTables : pc # Clearing(t) /\ pc # Filling(t)

\* Where an electrical frame is after so many cables: it goes up to spine 1, down
\* to the leaf of its destination and out, or stays on its leaf.
PathInv ==
  frame.src \in Downlinks =>
    /\ frame.state = "none" => frame.hops = 0
    /\ frame.state = "arrived" =>
         \/ frame.hops = 0 /\ frame.at = frame.src
         \/ frame.hops = 1 /\ frame.dst \in Downlinks /\ frame.at \in SpinePorts /\ frame.at.id = 1
         \/ frame.hops = 2 /\ frame.dst \in Downlinks /\ frame.at = Uplink(frame.dst.id, 1)
    /\ frame.state = "queued" => frame.dst \in Downlinks /\
         \/ frame.hops \in 0..2 /\ frame.at = frame.dst
         \/ frame.hops = 0 /\ \E l \in 1..NumLeaves : frame.at = Uplink(l, 1)
         \/ frame.hops = 1 /\ frame.at = Port("spine", 1, frame.dst.id)
    /\ frame.state = "dropped" =>
         frame.hops \in 0..2 /\ ("hybrid" \in frame.stable => frame.dst \notin Downlinks)
    /\ frame.state = "delivered" => frame.hops \in 0..2 /\ frame.at = frame.dst

LEMMA EpsInvInit == Init => EpsInv
<1> SUFFICES ASSUME Init PROVE EpsInv
  OBVIOUS
<1>1. \A t \in Tables : pc # Clearing(t) /\ pc # Filling(t)
  BY DEF Init, Idle, Clearing, Filling
<1>2. "hybrid" \in done => filled["t_eps_forward"] = Size("t_eps_forward")
  BY DEF Init, Tables
<1> QED BY <1>1, <1>2 DEF EpsInv, Tables, ElectricalTables

LEMMA EpsInvStep == ScriptInv /\ EpsInv /\ [Next]_vars => EpsInv'
<1> SUFFICES ASSUME ScriptInv, EpsInv, [Next]_vars PROVE EpsInv'
  OBVIOUS
<1> USE DEF EpsInv
<1>0. /\ \A t \in Tables : Clearing(t) # Idle /\ Filling(t) # Idle
      /\ \A t, u \in Tables : Clearing(t) # Filling(u)
      /\ \A t, u \in Tables : t # u => Clearing(t) # Clearing(u) /\ Filling(t) # Filling(u)
      /\ ElectricalTables \subseteq Tables
      /\ Tables = ElectricalTables \union {"t_meas_ingress", "t_meas_egress"}
  BY DEF Clearing, Filling, Idle, Tables, ElectricalTables
<1>1. ASSUME NEW s \in Scripts, Start(s) PROVE EpsInv'
  <2>1. UNCHANGED filled /\ pc' = Clearing(FirstTable(s)) /\ done' = done \ {s} /\ pc = Idle
    BY <1>1 DEF Start
  <2>2. FirstTable(s) \in Tables /\ FirstTable(s) # "t_ocs_schedule"
        /\ (s # "hybrid" => FirstTable(s) \notin ElectricalTables)
    BY DEF FirstTable, Scripts, Tables, ElectricalTables
  <2> QED BY <1>0, <2>1, <2>2 DEF ElectricalTables
<1>2. ASSUME NEW t \in Tables, Clear(t) PROVE EpsInv'
  <2>1. /\ pc = Clearing(t) /\ filled' = [filled EXCEPT ![t] = 0] /\ done' = done
        /\ pc' = CASE t = "t_meas_ingress" -> Clearing("t_meas_egress")
                   [] t = "t_meas_egress"  -> Filling("t_meas_ingress")
                   [] OTHER                -> Filling(t)
    BY <1>2 DEF Clear
  <2>2. "hybrid" \in done => t \notin ElectricalTables
    BY <2>1
  <2>3. t # "t_eps_forward" => filled'["t_eps_forward"] = filled["t_eps_forward"]
    BY <2>1 DEF ScriptInv, Tables
  <2>4. CASE t \in ElectricalTables
    <3>1. pc' = Filling(t)
      BY <2>1, <2>4 DEF ElectricalTables
    <3>2. pc' = Filling("t_ocs_schedule") => t = "t_ocs_schedule"
      BY <1>0, <3>1 DEF Tables
    <3>3. pc' # Clearing("t_ocs_schedule")
      BY <1>0, <3>1 DEF Tables
    <3> QED BY <2>1, <2>2, <2>3, <2>4, <3>2, <3>3
  <2>5. CASE t \notin ElectricalTables
    <3>1. pc' = Clearing("t_meas_egress") \/ pc' = Filling("t_meas_ingress")
      BY <1>0, <2>1, <2>5
    <3>2. \A u \in ElectricalTables : pc' # Clearing(u) /\ pc' # Filling(u)
      BY <1>0, <3>1 DEF Tables, ElectricalTables
    <3> QED BY <2>1, <2>3, <2>5, <3>2 DEF ElectricalTables
  <2> QED BY <2>4, <2>5
<1>3. ASSUME NEW t \in Tables, Push(t) PROVE EpsInv'
  <2>1. /\ pc = Filling(t) /\ filled' = [filled EXCEPT ![t] = @ + 1]
        /\ pc' = IF t = "t_meas_ingress"          THEN Filling("t_meas_egress")
                 ELSE IF filled[t] + 1 = Size(t)  THEN AfterTable(t)
                 ELSE IF t = "t_meas_egress"      THEN Filling("t_meas_ingress")
                 ELSE pc
        /\ done' = IF pc' = Idle THEN done \union {IF t = "t_ocs_schedule" THEN "hybrid" ELSE "meas"}
                                 ELSE done
    BY <1>3 DEF Push
  <2>2. t # "t_eps_forward" => filled'["t_eps_forward"] = filled["t_eps_forward"]
    BY <2>1 DEF ScriptInv, Tables
  <2>3. "hybrid" \in done => t \notin ElectricalTables
    BY <2>1
  <2>4. CASE t \notin ElectricalTables
    <3>1. pc' = Filling("t_meas_egress") \/ pc' = Idle \/ pc' = Filling("t_meas_ingress")
      BY <1>0, <2>1, <2>4 DEF AfterTable, Tables, ElectricalTables
    <3>2. \A u \in ElectricalTables : pc' # Clearing(u) /\ pc' # Filling(u)
      BY <1>0, <3>1 DEF Tables, ElectricalTables
    <3>3. "hybrid" \in done' => "hybrid" \in done
      BY <2>1, <2>4 DEF ElectricalTables
    <3> QED BY <2>2, <2>4, <3>2, <3>3 DEF ElectricalTables
  <2>5. CASE t = "t_set_port_kind"
    <3>1. pc' = Clearing("t_eps_forward") \/ pc' = Filling("t_set_port_kind")
      BY <2>1, <2>5 DEF AfterTable
    <3>2. done' = done /\ pc' \notin {Clearing("t_ocs_schedule"), Filling("t_ocs_schedule")}
      BY <1>0, <2>1, <3>1 DEF Tables
    <3> QED BY <2>3, <2>5, <3>2 DEF ElectricalTables
  <2>6. CASE t = "t_eps_forward"
    <3>1. filled'["t_eps_forward"] = filled["t_eps_forward"] + 1
      BY <2>1, <2>6 DEF ScriptInv, Tables
    <3>2. \/ pc' = Clearing("t_ocs_schedule") /\ filled["t_eps_forward"] + 1 = Size("t_eps_forward")
          \/ pc' = Filling("t_eps_forward")
      BY <2>1, <2>6 DEF AfterTable
    <3>3. done' = done
      BY <1>0, <2>1, <3>2 DEF Tables
    <3> QED BY <1>0, <2>3, <2>6, <3>1, <3>2, <3>3 DEF Tables, ElectricalTables
  <2>7. CASE t = "t_ocs_schedule"
    <3>1. filled'["t_eps_forward"] = Size("t_eps_forward")
      BY <2>1, <2>2, <2>7
    <3>2. \/ pc' = Idle
          \/ pc' = Filling("t_ocs_schedule") /\ done' = done
      BY <1>0, <2>1, <2>7 DEF AfterTable, Tables
    <3> QED BY <1>0, <2>3, <2>7, <3>1, <3>2 DEF Tables, ElectricalTables
  <2> QED BY <2>4, <2>5, <2>6, <2>7 DEF ElectricalTables
<1>4. CASE Abort
  BY <1>0, <1>4 DEF Abort, Tables, ElectricalTables
<1>5. CASE UNCHANGED scriptVars
  BY <1>5 DEF scriptVars
<1>6. CASE Tick \/ Ingress \/ Egress \/ UNCHANGED vars
  BY <1>5, <1>6 DEF Tick, Ingress, Egress, vars
<1>7. ASSUME NEW src \in Senders, NEW dst \in Targets, Send(src, dst) PROVE EpsInv'
  BY <1>5, <1>7 DEF Send
<1> QED BY <1>1, <1>2, <1>3, <1>4, <1>6, <1>7 DEF Next

\* What the electrical table does at the three places of the way, and that a
\* complete one has an entry there.
LEMMA EpsDecision ==
  ASSUME ScriptInv, NEW p, NEW mac
  PROVE  /\ EpsOut(p, mac) # NoPort => mac \in Downlinks /\ EpsOut(p, mac) = EpsRule(p, mac)
         /\ /\ filled["t_eps_forward"] = Size("t_eps_forward") /\ mac \in Downlinks
            /\ p \in Downlinks \union SpinePorts \/ p = Uplink(mac.id, 1)
            => EpsOut(p, mac) # NoPort
<1>1. Size("t_eps_forward") = Len(EpsOrder) /\ Len(EpsOrder) \in Nat
  BY OrderOf, EpsOrderKeys, LenProperties DEF Size
<1>2. /\ filled["t_eps_forward"] \in Nat /\ filled["t_eps_forward"] <= Len(EpsOrder)
  BY <1>1 DEF ScriptInv, Tables
<1>3. ASSUME Has("t_eps_forward", <<p, mac>>)
      PROVE  mac \in Downlinks /\ p \in Downlinks \union Inner
  <2>1. PICK n \in 1..filled["t_eps_forward"] : EpsOrder[n] = <<p, mac>>
    BY <1>3, OrderOf DEF Has
  <2>2. n \in 1..Len(EpsOrder)
    BY <1>2, <2>1
  <2>3. <<p, mac>> \in (Downlinks \union Inner) \X Downlinks
    BY <2>1, <2>2, EpsOrderKeys, ElementOfSeq
  <2> QED BY <2>3
<1>4. ASSUME filled["t_eps_forward"] = Size("t_eps_forward"), mac \in Downlinks,
             p \in Downlinks \union SpinePorts \/ p = Uplink(mac.id, 1)
      PROVE  Has("t_eps_forward", <<p, mac>>)
  <2>1. \E n \in 1..Len(EpsOrder) : EpsOrder[n] = <<p, mac>>
    <3>1. /\ \A q \in Downlinks \union SpinePorts : \E n \in 1..Len(EpsOrder) : EpsOrder[n] = <<q, mac>>
          /\ \A s \in 1..2 : \E n \in 1..Len(EpsOrder) : EpsOrder[n] = <<Uplink(mac.id, s), mac>>
      BY <1>4, EpsOrderComplete, Zenon
    <3>2. CASE p \in Downlinks \union SpinePorts
      BY <3>1, <3>2
    <3>3. CASE p = Uplink(mac.id, 1)
      <4>1. 1 \in 1..2
        OBVIOUS
      <4> QED BY <3>1, <3>3, <4>1, Zenon
    <3> QED BY <1>4, <3>2, <3>3
  <2> QED BY <1>1, <1>4, <2>1, OrderOf DEF Has
<1>5. ASSUME Has("t_eps_forward", <<p, mac>>) PROVE EpsRule(p, mac) # NoPort
  <2>1. p \in Hosted \union Inner
    BY <1>3, <1>5 DEF Hosted
  <2>2. EpsRule(p, mac) \in Hosted \union Inner
    BY <1>3, <1>5, RulePlace
  <2> QED BY <2>2, PlacesArePorts, NoPortAssumption
<1> QED BY <1>3, <1>4, <1>5 DEF EpsOut

LEMMA PathInvInit == Init => PathInv
BY DEF Init, NoFrame, PathInv

LEMMA PathInvStep == IInv /\ EpsInv /\ PathInv /\ [Next]_vars => PathInv'
<1> SUFFICES ASSUME IInv, EpsInv, PathInv, [Next]_vars PROVE PathInv'
  OBVIOUS
<1>0. ScriptInv /\ frame \in Frames /\ frame.stable \subseteq done
  BY DEF IInv, FrameInv
<1>1. CASE UNCHANGED frame
  BY <1>1 DEF PathInv
<1>2. ASSUME NEW s \in Scripts, Start(s) PROVE PathInv'
  <2>1. frame' = [frame EXCEPT !.stable = @ \ {s}]
    BY <1>2 DEF Start
  <2>2. /\ frame'.state = frame.state /\ frame'.at = frame.at /\ frame'.src = frame.src
        /\ frame'.dst = frame.dst /\ frame'.hops = frame.hops
        /\ ("hybrid" \in frame'.stable => "hybrid" \in frame.stable)
    BY <1>0, <2>1 DEF Frames
  <2> QED BY <2>2 DEF PathInv
<1>3. ASSUME NEW src \in Senders, NEW dst \in Targets, Send(src, dst) PROVE PathInv'
  <2>1. frame'.state = "arrived" /\ frame'.hops = 0 /\ frame'.at = src /\ frame'.src = src
    BY <1>3 DEF Send, NoFrame
  <2> QED BY <2>1 DEF PathInv
<1>4. CASE Ingress
  <2> DEFINE p == frame.at
             out == IF IsOcs(p) THEN OcsOut(p.pos, slot) ELSE EpsOut(p, frame.dst)
             ts4 == IF Has("t_meas_ingress", p) THEN frame.hops + 1 ELSE frame.ts4
  <2>1. /\ frame.state = "arrived"
        /\ frame' = [frame EXCEPT !.state = IF out = NoPort THEN "dropped" ELSE "queued",
                                  !.at = out, !.ts4 = ts4]
    BY <1>4 DEF Ingress
  <2> HIDE DEF ts4
  <2>2. /\ frame'.state = (IF out = NoPort THEN "dropped" ELSE "queued") /\ frame'.at = out
        /\ frame'.src = frame.src /\ frame'.dst = frame.dst /\ frame'.hops = frame.hops
        /\ frame'.stable = frame.stable
    <3> HIDE DEF out
    <3> QED BY <1>0, <2>1 DEF Frames
  <2>3. SUFFICES ASSUME frame.src \in Downlinks
                 PROVE  /\ out # NoPort => frame.dst \in Downlinks /\
                             \/ frame.hops \in 0..2 /\ out = frame.dst
                             \/ frame.hops = 0 /\ \E l \in 1..NumLeaves : out = Uplink(l, 1)
                             \/ frame.hops = 1 /\ out = Port("spine", 1, frame.dst.id)
                        /\ out = NoPort => frame.hops \in 0..2 /\
                             ("hybrid" \in frame.stable => frame.dst \notin Downlinks)
    <3> HIDE DEF out
    <3> QED BY <2>2 DEF PathInv
  <2>4. \/ frame.hops = 0 /\ p = frame.src
        \/ frame.hops = 1 /\ frame.dst \in Downlinks /\ p \in SpinePorts /\ p.id = 1
        \/ frame.hops = 2 /\ frame.dst \in Downlinks /\ p = Uplink(frame.dst.id, 1)
    BY <2>1, <2>3 DEF PathInv
  <2>5. /\ p \in Downlinks => p.tier = "leaf" /\ p.id \in 1..NumLeaves
        /\ p \in SpinePorts => p.tier = "spine"
        /\ p = Uplink(frame.dst.id, 1) => p.tier = "leaf" /\ p.id = frame.dst.id
    BY SizeAssumption DEF Downlinks, Downlink, Fpgas, SpinePorts, Uplink, Port
  <2>6. out = EpsOut(p, frame.dst)
    BY <2>3, <2>4, <2>5 DEF IsOcs
  <2> HIDE DEF out, p
  <2>7. CASE out = NoPort
    <3>1. "hybrid" \in frame.stable => filled["t_eps_forward"] = Size("t_eps_forward")
      BY <1>0 DEF EpsInv
    <3>2. frame.dst \in Downlinks => p \in Downlinks \union SpinePorts \/ p = Uplink(frame.dst.id, 1)
      BY <2>3, <2>4
    <3>3. "hybrid" \in frame.stable => frame.dst \notin Downlinks
      BY <1>0, <2>6, <2>7, <3>1, <3>2, EpsDecision
    <3> QED BY <2>4, <2>7, <3>3
  <2>8. CASE out # NoPort
    <3>1. frame.dst \in Downlinks /\ out = EpsRule(p, frame.dst)
      BY <1>0, <2>6, <2>8, EpsDecision
    <3> QED BY <2>3, <2>4, <2>5, <2>8, <3>1 DEF EpsRule
  <2> QED BY <2>7, <2>8
<1>5. CASE Egress
  <2> DEFINE p == frame.at
             ts5 == IF Has("t_meas_egress", p) THEN frame.hops + 1 ELSE frame.ts5
  <2>1. /\ frame.state = "queued"
        /\ frame' = IF p \in Hosted
                    THEN [[frame EXCEPT !.ts5 = ts5] EXCEPT !.state = "delivered"]
                    ELSE [[frame EXCEPT !.ts5 = ts5] EXCEPT !.state = "arrived", !.at = Peer(p), !.hops = @ + 1]
    BY <1>5 DEF Egress
  <2> HIDE DEF ts5
  <2>2. SUFFICES ASSUME frame'.src \in Downlinks PROVE PathInv'
    BY DEF PathInv
  <2>3. frame.src \in Downlinks
    BY <1>0, <2>1, <2>2 DEF Frames
  <2>4. /\ frame.dst \in Downlinks
        /\ \/ frame.hops \in 0..2 /\ p = frame.dst
           \/ frame.hops = 0 /\ \E l \in 1..NumLeaves : p = Uplink(l, 1)
           \/ frame.hops = 1 /\ p = Port("spine", 1, frame.dst.id)
    BY <2>1, <2>3 DEF PathInv
  <2>5. frame.dst.id \in 1..NumLeaves /\ frame.dst \in Hosted
    BY <2>4, SizeAssumption DEF Downlinks, Downlink, Fpgas, Port, Hosted
  <2>6. /\ \A l \in 1..NumLeaves : Uplink(l, 1) \in Inner
        /\ Port("spine", 1, frame.dst.id) \in SpinePorts
        /\ Port("spine", 1, frame.dst.id) \in Inner
    BY <2>5 DEF Inner, SpinePorts
  <2>7. CASE p \in Hosted
    <3>1. frame.hops \in 0..2 /\ p = frame.dst
      BY <2>4, <2>6, <2>7, InnerApart
    <3>2. frame'.state = "delivered" /\ frame'.at = frame.at /\ frame'.dst = frame.dst /\ frame'.hops = frame.hops
      BY <1>0, <2>1, <2>7 DEF Frames
    <3> QED BY <3>1, <3>2 DEF PathInv
  <2>8. CASE p \notin Hosted
    <3>1. /\ frame'.state = "arrived" /\ frame'.at = Peer(p) /\ frame'.dst = frame.dst
          /\ frame'.hops = frame.hops + 1
      <4> HIDE DEF p
      <4> QED BY <1>0, <2>1, <2>8 DEF Frames
    <3>2. CASE frame.hops = 0 /\ \E l \in 1..NumLeaves : p = Uplink(l, 1)
      <4>1. PICK l \in 1..NumLeaves : p = Uplink(l, 1)
        BY <3>2
      <4>2. Peer(p) = Port("spine", 1, l)
        BY <4>1 DEF Peer, Uplink, Port
      <4>3. Peer(p) \in SpinePorts /\ Peer(p).id = 1
        BY <4>2 DEF SpinePorts, Port
      <4> QED BY <2>4, <3>1, <3>2, <4>3 DEF PathInv
    <3>3. CASE frame.hops = 1 /\ p = Port("spine", 1, frame.dst.id)
      <4>1. Peer(p) = Uplink(frame.dst.id, 1)
        BY <3>3 DEF Peer, Port
      <4> QED BY <2>4, <3>1, <3>3, <4>1 DEF PathInv
    <3> QED BY <2>4, <2>5, <2>8, <3>2, <3>3
  <2> QED BY <2>7, <2>8
<1>6. ASSUME NEW t \in Tables, Clear(t) \/ Push(t) PROVE PathInv'
  BY <1>1, <1>6 DEF Clear, Push
<1>7. CASE Abort \/ Tick \/ UNCHANGED vars
  BY <1>1, <1>7 DEF Abort, Tick, vars
<1> QED BY <1>2, <1>3, <1>4, <1>5, <1>6, <1>7 DEF Next

-----------------------------------------------------------------------------
(* The properties of the run.                                              *)

\* The type invariant: no table ever has more entries than its script has keys,
\* however its runs are broken off and repeated.
THEOREM TypeCorrect == Spec => []TypeOK
<1>1. IInv => TypeOK
  <2> SUFFICES ASSUME IInv PROVE TypeOK
    OBVIOUS
  <2>1. DOMAIN filled = Tables /\ \A t \in Tables : filled[t] \in 0..Size(t)
    BY Sizes DEF IInv, ScriptInv
  <2> QED BY <2>1 DEF TypeOK, IInv, ScriptInv, FrameInv, Frames
<1> QED BY <1>1, IInvHolds, PTL

\* For every number of leaves, an electrical frame passes at most two cables and
\* reaches no interface but its own, whatever the tables hold; and it is not dropped
\* if the forwarding script had finished and was left alone.
THEOREM ElectricalCorrect == Spec => []ElectricalDelivery
<1>1. IInv /\ EpsInv /\ [Next]_vars => EpsInv'
  BY EpsInvStep DEF IInv
<1>2. IInv /\ EpsInv /\ PathInv => ElectricalDelivery
  <2> SUFFICES ASSUME IInv, PathInv, frame.src \in Downlinks
               PROVE  /\ frame.hops <= 2
                      /\ frame.state = "delivered" => frame.at = frame.dst
                      /\ "hybrid" \in frame.stable /\ frame.dst \in Downlinks => frame.state # "dropped"
    BY DEF ElectricalDelivery
  <2>1. frame.state \in {"none", "arrived", "queued", "dropped", "delivered"} => frame.hops \in 0..2
    BY DEF PathInv
  <2> QED BY <2>1 DEF PathInv, IInv, FrameInv, Frames
<1> QED BY <1>1, <1>2, IInvHolds, EpsInvInit, PathInvInit, PathInvStep, PTL DEF Spec

\* T4 is stamped on the first pass and T5 on the last, whatever the scripts do
\* meanwhile, and both are there when the tables were complete and left alone.
THEOREM StampsCorrect == Spec => []StampsBracketTransit
<1>1. IInv => StampsBracketTransit
  BY DEF IInv, FrameInv, Frames, StampsBracketTransit
<1> QED BY <1>1, IInvHolds, PTL
=============================================================================
