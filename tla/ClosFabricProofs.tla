-------------------------- MODULE ClosFabricProofs --------------------------
(***************************************************************************)
(* Theorems about ClosFabric, for any number of leaves, spines, endpoints  *)
(* and topology files.                                                     *)
(***************************************************************************)
EXTENDS ClosFabric, Integers, SequenceTheorems, FiniteSetTheorems, TLAPS

-----------------------------------------------------------------------------
(* Sequences.                                                              *)

LEMMA LeastElement ==
  ASSUME NEW S \in SUBSET Nat, S # {}
  PROVE  \E n \in S : \A k \in S : n <= k
<1> DEFINE R == OpToRel(<, Nat)
<1>1. IsWellFoundedOn(R, Nat)
  BY NatLessThanWellFounded
<1>2. \A x, y \in Nat : x < y => <<x, y>> \in R
  BY DEF OpToRel
<1> HIDE DEF R
<1>3. PICK x \in S : \A y \in S : ~(<<y, x>> \in R)
  BY <1>1, WFMin
<1>4. ASSUME NEW k \in S PROVE x <= k
  <2>1. k \in Nat /\ x \in Nat /\ ~(k < x)
    BY <1>2, <1>3
  <2> QED BY <2>1
<1> QED BY <1>4

\* Induction up to m for a set of numbers.
LEMMA BoundedInduction ==
  ASSUME NEW m \in Nat, NEW S, 0 \in S, \A n \in 0..m : n \in S /\ n < m => n + 1 \in S
  PROVE  \A n \in 0..m : n \in S
<1> SUFFICES ASSUME NEW l \in 0..m, l \notin S PROVE FALSE
  OBVIOUS
<1> DEFINE Out == {n \in 0..m : n \notin S}
<1>1. Out \in SUBSET Nat /\ Out # {}
  OBVIOUS
<1>2. PICK x \in Out : \A k \in Out : x <= k
  BY <1>1, LeastElement
<1>3. x \in Nat /\ x # 0 /\ x - 1 \in 0..m /\ x - 1 \notin Out
  BY <1>2
<1>4. x - 1 \in S /\ x - 1 < m /\ (x - 1) + 1 = x
  BY <1>3
<1> QED BY <1>2, <1>3, <1>4

\* The equation that defines Among.
LEMMA AmongDef ==
  ASSUME NEW A, NEW s \in Seq(A), NEW T
  PROVE  \E G : /\ G = [n \in 0..Len(s) |->
                          IF n = 0 THEN <<>>
                          ELSE IF s[n] \in T THEN Append(G[n - 1], s[n]) ELSE G[n - 1]]
                /\ Among(s, T) = G[Len(s)]
<1> DEFINE Body(G, n) == IF n = 0 THEN <<>>
                         ELSE IF s[n] \in T THEN Append(G[n - 1], s[n]) ELSE G[n - 1]
           Upto(m)    == \E G : G = [n \in 0..m |-> Body(G, n)]
           S          == {m \in 0..Len(s) : Upto(m)}
<1>1. Upto(0)
  <2> DEFINE G == [n \in 0..0 |-> <<>>]
  <2>1. G = [n \in 0..0 |-> Body(G, n)]
    OBVIOUS
  <2> QED BY <2>1
<1>2. ASSUME NEW m \in 0..Len(s), m < Len(s), Upto(m) PROVE Upto(m + 1)
  <2>1. PICK G : G = [n \in 0..m |-> Body(G, n)]
    BY <1>2
  <2> DEFINE H == [n \in 0..(m + 1) |-> IF n <= m THEN G[n] ELSE Body(G, m + 1)]
  <2>2. ASSUME NEW n \in 0..(m + 1) PROVE H[n] = Body(H, n)
    <3>1. CASE n = 0
      BY <2>1, <3>1
    <3>2. CASE n # 0
      <4>1. n - 1 \in 0..m /\ H[n - 1] = G[n - 1]
        BY <3>2
      <4>2. Body(H, n) = Body(G, n)
        BY <4>1
      <4>3. H[n] = Body(G, n)
        <5>1. CASE n \in 0..m
          <6>1. H[n] = G[n] /\ G[n] = Body(G, n)
            <7> HIDE DEF Body
            <7> QED BY <2>1, <5>1
          <6> QED BY <6>1
        <5>2. CASE n = m + 1
          BY <5>2
        <5> QED BY <5>1, <5>2
      <4> QED BY <4>2, <4>3
    <3> QED BY <3>1, <3>2
  <2>3. H = [n \in 0..(m + 1) |-> Body(H, n)]
    <3> HIDE DEF Body
    <3> QED BY <2>2
  <2> QED BY <2>3
<1>3. Upto(Len(s))
  <2>1. 0 \in S /\ \A n \in 0..Len(s) : n \in S /\ n < Len(s) => n + 1 \in S
    <3> HIDE DEF Upto
    <3> QED BY <1>1, <1>2
  <2>2. \A n \in 0..Len(s) : n \in S
    <3> HIDE DEF S
    <3> QED BY <2>1, BoundedInduction
  <2> QED BY <2>2
<1>4. PICK H : H = [n \in 0..Len(s) |-> Body(H, n)]
  BY <1>3
<1> DEFINE K == CHOOSE G : G = [n \in 0..Len(s) |-> Body(G, n)]
<1>5. K = [n \in 0..Len(s) |-> Body(K, n)]
  BY <1>4
<1>6. Among(s, T) = K[Len(s)]
  BY DEF Among
<1> QED BY <1>5, <1>6

LEMMA AmongElements ==
  ASSUME NEW A, NEW s \in Seq(A), NEW T
  PROVE  /\ Among(s, T) \in Seq(A \intersect T)
         /\ \A n \in DOMAIN s : s[n] \in T => \E k \in DOMAIN Among(s, T) : Among(s, T)[k] = s[n]
<1>1. PICK G : /\ G = [n \in 0..Len(s) |->
                         IF n = 0 THEN <<>>
                         ELSE IF s[n] \in T THEN Append(G[n - 1], s[n]) ELSE G[n - 1]]
               /\ Among(s, T) = G[Len(s)]
  BY AmongDef
<1> DEFINE Has(m, n) == s[n] \in T => \E k \in DOMAIN G[m] : G[m][k] = s[n]
           Good(m)   == G[m] \in Seq(A \intersect T) /\ \A n \in 1..m : Has(m, n)
           S         == {m \in 0..Len(s) : Good(m)}
<1>2. Good(0)
  <2>1. G[0] = <<>>
    BY <1>1
  <2> QED BY <2>1
<1>3. ASSUME NEW m \in 0..Len(s), m < Len(s), Good(m) PROVE Good(m + 1)
  <2>1. /\ m + 1 \in 1..Len(s) /\ s[m + 1] \in A
        /\ G[m + 1] = IF s[m + 1] \in T THEN Append(G[m], s[m + 1]) ELSE G[m]
    <3> HIDE DEF Good
    <3>1. m + 1 \in 0..Len(s) /\ m + 1 \in 1..Len(s) /\ m + 1 # 0 /\ (m + 1) - 1 = m
      BY <1>3
    <3>2. s[m + 1] \in A
      BY <3>1
    <3> QED BY <1>1, <3>1, <3>2
  <2>2. CASE s[m + 1] \in T
    <3> DEFINE y == s[m + 1]
               a == G[m]
    <3>1. y \in A \intersect T /\ a \in Seq(A \intersect T) /\ G[m + 1] = Append(a, y)
      BY <1>3, <2>1, <2>2
    <3>2. \A n \in 1..m : s[n] \in T => \E k \in DOMAIN a : a[k] = s[n]
      BY <1>3
    <3> HIDE DEF a
    <3>3. /\ Append(a, y) \in Seq(A \intersect T) /\ Len(a) \in Nat
          /\ DOMAIN Append(a, y) = 1..(Len(a) + 1) /\ DOMAIN a = 1..Len(a)
          /\ \A k \in 1..Len(a) : Append(a, y)[k] = a[k]
          /\ Append(a, y)[Len(a) + 1] = y
      BY <3>1, AppendProperties
    <3>4. ASSUME NEW n \in 1..(m + 1), s[n] \in T
          PROVE  \E k \in DOMAIN Append(a, y) : Append(a, y)[k] = s[n]
      <4>1. CASE n = m + 1
        BY <3>3, <4>1
      <4>2. CASE n \in 1..m
        BY <3>2, <3>3, <3>4, <4>2
      <4> QED BY <4>1, <4>2
    <3> QED BY <3>1, <3>3, <3>4
  <2>3. CASE s[m + 1] \notin T
    <3>1. G[m + 1] = G[m]
      BY <2>1, <2>3
    <3>2. ASSUME NEW n \in 1..(m + 1) PROVE Has(m + 1, n)
      <4>1. CASE n = m + 1
        BY <2>3, <4>1
      <4>2. CASE n \in 1..m
        BY <1>3, <3>1, <4>2
      <4> QED BY <4>1, <4>2
    <3> QED BY <1>3, <3>1, <3>2
  <2> QED BY <2>2, <2>3
<1>4. Good(Len(s))
  <2>1. 0 \in S /\ \A n \in 0..Len(s) : n \in S /\ n < Len(s) => n + 1 \in S
    <3> HIDE DEF Good
    <3> QED BY <1>2, <1>3
  <2>2. \A n \in 0..Len(s) : n \in S
    <3> HIDE DEF S
    <3> QED BY <2>1, BoundedInduction
  <2> QED BY <2>2
<1>5. DOMAIN s = 1..Len(s)
  OBVIOUS
<1>6. \A n \in DOMAIN s : Has(Len(s), n)
  <2> HIDE DEF Has
  <2> QED BY <1>4, <1>5
<1> QED BY <1>1, <1>4, <1>6

-----------------------------------------------------------------------------
(* The script's program.                                                   *)

\* The entries a run on file f makes.
RoleEntries(f)   == {[key |-> p, val |-> RoleVal(f, p)] : p \in WithRole(f)}
DstEntries(f)    == {[key |-> e, val |-> [leaf |-> f.tofinoPort[e].id, port |-> f.tofinoPort[e]]] :
                       e \in {f.nics[n] : n \in DOMAIN f.nics}}
UplinkEntries(f) == {[key |-> p.id, val |-> p] : p \in Uplinks(f)}
SpineEntries     == {[key |-> <<s, l>>, val |-> Port("spine", s, l)] :
                       s \in 1..NumSpines, l \in 1..NumLeaves}

Entries(f) ==
  [t \in Tables |-> IF t = "t_port_role" THEN RoleEntries(f)
                    ELSE IF t = "t_dst_mac_classify" THEN DstEntries(f)
                    ELSE IF t = "t_leaf_uplink_v1" THEN UplinkEntries(f)
                    ELSE SpineEntries]

PushOf(t, e) == [op |-> "push", table |-> t, entry |-> e]
Clears       == {ClearCall(t) : t \in Tables}
Pushes(E, t) == {PushOf(t, e) : e \in E[t]}
Calls(E)     == Clears \union UNION {Pushes(E, t) : t \in Tables}

\* b writes the tables T: it clears each of them once and then pushes its entries.
Writes(b, E, T) ==
  /\ b \in Seq(Calls(E))
  /\ \A n \in DOMAIN b : b[n].table \in T
  /\ \A t \in T : \E c \in DOMAIN b :
       /\ b[c] = ClearCall(t)
       /\ \A n \in DOMAIN b : b[n].table = t => n >= c /\ (b[n].op = "clear" => n = c)
  /\ \A t \in T : \A e \in E[t] : \E n \in DOMAIN b : b[n] = PushOf(t, e)

LEMMA BlockWrites ==
  ASSUME NEW E, NEW t \in Tables, NEW q \in Seq(Pushes(E, t)),
         \A e \in E[t] : \E n \in DOMAIN q : q[n] = PushOf(t, e)
  PROVE  Writes(<<ClearCall(t)>> \o q, E, {t})
<1> DEFINE c == ClearCall(t)
           h == <<c>>
           b == h \o q
<1>1. c \in Calls(E) /\ Pushes(E, t) \subseteq Calls(E)
  BY DEF Calls, Clears
<1>2. h \in Seq(Calls(E)) /\ q \in Seq(Calls(E)) /\ Len(h) = 1 /\ h[1] = c
  BY <1>1, SeqMonotonic
<1>3. c.op = "clear" /\ c.table = t
  BY DEF ClearCall
<1>4. \A x \in Pushes(E, t) : x.op = "push" /\ x.table = t
  BY DEF Pushes, PushOf
<1> HIDE DEF c, h
<1>5. /\ b \in Seq(Calls(E)) /\ Len(b) = 1 + Len(q) /\ Len(q) \in Nat
      /\ \A i \in 1..(1 + Len(q)) : b[i] = IF i <= 1 THEN h[i] ELSE q[i - 1]
  <2>1. /\ b \in Seq(Calls(E)) /\ Len(b) = Len(h) + Len(q)
        /\ \A i \in 1..(Len(h) + Len(q)) : b[i] = IF i <= Len(h) THEN h[i] ELSE q[i - Len(h)]
    BY <1>2, ConcatProperties
  <2> QED BY <1>2, <2>1
<1>6. b[1] = c /\ DOMAIN b = 1..(1 + Len(q))
  BY <1>2, <1>5
<1>7. \A i \in 2..(1 + Len(q)) : b[i] = q[i - 1] /\ i - 1 \in DOMAIN q
  BY <1>5
<1>8. \A i \in 2..(1 + Len(q)) : b[i].op = "push" /\ b[i].table = t
  <2> SUFFICES ASSUME NEW i \in 2..(1 + Len(q)) PROVE q[i - 1].op = "push" /\ q[i - 1].table = t
    BY <1>7
  <2>1. q[i - 1] \in Pushes(E, t)
    BY <1>7
  <2> QED BY <1>4, <2>1
<1>9. \A k \in DOMAIN q : k + 1 \in DOMAIN b /\ b[k + 1] = q[k]
  BY <1>5, <1>6
<1> HIDE DEF b
<1>10. \A e \in E[t] : \E n \in DOMAIN b : b[n] = PushOf(t, e)
  BY <1>9
<1>11. \A n \in DOMAIN b : b[n].table = t /\ (b[n].op = "clear" => n = 1) /\ n >= 1
  BY <1>3, <1>5, <1>6, <1>8
<1>12. 1 \in DOMAIN b
  BY <1>5, <1>6
<1>13. Writes(b, E, {t})
  BY <1>5, <1>6, <1>10, <1>11, <1>12 DEF Writes, c
<1> QED BY <1>13 DEF b, c, h

LEMMA JoinWrites ==
  ASSUME NEW E, NEW S, NEW T, S \intersect T = {}, NEW a, NEW b, Writes(a, E, S), Writes(b, E, T)
  PROVE  Writes(a \o b, E, S \union T)
<1>1. a \in Seq(Calls(E)) /\ b \in Seq(Calls(E)) /\ Len(a) \in Nat /\ Len(b) \in Nat
  BY DEF Writes
<1> DEFINE d == a \o b
<1>2. /\ d \in Seq(Calls(E)) /\ Len(d) = Len(a) + Len(b)
      /\ \A i \in 1..(Len(a) + Len(b)) : d[i] = IF i <= Len(a) THEN a[i] ELSE b[i - Len(a)]
  BY <1>1, ConcatProperties
<1> HIDE DEF d
<1>3. \A i \in DOMAIN a : i \in DOMAIN d /\ d[i] = a[i]
  BY <1>1, <1>2
<1>4. \A i \in DOMAIN b : i + Len(a) \in DOMAIN d /\ d[i + Len(a)] = b[i]
  BY <1>1, <1>2
<1>5. ASSUME NEW i \in DOMAIN d
      PROVE  \/ i \in DOMAIN a /\ d[i] = a[i]
             \/ i \in Nat /\ i - Len(a) \in DOMAIN b /\ d[i] = b[i - Len(a)]
  BY <1>1, <1>2
<1>6. \A i \in DOMAIN d : d[i].table \in S \union T
  BY <1>5 DEF Writes
<1>7. ASSUME NEW t \in S \union T, NEW e \in E[t]
      PROVE  \E n \in DOMAIN d : d[n] = PushOf(t, e)
  BY <1>3, <1>4 DEF Writes
<1>8. ASSUME NEW t \in S \union T
      PROVE  \E c \in DOMAIN d :
               /\ d[c] = ClearCall(t)
               /\ \A n \in DOMAIN d : d[n].table = t => n >= c /\ (d[n].op = "clear" => n = c)
  <2>1. CASE t \in S
    <3>1. PICK c \in DOMAIN a :
            /\ a[c] = ClearCall(t)
            /\ \A n \in DOMAIN a : a[n].table = t => n >= c /\ (a[n].op = "clear" => n = c)
      BY <2>1 DEF Writes
    <3>2. \A n \in DOMAIN b : b[n].table # t
      BY <2>1 DEF Writes
    <3>3. ASSUME NEW n \in DOMAIN d, d[n].table = t PROVE n \in DOMAIN a /\ d[n] = a[n]
      BY <1>5, <3>2, <3>3
    <3> QED BY <1>3, <3>1, <3>3
  <2>2. CASE t \in T
    <3>1. PICK c \in DOMAIN b :
            /\ b[c] = ClearCall(t)
            /\ \A n \in DOMAIN b : b[n].table = t => n >= c /\ (b[n].op = "clear" => n = c)
      BY <2>2 DEF Writes
    <3>2. \A n \in DOMAIN a : a[n].table # t
      BY <2>2 DEF Writes
    <3>3. ASSUME NEW n \in DOMAIN d, d[n].table = t
          PROVE  n \in Nat /\ n - Len(a) \in DOMAIN b /\ d[n] = b[n - Len(a)]
      BY <1>5, <3>2, <3>3
    <3>4. c \in Nat /\ c + Len(a) \in DOMAIN d /\ d[c + Len(a)] = ClearCall(t)
      BY <1>1, <1>4, <3>1
    <3>5. ASSUME NEW n \in DOMAIN d, d[n].table = t
          PROVE  n >= c + Len(a) /\ (d[n].op = "clear" => n = c + Len(a))
      <4>1. n - Len(a) >= c /\ (d[n].op = "clear" => n - Len(a) = c) /\ n \in Nat
        BY <3>1, <3>3, <3>5
      <4> QED BY <1>1, <3>4, <4>1
    <3> QED BY <3>4, <3>5
  <2> QED BY <2>1, <2>2
<1>9. Writes(d, E, S \union T)
  BY <1>2, <1>6, <1>7, <1>8 DEF Writes
<1> QED BY <1>9 DEF d

\* The loop over spines and leaves, by its number of turns.
LEMMA PairOfTurn ==
  ASSUME NEW S \in Nat, NEW L \in Nat, NEW n \in 1..(S * L)
  PROVE  ((n - 1) \div L) + 1 \in 1..S /\ ((n - 1) % L) + 1 \in 1..L
<1>1. L > 0 /\ S > 0 /\ n - 1 \in Nat
  <2>1. S * L >= 1 /\ S * L \in Nat
    OBVIOUS
  <2>2. S # 0 /\ L # 0
    BY <2>1
  <2> QED BY <2>2
<1> DEFINE q == (n - 1) \div L
           r == (n - 1) % L
<1>2. n - 1 = L * q + r /\ q \in Nat /\ r \in 0..(L - 1)
  BY <1>1
<1> HIDE DEF q, r
<1>3. q < S
  <2> SUFFICES ASSUME q >= S PROVE FALSE
    BY <1>2
  <2>1. L * q >= L * S
    BY <1>1, <1>2
  <2>2. L * S = S * L /\ n - 1 < S * L
    BY <1>1
  <2> QED BY <1>1, <1>2, <2>1, <2>2
<1>4. q + 1 \in 1..S /\ r + 1 \in 1..L
  BY <1>1, <1>2, <1>3
<1> QED BY <1>4 DEF q, r

LEMMA TurnOfPair ==
  ASSUME NEW s \in 1..NumSpines, NEW l \in 1..NumLeaves
  PROVE  \E n \in 1..(NumSpines * NumLeaves) :
           ((n - 1) \div NumLeaves) + 1 = s /\ ((n - 1) % NumLeaves) + 1 = l
<1> DEFINE m == (s - 1) * NumLeaves
<1>1. m \in Nat /\ NumLeaves \in Nat \ {0} /\ s - 1 \in Nat /\ NumSpines \in Nat
  BY BoundAssumption
<1>2. m + l <= NumSpines * NumLeaves
  <2>1. m + NumLeaves = s * NumLeaves
    BY BoundAssumption
  <2>2. s * NumLeaves <= NumSpines * NumLeaves
    BY BoundAssumption
  <2>3. s * NumLeaves \in Nat /\ NumSpines * NumLeaves \in Nat
    BY BoundAssumption
  <2> HIDE DEF m
  <2> QED BY <1>1, <2>1, <2>2, <2>3
<1>3. (m + (l - 1)) \div NumLeaves = s - 1 /\ (m + (l - 1)) % NumLeaves = l - 1
  <2>1. /\ m + (l - 1) = NumLeaves * (s - 1) + (l - 1)
        /\ l - 1 \in 0..(NumLeaves - 1) /\ NumLeaves > 0
    BY BoundAssumption
  <2> QED BY <1>1, <2>1
<1>4. m + l \in 1..(NumSpines * NumLeaves) /\ (m + l) - 1 = m + (l - 1)
  <2> HIDE DEF m
  <2> QED BY <1>1, <1>2
<1> HIDE DEF m
<1> QED BY <1>1, <1>3, <1>4

LEMMA SeqOfFunction ==
  ASSUME NEW S, NEW k \in Nat, NEW g \in [1..k -> S]
  PROVE  g \in Seq(S) /\ Len(g) = k
OBVIOUS

LEMMA RoleWrites ==
  ASSUME NEW f, FileType(f)
  PROVE  Writes(RoleCalls(f), Entries(f), {"t_port_role"})
<1> DEFINE ps == Among(f.ports, WithRole(f))
           q  == [n \in DOMAIN ps |-> PushCall("t_port_role", ps[n], RoleVal(f, ps[n]))]
           e(p) == [key |-> p, val |-> RoleVal(f, p)]
<1>1. f.ports \in Seq(Ports) /\ {f.ports[n] : n \in DOMAIN f.ports} = Ports
  BY DEF FileType
<1>2. ps \in Seq(Ports \intersect WithRole(f)) /\ (\A p \in WithRole(f) : \E k \in DOMAIN ps : ps[k] = p)
  <2>1. WithRole(f) \subseteq Ports
    BY DEF WithRole
  <2>2. \A p \in WithRole(f) : \E n \in DOMAIN f.ports : f.ports[n] = p
    BY <1>1, <2>1
  <2> QED BY <1>1, <2>2, AmongElements
<1> HIDE DEF ps
<1>3. "t_port_role" \in Tables /\ Entries(f)["t_port_role"] = {e(p) : p \in WithRole(f)}
  BY DEF Tables, Entries, RoleEntries
<1>4. \A p : PushCall("t_port_role", p, RoleVal(f, p)) = PushOf("t_port_role", e(p))
  BY DEF PushCall, PushOf
<1>5. q \in Seq(Pushes(Entries(f), "t_port_role")) /\ Len(q) = Len(ps)
  <2>1. DOMAIN ps = 1..Len(ps) /\ Len(ps) \in Nat /\ \A n \in DOMAIN ps : ps[n] \in WithRole(f)
    BY <1>2
  <2>2. \A n \in DOMAIN ps : q[n] \in Pushes(Entries(f), "t_port_role")
    BY <1>3, <1>4, <2>1 DEF Pushes
  <2>3. q \in [1..Len(ps) -> Pushes(Entries(f), "t_port_role")]
    BY <2>1, <2>2
  <2> HIDE DEF q
  <2> QED BY <2>1, <2>3, SeqOfFunction
<1>6. \A x \in Entries(f)["t_port_role"] : \E n \in DOMAIN q : q[n] = PushOf("t_port_role", x)
  BY <1>2, <1>3, <1>4
<1>7. RoleCalls(f) = <<ClearCall("t_port_role")>> \o q
  BY DEF RoleCalls, ps
<1> HIDE DEF q
<1> QED BY <1>3, <1>5, <1>6, <1>7, BlockWrites

LEMMA DstWrites ==
  ASSUME NEW f, FileType(f)
  PROVE  Writes(DstCalls(f), Entries(f), {"t_dst_mac_classify"})
<1> DEFINE v(x) == [leaf |-> f.tofinoPort[x].id, port |-> f.tofinoPort[x]]
           q == [n \in DOMAIN f.nics |-> PushCall("t_dst_mac_classify", f.nics[n], v(f.nics[n]))]
           e(x) == [key |-> x, val |-> v(x)]
<1>1. f.nics \in Seq(Endpoints) /\ DOMAIN f.nics = 1..Len(f.nics) /\ Len(f.nics) \in Nat
  BY DEF FileType
<1>2. /\ "t_dst_mac_classify" \in Tables
      /\ Entries(f)["t_dst_mac_classify"] = {e(x) : x \in {f.nics[n] : n \in DOMAIN f.nics}}
  BY DEF Tables, Entries, DstEntries
<1>3. \A x : PushCall("t_dst_mac_classify", x, v(x)) = PushOf("t_dst_mac_classify", e(x))
  BY DEF PushCall, PushOf
<1> HIDE DEF v
<1>4. q \in Seq(Pushes(Entries(f), "t_dst_mac_classify"))
  <2>1. \A n \in DOMAIN f.nics : q[n] \in Pushes(Entries(f), "t_dst_mac_classify")
    BY <1>2, <1>3 DEF Pushes
  <2>2. q \in [1..Len(f.nics) -> Pushes(Entries(f), "t_dst_mac_classify")]
    BY <1>1, <2>1
  <2> HIDE DEF q
  <2> QED BY <1>1, <2>2, SeqOfFunction
<1>5. \A x \in Entries(f)["t_dst_mac_classify"] :
        \E n \in DOMAIN q : q[n] = PushOf("t_dst_mac_classify", x)
  BY <1>2, <1>3
<1>6. DstCalls(f) = <<ClearCall("t_dst_mac_classify")>> \o q
  BY DEF DstCalls, v
<1> HIDE DEF q
<1> QED BY <1>2, <1>4, <1>5, <1>6, BlockWrites

LEMMA UplinkWrites ==
  ASSUME NEW f, FileType(f)
  PROVE  Writes(UplinkCalls(f), Entries(f), {"t_leaf_uplink_v1"})
<1> DEFINE ps == Among(f.ports, Uplinks(f))
           q  == [n \in DOMAIN ps |-> PushCall("t_leaf_uplink_v1", ps[n].id, ps[n])]
           e(p) == [key |-> p.id, val |-> p]
<1>1. f.ports \in Seq(Ports) /\ {f.ports[n] : n \in DOMAIN f.ports} = Ports
  BY DEF FileType
<1>2. ps \in Seq(Ports \intersect Uplinks(f)) /\ (\A p \in Uplinks(f) : \E k \in DOMAIN ps : ps[k] = p)
  <2>1. Uplinks(f) \subseteq Ports
    BY DEF Uplinks
  <2>2. \A p \in Uplinks(f) : \E n \in DOMAIN f.ports : f.ports[n] = p
    BY <1>1, <2>1
  <2> QED BY <1>1, <2>2, AmongElements
<1> HIDE DEF ps
<1>3. "t_leaf_uplink_v1" \in Tables /\ Entries(f)["t_leaf_uplink_v1"] = {e(p) : p \in Uplinks(f)}
  BY DEF Tables, Entries, UplinkEntries
<1>4. \A p : PushCall("t_leaf_uplink_v1", p.id, p) = PushOf("t_leaf_uplink_v1", e(p))
  BY DEF PushCall, PushOf
<1>5. q \in Seq(Pushes(Entries(f), "t_leaf_uplink_v1"))
  <2>1. DOMAIN ps = 1..Len(ps) /\ Len(ps) \in Nat /\ \A n \in DOMAIN ps : ps[n] \in Uplinks(f)
    BY <1>2
  <2>2. \A n \in DOMAIN ps : q[n] \in Pushes(Entries(f), "t_leaf_uplink_v1")
    BY <1>3, <1>4, <2>1 DEF Pushes
  <2>3. q \in [1..Len(ps) -> Pushes(Entries(f), "t_leaf_uplink_v1")]
    BY <2>1, <2>2
  <2> HIDE DEF q
  <2> QED BY <2>1, <2>3, SeqOfFunction
<1>6. \A x \in Entries(f)["t_leaf_uplink_v1"] : \E n \in DOMAIN q : q[n] = PushOf("t_leaf_uplink_v1", x)
  BY <1>2, <1>3, <1>4
<1>7. UplinkCalls(f) = <<ClearCall("t_leaf_uplink_v1")>> \o q
  BY DEF UplinkCalls, UplinkPushes, ps
<1> HIDE DEF q
<1> QED BY <1>3, <1>5, <1>6, <1>7, BlockWrites

LEMMA SpineWrites ==
  ASSUME NEW f
  PROVE  Writes(SpineCalls, Entries(f), {"t_spine_forward"})
<1> DEFINE s(n) == ((n - 1) \div NumLeaves) + 1
           l(n) == ((n - 1) % NumLeaves) + 1
           e(x, y) == [key |-> <<x, y>>, val |-> Port("spine", x, y)]
           q == [n \in 1..(NumSpines * NumLeaves) |->
                   PushCall("t_spine_forward", <<s(n), l(n)>>, Port("spine", s(n), l(n)))]
<1>1. NumSpines \in Nat /\ NumLeaves \in Nat /\ NumSpines * NumLeaves \in Nat
  BY BoundAssumption
<1>2. /\ "t_spine_forward" \in Tables
      /\ Entries(f)["t_spine_forward"] = {e(x, y) : x \in 1..NumSpines, y \in 1..NumLeaves}
  BY DEF Tables, Entries, SpineEntries
<1>3. \A x, y : PushCall("t_spine_forward", <<x, y>>, Port("spine", x, y)) = PushOf("t_spine_forward", e(x, y))
  BY DEF PushCall, PushOf
<1>4. \A n \in 1..(NumSpines * NumLeaves) : s(n) \in 1..NumSpines /\ l(n) \in 1..NumLeaves
  BY <1>1, PairOfTurn
<1>5. \A x \in 1..NumSpines, y \in 1..NumLeaves :
        \E n \in 1..(NumSpines * NumLeaves) : s(n) = x /\ l(n) = y
  <2> SUFFICES ASSUME NEW x \in 1..NumSpines, NEW y \in 1..NumLeaves
               PROVE  \E n \in 1..(NumSpines * NumLeaves) : s(n) = x /\ l(n) = y
    OBVIOUS
  <2>1. \E n \in 1..(NumSpines * NumLeaves) :
          ((n - 1) \div NumLeaves) + 1 = x /\ ((n - 1) % NumLeaves) + 1 = y
    BY TurnOfPair
  <2> QED BY <2>1
<1> HIDE DEF s, l, e
<1>6. q \in Seq(Pushes(Entries(f), "t_spine_forward"))
  <2>1. \A n \in 1..(NumSpines * NumLeaves) : q[n] \in Pushes(Entries(f), "t_spine_forward")
    BY <1>2, <1>3, <1>4 DEF Pushes
  <2>2. q \in [1..(NumSpines * NumLeaves) -> Pushes(Entries(f), "t_spine_forward")]
    BY <2>1
  <2> HIDE DEF q
  <2> QED BY <1>1, <2>2, SeqOfFunction
<1>7. ASSUME NEW x \in Entries(f)["t_spine_forward"]
      PROVE  \E n \in DOMAIN q : q[n] = PushOf("t_spine_forward", x)
  <2>1. PICK a \in 1..NumSpines, b \in 1..NumLeaves : x = e(a, b)
    BY <1>2
  <2>2. PICK n \in 1..(NumSpines * NumLeaves) : s(n) = a /\ l(n) = b
    BY <1>5
  <2> QED BY <1>3, <2>1, <2>2
<1>8. SpineCalls = <<ClearCall("t_spine_forward")>> \o q
  BY DEF SpineCalls, s, l
<1> HIDE DEF q
<1> QED BY <1>2, <1>6, <1>7, <1>8, BlockWrites

\* A run clears each table once and then pushes the entries of its file.
LEMMA ProgramWrites ==
  ASSUME NEW name \in Files
  PROVE  Writes(Program[name], Entries(Topology[name]), Tables)
<1> DEFINE f == Topology[name]
           E == Entries(f)
<1>1. FileType(f)
  BY FileAssumption
<1> HIDE DEF f
<1>2. Writes(RoleCalls(f), E, {"t_port_role"}) /\ Writes(DstCalls(f), E, {"t_dst_mac_classify"})
  BY <1>1, RoleWrites, DstWrites
<1>3. Writes(UplinkCalls(f), E, {"t_leaf_uplink_v1"}) /\ Writes(SpineCalls, E, {"t_spine_forward"})
  BY <1>1, UplinkWrites, SpineWrites
<1> HIDE DEF E
<1>4. Writes(RoleCalls(f) \o DstCalls(f), E, {"t_port_role"} \union {"t_dst_mac_classify"})
  BY <1>2, JoinWrites
<1>5. Writes((RoleCalls(f) \o DstCalls(f)) \o UplinkCalls(f), E,
             ({"t_port_role"} \union {"t_dst_mac_classify"}) \union {"t_leaf_uplink_v1"})
  BY <1>3, <1>4, JoinWrites
<1>6. Writes(((RoleCalls(f) \o DstCalls(f)) \o UplinkCalls(f)) \o SpineCalls, E,
             (({"t_port_role"} \union {"t_dst_mac_classify"}) \union {"t_leaf_uplink_v1"})
               \union {"t_spine_forward"})
  BY <1>3, <1>5, JoinWrites
<1>7. (({"t_port_role"} \union {"t_dst_mac_classify"}) \union {"t_leaf_uplink_v1"})
        \union {"t_spine_forward"} = Tables
  BY DEF Tables
<1>8. Program[name] = ((RoleCalls(f) \o DstCalls(f)) \o UplinkCalls(f)) \o SpineCalls
  BY DEF Program, f
<1> QED BY <1>6, <1>7, <1>8 DEF E, f

-----------------------------------------------------------------------------
(* The inductive invariant: the script.                                    *)

\* What the calls up to number m of a run on a file have made of the tables.
Progress(tables, name, m) ==
  \A n \in 1..m :
    LET c == Program[name][n] IN
      /\ c.op = "clear" => tables[c.table] \subseteq Entries(Topology[name])[c.table]
      /\ c.op = "push"  => \E e \in tables[c.table] : e.key = c.entry.key

ScriptInv ==
  /\ step \in 0..Len(Program[loaded])
  /\ \A t \in Tables : \A e \in table[t] : \E name \in tried : e \in Entries(Topology[name])[t]
  /\ step # 0 => loaded \in tried /\ Progress(table, loaded, step - 1)
  /\ complete => Progress(table, loaded, Len(Program[loaded]))

\* The call that comes next.
LEMMA NextCall ==
  ASSUME loaded \in Files, step \in 1..Len(Program[loaded])
  PROVE  LET P == Program[loaded]
             c == P[step]
         IN  /\ c.table \in Tables
             /\ \/ c.op = "clear" /\ (\A n \in 1..(step - 1) : P[n].table # c.table)
                \/ c.op = "push" /\ c.entry \in Entries(Topology[loaded])[c.table]
<1> DEFINE P == Program[loaded]
           E == Entries(Topology[loaded])
           c == P[step]
<1>1. Writes(P, E, Tables)
  BY ProgramWrites
<1> HIDE DEF P, E
<1>2. P \in Seq(Calls(E)) /\ step \in DOMAIN P /\ step \in Nat
  BY <1>1 DEF Writes, P
<1>3. c \in Calls(E)
  BY <1>2
<1>4. CASE c \in Clears
  <2>1. PICK t \in Tables : c = ClearCall(t)
    BY <1>4 DEF Clears
  <2>2. c.op = "clear" /\ c.table = t
    BY <2>1 DEF ClearCall
  <2>3. PICK m \in DOMAIN P :
          \A n \in DOMAIN P : P[n].table = t => n >= m /\ (P[n].op = "clear" => n = m)
    BY <1>1 DEF Writes
  <2>4. step = m
    BY <1>2, <2>2, <2>3
  <2>5. \A n \in 1..(step - 1) : n \in DOMAIN P /\ n < step
    BY <1>2
  <2>6. \A n \in 1..(step - 1) : P[n].table # t
    BY <1>2, <2>3, <2>4, <2>5
  <2> QED BY <2>2, <2>6 DEF P
<1>5. CASE c \notin Clears
  <2>1. PICK t \in Tables : c \in Pushes(E, t)
    BY <1>3, <1>5 DEF Calls
  <2>2. c.op = "push" /\ c.table = t /\ c.entry \in E[t]
    BY <2>1 DEF Pushes, PushOf
  <2> QED BY <2>2 DEF P, E
<1> QED BY <1>4, <1>5

\* What a call does to its table, and that it leaves the others alone.
LEMMA CallEffect ==
  ASSUME TypeOK, ScriptInv, Call
  PROVE  LET c == Program[loaded][step] IN
           /\ step \in 1..Len(Program[loaded]) /\ c.table \in Tables /\ DOMAIN table' = Tables
           /\ \A t \in Tables : t # c.table => table'[t] = table[t]
           /\ \/ c.op = "clear" /\ table'[c.table] = {}
                 /\ (\A n \in 1..(step - 1) : Program[loaded][n].table # c.table)
              \/ /\ c.op = "push" /\ c.entry \in Entries(Topology[loaded])[c.table]
                 /\ \/ table'[c.table] = {e \in table[c.table] : e.key # c.entry.key} \union {c.entry}
                    \/ /\ \E e \in table[c.table] : e.key = c.entry.key
                       /\ table' = table
<1> DEFINE c == Program[loaded][step]
<1>1. step \in 1..Len(Program[loaded]) /\ loaded \in Files /\ DOMAIN table = Tables
  <2>1. Len(Program[loaded]) \in Nat
    BY ProgramWrites DEF TypeOK, Writes
  <2> QED BY <2>1 DEF TypeOK, ScriptInv, Call
<1>2. /\ c.table \in Tables
      /\ \/ c.op = "clear" /\ (\A n \in 1..(step - 1) : Program[loaded][n].table # c.table)
         \/ c.op = "push" /\ c.entry \in Entries(Topology[loaded])[c.table]
  BY <1>1, NextCall
<1>3. \/ c.op = "clear" /\ table' = [table EXCEPT ![c.table] = {}]
      \/ /\ c.op = "push"
         /\ table' = [table EXCEPT ![c.table] =
                        {e \in table[c.table] : e.key # c.entry.key} \union {c.entry}]
      \/ /\ c.op = "push"
         /\ \E e \in table[c.table] : e.key = c.entry.key
         /\ table' = table
  BY DEF Call
<1> HIDE DEF c
<1>4. /\ DOMAIN table' = Tables
      /\ \A t \in Tables : t # c.table => table'[t] = table[t]
      /\ \/ c.op = "clear" /\ table'[c.table] = {}
         \/ /\ c.op = "push"
            /\ table'[c.table] = {e \in table[c.table] : e.key # c.entry.key} \union {c.entry}
         \/ /\ c.op = "push"
            /\ \E e \in table[c.table] : e.key = c.entry.key
            /\ table' = table
  BY <1>1, <1>2, <1>3
<1>5. "clear" # "push"
  OBVIOUS
<1> QED BY <1>1, <1>2, <1>4, <1>5 DEF c

LEMMA ProgramLen == ASSUME NEW name \in Files PROVE Len(Program[name]) \in Nat
BY ProgramWrites DEF Writes

LEMMA CallStep ==
  ASSUME TypeOK, ScriptInv, Call
  PROVE  ScriptInv'
<1> DEFINE P == Program[loaded]
           E == Entries(Topology[loaded])
           c == P[step]
<1>1. /\ step \in 1..Len(P) /\ c.table \in Tables
      /\ \A t \in Tables : t # c.table => table'[t] = table[t]
      /\ \/ c.op = "clear" /\ table'[c.table] = {} /\ (\A n \in 1..(step - 1) : P[n].table # c.table)
         \/ /\ c.op = "push" /\ c.entry \in E[c.table]
            /\ \/ table'[c.table] = {e \in table[c.table] : e.key # c.entry.key} \union {c.entry}
               \/ /\ \E e \in table[c.table] : e.key = c.entry.key
                  /\ table' = table
  BY CallEffect
<1>2. /\ Len(P) \in Nat /\ step \in Nat /\ loaded \in tried /\ Progress(table, loaded, step - 1)
      /\ UNCHANGED <<loaded, tried>>
      /\ complete' = (step = Len(P)) /\ step' = IF complete' THEN 0 ELSE step + 1
      /\ \A t \in Tables : \A e \in table[t] : \E name \in tried : e \in Entries(Topology[name])[t]
  BY <1>1, ProgramLen DEF ScriptInv, Call, TypeOK
<1>3. \A t \in Tables : \A e \in table'[t] : \E name \in tried' : e \in Entries(Topology[name])[t]
  <2> SUFFICES ASSUME NEW t \in Tables, NEW e \in table'[t], e \notin table[t]
               PROVE  \E name \in tried : e \in Entries(Topology[name])[t]
    BY <1>2
  <2>1. t = c.table /\ e = c.entry /\ e \in E[c.table]
    BY <1>1
  <2> QED BY <1>2, <2>1
<1>4. Progress(table', loaded, step)
  <2> DEFINE Done(n) == /\ P[n].op = "clear" => table'[P[n].table] \subseteq E[P[n].table]
                        /\ P[n].op = "push"  => \E e \in table'[P[n].table] : e.key = P[n].entry.key
  <2> HIDE DEF P, E
  <2>1. ASSUME NEW n \in 1..(step - 1) PROVE Done(n)
    <3> DEFINE t == P[n].table
    <3>1. /\ P[n].op = "clear" => table[t] \subseteq E[t]
          /\ P[n].op = "push"  => \E e \in table[t] : e.key = P[n].entry.key
      BY <1>2 DEF Progress, P, E
    <3>2. CASE t # c.table
      <4>1. t \in Tables
        <5>1. n \in 1..Len(P) /\ loaded \in Files
          BY <1>2, <1>1 DEF TypeOK
        <5>2. Writes(P, E, Tables)
          BY <5>1, ProgramWrites DEF P, E
        <5>3. DOMAIN P = 1..Len(P)
          BY <5>2 DEF Writes
        <5> QED BY <5>1, <5>2, <5>3 DEF Writes
      <4> QED BY <1>1, <3>1, <3>2, <4>1
    <3>3. CASE t = c.table
      BY <1>1, <3>1, <3>3
    <3> QED BY <3>2, <3>3
  <2>2. Done(step)
    BY <1>1
  <2>3. \A n \in 1..step : n \in 1..(step - 1) \/ n = step
    BY <1>2
  <2>4. \A n \in 1..step : Done(n)
    <3> HIDE DEF Done
    <3> QED BY <2>1, <2>2, <2>3
  <2> QED BY <1>2, <2>4 DEF Progress, P, E
<1>5. CASE step = Len(P)
  <2>1. step' = 0 /\ Progress(table', loaded, Len(P))
    BY <1>2, <1>4, <1>5
  <2> QED BY <1>2, <1>3, <2>1 DEF ScriptInv
<1>6. CASE step # Len(P)
  <2>1. step' = step + 1 /\ ~complete' /\ step' - 1 = step /\ step + 1 \in 0..Len(P)
    <3> HIDE DEF P, E, c
    <3>1. step \in Nat /\ Len(P) \in Nat /\ step \in 1..Len(P) /\ step # Len(P)
      BY <1>1, <1>2, <1>6
    <3>2. step + 1 \in 0..Len(P) /\ (step + 1) - 1 = step
      BY <3>1
    <3>3. step' = step + 1 /\ ~complete'
      BY <1>2, <1>6
    <3> QED BY <3>2, <3>3
  <2>2. Progress(table', loaded, step' - 1)
    BY <1>4, <2>1
  <2>3. step' \in 0..Len(P)
    <3> HIDE DEF P
    <3> QED BY <2>1
  <2> QED BY <1>2, <1>3, <2>1, <2>2, <2>3 DEF ScriptInv
<1> QED BY <1>5, <1>6

LEMMA ScriptStep == TypeOK /\ ScriptInv /\ [Next]_vars => ScriptInv'
<1> SUFFICES ASSUME TypeOK, ScriptInv, [Next]_vars PROVE ScriptInv'
  OBVIOUS
<1>1. CASE \E name \in Files : Start(name)
  <2>1. PICK name \in Files : Start(name)
    BY <1>1
  <2>2. step' = 1 /\ loaded' = name /\ ~complete' /\ tried' = tried \union {name} /\ UNCHANGED table
    BY <2>1 DEF Start
  <2>3. 1 \in 0..Len(Program[name])
    <3>1. Len(Program[name]) \in Nat
      BY ProgramLen
    <3>2. \E c \in DOMAIN Program[name] : TRUE
      BY ProgramWrites DEF Writes, Tables
    <3>3. DOMAIN Program[name] = 1..Len(Program[name])
      BY ProgramWrites DEF Writes
    <3> QED BY <3>1, <3>2, <3>3
  <2>4. Progress(table', name, step' - 1)
    <3>1. 1..(step' - 1) = {}
      BY <2>2
    <3> QED BY <3>1 DEF Progress
  <2> QED BY <2>2, <2>3, <2>4 DEF ScriptInv
<1>2. CASE Call
  BY <1>2, CallStep
<1>3. CASE Abort
  <2>1. step' = 0 /\ UNCHANGED <<table, loaded, complete, tried>> /\ ~complete
    BY <1>3 DEF Abort, TypeOK
  <2>2. 0 \in 0..Len(Program[loaded])
    BY ProgramLen DEF TypeOK
  <2> QED BY <2>1, <2>2 DEF ScriptInv
<1>4. CASE (\E p \in Ports, mac \in Macs : Send(p, mac)) \/ Forward \/ UNCHANGED vars
  <2>1. UNCHANGED <<table, step, loaded, complete, tried>>
    BY <1>4 DEF Send, Forward, vars, scriptVars
  <2> QED BY <2>1 DEF ScriptInv
<1> QED BY <1>1, <1>2, <1>3, <1>4 DEF Next

LEMMA InitInv == Init => TypeOK /\ ScriptInv
<1> SUFFICES ASSUME Init PROVE TypeOK /\ ScriptInv
  OBVIOUS
<1>1. \A t \in Tables : table[t] = {}
  BY DEF Init
<1>2. frame = NoFrame /\ GroupMac \in Macs
  BY DEF Init, Macs
<1>3. TypeOK
  <2>1. FrameType
    BY <1>2, BoundAssumption DEF FrameType, NoFrame
  <2>2. DOMAIN table = Tables /\ loaded \in Files /\ complete = FALSE /\ runs = 0 /\ tried = {} /\ step = 0
    BY DEF Init
  <2>3. runs \in 0..MaxRuns
    BY <2>2, BoundAssumption
  <2>4. \A t \in Tables : \A e, f \in table[t] : e.key = f.key => e = f
    BY <1>1
  <2> QED BY <2>1, <2>2, <2>3, <2>4, Zenon DEF TypeOK, FrameType
<1>4. ScriptInv
  BY <1>1, ProgramLen DEF Init, ScriptInv
<1> QED BY <1>3, <1>4

LEMMA TypeStep == TypeOK /\ ScriptInv /\ [Next]_vars => TypeOK'
<1> SUFFICES ASSUME TypeOK, ScriptInv, [Next]_vars PROVE TypeOK'
  OBVIOUS
<1>1. CASE \E name \in Files : Start(name)
  <2>1. PICK name \in Files : Start(name)
    BY <1>1
  <2>2. FrameType'
    BY <2>1 DEF Start, TypeOK, FrameType
  <2>3. /\ UNCHANGED table /\ loaded' = name /\ complete' = FALSE /\ runs' = runs + 1
        /\ runs < MaxRuns /\ tried' = tried \union {name}
    BY <2>1 DEF Start
  <2>4. runs' \in 0..MaxRuns
    BY <2>3, BoundAssumption DEF TypeOK
  <2> QED BY <2>2, <2>3, <2>4 DEF TypeOK, FrameType
<1>2. CASE Call
  <2> DEFINE c == Program[loaded][step]
  <2>1. /\ step \in 1..Len(Program[loaded]) /\ c.table \in Tables /\ DOMAIN table' = Tables
        /\ \A t \in Tables : t # c.table => table'[t] = table[t]
        /\ \/ table'[c.table] = {}
           \/ table'[c.table] = {e \in table[c.table] : e.key # c.entry.key} \union {c.entry}
           \/ table' = table
    BY <1>2, CallEffect
  <2> HIDE DEF c
  <2>2. \A t \in Tables : \A e, f \in table'[t] : e.key = f.key => e = f
    <3> SUFFICES ASSUME NEW t \in Tables, NEW e \in table'[t], NEW f \in table'[t], e.key = f.key
                 PROVE  e = f
      OBVIOUS
    <3>1. \A x, y \in table[t] : x.key = y.key => x = y
      BY DEF TypeOK
    <3> QED BY <2>1, <3>1
  <2>3. complete' \in BOOLEAN /\ (complete' => step' = 0) /\ UNCHANGED <<loaded, runs, tried, frame>>
    BY <1>2 DEF Call
  <2> QED BY <2>1, <2>2, <2>3 DEF TypeOK, FrameType
<1>3. CASE Abort
  BY <1>3 DEF Abort, TypeOK, FrameType
<1>4. CASE \E p \in Ports, mac \in Macs : Send(p, mac)
  BY <1>4, BoundAssumption DEF Send, TypeOK, FrameType, scriptVars
<1>5. CASE Forward
  <2> DEFINE q == Egress(frame.at, frame.dst)
             far == FarEnd(q)
  <2>1. \/ frame' = [frame EXCEPT !.state = "dropped"]
        \/ frame' = [frame EXCEPT !.state = "astray"]
        \/ /\ far \in Ports
           /\ frame' = [frame EXCEPT !.at = far,
                          !.hops = IF frame.hops < MaxHops THEN frame.hops + 1 ELSE frame.hops]
        \/ far \in Endpoints /\ frame' = [frame EXCEPT !.at = far, !.state = "delivered"]
    BY <1>5 DEF Forward
  <2> HIDE DEF far, q
  <2>2. UNCHANGED <<table, scriptVars>> /\ frame.state = "flying"
    BY <1>5 DEF Forward
  <2>3. FrameType
    BY DEF TypeOK, FrameType
  <2>4. ASSUME /\ far \in Ports
               /\ frame' = [frame EXCEPT !.at = far,
                              !.hops = IF frame.hops < MaxHops THEN frame.hops + 1 ELSE frame.hops]
        PROVE  FrameType'
    <3>1. (IF frame.hops < MaxHops THEN frame.hops + 1 ELSE frame.hops) \in 0..MaxHops
      BY <2>3, BoundAssumption DEF FrameType
    <3> QED BY <2>2, <2>3, <2>4, <3>1 DEF FrameType
  <2>5. ASSUME far \in Endpoints /\ frame' = [frame EXCEPT !.at = far, !.state = "delivered"]
        PROVE  FrameType'
    BY <2>3, <2>5 DEF FrameType
  <2>6. ASSUME \/ frame' = [frame EXCEPT !.state = "dropped"]
               \/ frame' = [frame EXCEPT !.state = "astray"]
        PROVE  FrameType'
    BY <2>3, <2>6 DEF FrameType
  <2>7. FrameType'
    BY <2>1, <2>4, <2>5, <2>6
  <2>8. UNCHANGED <<table, step, loaded, complete, runs, tried>>
    BY <2>2 DEF scriptVars
  <2> QED BY <2>7, <2>8 DEF TypeOK, FrameType
<1>6. CASE UNCHANGED vars
  BY <1>6 DEF vars, scriptVars, TypeOK, FrameType
<1> QED BY <1>1, <1>2, <1>3, <1>4, <1>5, <1>6 DEF Next

-----------------------------------------------------------------------------
(* What the tables answer.                                                 *)

Cabling == Topology[Cabled]
Nics    == DOMAIN Cabling.tofinoPort
NicPort(mac) == Cabling.tofinoPort[mac]

\* Every entry is one of the cabled file's.
Sound == \A t \in Tables : table[t] \subseteq Entries(Cabling)[t]

\* Every entry of the cabled file has its key in the tables.
Present == \A t \in Tables : \A e \in Entries(Cabling)[t] : \E x \in table[t] : x.key = e.key

LEMMA CablingType == FileType(Cabling) /\ Nics = {Cabling.nics[n] : n \in DOMAIN Cabling.nics}
<1>1. FileType(Cabling)
  BY FileAssumption DEF Cabling
<1> QED BY <1>1 DEF FileType, Nics

LEMMA LookupCases ==
  ASSUME NEW t, NEW k, NEW default
  PROVE  \/ Lookup(t, k, default) = default /\ ~ \E e \in table[t] : e.key = k
         \/ \E e \in table[t] : e.key = k /\ Lookup(t, k, default) = e.val
BY DEF Lookup

LEMMA RoleAnswer ==
  ASSUME Sound, NEW p \in Ports
  PROVE  /\ \/ RoleOf(p) = [kind |-> "K_UNKNOWN", leaf |-> 0, spine |-> 0]
            \/ p \in WithRole(Cabling) /\ RoleOf(p) = RoleVal(Cabling, p)
         /\ Present /\ p \in WithRole(Cabling) => RoleOf(p) = RoleVal(Cabling, p)
<1> DEFINE none == [kind |-> "K_UNKNOWN", leaf |-> 0, spine |-> 0]
<1>1. "t_port_role" \in Tables /\ Entries(Cabling)["t_port_role"] = RoleEntries(Cabling)
  BY DEF Tables, Entries
<1>2. \A e \in table["t_port_role"] : e.key = p => p \in WithRole(Cabling) /\ e.val = RoleVal(Cabling, p)
  BY <1>1 DEF Sound, RoleEntries
<1>3. Present /\ p \in WithRole(Cabling) => \E x \in table["t_port_role"] : x.key = p
  <2> SUFFICES ASSUME Present, p \in WithRole(Cabling) PROVE \E x \in table["t_port_role"] : x.key = p
    OBVIOUS
  <2>1. [key |-> p, val |-> RoleVal(Cabling, p)] \in Entries(Cabling)["t_port_role"]
    BY <1>1 DEF RoleEntries
  <2> QED BY <1>1, <2>1 DEF Present
<1>4. \/ RoleOf(p) = none /\ ~ \E e \in table["t_port_role"] : e.key = p
      \/ \E e \in table["t_port_role"] : e.key = p /\ RoleOf(p) = e.val
  <2> HIDE DEF none
  <2> QED BY LookupCases DEF RoleOf, none
<1> HIDE DEF none
<1>5. \/ RoleOf(p) = none
      \/ p \in WithRole(Cabling) /\ RoleOf(p) = RoleVal(Cabling, p)
  BY <1>2, <1>4
<1>6. Present /\ p \in WithRole(Cabling) => RoleOf(p) = RoleVal(Cabling, p)
  BY <1>2, <1>3, <1>4
<1> QED BY <1>5, <1>6 DEF none

LEMMA DstAnswer ==
  ASSUME Sound, NEW mac
  PROVE  /\ \/ DstOf(mac) = [leaf |-> 0, port |-> Port0]
            \/ mac \in Nics /\ DstOf(mac) = [leaf |-> NicPort(mac).id, port |-> NicPort(mac)]
         /\ Present /\ mac \in Nics => DstOf(mac) = [leaf |-> NicPort(mac).id, port |-> NicPort(mac)]
<1> DEFINE none == [leaf |-> 0, port |-> Port0]
           val  == [leaf |-> NicPort(mac).id, port |-> NicPort(mac)]
           t    == "t_dst_mac_classify"
<1>1. t \in Tables /\ Entries(Cabling)[t] = DstEntries(Cabling)
  BY DEF Tables, Entries
<1>2. \A e \in table[t] : e.key = mac => mac \in Nics /\ e.val = val
  BY <1>1, CablingType DEF Sound, DstEntries, NicPort
<1>3. Present /\ mac \in Nics => \E x \in table[t] : x.key = mac
  <2> SUFFICES ASSUME Present, mac \in Nics PROVE \E x \in table[t] : x.key = mac
    OBVIOUS
  <2>1. [key |-> mac, val |-> val] \in Entries(Cabling)[t]
    BY <1>1, CablingType DEF DstEntries, NicPort
  <2> QED BY <1>1, <2>1 DEF Present
<1> HIDE DEF none, val
<1>4. \/ DstOf(mac) = none /\ ~ \E e \in table[t] : e.key = mac
      \/ \E e \in table[t] : e.key = mac /\ DstOf(mac) = e.val
  BY LookupCases DEF DstOf, none
<1>5. DstOf(mac) = none \/ (mac \in Nics /\ DstOf(mac) = val)
  BY <1>2, <1>4
<1>6. Present /\ mac \in Nics => DstOf(mac) = val
  BY <1>2, <1>3, <1>4
<1> QED BY <1>5, <1>6 DEF none, val

LEMMA UplinkAnswer ==
  ASSUME Sound, NEW leaf
  PROVE  /\ UplinkOf(leaf) = Port0 \/ (UplinkOf(leaf) \in Uplinks(Cabling) /\ UplinkOf(leaf).id = leaf)
         /\ Present /\ (\E p \in Uplinks(Cabling) : p.id = leaf) => UplinkOf(leaf) \in Uplinks(Cabling)
<1> DEFINE t == "t_leaf_uplink_v1"
<1>1. t \in Tables /\ Entries(Cabling)[t] = UplinkEntries(Cabling)
  BY DEF Tables, Entries
<1>2. \A e \in table[t] : e.key = leaf => e.val \in Uplinks(Cabling) /\ e.val.id = leaf
  BY <1>1 DEF Sound, UplinkEntries
<1>3. Present /\ (\E p \in Uplinks(Cabling) : p.id = leaf) => \E x \in table[t] : x.key = leaf
  <2> SUFFICES ASSUME Present, NEW p \in Uplinks(Cabling), p.id = leaf PROVE \E x \in table[t] : x.key = leaf
    OBVIOUS
  <2>1. [key |-> leaf, val |-> p] \in Entries(Cabling)[t]
    BY <1>1 DEF UplinkEntries
  <2> QED BY <1>1, <2>1 DEF Present
<1>4. \/ UplinkOf(leaf) = Port0 /\ ~ \E e \in table[t] : e.key = leaf
      \/ \E e \in table[t] : e.key = leaf /\ UplinkOf(leaf) = e.val
  BY LookupCases DEF UplinkOf
<1> QED BY <1>2, <1>3, <1>4

LEMMA SpineAnswer ==
  ASSUME Sound, NEW s, NEW l
  PROVE  /\ \/ SpineOf(s, l) = Port0
            \/ s \in 1..NumSpines /\ l \in 1..NumLeaves /\ SpineOf(s, l) = Port("spine", s, l)
         /\ Present /\ s \in 1..NumSpines /\ l \in 1..NumLeaves => SpineOf(s, l) = Port("spine", s, l)
<1> DEFINE t == "t_spine_forward"
<1>1. t \in Tables /\ Entries(Cabling)[t] = SpineEntries
  BY DEF Tables, Entries
<1>2. \A e \in table[t] :
        e.key = <<s, l>> => s \in 1..NumSpines /\ l \in 1..NumLeaves /\ e.val = Port("spine", s, l)
  <2> SUFFICES ASSUME NEW e \in table[t], e.key = <<s, l>>
               PROVE  s \in 1..NumSpines /\ l \in 1..NumLeaves /\ e.val = Port("spine", s, l)
    OBVIOUS
  <2>1. PICK a \in 1..NumSpines, b \in 1..NumLeaves : e = [key |-> <<a, b>>, val |-> Port("spine", a, b)]
    BY <1>1 DEF Sound, SpineEntries
  <2>2. s = a /\ l = b
    BY <2>1
  <2> QED BY <2>1, <2>2
<1>3. Present /\ s \in 1..NumSpines /\ l \in 1..NumLeaves => \E x \in table[t] : x.key = <<s, l>>
  <2> SUFFICES ASSUME Present, s \in 1..NumSpines, l \in 1..NumLeaves
               PROVE  \E x \in table[t] : x.key = <<s, l>>
    OBVIOUS
  <2>1. [key |-> <<s, l>>, val |-> Port("spine", s, l)] \in Entries(Cabling)[t]
    BY <1>1 DEF SpineEntries
  <2> QED BY <1>1, <2>1 DEF Present
<1>4. \/ SpineOf(s, l) = Port0 /\ ~ \E e \in table[t] : e.key = <<s, l>>
      \/ \E e \in table[t] : e.key = <<s, l>> /\ SpineOf(s, l) = e.val
  BY LookupCases DEF SpineOf
<1> QED BY <1>2, <1>3, <1>4

LEMMA SoundTables == ScriptInv /\ RightFile => Sound
BY DEF ScriptInv, RightFile, Sound, Cabling

LEMMA SettledTables == ScriptInv /\ complete /\ loaded = Cabled => Sound /\ Present
<1> SUFFICES ASSUME ScriptInv, complete, loaded = Cabled PROVE Sound /\ Present
  OBVIOUS
<1> DEFINE P == Program[Cabled]
           E == Entries(Cabling)
<1>1. Writes(P, E, Tables)
  BY FileAssumption, ProgramWrites DEF Cabling
<1>2. \A n \in 1..Len(P) :
        /\ P[n].op = "clear" => table[P[n].table] \subseteq E[P[n].table]
        /\ P[n].op = "push"  => \E x \in table[P[n].table] : x.key = P[n].entry.key
  BY DEF ScriptInv, Progress, Cabling
<1> HIDE DEF P, E
<1>3. DOMAIN P = 1..Len(P)
  BY <1>1 DEF Writes
<1>4. ASSUME NEW t \in Tables PROVE table[t] \subseteq E[t]
  <2>1. PICK c \in DOMAIN P : P[c] = ClearCall(t)
    BY <1>1 DEF Writes
  <2>2. P[c].op = "clear" /\ P[c].table = t
    BY <2>1 DEF ClearCall
  <2> QED BY <1>2, <1>3, <2>2
<1>5. ASSUME NEW t \in Tables, NEW e \in E[t] PROVE \E x \in table[t] : x.key = e.key
  <2>1. PICK n \in DOMAIN P : P[n] = PushOf(t, e)
    BY <1>1 DEF Writes
  <2>2. P[n].op = "push" /\ P[n].table = t /\ P[n].entry = e
    BY <2>1 DEF PushOf
  <2> QED BY <1>2, <1>3, <2>2
<1> QED BY <1>4, <1>5 DEF Sound, Present, E

-----------------------------------------------------------------------------
(* The pass of a frame through the pipeline.                               *)

LEMMA NicFacts ==
  ASSUME NEW mac \in Nics
  PROVE  /\ mac \in Endpoints /\ NicPort(mac) \in Ports /\ NicPort(mac).id \in Nat \ {0}
         /\ FoldedClos => NicPort(mac).tier = "leaf" /\ Peer[NicPort(mac)] = mac
<1>1. mac \in Endpoints /\ NicPort(mac) \in Ports
  BY CablingType DEF FileType, NicPort
<1>2. NicPort(mac).id \in Nat \ {0}
  BY <1>1, PortAssumption
<1>3. FoldedClos => NicPort(mac).tier = "leaf" /\ Peer[NicPort(mac)] = mac
  BY DEF FoldedClos, NicPort, Peer, Cabling, Nics
<1> QED BY <1>1, <1>2, <1>3

\* A frame from an endpoint goes to an endpoint of the leaf, or up.
LEMMA EgressHosted ==
  ASSUME FoldedClos, Sound, NEW p \in Ports, Peer[p] \in Endpoints, NEW mac
  PROVE  /\ \/ Egress(p, mac) = NoPort
            \/ Egress(p, mac) \in Uplinks(Cabling)
            \/ mac \in Nics /\ Egress(p, mac) = NicPort(mac)
         /\ Present /\ mac \in Nics /\ (\E q \in Uplinks(Cabling) : q.id = p.id)
              => Egress(p, mac) \in Uplinks(Cabling) \union {NicPort(mac)}
<1> DEFINE r == RoleOf(p)
           d == DstOf(mac)
           u == UplinkOf(r.leaf)
           none == [kind |-> "K_UNKNOWN", leaf |-> 0, spine |-> 0]
<1>1. p.tier = "leaf" /\ Cabling.role[p] = "server"
  BY DEF FoldedClos, Peer, Cabling
<1>2. p \in WithRole(Cabling) /\ RoleVal(Cabling, p) = [kind |-> "K_DOWNLINK", leaf |-> p.id, spine |-> 0]
  BY <1>1 DEF WithRole, RoleVal
<1>3. (r.kind = "K_UNKNOWN" \/ r.kind = "K_DOWNLINK") /\ (Present => r.kind = "K_DOWNLINK" /\ r.leaf = p.id)
  <2> HIDE DEF r
  <2>1. r = none \/ r = [kind |-> "K_DOWNLINK", leaf |-> p.id, spine |-> 0]
    BY <1>2, RoleAnswer DEF r
  <2>2. Present => r = [kind |-> "K_DOWNLINK", leaf |-> p.id, spine |-> 0]
    BY <1>2, RoleAnswer DEF r
  <2> QED BY <2>1, <2>2
<1>4. d.leaf # 0 => mac \in Nics /\ d.port = NicPort(mac)
  BY DstAnswer
<1>5. /\ u = Port0 \/ u \in Uplinks(Cabling)
      /\ Present /\ (\E q \in Uplinks(Cabling) : q.id = p.id) => u \in Uplinks(Cabling)
  <2> HIDE DEF r
  <2> QED BY <1>3, UplinkAnswer
<1>6. Port0 \notin Uplinks(Cabling)
  BY NamesAssumption DEF Uplinks
<1>7. Egress(p, mac) = IF d.leaf # 0 /\ d.leaf = r.leaf THEN d.port
                       ELSE IF r.kind = "K_DOWNLINK" THEN OrDrop(u) ELSE NoPort
  <2>1. r.kind # "K_SPINE_PORT" /\ r.kind # "K_LEAF_UPLINK"
    BY <1>3
  <2> QED BY <2>1 DEF Egress
<1> HIDE DEF r, d, u
<1> QED BY <1>3, <1>4, <1>5, <1>6, <1>7 DEF OrDrop

\* A frame that enters by a spine's port goes down to the leaf of its endpoint.
LEMMA EgressSpine ==
  ASSUME Sound, NEW p \in Ports, p.tier = "spine", NEW mac
  PROVE  /\ \/ Egress(p, mac) = NoPort
            \/ mac \in Nics /\ Egress(p, mac) = Port("spine", p.id, NicPort(mac).id)
         /\ (/\ Present /\ mac \in Nics /\ p.id \in 1..NumSpines /\ NicPort(mac).id \in 1..NumLeaves
             /\ Port("spine", p.id, NicPort(mac).id) \in Ports)
              => Egress(p, mac) = Port("spine", p.id, NicPort(mac).id)
<1> DEFINE r == RoleOf(p)
           d == DstOf(mac)
           s == SpineOf(r.spine, d.leaf)
           none == [kind |-> "K_UNKNOWN", leaf |-> 0, spine |-> 0]
           val  == [kind |-> "K_SPINE_PORT", leaf |-> 0, spine |-> p.id]
<1>1. p \in WithRole(Cabling) /\ RoleVal(Cabling, p) = val
  BY DEF WithRole, RoleVal
<1>2. (r = none \/ r = val) /\ (Present => r = val)
  <2> HIDE DEF none, val
  <2> QED BY <1>1, RoleAnswer DEF none
<1> HIDE DEF r
<1>3. /\ r.leaf = 0
      /\ r.kind = "K_UNKNOWN" \/ (r.kind = "K_SPINE_PORT" /\ r.spine = p.id)
      /\ Present => r.kind = "K_SPINE_PORT"
  BY <1>2
<1>4. /\ d.leaf # 0 => mac \in Nics /\ d.leaf = NicPort(mac).id
      /\ Present /\ mac \in Nics => d.leaf = NicPort(mac).id
  BY DstAnswer
<1> HIDE DEF d
<1>5. /\ s = Port0 \/ (d.leaf \in 1..NumLeaves /\ s = Port("spine", r.spine, d.leaf))
      /\ Present /\ r.spine \in 1..NumSpines /\ d.leaf \in 1..NumLeaves => s = Port("spine", r.spine, d.leaf)
  BY SpineAnswer
<1>6. Egress(p, mac) = IF r.kind = "K_SPINE_PORT" THEN OrDrop(s) ELSE NoPort
  <2>1. ~(d.leaf # 0 /\ d.leaf = r.leaf) /\ r.kind # "K_DOWNLINK" /\ r.kind # "K_LEAF_UPLINK"
    BY <1>3
  <2> QED BY <2>1 DEF Egress, r, d
<1> HIDE DEF s
<1>7. d.leaf \in 1..NumLeaves => d.leaf # 0
  BY BoundAssumption
<1>8. Port0 \notin Ports
  BY NamesAssumption
<1>9. \/ Egress(p, mac) = NoPort
      \/ mac \in Nics /\ Egress(p, mac) = Port("spine", p.id, NicPort(mac).id)
  BY <1>3, <1>4, <1>5, <1>6, <1>7 DEF OrDrop
<1>10. ASSUME Present, mac \in Nics, p.id \in 1..NumSpines, NicPort(mac).id \in 1..NumLeaves,
              Port("spine", p.id, NicPort(mac).id) \in Ports
       PROVE  Egress(p, mac) = Port("spine", p.id, NicPort(mac).id)
  BY <1>3, <1>4, <1>5, <1>6, <1>8, <1>10 DEF OrDrop
<1> QED BY <1>9, <1>10

\* A frame that comes down to the leaf of its endpoint goes to this endpoint.
LEMMA EgressUplink ==
  ASSUME Sound, NEW p \in Uplinks(Cabling), NEW mac \in Nics, NicPort(mac).id = p.id
  PROVE  /\ Egress(p, mac) \in {NoPort, Port0, NicPort(mac)}
         /\ Present => Egress(p, mac) = NicPort(mac)
<1> DEFINE r == RoleOf(p)
           d == DstOf(mac)
           none == [kind |-> "K_UNKNOWN", leaf |-> 0, spine |-> 0]
           val  == [kind |-> "K_LEAF_UPLINK", leaf |-> p.id, spine |-> 0]
<1>1. p \in Ports /\ p \in WithRole(Cabling) /\ RoleVal(Cabling, p) = val
  BY DEF Uplinks, WithRole, RoleVal
<1>2. (r = none \/ r = val) /\ (Present => r = val)
  <2> HIDE DEF none, val
  <2> QED BY <1>1, RoleAnswer DEF none
<1>3. /\ d = [leaf |-> 0, port |-> Port0] \/ d = [leaf |-> NicPort(mac).id, port |-> NicPort(mac)]
      /\ Present => d = [leaf |-> NicPort(mac).id, port |-> NicPort(mac)]
  BY DstAnswer
<1> HIDE DEF r, d
<1>4. /\ r.kind \in {"K_UNKNOWN", "K_LEAF_UPLINK"} /\ (Present => r.leaf = p.id)
      /\ d.port \in {Port0, NicPort(mac)} /\ (Present => d.leaf = p.id /\ d.port = NicPort(mac))
  BY <1>2, <1>3
<1>5. Egress(p, mac) \in {NoPort, d.port} /\ (d.leaf # 0 /\ d.leaf = r.leaf => Egress(p, mac) = d.port)
  <2>1. r.kind # "K_DOWNLINK" /\ r.kind # "K_SPINE_PORT"
    BY <1>4
  <2> QED BY <2>1 DEF Egress, r, d
<1>6. p.id # 0
  BY <1>1, PortAssumption
<1> QED BY <1>4, <1>5, <1>6

-----------------------------------------------------------------------------
(* The inductive invariant: the frame.                                     *)

\* Where the frame is while every run was on the right file.
OnItsWay ==
  /\ frame.hops <= 2
  /\ frame.state = "flying" =>
       \/ frame.hops = 0 /\ Peer[frame.at] \in Endpoints
       \/ frame.hops = 1 /\ frame.at.tier = "spine"
       \/ /\ frame.hops = 2 /\ frame.at \in Uplinks(Cabling)
          /\ frame.dst \in Nics /\ frame.at.id = NicPort(frame.dst).id
  /\ frame.state = "delivered" => frame.at = frame.dst

\* Where the frame is once a run is complete, if no later run has begun: at an
\* endpoint's port, at a spine with a cable to the leaf of its endpoint, or at
\* an uplink of this leaf.
Undisturbed ==
  /\ complete /\ loaded = Cabled
  /\ frame.dst \in Nics =>
       \/ frame.state = "delivered" /\ frame.at = frame.dst
       \/ /\ frame.state = "flying"
          /\ \/ Peer[frame.at] \in Endpoints
             \/ /\ frame.at.tier = "spine" /\ frame.at.id \in 1..NumSpines
                /\ NicPort(frame.dst).id \in 1..NumLeaves
                /\ Port("spine", frame.at.id, NicPort(frame.dst).id) \in Ports
                /\ Peer[Port("spine", frame.at.id, NicPort(frame.dst).id)] # NoPort
             \/ frame.at \in Uplinks(Cabling) /\ frame.at.id = NicPort(frame.dst).id

FrameInv ==
  /\ FoldedClos /\ RightFile => OnItsWay
  /\ FoldedClos /\ FullyCabled /\ frame.undisturbed => Undisturbed

\* The far end of a spine's port Y is an uplink of leaf Y, or nothing.
LEMMA SpineFarEnd ==
  ASSUME FoldedClos, NEW s, NEW l, Port("spine", s, l) \in Ports, Peer[Port("spine", s, l)] # NoPort
  PROVE  /\ Peer[Port("spine", s, l)] \in Uplinks(Cabling) /\ Peer[Port("spine", s, l)] \in Ports
         /\ Peer[Port("spine", s, l)].id = l
<1> DEFINE c == Port("spine", s, l)
<1>1. c.tier = "spine" /\ c.pos = l
  BY DEF Port
<1> HIDE DEF c
<1>2. c \in Ports /\ Peer[c] # NoPort
  BY DEF c
<1>3. Peer[c] \in Uplinks(Cabling) /\ Peer[c].id = c.pos
  BY <1>1, <1>2 DEF FoldedClos, Peer, Cabling
<1> QED BY <1>1, <1>3 DEF Uplinks, c

LEMMA ForwardEffect ==
  ASSUME TypeOK, Forward
  PROVE  LET far == FarEnd(Egress(frame.at, frame.dst)) IN
           /\ frame.state = "flying" /\ frame.at \in Ports /\ frame.hops \in 0..MaxHops
           /\ frame'.dst = frame.dst /\ frame'.undisturbed = frame.undisturbed
           /\ UNCHANGED <<table, step, loaded, complete, runs, tried>>
           /\ \/ frame'.state \in {"dropped", "astray"} /\ frame'.hops = frame.hops /\ far = NoPort
              \/ /\ far \in Ports /\ frame'.state = "flying" /\ frame'.at = far
                 /\ frame.hops <= 2 => frame'.hops = frame.hops + 1
              \/ /\ far \in Endpoints /\ frame'.state = "delivered" /\ frame'.at = far
                 /\ frame'.hops = frame.hops
<1> DEFINE q   == Egress(frame.at, frame.dst)
           far == FarEnd(q)
<1>1. /\ frame.state = "flying" /\ frame.at \in Ports /\ frame.hops \in 0..MaxHops
      /\ DOMAIN frame = {"state", "at", "dst", "hops", "undisturbed"}
  BY DEF Forward, TypeOK, FrameType
<1>2. UNCHANGED <<table, step, loaded, complete, runs, tried>>
  BY DEF Forward, scriptVars
<1>3. \/ q = NoPort /\ frame' = [frame EXCEPT !.state = "dropped"]
      \/ q # NoPort /\ far = NoPort /\ frame' = [frame EXCEPT !.state = "astray"]
      \/ /\ far \in Ports
         /\ frame' = [frame EXCEPT !.at = far,
                        !.hops = IF frame.hops < MaxHops THEN frame.hops + 1 ELSE frame.hops]
      \/ far \in Endpoints /\ frame' = [frame EXCEPT !.at = far, !.state = "delivered"]
  BY DEF Forward
<1>4. q = NoPort => far = NoPort
  BY NamesAssumption DEF FarEnd
<1> HIDE DEF far, q
<1>5. ASSUME far = NoPort,
             \/ frame' = [frame EXCEPT !.state = "dropped"]
             \/ frame' = [frame EXCEPT !.state = "astray"]
      PROVE  /\ frame'.dst = frame.dst /\ frame'.undisturbed = frame.undisturbed
             /\ frame'.state \in {"dropped", "astray"} /\ frame'.hops = frame.hops
  BY <1>1, <1>5
<1>6. ASSUME frame' = [frame EXCEPT !.at = far,
                         !.hops = IF frame.hops < MaxHops THEN frame.hops + 1 ELSE frame.hops]
      PROVE  /\ frame'.dst = frame.dst /\ frame'.undisturbed = frame.undisturbed
             /\ frame'.state = "flying" /\ frame'.at = far
             /\ frame.hops <= 2 => frame'.hops = frame.hops + 1
  <2>1. frame.hops <= 2 => frame.hops < MaxHops
    BY <1>1, BoundAssumption
  <2> QED BY <1>1, <1>6, <2>1
<1>7. ASSUME frame' = [frame EXCEPT !.at = far, !.state = "delivered"]
      PROVE  /\ frame'.dst = frame.dst /\ frame'.undisturbed = frame.undisturbed
             /\ frame'.state = "delivered" /\ frame'.at = far /\ frame'.hops = frame.hops
  BY <1>1, <1>7
<1> QED BY <1>1, <1>2, <1>3, <1>4, <1>5, <1>6, <1>7 DEF far, q

LEMMA ForwardOnItsWay ==
  ASSUME TypeOK, ScriptInv, FoldedClos, RightFile, OnItsWay, Forward
  PROVE  OnItsWay'
<1> DEFINE p   == frame.at
           mac == frame.dst
           q   == Egress(p, mac)
           far == FarEnd(q)
<1>1. Sound
  BY SoundTables
<1>2. /\ frame.state = "flying" /\ p \in Ports /\ frame.hops \in 0..MaxHops /\ frame'.dst = mac
      /\ \/ frame'.state \in {"dropped", "astray"} /\ frame'.hops = frame.hops /\ far = NoPort
         \/ /\ far \in Ports /\ frame'.state = "flying" /\ frame'.at = far
            /\ frame.hops <= 2 => frame'.hops = frame.hops + 1
         \/ far \in Endpoints /\ frame'.state = "delivered" /\ frame'.at = far /\ frame'.hops = frame.hops
  BY ForwardEffect
<1>3. /\ Ports \intersect Endpoints = {} /\ NoPort \notin Ports /\ Port0 \notin Ports
      /\ Uplinks(Cabling) \subseteq Ports
  BY NamesAssumption DEF Uplinks
<1>4. mac \in Nics => FarEnd(NicPort(mac)) = mac /\ mac \in Endpoints
  BY NicFacts DEF FarEnd
<1>5. FarEnd(NoPort) = NoPort /\ FarEnd(Port0) = NoPort
  BY <1>3 DEF FarEnd
<1>6. CASE frame.hops = 0 /\ Peer[p] \in Endpoints
  <2>1. q = NoPort \/ q \in Uplinks(Cabling) \/ (mac \in Nics /\ q = NicPort(mac))
    BY <1>1, <1>2, <1>6, EgressHosted
  <2>2. q \in Uplinks(Cabling) => far \in Ports /\ far.tier = "spine"
    BY <1>3 DEF FoldedClos, FarEnd, Peer, Cabling
  <2> HIDE DEF q, far, p, mac
  <2>3. \/ far = NoPort \/ (far \in Ports /\ far.tier = "spine") \/ (far = mac /\ far \in Endpoints)
    BY <1>4, <1>5, <2>1, <2>2 DEF far
  <2>4. far \in Ports => frame'.at.tier = "spine" /\ frame'.hops = 1 /\ frame'.state = "flying"
    BY <1>2, <1>3, <1>6, <2>3, NamesAssumption
  <2>5. far \in Endpoints => frame'.at = frame'.dst /\ frame'.hops = 0 /\ frame'.state = "delivered"
    BY <1>2, <1>3, <1>6, <2>3, NamesAssumption
  <2>6. far = NoPort => frame'.state \in {"dropped", "astray"} /\ frame'.hops = 0
    BY <1>2, <1>6, NamesAssumption
  <2> QED BY <2>3, <2>4, <2>5, <2>6 DEF OnItsWay
<1>7. CASE frame.hops = 1 /\ p.tier = "spine"
  <2> DEFINE c == Port("spine", p.id, NicPort(mac).id)
  <2>1. q = NoPort \/ (mac \in Nics /\ q = c)
    BY <1>1, <1>2, <1>7, EgressSpine
  <2>2. FarEnd(c) # NoPort => FarEnd(c) \in Uplinks(Cabling) /\ FarEnd(c).id = NicPort(mac).id
    BY SpineFarEnd DEF FarEnd
  <2> HIDE DEF q, far, p, mac, c
  <2>3. far = NoPort \/ (mac \in Nics /\ far \in Uplinks(Cabling) /\ far.id = NicPort(mac).id)
    BY <1>5, <2>1, <2>2 DEF far
  <2>4. far # NoPort => /\ frame'.at = far /\ frame'.dst = mac /\ frame'.hops = 2 /\ frame'.state = "flying"
    BY <1>2, <1>3, <1>7, <2>3
  <2>5. far = NoPort => frame'.state \in {"dropped", "astray"} /\ frame'.hops = 1
    BY <1>2, <1>7, NamesAssumption
  <2> QED BY <2>3, <2>4, <2>5 DEF OnItsWay
<1>8. CASE /\ frame.hops = 2 /\ p \in Uplinks(Cabling)
           /\ mac \in Nics /\ p.id = NicPort(mac).id
  <2>1. q \in {NoPort, Port0, NicPort(mac)}
    BY <1>1, <1>8, EgressUplink
  <2> HIDE DEF q, far, p, mac
  <2>2. far = NoPort \/ (far = mac /\ far \in Endpoints)
    BY <1>4, <1>5, <1>8, <2>1 DEF far
  <2>3. /\ frame'.hops = 2 /\ frame'.state # "flying"
        /\ frame'.state = "delivered" => frame'.at = frame'.dst
    BY <1>2, <1>3, <1>8, <2>2, NamesAssumption
  <2> QED BY <2>3 DEF OnItsWay
<1> QED BY <1>2, <1>6, <1>7, <1>8 DEF OnItsWay

LEMMA ForwardUndisturbed ==
  ASSUME TypeOK, ScriptInv, FoldedClos, FullyCabled, Undisturbed, Forward
  PROVE  Undisturbed'
<1> DEFINE p   == frame.at
           mac == frame.dst
           q   == Egress(p, mac)
           far == FarEnd(q)
           c   == Port("spine", p.id, NicPort(mac).id)
<1>1. Sound /\ Present
  BY SettledTables DEF Undisturbed
<1>2. /\ frame.state = "flying" /\ p \in Ports /\ frame'.dst = mac /\ complete' /\ loaded' = Cabled
      /\ \/ far = NoPort
         \/ far \in Ports /\ frame'.state = "flying" /\ frame'.at = far
         \/ far \in Endpoints /\ frame'.state = "delivered" /\ frame'.at = far
  BY ForwardEffect DEF Undisturbed
<1> SUFFICES ASSUME mac \in Nics PROVE Undisturbed'
  BY <1>2 DEF Undisturbed
<1>3. /\ Ports \intersect Endpoints = {} /\ NoPort \notin Ports \union Endpoints
      /\ Uplinks(Cabling) \subseteq Ports
  BY NamesAssumption DEF Uplinks
<1>4. /\ FarEnd(NicPort(mac)) = mac /\ mac \in Endpoints
      /\ NicPort(mac) \in Ports /\ Peer[NicPort(mac)] \in Endpoints
  BY NicFacts DEF FarEnd
<1>5. CASE Peer[p] \in Endpoints
  <2>1. \E u \in Uplinks(Cabling) : u.id = p.id
    BY <1>2, <1>5 DEF FullyCabled, Peer, Cabling
  <2>2. q \in Uplinks(Cabling) \union {NicPort(mac)}
    BY <1>1, <1>2, <1>5, <2>1, EgressHosted
  <2>3. q \in Uplinks(Cabling) =>
          /\ far \in Ports /\ far.tier = "spine" /\ far.id \in 1..NumSpines /\ NicPort(mac).id \in 1..NumLeaves
          /\ Port("spine", far.id, NicPort(mac).id) \in Ports
          /\ Peer[Port("spine", far.id, NicPort(mac).id)] # NoPort
    <3> SUFFICES ASSUME q \in Uplinks(Cabling)
                 PROVE  /\ far \in Ports /\ far.tier = "spine" /\ far.id \in 1..NumSpines
                        /\ NicPort(mac).id \in 1..NumLeaves
                        /\ Port("spine", far.id, NicPort(mac).id) \in Ports
                        /\ Peer[Port("spine", far.id, NicPort(mac).id)] # NoPort
      OBVIOUS
    <3> HIDE DEF q, mac
    <3>1. far = Peer[q] /\ far \in Ports /\ far.tier = "spine"
      BY <1>3 DEF FoldedClos, FarEnd, Peer, Cabling
    <3> HIDE DEF far
    <3>2. /\ Peer[q].id \in 1..NumSpines /\ NicPort(mac).id \in 1..NumLeaves
          /\ \E x \in Ports : x = Port("spine", Peer[q].id, NicPort(mac).id) /\ Peer[x] # NoPort
      BY <1>4 DEF FullyCabled, Peer, Cabling
    <3> QED BY <3>1, <3>2
  <2> HIDE DEF q, far, p, mac
  <2> QED BY <1>2, <1>3, <1>4, <2>2, <2>3 DEF Undisturbed, far
<1>6. CASE /\ p.tier = "spine" /\ p.id \in 1..NumSpines /\ NicPort(mac).id \in 1..NumLeaves
           /\ c \in Ports /\ Peer[c] # NoPort
  <2>1. q = c
    BY <1>1, <1>2, <1>6, EgressSpine
  <2>2. far \in Uplinks(Cabling) /\ far.id = NicPort(mac).id
    BY <1>6, <2>1, SpineFarEnd DEF FarEnd
  <2> HIDE DEF q, far, p, mac, c
  <2> QED BY <1>2, <1>3, <2>2 DEF Undisturbed
<1>7. CASE p \in Uplinks(Cabling) /\ p.id = NicPort(mac).id
  <2>1. q = NicPort(mac)
    BY <1>1, <1>7, EgressUplink
  <2> HIDE DEF q, far, p, mac
  <2>2. far = mac
    BY <1>4, <2>1 DEF far
  <2> QED BY <1>2, <1>3, <1>4, <2>2 DEF Undisturbed
<1> QED BY <1>2, <1>5, <1>6, <1>7 DEF Undisturbed

LEMMA FrameInit == Init => FrameInv
<1> SUFFICES ASSUME Init PROVE FrameInv
  OBVIOUS
<1>1. frame.state = "none" /\ frame.hops = 0 /\ frame.undisturbed = FALSE
  BY DEF Init, NoFrame
<1> QED BY <1>1 DEF FrameInv, OnItsWay

LEMMA FrameStep == TypeOK /\ ScriptInv /\ FrameInv /\ [Next]_vars => FrameInv'
<1> SUFFICES ASSUME TypeOK, ScriptInv, FrameInv, [Next]_vars PROVE FrameInv'
  OBVIOUS
<1> USE DEF FrameInv
<1>0. DOMAIN frame = {"state", "at", "dst", "hops", "undisturbed"}
  BY DEF TypeOK, FrameType
<1>1. CASE \E name \in Files : Start(name)
  <2>1. PICK name \in Files : Start(name)
    BY <1>1
  <2>2. /\ frame'.state = frame.state /\ frame'.at = frame.at /\ frame'.dst = frame.dst
        /\ frame'.hops = frame.hops /\ frame'.undisturbed = FALSE
    BY <1>0, <2>1 DEF Start
  <2>3. RightFile' => RightFile
    BY <2>1 DEF Start, RightFile
  <2>4. OnItsWay => OnItsWay'
    BY <2>2 DEF OnItsWay
  <2> QED BY <2>2, <2>3, <2>4
<1>2. CASE Call \/ Abort
  <2>1. UNCHANGED <<tried, frame>> /\ ~complete
    BY <1>2 DEF Call, Abort, TypeOK
  <2>2. RightFile' = RightFile /\ OnItsWay' = OnItsWay
    BY <2>1 DEF RightFile, OnItsWay
  <2>3. FoldedClos /\ FullyCabled => ~frame.undisturbed
    BY <2>1 DEF Undisturbed
  <2> QED BY <2>1, <2>2, <2>3
<1>3. CASE \E p \in Ports, mac \in Macs : Send(p, mac)
  <2>1. PICK p \in Ports, mac \in Macs : Send(p, mac)
    BY <1>3
  <2>2. /\ frame'.state = "flying" /\ frame'.at = p /\ frame'.hops = 0 /\ frame'.dst = mac
        /\ frame'.undisturbed = (complete /\ loaded = Cabled)
        /\ Peer[p] \in Endpoints /\ UNCHANGED <<complete, loaded>>
    BY <2>1 DEF Send, scriptVars
  <2>3. OnItsWay'
    BY <2>2 DEF OnItsWay
  <2>4. frame'.undisturbed => Undisturbed'
    BY <2>2 DEF Undisturbed
  <2> QED BY <2>3, <2>4
<1>4. CASE Forward
  <2>1. frame'.undisturbed = frame.undisturbed /\ UNCHANGED tried
    BY <1>4, ForwardEffect
  <2>2. RightFile' = RightFile
    BY <2>1 DEF RightFile
  <2>3. FoldedClos /\ RightFile' => OnItsWay'
    BY <1>4, <2>2, ForwardOnItsWay
  <2>4. FoldedClos /\ FullyCabled /\ frame'.undisturbed => Undisturbed'
    BY <1>4, <2>1, ForwardUndisturbed
  <2> QED BY <2>3, <2>4
<1>5. CASE UNCHANGED vars
  BY <1>5 DEF vars, scriptVars, OnItsWay, Undisturbed, RightFile
<1> QED BY <1>1, <1>2, <1>3, <1>4, <1>5 DEF Next

LEMMA Inductive == Spec => [](TypeOK /\ ScriptInv /\ FrameInv)
<1>1. Init => TypeOK /\ ScriptInv /\ FrameInv
  BY InitInv, FrameInit
<1>2. TypeOK /\ ScriptInv /\ FrameInv /\ [Next]_vars => (TypeOK /\ ScriptInv /\ FrameInv)'
  BY TypeStep, ScriptStep, FrameStep
<1> QED BY <1>1, <1>2, PTL DEF Spec

-----------------------------------------------------------------------------
(* The theorems.                                                           *)

\* The state stays within its types, and a table never holds two entries for
\* one key, whatever the runtime answers to a push on a key that is there.
THEOREM TypeCorrect == Spec => []TypeOK
BY Inductive, PTL

\* In a folded Clos a frame goes up once and down once at most, while the tables
\* are written as well as after a run that stopped half-way.
THEOREM FoldedOnce == FoldedClos => (Spec => []UpAndDownOnce)
<1> SUFFICES ASSUME FoldedClos PROVE Spec => []UpAndDownOnce
  OBVIOUS
<1>1. FoldedClos /\ FrameInv => UpAndDownOnce
  BY DEF FrameInv, OnItsWay, UpAndDownOnce
<1> QED BY <1>1, Inductive, PTL

\* In a folded Clos no endpoint gets a frame that is for another one, while the
\* tables are written as well as after a run that stopped half-way.
THEOREM OnlyToItsEndpoint == FoldedClos => (Spec => []NoMisdelivery)
<1> SUFFICES ASSUME FoldedClos PROVE Spec => []NoMisdelivery
  OBVIOUS
<1>1. FoldedClos /\ FrameInv => NoMisdelivery
  BY DEF FrameInv, OnItsWay, NoMisdelivery
<1> QED BY <1>1, Inductive, PTL

\* After a complete run on the file of the cabling, a frame for a known endpoint
\* is under way or has arrived, whatever files the runs before it were on.
THEOREM DeliveredIfSettled == FoldedClos /\ FullyCabled => (Spec => []Delivery)
<1> SUFFICES ASSUME FoldedClos, FullyCabled PROVE Spec => []Delivery
  OBVIOUS
<1>1. FoldedClos /\ FullyCabled /\ FrameInv => Delivery
  BY DEF FrameInv, Undisturbed, Delivery, Nics, Cabling
<1> QED BY <1>1, Inductive, PTL
=============================================================================
