------------------------ MODULE MeasTimestampsProofs ------------------------
(***************************************************************************)
(* Theorems about MeasTimestamps, for any number of requests and bounds.   *)
(***************************************************************************)
EXTENDS MeasTimestampsProps, Integers, SequenceTheorems, FunctionTheorems, FiniteSetTheorems, TLAPS

-----------------------------------------------------------------------------
(* The inductive invariant.                                                *)

\* Requests whose transmit timestamp was taken or lost, the timestamps in the
\* file, those in the error queue, and what was lost before a request.
Stamped  == {q \in 1..sent : q \notin stamping}
TxSet    == {txRows[k] : k \in DOMAIN txRows}
QueueSet == {errq[n] : n \in DOMAIN errq} \ {None}
LostBefore(r) == {q \in lost : q < r}

SenderInv ==
  /\ spc \in {"send", "drain", "final", "done", "error"}
  /\ sent \in 0..Count /\ tries \in 0..FinalRetry
  /\ spc = "send" => sent < Count
  /\ spc \in {"send", "drain"} => tries = 0
  /\ spc = "final" => tries < FinalRetry

ReceiverInv ==
  /\ net \subseteq (1..sent) \X (0..MaxDup) /\ dups \in 0..MaxDup
  /\ rpc \in {"run", "done"} /\ idle \in 0..IdleExit
  /\ rpc = "run" => idle < IdleExit
  /\ room \in BOOLEAN
  /\ rxRows \in Seq([req : Nat, rx : Nat])
  /\ \A k \in DOMAIN rxRows : rxRows[k].req \in 1..sent /\ rxRows[k].rx \in {None, rxRows[k].req}

\* Timestamps are taken in the order of sending, wait in that order and are
\* written in that order; the file and the queue have all that were not lost.
StampInv ==
  /\ stamping \subseteq 1..sent /\ lost \subseteq Stamped
  /\ \A q \in Stamped, r \in stamping : q < r
  /\ errq \in Seq(Nat) /\ txRows \in Seq(Nat)
  /\ TxSet \union QueueSet = Stamped \ lost
  /\ \A m, n \in DOMAIN errq : m < n /\ errq[m] # None /\ errq[n] # None => errq[m] < errq[n]
  /\ \A q \in TxSet, r \in QueueSet : q < r
  /\ Cardinality(TxSet) = Len(txRows)

IInv == SenderInv /\ ReceiverInv /\ StampInv /\ ShiftedByLosses

LEMMA InitInv == Init => IInv
<1> SUFFICES ASSUME Init PROVE IInv
  OBVIOUS
<1>1. SenderInv
  BY CountAssumption, RetryAssumption DEF Init, SenderInv
<1>2. ReceiverInv
  BY RetryAssumption, BoundAssumption DEF Init, ReceiverInv
<1>3. TxSet = {} /\ QueueSet = {} /\ Stamped = {}
  BY DEF Init, TxSet, QueueSet, Stamped
<1>4. StampInv
  BY <1>3, FS_EmptySet DEF Init, StampInv
<1>5. ShiftedByLosses
  BY DEF Init, ShiftedByLosses
<1> QED BY <1>1, <1>2, <1>4, <1>5 DEF IInv

-----------------------------------------------------------------------------
(* Programs and network.                                                   *)

LEMMA SenderStep == SenderInv /\ [Next]_vars => SenderInv'
<1> SUFFICES ASSUME SenderInv, [Next]_vars PROVE SenderInv'
  OBVIOUS
<1>1. CASE Fails
  BY <1>1 DEF Fails, SenderInv
<1>2. CASE Send
  <2>1. sent' \in 1..Count /\ spc' = AfterSend(sent')
    BY <1>2, CountAssumption DEF Send, SenderInv
  <2>2. spc' \in {"send", "drain", "final"} /\ (spc' = "send" => sent' # Count)
    BY <2>1 DEF AfterSend
  <2>3. tries' = 0 /\ 0 < FinalRetry
    BY <1>2, RetryAssumption DEF Send, SenderInv
  <2> QED BY <1>2, <2>1, <2>2, <2>3, CountAssumption DEF Send, SenderInv
<1>3. CASE DrainOne
  BY <1>3 DEF DrainOne, SenderInv
<1>4. CASE DrainEnd
  <2>1. CASE spc = "drain"
    BY <1>4, <2>1, RetryAssumption, CountAssumption DEF DrainEnd, SenderInv
  <2>2. CASE spc = "final"
    <3>1. tries' = tries + 1 /\ tries' \in 0..FinalRetry /\ sent' = sent
      BY <1>4, <2>2, RetryAssumption DEF DrainEnd, SenderInv
    <3>2. spc' = "done" \/ (spc' = "final" /\ tries' # FinalRetry)
      BY <1>4, <2>2 DEF DrainEnd
    <3> QED BY <3>1, <3>2, RetryAssumption DEF SenderInv
  <2> QED BY <1>4, <2>1, <2>2 DEF DrainEnd
<1>5. CASE ~(Fails \/ Send \/ DrainOne \/ DrainEnd)
  <2>1. UNCHANGED sender
    BY <1>5 DEF Next, Sender, StampTx, Receiver, Receive, Timeout, Signal, Duplicate, vars
  <2> QED BY <2>1 DEF SenderInv, sender
<1> QED BY <1>1, <1>2, <1>3, <1>4, <1>5

LEMMA ReceiverStep == IInv /\ [Next]_vars => ReceiverInv'
<1> SUFFICES ASSUME IInv, [Next]_vars PROVE ReceiverInv'
  OBVIOUS
<1>1. SenderInv /\ ReceiverInv /\ MaxDup \in Nat /\ IdleExit \in Nat \ {0}
  BY BoundAssumption, RetryAssumption DEF IInv
<1>2. CASE Send
  <2>1. sent \in Nat /\ sent' = sent + 1 /\ UNCHANGED receiver /\ UNCHANGED dups
    BY <1>1, <1>2 DEF Send, SenderInv
  <2>2. net' = net \union {<<sent', 0>>}
    BY <1>2 DEF Send
  <2>3. net' \subseteq (1..sent') \X (0..MaxDup)
    BY <1>1, <2>1, <2>2 DEF ReceiverInv
  <2>4. \A k \in DOMAIN rxRows : rxRows[k].req \in 1..sent'
    BY <1>1, <2>1 DEF ReceiverInv
  <2> QED BY <1>1, <2>1, <2>3, <2>4 DEF ReceiverInv, receiver
<1>3. CASE \E d \in net, kind \in StampKinds, good \in BOOLEAN : Receive(d, kind, good)
  <2>1. PICK d \in net, kind \in StampKinds, good \in BOOLEAN : Receive(d, kind, good)
    BY <1>3
  <2>2. d[1] \in 1..sent /\ d[1] \in Nat /\ UNCHANGED <<sent, dups, rpc>> /\ idle' = 0
    BY <1>1, <2>1 DEF Receive, ReceiverInv, SenderInv, sender
  <2>3. net' \subseteq net /\ room' \in BOOLEAN
    BY <1>1, <2>1 DEF Receive, ReceiverInv
  <2> DEFINE row == RowOf(d, kind)
  <2>4. row \in [req : Nat, rx : Nat] /\ row.req = d[1] /\ row.rx \in {None, row.req}
    BY <2>2 DEF RowOf, None
  <2>5. rxRows' = rxRows \/ rxRows' = Append(rxRows, row)
    BY <2>1 DEF Receive
  <2> HIDE DEF row
  <2>6. /\ rxRows' \in Seq([req : Nat, rx : Nat])
        /\ \A k \in DOMAIN rxRows' : rxRows'[k].req \in 1..sent /\ rxRows'[k].rx \in {None, rxRows'[k].req}
    <3>1. CASE rxRows' = rxRows
      BY <1>1, <3>1 DEF ReceiverInv
    <3>2. CASE rxRows' = Append(rxRows, row)
      <4>1. rxRows \in Seq([req : Nat, rx : Nat])
        BY <1>1 DEF ReceiverInv
      <4>2. /\ rxRows' \in Seq([req : Nat, rx : Nat])
            /\ \A k \in DOMAIN rxRows' : rxRows'[k] = row \/ (k \in DOMAIN rxRows /\ rxRows'[k] = rxRows[k])
        BY <2>4, <3>2, <4>1
      <4> QED BY <1>1, <2>2, <2>4, <4>2 DEF ReceiverInv
    <3> QED BY <2>5, <3>1, <3>2
  <2> QED BY <1>1, <2>2, <2>3, <2>6 DEF ReceiverInv
<1>4. CASE Timeout
  BY <1>1, <1>4 DEF Timeout, ReceiverInv, sender, network
<1>5. CASE Signal
  BY <1>1, <1>5 DEF Signal, ReceiverInv, sender, network
<1>6. CASE \E d \in net : Duplicate(d)
  <2>1. PICK d \in net : Duplicate(d)
    BY <1>6
  <2>2. dups' \in 0..MaxDup /\ net' = net \union {<<d[1], dups'>>} /\ d[1] \in 1..sent
    BY <1>1, <2>1 DEF Duplicate, ReceiverInv
  <2>3. UNCHANGED <<sent, receiver>>
    BY <2>1 DEF Duplicate, sender
  <2> QED BY <1>1, <2>2, <2>3 DEF ReceiverInv, receiver
<1>7. CASE Fails \/ DrainOne \/ DrainEnd \/ StampTx \/ UNCHANGED vars
  <2>1. UNCHANGED <<sent, network, receiver>>
    BY <1>7 DEF Fails, DrainOne, DrainEnd, StampTx, vars, sender
  <2> QED BY <1>1, <2>1 DEF ReceiverInv, network, receiver
<1> QED BY <1>2, <1>3, <1>4, <1>5, <1>6, <1>7 DEF Next, Sender, Receiver

-----------------------------------------------------------------------------
(* The head of the error queue is the next request that was not lost.      *)

LEMMA HeadIsNext ==
  ASSUME SenderInv, StampInv, errq # <<>>, Head(errq) # None
  PROVE  /\ Head(errq) \in 1..sent /\ Head(errq) \in QueueSet
         /\ \A q \in TxSet : q < Head(errq)
         /\ \A q \in QueueSet : q # Head(errq) => Head(errq) < q
         /\ Len(txRows) + 1 + Cardinality(LostBefore(Head(errq))) = Head(errq)
         /\ Len(txRows) < sent
<1> DEFINE r == Head(errq)
<1>1. errq \in Seq(Nat) /\ 1 \in DOMAIN errq /\ r = errq[1] /\ sent \in Nat
  BY DEF StampInv, SenderInv
<1>2. r \in QueueSet /\ r \in Stamped \ lost /\ r \in 1..sent /\ r \in Nat
  BY <1>1 DEF QueueSet, StampInv, Stamped
<1>3. \A q \in TxSet : q < r
  BY <1>2 DEF StampInv
<1>4. ASSUME NEW q \in QueueSet, q # r PROVE r < q
  <2>1. PICK n \in DOMAIN errq : q = errq[n] /\ errq[n] # None
    BY DEF QueueSet
  <2>2. n # 1 /\ n \in Nat /\ 1 < n
    BY <1>1, <1>4, <2>1
  <2> QED BY <1>1, <2>1, <2>2 DEF StampInv
<1>5. TxSet = (1..(r-1)) \ LostBefore(r)
  <2>1. ASSUME NEW q \in TxSet PROVE q \in (1..(r-1)) \ LostBefore(r)
    <3>1. q \in 1..sent /\ q \notin lost /\ q < r
      BY <1>3 DEF StampInv, Stamped
    <3> QED BY <1>1, <1>2, <3>1 DEF LostBefore
  <2>2. ASSUME NEW q \in (1..(r-1)) \ LostBefore(r) PROVE q \in TxSet
    <3>1. q \in 1..sent /\ q < r /\ q \notin lost
      BY <1>1, <1>2, <2>2 DEF LostBefore
    <3>2. q \notin stamping
      BY <1>1, <1>2, <3>1 DEF StampInv, Stamped
    <3>3. q \in TxSet \union QueueSet
      BY <3>1, <3>2 DEF StampInv, Stamped
    <3> QED BY <1>2, <1>4, <3>1, <3>3
  <2> QED BY <2>1, <2>2
<1>6. LostBefore(r) \subseteq 1..(r-1)
  <2>1. \A q \in LostBefore(r) : q \in 1..sent /\ q < r
    BY DEF LostBefore, StampInv, Stamped
  <2> HIDE DEF r
  <2> QED BY <1>1, <1>2, <2>1
<1>7. IsFiniteSet(1..(r-1)) /\ Cardinality(1..(r-1)) = r - 1
  <2>1. r - 1 \in Nat
    BY <1>1, <1>2
  <2>2. ASSUME NEW b \in Nat PROVE IsFiniteSet(1..b) /\ Cardinality(1..b) = b
    BY FS_Interval
  <2> HIDE DEF r
  <2> QED BY <2>1, <2>2
<1>8. IsFiniteSet(LostBefore(r)) /\ Cardinality(LostBefore(r)) \in Nat
  BY <1>6, <1>7, FS_Subset, FS_CardinalityType
<1>9. Cardinality(TxSet) = (r - 1) - Cardinality(LostBefore(r))
  <2>1. (1..(r-1)) \cap LostBefore(r) = LostBefore(r)
    BY <1>6
  <2>2. IsFiniteSet(1..(r-1)) => Cardinality((1..(r-1)) \ LostBefore(r))
           = Cardinality(1..(r-1)) - Cardinality((1..(r-1)) \cap LostBefore(r))
    BY FS_Difference
  <2> QED BY <1>5, <1>7, <2>1, <2>2
<1>10. Len(txRows) = Cardinality(TxSet) /\ Len(txRows) \in Nat
  BY DEF StampInv
<1> QED BY <1>1, <1>2, <1>3, <1>4, <1>8, <1>9, <1>10

LEMMA TxSetFinite ==
  ASSUME SenderInv, StampInv
  PROVE  IsFiniteSet(TxSet)
<1>1. TxSet \subseteq 1..sent /\ sent \in Int
  BY DEF StampInv, Stamped, SenderInv
<1>2. IsFiniteSet(1..sent)
  BY <1>1, FS_Interval
<1> QED BY <1>1, <1>2, FS_Subset


-----------------------------------------------------------------------------
(* Looks at the error queue.                                               *)

LEMMA TailOfQueue ==
  ASSUME NEW m \in Nat, errq \in Seq(Nat), errq # <<>>, errq' = Tail(errq), m \in DOMAIN errq'
  PROVE  m + 1 \in DOMAIN errq /\ errq'[m] = errq[m + 1] /\ m \in 1..(Len(errq) - 1)
<1>1. /\ errq' \in Seq(Nat) /\ Len(errq') = Len(errq) - 1 /\ Len(errq) \in Nat
      /\ \A i \in 1..Len(errq') : errq'[i] = errq[i + 1]
  BY HeadTailProperties
<1> QED BY <1>1

LEMMA DrainOneStep == IInv /\ DrainOne => (StampInv /\ ShiftedByLosses)'
<1> SUFFICES ASSUME IInv, DrainOne PROVE (StampInv /\ ShiftedByLosses)'
  OBVIOUS
<1>1. /\ SenderInv /\ StampInv /\ ShiftedByLosses
      /\ errq # <<>> /\ errq' = Tail(errq) /\ UNCHANGED <<sent, stamping, lost>>
      /\ errq \in Seq(Nat) /\ errq' \in Seq(Nat) /\ txRows \in Seq(Nat)
      /\ Len(txRows) \in Nat /\ sent \in Nat
  BY HeadTailProperties DEF IInv, DrainOne, StampInv, SenderInv
<1>2. Stamped' = Stamped
  BY <1>1 DEF Stamped
<1>3. \A m, n \in DOMAIN errq' : m < n /\ errq'[m] # None /\ errq'[n] # None => errq'[m] < errq'[n]
  <2> SUFFICES ASSUME NEW m \in DOMAIN errq', NEW n \in DOMAIN errq', m < n,
                      errq'[m] # None, errq'[n] # None
               PROVE  errq'[m] < errq'[n]
    OBVIOUS
  <2>1. m \in Nat /\ n \in Nat
    BY <1>1
  <2>2. /\ m + 1 \in DOMAIN errq /\ errq'[m] = errq[m + 1]
        /\ n + 1 \in DOMAIN errq /\ errq'[n] = errq[n + 1]
    BY <1>1, <2>1, TailOfQueue
  <2>3. m + 1 < n + 1
    BY <2>1
  <2> QED BY <1>1, <2>2, <2>3 DEF StampInv
<1>4. QueueSet' = QueueSet \ {Head(errq)}
  <2>1. ASSUME NEW q \in QueueSet' PROVE q \in QueueSet \ {Head(errq)}
    <3>1. PICK m \in DOMAIN errq' : q = errq'[m] /\ q # None
      BY DEF QueueSet
    <3>2. m \in Nat
      BY <1>1
    <3>3. m + 1 \in DOMAIN errq /\ q = errq[m + 1] /\ 1 < m + 1 /\ 1 \in DOMAIN errq
      BY <1>1, <3>1, <3>2, TailOfQueue
    <3>4. errq[1] = Head(errq) /\ errq[1] \in Nat /\ q \in Nat
      BY <1>1, <3>3
    <3>5. q # errq[1]
      BY <1>1, <3>1, <3>3, <3>4 DEF StampInv
    <3> QED BY <3>1, <3>3, <3>4, <3>5 DEF QueueSet
  <2>2. ASSUME NEW q \in QueueSet, q # Head(errq) PROVE q \in QueueSet'
    <3>1. PICK n \in DOMAIN errq : q = errq[n] /\ q # None
      BY DEF QueueSet
    <3>2. n \in Nat /\ n # 1 /\ n - 1 \in 1..(Len(errq) - 1)
      BY <1>1, <2>2, <3>1
    <3>3. /\ Len(errq') = Len(errq) - 1 /\ errq'[n - 1] = errq[(n - 1) + 1]
      BY <1>1, <3>2, HeadTailProperties
    <3>4. n - 1 \in DOMAIN errq' /\ errq'[n - 1] = q
      BY <1>1, <3>1, <3>2, <3>3
    <3> QED BY <3>1, <3>4 DEF QueueSet
  <2> QED BY <2>1, <2>2
<1>5. CASE Head(errq) = None
  <2>1. txRows' = txRows /\ TxSet' = TxSet /\ QueueSet' = QueueSet
    BY <1>4, <1>5 DEF DrainOne, TxSet, QueueSet
  <2>2. StampInv'
    BY <1>1, <1>2, <1>3, <2>1 DEF StampInv
  <2>3. ShiftedByLosses'
    BY <1>1, <2>1 DEF ShiftedByLosses
  <2> QED BY <2>2, <2>3
<1>6. CASE Head(errq) # None
  <2> DEFINE r == Head(errq)
  <2>1. /\ r \in 1..sent /\ r \in QueueSet /\ r \in Nat
        /\ \A q \in TxSet : q < r
        /\ \A q \in QueueSet : q # r => r < q
        /\ Len(txRows) + 1 + Cardinality(LostBefore(r)) = r
        /\ Len(txRows) < sent
    BY <1>1, <1>6, HeadIsNext
  <2>2. txRows' = Append(txRows, r)
    BY <1>6, <2>1 DEF DrainOne
  <2> HIDE DEF r
  <2>3. /\ txRows' \in Seq(Nat) /\ Len(txRows') = Len(txRows) + 1
        /\ DOMAIN txRows' = DOMAIN txRows \union {Len(txRows) + 1}
        /\ txRows'[Len(txRows) + 1] = r
        /\ \A k \in DOMAIN txRows : txRows'[k] = txRows[k]
    BY <1>1, <2>1, <2>2, AppendProperties
  <2>4. TxSet' = TxSet \union {r}
    BY <2>3 DEF TxSet
  <2>5. r \notin TxSet /\ QueueSet' = QueueSet \ {r} /\ r \notin lost
    <3>1. r \notin TxSet
      BY <2>1
    <3>2. QueueSet' = QueueSet \ {r}
      BY <1>4 DEF r
    <3>3. r \notin lost
      BY <1>1, <2>1 DEF StampInv
    <3> QED BY <3>1, <3>2, <3>3
  <2>6. Cardinality(TxSet') = Len(txRows')
    <3>1. IsFiniteSet(TxSet)
      BY <1>1, TxSetFinite
    <3>2. Cardinality(TxSet \union {r}) = Cardinality(TxSet) + 1
      BY <2>5, <3>1, FS_AddElement
    <3> QED BY <1>1, <2>3, <2>4, <3>2 DEF StampInv
  <2>7. TxSet' \union QueueSet' = Stamped' \ lost'
    BY <1>1, <1>2, <2>1, <2>4, <2>5 DEF StampInv
  <2>8. \A q \in TxSet', s \in QueueSet' : q < s
    BY <1>1, <2>1, <2>4, <2>5 DEF StampInv
  <2>9. StampInv'
    BY <1>1, <1>2, <1>3, <2>3, <2>6, <2>7, <2>8 DEF StampInv
  <2>10. ShiftedByLosses'
    <3> SUFFICES ASSUME NEW k \in DOMAIN txRows'
                 PROVE  /\ txRows'[k] = k + Cardinality({q \in lost : q < txRows'[k]})
                        /\ txRows'[k] \notin lost
      BY <1>1 DEF ShiftedByLosses
    <3>1. CASE k \in DOMAIN txRows
      BY <1>1, <2>3, <3>1 DEF ShiftedByLosses
    <3>2. CASE k = Len(txRows) + 1
      BY <2>1, <2>3, <2>5, <3>2 DEF LostBefore
    <3> QED BY <2>3, <3>1, <3>2
  <2> QED BY <2>9, <2>10
<1> QED BY <1>5, <1>6


-----------------------------------------------------------------------------
(* The network card stamps the next request.                               *)

LEMMA LeastElement ==
  ASSUME NEW S \in SUBSET Nat, S # {}
  PROVE  \E n \in S : \A k \in S : n <= k
<1> DEFINE R == OpToRel(<, Nat)
<1>1. IsWellFoundedOn(R, Nat)
  BY NatLessThanWellFounded
<1>2. \A x, y \in Nat : x < y => <<x, y>> \in R
  BY DEF OpToRel
<1> HIDE DEF R
<1>3. PICK x \in S : \A y \in S : ~(<<y, x>> \in R)
  BY <1>1, WFMin
<1>4. ASSUME NEW k \in S PROVE x <= k
  <2>1. k \in Nat /\ x \in Nat /\ ~(k < x)
    BY <1>2, <1>3
  <2> QED BY <2>1
<1> QED BY <1>4

LEMMA StampTxStep == IInv /\ StampTx => (StampInv /\ ShiftedByLosses)'
<1> SUFFICES ASSUME IInv, StampTx PROVE (StampInv /\ ShiftedByLosses)'
  OBVIOUS
<1> DEFINE r == CHOOSE n \in stamping : \A k \in stamping : n <= k
<1>1. /\ SenderInv /\ StampInv /\ ShiftedByLosses
      /\ sent \in Nat /\ stamping \subseteq 1..sent /\ stamping # {}
      /\ UNCHANGED <<sent, txRows>> /\ stamping' = stamping \ {r}
  BY DEF IInv, StampTx, StampInv, SenderInv, sender
<1>2. r \in stamping /\ \A k \in stamping : r <= k
  <2>1. \E n \in stamping : \A k \in stamping : n <= k
    BY <1>1, LeastElement
  <2> QED BY <2>1
<1>3. \/ errq' = Append(errq, r) /\ lost' = lost
      \/ errq' = Append(errq, None) /\ lost' = lost \union {r}
      \/ errq' = errq /\ lost' = lost \union {r}
  BY DEF StampTx
<1> HIDE DEF r
<1>4. r \in 1..sent /\ r \in Nat /\ r \notin Stamped /\ Stamped' = Stamped \union {r}
  BY <1>1, <1>2 DEF Stamped
<1>5. r \notin lost /\ TxSet' = TxSet /\ (\A q \in Stamped : q < r)
  BY <1>1, <1>2, <1>4 DEF StampInv, TxSet
<1>6. \A q \in Stamped', s \in stamping' : q < s
  <2> SUFFICES ASSUME NEW q \in Stamped', NEW s \in stamping' PROVE q < s
    OBVIOUS
  <2>1. s \in stamping /\ s # r /\ s \in Nat /\ r <= s
    BY <1>1, <1>2
  <2>2. CASE q = r
    BY <1>4, <2>1, <2>2
  <2>3. CASE q \in Stamped
    BY <1>1, <2>1, <2>3 DEF StampInv
  <2> QED BY <1>4, <2>2, <2>3
<1>7. \A q \in TxSet \union QueueSet : q \in Stamped /\ q < r
  BY <1>1, <1>5 DEF StampInv
<1>8. ASSUME NEW e \in {None, r}, errq' = Append(errq, e)
      PROVE  /\ errq' \in Seq(Nat) /\ QueueSet' = QueueSet \union ({e} \ {None})
             /\ \A m, n \in DOMAIN errq' :
                  m < n /\ errq'[m] # None /\ errq'[n] # None => errq'[m] < errq'[n]
  <2>1. errq \in Seq(Nat) /\ Len(errq) \in Nat /\ e \in Nat
    BY <1>1, <1>4 DEF StampInv, None
  <2>2. /\ errq' \in Seq(Nat) /\ Len(errq') = Len(errq) + 1
        /\ DOMAIN errq' = DOMAIN errq \union {Len(errq) + 1}
        /\ errq'[Len(errq) + 1] = e
        /\ \A k \in DOMAIN errq : errq'[k] = errq[k]
    BY <1>8, <2>1, AppendProperties
  <2>3. QueueSet' = QueueSet \union ({e} \ {None})
    BY <2>2 DEF QueueSet
  <2>4. ASSUME NEW m \in DOMAIN errq', NEW n \in DOMAIN errq', m < n,
               errq'[m] # None, errq'[n] # None
        PROVE  errq'[m] < errq'[n]
    <3>1. m \in DOMAIN errq
      BY <2>1, <2>2, <2>4
    <3>2. CASE n \in DOMAIN errq
      BY <1>1, <2>2, <2>4, <3>1, <3>2 DEF StampInv
    <3>3. CASE n = Len(errq) + 1
      <4>1. errq[m] \in QueueSet
        BY <2>2, <2>4, <3>1 DEF QueueSet
      <4> QED BY <1>7, <2>2, <2>4, <3>1, <3>3, <4>1
    <3> QED BY <2>2, <3>2, <3>3
  <2> QED BY <2>2, <2>3, <2>4
<1>9. /\ errq' \in Seq(Nat)
      /\ \A m, n \in DOMAIN errq' :
           m < n /\ errq'[m] # None /\ errq'[n] # None => errq'[m] < errq'[n]
      /\ \/ QueueSet' = QueueSet \union {r} /\ lost' = lost
         \/ QueueSet' = QueueSet /\ lost' = lost \union {r}
  <2>1. CASE errq' = Append(errq, r) /\ lost' = lost
    <3>1. {r} \ {None} = {r}
      BY <1>4 DEF None
    <3> QED BY <1>8, <2>1, <3>1
  <2>2. CASE errq' = Append(errq, None) /\ lost' = lost \union {r}
    <3>1. {None} \ {None} = {}
      OBVIOUS
    <3> QED BY <1>8, <2>2, <3>1
  <2>3. CASE errq' = errq /\ lost' = lost \union {r}
    BY <1>1, <2>3 DEF StampInv, QueueSet
  <2> QED BY <1>3, <2>1, <2>2, <2>3
<1>10. StampInv'
  <2>1. TxSet' \union QueueSet' = Stamped' \ lost' /\ lost' \subseteq Stamped'
    BY <1>1, <1>4, <1>5, <1>9 DEF StampInv
  <2>2. \A q \in TxSet', s \in QueueSet' : q < s
    BY <1>1, <1>5, <1>7, <1>9 DEF StampInv
  <2>3. stamping' \subseteq 1..sent' /\ txRows' \in Seq(Nat) /\ Cardinality(TxSet') = Len(txRows')
    BY <1>1, <1>5 DEF StampInv
  <2> QED BY <1>6, <1>9, <2>1, <2>2, <2>3 DEF StampInv
<1>11. ShiftedByLosses'
  <2> SUFFICES ASSUME NEW k \in DOMAIN txRows
               PROVE  /\ txRows[k] = k + Cardinality({q \in lost' : q < txRows[k]})
                      /\ txRows[k] \notin lost'
    BY <1>1 DEF ShiftedByLosses
  <2>1. txRows[k] \in TxSet /\ txRows[k] < r /\ txRows[k] \in Nat
    BY <1>1, <1>7 DEF TxSet, StampInv
  <2>2. lost' = lost \/ lost' = lost \union {r}
    BY <1>9
  <2>3. {q \in lost' : q < txRows[k]} = {q \in lost : q < txRows[k]}
    BY <1>4, <2>1, <2>2
  <2>4. txRows[k] \notin lost'
    <3>1. txRows[k] # r
      BY <1>4, <2>1
    <3>2. txRows[k] \notin lost
      BY <1>1 DEF ShiftedByLosses
    <3> QED BY <2>2, <3>1, <3>2
  <2> QED BY <1>1, <2>3, <2>4 DEF ShiftedByLosses
<1> QED BY <1>10, <1>11

LEMMA StampStep == IInv /\ [Next]_vars => (StampInv /\ ShiftedByLosses)'
<1> SUFFICES ASSUME IInv, [Next]_vars PROVE (StampInv /\ ShiftedByLosses)'
  OBVIOUS
<1>1. SenderInv /\ StampInv /\ ShiftedByLosses
  BY DEF IInv
<1>2. CASE Send
  <2>1. /\ sent' = sent + 1 /\ sent \in Nat /\ stamping' = stamping \union {sent + 1}
        /\ UNCHANGED <<txRows, lost, errq>>
    BY <1>1, <1>2 DEF Send, SenderInv
  <2>2. Stamped' = Stamped
    BY <1>1, <2>1 DEF Stamped, StampInv
  <2>3. \A q \in Stamped, s \in stamping' : q < s
    BY <1>1, <2>1 DEF StampInv, Stamped
  <2>4. stamping' \subseteq 1..sent'
    BY <1>1, <2>1 DEF StampInv
  <2>5. TxSet' = TxSet /\ QueueSet' = QueueSet
    BY <2>1 DEF TxSet, QueueSet
  <2> QED BY <1>1, <2>1, <2>2, <2>3, <2>4, <2>5 DEF StampInv, ShiftedByLosses
<1>3. CASE ~(Send \/ DrainOne \/ StampTx)
  <2>1. UNCHANGED <<sent, txRows, nic>>
    BY <1>3 DEF Next, Sender, Receiver, Fails, DrainEnd, Receive, Timeout, Signal, Duplicate,
                vars, sender, nic
  <2>2. TxSet' = TxSet /\ QueueSet' = QueueSet /\ Stamped' = Stamped
    BY <2>1 DEF TxSet, QueueSet, Stamped, nic
  <2> QED BY <1>1, <2>1, <2>2 DEF StampInv, ShiftedByLosses, nic
<1> QED BY <1>2, <1>3, DrainOneStep, StampTxStep

-----------------------------------------------------------------------------
(* The theorems.                                                           *)

LEMMA Invariance == Spec => []IInv
<1>1. IInv /\ [Next]_vars => IInv'
  BY SenderStep, ReceiverStep, StampStep DEF IInv
<1> QED BY InitInv, <1>1, PTL DEF Spec

\* The variables have their types: a row of sender_tx_ts.csv is of a request
\* that was sent, and a row of receiver.csv has its own timestamp or none.
THEOREM TypeCorrect == Spec => []TypeOK
<1>1. IInv => TypeOK
  <2> SUFFICES ASSUME IInv PROVE TypeOK
    OBVIOUS
  <2>1. SenderInv /\ ReceiverInv /\ StampInv
    BY DEF IInv
  <2>2. Stamped \subseteq 1..sent /\ lost \subseteq 1..sent
    BY <2>1 DEF StampInv, Stamped
  <2>3. \A k \in DOMAIN txRows : txRows[k] \in 1..sent
    BY <2>1, <2>2 DEF StampInv, TxSet
  <2>4. \A k \in DOMAIN errq : errq[k] \in {None} \union 1..sent
    BY <2>1, <2>2 DEF StampInv, QueueSet
  <2> QED BY <2>1, <2>2, <2>3, <2>4 DEF SenderInv, ReceiverInv, StampInv, TypeOK
<1> QED BY Invariance, <1>1, PTL

\* Row k of sender_tx_ts.csv has the timestamp of request k plus the number of
\* timestamps lost before it, for any number of requests and any bursts
\* (meas_sender.c:121-134).
THEOREM ShiftCorrect == Spec => []ShiftedByLosses
<1>1. IInv => ShiftedByLosses
  BY DEF IInv
<1> QED BY Invariance, <1>1, PTL

\* A request without a row in receiver.csv makes one row of the joined table,
\* and a row of receiver.csv makes one, however often requests are repeated
\* (process_meas_compose_ts.py:72-74).
THEOREM LossesCorrect == Spec => []LossesCounted
<1>1. IInv => LossesCounted
  <2> SUFFICES ASSUME IInv PROVE LossesCounted
    OBVIOUS
  <2> DEFINE missing == {j \in Joined : j.row = 0}
             absent  == 1..sent \ {rxRows[k].req : k \in DOMAIN rxRows}
  <2>1. /\ \A k \in DOMAIN rxRows : rxRows[k].req \in 1..sent /\ k \in Nat \ {0}
        /\ sent \in Nat
    <3>1. rxRows \in Seq([req : Nat, rx : Nat])
      BY DEF IInv, ReceiverInv
    <3>2. \A k \in DOMAIN rxRows : k \in Nat \ {0}
      BY <3>1
    <3> QED BY <3>2 DEF IInv, ReceiverInv, SenderInv
  <2>2. \A r, k : JoinedRow(r, k).req = r /\ JoinedRow(r, k).row = k
    BY DEF JoinedRow
  <2>3. \A r \in 1..sent : RowsOf(r) = {} <=> r \in absent
    BY DEF RowsOf
  <2>4. \A j : j \in Joined <=>
          \E r \in 1..sent : \E k \in IF RowsOf(r) = {} THEN {0} ELSE RowsOf(r) : j = JoinedRow(r, k)
    BY DEF Joined
  <2>5. missing = {JoinedRow(r, 0) : r \in absent}
    <3>1. ASSUME NEW j \in missing PROVE j \in {JoinedRow(r, 0) : r \in absent}
      <4>1. PICK r \in 1..sent : \E k \in IF RowsOf(r) = {} THEN {0} ELSE RowsOf(r) : j = JoinedRow(r, k)
        BY <2>4
      <4>2. PICK k \in IF RowsOf(r) = {} THEN {0} ELSE RowsOf(r) : j = JoinedRow(r, k)
        BY <4>1
      <4>3. k = 0
        BY <2>2, <4>2
      <4>4. RowsOf(r) = {}
        BY <2>1, <4>2, <4>3 DEF RowsOf
      <4> QED BY <2>3, <4>2, <4>3, <4>4
    <3>2. ASSUME NEW r \in absent PROVE JoinedRow(r, 0) \in missing
      <4>1. RowsOf(r) = {} /\ r \in 1..sent
        BY <2>3
      <4>2. JoinedRow(r, 0) \in Joined
        BY <2>4, <4>1
      <4> QED BY <2>2, <4>2
    <3> QED BY <3>1, <3>2
  <2>6. {j.req : j \in missing} = absent
    BY <2>2, <2>5
  <2>7. Cardinality(missing) = Cardinality(absent)
    <3> DEFINE f == [r \in absent |-> JoinedRow(r, 0)]
    <3>1. f \in Bijection(absent, missing)
      <4>1. f \in [absent -> missing]
        BY <2>5
      <4>2. \A a, b \in absent : f[a] = f[b] => a = b
        BY <2>2
      <4>3. \A j \in missing : \E r \in absent : f[r] = j
        BY <2>5
      <4> HIDE DEF f, missing, absent
      <4> QED BY <4>1, <4>2, <4>3, Fun_IsBij
    <3>2. IsFiniteSet(1..sent)
      BY <2>1, FS_Interval
    <3>3. IsFiniteSet(absent)
      BY <3>2, FS_Difference
    <3> HIDE DEF f, missing, absent
    <3> QED BY <3>1, <3>3, FS_Bijection DEF ExistsBijection
  <2>8. ASSUME NEW k \in DOMAIN rxRows PROVE Cardinality({j \in Joined : j.row = k}) = 1
    <3> DEFINE r == rxRows[k].req
    <3>1. r \in 1..sent /\ k # 0 /\ k \in RowsOf(r)
      BY <2>1 DEF RowsOf
    <3>2. JoinedRow(r, k) \in Joined
      <4>1. k \in IF RowsOf(r) = {} THEN {0} ELSE RowsOf(r)
        BY <3>1
      <4> QED BY <2>4, <3>1, <4>1
    <3>3. ASSUME NEW j \in Joined, j.row = k PROVE j = JoinedRow(r, k)
      <4>1. PICK q \in 1..sent : \E m \in IF RowsOf(q) = {} THEN {0} ELSE RowsOf(q) : j = JoinedRow(q, m)
        BY <2>4
      <4>2. PICK m \in IF RowsOf(q) = {} THEN {0} ELSE RowsOf(q) : j = JoinedRow(q, m)
        BY <4>1
      <4>3. m = k /\ m \in RowsOf(q)
        BY <2>2, <3>1, <3>3, <4>2
      <4> QED BY <4>2, <4>3 DEF RowsOf
    <3>4. {j \in Joined : j.row = k} = {JoinedRow(r, k)}
      BY <2>2, <3>2, <3>3
    <3> QED BY <3>4, FS_Singleton
  <2> QED BY <2>6, <2>7, <2>8 DEF LossesCounted
<1> QED BY Invariance, <1>1, PTL

-----------------------------------------------------------------------------
(* Each step of a program brings its end nearer.                           *)

LEMMA StampingFinite ==
  ASSUME SenderInv, StampInv
  PROVE  IsFiniteSet(stamping) /\ Cardinality(stamping) \in Nat
<1>1. stamping \subseteq 1..sent /\ sent \in Int
  BY DEF StampInv, SenderInv
<1>2. IsFiniteSet(1..sent)
  BY <1>1, FS_Interval
<1> QED BY <1>1, <1>2, FS_Subset, FS_CardinalityType

LEMMA SenderCounts ==
  ASSUME IInv
  PROVE  /\ sent \in 0..Count /\ Count \in Nat /\ tries \in 0..FinalRetry /\ FinalRetry \in Nat
         /\ errq \in Seq(Nat) /\ Len(errq) \in Nat
         /\ IsFiniteSet(stamping) /\ Cardinality(stamping) \in Nat
<1>1. SenderInv /\ StampInv
  BY DEF IInv
<1> QED BY <1>1, StampingFinite, CountAssumption, RetryAssumption DEF SenderInv, StampInv

LEMMA SenderAheadType == IInv => SenderAhead \in Nat
<1> SUFFICES ASSUME IInv PROVE SenderAhead \in Nat
  OBVIOUS
<1>1. 3 * (Count - sent) \in Nat /\ FinalRetry - tries \in Nat
      /\ Cardinality(stamping) \in Nat /\ Len(errq) \in Nat
  BY SenderCounts
<1> QED BY <1>1 DEF SenderAhead

LEMMA SenderAheadTypeNext == IInv' => (SenderAhead \in Nat)'
BY SenderAheadType, PTL

LEMMA SenderStepAhead ==
  IInv /\ Sender => SenderAhead' <= SenderAhead /\ SenderAhead' < SenderAhead
<1> SUFFICES ASSUME IInv, Sender
             PROVE  SenderAhead' <= SenderAhead /\ SenderAhead' < SenderAhead
  OBVIOUS
<1> DEFINE waiting == Cardinality(stamping)
<1>1. /\ sent \in 0..Count /\ Count \in Nat /\ tries \in 0..FinalRetry /\ FinalRetry \in Nat
      /\ errq \in Seq(Nat) /\ Len(errq) \in Nat
      /\ IsFiniteSet(stamping) /\ waiting \in Nat
      /\ SenderInv
  BY SenderCounts DEF IInv
<1>2. CASE Send
  <2>1. /\ sent' = sent + 1 /\ spc = "send" /\ UNCHANGED <<tries, errq>>
        /\ stamping' = stamping \union {sent + 1}
    BY <1>2 DEF Send
  <2>2. sent + 1 \notin stamping
    BY <1>1 DEF IInv, StampInv
  <2>3. waiting' = waiting + 1
    BY <1>1, <2>1, <2>2, FS_AddElement
  <2> HIDE DEF waiting
  <2>4. SenderAhead = 3 * (Count - sent) + waiting + Len(errq) + (FinalRetry - tries)
    BY <1>1, <2>1 DEF SenderAhead, waiting
  <2>5. SenderAhead' = 3 * (Count - (sent + 1)) + (waiting + 1) + Len(errq) + (FinalRetry - tries)
                         + (IF spc' = "drain" THEN 1 ELSE 0)
    BY <2>1, <2>3 DEF SenderAhead, waiting
  <2> QED BY <1>1, <2>4, <2>5
<1>3. CASE DrainOne
  <2>1. UNCHANGED <<spc, sent, tries, stamping>> /\ Len(errq') = Len(errq) - 1
    <3>1. /\ UNCHANGED <<spc, sent, tries, stamping>>
          /\ errq # <<>> /\ errq' = Tail(errq)
      BY <1>3 DEF DrainOne
    <3>2. Len(Tail(errq)) = Len(errq) - 1
      BY <1>1, <3>1, HeadTailProperties
    <3> QED BY <3>1, <3>2
  <2>2. waiting' = waiting
    BY <2>1
  <2> HIDE DEF waiting
  <2>3. SenderAhead = 3 * (Count - sent) + waiting + Len(errq) + (FinalRetry - tries)
                        + (IF spc = "drain" THEN 1 ELSE 0)
    BY DEF SenderAhead, waiting
  <2>4. SenderAhead' = 3 * (Count - sent) + waiting + (Len(errq) - 1) + (FinalRetry - tries)
                         + (IF spc = "drain" THEN 1 ELSE 0)
    BY <2>1, <2>2 DEF SenderAhead, waiting
  <2> QED BY <1>1, <2>3, <2>4
<1>4. CASE DrainEnd
  <2>1. UNCHANGED <<sent, stamping, errq>>
    BY <1>4 DEF DrainEnd, nic
  <2>2. CASE spc = "drain"
    <3>1. UNCHANGED tries /\ spc' # "drain"
      BY <1>4, <2>2 DEF DrainEnd
    <3> QED BY <1>1, <2>1, <2>2, <3>1 DEF SenderAhead
  <2>3. CASE spc = "final"
    <3>1. tries' = tries + 1 /\ spc' # "drain"
      BY <1>4, <2>3 DEF DrainEnd
    <3> QED BY <1>1, <2>1, <2>3, <3>1 DEF SenderAhead
  <2> QED BY <1>4, <2>2, <2>3 DEF DrainEnd
<1> QED BY <1>2, <1>3, <1>4 DEF Sender

LEMMA OtherStepSenderAhead == IInv /\ [Next]_vars /\ ~Sender => SenderAhead' <= SenderAhead
<1> SUFFICES ASSUME IInv, [Next]_vars, ~Sender PROVE SenderAhead' <= SenderAhead
  OBVIOUS
<1> DEFINE waiting == Cardinality(stamping)
<1>1. /\ sent \in 0..Count /\ Count \in Nat /\ tries \in 0..FinalRetry /\ FinalRetry \in Nat
      /\ errq \in Seq(Nat) /\ Len(errq) \in Nat
      /\ IsFiniteSet(stamping) /\ waiting \in Nat
  BY SenderCounts
<1>2. CASE StampTx
  <2> DEFINE r == CHOOSE n \in stamping : \A k \in stamping : n <= k
  <2>1. /\ stamping # {} /\ stamping' = stamping \ {r} /\ UNCHANGED <<spc, sent, tries>>
        /\ errq' = Append(errq, r) \/ errq' = Append(errq, None) \/ errq' = errq
    BY <1>2 DEF StampTx, sender
  <2>2. stamping \subseteq 1..sent /\ sent \in Nat
    BY <1>1 DEF IInv, StampInv
  <2>3. r \in stamping
    <3>1. \E n \in stamping : \A k \in stamping : n <= k
      BY <2>1, <2>2, LeastElement
    <3> QED BY <3>1
  <2> HIDE DEF r
  <2>4. waiting' = waiting - 1
    BY <1>1, <2>1, <2>3, FS_RemoveElement
  <2>5. Len(errq') <= Len(errq) + 1 /\ Len(errq') \in Nat
    <3>1. r \in Nat /\ None \in Nat
      BY <2>2, <2>3 DEF None
    <3> QED BY <1>1, <2>1, <3>1, AppendProperties
  <2> HIDE DEF waiting
  <2>6. SenderAhead = 3 * (Count - sent) + waiting + Len(errq) + (FinalRetry - tries)
                        + (IF spc = "drain" THEN 1 ELSE 0)
    BY DEF SenderAhead, waiting
  <2>7. SenderAhead' = 3 * (Count - sent) + (waiting - 1) + Len(errq') + (FinalRetry - tries)
                         + (IF spc = "drain" THEN 1 ELSE 0)
    BY <2>1, <2>4 DEF SenderAhead, waiting
  <2> QED BY <1>1, <2>5, <2>6, <2>7
<1>3. CASE Fails
  <2>1. UNCHANGED <<sent, tries, stamping, errq>> /\ spc' # "drain"
    BY <1>3 DEF Fails, nic
  <2> QED BY <1>1, <2>1 DEF SenderAhead
<1>4. CASE ~(StampTx \/ Fails)
  <2>1. UNCHANGED <<spc, sent, tries, stamping, errq>>
    BY <1>4 DEF Next, Receiver, Receive, Timeout, Signal, Duplicate, vars, sender, nic
  <2> QED BY <1>1, <2>1 DEF SenderAhead
<1> QED BY <1>2, <1>3, <1>4

\* Each step of the sender brings its end nearer, whatever timestamps are late or
\* lost, and no other step takes it further away (meas_sender.c:69-137, 281-353).
THEOREM SenderGetsOn == Spec => SenderAdvances
<1>1. IInv /\ IInv' /\ [Next]_vars
        => [SenderAhead' \in 0..SenderAhead /\ (Sender => SenderAhead' < SenderAhead)]_vars
  <2> SUFFICES ASSUME IInv, IInv', [Next]_vars
               PROVE  SenderAhead' \in 0..SenderAhead /\ (Sender => SenderAhead' < SenderAhead)
    OBVIOUS
  <2>1. SenderAhead \in Nat /\ SenderAhead' \in Nat
    BY SenderAheadType, SenderAheadTypeNext
  <2>2. CASE Sender
    BY <2>1, <2>2, SenderStepAhead
  <2>3. CASE ~Sender
    BY <2>1, <2>3, OtherStepSenderAhead
  <2> QED BY <2>2, <2>3
<1> QED BY Invariance, <1>1, PTL DEF Spec, SenderAdvances

LEMMA MoreRounds ==
  ASSUME NEW width \in Nat, NEW few \in Nat, NEW many \in Nat
  PROVE  /\ width * few \in Nat /\ width * many \in Nat
         /\ few <= many => width * few <= width * many
         /\ few < many => width * few + width <= width * many
<1>1. width * few \in Nat /\ width * many \in Nat
  OBVIOUS
<1>2. ASSUME few < many PROVE width * few + width <= width * many
  <2> DEFINE k == many - few - 1
  <2>1. k \in Nat /\ many = few + 1 + k
    BY <1>2
  <2> HIDE DEF k
  <2>2. width * k \in Nat
    BY <2>1
  <2>3. width * (few + 1 + k) = width * few + width + width * k
    BY <2>1
  <2> QED BY <1>1, <2>1, <2>2, <2>3
<1>3. ASSUME few <= many PROVE width * few <= width * many
  <2>1. few = many \/ few < many
    BY <1>3
  <2> QED BY <1>1, <1>2, <2>1
<1> QED BY <1>1, <1>2, <1>3

\* What can still reach the receiver.
Coming == (Count - sent) + (MaxDup - dups) + Cardinality(net)

LEMMA ReceiverCounts ==
  ASSUME IInv
  PROVE  /\ sent \in 0..Count /\ Count \in Nat /\ dups \in 0..MaxDup /\ MaxDup \in Nat
         /\ idle \in 0..IdleExit /\ IdleExit \in Nat \ {0} /\ (rpc = "run" => idle < IdleExit)
         /\ IsFiniteSet(net) /\ Cardinality(net) \in Nat
         /\ Coming \in Nat
<1>1. /\ sent \in 0..Count /\ Count \in Nat /\ dups \in 0..MaxDup /\ MaxDup \in Nat
      /\ idle \in 0..IdleExit /\ IdleExit \in Nat \ {0} /\ (rpc = "run" => idle < IdleExit)
      /\ net \subseteq (1..sent) \X (0..MaxDup)
  BY CountAssumption, RetryAssumption, BoundAssumption DEF IInv, SenderInv, ReceiverInv
<1>2. IsFiniteSet(1..sent) /\ IsFiniteSet(0..MaxDup)
  <2>1. 0 \in Int /\ 1 \in Int /\ sent \in Int /\ MaxDup \in Int
    BY <1>1
  <2> QED BY <2>1, FS_Interval
<1>3. IsFiniteSet((1..sent) \X (0..MaxDup))
  BY <1>2, FS_Product
<1>4. IsFiniteSet(net) /\ Cardinality(net) \in Nat
  BY <1>1, <1>3, FS_Subset, FS_CardinalityType
<1> QED BY <1>1, <1>4 DEF Coming

\* A request that is sent, or repeated, comes from what the two counts leave.
LEMMA ComingStep ==
  IInv /\ [Next]_vars /\ ~Receiver => Coming' <= Coming /\ Coming' \in Nat
<1> SUFFICES ASSUME IInv, [Next]_vars, ~Receiver PROVE Coming' <= Coming /\ Coming' \in Nat
  OBVIOUS
<1> DEFINE under == Cardinality(net)
<1>1. /\ sent \in 0..Count /\ Count \in Nat /\ dups \in 0..MaxDup /\ MaxDup \in Nat
      /\ IsFiniteSet(net) /\ under \in Nat
  BY ReceiverCounts
<1>2. ASSUME NEW d, net' = net \union {d}
      PROVE  under' \in Nat /\ under' <= under + 1
  <2>1. CASE d \in net
    <3>1. net' = net
      BY <1>2, <2>1
    <3> QED BY <1>1, <3>1
  <2>2. CASE d \notin net
    <3>1. under' = under + 1
      BY <1>1, <1>2, <2>2, FS_AddElement
    <3> QED BY <1>1, <3>1
  <2> QED BY <2>1, <2>2
<1>3. CASE Send
  <2>1. sent' = sent + 1 /\ dups' = dups /\ spc = "send" /\ net' = net \union {<<sent', 0>>}
    BY <1>3 DEF Send
  <2>2. sent < Count
    BY <2>1 DEF IInv, SenderInv
  <2>3. under' \in Nat /\ under' <= under + 1
    BY <1>2, <2>1
  <2>4. PICK unsent \in Nat : Count - sent = unsent + 1 /\ Count - (sent + 1) = unsent
    BY <1>1, <2>2
  <2>5. PICK spare \in Nat, now \in Nat, then \in Nat :
          spare = MaxDup - dups /\ now = under /\ then = under'
    <3>1. MaxDup - dups \in Nat
      BY <1>1
    <3> HIDE DEF under
    <3> QED BY <1>1, <2>3, <3>1
  <2>6. then <= now + 1
    BY <2>3, <2>5
  <2>7. Coming = (unsent + 1) + spare + now /\ Coming' = unsent + spare + then
    BY <2>1, <2>4, <2>5 DEF Coming
  <2> QED BY <2>6, <2>7
<1>4. CASE \E d \in net : Duplicate(d)
  <2>1. PICK d \in net : Duplicate(d)
    BY <1>4
  <2>2. /\ dups' = dups + 1 /\ dups < MaxDup /\ sent' = sent
        /\ net' = net \union {<<d[1], dups'>>}
    BY <2>1 DEF Duplicate, sender
  <2>3. under' \in Nat /\ under' <= under + 1
    BY <1>2, <2>2
  <2> HIDE DEF under
  <2>4. /\ Coming = (Count - sent) + (MaxDup - dups) + under
        /\ Coming' = (Count - sent) + (MaxDup - (dups + 1)) + under'
    BY <2>2 DEF Coming, under
  <2> QED BY <1>1, <2>2, <2>3, <2>4
<1>5. CASE ~(Send \/ \E d \in net : Duplicate(d))
  <2>1. UNCHANGED <<sent, dups, net>>
    BY <1>5 DEF Next, Sender, DrainOne, DrainEnd, Fails, StampTx, Signal, vars, sender, network
  <2> QED BY <1>1, <2>1 DEF Coming
<1> QED BY <1>3, <1>4, <1>5

LEMMA ReceiverAheadType == IInv => ReceiverAhead \in Nat
<1> SUFFICES ASSUME IInv PROVE ReceiverAhead \in Nat
  OBVIOUS
<1>1. IdleExit * Coming \in Nat /\ IdleExit - idle \in Nat
  <2>1. Coming \in Nat /\ IdleExit \in Nat /\ idle \in 0..IdleExit
    BY ReceiverCounts
  <2>2. IdleExit * Coming \in Nat
    BY <2>1, MoreRounds
  <2> QED BY <2>1, <2>2
<1> QED BY <1>1 DEF ReceiverAhead, Coming

LEMMA ReceiverAheadTypeNext == IInv' => (ReceiverAhead \in Nat)'
BY ReceiverAheadType, PTL

LEMMA ReceiverStepAhead ==
  IInv /\ Receiver => ReceiverAhead' <= ReceiverAhead /\ ReceiverAhead' < ReceiverAhead
<1> SUFFICES ASSUME IInv, Receiver
             PROVE  ReceiverAhead' <= ReceiverAhead /\ ReceiverAhead' < ReceiverAhead
  OBVIOUS
<1>1. /\ sent \in 0..Count /\ Count \in Nat /\ dups \in 0..MaxDup /\ MaxDup \in Nat
      /\ idle \in 0..IdleExit /\ IdleExit \in Nat \ {0} /\ (rpc = "run" => idle < IdleExit)
      /\ IsFiniteSet(net) /\ Cardinality(net) \in Nat
      /\ Coming \in Nat
  BY ReceiverCounts
<1>2. /\ ReceiverAhead = IdleExit * Coming + (IdleExit - idle)
      /\ ReceiverAhead' = IdleExit * Coming' + (IdleExit - idle')
      /\ IdleExit * Coming \in Nat
  BY <1>1 DEF ReceiverAhead, Coming
<1>3. CASE \E d \in net, kind \in StampKinds, good \in BOOLEAN : Receive(d, kind, good)
  <2>1. PICK d \in net, kind \in StampKinds, good \in BOOLEAN : Receive(d, kind, good)
    BY <1>3
  <2>2. /\ rpc = "run" /\ idle' = 0 /\ UNCHANGED <<sent, dups>>
        /\ net' = {e \in net : Behind(e, d)}
    BY <2>1 DEF Receive, sender
  <2>3. d \in net /\ d \notin net' /\ net' \subseteq net
    <3>1. d[1] \in Nat /\ d[2] \in Nat
      BY BoundAssumption DEF IInv, SenderInv, ReceiverInv
    <3>2. ~Behind(d, d)
      BY <3>1 DEF Behind
    <3> QED BY <2>2, <3>2
  <2>4. Cardinality(net') \in Nat /\ Cardinality(net') < Cardinality(net)
    <3>1. IsFiniteSet(net') /\ Cardinality(net') <= Cardinality(net)
          /\ (Cardinality(net) = Cardinality(net') => net = net')
      BY <1>1, <2>3, FS_Subset
    <3>2. net' # net
      BY <2>3
    <3> QED BY <1>1, <3>1, <3>2, FS_CardinalityType
  <2>5. Coming' \in Nat /\ Coming' < Coming
    <3>1. Coming' = (Count - sent) + (MaxDup - dups) + Cardinality(net')
      BY <2>2 DEF Coming
    <3>2. Coming = (Count - sent) + (MaxDup - dups) + Cardinality(net)
      BY DEF Coming
    <3> QED BY <1>1, <2>4, <3>1, <3>2
  <2>6. IdleExit * Coming' + IdleExit <= IdleExit * Coming /\ IdleExit * Coming' \in Nat
    BY <1>1, <2>5, MoreRounds
  <2> QED BY <1>1, <1>2, <2>2, <2>6
<1>4. CASE Timeout
  <2>1. rpc = "run" /\ idle' = idle + 1 /\ UNCHANGED <<sent, dups, net>>
    BY <1>4 DEF Timeout, sender, network
  <2>2. Coming' = Coming
    BY <2>1 DEF Coming
  <2> QED BY <1>1, <1>2, <2>1, <2>2
<1> QED BY <1>3, <1>4 DEF Receiver

LEMMA OtherStepReceiverAhead ==
  IInv /\ [Next]_vars /\ ~Receiver => ReceiverAhead' <= ReceiverAhead
<1> SUFFICES ASSUME IInv, [Next]_vars, ~Receiver PROVE ReceiverAhead' <= ReceiverAhead
  OBVIOUS
<1>1. idle \in 0..IdleExit /\ IdleExit \in Nat \ {0} /\ Coming \in Nat
  BY ReceiverCounts
<1>2. Coming' <= Coming /\ Coming' \in Nat
  BY ComingStep
<1>3. idle' = idle
  BY DEF Next, Sender, Send, DrainOne, DrainEnd, Fails, StampTx, Signal, Duplicate, vars, receiver
<1>4. /\ ReceiverAhead = IdleExit * Coming + (IdleExit - idle)
      /\ ReceiverAhead' = IdleExit * Coming' + (IdleExit - idle)
  BY <1>1, <1>3 DEF ReceiverAhead, Coming
<1>5. IdleExit * Coming' <= IdleExit * Coming /\ IdleExit * Coming' \in Nat /\ IdleExit * Coming \in Nat
  BY <1>1, <1>2, MoreRounds
<1> QED BY <1>1, <1>4, <1>5

\* Each step of the receiver brings its end nearer although a datagram sets its
\* count of timeouts back, and no request sent or repeated takes it further away
\* (meas_receiver.c:161-186).
THEOREM ReceiverGetsOn == Spec => ReceiverAdvances
<1>1. IInv /\ IInv' /\ [Next]_vars
        => [ReceiverAhead' \in 0..ReceiverAhead /\ (Receiver => ReceiverAhead' < ReceiverAhead)]_vars
  <2> SUFFICES ASSUME IInv, IInv', [Next]_vars
               PROVE  ReceiverAhead' \in 0..ReceiverAhead
                      /\ (Receiver => ReceiverAhead' < ReceiverAhead)
    OBVIOUS
  <2>1. ReceiverAhead \in Nat /\ ReceiverAhead' \in Nat
    BY ReceiverAheadType, ReceiverAheadTypeNext
  <2>2. CASE Receiver
    BY <2>1, <2>2, ReceiverStepAhead
  <2>3. CASE ~Receiver
    BY <2>1, <2>3, OtherStepReceiverAhead
  <2> QED BY <2>2, <2>3
<1> QED BY Invariance, <1>1, PTL DEF Spec, ReceiverAdvances
=============================================================================
