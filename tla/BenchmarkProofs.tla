-------------------------- MODULE BenchmarkProofs ---------------------------
(***************************************************************************)
(* The safety properties of the two benchmarks, RaftBenchmark for any      *)
(* number of requests, any window and any cluster, and BenchSweep for any  *)
(* list of thread counts.  They share no variable: Spec and SweepSpec      *)
(* speak of different parts of the state.                                  *)
(***************************************************************************)
EXTENDS RaftBenchmark, BenchSweep, FiniteSetTheorems, SequenceTheorems,
        WellFoundedInduction, TLAPS

-----------------------------------------------------------------------------
(* Type correctness.                                                       *)

LEMMA InitType == Init => TypeOK
<1> SUFFICES ASSUME Init PROVE TypeOK
  OBVIOUS
<1> QED BY BoundAssumption DEF Init, TypeOK, Reqs, Places, Stages, Replies

LEMMA AnswersType ==
  ASSUME TypeOK, NEW r \in Reqs
  PROVE  Answers(r) \subseteq Replies
BY DEF Answers, TypeOK, Replies

LEMMA TypeStep == TypeOK /\ [Next]_vars => TypeOK'
<1> SUFFICES ASSUME TypeOK, [Next]_vars PROVE TypeOK'
  OBVIOUS
<1> USE BoundAssumption DEF TypeOK, Places
<1>1. CASE TakeClient
  BY <1>1 DEF TakeClient, mapVars, raftVars
<1>2. CASE Register
  BY <1>2 DEF Register, countVars, linkVars, raftVars
<1>3. CASE Transmit
  BY <1>3 DEF Transmit, countVars, mapVars, raftVars, Stages
<1>4. CASE StampStart
  BY <1>4 DEF StampStart, countVars, linkVars, raftVars
<1>5. CASE LoadSuccess
  BY <1>5 DEF LoadSuccess, countVars, mapVars, linkVars, raftVars
<1>6. CASE TestWindow
  BY <1>6 DEF TestWindow, countVars, mapVars, linkVars, raftVars
<1>7. CASE PrintStats
  <2>1. logged' \in [Reqs -> Nat]
    BY <1>7 DEF PrintStats
  <2> QED BY <1>7, <2>1 DEF PrintStats, countVars, linkVars, raftVars
<1>8. CASE NextRequest
  BY <1>8 DEF NextRequest, countVars, mapVars, linkVars, raftVars, Reqs
<1>9. CASE Drain
  BY <1>9 DEF Drain, countVars, mapVars, linkVars, raftVars
<1>10. ASSUME NEW r \in Reqs, Handler(r) PROVE TypeOK'
  <2>1. CASE Respond(r)
    BY <2>1, AnswersType DEF Respond, mainVars, countVars, mapVars, raftVars, Stages
  <2>2. CASE ErasePending(r)
    BY <2>2 DEF ErasePending, mainVars, countVars, raftVars, Stages
  <2>3. CASE Count(r)
    BY <2>3 DEF Count, mainVars, mapVars, raftVars, Stages
  <2>4. CASE StoreLatency(r) \/ ForgetStart(r)
    BY <2>4 DEF StoreLatency, ForgetStart, mainVars, countVars, raftVars, Stages
  <2> QED BY <1>10, <2>1, <2>2, <2>3, <2>4 DEF Handler
<1>11. ASSUME NEW s \in Servers, Elect(s) PROVE TypeOK'
  BY <1>11 DEF Elect, mainVars, countVars, mapVars, linkVars
<1>12. CASE UNCHANGED vars
  BY <1>12 DEF vars, mainVars, countVars, mapVars, linkVars, raftVars
<1> QED
  BY <1>1, <1>2, <1>3, <1>4, <1>5, <1>6, <1>7, <1>8, <1>9, <1>10, <1>11, <1>12
     DEF Next, Main

\* Every variable keeps its type, for any constants the assumptions allow.
THEOREM TypeCorrect == Spec => []TypeOK
BY InitType, TypeStep, PTL DEF Spec

-----------------------------------------------------------------------------
(* The window.  sent runs one ahead of i while a request is in the hands   *)
(* of main; it may exceed the window by one only until the window was      *)
(* tested.  seen is stale but never too large.                             *)

BeforeTest == {"register", "transmit", "stamp", "load", "test"}

WindowInv ==
  /\ sent = IF pc = "take" THEN i ELSE i + 1
  /\ seen <= success
  /\ sent - success - failure <= IF pc \in BeforeTest THEN Rate + 1 ELSE Rate

LEMMA ModSmall ==
  ASSUME NEW d \in Nat, NEW w \in Nat, d < w
  PROVE  d % w = d
BY SMT

\* The test passes only when the window really has room: a difference that
\* wraps is not taken for a small one, or there is room anyway.
LEMMA RoomIfOpen ==
  ASSUME TypeOK, WindowInv, WindowOpen
  PROVE  i - success - failure < Rate
<1> USE BoundAssumption DEF TypeOK, WindowInv
<1> DEFINE d == i - seen - failure
<1>1. i \in Nat /\ i < NumReqs /\ i < Word
  BY DEF Reqs
<1>2. CASE d < 0
  BY <1>1, <1>2
<1>3. CASE d >= 0
  <2>1. d \in Nat /\ d < Word
    BY <1>1, <1>3
  <2>2. d % Word = d
    BY <2>1, ModSmall
  <2> QED BY <2>2, <1>1 DEF WindowOpen
<1> QED BY <1>1, <1>2, <1>3

LEMMA WindowStep == TypeOK /\ WindowInv /\ [Next]_vars => WindowInv'
<1> SUFFICES ASSUME TypeOK, WindowInv, [Next]_vars PROVE WindowInv'
  OBVIOUS
<1> USE BoundAssumption DEF TypeOK, WindowInv, BeforeTest
<1>1. CASE TakeClient
  BY <1>1 DEF TakeClient, Reqs
<1>2. CASE Register \/ Transmit
  BY <1>2 DEF Register, Transmit, countVars
<1>3. CASE StampStart
  BY <1>3 DEF StampStart, countVars, Reqs
<1>4. CASE LoadSuccess
  BY <1>4 DEF LoadSuccess, countVars
<1>5. CASE TestWindow
  <2>1. CASE WindowOpen
    <3>1. i - success - failure < Rate
      BY <2>1, RoomIfOpen
    <3> QED BY <3>1, <2>1, <1>5 DEF TestWindow, countVars, Reqs
  <2>2. CASE ~WindowOpen
    BY <2>2, <1>5 DEF TestWindow, countVars
  <2> QED BY <2>1, <2>2
<1>6. CASE PrintStats \/ NextRequest \/ Drain
  BY <1>6 DEF PrintStats, NextRequest, Drain, countVars, Reqs
<1>7. ASSUME NEW r \in Reqs, Handler(r) PROVE WindowInv'
  <2>1. CASE Respond(r) \/ ErasePending(r) \/ StoreLatency(r) \/ ForgetStart(r)
    BY <2>1 DEF Respond, ErasePending, StoreLatency, ForgetStart, mainVars, countVars
  <2>2. CASE Count(r)
    BY <2>2 DEF Count, mainVars, Reqs
  <2> QED BY <1>7, <2>1, <2>2 DEF Handler
<1>8. ASSUME NEW s \in Servers, Elect(s) PROVE WindowInv'
  BY <1>8 DEF Elect, mainVars, countVars
<1>9. CASE UNCHANGED vars
  BY <1>9 DEF vars, mainVars, countVars
<1> QED
  BY <1>1, <1>2, <1>3, <1>4, <1>5, <1>6, <1>7, <1>8, <1>9 DEF Next, Main

\* Never more than rate + 1 requests are unanswered, for any rate and any
\* race of the responses with main's test.
LEMMA WindowIsBounded == Spec => []WindowBounded
<1>1. Init => WindowInv
  BY BoundAssumption DEF Init, WindowInv, BeforeTest
<1>2. TypeOK /\ WindowInv => WindowBounded
  BY BoundAssumption DEF TypeOK, WindowInv, WindowBounded, Reqs
<1> QED BY <1>1, <1>2, TypeCorrect, WindowStep, PTL DEF Spec

-----------------------------------------------------------------------------
(* Requests main has not got to yet.                                       *)

Unregistered(r) == r > i \/ (r = i /\ pc \in {"take", "register"})
Untransmitted(r) == Unregistered(r) \/ (r = i /\ pc = "transmit")
Unstamped(r) == Untransmitted(r) \/ (r = i /\ pc = "stamp")

-----------------------------------------------------------------------------
(* The pending map.                                                        *)

PendingInv ==
  \A r \in Reqs :
    /\ Untransmitted(r) => stage[r] = "unsent"
    /\ stage[r] \in CountedStages \union {"count"} => r \notin pending

LEMMA PendingStep == TypeOK /\ PendingInv /\ [Next]_vars => PendingInv'
<1> SUFFICES ASSUME TypeOK, PendingInv, [Next]_vars PROVE PendingInv'
  OBVIOUS
<1> USE DEF TypeOK, PendingInv, CountedStages, Unregistered, Untransmitted, Reqs
<1>1. CASE TakeClient
  BY <1>1 DEF TakeClient, mapVars
<1>2. CASE Register
  BY <1>2 DEF Register, linkVars
<1>3. CASE Transmit
  BY <1>3 DEF Transmit, mapVars
<1>4. CASE StampStart \/ LoadSuccess \/ TestWindow \/ PrintStats
  BY <1>4 DEF StampStart, LoadSuccess, TestWindow, PrintStats, mapVars, linkVars
<1>5. CASE NextRequest \/ Drain
  BY <1>5, BoundAssumption DEF NextRequest, Drain, mapVars, linkVars
<1>6. ASSUME NEW r \in Reqs, Handler(r) PROVE PendingInv'
  <2>1. CASE Respond(r)
    BY <2>1 DEF Respond, mainVars, mapVars
  <2>2. CASE ErasePending(r)
    BY <2>2 DEF ErasePending, mainVars
  <2>3. CASE Count(r)
    BY <2>3 DEF Count, mainVars, mapVars
  <2>4. CASE StoreLatency(r) \/ ForgetStart(r)
    BY <2>4 DEF StoreLatency, ForgetStart, mainVars
  <2> QED BY <1>6, <2>1, <2>2, <2>3, <2>4 DEF Handler
<1>7. ASSUME NEW s \in Servers, Elect(s) PROVE PendingInv'
  BY <1>7 DEF Elect, mainVars, mapVars, linkVars
<1>8. CASE UNCHANGED vars
  BY <1>8 DEF vars, mainVars, mapVars, linkVars
<1> QED BY <1>1, <1>2, <1>3, <1>4, <1>5, <1>6, <1>7, <1>8 DEF Next, Main

\* A handler that finishes has taken its request out of the pending map, and
\* main does not put it there afterwards.
THEOREM NeverPendingAgain == Spec => []AnsweredNotPending
<1>1. Init => PendingInv
  BY DEF Init, PendingInv, Untransmitted, Unregistered
<1>2. PendingInv => AnsweredNotPending
  BY DEF PendingInv, AnsweredNotPending, CountedStages
<1> QED BY <1>1, <1>2, TypeCorrect, PendingStep, PTL DEF Spec

-----------------------------------------------------------------------------
(* Latencies.                                                              *)

In(r, S) == IF r \in S THEN 1 ELSE 0

\* Measuring is the last but one step of a handler.  Until main has recorded a
\* start time there is none, and nothing was measured.
LatencyOf(r) ==
  /\ logged[r] + In(r, latencies) <= 1
  /\ Untransmitted(r) => stage[r] = "unsent"
  /\ Unstamped(r) => r \notin starts /\ logged[r] + In(r, latencies) = 0
  /\ stage[r] # "done" => r \in starts \/ Unstamped(r)
  /\ stage[r] \notin {"forget", "done"} => logged[r] + In(r, latencies) = 0
  /\ stage[r] = "forget" => r \in starts /\ logged[r] + In(r, latencies) = 1
  /\ stage[r] = "done" /\ r \in starts => logged[r] + In(r, latencies) = 0
  /\ stage[r] = "done" /\ reply[r] = "accepted" /\ logged[r] + In(r, latencies) = 0
       => r \in starts \/ (r = i /\ pc = "stamp")

LatencyInv == \A r \in Reqs : LatencyOf(r)

LEMMA CardinalityIn ==
  ASSUME NEW r, NEW S
  PROVE  Cardinality({r} \intersect S) = In(r, S)
<1>1. CASE r \in S
  <2>1. {r} \intersect S = {r}
    BY <1>1
  <2> QED BY <1>1, <2>1, FS_Singleton DEF In
<1>2. CASE r \notin S
  <2>1. {r} \intersect S = {}
    BY <1>2
  <2> QED BY <1>2, <2>1, FS_EmptySet DEF In
<1> QED BY <1>1, <1>2

LEMMA LatencyStep == TypeOK /\ LatencyInv /\ [Next]_vars => LatencyInv'
<1> SUFFICES ASSUME TypeOK, LatencyInv, [Next]_vars PROVE LatencyInv'
  OBVIOUS
<1> USE DEF TypeOK, LatencyInv, LatencyOf, In, Unregistered, Untransmitted, Unstamped, Reqs
<1>1. CASE TakeClient \/ LoadSuccess \/ TestWindow
  <2>1. UNCHANGED <<i, mapVars, stage, reply>> /\ (Unstamped(i)' <=> Unstamped(i))
          /\ (Untransmitted(i)' <=> Untransmitted(i)) /\ (pc' = "stamp" <=> pc = "stamp")
    BY <1>1 DEF TakeClient, LoadSuccess, TestWindow, mapVars, linkVars
  <2> QED BY <2>1 DEF mapVars
<1>2. CASE Register
  BY <1>2 DEF Register, linkVars
<1>3. CASE Transmit
  BY <1>3, BoundAssumption DEF Transmit, mapVars
<1>4. CASE StampStart
  BY <1>4 DEF StampStart, TimesFree, linkVars
<1>5. CASE PrintStats
  BY <1>5 DEF PrintStats, linkVars
<1>6. CASE NextRequest \/ Drain
  <2>1. CASE NextRequest
    BY <2>1, BoundAssumption DEF NextRequest, mapVars, linkVars
  <2>2. CASE Drain
    BY <2>2 DEF Drain, mapVars, linkVars
  <2> QED BY <1>6, <2>1, <2>2
<1>7. ASSUME NEW r \in Reqs, Handler(r) PROVE LatencyInv'
  <2>1. CASE Respond(r)
    BY <2>1 DEF Respond, mainVars, mapVars
  <2>2. CASE ErasePending(r)
    BY <2>2 DEF ErasePending, mainVars
  <2>3. CASE Count(r)
    BY <2>3 DEF Count, mainVars, mapVars
  <2>4. CASE StoreLatency(r)
    <3>1. /\ UNCHANGED <<pc, i, starts, logged, reply>> /\ stage[r] = "latency"
          /\ r \in starts => latencies' = latencies \union {r}
                              /\ stage' = [stage EXCEPT ![r] = "forget"]
          /\ r \notin starts => UNCHANGED latencies /\ r = i /\ pc = "stamp"
                                 /\ stage' = [stage EXCEPT ![r] = "done"]
      BY <2>4 DEF StoreLatency, mainVars
    <3>2. ~Untransmitted(r)
      BY <3>1
    <3>3. CASE r \in starts
      <4> SUFFICES ASSUME NEW q \in Reqs PROVE LatencyOf(q)'
        OBVIOUS
      <4>1. CASE q = r
        <5>1. logged[r] = 0 /\ r \notin latencies
          BY <3>1
        <5>2. /\ logged'[r] = 0 /\ r \in latencies' /\ r \in starts'
              /\ stage'[r] = "forget" /\ ~Unstamped(r)'
          BY <3>1, <3>2, <3>3, <5>1
        <5> QED BY <4>1, <5>2
      <4>2. CASE q # r
        BY <3>1, <3>3, <4>2
      <4> QED BY <4>1, <4>2
    <3>4. CASE r \notin starts
      BY <3>1, <3>2, <3>4
    <3> QED BY <3>3, <3>4
  <2>5. CASE ForgetStart(r)
    <3>1. /\ UNCHANGED <<pc, i, latencies, logged, reply>> /\ stage[r] = "forget"
          /\ starts' = starts \ {r} /\ stage' = [stage EXCEPT ![r] = "done"]
      BY <2>5 DEF ForgetStart, mainVars
    <3>2. ~Untransmitted(r)
      BY <3>1
    <3> QED BY <3>1, <3>2
  <2> QED BY <1>7, <2>1, <2>2, <2>3, <2>4, <2>5 DEF Handler
<1>8. ASSUME NEW s \in Servers, Elect(s) PROVE LatencyInv'
  BY <1>8 DEF Elect, mainVars, mapVars, linkVars
<1>9. CASE UNCHANGED vars
  BY <1>9 DEF vars, mainVars, mapVars, linkVars
<1> QED BY <1>1, <1>2, <1>3, <1>4, <1>5, <1>6, <1>7, <1>8, <1>9 DEF Next, Main

\* No response is measured twice, wherever print_stats writes and clears the
\* latencies (lines 203-208) while handlers store and forget (lines 107-123),
\* and none is missing from the log but one whose handler overtook main.
THEOREM MeasuredOnce == Spec => []LatencyOnce
<1>1. Init => LatencyInv
  BY BoundAssumption DEF Init, LatencyInv, LatencyOf, In, Unstamped, Untransmitted, Unregistered, Reqs
<1>2. TypeOK /\ LatencyInv => LatencyOnce
  <2> SUFFICES ASSUME TypeOK, LatencyInv, NEW r \in Reqs
               PROVE  /\ Measured(r) <= 1
                      /\ r \in starts /\ Measured(r) = 1 => stage[r] = "forget"
                      /\ Measured(r) = 0 /\ stage[r] = "done" /\ reply[r] = "accepted"
                           => r \in starts \/ (r = i /\ pc = "stamp")
    BY DEF LatencyOnce
  <2>1. Measured(r) = logged[r] + In(r, latencies)
    BY CardinalityIn DEF Measured
  <2> QED BY <2>1 DEF LatencyInv, LatencyOf, TypeOK, In
<1> QED BY <1>1, <1>2, TypeCorrect, LatencyStep, PTL DEF Spec

-----------------------------------------------------------------------------
(* What the window test computes.                                          *)

Accepted == {r \in Reqs : stage[r] \in CountedStages /\ reply[r] = "accepted"}
Failed == {r \in Reqs : stage[r] \in CountedStages /\ reply[r] = "error"}

CountInv == success = Cardinality(Accepted) /\ failure = Cardinality(Failed)

LEMMA ReqsFinite ==
  /\ IsFiniteSet(Reqs)
  /\ \A S : S \subseteq Reqs => IsFiniteSet(S) /\ Cardinality(S) \in Nat
<1>1. IsFiniteSet(Reqs)
  BY BoundAssumption, FS_Interval DEF Reqs
<1> QED BY <1>1, FS_Subset, FS_CardinalityType

LEMMA CountSame ==
  ASSUME CountInv, UNCHANGED <<success, failure>>,
         \A r \in Reqs :
           \/ stage'[r] = stage[r] /\ reply'[r] = reply[r]
           \/ {stage[r], stage'[r]} \intersect CountedStages = {}
           \/ {stage[r], stage'[r]} \subseteq CountedStages /\ reply'[r] = reply[r]
  PROVE  CountInv'
<1>1. Reqs' = Reqs /\ CountedStages' = CountedStages
  BY DEF Reqs, CountedStages
<1>2. Accepted' = Accepted /\ Failed' = Failed
  BY <1>1 DEF Accepted, Failed
<1> QED BY <1>2 DEF CountInv

LEMMA CountStep == TypeOK /\ CountInv /\ [Next]_vars => CountInv'
<1> SUFFICES ASSUME TypeOK, CountInv, [Next]_vars PROVE CountInv'
  OBVIOUS
<1> USE DEF TypeOK, CountedStages
<1>1. CASE TakeClient \/ Register \/ StampStart \/ LoadSuccess \/ TestWindow \/ PrintStats
             \/ NextRequest \/ Drain
  BY <1>1, CountSame
     DEF TakeClient, Register, StampStart, LoadSuccess, TestWindow, PrintStats, NextRequest,
         Drain, countVars, linkVars
<1>2. CASE Transmit
  BY <1>2, CountSame DEF Transmit, countVars
<1>3. ASSUME NEW r \in Reqs, Handler(r) PROVE CountInv'
  <2>1. CASE Respond(r) \/ ErasePending(r) \/ StoreLatency(r) \/ ForgetStart(r)
    BY <2>1, CountSame DEF Respond, ErasePending, StoreLatency, ForgetStart, countVars
  <2>2. CASE Count(r)
    <3>1. /\ stage[r] = "count" /\ UNCHANGED reply
          /\ failure' = failure + (IF reply[r] = "error" THEN 1 ELSE 0)
          /\ success' = success + (IF reply[r] = "accepted" THEN 1 ELSE 0)
          /\ stage' = [stage EXCEPT ![r] = IF reply[r] = "accepted" THEN "latency" ELSE "done"]
          /\ Reqs' = Reqs
      BY <2>2 DEF Count, Reqs
    <3>2. r \notin Accepted /\ r \notin Failed
      BY <3>1 DEF Accepted, Failed
    <3>3. /\ Accepted' = IF reply[r] = "accepted" THEN Accepted \union {r} ELSE Accepted
          /\ Failed' = IF reply[r] = "error" THEN Failed \union {r} ELSE Failed
      BY <3>1 DEF Accepted, Failed
    <3>4. IsFiniteSet(Accepted) /\ IsFiniteSet(Failed)
      BY ReqsFinite DEF Accepted, Failed
    <3>5. /\ Cardinality(Accepted \union {r}) = Cardinality(Accepted) + 1
          /\ Cardinality(Failed \union {r}) = Cardinality(Failed) + 1
      BY <3>2, <3>4, FS_AddElement
    <3> QED BY <3>1, <3>3, <3>5 DEF CountInv
  <2> QED BY <1>3, <2>1, <2>2 DEF Handler
<1>4. ASSUME NEW s \in Servers, Elect(s) PROVE CountInv'
  BY <1>4, CountSame DEF Elect, countVars, linkVars
<1>5. CASE UNCHANGED vars
  BY <1>5, CountSame DEF vars, countVars, linkVars
<1> QED BY <1>1, <1>2, <1>3, <1>4, <1>5 DEF Next, Main

\* The requests sent are those in a counter and those in none.
LEMMA NotCountedIs ==
  ASSUME TypeOK, PendingInv, CountInv, pc = "test"
  PROVE  Cardinality(NotCounted) = i + 1 - success - failure
<1> DEFINE Counted == Accepted \union Failed
<1>1. i \in Nat /\ 0..i \subseteq Reqs
  BY BoundAssumption DEF TypeOK, Reqs
<1>2. Counted \subseteq 0..i
  <2>1. ASSUME NEW r \in Reqs, r > i PROVE r \notin Counted
    BY <2>1 DEF PendingInv, CountedStages, Untransmitted, Unregistered, Accepted, Failed
  <2>2. \A r \in Reqs : r \in Nat
    BY BoundAssumption DEF Reqs
  <2> QED BY <1>1, <2>1, <2>2 DEF Accepted, Failed
<1>3. NotCounted = (0..i) \ Counted
  BY <1>1 DEF NotCounted, Accepted, Failed
<1>4. IsFiniteSet(Accepted) /\ IsFiniteSet(Failed) /\ Accepted \intersect Failed = {}
  BY ReqsFinite DEF Accepted, Failed
<1>5. IsFiniteSet(Counted) /\ Cardinality(Counted) = success + failure
  <2>1. Cardinality(Accepted \intersect Failed) = 0
    BY <1>4, FS_EmptySet
  <2>2. IsFiniteSet(Counted) /\ Cardinality(Counted)
          = Cardinality(Accepted) + Cardinality(Failed) - Cardinality(Accepted \intersect Failed)
    BY <1>4, FS_Union
  <2> QED BY <2>1, <2>2 DEF CountInv, TypeOK
<1>6. IsFiniteSet(0..i) /\ Cardinality(0..i) = i + 1
  BY <1>1, FS_Interval
<1> HIDE DEF Counted
<1>7. Cardinality((0..i) \ Counted)
        = Cardinality(0..i) - Cardinality((0..i) \intersect Counted)
  BY <1>6, FS_Difference
<1>8. (0..i) \intersect Counted = Counted
  BY <1>2
<1>9. Cardinality(NotCounted) = (i + 1) - (success + failure)
  BY <1>3, <1>5, <1>6, <1>7, <1>8
<1>10. success \in Nat /\ failure \in Nat
  BY DEF TypeOK
<1> QED BY <1>1, <1>9, <1>10

LEMMA ExactTest == TypeOK /\ PendingInv /\ CountInv => WindowExact
<1> SUFFICES ASSUME TypeOK, PendingInv, CountInv, pc = "test", seen = success
             PROVE  WindowOpen <=> Cardinality(NotCounted) \in 1..Rate
  BY DEF WindowExact
<1> DEFINE d == i - seen - failure
<1>1. /\ i \in Nat /\ i < NumReqs /\ success \in Nat /\ failure \in Nat
      /\ NumReqs \in Nat /\ Rate \in Nat \ {0} /\ Word \in Nat /\ Word > NumReqs + Rate
  BY BoundAssumption DEF TypeOK, Reqs
<1>2. d \in Int /\ Cardinality(NotCounted) = d + 1
  BY <1>1, NotCountedIs
<1>3. Cardinality(NotCounted) \in Nat
  <2>1. NotCounted \subseteq Reqs
    BY <1>1 DEF NotCounted, Reqs
  <2> QED BY <2>1, ReqsFinite
<1>4. WindowOpen <=> d % Word < Rate
  BY DEF WindowOpen
<1>5. d <= i
  BY <1>1
<1> HIDE DEF d
<1>6. CASE d = -1
  <2>1. d % Word = Word - 1
    BY <1>1, <1>6
  <2> QED BY <1>1, <1>2, <1>4, <1>6, <2>1
<1>7. CASE d \in Nat
  <2>1. d % Word = d
    BY <1>1, <1>5, <1>7, ModSmall
  <2> QED BY <1>1, <1>2, <1>4, <1>7, <2>1
<1> QED BY <1>2, <1>3, <1>6, <1>7

\* Whether main goes on depends on nothing but how many requests are in no counter,
\* for any rate, any word and any order of the responses.
LEMMA TestIsExact == Spec => []WindowExact
<1>1. Init => PendingInv
  BY DEF Init, PendingInv, Untransmitted, Unregistered
<1>2. Init => CountInv
  <2> SUFFICES ASSUME Init PROVE CountInv
    OBVIOUS
  <2>1. Accepted = {} /\ Failed = {} /\ success = 0 /\ failure = 0
    BY DEF Init, CountedStages, Accepted, Failed
  <2> QED BY <2>1, FS_EmptySet DEF CountInv
<1> QED BY <1>1, <1>2, TypeCorrect, PendingStep, CountStep, ExactTest, PTL DEF Spec

\* The window is never overdrawn by more than one request, and the unsigned test
\* passes exactly while one to rate requests are in no counter, for any rate, any
\* word and any race of the responses with main's test (lines 283-299).
THEOREM WindowCorrect == Spec => []WindowRespected
<1>1. WindowBounded /\ WindowExact => WindowRespected
  BY DEF WindowRespected
<1> QED BY <1>1, WindowIsBounded, TestIsExact, PTL

-----------------------------------------------------------------------------
(* The sweeps.                                                             *)

\* What a client has become while its script reads or waits.
ProcessInv ==
  /\ phase \in {"reading", "waiting"} =>
       run <= Runs /\ (process.rc = 0 => Len(process.secs) = Threads(run))
  /\ phase = "waiting" => script = "python"

Current == {r \in Rows : r.sweep = sweep}

\* The end of the file is where the current sweep has got to.
FileInv ==
  /\ sweep = 0 => file = <<>> /\ phase = "off"
  /\ sweep > 0 => file # <<>>
  /\ \A k \in DOMAIN file : file[k].sweep <= sweep
  /\ phase # "off" /\ run > 1 =>
       Len(file) > 1 /\ file[Len(file)].sweep = sweep /\ file[Len(file)].run = run - 1
  /\ IsFiniteSet(Current)
  /\ phase # "off" => \A r \in Current : r.run < run

SweepIInv == SweepTypeOK /\ ProcessInv /\ FileInv /\ FileWellFormed /\ RowsTruthful

LEMMA RunsType == SweepTypeOK => Runs \in Nat \ {0}
<1> SUFFICES ASSUME SweepTypeOK PROVE Runs \in Nat \ {0}
  OBVIOUS
<1>1. Len(ThreadCounts) \in Nat \ {0}
  BY SweepAssumption
<1>2. CASE script = "python"
  <2>1. Len(ThreadCounts) * Reps \in Nat \ {0}
    BY <1>1, SweepAssumption
  <2> QED BY <1>2, <2>1 DEF Runs
<1>3. CASE script # "python"
  BY <1>1, <1>3 DEF Runs
<1> QED BY <1>2, <1>3

LEMMA InitSweep == SweepInit => SweepIInv
<1> SUFFICES ASSUME SweepInit PROVE SweepIInv
  OBVIOUS
<1> USE SweepAssumption DEF SweepInit, NoClient, ProcessType
<1>1. file = <<>> /\ DOMAIN file = {} /\ Rows = {} /\ Current = {}
  BY DEF Rows, Current
<1>2. SweepTypeOK
  <2>1. Runs \in Nat \ {0}
    BY DEF Runs
  <2> QED BY <2>1 DEF SweepTypeOK
<1>3. ProcessInv
  BY DEF ProcessInv
<1>4. FileInv
  BY <1>1, FS_EmptySet DEF FileInv
<1>5. FileWellFormed /\ RowsTruthful
  BY <1>1 DEF FileWellFormed, RowsTruthful
<1> QED BY <1>2, <1>3, <1>4, <1>5 DEF SweepIInv

\* The slowest of some threads.
LEMMA MaxOfTimes ==
  ASSUME NEW S \in SUBSET (0..MaxSecs), S # {}
  PROVE  Max(S) \in S /\ \A k \in S : k <= Max(S)
<1> DEFINE R == OpToRel(<, Nat)
<1> DEFINE T == {MaxSecs - k : k \in S}
<1>0. MaxSecs \in Nat
  BY SweepAssumption
<1>1. IsWellFoundedOn(R, Nat)
  BY NatLessThanWellFounded
<1>2. \A x, y \in Nat : x < y => <<x, y>> \in R
  BY DEF OpToRel
<1>3. T \subseteq Nat /\ T # {}
  <2>1. \A k \in S : k \in Nat /\ k <= MaxSecs
    BY <1>0
  <2>2. \A k \in S : MaxSecs - k \in Nat
    BY <1>0, <2>1
  <2> QED BY <2>2
<1> HIDE DEF R
<1>4. PICK x \in T : \A y \in T : ~(<<y, x>> \in R)
  BY <1>1, <1>3, WFMin
<1>5. PICK m \in S : x = MaxSecs - m
  BY <1>4
<1>6. ASSUME NEW k \in S PROVE k <= m
  <2>1. MaxSecs - k \in T /\ MaxSecs - k \in Nat /\ x \in Nat
    BY <1>0, <1>3, <1>4
  <2>2. ~(MaxSecs - k < x)
    BY <1>2, <1>4, <2>1
  <2> QED BY <1>0, <1>5, <2>1, <2>2
<1>7. \A k \in S : m >= k
  BY <1>0, <1>6
<1>8. Max(S) \in S /\ \A k \in S : Max(S) >= k
  BY <1>7 DEF Max
<1> QED BY <1>0, <1>8

LEMMA SlowestIs ==
  ASSUME NEW secs \in Seq(0..MaxSecs)
  PROVE  /\ Slowest(secs) \in {None} \union (0..MaxSecs)
         /\ Slowest(secs) # None => \A n \in DOMAIN secs : secs[n] <= Slowest(secs)
<1> DEFINE S == {secs[n] : n \in DOMAIN secs}
<1>1. CASE secs = <<>>
  BY <1>1 DEF Slowest
<1>2. CASE secs # <<>>
  <2>1. S \in SUBSET (0..MaxSecs) /\ S # {}
    <3>1. 1 \in DOMAIN secs
      BY <1>2
    <3>2. \A n \in DOMAIN secs : secs[n] \in 0..MaxSecs
      BY LenProperties
    <3> QED BY <3>1, <3>2
  <2>2. Max(S) \in S /\ \A k \in S : k <= Max(S)
    BY <2>1, MaxOfTimes
  <2>3. Slowest(secs) = Max(S)
    BY <1>2 DEF Slowest
  <2> HIDE DEF S
  <2>4. \A n \in DOMAIN secs : secs[n] \in S
    BY DEF S
  <2> QED BY <2>1, <2>2, <2>3, <2>4
<1> QED BY <1>1, <1>2

LEMMA LastPrintedIs ==
  ASSUME NEW secs \in Seq(0..MaxSecs)
  PROVE  /\ LastPrinted(secs) \in {None} \union (0..MaxSecs)
         /\ secs # <<>> => LastPrinted(secs) # None
<1>1. 0..MaxSecs \subseteq Nat /\ None \notin Nat
  BY SweepAssumption
<1>2. CASE secs # <<>>
  <2>1. Len(secs) \in 1..Len(secs)
    BY <1>2
  <2>2. secs[Len(secs)] \in 0..MaxSecs
    BY <2>1, ElementOfSeq
  <2>3. LastPrinted(secs) = secs[Len(secs)]
    BY <1>2 DEF LastPrinted
  <2> QED BY <1>1, <2>2, <2>3
<1>3. CASE secs = <<>>
  BY <1>3 DEF LastPrinted
<1> QED BY <1>2, <1>3

\* Steps that leave the file alone.
LEMMA SameFile ==
  ASSUME SweepIInv, UNCHANGED <<script, timeout, sweep, run, file>>,
         phase = "off" => phase' = "off"
  PROVE  FileInv' /\ FileWellFormed' /\ RowsTruthful'
<1>1. Rows' = Rows /\ Current' = Current /\ \A n : Threads(n)' = Threads(n)
  BY DEF Rows, Current, Threads
<1>2. FileInv'
  BY <1>1 DEF SweepIInv, FileInv
<1>3. FileWellFormed'
  BY <1>1 DEF SweepIInv, FileWellFormed, Current
<1>4. RowsTruthful'
  BY <1>1 DEF SweepIInv, RowsTruthful
<1> QED BY <1>2, <1>3, <1>4

LEMMA RowTypeSame == UNCHANGED script => Runs' = Runs /\ RowType' = RowType
BY DEF Runs, RowType

\* The row a script writes for its current run.
LEMMA WriteStep ==
  ASSUME SweepIInv, phase \in {"reading", "waiting"},
         NEW row \in RowType, row.sweep = sweep, row.run = run,
         row.rc = 0 => Len(row.secs) = Threads(run),
         script = "python" /\ row.wall # None => \A n \in DOMAIN row.secs : row.secs[n] <= row.wall,
         script = "shell" => row.rc = 0 /\ row.iops /\ row.stats
                               /\ (row.max \/ row.lat \in {"s", "hist"}),
         Write(row)
  PROVE  SweepIInv'
<1> USE SweepAssumption
<1>1. /\ file' = Append(file, row) /\ run' = run + 1 /\ phase' = "next" /\ process' = NoClient
      /\ UNCHANGED <<script, timeout, sweep>>
  BY DEF Write
<1>2. /\ file \in Seq(RowType \union {Header}) /\ run \in Nat \ {0} /\ run <= Runs
      /\ Runs \in Nat \ {0} /\ sweep \in Nat \ {0}
  BY RunsType DEF SweepIInv, SweepTypeOK, ProcessInv, FileInv
<1> DEFINE n == Len(file)
<1>3. /\ n \in Nat \ {0} /\ Len(file') = n + 1 /\ file'[n + 1] = row
      /\ \A k \in 1..n : file'[k] = file[k]
      /\ DOMAIN file = 1..n /\ DOMAIN file' = 1..(n + 1)
  <2>1. n # 0
    BY <1>2 DEF SweepIInv, FileInv
  <2> QED BY <1>1, <1>2, <2>1, AppendProperties
<1>4. row # Header /\ Header.sweep = 0
  BY <1>2 DEF Header
<1> HIDE DEF n
<1>5. Rows' = Rows \union {row}
  <2> DEFINE Old(x) == \E k \in 1..n : x = file[k]
             New(x) == \E k \in 1..(n + 1) : x = file'[k]
  <2>1. \A x : x \in Rows' <=> New(x) /\ x # Header
    BY <1>3 DEF Rows, Header
  <2>2. \A x : x \in Rows <=> Old(x) /\ x # Header
    BY <1>3 DEF Rows
  <2>3. \A x : New(x) <=> Old(x) \/ x = row
    BY <1>3
  <2> HIDE DEF Old, New
  <2> QED BY <1>4, <2>1, <2>2, <2>3
<1>6. Current' = Current \union {row} /\ row \notin Current
  <2>1. \A r \in Current : r.run < run
    BY DEF SweepIInv, FileInv
  <2> QED BY <1>1, <1>2, <1>5, <2>1 DEF Current
<1>7. SweepTypeOK'
  <2>1. RowType' = RowType /\ Runs' = Runs
    BY <1>1, RowTypeSame
  <2>2. file' \in Seq(RowType \union {Header})
    BY <1>1, <1>2
  <2>3. run + 1 \in 1..(Runs + 1)
    BY <1>2
  <2> QED BY <1>1, <2>1, <2>2, <2>3 DEF SweepIInv, SweepTypeOK, NoClient, ProcessType
<1>8. ProcessInv'
  BY <1>1 DEF ProcessInv
<1>9. FileInv'
  <2>1. ASSUME NEW k \in 1..(n + 1) PROVE file'[k].sweep <= sweep
    <3>1. CASE k \in 1..n
      BY <1>3, <3>1 DEF SweepIInv, FileInv
    <3>2. CASE k = n + 1
      BY <1>2, <1>3, <3>2
    <3> QED BY <1>3, <3>1, <3>2
  <2>2. IsFiniteSet(Current')
    BY <1>6, FS_AddElement DEF SweepIInv, FileInv
  <2>3. \A r \in Current' : r.run < run + 1
    <3>1. \A r \in Current : r.run < run
      BY DEF SweepIInv, FileInv
    <3>2. \A r \in Current : r.run \in Nat
      <4>1. \A r \in Rows : r \in RowType
        BY <1>2, ElementOfSeq DEF Rows
      <4>2. 1..Runs \subseteq Nat
        BY <1>2
      <4> QED BY <4>1, <4>2 DEF Current, RowType
    <3> QED BY <1>2, <1>6, <3>1, <3>2
  <2> QED BY <1>1, <1>2, <1>3, <2>1, <2>2, <2>3 DEF FileInv
<1>10. FileWellFormed'
  <2>1. ASSUME NEW k \in 1..(n + 1) PROVE file'[k] = Header <=> k = 1
    <3>1. CASE k \in 1..n
      BY <1>3, <3>1 DEF SweepIInv, FileWellFormed
    <3>2. CASE k = n + 1
      BY <1>3, <1>4, <3>2
    <3> QED BY <1>3, <3>1, <3>2
  <2>2. ASSUME NEW k \in 2..(n + 1), file'[k].run > 1
        PROVE  k > 2 /\ file'[k - 1].sweep = file'[k].sweep /\ file'[k - 1].run = file'[k].run - 1
    <3>1. CASE k <= n
      <4>1. k \in DOMAIN file \ {1} /\ file'[k] = file[k] /\ file'[k - 1] = file[k - 1]
        BY <1>3, <3>1
      <4> QED BY <2>2, <4>1 DEF SweepIInv, FileWellFormed
    <3>2. CASE k = n + 1
      <4>1. run > 1 /\ file'[k] = row
        BY <1>3, <2>2, <3>2
      <4>2. n > 1 /\ file[n].sweep = sweep /\ file[n].run = run - 1
        BY <4>1 DEF SweepIInv, FileInv, n
      <4>3. k - 1 = n /\ file'[k - 1] = file[n]
        BY <1>3, <3>2
      <4> QED BY <1>3, <3>2, <4>1, <4>2, <4>3
    <3> QED BY <1>3, <3>1, <3>2
  <2>3. Cardinality(Current') = run' - 1
    <3>1. Cardinality(Current) = run - 1 /\ IsFiniteSet(Current)
      BY DEF SweepIInv, FileInv, FileWellFormed, Current
    <3>2. Cardinality(Current \union {row}) = Cardinality(Current) + 1
      BY <1>6, <3>1, FS_AddElement
    <3> QED BY <1>1, <1>2, <1>6, <3>1, <3>2
  <2>4. \A k \in DOMAIN file' \ {1} : k \in 2..(n + 1)
    BY <1>3
  <2> QED BY <1>3, <2>1, <2>2, <2>3, <2>4 DEF FileWellFormed, Current
<1>11. RowsTruthful'
  <2>1. \A k : Threads(k)' = Threads(k)
    BY <1>1 DEF Threads
  <2> QED BY <1>1, <1>5, <2>1 DEF SweepIInv, RowsTruthful
<1> QED BY <1>7, <1>8, <1>9, <1>10, <1>11 DEF SweepIInv

LEMMA RowIsTyped ==
  ASSUME SweepIInv, phase \in {"reading", "waiting"}, NEW rc \in {0, 1, 124},
         NEW wall \in {None} \union (0..MaxSecs)
  PROVE  LET row == Row(wall, rc)
         IN  row \in RowType /\ row.sweep = sweep /\ row.run = run /\ row.rc = rc
               /\ row.secs = process.secs /\ row.wall = wall
               /\ row.stats = (process.lat # "none") /\ row.max = (process.lat \in MaxForms)
               /\ row.lat = process.lat /\ row.iops = (wall # None /\ wall # 0)
<1>1. sweep \in 1..MaxSweeps /\ run \in 1..Runs
  BY RunsType, SweepAssumption DEF SweepIInv, SweepTypeOK, ProcessInv, FileInv
<1>2. process.lat \in Forms \union {"none"} /\ process.secs \in Seq(0..MaxSecs)
  BY DEF SweepIInv, SweepTypeOK, ProcessType
<1>3. /\ (wall # None /\ wall # 0) \in BOOLEAN
      /\ (process.lat # "none") \in BOOLEAN /\ (process.lat \in MaxForms) \in BOOLEAN
  OBVIOUS
<1> QED BY <1>1, <1>2, <1>3 DEF Row, RowType

LEMMA WaitedStep == SweepIInv /\ Waited => SweepIInv'
<1> SUFFICES ASSUME SweepIInv, Waited PROVE SweepIInv'
  OBVIOUS
<1> DEFINE row == Row(Slowest(process.secs), process.rc)
<1>1. script = "python" /\ phase = "waiting" /\ process.rc # None /\ Write(row)
  BY DEF Waited
<1>2. process.rc \in {0, 1, 124} /\ process.secs \in Seq(0..MaxSecs)
  BY <1>1 DEF SweepIInv, SweepTypeOK, ProcessType
<1>3. /\ row \in RowType /\ row.sweep = sweep /\ row.run = run /\ row.rc = process.rc
      /\ row.secs = process.secs /\ row.wall = Slowest(process.secs)
  BY <1>1, <1>2, RowIsTyped, SlowestIs
<1>4. process.rc = 0 => Len(process.secs) = Threads(run)
  BY <1>1 DEF SweepIInv, ProcessInv
<1> HIDE DEF row
<1> QED BY <1>1, <1>2, <1>3, <1>4, WriteStep, SlowestIs

LEMMA TimesOutStep == SweepIInv /\ TimesOut => SweepIInv'
<1> SUFFICES ASSUME SweepIInv, TimesOut PROVE SweepIInv'
  OBVIOUS
<1> DEFINE row == Row(Slowest(process.secs), 124)
<1>1. script = "python" /\ phase = "waiting" /\ Write(row)
  BY DEF TimesOut
<1>2. process.secs \in Seq(0..MaxSecs)
  BY DEF SweepIInv, SweepTypeOK, ProcessType
<1>3. /\ row \in RowType /\ row.sweep = sweep /\ row.run = run /\ row.rc = 124
      /\ row.secs = process.secs /\ row.wall = Slowest(process.secs)
  BY <1>1, <1>2, RowIsTyped, SlowestIs
<1> HIDE DEF row
<1> QED BY <1>1, <1>2, <1>3, WriteStep, SlowestIs

LEMMA ShellEndsStep == SweepIInv /\ ShellEnds => SweepIInv'
<1> SUFFICES ASSUME SweepIInv, ShellEnds PROVE SweepIInv'
  OBVIOUS
<1> DEFINE row == Row(LastPrinted(process.secs), process.rc)
<1>1. script = "shell" /\ phase = "reading"
  BY DEF ShellEnds
<1>2. CASE Complete /\ Write(row)
  <2>1. /\ process.rc = 0 /\ process.secs # <<>> /\ process.lat # "none"
        /\ LastPrinted(process.secs) # 0
    BY <1>2 DEF Complete
  <2>2. process.secs \in Seq(0..MaxSecs)
    BY DEF SweepIInv, SweepTypeOK, ProcessType
  <2>3. LastPrinted(process.secs) \in {None} \union (0..MaxSecs) /\ LastPrinted(process.secs) # None
    BY <2>1, <2>2, LastPrintedIs
  <2>4. /\ row \in RowType /\ row.sweep = sweep /\ row.run = run /\ row.rc = 0
        /\ row.secs = process.secs /\ row.stats /\ row.iops
        /\ row.max \/ row.lat \in {"s", "hist"}
    <3>1. process.rc \in {0, 1, 124} /\ phase \in {"reading", "waiting"}
      BY <1>1, <2>1
    <3>2. row.iops = (LastPrinted(process.secs) # None /\ LastPrinted(process.secs) # 0)
      BY <2>3, <3>1, RowIsTyped
    <3>3. row.iops
      BY <2>1, <2>3, <3>2
    <3>4. /\ row \in RowType /\ row.sweep = sweep /\ row.run = run /\ row.rc = process.rc
          /\ row.secs = process.secs /\ row.stats = (process.lat # "none")
          /\ row.max = (process.lat \in MaxForms) /\ row.lat = process.lat
      BY <2>3, <3>1, RowIsTyped
    <3>5. row.stats
      BY <2>1, <3>4
    <3>6. row.max \/ row.lat \in {"s", "hist"}
      <4>1. process.lat \in Forms \union {"none"} /\ MaxForms = {"us", "ns"}
        BY <1>1 DEF SweepIInv, SweepTypeOK, ProcessType, MaxForms
      <4>2. process.lat \in MaxForms \/ process.lat \in {"s", "hist"}
        BY <2>1, <4>1 DEF Forms
      <4> QED BY <3>4, <4>2
    <3> QED BY <2>1, <3>3, <3>4, <3>5, <3>6
  <2>5. Len(process.secs) = Threads(run)
    BY <1>1, <2>1 DEF SweepIInv, ProcessInv
  <2> HIDE DEF row
  <2> QED BY <1>1, <1>2, <2>1, <2>4, <2>5, WriteStep
<1>3. CASE phase' = "off" /\ UNCHANGED <<script, timeout, sweep, run, process, file>>
  <2>1. SweepTypeOK'
    BY <1>3, RowTypeSame DEF SweepIInv, SweepTypeOK
  <2>2. ProcessInv'
    BY <1>3 DEF ProcessInv
  <2> QED BY <1>3, <2>1, <2>2, SameFile DEF SweepIInv
<1> QED BY <1>2, <1>3 DEF ShellEnds

\* A new start: the rows of earlier ones stay, under the numbers of theirs.
LEMMA BeginStep == SweepIInv /\ Begin => SweepIInv'
<1> SUFFICES ASSUME SweepIInv, Begin PROVE SweepIInv'
  OBVIOUS
<1> USE SweepAssumption
<1>1. /\ phase = "off" /\ sweep < MaxSweeps /\ sweep' = sweep + 1 /\ run' = 1
      /\ phase' = "next" /\ process' = NoClient /\ UNCHANGED <<script, timeout>>
      /\ file' = IF script = "shell" \/ file = <<>> THEN <<Header>> ELSE file
  BY DEF Begin
<1>2. sweep \in Nat /\ file \in Seq(RowType \union {Header}) /\ DOMAIN file = 1..Len(file)
  BY DEF SweepIInv, SweepTypeOK
<1>3. RowType' = RowType /\ Runs' = Runs /\ Runs \in Nat \ {0} /\ \A k : Threads(k)' = Threads(k)
  BY <1>1, RowTypeSame, RunsType DEF SweepIInv, Threads
<1>4. Header.sweep = 0
  BY DEF Header
<1>5. SweepTypeOK'
  <2>1. file' \in Seq(RowType \union {Header})
    <3>1. <<Header>> \in Seq(RowType \union {Header})
      OBVIOUS
    <3> QED BY <1>1, <1>2, <3>1
  <2> QED BY <1>1, <1>2, <1>3, <2>1 DEF SweepIInv, SweepTypeOK, NoClient, ProcessType
<1>6. ProcessInv'
  BY <1>1 DEF ProcessInv
<1>7. ASSUME file' = <<Header>> PROVE Rows' = {} /\ FileInv' /\ FileWellFormed'
  <2>1. Rows' = {} /\ Current' = {}
    BY <1>7 DEF Rows, Current, Header
  <2>2. FileInv'
    <3>1. DOMAIN file' = {1} /\ file' # <<>> /\ file'[1] = Header
      BY <1>7
    <3>2. sweep' > 0 /\ sweep' \in Nat /\ run' = 1
      BY <1>1, <1>2
    <3>3. \A k \in DOMAIN file' : file'[k].sweep <= sweep'
      BY <1>4, <3>1, <3>2
    <3>4. IsFiniteSet(Current')
      BY <2>1, FS_EmptySet
    <3> QED BY <2>1, <3>1, <3>2, <3>3, <3>4 DEF FileInv
  <2>3. FileWellFormed'
    BY <1>1, <1>7, <2>1, FS_EmptySet DEF FileWellFormed, Current, Header
  <2> QED BY <2>1, <2>2, <2>3
<1>8. ASSUME file' = file, file # <<>>
      PROVE  Rows' = Rows /\ FileInv' /\ FileWellFormed'
  <2>1. Rows' = Rows
    BY <1>8 DEF Rows, Header
  <2>2. \A k \in 1..Len(file) : file[k].sweep <= sweep
    BY <1>2 DEF SweepIInv, FileInv
  <2>3. \A r \in Rows : r.sweep \in Nat /\ r.sweep <= sweep
    <3>1. \A r \in Rows : r \in RowType /\ r.sweep <= sweep
      BY <1>2, <2>2, LenProperties DEF Rows
    <3>2. 1..MaxSweeps \subseteq Nat
      OBVIOUS
    <3> QED BY <3>1, <3>2 DEF RowType
  <2>4. Current' = {}
    BY <1>1, <1>2, <2>1, <2>3 DEF Current
  <2>5. \A k \in 1..Len(file) : file[k].sweep <= sweep + 1
    <3>1. \A k \in 1..Len(file) : file[k].sweep \in Nat
      <4>1. \A k \in 1..Len(file) : file[k] \in RowType \union {Header}
        BY <1>2, LenProperties
      <4>2. \A r \in RowType : r.sweep \in Nat
        BY DEF RowType
      <4> QED BY <1>4, <4>1, <4>2
    <3> QED BY <1>2, <2>2, <3>1
  <2>6. FileInv'
    BY <1>1, <1>2, <1>8, <2>4, <2>5, FS_EmptySet DEF FileInv
  <2>7. FileWellFormed'
    <3>1. Cardinality(Current') = 0
      BY <2>4, FS_EmptySet
    <3>2. Current' = {r \in Rows' : r.sweep = sweep'}
      BY DEF Current
    <3> QED BY <1>1, <1>8, <3>1, <3>2 DEF SweepIInv, FileWellFormed, Header
  <2> QED BY <2>1, <2>6, <2>7
<1>9. FileInv' /\ FileWellFormed' /\ Rows' \subseteq Rows
  BY <1>1, <1>7, <1>8
<1>10. RowsTruthful'
  BY <1>1, <1>3, <1>9 DEF SweepIInv, RowsTruthful
<1> QED BY <1>5, <1>6, <1>9, <1>10 DEF SweepIInv

LEMMA SweepStep == SweepIInv /\ [SweepNext]_sweepVars => SweepIInv'
<1> SUFFICES ASSUME SweepIInv, [SweepNext]_sweepVars PROVE SweepIInv'
  OBVIOUS
<1> USE SweepAssumption DEF ProcessType
<1> DEFINE Same == UNCHANGED <<script, timeout, sweep, run, file>>
<1>1. ASSUME Same, ProcessInv', phase = "off" => phase' = "off",
             phase' \in {"off", "next", "reading", "waiting"},
             process' \in ProcessType
      PROVE  SweepIInv'
  <2>1. SweepTypeOK'
    BY <1>1, RowTypeSame DEF SweepIInv, SweepTypeOK
  <2> QED BY <1>1, <2>1, SameFile DEF SweepIInv
<1>2. \A k : Same => Threads(k)' = Threads(k) /\ Runs' = Runs
  BY DEF Threads, Runs
<1> HIDE DEF Same
<1>3. CASE Start
  <2>1. ProcessInv' /\ Same
    BY <1>2, <1>3 DEF Start, ProcessInv, NoClient, Same
  <2>2. process' = [open |-> TRUE, rc |-> None, secs |-> <<>>, lat |-> "none"]
    BY <1>3 DEF Start, NoClient
  <2>3. phase = "next" /\ phase' = "reading" /\ <<>> \in Seq(0..MaxSecs)
    BY <1>3 DEF Start
  <2> QED BY <1>1, <2>1, <2>2, <2>3
<1>4. CASE Done \/ Interrupt
  <2>1. ProcessInv' /\ Same
    BY <1>4 DEF Done, Interrupt, ProcessInv, Same
  <2> QED BY <1>1, <1>4, <2>1 DEF Done, Interrupt, SweepIInv, SweepTypeOK
<1>5. CASE ReadsToEnd
  <2>1. ProcessInv' /\ Same
    BY <1>2, <1>5 DEF ReadsToEnd, SweepIInv, ProcessInv, Same
  <2> QED BY <1>1, <1>5, <2>1 DEF ReadsToEnd, SweepIInv, SweepTypeOK
<1>6. ASSUME NEW s \in 0..MaxSecs, ThreadFinishes(s) PROVE SweepIInv'
  <2>1. ProcessInv' /\ Same
    BY <1>2, <1>6 DEF ThreadFinishes, Alive, SweepIInv, SweepTypeOK, ProcessInv, Same
  <2>2. Append(process.secs, s) \in Seq(0..MaxSecs)
    BY DEF SweepIInv, SweepTypeOK
  <2> QED BY <1>1, <1>6, <2>1, <2>2 DEF ThreadFinishes, SweepIInv, SweepTypeOK
<1>7. ASSUME NEW form \in Latencies, PrintsLatencies(form) PROVE SweepIInv'
  <2>1. ProcessInv' /\ Same
    BY <1>2, <1>7 DEF PrintsLatencies, SweepIInv, SweepTypeOK, ProcessInv, Same
  <2>2. form \in Forms
    BY LatenciesAssumption
  <2> QED BY <1>1, <1>7, <2>1, <2>2 DEF PrintsLatencies, SweepIInv, SweepTypeOK
<1>8. CASE ClosesOutput
  <2>1. ProcessInv' /\ Same
    BY <1>2, <1>8 DEF ClosesOutput, SweepIInv, SweepTypeOK, ProcessInv, Same
  <2> QED BY <1>1, <1>8, <2>1 DEF ClosesOutput, SweepIInv, SweepTypeOK
<1>9. ASSUME NEW rc \in {0, 1}, Exits(rc) PROVE SweepIInv'
  <2>1. ProcessInv' /\ Same
    BY <1>2, <1>9 DEF Exits, SweepIInv, SweepTypeOK, ProcessInv, Same
  <2> QED BY <1>1, <1>9, <2>1 DEF Exits, SweepIInv, SweepTypeOK
<1>10. CASE UNCHANGED sweepVars
  <2>1. ProcessInv' /\ Same
    BY <1>2, <1>10 DEF sweepVars, SweepIInv, ProcessInv, Same
  <2> QED BY <1>1, <1>10, <2>1 DEF sweepVars, SweepIInv, SweepTypeOK
<1> QED
  BY <1>3, <1>4, <1>5, <1>6, <1>7, <1>8, <1>9, <1>10, WaitedStep, TimesOutStep, ShellEndsStep,
     BeginStep
  DEF SweepNext, Step, Client

\* Every variable keeps its type, for any list of thread counts.
THEOREM SweepTypeCorrect == SweepSpec => []SweepTypeOK
<1>1. SweepIInv => SweepTypeOK
  BY DEF SweepIInv
<1> QED BY <1>1, InitSweep, SweepStep, PTL DEF SweepSpec

\* The file is a header and the rows of the runs in order, whatever was interrupted
\* and started again, for any list of thread counts.
THEOREM FileCorrect == SweepSpec => []FileWellFormed
<1>1. SweepIInv => FileWellFormed
  BY DEF SweepIInv
<1> QED BY <1>1, InitSweep, SweepStep, PTL DEF SweepSpec

\* A row with exit code 0 is of a client all of whose threads finished and a wall
\* time is the one of the slowest; a row of the shell script is of a client that
\* succeeded and lacks at most a maximum that was in a unit the script does not
\* know, for any number of threads, any times and any forms of the latencies.
THEOREM RowsCorrect == SweepSpec => []RowsTruthful
<1>1. SweepIInv => RowsTruthful
  BY DEF SweepIInv
<1> QED BY <1>1, InitSweep, SweepStep, PTL DEF SweepSpec

-----------------------------------------------------------------------------
(* How a sweep gets on.                                                    *)

Left == Runs + 1 - run

AheadByPhase ==
  /\ Left \in Nat /\ run \in Nat /\ Runs \in Nat /\ Ahead \in Nat
  /\ phase = "off" => Ahead = 0
  /\ phase = "next" => Ahead = 3 * Left + 3
  /\ phase = "reading" => Ahead = 3 * Left + 2
  /\ phase = "waiting" => Ahead = 3 * Left + 1

LEMMA AheadIs == SweepIInv => AheadByPhase
<1> SUFFICES ASSUME SweepIInv PROVE AheadByPhase
  OBVIOUS
<1>1. Runs \in Nat /\ run \in 1..(Runs + 1)
  BY RunsType DEF SweepIInv, SweepTypeOK
<1>2. phase \in {"off", "next", "reading", "waiting"}
  BY DEF SweepIInv, SweepTypeOK
<1> QED BY <1>1, <1>2 DEF Ahead, AheadByPhase, Left

LEMMA AheadIsNext == SweepIInv' => AheadByPhase'
BY AheadIs, PTL

LEMMA StepAdvances == SweepIInv /\ SweepIInv' /\ Step => Ahead' < Ahead
<1> SUFFICES ASSUME SweepIInv, SweepIInv', Step PROVE Ahead' < Ahead
  OBVIOUS
<1>1. AheadByPhase /\ AheadByPhase'
  BY AheadIs, AheadIsNext
<1>2. UNCHANGED script => Runs' = Runs
  BY RowTypeSame
<1> USE DEF AheadByPhase
<1>6. CASE Start
  BY <1>1, <1>2, <1>6 DEF Start, Left
<1>7. CASE Done
  BY <1>1, <1>7 DEF Done
<1>8. CASE ReadsToEnd
  BY <1>1, <1>2, <1>8 DEF ReadsToEnd, Left
<1>9. CASE (Waited \/ TimesOut \/ ShellEnds) /\ run' = run + 1
  <2>1. phase \in {"reading", "waiting"} /\ phase' = "next" /\ UNCHANGED script
    BY <1>9 DEF Waited, TimesOut, ShellEnds, Write
  <2>2. Left' = Left - 1
    BY <1>1, <1>2, <1>9, <2>1 DEF Left
  <2> QED BY <1>1, <2>1, <2>2
<1>10. CASE ShellEnds /\ run' # run + 1
  <2>1. phase = "reading" /\ phase' = "off"
    BY <1>10 DEF ShellEnds, Write
  <2> QED BY <1>1, <2>1
<1>11. Waited \/ TimesOut => run' = run + 1
  BY DEF Waited, TimesOut, Write
<1> QED BY <1>6, <1>7, <1>8, <1>9, <1>10, <1>11 DEF Step

\* A sweep gets on with every step of its script, and nothing sets it back.
THEOREM SweepGetsOn == SweepSpec => SweepAdvances
<1>1. SweepIInv /\ SweepIInv' /\ [SweepNext]_sweepVars
        => [sweep' = sweep => Ahead' \in 0..Ahead /\ (Step => Ahead' < Ahead)]_sweepVars
  <2> SUFFICES ASSUME SweepIInv, SweepIInv', SweepNext, sweep' = sweep
               PROVE  Ahead' \in 0..Ahead /\ (Step => Ahead' < Ahead)
    OBVIOUS
  <2>1. Ahead \in Nat /\ Ahead' \in Nat
    BY AheadIs, AheadIsNext DEF AheadByPhase
  <2>2. CASE Step
    BY <2>1, <2>2, StepAdvances
  <2>3. CASE Client
    <3>1. UNCHANGED <<phase, run, script>>
      BY <2>3 DEF Client, ThreadFinishes, PrintsLatencies, ClosesOutput, Exits
    <3>2. Ahead' = Ahead
      BY <3>1, RowTypeSame, AheadIs, AheadIsNext
         DEF AheadByPhase, Left, SweepIInv, SweepTypeOK
    <3> QED BY <2>1, <3>2, StepAdvances
  <2>4. CASE Begin
    BY <2>4 DEF Begin, SweepIInv, SweepTypeOK
  <2>5. CASE Interrupt
    <3>1. phase' = "off"
      BY <2>5 DEF Interrupt
    <3>2. Ahead' = 0
      BY <3>1 DEF Ahead
    <3> QED BY <2>1, <3>2, StepAdvances
  <2> QED BY <2>2, <2>3, <2>4, <2>5 DEF SweepNext
<1> QED BY <1>1, InitSweep, SweepStep, PTL DEF SweepSpec, SweepAdvances
=============================================================================
