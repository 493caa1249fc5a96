---------------------------- MODULE RaftBenchmark ----------------------------
(***************************************************************************)
(* The load generator of the Raft experiment                               *)
(* (src/raft_lab/synraft-client.cpp): the main thread issues numbered      *)
(* requests and keeps a window of them open, while response handlers run   *)
(* on the threads of the asio service.  A handler is split where another   *)
(* thread can see it half done: between its critical sections.             *)
(***************************************************************************)
EXTENDS Integers, FiniteSets

CONSTANTS
  Servers,      \* the servers of cluster-config.toml
  NumReqs,      \* num_reqs
  Rate,         \* rate, the window
  StatsEvery,   \* print_stats is called every StatsEvery requests
  Word,         \* 2^64, the modulus of the unsigned counters
  MaxWaits,     \* seconds main waits for the last responses
  MaxElections  \* bound: changes of leader

ASSUME BoundAssumption ==
  /\ NumReqs \in Nat \ {0, 1}
  /\ Rate \in Nat \ {0}
  /\ StatsEvery \in Nat \ {0}
  /\ MaxWaits \in Nat
  /\ MaxElections \in Nat
  /\ Word \in Nat
  /\ Word > NumReqs + Rate

VARIABLES
  pc,         \* where the main thread is
  i,          \* the request it is working on
  seen,       \* get_success_count() as main loaded it last
  waits,      \* timeout_count
  sent,       \* stats_.sent_count
  success,    \* stats_.success_count
  failure,    \* stats_.failure_count
  pending,    \* keys of pending_
  starts,     \* keys of request_start_times_
  latencies,  \* keys of request_latencies_
  logged,     \* logged[r]: lines of latency_log.csv for request r
  client,     \* the server client_ is connected to
  via,        \* via[r]: l_client of request r
  stage,      \* stage[r]: how far request r and its handler are
  reply,      \* reply[r]: what the handler of r was called with
  leader,     \* the leader of the cluster
  elections   \* changes of leader so far

mainVars  == <<pc, i, seen, waits>>
countVars == <<sent, success, failure>>
mapVars   == <<pending, starts, latencies, logged>>
linkVars  == <<client, via, stage, reply>>
raftVars  == <<leader, elections>>
vars == <<mainVars, countVars, mapVars, linkVars, raftVars>>

Reqs == 0..(NumReqs - 1)
Stages == {"unsent", "waiting", "erase", "count", "latency", "forget", "done"}
\* A response that is in a counter if it is accepted or an error.
CountedStages == {"latency", "forget", "done"}
\* A redirect is the server it names; "refused" is a response that is neither
\* accepted nor names a leader; "error" is an rpc_exception.
Replies == {"none", "accepted", "refused", "error"} \union Servers
Places == {"take", "register", "transmit", "stamp", "load", "test", "print",
           "next", "drain", "finalPrint", "exit"}

Init ==
  /\ pc = "take" /\ i = 0 /\ seen = 0 /\ waits = 0
  /\ sent = 0 /\ success = 0 /\ failure = 0
  /\ pending = {} /\ starts = {} /\ latencies = {}
  /\ logged = [r \in Reqs |-> 0]
  /\ client \in Servers
  /\ via = [r \in Reqs |-> client]
  /\ stage = [r \in Reqs |-> "unsent"]
  /\ reply = [r \in Reqs |-> "none"]
  /\ leader \in Servers /\ elections = 0

-----------------------------------------------------------------------------
(* send_request on the main thread.                                        *)

\* Counts the request and copies client_ under client_mtx_.
TakeClient ==
  /\ pc = "take"
  /\ sent' = sent + 1
  /\ via' = [via EXCEPT ![i] = client]
  /\ pc' = "register"
  /\ UNCHANGED <<i, seen, waits, success, failure, mapVars, client, stage,
                 reply, raftVars>>

\* Faulty: the request is on its way before its handler is registered.
RegisterLate ==
  /\ pc = "register"
  /\ IF stage[i] = "unsent"
     THEN stage' = [stage EXCEPT ![i] = "waiting"] /\ UNCHANGED <<pc, pending>>
     ELSE pending' = pending \union {i} /\ pc' = "stamp" /\ UNCHANGED stage
  /\ UNCHANGED <<i, seen, waits, countVars, starts, latencies, logged, client,
                 via, reply, raftVars>>

Register ==
  /\ pc = "register"
  /\ pending' = pending \union {i}
  /\ pc' = "transmit"
  /\ UNCHANGED <<i, seen, waits, countVars, starts, latencies, logged,
                 linkVars, raftVars>>

Transmit ==
  /\ pc = "transmit"
  /\ stage' = [stage EXCEPT ![i] = "waiting"]
  /\ pc' = "stamp"
  /\ UNCHANGED <<i, seen, waits, countVars, mapVars, client, via, reply,
                 raftVars>>

\* request_times_mtx_ is free: no handler is between storing a latency and
\* erasing the start time.
TimesFree == \A q \in Reqs : stage[q] # "forget"

\* The start time is recorded once the request is on its way.
StampStart ==
  /\ pc = "stamp"
  /\ TimesFree
  /\ starts' = starts \union {i}
  /\ pc' = IF i = 0 THEN "next" ELSE "load"
  /\ UNCHANGED <<i, seen, waits, countVars, pending, latencies, logged,
                 linkVars, raftVars>>

-----------------------------------------------------------------------------
(* main.                                                                   *)

LoadSuccess ==
  /\ pc = "load"
  /\ seen' = success
  /\ pc' = "test"
  /\ UNCHANGED <<i, waits, countVars, mapVars, linkVars, raftVars>>

\* Faulty: the window is one request wider.
WindowOpenOffByOne == (i - seen - failure) % Word <= Rate

\* Faulty: failed requests keep their place in the window.
WindowOpenSuccessOnly == (i - seen) % Word < Rate

\* i - get_success_count() - get_failure_count() < rate, in uint64_t.
WindowOpen == (i - seen - failure) % Word < Rate

TestWindow ==
  /\ pc = "test"
  /\ pc' = IF ~WindowOpen THEN "load"
           ELSE IF i % StatsEvery = 0 THEN "print" ELSE "next"
  /\ UNCHANGED <<i, seen, waits, countVars, mapVars, linkVars, raftVars>>

\* Faulty: request_latencies_ is not cleared after it was written.
PrintStatsNoClear ==
  /\ pc \in {"print", "finalPrint"}
  /\ logged' = [r \in Reqs |-> logged[r] + (IF r \in latencies THEN 1 ELSE 0)]
  /\ pc' = IF pc = "print" THEN "next" ELSE "exit"
  /\ UNCHANGED <<i, seen, waits, countVars, pending, starts, latencies,
                 linkVars, raftVars>>

\* print_stats writes every recorded latency to the log and forgets it.
PrintStats ==
  /\ pc \in {"print", "finalPrint"}
  /\ logged' = [r \in Reqs |-> logged[r] + (IF r \in latencies THEN 1 ELSE 0)]
  /\ latencies' = {}
  /\ pc' = IF pc = "print" THEN "next" ELSE "exit"
  /\ UNCHANGED <<i, seen, waits, countVars, pending, starts, linkVars, raftVars>>

NextRequest ==
  /\ pc = "next"
  /\ IF i + 1 < NumReqs
     THEN i' = i + 1 /\ pc' = "take"
     ELSE UNCHANGED i /\ pc' = "drain"
  /\ UNCHANGED <<seen, waits, countVars, mapVars, linkVars, raftVars>>

Drain ==
  /\ pc = "drain"
  /\ IF success + failure < NumReqs /\ waits < MaxWaits
     THEN waits' = waits + 1 /\ UNCHANGED pc
     ELSE UNCHANGED waits /\ pc' = "finalPrint"
  /\ UNCHANGED <<i, seen, countVars, mapVars, linkVars, raftVars>>

Main == TakeClient \/ Register \/ Transmit \/ StampStart \/ LoadSuccess
          \/ TestWindow \/ PrintStats \/ NextRequest \/ Drain

-----------------------------------------------------------------------------
(* The response handler of request r, which dies with the process.         *)

\* What the server that was asked may answer.
Answers(r) ==
  {"error"} \union IF via[r] = leader THEN {"accepted"}
                                      ELSE {"refused", leader}

Respond(r) ==
  /\ stage[r] = "waiting"
  /\ \E a \in Answers(r) : reply' = [reply EXCEPT ![r] = a]
  /\ stage' = [stage EXCEPT ![r] = "erase"]
  /\ UNCHANGED <<mainVars, countVars, mapVars, client, via, raftVars>>

ErasePending(r) ==
  /\ stage[r] = "erase"
  /\ pending' = pending \ {r}
  /\ stage' = [stage EXCEPT ![r] = "count"]
  /\ UNCHANGED <<mainVars, countVars, starts, latencies, logged, client, via,
                 reply, raftVars>>

\* Faulty: every response is taken for a redirect.
CountRedirectAlways(r) ==
  /\ stage[r] = "count"
  /\ failure' = failure + (IF reply[r] = "error" THEN 1 ELSE 0)
  /\ success' = success + (IF reply[r] = "accepted" THEN 1 ELSE 0)
  /\ client' = reply[r]
  /\ stage' = [stage EXCEPT ![r] = IF reply[r] = "accepted" THEN "latency"
                                                            ELSE "done"]
  /\ UNCHANGED <<mainVars, sent, mapVars, via, reply, raftVars>>

\* Only an error and an accepted response are counted; a redirect moves
\* client_ (update_leader), and its request is neither counted nor retried.
Count(r) ==
  /\ stage[r] = "count"
  /\ failure' = failure + (IF reply[r] = "error" THEN 1 ELSE 0)
  /\ success' = success + (IF reply[r] = "accepted" THEN 1 ELSE 0)
  /\ client' = IF reply[r] \in Servers THEN reply[r] ELSE client
  /\ stage' = [stage EXCEPT ![r] = IF reply[r] = "accepted" THEN "latency"
                                                            ELSE "done"]
  /\ UNCHANGED <<mainVars, sent, mapVars, via, reply, raftVars>>

\* Takes request_times_mtx_: a latency is stored, under a lock of its own, if
\* main has recorded the start time by now.
StoreLatency(r) ==
  /\ stage[r] = "latency"
  /\ TimesFree
  /\ \/ /\ r \in starts
        /\ latencies' = latencies \union {r}
        /\ stage' = [stage EXCEPT ![r] = "forget"]
     \/ /\ r \notin starts
        /\ stage' = [stage EXCEPT ![r] = "done"]
        /\ UNCHANGED latencies
  /\ UNCHANGED <<mainVars, countVars, pending, starts, logged, client, via,
                 reply, raftVars>>

\* The lock of the latencies is free again, so print_stats may come in between.
ForgetStart(r) ==
  /\ stage[r] = "forget"
  /\ starts' = starts \ {r}
  /\ stage' = [stage EXCEPT ![r] = "done"]
  /\ UNCHANGED <<mainVars, countVars, pending, latencies, logged, client, via,
                 reply, raftVars>>

Handler(r) ==
  /\ pc # "exit"
  /\ Respond(r) \/ ErasePending(r) \/ Count(r) \/ StoreLatency(r) \/ ForgetStart(r)

-----------------------------------------------------------------------------
Elect(s) ==
  /\ elections < MaxElections
  /\ leader # s
  /\ leader' = s
  /\ elections' = elections + 1
  /\ UNCHANGED <<mainVars, countVars, mapVars, linkVars>>

Next ==
  \/ Main
  \/ \E r \in Reqs : Handler(r)
  \/ \E s \in Servers : Elect(s)

\* The scheduler runs main and every handler; a connection answers every
\* request or reports an error.
Fairness == WF_vars(Main) /\ \A r \in Reqs : WF_vars(Handler(r))

Spec == Init /\ [][Next]_vars
FairSpec == Spec /\ Fairness

-----------------------------------------------------------------------------
(* Properties.                                                             *)

\* Type invariant.
TypeOK ==
  /\ pc \in Places /\ i \in Reqs /\ waits \in 0..MaxWaits
  /\ seen \in Nat /\ sent \in Nat /\ success \in Nat /\ failure \in Nat
  /\ pending \subseteq Reqs /\ starts \subseteq Reqs /\ latencies \subseteq Reqs
  /\ logged \in [Reqs -> Nat]
  /\ client \in Servers /\ via \in [Reqs -> Servers]
  /\ stage \in [Reqs -> Stages] /\ reply \in [Reqs -> Replies]
  /\ leader \in Servers /\ elections \in 0..MaxElections

\* Requests sent that neither counter includes, or not yet.
NotCounted ==
  {r \in 0..i : ~(stage[r] \in CountedStages /\ reply[r] \in {"accepted", "error"})}

\* Main sends before it tests, so one request more than the window may be unanswered.
WindowBounded == sent - success - failure <= Rate + 1

\* With the successes of this moment the test passes exactly while one to rate of
\* the requests sent are in no counter: it closes for good when all are counted,
\* because the difference wraps, and when more than rate never will be.
WindowExact ==
  pc = "test" /\ seen = success => (WindowOpen <=> Cardinality(NotCounted) \in 1..Rate)

\* However responses race with the sliding window of main (lines 283-299), at
\* most one request more than it allows is unanswered, and its test is exact.
WindowRespected == WindowBounded /\ WindowExact

\* Lines of the latency log that request r has left or will leave.
Measured(r) == logged[r] + Cardinality({r} \intersect latencies)

\* A response is measured at most once, although print_stats may write and clear
\* the latencies between the two locks of a handler (lines 118-122 against
\* 203-208): a start time outlives its latency only there.  An accepted request
\* is missing from the log only if its handler overtook main, which records its
\* start time afterwards (lines 139-142).
LatencyOnce ==
  \A r \in Reqs :
    /\ Measured(r) <= 1
    /\ r \in starts /\ Measured(r) = 1 => stage[r] = "forget"
    /\ Measured(r) = 0 /\ stage[r] = "done" /\ reply[r] = "accepted"
         => r \in starts \/ (r = i /\ pc = "stamp")

\* A request whose handler has finished is not pending, however fast the
\* response came (lines 74-77 against 86-89).
AnsweredNotPending == \A r \in Reqs : stage[r] = "done" => r \notin pending

InWindowLoop == pc \in {"load", "test"}
AllHandled == \A r \in 0..i : stage[r] = "done"
\* Requests whose response changed no counter.
Uncounted == {r \in Reqs : stage[r] = "done"
                             /\ reply[r] \in Servers \union {"refused"}}

\* The only ways the program can fail to end (with every request answered):
\* main spins in its window loop because it was overtaken by the response to
\* the request just sent, so that the unsigned difference wraps, or because
\* more than a window of responses were redirects or refusals, which no
\* counter ever includes.
EndsOrStuck ==
  <>[](\/ pc = "exit"
       \/ InWindowLoop /\ AllHandled /\ success + failure = i + 1
       \/ InWindowLoop /\ AllHandled /\ Cardinality(Uncounted) > Rate)

\* The window is controlled "according to pending requests" (comment of line
\* 287): main leaves the loop when no request is pending.
WindowOpens == InWindowLoop /\ pending = {} ~> ~InWindowLoop
=============================================================================
