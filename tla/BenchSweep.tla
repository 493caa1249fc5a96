----------------------------- MODULE BenchSweep -----------------------------
(***************************************************************************)
(* The sweeps of scripts/bench over numbers of client threads:             *)
(* nopaxos_tofino_sequencer.py and nopaxos_host_sequencer.sh.  Each starts *)
(* the NOPaxos client once per run, reads its output and appends a row to  *)
(* a CSV file.  The client is not in the repository: of it only the lines  *)
(* the scripts look for, the end of its output and its exit code are       *)
(* modelled.                                                               *)
(***************************************************************************)
EXTENDS Naturals, Sequences, FiniteSetsExt

CONSTANTS
  ThreadCounts, \* the list of thread counts
  Reps,         \* repetitions, which the shell script does not have
  MaxSecs,      \* bound: seconds a thread reports
  MaxSweeps,    \* bound: times the operator starts the script
  MaxLines,     \* bound: lines of a file on which it is started
  Latencies,    \* the forms in which a client may print its latencies
  None          \* a time or an exit code that is not there

\* The forms, told apart by the maximum: in us or ms; in ns; in another unit; in
\* another unit, but next to a histogram in us.
Forms == {"us", "ns", "s", "hist"}

ASSUME LatenciesAssumption == Latencies \subseteq Forms
ASSUME SweepAssumption ==
  /\ ThreadCounts \in Seq(Nat \ {0}) /\ ThreadCounts # <<>>
  /\ Reps \in Nat \ {0} /\ MaxSecs \in Nat /\ MaxSweeps \in Nat \ {0}
  /\ MaxLines \in Nat /\ None \notin Nat

VARIABLES
  script,  \* which of the two scripts
  timeout, \* whether --timeout is given
  sweep,   \* the number of times the script was started
  run,     \* the current run of the sweep
  phase,   \* where the script is
  process, \* the client process of the current run
  file     \* the lines of the CSV file

sweepVars == <<script, timeout, sweep, run, phase, process, file>>

Header == [sweep |-> 0]

Runs == Len(ThreadCounts) * (IF script = "python" THEN Reps ELSE 1)
\* The python script repeats each thread count before it goes on to the next.
Threads(i) == ThreadCounts[IF script = "python" THEN ((i - 1) \div Reps) + 1 ELSE i]

\* A client: whether its end of the pipe is open, its exit code, the elapsed
\* times of the threads in the order they were printed, and the form of the lines
\* about latencies, "none" until all of them were printed.
NoClient == [open |-> FALSE, rc |-> 0, secs |-> <<>>, lat |-> "none"]

-----------------------------------------------------------------------------
(* The client.                                                             *)

Alive == phase \in {"reading", "waiting"} /\ process.rc = None

ThreadFinishes(s) ==
  /\ Alive /\ process.open /\ Len(process.secs) < Threads(run)
  /\ process' = [process EXCEPT !.secs = Append(@, s)]
  /\ UNCHANGED <<script, timeout, sweep, run, phase, file>>

PrintsLatencies(form) ==
  /\ Alive /\ process.open /\ process.secs # <<>> /\ process.lat = "none"
  /\ process' = [process EXCEPT !.lat = form]
  /\ UNCHANGED <<script, timeout, sweep, run, phase, file>>

ClosesOutput ==
  /\ Alive /\ process.open
  /\ process' = [process EXCEPT !.open = FALSE]
  /\ UNCHANGED <<script, timeout, sweep, run, phase, file>>

\* It can fail at any time, and succeeds when all threads have finished.
Exits(rc) ==
  /\ Alive
  /\ rc = 0 => Len(process.secs) = Threads(run)
  /\ process' = [process EXCEPT !.open = FALSE, !.rc = rc]
  /\ UNCHANGED <<script, timeout, sweep, run, phase, file>>

-----------------------------------------------------------------------------
(* The scripts.                                                            *)

\* The wall time of the shell script: that of the last line.
LastPrinted(secs) == IF secs = <<>> THEN None ELSE secs[Len(secs)]

\* The wall time of the python script: that of the slowest thread.
Slowest(secs) == IF secs = <<>> THEN None ELSE Max({secs[i] : i \in DOMAIN secs})

\* The maxima a script understands.  The python script falls back on the histogram.
MaxForms == IF script = "python" THEN {"us", "hist"} ELSE {"us", "ns"}

\* A row: its wall time and whether there are an IOPS, percentile and maximum
\* fields; rc, secs and lat are what became of the client.
Row(wall, rc) ==
  [sweep |-> sweep, run |-> run, wall |-> wall, iops |-> wall # None /\ wall # 0,
   stats |-> process.lat # "none", max |-> process.lat \in MaxForms,
   rc |-> rc, secs |-> process.secs, lat |-> process.lat]

\* Faulty: the header is written on every start.
BeginAlways ==
  /\ phase = "off" /\ sweep < MaxSweeps /\ Len(file) <= MaxLines
  /\ sweep' = sweep + 1 /\ run' = 1 /\ phase' = "next" /\ process' = NoClient
  /\ file' = IF script = "shell" THEN <<Header>> ELSE Append(file, Header)
  /\ UNCHANGED <<script, timeout>>

\* The file is only begun when there is none; the shell script's is a new one.
\* One step: an interrupt between creating the file and writing its header is
\* left out.
Begin ==
  /\ phase = "off" /\ sweep < MaxSweeps /\ Len(file) <= MaxLines
  /\ sweep' = sweep + 1 /\ run' = 1 /\ phase' = "next" /\ process' = NoClient
  /\ file' = IF script = "shell" \/ file = <<>> THEN <<Header>> ELSE file
  /\ UNCHANGED <<script, timeout>>

Start ==
  /\ phase = "next" /\ run <= Runs
  /\ phase' = "reading" /\ process' = [NoClient EXCEPT !.open = TRUE, !.rc = None]
  /\ UNCHANGED <<script, timeout, sweep, run, file>>

Done ==
  /\ phase = "next" /\ run > Runs
  /\ phase' = "off"
  /\ UNCHANGED <<script, timeout, sweep, run, process, file>>

Write(row) ==
  /\ file' = Append(file, row) /\ run' = run + 1 /\ phase' = "next" /\ process' = NoClient
  /\ UNCHANGED <<script, timeout, sweep>>

\* run_cmd reads to the end of the output, whatever the timeout is.
ReadsToEnd ==
  /\ script = "python" /\ phase = "reading" /\ ~process.open
  /\ phase' = "waiting"
  /\ UNCHANGED <<script, timeout, sweep, run, process, file>>

\* A row is written whatever the exit code.
Waited ==
  /\ script = "python" /\ phase = "waiting" /\ process.rc # None
  /\ Write(Row(Slowest(process.secs), process.rc))

\* Faulty: the script waits again after the kill.
TimesOutAgain ==
  /\ script = "python" /\ phase = "waiting" /\ timeout /\ process.rc = None
  /\ UNCHANGED sweepVars

\* Faulty: the exit code is not set.
TimesOutNoCode ==
  /\ script = "python" /\ phase = "waiting" /\ timeout /\ process.rc = None
  /\ Write(Row(Slowest(process.secs), process.rc))

TimesOut ==
  /\ script = "python" /\ phase = "waiting" /\ timeout /\ process.rc = None
  /\ Write(Row(Slowest(process.secs), 124))

\* With set -e and pipefail a client that fails, a line that is not found and a
\* division by zero each end the script; a maximum in a unit it does not know only
\* leaves its field empty.
Complete ==
  /\ process.rc = 0 /\ process.lat # "none"
  /\ process.secs # <<>> /\ LastPrinted(process.secs) # 0

ShellEnds ==
  /\ script = "shell" /\ phase = "reading" /\ ~process.open /\ process.rc # None
  /\ \/ Complete /\ Write(Row(LastPrinted(process.secs), process.rc))
     \/ /\ ~Complete
        /\ phase' = "off"
        /\ UNCHANGED <<script, timeout, sweep, run, process, file>>

\* The operator interrupts the script: no row is written for the run.
Interrupt ==
  /\ phase \in {"next", "reading", "waiting"}
  /\ phase' = "off"
  /\ UNCHANGED <<script, timeout, sweep, run, process, file>>

-----------------------------------------------------------------------------
SweepInit ==
  /\ script \in {"python", "shell"} /\ timeout \in BOOLEAN /\ (script = "shell" => ~timeout)
  /\ sweep = 0 /\ run = 1 /\ phase = "off" /\ process = NoClient /\ file = <<>>

Step == Start \/ Done \/ ReadsToEnd \/ Waited \/ TimesOut \/ ShellEnds

Client ==
  \/ \E s \in 0..MaxSecs : ThreadFinishes(s)
  \/ \E form \in Latencies : PrintsLatencies(form)
  \/ ClosesOutput
  \/ \E rc \in {0, 1} : Exits(rc)

SweepNext == Step \/ Client \/ Begin \/ Interrupt

SweepSpec == SweepInit /\ [][SweepNext]_sweepVars /\ WF_sweepVars(Step)

-----------------------------------------------------------------------------
(* Properties.                                                             *)

RowType ==
  [sweep : 1..MaxSweeps, run : 1..Runs, wall : {None} \union (0..MaxSecs), iops : BOOLEAN,
   stats : BOOLEAN, max : BOOLEAN, rc : {0, 1, 124}, secs : Seq(0..MaxSecs),
   lat : Forms \union {"none"}]
ProcessType ==
  [open : BOOLEAN, rc : {None, 0, 1}, secs : Seq(0..MaxSecs), lat : Forms \union {"none"}]

\* Type invariant.
SweepTypeOK ==
  /\ script \in {"python", "shell"} /\ timeout \in BOOLEAN
  /\ sweep \in 0..MaxSweeps /\ run \in 1..(Runs + 1)
  /\ phase \in {"off", "next", "reading", "waiting"}
  /\ process \in ProcessType
  /\ file \in Seq(RowType \union {Header})

Rows == {file[i] : i \in DOMAIN file} \ {Header}

\* However often the script is interrupted and started again on the same file,
\* the file has one header, on top, and after it the rows of each sweep in the
\* order of its runs, none twice and none left out before the last one
\* (nopaxos_tofino_sequencer.py:143-190, nopaxos_host_sequencer.sh:41,120).
FileWellFormed ==
  /\ \A i \in DOMAIN file : file[i] = Header <=> i = 1
  /\ \A i \in DOMAIN file \ {1} : file[i].run > 1 =>
       i > 2 /\ file[i - 1].sweep = file[i].sweep /\ file[i - 1].run = file[i].run - 1
  /\ phase # "off" => Cardinality({r \in Rows : r.sweep = sweep}) = run - 1

\* The IOPS field counts the operations of all threads over the wall time.  For
\* a client that succeeded all of them were done, and in the python script no
\* thread took longer.  In the shell script no row is of a client that failed, and
\* none lacks its IOPS or a percentile; the maximum is missing only if the client
\* gave it in a unit other than ns, us and ms (nopaxos_tofino_sequencer.py:92-93,
\* 168-170, nopaxos_host_sequencer.sh:58-118).
RowsTruthful ==
  \A r \in Rows :
    /\ r.rc = 0 => Len(r.secs) = Threads(r.run)
    /\ script = "python" /\ r.wall # None => \A i \in DOMAIN r.secs : r.secs[i] <= r.wall
    /\ script = "shell" => r.rc = 0 /\ r.iops /\ r.stats /\ (r.max \/ r.lat \in {"s", "hist"})

\* An upper bound on what the script still has to do itself: three steps for
\* each run, and one to end.
Ahead ==
  IF phase = "off" THEN 0
  ELSE 3 * (Runs + 1 - run) + (CASE phase = "next" -> 3 [] phase = "reading" -> 2
                                 [] phase = "waiting" -> 1)

\* Each step of the script brings the end of its sweep nearer, and nothing but a
\* new start takes it further away, whatever becomes of the clients: a sweep that
\* does not end is one that waits for a client
\* (nopaxos_tofino_sequencer.py:34-43,147-193, nopaxos_host_sequencer.sh:130-132).
SweepAdvances ==
  [][sweep' = sweep => Ahead' \in 0..Ahead /\ (Step => Ahead' < Ahead)]_sweepVars

\* The sweep ends if every client closes its output and, without --timeout,
\* exits; no client can hold it up otherwise (nopaxos_tofino_sequencer.py:32-43).
SweepEnds ==
  []<>(phase = "off" \/ ~process.open) /\ (timeout \/ []<>(phase = "off" \/ process.rc # None))
    => <>[](phase = "off")
=============================================================================
