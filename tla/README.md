# OpticalDCN in TLA+

OpticalDCN is the software of an optical data-centre testbed: P4 programs for a
Tofino switch, the scripts that program it, a NOPaxos sequencer in the switch, a
Raft benchmark, and tools that measure latency and flow completion times. This
directory holds TLA+ models of it, TLC configurations that check them on small
instances, and TLAPS proofs about all of them.

Paths below are relative to the repository. `infra/` stands for
`infra/switch_tofino/`, `vartest/` for `src/vartest/`.

## 1. The system

| Part | State | Operations | Talks to |
|---|---|---|---|
| **In-switch sequencer** `infra/p4src/nopaxos_tofino.p4` | register `nopaxos_oum_seq_reg`, table `t_nopaxos_tofino_sequencer`, replication engine (node, group) | per packet: parse, table hit, fetch-and-add, stamp, multicast | hosts over lossy links; its script |
| **Clos forwarding** same file | four tables | per pass: classify, look up, emit; one frame makes several passes through one device | cables between ports of the device |
| **Sequencer script** `infra/bfrt_python/apply_nopaxos_tofino_sequencer.py` | the topology file, the position in the run | clear and push, table after table; replication engine delete/add | the switch, while it forwards |
| **Raft client** `src/raft_lab/synraft-client.cpp` | counters, `pending_`, start times, latencies, `client_` | main: send, window test, statistics, drain; handlers on asio threads | Raft servers by rpc |
| **Raft server** `src/raft_lab/synraft-server.cpp` | log store on disk; server state kept nowhere | state manager, state machine | cornerstone (not in the repository) |
| **Hybrid switch** `infra/p4src/hybrid_arch.p4` | `pktgen_sequence_reg`; port kind, forwarding, schedule and timestamp tables; the time slot | numbering, stamping, electrical and optical forwarding | packet generator, receivers; `setup_hybrid_arch.py`, `setup_meas_timestamping.py` |
| **FCT receiver** `vartest/sources/fct_pktgen_recv.c` | the flow being put together, the CSV file | read, start, append, fail, complete, interrupt | the switch |
| **hopvar flow mode** `vartest/sources/hopvar_{sender,receiver}.c` | sender loops; open-addressing flow table | send; count, complete and clear a slot | UDP |
| **meas tools** `vartest/sources/meas_*.c`, `vartest/tools/process_meas_compose_ts.py` | index of the next request without a timestamp; message header; three files | send, drain, receive, time out, join | kernel error queue, network |
| **Host-sequencer switch** `infra/p4src/spineleaf.p4` | mode, four forwarding tables, dispatch table, replication engine | redirect, multicast, forward | host sequencer; `apply_nopaxos_from_yaml.py` |
| **Topology model** `src/topo/` | none | load, validate | every script |
| **Benchmark sweeps** `scripts/bench/` | the current run, the CSV file | start a client, read, wait, time out, append a row | NOPaxos client (a submodule) |
| Bring-up scripts, plotting tools, older testbed, vendored spdlog and toml++ | | | |

What is hard in it: the control plane rewrites a running switch call by call and
can stop anywhere; frames pass the same pipeline several times and see several
versions of the tables; packets are lost, repeated and reordered; the client's
threads race on counters that are subtracted without a sign; receivers must
attribute packets to flows from nothing but ids and counts. `PROJECT.json` lists
each of these hazards at its line, with the properties that cover it.

What makes each part correct:

* sequencer: between two power-ons one number stands for one packet, no number is
  burnt in the switch,
  and a packet can be numbered only while the complete replica group is programmed;
* forwarding: up and down once, never to the wrong endpoint, always delivered
  after a complete run;
* Raft client: the window is respected and does not close for good, and no response
  is measured twice;
* FCT receiver: the packets read are cut into flows without loss or repetition,
  and no completion time is wrong because the clock wrapped;
* hopvar receiver: nothing is miscounted, a row stands for a whole flow unless the
  network repeated one of its packets, and a whole flow has a row when no two flows
  share a home slot;
* hybrid switch: the schedule is a matching in every slot and brings every pair
  together, electrical frames go up and down once and arrive, and a packet's
  two timestamps bracket its way through the switch;
* meas tools: a transmit timestamp is wrong only by the number of those lost before
  it, the joined table counts losses exactly, and both programs end;
* host-sequencer switch: what a valid file says of ports and of endpoints leads to
  the same place, a tree loses nothing, and replicas get only what was sequenced;
* sweeps: the file is a header and the rows of the runs in order, and no client can
  hold up a sweep except by keeping its output open.

## 2. Modules

| Module | Models |
|---|---|
| `OrderedMulticast` | abstract specification: an ordered, unreliable multicast with one log per power-on of the switch |
| `OumSequencer` | sequencer data plane, its script call by call, links, restart |
| `OumSequencerProps` | its properties; `Ordered == INSTANCE OrderedMulticast` |
| `OumSequencerProofs` | theorems about it |
| `ClosFabric` | the folded leaf-spine fabric: four tables, the script that fills them, one frame |
| `ClosFabricProofs` | theorems about it |
| `RaftBenchmark` | the Raft client: main thread, one handler per request, an abstract cluster |
| `FctMeasurement`, `FctMeasurementProps` | numbering and stamping in the switch, loss, the FCT receiver |
| `FctMeasurementProofs` | theorems about them |
| `HopvarFlow` | hopvar senders, network, the receiver's flow table |
| `HopvarFlowProofs` | theorems about it |
| `HybridFabric` | the hybrid switch of topology v3, its time slots and its two scripts |
| `HybridFabricProofs` | theorems about it |
| `MeasTimestamps`, `MeasTimestampsProps` | the meas sender and receiver; the join of their files |
| `MeasTimestampsProofs` | theorems about them |
| `TopologyChecks` | topology files and `validate_topology` |
| `SpineLeaf` | `spineleaf.p4` with the tables derived from a valid file; EXTENDS `TopologyChecks` |
| `SpineLeafProofs` | theorems about it |
| `BenchSweep` | the two benchmark sweeps and the client as they see it |
| `BenchmarkProofs` | theorems about `RaftBenchmark` and `BenchSweep`; EXTENDS both |
| `MC...` | instances for TLC |

`map` in `PROJECT.json` gives the lines of every definition. Definitions marked
*Faulty* are not part of any specification: each is a plausible bug in the
definition after it, and shows that a property can fail.

**OumSequencer.** A packet is what the table's keys tell apart, plus its OUM
group and whether it carries the magic number (which nothing looks at).
`Sequence` is one pass of the pipeline: a hit bumps the register, stamps and
multicasts, and skips forwarding. The script is a program counter `step` with one
action per runtime call, since packets are handled between any two. `Clear`
empties the sequencer table *before* the topology is looked at, so that a file
without a client ends the run there. `NodeDelete` either detaches the node or is
refused while its group uses it; both are swallowed by the code, and `NodeAdd`
then raises. `Abort` ends a run after any call. `Restart` empties registers,
tables and engine. Links keep a packet until it is lost, so it may be handled
again or late. Numbers begin at 0 again after a `Restart`, and what is promised of them
is promised per power-on: `StampAgreement` compares packets of the same one, which a
replica cannot see. Packets that miss the table fall through to forwarding, which is
`ClosFabric`'s; the two share only the device, not state.

**ClosFabric.** `Program[file]` is the sequence of runtime calls of a run, in the
script's order; `Call` makes the next one. A push on a key that is already there
replaces the entry or leaves the old one, because the script does not say and
the runtime decides. `Egress` is the forwarding part of the pipeline with its
default actions, the test for port 0 included where the code has one. Frames do
not influence each other, so one is followed. `Topology[Cabled]` says how the
ports are really connected; the file the script is run on may be another. `Among` is
the order in which a loop with a test meets the ports. The properties have premises:
`RightFile` (no run was on another file), and of the cabling `FoldedClos` (what the
script's naming convention takes for granted) and `FullyCabled` (no cable is missing);
`MCClosFabric` asserts the last two of its instance, which is the cabling of topology v2;
the files the script is run on have two shapes. `Delivery` is a safety property: within the
hop bound of `UpAndDownOnce` a frame that has left the fabric has left it at its endpoint,
and no complete table drops it.

**RaftBenchmark.** The main thread is cut wherever a handler can see it half
done: after `client_` is copied, after the pending entry, after the request left,
after the start time, and between loading the counters and testing them. A handler
is cut between its critical sections: `StoreLatency` ends when `request_latencies_mtx_` is
released at line 120, `ForgetStart` erases the start time at 122, and `print_stats`
may write
and clear the latencies in between. `request_times_mtx_` is held across both, so no
other handler gets in and main cannot store a start time (`TimesFree`). `WindowOpen`
is evaluated modulo `Word`, as
the unsigned arithmetic is. The Raft cluster is external: a leader that may
change, servers that accept, refuse or name the leader, connections that fail.

**FctMeasurement.** Time is unbounded in the model and cut to `Wrap` when a slot is
read; a run is shorter than one period of the clock (`MaxTicks`, in the code 78 hours), for
after a whole period no difference of two readings could be right. `Conclude` is the end
of the loop's body. A signal may come at any moment;
`keep` lets at most one more packet be read after it, which is what a restarted
`recvfrom` does. A receive error ends the loop as well. Short packets are ignored
by the code and absent here.

**HopvarFlow.** The table is an array of `MaxFlows` slots with linear probing from
`flow_id % MaxFlows`; completing a flow zeroes its slot. Senders draw their start
ids at the beginning from a set of placements with disjoint flow ids. The network loses,
reorders and repeats packets: a packet that stays in it is lost, and `Repeat` adds a copy.
Copies have numbers only so that the history can tell them apart; the receiver counts
whatever arrives, without a look at `pkt_idx` (`hopvar_receiver.c:337`).

**HybridFabric.** The scripts are cut at every runtime call. Since each table is
cleared before it is filled in a fixed order, the number of its entries (`filled`)
says which keys it has, and `EpsRule` and `Rotate` say what an entry holds;
`EpsOrder` and `OcsOrder` are the loop nests of the script. (`spine1_ing` and
`spine2_ing` are Python sets; the model takes their ports in ascending order.)
`Tick` is the slot counter, three bits of the global timestamp. A frame is
classified in `Ingress` and leaves in `Egress`, any number of calls and slots
later. `frame.stable` remembers which scripts were complete when it was sent and
have not been started since. The timestamps hold the number of the pass they were
taken on. Entries for `selected_spine = 1` are left out, because the pipeline
resets the field and never sets it. The rotation by `slot + 1` makes the last of
eight slots pair
each port with itself, so a "perfect matching schedule" (`setup_hybrid_arch.py:6`)
idles every eighth slot; `Matching` and `OpticalPairsMeet` hold all the same.

**MeasTimestamps.** A timestamp is named by the request it was taken of, so that a
wrong one shows. The sender is cut at each `recvmsg` of `drain_tx_timestamps`.
`room` is whether `msg_controllen` still leaves room for a control message: the
receiver sets it once and the kernel lowers it at each call (`meas_receiver.c:151`). No
property speaks of it: no text of the repository promises receive timestamps. Time
is counted in
timeouts of the receive call. `Joined` is `load_and_merge`.

**TopologyChecks and SpineLeaf.** A file is a record of four functions; any file of
`Candidates` that `Valid` accepts may be the one in use, and the cables are those
of the file. Each step of `Program` fills one table completely, as its function of
the script does, or raises. `ClosOut` is the pipeline after the sequencer's dispatch;
`HostSequencer` is that dispatch. A raise leaves what was filled before it in the
switch; the
model treats the table that was being filled as empty, and no property depends on it.
Five things to know. The three topology files of the repository spell the key `group_addr`,
and the script reads `groupaddr` (line 322), so it would raise there on each of them; nor
does any of the three satisfy `OneTree` (they have two spines in use, or a leaf without
a cable), so `TreeDelivers` is about other files than these. The script looks for the
tables `t_mode` and `t_nopaxos_phase1`, which this version of the program calls
`t_switch_cfg` and `t_nopaxos_host_sequencer`, and would stop in `require_tables`
(lines 55-76); the model identifies them. The build is the one for a host sequencer,
the file's default is the other (`spineleaf.p4:82`). A client's request
gets the sequencer's port but not `nopaxos_override`, so forwarding by the group
address replaces the port, and the request is dropped at the spine: only a
sequencer's own packets get anywhere. And several interfaces may claim one port,
as check 7 looks one way only. Nor does validation keep servers away from the spines,
where frames get in L2 mode only: the script gives them leaf 0. `OneTree` excludes them.

**BenchSweep.** One model of two scripts, told apart by `script`. Of the client only
what the scripts can see is modelled: elapsed times of threads, the lines on
latencies, the end of its output, its exit code. The shell script runs under
`set -e` and `pipefail`, so `ShellEnds` ends it at the first line it does not find:
its "cannot parse" (65-68) and the "fallback empty fields" of the percentiles (109-114)
are never reached. The one of the maximum is (115): in a unit other than ns, us and ms the
`case` at line 99 leaves it empty and the row is written without. `Latencies` are the forms
in which clients print that line, and `MaxForms` those a script understands; the Python
script falls back on the histogram. `Begin` creates the file and writes its header in one
step, so an interrupt between the two, which leaves an empty file that is then never given
a header, is not covered. The module shares no variable with `RaftBenchmark`; its
specification is
`SweepSpec`, of `SweepInit` and `SweepNext`, and its type invariant `SweepTypeOK`, so
that one module can extend both. The Python script writes a row for a client that
failed or was killed, with
an IOPS field that counts the operations of all threads; nothing in the row tells.

## 3. Runs

| Run | Shows | Bounds |
|---|---|---|
| `sequencer` | `StampAgreement`, `StampReachesGroup`, and that the sequencer implements `OrderedMulticast`, under reprogramming, interrupted runs, restart, loss, repetition and reordering | 2 ports, 2 requests, 3 topology files (one without a client, one with another client and group), 2 numbers, 2 power-ons, 2 runs |
| `sequencer_group` | **violated**: numbers are not contiguous per group | 4 kinds of packets, 1 run |
| `fabric` | frames go up and down once, are never misdelivered, and are delivered after a complete run whatever earlier runs left | 2 leaves, 2 spines, 4 endpoints, files of two shapes, 2 runs |
| `raft_client` | window, exactness of its test, no latency twice, pending map, and how the program can end or hang | 3 requests, window 1, 2 servers, 1 election |
| `raft_client_window` | **violated**: main spins with nothing pending | 3 requests, window 2 |
| `fct` | segmentation, rows, completion times | 4 packets of 2 passes, flows of 2, 1 stamp slot of 2, a clock modulo 3 |
| `hopvar` | packets are accounted for and rows truthful, with and without collisions; none is missing without | 4 flows of 2 packets, 4 slots, 1 stray, 1 repeated packet, limits of 3 flows and 7 packets |
| `hopvar_split` | **violated**: a flow received in full is never written | 4 flows of 2 packets, 4 slots |
| `hybrid` | the schedule is a matching and brings every pair together; electrical frames arrive and go nowhere else; timestamps bracket the transit | 2 leaves, 4 optical ports, 4 slots, 1 run of a script on an empty or a full switch, 4 senders, 3 targets |
| `meas` | shifts and losses are counted exactly, both programs end, the receiver after a bounded number of steps | 3 requests, a look at the error queue after every second, 2 looks at the end, 2 timeouts, 1 repeated datagram |
| `spineleaf` | on every valid file: frames reach the interface they are for, a tree loses none, replicas get only sequenced requests and all of them | 8 ports on 2 leaves and 2 spines, 3 interfaces, 15 shapes of cabling with every attachment |
| `bench` | the file is well-formed, its rows are truthful, the sweep ends | thread counts 1 and 2, no repetitions, times of 0 and 1, latencies in all 4 forms, 2 starts, the second on at most 2 lines |

Why the bounds are enough. Two numbers and two power-ons are the least that can
disagree; the second run of the script meets every state in which the first can
have stopped. Two leaves and two spines have every kind of port and every kind
of path. A third request is the least that meets a window of one in both
directions. Two passes against one slot exceed the slots; four packets give
gaps, swaps and the end of the last flow. Four flows on two home slots give a
collision, a displacement into another flow's home and a full table, and one repetition
completes a flow of which a packet is missing. Two leaves
have frames that stay and frames that cross; four slots on four ports wrap both ways
round. Three requests have one before and one after a lost timestamp, and a drain in
the middle and at the end. The cablings of `spineleaf` are trees by either port of a
spine, two spines, two uplinks of a leaf, ports of one stage paired with each other,
ports paired with themselves, missing cables and one-sided pairings. A run with two
threads has partial results; a second start meets a file with a header, with and without a
row, and a file of a sweep that was interrupted before or after its first run.
One file has a server at a spine, where `TreeDelivers` needs its premise.
The theorems of section 5 remove the bounds for the safety properties of every module.

Deadlock is checked for `sequencer`, where a host can always send, and for `hybrid`,
where slots go by. It is not for the other modules: the fabric's script, the
client, the receivers, the senders and the sweeps end, and are meant to; in
`spineleaf` a file may have no server port to send from.

**The violated properties** quote what the code's own comments and documents say,
and are listed under `findings`:

* all groups share cell 0 of the register (`nopaxos_tofino.p4:276` against 254; the comment
  at 286 assumes that there is one group, the table does not);
* the window test wraps when the newest response was counted first
  (`synraft-client.cpp:290`);
* clearing a slot without a tombstone splits flows (`hopvar_receiver.c:352`).

Further disagreements are modelled without a run of their own:

* a row says `flow_complete` (`hopvar_receiver.c:149`) when as many packets of the flow have
  arrived as it has, and one that the network repeated stands for one that is missing (337);
  this is why `RowsTruthful` has `Doubled` in it;
* a maximum in seconds leaves its field of the CSV file empty
  (`nopaxos_host_sequencer.sh:99`), although the script gives up on any other line it
  cannot read; `RowsTruthful` names the exception;
* nothing looks at the magic number (`nopaxos_tofino.p4:147` against 71);
* the overflow flag is set at the ninth stamp although the header has ten slots
  (`hybrid_arch.p4:278` against `hopvar_hdr.h:26`); the flag itself is not modelled, as
  no receiver reads it;
* the spine table of the sequencer script follows a naming convention that topology
  v1 does not (`apply_nopaxos_tofino_sequencer.py:145`, `system-topo-v1.yaml:19`), so
  frames that spine 1 sends to leaf 2 leave by an unused port; the runs use v1 with the port
  the convention asks for. `SpineLeaf` shows the other script, which follows the cables;
* a redirect under "handle redirect" (`synraft-client.cpp:126`) is neither retried nor
  counted; `EndsOrStuck` names the hang that follows;
* the start time is stored after the request was sent (line 136), so a quick response
  leaves no latency;
* "non-server ports must not pretend to connect_to endpoint" (`validate.py:41`) is not
  checked; without it as a premise `OnlySequencedReachReplicas` fails.

## 4. Fairness

`RaftBenchmark.FairSpec` asks weak fairness of main and of each request's handler:
the operating system schedules the main thread and the asio threads, and a
connection either answers a request or reports an error, so a handler is eventually
called. A server that keeps a connection and never answers is thereby excluded; its requests
would keep their places in the window, as redirected ones do. Nothing is asked of
elections. Main's polling loop is made of steps that
change `seen` and `pc`, so its spinning is visible and not excluded by fairness.
`EndsOrStuck` says exactly which two situations keep the program from ending.

`HybridFabric` asks weak fairness of `Tick` alone: time goes on. The scripts may stop
for good; `OpticalPairsMeet` has their completion as its premise.

`MeasTimestamps` asks weak fairness of the sender and of the receiver, two processes
that do not block for ever: `drain_tx_timestamps` does not wait, and the receive call
has a timeout. Nothing is asked of the network or of the network card, so lost
timestamps and datagrams are included, nor are failing system calls owed.

`BenchSweep` asks weak fairness of the script's own steps, and nothing of the client:
`SweepEnds` says what a client has to do for the sweep to end.

## 5. Proofs

**OumSequencerProofs**, for all ports, packets, topology files and bounds that
meet the named assumptions:

* `TypeCorrect`, `Agreement` (`StampAgreement`), `GroupComplete`
  (`EntryImpliesGroup`), `NoNumberBurnt` (`StampReachesGroup`), `Refinement`
  (`ImplementsOrderedMulticast`).

None of the safety properties is inductive. `IInv == TypeOK /\ LogInv /\
ScriptInv` is:

* `LogInv` ties what is on the wire and what was received to the history: every
  copy carries the packet its log holds at its number, and the register is the
  length of the current log. Without it, a step that receives a copy could break
  agreement.
* `ScriptInv` says what each position of the script means: between `Clear` and
  `Push` there is no entry, after `NodeAdd` the node holds exactly the loaded
  file's replicas, after `MgidAdd` the group is attached. Without it `Push` could
  install an entry with a wrong group.

`Invariance` proves `IInv` (initially, and by one lemma per conjunct with one step
per action), and the properties follow from it. The refinement maps `received` to
`obtained`; `Sequence`, `Receive` and `Restart` are `Order`, `Obtain` and
`Reopen`, everything else is a stutter.

**ClosFabricProofs**, for any number of leaves, spines, ports, endpoints and files:

* `TypeCorrect`; under `FoldedClos`, `FoldedOnce` (`UpAndDownOnce`) and
  `OnlyToItsEndpoint` (`NoMisdelivery`); with `FullyCabled` as well,
  `DeliveredIfSettled` (`Delivery`).

The invariant is `TypeOK /\ ScriptInv /\ FrameInv`. `ScriptInv` says that every entry is
one of a file some run was on, that a table the current run has cleared has entries of its
file only, and that what the run has pushed has an entry; so a complete run leaves exactly
the entries of its file. `RoleWrites` to `SpineWrites` say table by table what a run writes,
and `JoinWrites` for the four together. The first of the three makes the tables *sound* on
the right file, whatever mixture of runs they hold, which is enough for the way a frame
takes; delivery needs them *present* as well. `FrameInv` says where a frame is after so
many cables.

**BenchmarkProofs** on `RaftBenchmark`, for any number of requests, window, cluster
and word size
larger than both together:

* `TypeCorrect`;
* `WindowCorrect` (`WindowRespected`), in two halves. For `WindowBounded`, `WindowInv`
  says that `sent` is `i` or `i + 1`, that `seen` is stale but never too large, and that
  there is room for one request more than the window only until the test. `RoomIfOpen` is
  the lemma about the unsigned test: a difference that wraps either closes the window or
  there is room anyway. `WindowExact` says that with the counters of the moment the test
  passes exactly while one to `rate` of the requests sent are in neither counter. For it,
  `CountInv` says that the counters are the numbers of requests whose handlers have come
  past them, and `NotCountedIs` that the difference, before it is cut to a word, is the
  number of the others less one. So the window closes when there are none, because the
  difference wraps, and when more than `rate` never get counted: the two hangs of
  `EndsOrStuck`;
* `NeverPendingAgain`: what main has not sent has no handler yet;
* `MeasuredOnce` (`LatencyOnce`): `LatencyInv` says what each place of a handler and of main
  leaves in the two maps. Between the two locks a start time outlives its latency, which
  may by then be in the log; nowhere else are there both, so a response is measured at most
  once. None is measured when a handler overtook main, and then the start time stays.

**BenchmarkProofs** on `BenchSweep`, for any list of thread counts, any number of
repetitions,
starts and any times:

* `SweepTypeCorrect` (`SweepTypeOK`), `FileCorrect` (`FileWellFormed`) and `RowsCorrect`
  (`RowsTruthful`), from `SweepIInv`, which adds two conjuncts to these three. `ProcessInv`
  says that while a client is under way its run is one of the sweep, and that a client
  with exit code 0 has printed the times of all its threads. What `RowsCorrect` says of the
  shell script is that nothing is missing in its rows but a maximum in a unit it does not
  know; for that `RowsTruthful` keeps the form of the client's lines with the row.
  `FileInv` says where the file
  ends: at the run before the current one, and with no row of a later one. `WriteStep` is
  the step that counts, one for all the ways a row can be written. The maximum of the
  printed times exists because `<` is well-founded on how far they are below the largest
  possible one (`MaxOfTimes`);
* `SweepGetsOn` (`SweepAdvances`): see below.

**HybridFabricProofs**, for any number of leaves, optical ports two per leaf (the
FPGAs' second interfaces, `SizeAssumption`), slots and runs:

* `MatchingTheorem` (`Matching`) holds by arithmetic: two ports less than
  `NumOptical` apart do not meet modulo `NumOptical`, and an unfilled entry is no output;
* `EveryPairOnce` says of the complete schedule that port i is switched onto port j in
  exactly one slot;
* `TypeCorrect` and `StampsCorrect` (`StampsBracketTransit`) need the invariant
  `IInv == ScriptInv /\ FrameInv`. `ScriptInv` says which tables are partly filled at
  each call of a script: the two timestamp tables grow in step, and the timestamp script
  in `done` has its tables full. `FrameInv` ties a frame's place to its passes: a first pass
  starts at a port with an interface, later ones at ports between leaf and spine, which
  no timestamp entry names. The loop nests are shown to list ports of the right kind
  by division lemmas;
* `ElectricalCorrect` (`ElectricalDelivery`) adds `PathInv`, the ports a frame can be at
  after so many cables, and `EpsInv`, which says when the electrical table is complete.
  `EpsOrderComplete` is the other half of the argument: the three loop nests list every
  key of the way, at the position whose digits are the key's coordinates.

**FctMeasurementProofs**, for any flow size, number of flows and of stamp slots, clock width
and number of packets: all safety properties of the module.

* `TypeCorrect`, `StreamSegmented` (`Segmentation`), `RowsAreJustified` (`RowsJustified`),
  `FctIsTrueOrZero` (`FctTrueOrZero`), from `IInv == NetInv /\ RecvInv /\ SegInv`.

`NetInv` says that the stamps of a packet in the network lie between its first one and
now, and that packets got their first stamps in the order of their numbers. `RecvInv`
says of the flow being put together that it has the numbers from its first to its last
packet, and that no packet still under way with a higher number was first stamped before
its first: so the differences in a row are not negative, and `Elapsed` says when the
difference of the two cut readings is the true one. `SegInv` says that the rows and the
flow under way, one after the other, are the numbers read; only a packet that breaks
the last flow is in no row.

**HopvarFlowProofs**, for any senders, flows, packets per flow, slots and limits:

* `TypeCorrect`, `NothingMiscounted` (`PacketsAccounted`), `RowsCorrect` (`RowsTruthful`),
  `CompleteIfApart` (`ApartFlowHasRow`), from the `IInv` of `Invariance`.

`PacketsAccounted` is the heart of it: the entries of a flow in the table and its
rows add up
to the packets and bytes that were counted for it, repeated ones each time. To be
inductive it needs `SentBefore` (a
packet anywhere is one its sender has passed), without which a packet might be counted
twice. A row has a full count. If no packet was repeated, there are only as many to
count (`SinglesCount`), so all of them have arrived (`ArrivedCount`) and the sum leaves no
room for a second row. If one was, it may have taken the place of one that is
missing. `AtHome` is about flows with home slots of their own: no entry is
displaced and none refused, so no flow is split.

These two modules and `ClosFabricProofs` reason about sums and concatenations of any length.
The library's induction theorems take an operator as a parameter, which the provers
cannot instantiate. Its theorems that `<` on the naturals and strict inclusion of finite
sets are well-founded take none; `LeastElement`, `BoundedInduction` and
`SubsetInduction` are
derived from these and stated of sets, a property being the set of what has it. With them
the recursive functions behind `Among`, `FlattenSeq` and `SumFunction` are shown to exist
and to satisfy their equations.

**MeasTimestampsProofs**, for any number of requests, bursts, retries and repeated
datagrams: all safety properties of the module.

* `ShiftCorrect` (`ShiftedByLosses`) is not inductive. `StampInv` says that timestamps
  are taken in the order of sending, that the file and the error queue together have
  all that were taken and not lost, each in that order, and that the file has as many
  rows as timestamps. `HeadIsNext` is the step that counts: the head r of the queue is
  the least timestamp not in the file, so the file has those of `1..r-1` that were not
  lost, and the row r is written to is r less the losses before it. The test
  `Len(txRows) < sent` never drops one.
* `LossesCorrect` (`LossesCounted`) gives the bijection between the requests without a
  row and the rows of the join that stand for them.
* `TypeCorrect`.
* `SenderGetsOn` (`SenderAdvances`) and `ReceiverGetsOn` (`ReceiverAdvances`): see below.

**SpineLeafProofs**, for every set of files, every assignment of ports to leaves and
spines and every sequencer and replicas:

* `TypeCorrect`, `InterfaceCorrect` (`ReachesItsInterface`), `SequencedCorrect`
  (`OnlySequencedReachReplicas`), from `IInv == ValidFile /\ ScriptInv /\ FrameInv`:
  a finished script has found a port for the sequencer and every replica, a frame that
  is delivered is at the port its destination's entry names, and what the sequencer
  sends to the group never leaves its port as a unicast frame. Pairing is what keeps a
  frame that leaves a fabric port on a fabric port;
* `NothingLostOnATree` (`TreeDelivers`): `TreeInv` says at which ports of the tree a frame
  can be, and `TreeStep` that the complete tables lead from each of them to another. The
  property is false where a server is at a spine, which is why `OneTree` excludes it.

**Termination.** `SenderEnds`, `ReceiverEnds` and `SweepEnds` are liveness properties, which
the prover does not handle. Fairness only says that the program makes its
steps; that there are not many of them follows from a measure, and this is proved
(`SenderAdvances`, `ReceiverAdvances`, `SweepAdvances`; the runs check the liveness
properties
and `ReceiverAdvances`). `SenderAhead`, `ReceiverAhead` and `Ahead` are natural
numbers that each step of
the program makes smaller and no step of anything else makes larger, except a new start of
the sweep. From the initial states the sender makes at most `3 * Count + FinalRetry`
steps. For
the receiver a datagram outweighs the timeouts it takes back: `Coming` counts what can still
arrive, `ComingStep` says that what is sent or repeated is taken from it, and
`MoreRounds` is
the arithmetic. What is left to TLC is that a program that has not ended, and in the case of
the sweep does not wait for its client, can make a step.

Only model-checked:

* the liveness properties `EndsOrStuck`, `OpticalPairsMeet`, `SenderEnds`,
  `ReceiverEnds` and
  `SweepEnds`: the prover handles neither liveness under fairness nor `ENABLED`.
  `WindowExact`, `EveryPairOnce` with `MatchingTheorem`, and the three measures are what can
  be proved about them;
* the violated properties, which the runs refute.

No module uses a `RECURSIVE` operator.

## 6. Not modelled

* The vendored libraries spdlog and toml++ (`src/raft_lab/include/`). They are third-party
  code and more than nine tenths of the lines in the tree, so that the models cover a
  small share of all lines, but most of the lines of the programs they are about.
* The Raft server's consensus: it is the cornerstone library, which is not in the
  repository. What is there (`synraft-server.cpp`) has an empty `save_state` and
  `save_config` and a state machine that logs; whether a restarted server votes twice is
  decided by code that cannot be read here.
* The NOPaxos client, replicas and host sequencer: a submodule that is not in the tree.
* Background traffic (`background_gen.c`, `background_sink.c`): threads that send and
  count datagrams and share nothing but counters.
* Bring-up scripts (`host_setup.py`, `tofino_setup.py`, port scripts): sequences of shell
  commands and runtime calls without state of their own.
* Plotting tools and the older testbed under `experiments/`.
* In the modelled parts: formats of headers and files; MAC and IP rewriting; rates and
  real time; the statistics the tools compute from their tables.
* Packet-generator headers in `ClosFabric`: its pipeline only passes such frames on.

What a further step could take up: reruns with the same flow ids in `HopvarFlow`.
