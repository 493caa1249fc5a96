---------------------------- MODULE OumSequencer ----------------------------
(***************************************************************************)
(* The NOPaxos sequencer that runs in the Tofino switch                    *)
(* (infra/switch_tofino/p4src/nopaxos_tofino.p4), the script that programs *)
(* it while packets flow (bfrt_python/apply_nopaxos_tofino_sequencer.py)   *)
(* and the lossy, reordering, duplicating links around the switch.         *)
(*                                                                         *)
(* One action per packet the ingress pipeline handles, and one per runtime *)
(* call of the script, since the switch keeps forwarding between any two   *)
(* of them.                                                                *)
(***************************************************************************)
EXTENDS Naturals, Sequences, FiniteSets

CONSTANTS
  Ports,      \* device ports of the switch that hosts are cabled to
  Packets,    \* UDP packets hosts may send, see PacketType
  Configs,    \* topology files the script may be run on, see ConfigType
  NoPort,     \* a topology file without a nopaxos client
  MaxSeq,     \* bound: sequence numbers given out after one power-on
  MaxBoots,   \* bound: power-ons of the switch
  MaxRuns     \* bound: runs of the script

\* A packet as the match keys of the sequencer table see it: the port it
\* comes in on, its destination address, whether its UDP destination port is
\* UDP_PORT_NOPAXOS, whether its payload starts with NONFRAG_MAGIC, and the
\* group its OUM header names.
PacketType(pkt) ==
  /\ pkt.port \in Ports
  /\ pkt.nopaxosPort \in BOOLEAN
  /\ pkt.magic \in BOOLEAN

\* The nopaxos section of a topology file, ports resolved: the client's port
\* (NoPort when the file has no client), the group address, the replica ports.
ConfigType(c) ==
  /\ c.client \in Ports \union {NoPort}
  /\ c.replicas \in SUBSET Ports

ASSUME PacketAssumption == \A pkt \in Packets : PacketType(pkt)
ASSUME ConfigAssumption == \A c \in Configs : ConfigType(c)
ASSUME NoPortAssumption == NoPort \notin Ports
ASSUME BoundAssumption  == /\ MaxSeq \in Nat
                           /\ MaxBoots \in Nat \ {0}
                           /\ MaxRuns \in Nat

VARIABLES
  seqReg,     \* nopaxos_oum_seq_reg[0]
  entry,      \* t_nopaxos_tofino_sequencer: the set of its (at most one) entries
  node,       \* PRE node NODE_ID: the set of its (at most one) port sets
  mgid,       \* PRE group MGID: "none", "empty" or "attached" to the node
  step,       \* the script's next runtime call, "idle" between runs
  loaded,     \* the topology file of the current or last run
  runs,       \* number of runs started
  uplink,     \* packets sent by hosts and not lost on the way to the switch
  wire,       \* copies the switch has sent to replicas and not lost since
  received,   \* received[p]: stamped copies taken in by the host on port p
  log         \* history: for each power-on, the packets stamped, in order

switchVars == <<seqReg, entry, node, mgid>>
scriptVars == <<step, loaded, runs>>
netVars    == <<uplink, wire, received>>
vars == <<switchVars, scriptVars, netVars, log>>

boot == Len(log)

Steps == {"idle", "clear", "nodeDelete", "nodeAdd", "mgidDelete", "mgidAdd",
          "push"}

Stamp == [boot: 1..MaxBoots, seq: 1..MaxSeq, pkt: Packets]
Copy  == [boot: 1..MaxBoots, seq: 1..MaxSeq, pkt: Packets, to: Ports]

StampOf(c) == [boot |-> c.boot, seq |-> c.seq, pkt |-> c.pkt]

Init ==
  /\ seqReg = 0
  /\ entry = {}
  /\ node = {}
  /\ mgid = "none"
  /\ step = "idle"
  /\ loaded \in Configs
  /\ runs = 0
  /\ uplink = {}
  /\ wire = {}
  /\ received = [p \in Ports |-> {}]
  /\ log = << << >> >>

-----------------------------------------------------------------------------
(* The switch.                                                             *)

\* The parser extracts an OUM header from whatever follows a UDP header with
\* the NOPaxos destination port; nothing looks at the magic number.
OumValid(pkt) == pkt.nopaxosPort

\* The entry of t_nopaxos_tofino_sequencer that a packet hits.
Hits(pkt) ==
  {e \in entry : OumValid(pkt) /\ e.port = pkt.port /\ e.addr = pkt.addr}

\* The ports the replication engine copies a packet of the group to.
GroupPorts == IF mgid = "attached" THEN UNION node ELSE {}

\* Faulty: the register action returns the sum but does not write it back.
SequenceNoWriteBack(pkt) ==
  /\ pkt \in uplink
  /\ Hits(pkt) # {}
  /\ wire' = wire \union
       {[boot |-> boot, seq |-> seqReg + 1, pkt |-> pkt, to |-> p] :
          p \in GroupPorts}
  /\ log' = [log EXCEPT ![boot] = Append(@, pkt)]
  /\ UNCHANGED <<switchVars, scriptVars, uplink, received>>

\* Faulty: the register is bumped again on the way out, so numbers are skipped.
SequenceTwice(pkt) ==
  /\ pkt \in uplink
  /\ Hits(pkt) # {}
  /\ seqReg + 1 < MaxSeq
  /\ seqReg' = seqReg + 2
  /\ wire' = wire \union
       {[boot |-> boot, seq |-> seqReg + 2, pkt |-> pkt, to |-> p] :
          p \in GroupPorts}
  /\ log' = [log EXCEPT ![boot] = Append(@, pkt)]
  /\ UNCHANGED <<entry, node, mgid, scriptVars, uplink, received>>

\* A table hit: fetch-and-add on cell 0 whatever the packet's group, stamp
\* the header, multicast.  nopaxos_override ends the pipeline.
Sequence(pkt) ==
  /\ pkt \in uplink
  /\ Hits(pkt) # {}
  /\ seqReg < MaxSeq
  /\ seqReg' = seqReg + 1
  /\ wire' = wire \union
       {[boot |-> boot, seq |-> seqReg + 1, pkt |-> pkt, to |-> p] :
          p \in GroupPorts}
  /\ log' = [log EXCEPT ![boot] = Append(@, pkt)]
  /\ UNCHANGED <<entry, node, mgid, scriptVars, uplink, received>>

\* Power-cycle or restart of the switch driver: registers, tables and the
\* replication engine come up empty and a running script loses its session.
Restart ==
  /\ boot < MaxBoots
  /\ seqReg' = 0
  /\ entry' = {}
  /\ node' = {}
  /\ mgid' = "none"
  /\ step' = "idle"
  /\ log' = Append(log, << >>)
  /\ UNCHANGED <<loaded, runs, netVars>>

-----------------------------------------------------------------------------
(* The script, call by call.                                               *)

Start(c) ==
  /\ step = "idle"
  /\ runs < MaxRuns
  /\ loaded' = c
  /\ runs' = runs + 1
  /\ step' = "clear"
  /\ UNCHANGED <<switchVars, netVars, log>>

\* Faulty: the old entry stays while the engine is reprogrammed.
ClearNothing ==
  /\ step = "clear"
  /\ step' = IF loaded.client = NoPort THEN "idle" ELSE "nodeDelete"
  /\ UNCHANGED <<switchVars, loaded, runs, netVars, log>>

\* Faulty: a file without a client is not noticed.
ClearUnchecked ==
  /\ step = "clear"
  /\ entry' = {}
  /\ step' = "nodeDelete"
  /\ UNCHANGED <<seqReg, node, mgid, loaded, runs, netVars, log>>

\* The table is cleared before the topology is looked at; a file without a
\* client then ends the run with a KeyError.
Clear ==
  /\ step = "clear"
  /\ entry' = {}
  /\ step' = IF loaded.client = NoPort THEN "idle" ELSE "nodeDelete"
  /\ UNCHANGED <<seqReg, node, mgid, loaded, runs, netVars, log>>

\* The runtime may refuse to delete a node that its group still uses, or
\* detach it; a refusal is swallowed.
NodeDelete ==
  /\ step = "nodeDelete"
  /\ \/ /\ node' = {}
        /\ mgid' = IF mgid = "attached" THEN "empty" ELSE mgid
     \/ /\ mgid = "attached"
        /\ UNCHANGED <<node, mgid>>
  /\ step' = "nodeAdd"
  /\ UNCHANGED <<seqReg, entry, loaded, runs, netVars, log>>

\* Faulty: a refused addition is swallowed like a refused deletion.
NodeAddUnchecked ==
  /\ step = "nodeAdd"
  /\ node' = IF node = {} THEN {loaded.replicas} ELSE node
  /\ step' = "mgidDelete"
  /\ UNCHANGED <<seqReg, entry, mgid, loaded, runs, netVars, log>>

\* Adding a node that is still there raises, which ends the run.
NodeAdd ==
  /\ step = "nodeAdd"
  /\ IF node = {}
     THEN node' = {loaded.replicas} /\ step' = "mgidDelete"
     ELSE UNCHANGED node /\ step' = "idle"
  /\ UNCHANGED <<seqReg, entry, mgid, loaded, runs, netVars, log>>

MgidDelete ==
  /\ step = "mgidDelete"
  /\ mgid' = "none"
  /\ step' = "mgidAdd"
  /\ UNCHANGED <<seqReg, entry, node, loaded, runs, netVars, log>>

MgidAdd ==
  /\ step = "mgidAdd"
  /\ mgid' = "attached"
  /\ step' = "push"
  /\ UNCHANGED <<seqReg, entry, node, loaded, runs, netVars, log>>

Push ==
  /\ step = "push"
  /\ entry' = entry \union {[port |-> loaded.client, addr |-> loaded.addr]}
  /\ step' = "idle"
  /\ UNCHANGED <<seqReg, node, mgid, loaded, runs, netVars, log>>

\* A runtime call raises, or the operator interrupts the script: no call is
\* undone.
Abort ==
  /\ step # "idle"
  /\ step' = "idle"
  /\ UNCHANGED <<switchVars, loaded, runs, netVars, log>>

Script == (\E c \in Configs : Start(c)) \/ Clear \/ NodeDelete \/ NodeAdd
            \/ MgidDelete \/ MgidAdd \/ Push \/ Abort

-----------------------------------------------------------------------------
(* Hosts and links.  A packet on a link stays there until it is lost, so   *)
(* it may be handled late, out of order, and more than once.               *)

Send(pkt) ==
  /\ uplink' = uplink \union {pkt}
  /\ UNCHANGED <<switchVars, scriptVars, wire, received, log>>

LoseUplink(pkt) ==
  /\ pkt \in uplink
  /\ uplink' = uplink \ {pkt}
  /\ UNCHANGED <<switchVars, scriptVars, wire, received, log>>

LoseCopy(c) ==
  /\ c \in wire
  /\ wire' = wire \ {c}
  /\ UNCHANGED <<switchVars, scriptVars, uplink, received, log>>

Receive(c) ==
  /\ c \in wire
  /\ received' = [received EXCEPT ![c.to] = @ \union {StampOf(c)}]
  /\ UNCHANGED <<switchVars, scriptVars, uplink, wire, log>>

Next ==
  \/ \E pkt \in Packets : Send(pkt) \/ LoseUplink(pkt) \/ Sequence(pkt)
  \/ \E c \in wire : LoseCopy(c) \/ Receive(c)
  \/ Script
  \/ Restart

Spec == Init /\ [][Next]_vars
=============================================================================
