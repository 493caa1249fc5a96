------------------------------ MODULE SpineLeaf ------------------------------
(***************************************************************************)
(* The switch program p4src/spineleaf.p4, built for a host sequencer, with *)
(* the tables that bfrt_python/apply_nopaxos_from_yaml.py derives from a   *)
(* topology file that has passed validation.  The cables are those of the  *)
(* file.  The script fills one table per step; ClosFabric looks at the     *)
(* single entries.                                                         *)
(***************************************************************************)
EXTENDS TopologyChecks, Naturals, FiniteSets

CONSTANTS
  LeafOf,     \* LeafOf[p]: the leaf of port p, 0 for a port of a spine
  SpineOf,    \* SpineOf[p]: the spine of port p, 0 for a port of a leaf
  Sequencer,  \* the interface of the sequencer
  Replicas,   \* the interfaces of the replicas
  Group,      \* the group address
  Candidates  \* bound: the topology files

ASSUME StageAssumption ==
  /\ LeafOf \in [Ports -> Nat] /\ SpineOf \in [Ports -> Nat]
  /\ \A p \in Ports : LeafOf[p] = 0 <=> SpineOf[p] # 0
ASSUME RoleAssumption ==
  Sequencer \in Ifaces /\ Replicas \subseteq Ifaces /\ Replicas # {} /\ Group \notin Ifaces
ASSUME BoundAssumption == Candidates \subseteq TopologyType

VARIABLES
  topo,   \* the topology file
  step,   \* the table the script fills next; 6 once it is done
  failed, \* whether a call of the script has raised
  mode,   \* the mode in t_switch_cfg
  frame   \* the frame that is followed

vars == <<topo, step, failed, mode, frame>>

-----------------------------------------------------------------------------
(* The tables, from the file.                                              *)

PortOf(i)    == {p \in Ports : topo.conn[p] = i}
SeqPort      == CHOOSE p \in Ports : topo.conn[p] = Sequencer
ReplicaPorts == UNION {PortOf(i) : i \in Replicas}
PairLeaf(p)  == IF topo.pair[p] = Nothing THEN 0 ELSE LeafOf[topo.pair[p]]
PairSpine(p) == IF topo.pair[p] = Nothing THEN 0 ELSE SpineOf[topo.pair[p]]

\* t_port_role.  The leaf of a spine port is the one at the end of its cable.
Unknown == [kind |-> "K_UNKNOWN", leaf |-> 0, spine |-> 0]
RoleOf(p) ==
  IF step < 1 \/ topo.role[p] = "unused" THEN Unknown
  ELSE IF topo.role[p] = "server" THEN [kind |-> "K_LEAF_DOWNLINK", leaf |-> LeafOf[p], spine |-> 0]
  ELSE IF LeafOf[p] # 0 THEN [kind |-> "K_LEAF_UPLINK", leaf |-> LeafOf[p], spine |-> PairSpine(p)]
  ELSE [kind |-> "K_SPINE_PORT", leaf |-> PairLeaf(p), spine |-> SpineOf[p]]

\* t_dst_mac_classify, of the first interfaces of the endpoints; Ifaces are those.
DstOf(mac) ==
  IF step >= 3 /\ mac # Group /\ topo.tofinoPort[mac] # Nothing
  THEN [leaf |-> LeafOf[topo.tofinoPort[mac]], port |-> topo.tofinoPort[mac]]
  ELSE [leaf |-> 0, port |-> Nothing]

\* t_leaf_uplink_v1: the ports of a leaf that are paired with a spine.
Uplinks(l) == {p \in Fabric(topo) : LeafOf[p] = l /\ l # 0 /\ PairSpine(p) # 0}

\* t_spine_forward: the ports of spine s that are paired with leaf l.
SpinePorts(s, l) == {p \in Fabric(topo) : SpineOf[p] = s /\ l # 0 /\ PairLeaf(p) = l}

\* The one port in a set of ports to send to, if the table is filled.
OneOf(n, ps) == IF step >= n /\ ps # {} THEN CHOOSE p \in ps : TRUE ELSE Nothing

\* Whether filling table n raises: the key of an entry is there already, or
\* no switch port is connected to the sequencer or a replica.
Leaves  == {LeafOf[p] : p \in Ports} \ {0}
Spines  == {SpineOf[p] : p \in Ports} \ {0}
Raises(n) ==
  \/ n = 4 /\ \E l \in Leaves : Cardinality(Uplinks(l)) > 1
  \/ n = 5 /\ \E s \in Spines, l \in Leaves : Cardinality(SpinePorts(s, l)) > 1
  \/ n = 6 /\ \E i \in Replicas \union {Sequencer} : PortOf(i) = {}

-----------------------------------------------------------------------------
NoFrame == [state |-> "none", at |-> Nothing, src |-> Nothing, dst |-> Group, copies |-> {}, settled |-> FALSE]

\* Checked by scripts/topo_validate.py before it is used.
Init ==
  /\ topo \in {t \in Candidates : Valid(t)}
  /\ step = 0 /\ failed = FALSE /\ mode = "L2"
  /\ frame = NoFrame

\* Faulty: the mode is set before anything else.
ProgramModeFirst ==
  /\ step < 6 /\ ~failed
  /\ IF Raises(step + 1)
     THEN failed' = TRUE /\ UNCHANGED <<step, mode>>
     ELSE /\ step' = step + 1
          /\ mode' = "NOPAXOS"
          /\ UNCHANGED failed
  /\ UNCHANGED <<topo, frame>>

\* The functions of the script in the order of main: port roles, mode,
\* destinations, uplinks, spine ports, replication and requests.
Program ==
  /\ step < 6 /\ ~failed
  /\ IF Raises(step + 1)
     THEN failed' = TRUE /\ UNCHANGED <<step, mode>>
     ELSE /\ step' = step + 1
          /\ mode' = IF step' = 2 THEN "NOPAXOS" ELSE mode
          /\ UNCHANGED failed
  /\ UNCHANGED <<topo, frame>>

\* An endpoint sends a frame, to an interface or as a request to the group.
Send(p, dst) ==
  /\ frame.state # "flying"
  /\ p \in Servers(topo) /\ topo.conn[p] # dst
  /\ frame' = [NoFrame EXCEPT !.state = "flying", !.at = p, !.src = p, !.dst = dst,
                              !.settled = step = 6]
  /\ UNCHANGED <<topo, step, failed, mode>>

\* Forwarding by role and destination; what a table does not know is dropped.
ClosOut(p, mac) ==
  LET r == RoleOf(p)
      d == DstOf(mac)
  IN  IF d.leaf # 0 /\ d.leaf = r.leaf    THEN d.port
      ELSE IF r.kind = "K_LEAF_DOWNLINK"  THEN OneOf(4, Uplinks(r.leaf))
      ELSE IF r.kind = "K_SPINE_PORT"     THEN OneOf(5, SpinePorts(r.spine, d.leaf))
      ELSE IF r.kind = "K_LEAF_UPLINK"    THEN d.port
      ELSE Nothing

Switched(p, mac) ==
  IF mode = "L2" THEN IF mac = Group THEN Nothing ELSE topo.tofinoPort[mac]
                 ELSE ClosOut(p, mac)

\* What t_nopaxos_host_sequencer does with a frame that comes in by p: what the
\* sequencer sends to the group is multicast, other endpoints' requests get the
\* sequencer's port, but not nopaxos_override.
Pass == [override |-> FALSE, copies |-> {}, port |-> Nothing]
Filled(p, mac) == step = 6 /\ mac = Group /\ p \in Servers(topo)

\* Faulty: the sequencer is not told apart from the clients.
HostSequencerAny(p, mac) ==
  IF ~Filled(p, mac) THEN Pass ELSE [override |-> TRUE, copies |-> ReplicaPorts, port |-> Nothing]

HostSequencer(p, mac) ==
  IF ~Filled(p, mac) THEN Pass
  ELSE IF p = SeqPort THEN [override |-> TRUE, copies |-> ReplicaPorts, port |-> Nothing]
  ELSE [override |-> FALSE, copies |-> {}, port |-> SeqPort]

\* The port a frame leaves by.  Without the override the forwarding decision
\* that follows replaces the sequencer's port.
Out(p, mac) ==
  IF HostSequencer(p, mac).override THEN HostSequencer(p, mac).port ELSE Switched(p, mac)

\* One pass through the pipeline, and the cable behind it.
Forward ==
  /\ frame.state = "flying"
  /\ LET copies == HostSequencer(frame.at, frame.dst).copies
         q      == Out(frame.at, frame.dst)
     IN  \/ /\ copies # {}
            /\ frame' = [frame EXCEPT !.state = "multicast", !.copies = copies]
         \/ /\ copies = {} /\ q = Nothing
            /\ frame' = [frame EXCEPT !.state = "dropped"]
         \/ /\ q \in Servers(topo)
            /\ frame' = [frame EXCEPT !.state = "delivered", !.at = q]
         \/ /\ q \in Fabric(topo)
            /\ frame' = [frame EXCEPT !.at = topo.pair[q]]
  /\ UNCHANGED <<topo, step, failed, mode>>

Next ==
  \/ Program
  \/ \E p \in Ports, dst \in Ifaces \union {Group} : Send(p, dst)
  \/ Forward

Spec == Init /\ [][Next]_vars

-----------------------------------------------------------------------------
(* Properties.                                                             *)

\* Type invariant.
TypeOK ==
  /\ topo \in TopologyType /\ step \in 0..6 /\ failed \in BOOLEAN
  /\ mode \in {"L2", "NOPAXOS"} /\ (mode = "NOPAXOS" <=> step >= 2)
  /\ frame.state \in {"none", "flying", "dropped", "delivered", "multicast"}
  /\ frame.at \in Ports \union {Nothing} /\ frame.src \in Ports \union {Nothing}
  /\ frame.state = "flying" => topo.role[frame.at] \in {"server", "fabric"}
  /\ frame.dst \in Ifaces \union {Group}
  /\ frame.copies \subseteq Ports /\ frame.settled \in BOOLEAN

\* The server ports that are connected to an interface.
ServerOf(i) == {p \in Servers(topo) : topo.conn[p] = i}

\* A frame to an interface that some server port is connected to is delivered at that
\* port and no other, whichever tables are filled and in L2 mode: what the
\* file says of the endpoints and what it says of the ports cannot differ there
\* (validate.py:96-113, apply_nopaxos_from_yaml.py:236-256).
ReachesItsInterface ==
  frame.state = "delivered" /\ ServerOf(frame.dst) # {} => ServerOf(frame.dst) = {frame.at}

\* Every leaf has one cable to a spine, and all to the same one; servers are at
\* leaves, which validation does not ask for.
OneTree ==
  /\ \E s \in Spines : \A l \in Leaves : {PairSpine(p) : p \in Uplinks(l)} = {s}
  /\ \A p \in Servers(topo) : LeafOf[p] # 0

\* Once the script is done, a frame between two endpoints of a tree is not lost,
\* to whichever port of the spine a leaf is cabled: the spine's table follows the
\* cables (apply_nopaxos_from_yaml.py:288-314).
TreeDelivers ==
  frame.settled /\ OneTree /\ ServerOf(frame.dst) # {} => frame.state # "dropped"

\* What validate.py:40-42 asks for and does not check.
OnlyServersConnected == \A p \in Ports : topo.conn[p] # Nothing => p \in Servers(topo)

\* No request that the sequencer has not seen reaches a replica, what it sends
\* reaches all of them, and what it sends is never lost, provided only server
\* ports have a connection (spineleaf.p4:331-340,
\* apply_nopaxos_from_yaml.py:319-426).
OnlySequencedReachReplicas ==
  OnlyServersConnected =>
    /\ frame.state = "multicast" =>
         /\ frame.src \in ServerOf(Sequencer)
         /\ frame.copies = {topo.tofinoPort[i] : i \in Replicas}
    /\ frame.state = "delivered" /\ frame.dst = Group => frame.at \in ServerOf(Sequencer)
    /\ frame.settled /\ frame.dst = Group /\ frame.src \in ServerOf(Sequencer) => frame.state # "dropped"
=============================================================================
