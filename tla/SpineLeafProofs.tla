--------------------------- MODULE SpineLeafProofs ---------------------------
(***************************************************************************)
(* Theorems about SpineLeaf, for every set of ports, interfaces and        *)
(* topology files.                                                         *)
(***************************************************************************)
EXTENDS SpineLeaf, TLAPS

-----------------------------------------------------------------------------
(* What validation gives.                                                  *)

ValidFile == topo \in TopologyType /\ Valid(topo)

\* Two server ports of a valid file are never connected to one interface, and
\* an interface that has a server port names it.
LEMMA OnePortPerInterface ==
  ASSUME ValidFile, NEW i, NEW p \in ServerOf(i)
  PROVE  i \in Ifaces /\ topo.tofinoPort[i] = p /\ ServerOf(i) = {p}
<1>1. \A q \in ServerOf(i) : i \in Ifaces /\ topo.tofinoPort[i] = q
  <2> TAKE q \in ServerOf(i)
  <2>1. q \in Ports /\ q \in Servers(topo) /\ topo.conn[q] = i
    BY DEF ServerOf, Servers
  <2>2. topo.conn[q] # Nothing /\ topo.tofinoPort[topo.conn[q]] = q
    BY <2>1 DEF ValidFile, Valid, ServersConnected, MappedBack
  <2>3. topo.conn[q] \in Ifaces \union {Nothing}
    BY <2>1 DEF ValidFile, TopologyType
  <2> QED BY <2>1, <2>2, <2>3
<1> QED BY <1>1

\* If only server ports have a connection, the script looks up the right port.
LEMMA PortsOfServers ==
  ASSUME OnlyServersConnected, NEW i \in Ifaces
  PROVE  PortOf(i) = ServerOf(i)
<1>1. \A p \in Ports : topo.conn[p] = i => p \in Servers(topo)
  BY NothingAssumption DEF OnlyServersConnected
<1> QED BY <1>1 DEF PortOf, ServerOf, Servers

\* The forwarding decision never names a server port but that of the address.
LEMMA OutputServer ==
  ASSUME ValidFile, NEW p, NEW mac \in Ifaces \union {Group}, Out(p, mac) \in Servers(topo)
  PROVE  mac \in Ifaces /\ Out(p, mac) = topo.tofinoPort[mac]
<1>1. Nothing \notin Servers(topo)
  BY NothingAssumption DEF Servers
<1>2. \A n, ps : ps \subseteq Fabric(topo) => OneOf(n, ps) \notin Servers(topo)
  <2> TAKE n, ps
  <2> HAVE ps \subseteq Fabric(topo)
  <2>1. ps # {} => (CHOOSE q \in ps : TRUE) \in ps
    OBVIOUS
  <2>2. \A q \in Fabric(topo) : q \notin Servers(topo)
    BY DEF Fabric, Servers
  <2> QED BY <1>1, <2>1, <2>2 DEF OneOf
<1>3. HostSequencer(p, mac).override => HostSequencer(p, mac).port = Nothing
  BY DEF HostSequencer, Pass
<1>4. Out(p, mac) = Switched(p, mac)
  BY <1>1, <1>3 DEF Out
<1>5. ASSUME ClosOut(p, mac) \in Servers(topo)
      PROVE  ClosOut(p, mac) = DstOf(mac).port
  <2>1. OneOf(4, Uplinks(RoleOf(p).leaf)) \notin Servers(topo)
    BY <1>2 DEF Uplinks
  <2>2. OneOf(5, SpinePorts(RoleOf(p).spine, DstOf(mac).leaf)) \notin Servers(topo)
    BY <1>2 DEF SpinePorts
  <2> QED BY <1>1, <1>5, <2>1, <2>2 DEF ClosOut
<1>6. DstOf(mac).port \in Servers(topo) => mac # Group /\ DstOf(mac).port = topo.tofinoPort[mac]
  BY <1>1 DEF DstOf
<1>7. CASE mode = "L2"
  BY <1>1, <1>4, <1>7 DEF Switched
<1>8. CASE mode # "L2"
  BY <1>4, <1>5, <1>6, <1>8 DEF Switched
<1> QED BY <1>7, <1>8

-----------------------------------------------------------------------------
(* The inductive invariant.                                                *)

Frames ==
  [state : {"none", "flying", "dropped", "delivered", "multicast"}, at : Ports \union {Nothing},
   src : Ports \union {Nothing}, dst : Ifaces \union {Group}, copies : SUBSET Ports,
   settled : BOOLEAN]

\* The script's progress; when it is done it has found the sequencer and the
\* replicas.
ScriptInv ==
  /\ step \in 0..6 /\ failed \in BOOLEAN
  /\ mode \in {"L2", "NOPAXOS"} /\ (mode = "NOPAXOS" <=> step >= 2)
  /\ step = 6 => \A i \in Replicas \union {Sequencer} : PortOf(i) # {}

\* A frame is at a server port at its source only, and what the sequencer sends
\* to the group does not get further.
FrameInv ==
  /\ frame \in Frames
  /\ frame.settled => step = 6
  /\ frame.state = "flying" => frame.at \in Servers(topo) \union Fabric(topo)
  /\ frame.state = "flying" /\ frame.at \in Servers(topo) => frame.at = frame.src
  /\ frame.state = "delivered" => frame.dst \in Ifaces /\ frame.at = topo.tofinoPort[frame.dst]
  /\ frame.state = "multicast" =>
       /\ step = 6 /\ frame.copies = ReplicaPorts
       /\ frame.src = SeqPort /\ frame.src \in Servers(topo)
  /\ OnlyServersConnected /\ frame.settled /\ frame.dst = Group /\ frame.src \in ServerOf(Sequencer) =>
       /\ frame.state # "dropped"
       /\ frame.state = "flying" => frame.at = frame.src

IInv == ValidFile /\ ScriptInv /\ FrameInv

LEMMA InitInv == Init => IInv
<1> SUFFICES ASSUME Init PROVE IInv
  OBVIOUS
<1>1. ValidFile
  BY BoundAssumption DEF Init, ValidFile
<1>2. ScriptInv
  <2>1. step = 0 /\ failed = FALSE /\ mode = "L2"
    BY DEF Init
  <2>2. step \in 0..6 /\ ~(step >= 2) /\ step # 6
    BY <2>1
  <2>3. mode \in {"L2", "NOPAXOS"} /\ mode # "NOPAXOS"
    BY <2>1
  <2>4. failed \in BOOLEAN
    BY <2>1
  <2> QED BY <2>2, <2>3, <2>4, Zenon DEF ScriptInv
<1>3. FrameInv
  BY DEF Init, FrameInv, NoFrame, Frames
<1> QED BY <1>1, <1>2, <1>3 DEF IInv

\* Once the script is done it multicasts from the sequencer's port, to all
\* replicas.
LEMMA SequencerPort ==
  ASSUME ScriptInv, step = 6
  PROVE  /\ SeqPort \in PortOf(Sequencer)
         /\ ReplicaPorts # {} /\ ReplicaPorts \subseteq Ports
         /\ OnlyServersConnected /\ ValidFile =>
              ServerOf(Sequencer) = {SeqPort} /\ ReplicaPorts = {topo.tofinoPort[i] : i \in Replicas}
<1>1. \A i \in Replicas \union {Sequencer} : PortOf(i) # {} /\ i \in Ifaces
  BY RoleAssumption DEF ScriptInv
<1>2. SeqPort \in PortOf(Sequencer)
  BY <1>1 DEF SeqPort, PortOf
<1>3. ReplicaPorts # {} /\ ReplicaPorts \subseteq Ports
  BY <1>1, RoleAssumption DEF ReplicaPorts, PortOf
<1>4. ASSUME OnlyServersConnected, ValidFile
      PROVE  ServerOf(Sequencer) = {SeqPort} /\ ReplicaPorts = {topo.tofinoPort[i] : i \in Replicas}
  <2>1. \A i \in Replicas \union {Sequencer} : PortOf(i) = {topo.tofinoPort[i]} /\ PortOf(i) = ServerOf(i)
    <3> TAKE i \in Replicas \union {Sequencer}
    <3>1. PortOf(i) = ServerOf(i) /\ PortOf(i) # {}
      BY <1>1, <1>4, PortsOfServers
    <3>2. PICK p \in ServerOf(i) : TRUE
      BY <3>1
    <3> QED BY <1>4, <3>1, <3>2, OnePortPerInterface
  <2>2. ServerOf(Sequencer) = {SeqPort}
    BY <1>2, <2>1
  <2>3. ReplicaPorts = UNION {{topo.tofinoPort[i]} : i \in Replicas}
    BY <2>1 DEF ReplicaPorts
  <2>4. UNION {{topo.tofinoPort[i]} : i \in Replicas} = {topo.tofinoPort[i] : i \in Replicas}
    OBVIOUS
  <2> QED BY <2>2, <2>3, <2>4
<1> QED BY <1>2, <1>3, <1>4

\* The ports at which a frame to dst can be in a tree: servers, the ports of its
\* spine, and fabric ports of the leaf of dst.
TreePorts(dst) ==
  Servers(topo) \union
  {p \in Fabric(topo) :
     \/ LeafOf[p] = LeafOf[topo.tofinoPort[dst]]
     \/ SpineOf[p] # 0 /\ \A l \in Leaves : {PairSpine(u) : u \in Uplinks(l)} = {SpineOf[p]}}

\* A frame between two endpoints of a tree stays on the tree until it arrives.
TreeInv ==
  frame.settled /\ OneTree /\ ServerOf(frame.dst) # {} =>
    /\ frame.state # "dropped"
    /\ frame.state = "flying" => frame.at \in TreePorts(frame.dst)

\* What the complete tables do with a frame on a tree.  From a server it goes up by
\* the leaf's cable, from the spine down by the cable to the leaf of dst, and there
\* to the port of dst.
LEMMA TreeStep ==
  ASSUME ValidFile, step = 6, mode # "L2", OneTree,
         NEW dst, ServerOf(dst) # {}, NEW p \in TreePorts(dst)
  PROVE  /\ HostSequencer(p, dst).copies = {}
         /\ Out(p, dst) # Nothing
         /\ Out(p, dst) \in Fabric(topo) => topo.pair[Out(p, dst)] \in TreePorts(dst)
<1> DEFINE D == topo.tofinoPort[dst]
<1>1. dst \in Ifaces /\ D \in Servers(topo) /\ D \in ServerOf(dst)
  <2>1. PICK d \in ServerOf(dst) : TRUE
    OBVIOUS
  <2>2. dst \in Ifaces /\ topo.tofinoPort[dst] = d
    BY <2>1, OnePortPerInterface
  <2> QED BY <2>1, <2>2 DEF ServerOf
<1>2. dst # Group
  BY <1>1, RoleAssumption
<1>3. D \in Ports /\ D # Nothing /\ D \notin Fabric(topo)
  BY <1>1, NothingAssumption DEF Servers, Fabric
<1>4. LeafOf[D] # 0 /\ LeafOf[D] \in Leaves
  BY <1>1, <1>3 DEF OneTree, Leaves
<1>5. HostSequencer(p, dst) = Pass
  BY <1>2 DEF HostSequencer, Filled
<1>6. Out(p, dst) = ClosOut(p, dst)
  BY <1>5 DEF Out, Pass, Switched
<1>7. DstOf(dst) = [leaf |-> LeafOf[D], port |-> D]
  BY <1>2, <1>3 DEF DstOf
<1>8. Nothing \notin Fabric(topo)
  BY NothingAssumption DEF Fabric
<1>9. ASSUME NEW u \in Fabric(topo)
      PROVE  /\ u \in Ports /\ topo.pair[u] \in Fabric(topo) /\ topo.pair[u] \in Ports
             /\ topo.pair[topo.pair[u]] = u
             /\ PairSpine(u) = SpineOf[topo.pair[u]] /\ PairLeaf(u) = LeafOf[topo.pair[u]]
  <2>1. u \in Ports /\ topo.pair[u] \in Fabric(topo) /\ topo.pair[topo.pair[u]] = u
    BY DEF ValidFile, Valid, PairingSymmetric, Fabric
  <2>2. topo.pair[u] \in Ports /\ topo.pair[u] # Nothing
    BY <2>1, <1>8 DEF Fabric
  <2> QED BY <2>1, <2>2 DEF PairSpine, PairLeaf
<1> HIDE DEF D
<1>10. SUFFICES /\ ClosOut(p, dst) # Nothing
                /\ ClosOut(p, dst) \in Fabric(topo) => topo.pair[ClosOut(p, dst)] \in TreePorts(dst)
  BY <1>5, <1>6 DEF Pass
<1>11. CASE RoleOf(p).leaf = LeafOf[D]
  <2>1. ClosOut(p, dst) = D
    BY <1>4, <1>7, <1>11 DEF ClosOut
  <2> QED BY <2>1, <1>3
<1>12. CASE RoleOf(p).leaf # LeafOf[D] /\ p \in Servers(topo)
  <2>1. p \in Ports /\ LeafOf[p] # 0 /\ LeafOf[p] \in Leaves
    BY <1>12 DEF OneTree, Leaves, Servers
  <2>2. RoleOf(p) = [kind |-> "K_LEAF_DOWNLINK", leaf |-> LeafOf[p], spine |-> 0]
    BY <1>12 DEF RoleOf, Servers
  <2>3. ClosOut(p, dst) = OneOf(4, Uplinks(LeafOf[p]))
    BY <1>7, <1>12, <2>2 DEF ClosOut
  <2>4. PICK s \in Spines : \A l \in Leaves : {PairSpine(u) : u \in Uplinks(l)} = {s}
    BY DEF OneTree
  <2>5. Uplinks(LeafOf[p]) # {}
    BY <2>1, <2>4
  <2> DEFINE up == CHOOSE u \in Uplinks(LeafOf[p]) : TRUE
  <2>6. up \in Uplinks(LeafOf[p]) /\ ClosOut(p, dst) = up
    BY <2>3, <2>5 DEF OneOf
  <2> HIDE DEF up
  <2>7. up \in Fabric(topo) /\ PairSpine(up) = s /\ s # 0
    BY <2>1, <2>4, <2>6 DEF Uplinks
  <2>8. topo.pair[up] \in Fabric(topo) /\ SpineOf[topo.pair[up]] = s
    BY <1>9, <2>7
  <2>9. topo.pair[up] \in TreePorts(dst)
    BY <2>4, <2>7, <2>8 DEF TreePorts
  <2> QED BY <1>8, <2>6, <2>7, <2>9
<1>13. CASE RoleOf(p).leaf # LeafOf[D] /\ p \notin Servers(topo)
  <2>1. p \in Fabric(topo) /\ p \in Ports
    BY <1>13 DEF TreePorts, Fabric
  <2>2. LeafOf[p] # LeafOf[D]
    <3>1. LeafOf[p] # 0 => RoleOf(p).leaf = LeafOf[p]
      BY <2>1 DEF RoleOf, Fabric
    <3> QED BY <1>4, <1>13, <3>1
  <2>3. SpineOf[p] # 0 /\ \A l \in Leaves : {PairSpine(u) : u \in Uplinks(l)} = {SpineOf[p]}
    BY <1>13, <2>1, <2>2 DEF TreePorts, D
  <2>4. LeafOf[p] = 0
    BY <2>1, <2>3, StageAssumption
  <2>5. RoleOf(p) = [kind |-> "K_SPINE_PORT", leaf |-> PairLeaf(p), spine |-> SpineOf[p]]
    BY <2>1, <2>4 DEF RoleOf, Fabric
  <2>6. ClosOut(p, dst) = OneOf(5, SpinePorts(SpineOf[p], LeafOf[D]))
    BY <1>7, <1>13, <2>5 DEF ClosOut
  <2>7. PICK u \in Uplinks(LeafOf[D]) : PairSpine(u) = SpineOf[p]
    BY <1>4, <2>3
  <2>8. u \in Fabric(topo) /\ LeafOf[u] = LeafOf[D]
    BY <2>7 DEF Uplinks
  <2>9. topo.pair[u] \in SpinePorts(SpineOf[p], LeafOf[D])
    <3>1. /\ topo.pair[u] \in Fabric(topo) /\ topo.pair[topo.pair[u]] = u
          /\ SpineOf[topo.pair[u]] = SpineOf[p]
      BY <1>9, <2>7, <2>8
    <3>2. PairLeaf(topo.pair[u]) = LeafOf[u]
      BY <1>9, <3>1
    <3> QED BY <1>4, <2>8, <3>1, <3>2 DEF SpinePorts
  <2> DEFINE down == CHOOSE q \in SpinePorts(SpineOf[p], LeafOf[D]) : TRUE
  <2>10. down \in SpinePorts(SpineOf[p], LeafOf[D]) /\ ClosOut(p, dst) = down
    BY <2>6, <2>9 DEF OneOf
  <2> HIDE DEF down
  <2>11. down \in Fabric(topo) /\ PairLeaf(down) = LeafOf[D]
    BY <2>10 DEF SpinePorts
  <2>12. topo.pair[down] \in Fabric(topo) /\ LeafOf[topo.pair[down]] = LeafOf[D]
    BY <1>9, <2>11
  <2>13. topo.pair[down] \in TreePorts(dst)
    BY <2>12 DEF TreePorts, D
  <2> QED BY <1>8, <2>10, <2>11, <2>13
<1> QED BY <1>11, <1>12, <1>13

LEMMA TreeInvInit == Init => TreeInv
BY DEF Init, NoFrame, TreeInv

LEMMA TreeInvStep == IInv /\ TreeInv /\ [Next]_vars => TreeInv'
<1> SUFFICES ASSUME IInv, TreeInv, [Next]_vars PROVE TreeInv'
  OBVIOUS
<1>1. topo' = topo
  BY DEF Next, Program, Send, Forward, vars
<1>2. /\ OneTree' = OneTree /\ \A i : ServerOf(i)' = ServerOf(i)
      /\ \A i : TreePorts(i)' = TreePorts(i)
  BY <1>1 DEF OneTree, ServerOf, TreePorts, Servers, Fabric, Uplinks, PairSpine
<1>3. CASE frame' = frame
  BY <1>2, <1>3 DEF TreeInv
<1>4. ASSUME NEW p \in Ports, NEW dst \in Ifaces \union {Group}, Send(p, dst) PROVE TreeInv'
  <2>1. frame'.state = "flying" /\ frame'.at = p /\ p \in Servers(topo)
    BY <1>4 DEF Send, NoFrame
  <2> QED BY <1>1, <2>1 DEF TreeInv, TreePorts, Servers
<1>5. CASE Forward
  <2> DEFINE copies == HostSequencer(frame.at, frame.dst).copies
             q      == Out(frame.at, frame.dst)
  <2>1. /\ frame.state = "flying"
        /\ \/ copies # {} /\ frame' = [frame EXCEPT !.state = "multicast", !.copies = copies]
           \/ copies = {} /\ q = Nothing /\ frame' = [frame EXCEPT !.state = "dropped"]
           \/ q \in Servers(topo) /\ frame' = [frame EXCEPT !.state = "delivered", !.at = q]
           \/ q \in Fabric(topo) /\ frame' = [frame EXCEPT !.at = topo.pair[q]]
    BY <1>5 DEF Forward
  <2>2. frame \in Frames
    BY DEF IInv, FrameInv
  <2>3. frame'.settled = frame.settled /\ frame'.dst = frame.dst
    BY <2>1, <2>2 DEF Frames
  <2>4. SUFFICES ASSUME frame.settled, OneTree, ServerOf(frame.dst) # {}
                 PROVE  /\ frame'.state # "dropped"
                        /\ frame'.state = "flying" => frame'.at \in TreePorts(frame.dst)
    BY <1>2, <2>3 DEF TreeInv
  <2>5. copies = {} /\ q # Nothing /\ (q \in Fabric(topo) => topo.pair[q] \in TreePorts(frame.dst))
    <3>1. step = 6 /\ mode # "L2"
      BY <2>4 DEF IInv, FrameInv, ScriptInv
    <3>2. frame.at \in TreePorts(frame.dst)
      BY <2>1, <2>4 DEF TreeInv
    <3> QED BY <2>4, <3>1, <3>2, TreeStep DEF IInv
  <2> HIDE DEF copies, q
  <2>6. CASE q \in Servers(topo) /\ frame' = [frame EXCEPT !.state = "delivered", !.at = q]
    BY <2>2, <2>6 DEF Frames
  <2>7. CASE q \in Fabric(topo) /\ frame' = [frame EXCEPT !.at = topo.pair[q]]
    BY <2>1, <2>2, <2>5, <2>7 DEF Frames
  <2> QED BY <2>1, <2>5, <2>6, <2>7
<1> QED BY <1>3, <1>4, <1>5 DEF Next, Program, vars

LEMMA StepInv == IInv /\ [Next]_vars => IInv'
<1> SUFFICES ASSUME IInv, [Next]_vars PROVE IInv'
  OBVIOUS
<1> USE DEF IInv
<1>0. topo' = topo
  BY DEF Next, Program, Send, Forward, vars
<1>1. ValidFile'
  BY <1>0 DEF ValidFile
<1>2. CASE Program
  <2>1. step' \in 0..6 /\ step <= step' /\ UNCHANGED frame /\ step # 6
    BY <1>2 DEF Program, ScriptInv
  <2>2. ScriptInv'
    <3>1. CASE Raises(step + 1)
      BY <1>0, <1>2, <3>1 DEF Program, ScriptInv, PortOf
    <3>2. CASE ~Raises(step + 1)
      <4>1. step' = step + 1 /\ mode' = (IF step' = 2 THEN "NOPAXOS" ELSE mode) /\ failed' = failed
        BY <1>2, <3>2 DEF Program
      <4>2. step' = 6 => \A i \in Replicas \union {Sequencer} : PortOf(i)' # {}
        BY <1>0, <3>2, <4>1 DEF Raises, PortOf
      <4> QED BY <2>1, <4>1, <4>2 DEF ScriptInv
    <3> QED BY <3>1, <3>2
  <2>3. FrameInv'
    BY <1>0, <2>1 DEF FrameInv, ScriptInv, ReplicaPorts, SeqPort, PortOf, ServerOf, OnlyServersConnected
  <2> QED BY <1>1, <2>2, <2>3
<1>3. ASSUME NEW p \in Ports, NEW dst \in Ifaces \union {Group}, Send(p, dst) PROVE IInv'
  <2>1. /\ frame' = [state |-> "flying", at |-> p, src |-> p, dst |-> dst, copies |-> {}, settled |-> step = 6]
        /\ p \in Servers(topo) /\ UNCHANGED <<topo, step, failed, mode>>
    BY <1>3 DEF Send, NoFrame
  <2>2. ScriptInv'
    BY <2>1 DEF ScriptInv, PortOf
  <2>3. frame' \in Frames
    BY <2>1 DEF Frames
  <2>4. FrameInv'
    BY <2>1, <2>3 DEF FrameInv
  <2> QED BY <1>1, <2>2, <2>4
<1>4. CASE Forward
  <2> DEFINE copies == HostSequencer(frame.at, frame.dst).copies
             q      == Out(frame.at, frame.dst)
  <2>1. /\ frame.state = "flying" /\ UNCHANGED <<topo, step, failed, mode>>
        /\ \/ copies # {} /\ frame' = [frame EXCEPT !.state = "multicast", !.copies = copies]
           \/ copies = {} /\ q = Nothing /\ frame' = [frame EXCEPT !.state = "dropped"]
           \/ q \in Servers(topo) /\ frame' = [frame EXCEPT !.state = "delivered", !.at = q]
           \/ q \in Fabric(topo) /\ frame' = [frame EXCEPT !.at = topo.pair[q]]
    BY <1>4 DEF Forward
  <2>2. ScriptInv'
    BY <2>1 DEF ScriptInv, PortOf
  <2>3. frame \in Frames
    BY DEF FrameInv
  <2>4. ReplicaPorts' = ReplicaPorts /\ SeqPort' = SeqPort /\ ServerOf(Sequencer)' = ServerOf(Sequencer)
        /\ OnlyServersConnected' = OnlyServersConnected
    BY <1>0 DEF ReplicaPorts, SeqPort, PortOf, ServerOf, OnlyServersConnected
  <2>5. copies # {} => /\ step = 6 /\ copies = ReplicaPorts
                       /\ frame.at = SeqPort /\ frame.at \in Servers(topo)
    BY DEF HostSequencer, Pass, Filled
  <2>6. ASSUME OnlyServersConnected, frame.settled, frame.dst = Group, frame.src \in ServerOf(Sequencer)
        PROVE  copies # {} /\ q = Nothing
    <3>1. frame.at = frame.src /\ step = 6
      BY <2>1, <2>6 DEF FrameInv
    <3>2. frame.at = SeqPort /\ ReplicaPorts # {}
      BY <2>6, <3>1, SequencerPort
    <3>3. Filled(frame.at, frame.dst)
      BY <2>6, <3>1 DEF Filled, ServerOf
    <3>4. HostSequencer(frame.at, frame.dst) = [override |-> TRUE, copies |-> ReplicaPorts, port |-> Nothing]
      BY <3>2, <3>3 DEF HostSequencer
    <3> QED BY <3>2, <3>4 DEF Out
  <2>7. Nothing \notin Servers(topo) /\ Nothing \notin Fabric(topo)
    BY NothingAssumption DEF Servers, Fabric
  <2>8. CASE copies # {} /\ frame' = [frame EXCEPT !.state = "multicast", !.copies = copies]
    <3>1. frame.at = frame.src
      BY <2>1, <2>5, <2>8 DEF FrameInv
    <3>2. copies \subseteq Ports
      BY <2>5, <2>8, SequencerPort
    <3> HIDE DEF copies, q
    <3>3. frame' \in Frames
      BY <2>3, <2>8, <3>2 DEF Frames
    <3>4. FrameInv'
      BY <2>1, <2>3, <2>4, <2>5, <2>8, <3>1, <3>3 DEF FrameInv, Frames
    <3> QED BY <1>1, <2>2, <3>4
  <2>9. CASE copies = {} /\ q = Nothing /\ frame' = [frame EXCEPT !.state = "dropped"]
    <3> HIDE DEF copies, q
    <3>1. frame' \in Frames
      BY <2>3, <2>9 DEF Frames
    <3>2. FrameInv'
      BY <2>1, <2>3, <2>4, <2>6, <2>9, <3>1 DEF FrameInv, Frames
    <3> QED BY <1>1, <2>2, <3>2
  <2>10. CASE q \in Servers(topo) /\ frame' = [frame EXCEPT !.state = "delivered", !.at = q]
    <3>1. frame.dst \in Ifaces /\ q = topo.tofinoPort[frame.dst]
      BY <2>3, <2>10, OutputServer DEF Frames
    <3> HIDE DEF copies, q
    <3>2. frame' \in Frames
      BY <2>3, <2>10 DEF Frames, Servers
    <3>3. FrameInv'
      BY <2>1, <2>3, <2>4, <2>6, <2>7, <2>10, <3>1, <3>2 DEF FrameInv, Frames
    <3> QED BY <1>1, <2>2, <3>3
  <2>11. CASE q \in Fabric(topo) /\ frame' = [frame EXCEPT !.at = topo.pair[q]]
    <3>1. topo.pair[q] \in Fabric(topo)
      BY <2>11 DEF ValidFile, Valid, PairingSymmetric
    <3>2. topo.pair[q] \in Ports /\ topo.pair[q] \notin Servers(topo)
      BY <3>1 DEF Fabric, Servers
    <3> HIDE DEF copies, q
    <3>3. frame' \in Frames
      BY <2>3, <2>11, <3>2 DEF Frames
    <3>4. FrameInv'
      BY <2>1, <2>3, <2>4, <2>6, <2>7, <2>11, <3>1, <3>2, <3>3 DEF FrameInv, Frames
    <3> QED BY <1>1, <2>2, <3>4
  <2> QED BY <2>1, <2>8, <2>9, <2>10, <2>11
<1>5. CASE UNCHANGED vars
  <2>1. UNCHANGED <<topo, step, failed, mode, frame>>
    BY <1>5 DEF vars
  <2> QED BY <1>1, <2>1 DEF ScriptInv, FrameInv, ReplicaPorts, SeqPort, PortOf, ServerOf, OnlyServersConnected
<1> QED BY <1>2, <1>3, <1>4, <1>5 DEF Next

LEMMA IInvHolds == Spec => []IInv
BY InitInv, StepInv, PTL DEF Spec

-----------------------------------------------------------------------------
(* The properties of the run.                                              *)

\* The type invariant.
THEOREM TypeCorrect == Spec => []TypeOK
<1>1. IInv => TypeOK
  <2> SUFFICES ASSUME IInv PROVE TypeOK
    OBVIOUS
  <2>1. frame.state = "flying" => topo.role[frame.at] \in {"server", "fabric"}
    BY DEF IInv, FrameInv, Servers, Fabric
  <2> QED BY <2>1 DEF TypeOK, IInv, ValidFile, ScriptInv, FrameInv, Frames
<1> QED BY <1>1, IInvHolds, PTL

\* For every file that passes validation, a frame is delivered at the one server
\* port that is connected to its destination, if there is one.
THEOREM InterfaceCorrect == Spec => []ReachesItsInterface
<1>1. IInv => ReachesItsInterface
  BY OnePortPerInterface DEF IInv, FrameInv, ReachesItsInterface
<1> QED BY <1>1, IInvHolds, PTL

\* For every file that passes validation and is a tree with the servers at its leaves,
\* by whichever ports the leaves are cabled to the spine, no frame between endpoints
\* is dropped once the script is done.
THEOREM NothingLostOnATree == Spec => []TreeDelivers
<1>1. Spec => [](IInv /\ TreeInv)
  BY InitInv, StepInv, TreeInvInit, TreeInvStep, PTL DEF Spec
<1>2. IInv /\ TreeInv => TreeDelivers
  BY DEF TreeInv, TreeDelivers
<1> QED BY <1>1, <1>2, PTL

\* For every file that passes validation and in which only server ports have a
\* connection, replicas get what the sequencer has seen and nothing else.
THEOREM SequencedCorrect == Spec => []OnlySequencedReachReplicas
<1>1. IInv => OnlySequencedReachReplicas
  <2> SUFFICES ASSUME IInv, OnlyServersConnected
               PROVE  /\ frame.state = "multicast" =>
                           /\ frame.src \in ServerOf(Sequencer)
                           /\ frame.copies = {topo.tofinoPort[i] : i \in Replicas}
                      /\ frame.state # "delivered" \/ frame.dst # Group
                      /\ frame.settled /\ frame.dst = Group /\ frame.src \in ServerOf(Sequencer)
                           => frame.state # "dropped"
    BY DEF OnlySequencedReachReplicas
  <2>1. frame.state = "multicast" => /\ frame.src \in ServerOf(Sequencer)
                                     /\ frame.copies = {topo.tofinoPort[i] : i \in Replicas}
    BY SequencerPort DEF IInv, FrameInv
  <2> QED BY <2>1, RoleAssumption DEF IInv, FrameInv
<1> QED BY <1>1, IInvHolds, PTL
=============================================================================
