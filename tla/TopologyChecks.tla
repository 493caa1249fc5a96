--------------------------- MODULE TopologyChecks ---------------------------
(***************************************************************************)
(* Topology files as src/topo/model.py loads them, and the checks of       *)
(* src/topo/validate.py that relate their parts.  A switch port stands for *)
(* its hardware string and an interface for its addresses, which checks 1  *)
(* and 6 keep apart.                                                       *)
(***************************************************************************)
CONSTANTS
  Ports,   \* switch ports
  Ifaces,  \* interfaces of the endpoints
  Nothing  \* a field that is not there

ASSUME NothingAssumption == Nothing \notin Ports \union Ifaces

\* A loaded file: of each switch port its role, the port it is paired with and
\* the interface it is connected to, of each interface its tofino_port.
TopologyType ==
  [role : [Ports -> {"server", "fabric", "unused"}],
   pair : [Ports -> Ports \union {Nothing}],
   conn : [Ports -> Ifaces \union {Nothing}],
   tofinoPort : [Ifaces -> Ports \union {Nothing}]]

Servers(t) == {p \in Ports : t.role[p] = "server"}
Fabric(t)  == {p \in Ports : t.role[p] = "fabric"}

\* Check 3: a server port is connected to an interface.
ServersConnected(t) == \A p \in Servers(t) : t.conn[p] # Nothing

\* Faulty: the pairing is only followed one way.
PairingOneWay(t) == \A p \in Fabric(t) : t.pair[p] \in Fabric(t)

\* Check 4: fabric ports are paired with each other.
PairingSymmetric(t) ==
  \A p \in Fabric(t) : t.pair[p] \in Fabric(t) /\ t.pair[t.pair[p]] = p

\* Check 5: a tofino_port is a server port.
TofinoPortsServe(t) ==
  \A i \in Ifaces : t.tofinoPort[i] # Nothing => t.tofinoPort[i] \in Servers(t)

\* Faulty: the port is only required to be given.
MappedAnywhere(t) == \A p \in Servers(t) : t.tofinoPort[t.conn[p]] # Nothing

\* Check 7: the interface a server port is connected to names that port.
MappedBack(t) == \A p \in Servers(t) : t.tofinoPort[t.conn[p]] = p

\* validate_topology, in the order of its checks.
Valid(t) ==
  /\ ServersConnected(t)
  /\ PairingSymmetric(t)
  /\ TofinoPortsServe(t)
  /\ MappedBack(t)
=============================================================================
