---------------------------- MODULE MCSpineLeaf ----------------------------
(***************************************************************************)
(* Files with two leaves and two spines in which leaf 1 has two more       *)
(* ports: pairings of every shape, any attachment of three interfaces to   *)
(* the two server ports, and one that claims a port which is no server     *)
(* port.                                                                   *)
(***************************************************************************)
EXTENDS SpineLeaf, TLC

CONSTANTS a1, a2, a3, b1, b2, s1, s2, t1, fpga1, fpga2, fpga3

PortsAll  == {a1, a2, a3, b1, b2, s1, s2, t1}
IfacesAll == {fpga1, fpga2, fpga3}
LeafMap   == (a1 :> 1 @@ a2 :> 1 @@ a3 :> 1 @@ b1 :> 2 @@ b2 :> 2
              @@ s1 :> 0 @@ s2 :> 0 @@ t1 :> 0)
SpineMap  == (a1 :> 0 @@ a2 :> 0 @@ a3 :> 0 @@ b1 :> 0 @@ b2 :> 0
              @@ s1 :> 1 @@ s2 :> 1 @@ t1 :> 2)
ServerPorts == {a1, b1}

\* A file from its server ports, the pair_with of its fabric ports and the
\* interfaces' ports; the other ports are unused.
File(servers, pair, conn, ports) ==
  [role |-> [p \in PortsAll |-> IF p \in servers THEN "server"
                                ELSE IF p \in DOMAIN pair THEN "fabric" ELSE "unused"],
   pair |-> [p \in PortsAll |-> IF p \in DOMAIN pair THEN pair[p] ELSE Nothing],
   conn |-> [p \in PortsAll |-> IF p \in DOMAIN conn THEN conn[p] ELSE Nothing],
   tofinoPort |-> ports]

Both(p, q) == p :> q @@ q :> p

\* Trees by either port of a spine, two spines, two uplinks of a leaf, leaves
\* and spines paired among themselves, ports paired with themselves, missing
\* cables; and two that are not symmetric.
Pairings ==
  {Both(a2, s1) @@ Both(b2, s2), Both(a2, s2) @@ Both(b2, s1), Both(a2, s1) @@ Both(b2, t1),
   Both(a2, s1) @@ Both(a3, t1) @@ Both(b2, s2), Both(a2, s1) @@ Both(a3, s2),
   Both(a2, b2) @@ Both(a3, s1), Both(a2, b2) @@ Both(s1, s2),
   Both(a2, b2) @@ Both(a3, s1) @@ Both(s2, t1), Both(a2, s1) @@ Both(s2, t1) @@ Both(a3, b2),
   a2 :> a2 @@ Both(a3, s2) @@ Both(b2, s1), Both(a2, s1) @@ b2 :> b2 @@ s2 :> s2,
   Both(a2, s1), <<>>,
   a2 :> s1 @@ Both(b2, s1), Both(a2, s1) @@ b2 :> s1 @@ s2 :> b2}

\* And a server at a spine, with and without a port of a spine paired with itself.
Files ==
  {File(ServerPorts, pair, conn, ports) :
     pair \in Pairings, conn \in [ServerPorts -> IfacesAll] \union {a1 :> fpga1 @@ b1 :> fpga2 @@ a3 :> fpga2},
     ports \in [IfacesAll -> ServerPorts \union {Nothing}]}
  \union
  {File({a1, t1}, pair, a1 :> fpga1 @@ t1 :> fpga2, fpga1 :> a1 @@ fpga2 :> t1 @@ fpga3 :> Nothing) :
     pair \in {Both(a2, s1) @@ Both(b2, s2), s1 :> s1 @@ Both(a2, s2)}}
=============================================================================
