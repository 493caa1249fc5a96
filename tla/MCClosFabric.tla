----------------------------- MODULE MCClosFabric -----------------------------
(***************************************************************************)
(* ClosFabric with the first two leaves of system-topo-v1.yaml and         *)
(* system-topo-v2.yaml.                                                    *)
(***************************************************************************)
EXTENDS ClosFabric, TLC

CONSTANTS fpga1, fpga2, fpga3, fpga4

L(id, pos) == Port("leaf", id, pos)
S(id, pos) == Port("spine", id, pos)

EndpointsAll == {fpga1, fpga2, fpga3, fpga4}

\* In both files the spines come first.
Order(width) ==
  [n \in 1..(2 * width) |-> S(((n - 1) \div width) + 1, ((n - 1) % width) + 1)]
    \o [n \in 1..8 |-> L(((n - 1) \div 4) + 1, ((n - 1) % 4) + 1)]

\* A file from its width of a spine, its cables (lower end, upper end) and the
\* ports of its endpoints.
File(width, cables, ports) ==
  LET all    == {Order(width)[n] : n \in DOMAIN Order(width)}
      fabric == {c[1] : c \in cables} \union {c[2] : c \in cables}
      hosted == {ports[e] : e \in DOMAIN ports}
  IN  [ports |-> Order(width),
       role  |-> [p \in all |-> IF p \in fabric THEN "fabric"
                                ELSE IF p \in hosted THEN "server" ELSE "unused"],
       nics  |-> <<fpga1, fpga2, fpga3, fpga4>>,
       tofinoPort |-> ports,
       peer  |-> [p \in all |->
                    IF p \in hosted THEN CHOOSE e \in DOMAIN ports : ports[e] = p
                    ELSE IF \E c \in cables : p = c[1]
                         THEN (CHOOSE c \in cables : p = c[1])[2]
                    ELSE IF \E c \in cables : p = c[2]
                         THEN (CHOOSE c \in cables : p = c[2])[1]
                    ELSE NoPort]]

PortsV1 == fpga1 :> L(1, 1) @@ fpga2 :> L(1, 2) @@ fpga3 :> L(2, 1) @@ fpga4 :> L(2, 2)
PortsV2 == fpga1 :> L(1, 2) @@ fpga2 :> L(1, 4) @@ fpga3 :> L(2, 2) @@ fpga4 :> L(2, 4)

CablesV2 == {<<L(1, 1), S(1, 1)>>, <<L(2, 1), S(1, 2)>>,
             <<L(1, 3), S(2, 1)>>, <<L(2, 3), S(2, 2)>>}

FileV2 == File(2, CablesV2, PortsV2)

\* v1 as the script would like it: in the repository leaf 2 is on the third port
\* of its spine, where the script's table does not lead.
FileV1Narrow == File(2, {<<L(1, 4), S(1, 1)>>, <<L(2, 4), S(1, 2)>>}, PortsV1)

BothFiles == [v1 |-> FileV1Narrow, v2 |-> FileV2]

ASSUME CablingAssumption == FoldedClos /\ FullyCabled
=============================================================================
