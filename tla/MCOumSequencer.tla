--------------------------- MODULE MCOumSequencer ---------------------------
(***************************************************************************)
(* OumSequencer on small instances, its properties, and their mutants.     *)
(***************************************************************************)
EXTENDS OumSequencerProps

CONSTANTS p1, p2, g1, g2

PortsAll == {p1, p2}

\* system-topo-v1.yaml: the client's host is itself a replica.
ConfigV1 == [client |-> p1, addr |-> g1, replicas |-> {p1, p2}]
\* system-topo-v2.yaml and system-topo-v3.yaml name no client.
ConfigV2 == [client |-> NoPort, addr |-> g2, replicas |-> {p1, p2}]
\* v1 with the client moved to another host and one replica taken out.
ConfigV1Moved == [client |-> p2, addr |-> g1, replicas |-> {p2}]

ConfigsAll == {ConfigV1, ConfigV2, ConfigV1Moved}

Phase1(id, port, group) ==
  [id |-> id, port |-> port, addr |-> g1, group |-> group,
   nopaxosPort |-> TRUE, magic |-> TRUE]

Request1 == Phase1(1, p1, 1)
Request2 == Phase1(2, p2, 1)
Request3 == Phase1(3, p1, 1)
OtherGroup == Phase1(4, p1, 2)
\* A datagram to the group's UDP port that does not start with the magic
\* number, such as a fragment of a large request.
Fragment == [Phase1(5, p1, 1) EXCEPT !.magic = FALSE]
\* Not for the sequencer at all.
OtherPort == [Phase1(6, p1, 1) EXCEPT !.nopaxosPort = FALSE]

\* Two requests from hosts that are the client under different files.
PacketsReprogram == {Request1, Request2}
\* What the comments of the data plane tell apart.
PacketsMixed == {Request1, OtherGroup, Fragment, OtherPort}
=============================================================================
