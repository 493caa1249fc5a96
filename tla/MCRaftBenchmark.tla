--------------------------- MODULE MCRaftBenchmark ---------------------------
(***************************************************************************)
(* RaftBenchmark on small instances.                                       *)
(***************************************************************************)
EXTENDS RaftBenchmark

CONSTANTS s1, s2

TwoServers == {s1, s2}
OneServer == {s1}
=============================================================================
