-------------------------- MODULE MCMeasTimestamps --------------------------
(***************************************************************************)
(* Three requests, the error queue looked at after every second one.       *)
(***************************************************************************)
EXTENDS MeasTimestampsProps
=============================================================================
