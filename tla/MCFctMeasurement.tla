--------------------------- MODULE MCFctMeasurement ---------------------------
(***************************************************************************)
(* FctMeasurement on small instances.                                      *)
(***************************************************************************)
EXTENDS FctMeasurementProps
=============================================================================
