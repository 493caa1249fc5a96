---------------------------- MODULE MCBenchSweep ----------------------------
(***************************************************************************)
(* Sweeps over one thread and two, of clients that print latencies in any  *)
(* form.                                                                   *)
(***************************************************************************)
EXTENDS BenchSweep

OneAndTwo == <<1, 2>>
AllForms == Forms
=============================================================================
