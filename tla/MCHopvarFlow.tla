----------------------------- MODULE MCHopvarFlow -----------------------------
(***************************************************************************)
(* HopvarFlow with two senders of two flows and a table of four slots.     *)
(***************************************************************************)
EXTENDS HopvarFlow

CONSTANTS s1, s2

MCSenders == {s1, s2}
\* Flows 1, 2, 5 and 6: two home slots, each shared by two flows.
Colliding == [s \in MCSenders |-> IF s = s1 THEN 1 ELSE 5]
\* Flows 1, 2, 3 and 4: a home slot for each.
Separate == [s \in MCSenders |-> IF s = s1 THEN 1 ELSE 3]

PlacementsAll == {Colliding, Separate}
PlacementsColliding == {Colliding}
=============================================================================
