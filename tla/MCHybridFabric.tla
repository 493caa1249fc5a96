--------------------------- MODULE MCHybridFabric ---------------------------
(***************************************************************************)
(* HybridFabric with two leaves, four optical ports and four slots.        *)
(***************************************************************************)
EXTENDS HybridFabric

SomeSenders == {Downlink(1), Downlink(4), Opt(1), Opt(4)}
SomeTargets == {Downlink(2), Downlink(3), OtherMac}
=============================================================================
