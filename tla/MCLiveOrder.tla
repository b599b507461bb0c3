---------------------------- MODULE MCLiveOrder ----------------------------
(* Small instances of LiveOrder for TLC.                                   *)
EXTENDS LiveOrder, TLC

Symmetry == Permutations(Handlers)
=============================================================================
