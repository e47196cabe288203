-------------------------- MODULE MC_EchoReference --------------------------
(* Instances of EchoReference for TLC: the playback streams are interchangeable, *)
(* since every placement of them on the devices is an initial state.             *)
EXTENDS EchoReference, TLC

Alike == Permutations(Rx)

=============================================================================
