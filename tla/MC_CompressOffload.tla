------------------------- MODULE MC_CompressOffload -------------------------
(* Model checking of CompressOffload; the threads of the client are alike. *)
EXTENDS CompressOffload, TLC

Alike == Permutations(Clients)
=============================================================================
