------------------------- MODULE MC_PalRingBuffer -------------------------
(* PalRingBuffer on a ring of a few bytes.                                 *)
EXTENDS PalRingBuffer
=============================================================================
