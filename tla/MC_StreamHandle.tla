-------------------------- MODULE MC_StreamHandle --------------------------
(* StreamHandle on a few client threads and handle addresses.              *)
EXTENDS StreamHandle

=============================================================================
