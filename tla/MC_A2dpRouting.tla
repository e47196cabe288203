--------------------------- MODULE MC_A2dpRouting ---------------------------
(* Instances of A2dpRouting for TLC; streams are interchangeable.               *)
EXTENDS A2dpRouting, TLC

Alike == Permutations(Streams)
AllRoutes == {{"a2dp"}, {"spk"}, {"a2dp", "spk"}}

(* Clients that never ask for another route.                                    *)
Unrouted == Init /\ [][Next /\ \A s \in Streams : pc'[s] # "plan"]_vars

=============================================================================
