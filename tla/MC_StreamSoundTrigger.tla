----------------------- MODULE MC_StreamSoundTrigger -----------------------
(* StreamSoundTrigger with a sound model of one stage, or with one or two    *)
(* second stage engines.                                                      *)
EXTENDS StreamSoundTrigger

NoneOrOne == {{}, {"kw"}}
NoneOrTwo == {{}, {"kw", "uv"}}

(* Bound: with both histories in its past a stream is excepted from every     *)
(* property but the type invariant until it is deleted, so the run ends there.*)
SomethingPromised == ~({"device", "restore"} \subseteq st.past)

(* Bound: a stream configured for NLPI meets only what its deferred starts    *)
(* depend on: the LPI/NLPI switches and the subsystem restarts.               *)
NlpiFocus == Lpi \/ (~conc /\ rmOp \notin {"device", "internal"})
=============================================================================
