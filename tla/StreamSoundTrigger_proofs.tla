----------------------- MODULE StreamSoundTrigger_proofs -----------------------
(* What holds of a voice UI stream whatever its client, the resource manager, *)
(* the delayed stop and the engines do, for every number of detections and of *)
(* failed calls.                                                              *)
(*                                                                            *)
(* A handler of ProcessEvent is an operator from a record to a record, so the *)
(* proof has three layers:                                                    *)
(*   - for each part of a handler F, Eff_F(s, t) says which fields of t differ*)
(*     from those of s, and the lemma Does_F that F(s) is such a t;           *)
(*   - for each event, the lemma Ev_... walks through the branches of its     *)
(*     handler, with the lemmas of the parts, and shows at the end of each    *)
(*     branch what the event keeps (Kept, SameModel, SameCard, Preserves) and *)
(*     that without a failure a started stream runs on (Runs);                *)
(*   - for each action, the lemma Step_... shows that Inv is kept, from what  *)
(*     the event keeps and from who has mStreamMutex.                         *)
(* In the proof of an event a1, a2, ... are the records the handler goes      *)
(* through, step e says that the last one is the outcome, steps g1, g2, ...   *)
(* are the parts of the claim, step s the values the fields range over.       *)
EXTENDS StreamSoundTrigger, TLAPS

(* The types of the fields.                                                   *)
States == {"IDLE", "LOADED", "SSR"} \cup Running
Restores == {"NONE", "IDLE", "LOADED", "ACTIVE"}
Currents == {"IDLE", "OPENED", "STARTED", "STOPPED"}
Models == {"none", "ok", "dangling"}
Recs == {"none", "plain", "capture"}
Engs == {"none", "loaded", "running", "detected"}
Timers == {"start", "wait", "woken", "due", "back"}
Pasts == {"device", "wake", "restore", "pause", "config"}

(* A history with one more mark.                                               *)
With(p, x) == p \cup {x}

(* What a step leaves alone, in groups of fields.                             *)
KeepsMode(s, t) ==
    /\ t.state = s.state /\ t.state_for_restore = s.state_for_restore
    /\ t.currentState = s.currentState /\ t.paused = s.paused
KeepsModel(s, t) ==
    /\ t.gsl_engine_model = s.gsl_engine_model /\ t.stage2 = s.stage2
    /\ t.sm_config = s.sm_config /\ t.rec_config = s.rec_config
KeepsDevice(s, t) ==
    /\ t.mDevices = s.mDevices /\ t.device_opened = s.device_opened
    /\ t.started = s.started /\ t.registered = s.registered
KeepsStage(s, t) ==
    /\ t.proc = s.proc /\ t.second_stage_processing = s.second_stage_processing
KeepsLocks(s, t) ==
    t.wake = s.wake /\ t.sleepVote = s.sleepVote /\ t.pending_stop = s.pending_stop
KeepsPast(s, t) ==
    /\ t.past = s.past /\ t.crash = s.crash
    /\ t.faults = s.faults /\ t.detections = s.detections
KeepsAll(s, t) ==
    /\ KeepsMode(s, t) /\ KeepsModel(s, t) /\ KeepsDevice(s, t)
    /\ KeepsStage(s, t) /\ KeepsLocks(s, t) /\ KeepsPast(s, t)

(* ... all but the status and the count of failed calls.                      *)
KeepsAllBut(s, t) ==
    /\ KeepsMode(s, t) /\ KeepsModel(s, t) /\ KeepsDevice(s, t)
    /\ KeepsStage(s, t) /\ KeepsLocks(s, t)
    /\ t.past = s.past /\ t.crash = s.crash /\ t.detections = s.detections

USE DEF KeepsMode, KeepsModel, KeepsDevice, KeepsStage, KeepsLocks, KeepsPast, KeepsAll

(* The names of the fields.                                                   *)
Names == {"state", "state_for_restore", "currentState", "paused", "gsl_engine_model",
          "stage2", "sm_config", "rec_config", "eng", "proc", "mDevices",
          "device_opened", "started", "registered", "wake", "sleepVote",
          "second_stage_processing", "detection_state", "rejection_notified",
          "pending_stop", "timer_stop_waiting", "timer", "mutex_unlocked_after_cb",
          "ok", "crash", "past", "faults", "detections"}

(* A record of the stream is a function on the names of its fields.           *)
LEMMA RecEq ==
    ASSUME NEW s \in StreamRecord
    PROVE  s = [x \in Names |-> s[x]]
BY DEF StreamRecord, Names

(* The names are names.                                                       *)
LEMMA NamesAre ==
    /\ "state" \in Names /\ "state_for_restore" \in Names
    /\ "currentState" \in Names /\ "paused" \in Names
    /\ "gsl_engine_model" \in Names /\ "stage2" \in Names
    /\ "sm_config" \in Names /\ "rec_config" \in Names
    /\ "eng" \in Names /\ "proc" \in Names
    /\ "mDevices" \in Names /\ "device_opened" \in Names
    /\ "started" \in Names /\ "registered" \in Names
    /\ "wake" \in Names /\ "sleepVote" \in Names
    /\ "second_stage_processing" \in Names /\ "detection_state" \in Names
    /\ "rejection_notified" \in Names /\ "pending_stop" \in Names
    /\ "timer_stop_waiting" \in Names /\ "timer" \in Names
    /\ "mutex_unlocked_after_cb" \in Names /\ "ok" \in Names /\ "crash" \in Names
    /\ "past" \in Names /\ "faults" \in Names /\ "detections" \in Names
BY DEF Names

(* The types of the fields.                                                   *)
LEMMA FieldTypes ==
    ASSUME NEW s \in StreamRecord
    PROVE  /\ s.state \in States /\ s.state_for_restore \in Restores
           /\ s.currentState \in Currents /\ s.paused \in BOOLEAN
           /\ s.gsl_engine_model \in Models /\ s.stage2 \in Stage2Choices
           /\ s.sm_config \in BOOLEAN /\ s.rec_config \in Recs
           /\ s.eng \in Engs /\ s.proc \in SUBSET Stage2
           /\ s.mDevices \in BOOLEAN /\ s.device_opened \in BOOLEAN
           /\ s.started \in BOOLEAN /\ s.registered \in BOOLEAN
           /\ s.wake \in Int /\ s.sleepVote \in BOOLEAN
           /\ s.second_stage_processing \in BOOLEAN
           /\ s.detection_state \in SUBSET Stage2
           /\ s.rejection_notified \in BOOLEAN /\ s.pending_stop \in BOOLEAN
           /\ s.timer_stop_waiting \in BOOLEAN /\ s.timer \in Timers
           /\ s.mutex_unlocked_after_cb \in BOOLEAN /\ s.ok \in BOOLEAN
           /\ s.crash \in BOOLEAN /\ s.past \in SUBSET Pasts
           /\ s.faults \in 0..MaxFaults /\ s.detections \in 0..MaxDetections
BY DEF StreamRecord, States, Restores, Currents, Models, Recs, Engs, Timers, Pasts

(* The values the handlers use.                                               *)
LEMMA Values ==
    /\ "IDLE" \in States /\ "LOADED" \in States /\ "SSR" \in States
    /\ "ACTIVE" \in States /\ "DETECTED" \in States /\ "BUFFERING" \in States
    /\ "NONE" \in Restores /\ "IDLE" \in Restores /\ "LOADED" \in Restores
    /\ "ACTIVE" \in Restores
    /\ "IDLE" \in Currents /\ "OPENED" \in Currents /\ "STARTED" \in Currents
    /\ "STOPPED" \in Currents
    /\ "none" \in Recs /\ "plain" \in Recs /\ "capture" \in Recs
    /\ "none" \in Engs /\ "loaded" \in Engs /\ "running" \in Engs /\ "detected" \in Engs
    /\ "none" \in Models /\ "ok" \in Models /\ "dangling" \in Models
    /\ "start" \in Timers /\ "wait" \in Timers /\ "woken" \in Timers
    /\ "due" \in Timers /\ "back" \in Timers
    /\ "device" \in Pasts /\ "wake" \in Pasts /\ "restore" \in Pasts
    /\ "pause" \in Pasts /\ "config" \in Pasts
    /\ {} \in Stage2Choices
    /\ {} \in SUBSET Stage2
BY StAssumption DEF States, Running, Restores, Currents, Recs, Engs, Models, Timers, Pasts

-----------------------------------------------------------------------------
(* A record of the stream with one field set.  The handlers are compositions  *)
(* of these.                                                                  *)
Set_state(s, v) == [s EXCEPT !.state = v]
Set_state_for_restore(s, v) == [s EXCEPT !.state_for_restore = v]
Set_currentState(s, v) == [s EXCEPT !.currentState = v]
Yes_paused(s) == [s EXCEPT !.paused = TRUE]
No_paused(s) == [s EXCEPT !.paused = FALSE]
Set_gsl_engine_model(s, v) == [s EXCEPT !.gsl_engine_model = v]
Set_stage2(s, v) == [s EXCEPT !.stage2 = v]
Yes_sm_config(s) == [s EXCEPT !.sm_config = TRUE]
No_sm_config(s) == [s EXCEPT !.sm_config = FALSE]
Set_rec_config(s, v) == [s EXCEPT !.rec_config = v]
Set_eng(s, v) == [s EXCEPT !.eng = v]
Set_proc(s, v) == [s EXCEPT !.proc = v]
Yes_mDevices(s) == [s EXCEPT !.mDevices = TRUE]
No_mDevices(s) == [s EXCEPT !.mDevices = FALSE]
Yes_device_opened(s) == [s EXCEPT !.device_opened = TRUE]
No_device_opened(s) == [s EXCEPT !.device_opened = FALSE]
Yes_started(s) == [s EXCEPT !.started = TRUE]
No_started(s) == [s EXCEPT !.started = FALSE]
Yes_registered(s) == [s EXCEPT !.registered = TRUE]
No_registered(s) == [s EXCEPT !.registered = FALSE]
Set_wake(s, v) == [s EXCEPT !.wake = v]
Yes_sleepVote(s) == [s EXCEPT !.sleepVote = TRUE]
No_sleepVote(s) == [s EXCEPT !.sleepVote = FALSE]
Yes_second_stage_processing(s) == [s EXCEPT !.second_stage_processing = TRUE]
No_second_stage_processing(s) == [s EXCEPT !.second_stage_processing = FALSE]
Set_detection_state(s, v) == [s EXCEPT !.detection_state = v]
Yes_rejection_notified(s) == [s EXCEPT !.rejection_notified = TRUE]
No_rejection_notified(s) == [s EXCEPT !.rejection_notified = FALSE]
Yes_pending_stop(s) == [s EXCEPT !.pending_stop = TRUE]
No_pending_stop(s) == [s EXCEPT !.pending_stop = FALSE]
Yes_timer_stop_waiting(s) == [s EXCEPT !.timer_stop_waiting = TRUE]
No_timer_stop_waiting(s) == [s EXCEPT !.timer_stop_waiting = FALSE]
Set_timer(s, v) == [s EXCEPT !.timer = v]
Yes_mutex_unlocked_after_cb(s) == [s EXCEPT !.mutex_unlocked_after_cb = TRUE]
No_mutex_unlocked_after_cb(s) == [s EXCEPT !.mutex_unlocked_after_cb = FALSE]
Yes_ok(s) == [s EXCEPT !.ok = TRUE]
No_ok(s) == [s EXCEPT !.ok = FALSE]
Yes_crash(s) == [s EXCEPT !.crash = TRUE]
Set_past(s, v) == [s EXCEPT !.past = v]
Set_faults(s, v) == [s EXCEPT !.faults = v]
Set_detections(s, v) == [s EXCEPT !.detections = v]

(* What is left by setting state.                                             *)
Eff_Set_state(s, t, v) ==
    /\ KeepsModel(s, t) /\ KeepsDevice(s, t) /\ KeepsStage(s, t)
    /\ KeepsLocks(s, t) /\ KeepsPast(s, t)
    /\ t.state_for_restore = s.state_for_restore /\ t.currentState = s.currentState
    /\ t.paused = s.paused /\ t.ok = s.ok
    /\ t.state = v

(* What Set_state(s, v) leaves.                                               *)
LEMMA Does_Set_state ==
    ASSUME NEW s \in StreamRecord, NEW v \in States
    PROVE  Set_state(s, v) \in StreamRecord /\ Eff_Set_state(s, Set_state(s, v), v)
<1>1. Set_state(s, v) \in StreamRecord
    BY DEF StreamRecord, Set_state, States
<1> QED BY <1>1, RecEq, NamesAre DEF Set_state, Eff_Set_state

(* What is left by setting state_for_restore.                                 *)
Eff_Set_state_for_restore(s, t, v) ==
    /\ KeepsModel(s, t) /\ KeepsDevice(s, t) /\ KeepsStage(s, t)
    /\ KeepsLocks(s, t) /\ KeepsPast(s, t) /\ t.state = s.state
    /\ t.currentState = s.currentState /\ t.paused = s.paused /\ t.ok = s.ok
    /\ t.state_for_restore = v

(* What Set_state_for_restore(s, v) leaves.                                   *)
LEMMA Does_Set_state_for_restore ==
    ASSUME NEW s \in StreamRecord, NEW v \in Restores
    PROVE  /\ Set_state_for_restore(s, v) \in StreamRecord
           /\ Eff_Set_state_for_restore(s, Set_state_for_restore(s, v), v)
<1>1. Set_state_for_restore(s, v) \in StreamRecord
    BY DEF StreamRecord, Set_state_for_restore, Restores
<1> QED BY <1>1, RecEq, NamesAre DEF Set_state_for_restore, Eff_Set_state_for_restore

(* What is left by setting currentState.                                      *)
Eff_Set_currentState(s, t, v) ==
    /\ KeepsModel(s, t) /\ KeepsDevice(s, t) /\ KeepsStage(s, t)
    /\ KeepsLocks(s, t) /\ KeepsPast(s, t) /\ t.state = s.state
    /\ t.state_for_restore = s.state_for_restore /\ t.paused = s.paused
    /\ t.ok = s.ok
    /\ t.currentState = v

(* What Set_currentState(s, v) leaves.                                        *)
LEMMA Does_Set_currentState ==
    ASSUME NEW s \in StreamRecord, NEW v \in Currents
    PROVE  /\ Set_currentState(s, v) \in StreamRecord
           /\ Eff_Set_currentState(s, Set_currentState(s, v), v)
<1>1. Set_currentState(s, v) \in StreamRecord
    BY DEF StreamRecord, Set_currentState, Currents
<1> QED BY <1>1, RecEq, NamesAre DEF Set_currentState, Eff_Set_currentState

(* What is left by setting paused to TRUE.                                    *)
Eff_Yes_paused(s, t) ==
    /\ KeepsModel(s, t) /\ KeepsDevice(s, t) /\ KeepsStage(s, t)
    /\ KeepsLocks(s, t) /\ KeepsPast(s, t) /\ t.state = s.state
    /\ t.state_for_restore = s.state_for_restore /\ t.currentState = s.currentState
    /\ t.ok = s.ok
    /\ t.paused

(* What Yes_paused(s) leaves.                                                 *)
LEMMA Does_Yes_paused ==
    ASSUME NEW s \in StreamRecord
    PROVE  Yes_paused(s) \in StreamRecord /\ Eff_Yes_paused(s, Yes_paused(s))
<1>1. Yes_paused(s) \in StreamRecord
    BY DEF StreamRecord, Yes_paused
<1> QED BY <1>1, RecEq, NamesAre DEF Yes_paused, Eff_Yes_paused

(* What is left by setting paused to FALSE.                                   *)
Eff_No_paused(s, t) ==
    /\ KeepsModel(s, t) /\ KeepsDevice(s, t) /\ KeepsStage(s, t)
    /\ KeepsLocks(s, t) /\ KeepsPast(s, t) /\ t.state = s.state
    /\ t.state_for_restore = s.state_for_restore /\ t.currentState = s.currentState
    /\ t.ok = s.ok
    /\ ~t.paused

(* What No_paused(s) leaves.                                                  *)
LEMMA Does_No_paused ==
    ASSUME NEW s \in StreamRecord
    PROVE  No_paused(s) \in StreamRecord /\ Eff_No_paused(s, No_paused(s))
<1>1. No_paused(s) \in StreamRecord
    BY DEF StreamRecord, No_paused
<1> QED BY <1>1, RecEq, NamesAre DEF No_paused, Eff_No_paused

(* What is left by setting gsl_engine_model.                                  *)
Eff_Set_gsl_engine_model(s, t, v) ==
    /\ KeepsMode(s, t) /\ KeepsDevice(s, t) /\ KeepsStage(s, t) /\ KeepsLocks(s, t)
    /\ KeepsPast(s, t) /\ t.stage2 = s.stage2 /\ t.sm_config = s.sm_config
    /\ t.rec_config = s.rec_config /\ t.ok = s.ok
    /\ t.gsl_engine_model = v

(* What Set_gsl_engine_model(s, v) leaves.                                    *)
LEMMA Does_Set_gsl_engine_model ==
    ASSUME NEW s \in StreamRecord, NEW v \in Models
    PROVE  /\ Set_gsl_engine_model(s, v) \in StreamRecord
           /\ Eff_Set_gsl_engine_model(s, Set_gsl_engine_model(s, v), v)
<1>1. Set_gsl_engine_model(s, v) \in StreamRecord
    BY DEF StreamRecord, Set_gsl_engine_model, Models
<1> QED BY <1>1, RecEq, NamesAre DEF Set_gsl_engine_model, Eff_Set_gsl_engine_model

(* What is left by setting stage2.                                            *)
Eff_Set_stage2(s, t, v) ==
    /\ KeepsMode(s, t) /\ KeepsDevice(s, t) /\ KeepsStage(s, t) /\ KeepsLocks(s, t)
    /\ KeepsPast(s, t) /\ t.gsl_engine_model = s.gsl_engine_model
    /\ t.sm_config = s.sm_config /\ t.rec_config = s.rec_config /\ t.ok = s.ok
    /\ t.stage2 = v

(* What Set_stage2(s, v) leaves.                                              *)
LEMMA Does_Set_stage2 ==
    ASSUME NEW s \in StreamRecord, NEW v \in Stage2Choices
    PROVE  Set_stage2(s, v) \in StreamRecord /\ Eff_Set_stage2(s, Set_stage2(s, v), v)
<1>1. Set_stage2(s, v) \in StreamRecord
    BY DEF StreamRecord, Set_stage2
<1> QED BY <1>1, RecEq, NamesAre DEF Set_stage2, Eff_Set_stage2

(* What is left by setting sm_config to TRUE.                                 *)
Eff_Yes_sm_config(s, t) ==
    /\ KeepsMode(s, t) /\ KeepsDevice(s, t) /\ KeepsStage(s, t) /\ KeepsLocks(s, t)
    /\ KeepsPast(s, t) /\ t.gsl_engine_model = s.gsl_engine_model
    /\ t.stage2 = s.stage2 /\ t.rec_config = s.rec_config /\ t.ok = s.ok
    /\ t.sm_config

(* What Yes_sm_config(s) leaves.                                              *)
LEMMA Does_Yes_sm_config ==
    ASSUME NEW s \in StreamRecord
    PROVE  Yes_sm_config(s) \in StreamRecord /\ Eff_Yes_sm_config(s, Yes_sm_config(s))
<1>1. Yes_sm_config(s) \in StreamRecord
    BY DEF StreamRecord, Yes_sm_config
<1> QED BY <1>1, RecEq, NamesAre DEF Yes_sm_config, Eff_Yes_sm_config

(* What is left by setting sm_config to FALSE.                                *)
Eff_No_sm_config(s, t) ==
    /\ KeepsMode(s, t) /\ KeepsDevice(s, t) /\ KeepsStage(s, t) /\ KeepsLocks(s, t)
    /\ KeepsPast(s, t) /\ t.gsl_engine_model = s.gsl_engine_model
    /\ t.stage2 = s.stage2 /\ t.rec_config = s.rec_config /\ t.ok = s.ok
    /\ ~t.sm_config

(* What No_sm_config(s) leaves.                                               *)
LEMMA Does_No_sm_config ==
    ASSUME NEW s \in StreamRecord
    PROVE  No_sm_config(s) \in StreamRecord /\ Eff_No_sm_config(s, No_sm_config(s))
<1>1. No_sm_config(s) \in StreamRecord
    BY DEF StreamRecord, No_sm_config
<1> QED BY <1>1, RecEq, NamesAre DEF No_sm_config, Eff_No_sm_config

(* What is left by setting rec_config.                                        *)
Eff_Set_rec_config(s, t, v) ==
    /\ KeepsMode(s, t) /\ KeepsDevice(s, t) /\ KeepsStage(s, t) /\ KeepsLocks(s, t)
    /\ KeepsPast(s, t) /\ t.gsl_engine_model = s.gsl_engine_model
    /\ t.stage2 = s.stage2 /\ t.sm_config = s.sm_config /\ t.ok = s.ok
    /\ t.rec_config = v

(* What Set_rec_config(s, v) leaves.                                          *)
LEMMA Does_Set_rec_config ==
    ASSUME NEW s \in StreamRecord, NEW v \in Recs
    PROVE  /\ Set_rec_config(s, v) \in StreamRecord
           /\ Eff_Set_rec_config(s, Set_rec_config(s, v), v)
<1>1. Set_rec_config(s, v) \in StreamRecord
    BY DEF StreamRecord, Set_rec_config, Recs
<1> QED BY <1>1, RecEq, NamesAre DEF Set_rec_config, Eff_Set_rec_config

(* What is left by setting eng.                                               *)
Eff_Set_eng(s, t, v) == KeepsAll(s, t) /\ t.ok = s.ok

(* What Set_eng(s, v) leaves.                                                 *)
LEMMA Does_Set_eng ==
    ASSUME NEW s \in StreamRecord, NEW v \in Engs
    PROVE  Set_eng(s, v) \in StreamRecord /\ Eff_Set_eng(s, Set_eng(s, v), v)
<1>1. Set_eng(s, v) \in StreamRecord
    BY DEF StreamRecord, Set_eng, Engs
<1> QED BY <1>1, RecEq, NamesAre DEF Set_eng, Eff_Set_eng

(* What is left by setting proc.                                              *)
Eff_Set_proc(s, t, v) ==
    /\ KeepsMode(s, t) /\ KeepsModel(s, t) /\ KeepsDevice(s, t) /\ KeepsLocks(s, t)
    /\ KeepsPast(s, t) /\ t.second_stage_processing = s.second_stage_processing
    /\ t.ok = s.ok
    /\ t.proc = v

(* What Set_proc(s, v) leaves.                                                *)
LEMMA Does_Set_proc ==
    ASSUME NEW s \in StreamRecord, NEW v \in SUBSET Stage2
    PROVE  Set_proc(s, v) \in StreamRecord /\ Eff_Set_proc(s, Set_proc(s, v), v)
<1>1. Set_proc(s, v) \in StreamRecord
    BY DEF StreamRecord, Set_proc
<1> QED BY <1>1, RecEq, NamesAre DEF Set_proc, Eff_Set_proc

(* What is left by setting mDevices to TRUE.                                  *)
Eff_Yes_mDevices(s, t) ==
    /\ KeepsMode(s, t) /\ KeepsModel(s, t) /\ KeepsStage(s, t) /\ KeepsLocks(s, t)
    /\ KeepsPast(s, t) /\ t.device_opened = s.device_opened
    /\ t.started = s.started /\ t.registered = s.registered /\ t.ok = s.ok
    /\ t.mDevices

(* What Yes_mDevices(s) leaves.                                               *)
LEMMA Does_Yes_mDevices ==
    ASSUME NEW s \in StreamRecord
    PROVE  Yes_mDevices(s) \in StreamRecord /\ Eff_Yes_mDevices(s, Yes_mDevices(s))
<1>1. Yes_mDevices(s) \in StreamRecord
    BY DEF StreamRecord, Yes_mDevices
<1> QED BY <1>1, RecEq, NamesAre DEF Yes_mDevices, Eff_Yes_mDevices

(* What is left by setting mDevices to FALSE.                                 *)
Eff_No_mDevices(s, t) ==
    /\ KeepsMode(s, t) /\ KeepsModel(s, t) /\ KeepsStage(s, t) /\ KeepsLocks(s, t)
    /\ KeepsPast(s, t) /\ t.device_opened = s.device_opened
    /\ t.started = s.started /\ t.registered = s.registered /\ t.ok = s.ok
    /\ ~t.mDevices

(* What No_mDevices(s) leaves.                                                *)
LEMMA Does_No_mDevices ==
    ASSUME NEW s \in StreamRecord
    PROVE  No_mDevices(s) \in StreamRecord /\ Eff_No_mDevices(s, No_mDevices(s))
<1>1. No_mDevices(s) \in StreamRecord
    BY DEF StreamRecord, No_mDevices
<1> QED BY <1>1, RecEq, NamesAre DEF No_mDevices, Eff_No_mDevices

(* What is left by setting device_opened to TRUE.                             *)
Eff_Yes_device_opened(s, t) ==
    /\ KeepsMode(s, t) /\ KeepsModel(s, t) /\ KeepsStage(s, t) /\ KeepsLocks(s, t)
    /\ KeepsPast(s, t) /\ t.mDevices = s.mDevices /\ t.started = s.started
    /\ t.registered = s.registered /\ t.ok = s.ok
    /\ t.device_opened

(* What Yes_device_opened(s) leaves.                                          *)
LEMMA Does_Yes_device_opened ==
    ASSUME NEW s \in StreamRecord
    PROVE  /\ Yes_device_opened(s) \in StreamRecord
           /\ Eff_Yes_device_opened(s, Yes_device_opened(s))
<1>1. Yes_device_opened(s) \in StreamRecord
    BY DEF StreamRecord, Yes_device_opened
<1> QED BY <1>1, RecEq, NamesAre DEF Yes_device_opened, Eff_Yes_device_opened

(* What is left by setting device_opened to FALSE.                            *)
Eff_No_device_opened(s, t) ==
    /\ KeepsMode(s, t) /\ KeepsModel(s, t) /\ KeepsStage(s, t) /\ KeepsLocks(s, t)
    /\ KeepsPast(s, t) /\ t.mDevices = s.mDevices /\ t.started = s.started
    /\ t.registered = s.registered /\ t.ok = s.ok
    /\ ~t.device_opened

(* What No_device_opened(s) leaves.                                           *)
LEMMA Does_No_device_opened ==
    ASSUME NEW s \in StreamRecord
    PROVE  /\ No_device_opened(s) \in StreamRecord
           /\ Eff_No_device_opened(s, No_device_opened(s))
<1>1. No_device_opened(s) \in StreamRecord
    BY DEF StreamRecord, No_device_opened
<1> QED BY <1>1, RecEq, NamesAre DEF No_device_opened, Eff_No_device_opened

(* What is left by setting started to TRUE.                                   *)
Eff_Yes_started(s, t) ==
    /\ KeepsMode(s, t) /\ KeepsModel(s, t) /\ KeepsStage(s, t) /\ KeepsLocks(s, t)
    /\ KeepsPast(s, t) /\ t.mDevices = s.mDevices
    /\ t.device_opened = s.device_opened /\ t.registered = s.registered
    /\ t.ok = s.ok
    /\ t.started

(* What Yes_started(s) leaves.                                                *)
LEMMA Does_Yes_started ==
    ASSUME NEW s \in StreamRecord
    PROVE  Yes_started(s) \in StreamRecord /\ Eff_Yes_started(s, Yes_started(s))
<1>1. Yes_started(s) \in StreamRecord
    BY DEF StreamRecord, Yes_started
<1> QED BY <1>1, RecEq, NamesAre DEF Yes_started, Eff_Yes_started

(* What is left by setting started to FALSE.                                  *)
Eff_No_started(s, t) ==
    /\ KeepsMode(s, t) /\ KeepsModel(s, t) /\ KeepsStage(s, t) /\ KeepsLocks(s, t)
    /\ KeepsPast(s, t) /\ t.mDevices = s.mDevices
    /\ t.device_opened = s.device_opened /\ t.registered = s.registered
    /\ t.ok = s.ok
    /\ ~t.started

(* What No_started(s) leaves.                                                 *)
LEMMA Does_No_started ==
    ASSUME NEW s \in StreamRecord
    PROVE  No_started(s) \in StreamRecord /\ Eff_No_started(s, No_started(s))
<1>1. No_started(s) \in StreamRecord
    BY DEF StreamRecord, No_started
<1> QED BY <1>1, RecEq, NamesAre DEF No_started, Eff_No_started

(* What is left by setting registered to TRUE.                                *)
Eff_Yes_registered(s, t) ==
    /\ KeepsMode(s, t) /\ KeepsModel(s, t) /\ KeepsStage(s, t) /\ KeepsLocks(s, t)
    /\ KeepsPast(s, t) /\ t.mDevices = s.mDevices
    /\ t.device_opened = s.device_opened /\ t.started = s.started /\ t.ok = s.ok
    /\ t.registered

(* What Yes_registered(s) leaves.                                             *)
LEMMA Does_Yes_registered ==
    ASSUME NEW s \in StreamRecord
    PROVE  /\ Yes_registered(s) \in StreamRecord
           /\ Eff_Yes_registered(s, Yes_registered(s))
<1>1. Yes_registered(s) \in StreamRecord
    BY DEF StreamRecord, Yes_registered
<1> QED BY <1>1, RecEq, NamesAre DEF Yes_registered, Eff_Yes_registered

(* What is left by setting registered to FALSE.                               *)
Eff_No_registered(s, t) ==
    /\ KeepsMode(s, t) /\ KeepsModel(s, t) /\ KeepsStage(s, t) /\ KeepsLocks(s, t)
    /\ KeepsPast(s, t) /\ t.mDevices = s.mDevices
    /\ t.device_opened = s.device_opened /\ t.started = s.started /\ t.ok = s.ok
    /\ ~t.registered

(* What No_registered(s) leaves.                                              *)
LEMMA Does_No_registered ==
    ASSUME NEW s \in StreamRecord
    PROVE  No_registered(s) \in StreamRecord /\ Eff_No_registered(s, No_registered(s))
<1>1. No_registered(s) \in StreamRecord
    BY DEF StreamRecord, No_registered
<1> QED BY <1>1, RecEq, NamesAre DEF No_registered, Eff_No_registered

(* What is left by setting wake.                                              *)
Eff_Set_wake(s, t, v) ==
    /\ KeepsMode(s, t) /\ KeepsModel(s, t) /\ KeepsDevice(s, t) /\ KeepsStage(s, t)
    /\ KeepsPast(s, t) /\ t.sleepVote = s.sleepVote
    /\ t.pending_stop = s.pending_stop /\ t.ok = s.ok
    /\ t.wake = v

(* What Set_wake(s, v) leaves.                                                *)
LEMMA Does_Set_wake ==
    ASSUME NEW s \in StreamRecord, NEW v \in Int
    PROVE  Set_wake(s, v) \in StreamRecord /\ Eff_Set_wake(s, Set_wake(s, v), v)
<1>1. Set_wake(s, v) \in StreamRecord
    BY DEF StreamRecord, Set_wake
<1> QED BY <1>1, RecEq, NamesAre DEF Set_wake, Eff_Set_wake

(* What is left by setting sleepVote to TRUE.                                 *)
Eff_Yes_sleepVote(s, t) ==
    /\ KeepsMode(s, t) /\ KeepsModel(s, t) /\ KeepsDevice(s, t) /\ KeepsStage(s, t)
    /\ KeepsPast(s, t) /\ t.wake = s.wake /\ t.pending_stop = s.pending_stop
    /\ t.ok = s.ok
    /\ t.sleepVote

(* What Yes_sleepVote(s) leaves.                                              *)
LEMMA Does_Yes_sleepVote ==
    ASSUME NEW s \in StreamRecord
    PROVE  Yes_sleepVote(s) \in StreamRecord /\ Eff_Yes_sleepVote(s, Yes_sleepVote(s))
<1>1. Yes_sleepVote(s) \in StreamRecord
    BY DEF StreamRecord, Yes_sleepVote
<1> QED BY <1>1, RecEq, NamesAre DEF Yes_sleepVote, Eff_Yes_sleepVote

(* What is left by setting sleepVote to FALSE.                                *)
Eff_No_sleepVote(s, t) ==
    /\ KeepsMode(s, t) /\ KeepsModel(s, t) /\ KeepsDevice(s, t) /\ KeepsStage(s, t)
    /\ KeepsPast(s, t) /\ t.wake = s.wake /\ t.pending_stop = s.pending_stop
    /\ t.ok = s.ok
    /\ ~t.sleepVote

(* What No_sleepVote(s) leaves.                                               *)
LEMMA Does_No_sleepVote ==
    ASSUME NEW s \in StreamRecord
    PROVE  No_sleepVote(s) \in StreamRecord /\ Eff_No_sleepVote(s, No_sleepVote(s))
<1>1. No_sleepVote(s) \in StreamRecord
    BY DEF StreamRecord, No_sleepVote
<1> QED BY <1>1, RecEq, NamesAre DEF No_sleepVote, Eff_No_sleepVote

(* What is left by setting second_stage_processing to TRUE.                   *)
Eff_Yes_second_stage_processing(s, t) ==
    /\ KeepsMode(s, t) /\ KeepsModel(s, t) /\ KeepsDevice(s, t) /\ KeepsLocks(s, t)
    /\ KeepsPast(s, t) /\ t.proc = s.proc /\ t.ok = s.ok
    /\ t.second_stage_processing

(* What Yes_second_stage_processing(s) leaves.                                *)
LEMMA Does_Yes_second_stage_processing ==
    ASSUME NEW s \in StreamRecord
    PROVE  /\ Yes_second_stage_processing(s) \in StreamRecord
           /\ Eff_Yes_second_stage_processing(s, Yes_second_stage_processing(s))
<1>1. Yes_second_stage_processing(s) \in StreamRecord
    BY DEF StreamRecord, Yes_second_stage_processing
<1> QED BY <1>1, RecEq, NamesAre
       DEF Yes_second_stage_processing, Eff_Yes_second_stage_processing

(* What is left by setting second_stage_processing to FALSE.                  *)
Eff_No_second_stage_processing(s, t) ==
    /\ KeepsMode(s, t) /\ KeepsModel(s, t) /\ KeepsDevice(s, t) /\ KeepsLocks(s, t)
    /\ KeepsPast(s, t) /\ t.proc = s.proc /\ t.ok = s.ok
    /\ ~t.second_stage_processing

(* What No_second_stage_processing(s) leaves.                                 *)
LEMMA Does_No_second_stage_processing ==
    ASSUME NEW s \in StreamRecord
    PROVE  /\ No_second_stage_processing(s) \in StreamRecord
           /\ Eff_No_second_stage_processing(s, No_second_stage_processing(s))
<1>1. No_second_stage_processing(s) \in StreamRecord
    BY DEF StreamRecord, No_second_stage_processing
<1> QED BY <1>1, RecEq, NamesAre
       DEF No_second_stage_processing, Eff_No_second_stage_processing

(* What is left by setting detection_state.                                   *)
Eff_Set_detection_state(s, t, v) == KeepsAll(s, t) /\ t.ok = s.ok

(* What Set_detection_state(s, v) leaves.                                     *)
LEMMA Does_Set_detection_state ==
    ASSUME NEW s \in StreamRecord, NEW v \in SUBSET Stage2
    PROVE  /\ Set_detection_state(s, v) \in StreamRecord
           /\ Eff_Set_detection_state(s, Set_detection_state(s, v), v)
<1>1. Set_detection_state(s, v) \in StreamRecord
    BY DEF StreamRecord, Set_detection_state
<1> QED BY <1>1, RecEq, NamesAre DEF Set_detection_state, Eff_Set_detection_state

(* What is left by setting rejection_notified to TRUE.                        *)
Eff_Yes_rejection_notified(s, t) == KeepsAll(s, t) /\ t.ok = s.ok

(* What Yes_rejection_notified(s) leaves.                                     *)
LEMMA Does_Yes_rejection_notified ==
    ASSUME NEW s \in StreamRecord
    PROVE  /\ Yes_rejection_notified(s) \in StreamRecord
           /\ Eff_Yes_rejection_notified(s, Yes_rejection_notified(s))
<1>1. Yes_rejection_notified(s) \in StreamRecord
    BY DEF StreamRecord, Yes_rejection_notified
<1> QED BY <1>1, RecEq, NamesAre DEF Yes_rejection_notified, Eff_Yes_rejection_notified

(* What is left by setting rejection_notified to FALSE.                       *)
Eff_No_rejection_notified(s, t) == KeepsAll(s, t) /\ t.ok = s.ok

(* What No_rejection_notified(s) leaves.                                      *)
LEMMA Does_No_rejection_notified ==
    ASSUME NEW s \in StreamRecord
    PROVE  /\ No_rejection_notified(s) \in StreamRecord
           /\ Eff_No_rejection_notified(s, No_rejection_notified(s))
<1>1. No_rejection_notified(s) \in StreamRecord
    BY DEF StreamRecord, No_rejection_notified
<1> QED BY <1>1, RecEq, NamesAre DEF No_rejection_notified, Eff_No_rejection_notified

(* What is left by setting pending_stop to TRUE.                              *)
Eff_Yes_pending_stop(s, t) ==
    /\ KeepsMode(s, t) /\ KeepsModel(s, t) /\ KeepsDevice(s, t) /\ KeepsStage(s, t)
    /\ KeepsPast(s, t) /\ t.wake = s.wake /\ t.sleepVote = s.sleepVote
    /\ t.ok = s.ok
    /\ t.pending_stop

(* What Yes_pending_stop(s) leaves.                                           *)
LEMMA Does_Yes_pending_stop ==
    ASSUME NEW s \in StreamRecord
    PROVE  /\ Yes_pending_stop(s) \in StreamRecord
           /\ Eff_Yes_pending_stop(s, Yes_pending_stop(s))
<1>1. Yes_pending_stop(s) \in StreamRecord
    BY DEF StreamRecord, Yes_pending_stop
<1> QED BY <1>1, RecEq, NamesAre DEF Yes_pending_stop, Eff_Yes_pending_stop

(* What is left by setting pending_stop to FALSE.                             *)
Eff_No_pending_stop(s, t) ==
    /\ KeepsMode(s, t) /\ KeepsModel(s, t) /\ KeepsDevice(s, t) /\ KeepsStage(s, t)
    /\ KeepsPast(s, t) /\ t.wake = s.wake /\ t.sleepVote = s.sleepVote
    /\ t.ok = s.ok
    /\ ~t.pending_stop

(* What No_pending_stop(s) leaves.                                            *)
LEMMA Does_No_pending_stop ==
    ASSUME NEW s \in StreamRecord
    PROVE  /\ No_pending_stop(s) \in StreamRecord
           /\ Eff_No_pending_stop(s, No_pending_stop(s))
<1>1. No_pending_stop(s) \in StreamRecord
    BY DEF StreamRecord, No_pending_stop
<1> QED BY <1>1, RecEq, NamesAre DEF No_pending_stop, Eff_No_pending_stop

(* What is left by setting timer_stop_waiting to TRUE.                        *)
Eff_Yes_timer_stop_waiting(s, t) == KeepsAll(s, t) /\ t.ok = s.ok

(* What Yes_timer_stop_waiting(s) leaves.                                     *)
LEMMA Does_Yes_timer_stop_waiting ==
    ASSUME NEW s \in StreamRecord
    PROVE  /\ Yes_timer_stop_waiting(s) \in StreamRecord
           /\ Eff_Yes_timer_stop_waiting(s, Yes_timer_stop_waiting(s))
<1>1. Yes_timer_stop_waiting(s) \in StreamRecord
    BY DEF StreamRecord, Yes_timer_stop_waiting
<1> QED BY <1>1, RecEq, NamesAre DEF Yes_timer_stop_waiting, Eff_Yes_timer_stop_waiting

(* What is left by setting timer_stop_waiting to FALSE.                       *)
Eff_No_timer_stop_waiting(s, t) == KeepsAll(s, t) /\ t.ok = s.ok

(* What No_timer_stop_waiting(s) leaves.                                      *)
LEMMA Does_No_timer_stop_waiting ==
    ASSUME NEW s \in StreamRecord
    PROVE  /\ No_timer_stop_waiting(s) \in StreamRecord
           /\ Eff_No_timer_stop_waiting(s, No_timer_stop_waiting(s))
<1>1. No_timer_stop_waiting(s) \in StreamRecord
    BY DEF StreamRecord, No_timer_stop_waiting
<1> QED BY <1>1, RecEq, NamesAre DEF No_timer_stop_waiting, Eff_No_timer_stop_waiting

(* What is left by setting timer.                                             *)
Eff_Set_timer(s, t, v) == KeepsAll(s, t) /\ t.ok = s.ok

(* What Set_timer(s, v) leaves.                                               *)
LEMMA Does_Set_timer ==
    ASSUME NEW s \in StreamRecord, NEW v \in Timers
    PROVE  Set_timer(s, v) \in StreamRecord /\ Eff_Set_timer(s, Set_timer(s, v), v)
<1>1. Set_timer(s, v) \in StreamRecord
    BY DEF StreamRecord, Set_timer, Timers
<1> QED BY <1>1, RecEq, NamesAre DEF Set_timer, Eff_Set_timer

(* What is left by setting mutex_unlocked_after_cb to TRUE.                   *)
Eff_Yes_mutex_unlocked_after_cb(s, t) == KeepsAll(s, t) /\ t.ok = s.ok

(* What Yes_mutex_unlocked_after_cb(s) leaves.                                *)
LEMMA Does_Yes_mutex_unlocked_after_cb ==
    ASSUME NEW s \in StreamRecord
    PROVE  /\ Yes_mutex_unlocked_after_cb(s) \in StreamRecord
           /\ Eff_Yes_mutex_unlocked_after_cb(s, Yes_mutex_unlocked_after_cb(s))
<1>1. Yes_mutex_unlocked_after_cb(s) \in StreamRecord
    BY DEF StreamRecord, Yes_mutex_unlocked_after_cb
<1> QED BY <1>1, RecEq, NamesAre
       DEF Yes_mutex_unlocked_after_cb, Eff_Yes_mutex_unlocked_after_cb

(* What is left by setting mutex_unlocked_after_cb to FALSE.                  *)
Eff_No_mutex_unlocked_after_cb(s, t) == KeepsAll(s, t) /\ t.ok = s.ok

(* What No_mutex_unlocked_after_cb(s) leaves.                                 *)
LEMMA Does_No_mutex_unlocked_after_cb ==
    ASSUME NEW s \in StreamRecord
    PROVE  /\ No_mutex_unlocked_after_cb(s) \in StreamRecord
           /\ Eff_No_mutex_unlocked_after_cb(s, No_mutex_unlocked_after_cb(s))
<1>1. No_mutex_unlocked_after_cb(s) \in StreamRecord
    BY DEF StreamRecord, No_mutex_unlocked_after_cb
<1> QED BY <1>1, RecEq, NamesAre
       DEF No_mutex_unlocked_after_cb, Eff_No_mutex_unlocked_after_cb

(* What is left by setting ok to TRUE.                                        *)
Eff_Yes_ok(s, t) ==
    /\ KeepsAll(s, t)
    /\ t.ok

(* What Yes_ok(s) leaves.                                                     *)
LEMMA Does_Yes_ok ==
    ASSUME NEW s \in StreamRecord
    PROVE  Yes_ok(s) \in StreamRecord /\ Eff_Yes_ok(s, Yes_ok(s))
<1>1. Yes_ok(s) \in StreamRecord
    BY DEF StreamRecord, Yes_ok
<1> QED BY <1>1, RecEq, NamesAre DEF Yes_ok, Eff_Yes_ok

(* What is left by setting ok to FALSE.                                       *)
Eff_No_ok(s, t) ==
    /\ KeepsAll(s, t)
    /\ ~t.ok

(* What No_ok(s) leaves.                                                      *)
LEMMA Does_No_ok ==
    ASSUME NEW s \in StreamRecord
    PROVE  No_ok(s) \in StreamRecord /\ Eff_No_ok(s, No_ok(s))
<1>1. No_ok(s) \in StreamRecord
    BY DEF StreamRecord, No_ok
<1> QED BY <1>1, RecEq, NamesAre DEF No_ok, Eff_No_ok

(* What is left by setting crash to TRUE.                                     *)
Eff_Yes_crash(s, t) ==
    /\ KeepsMode(s, t) /\ KeepsModel(s, t) /\ KeepsDevice(s, t) /\ KeepsStage(s, t)
    /\ KeepsLocks(s, t) /\ t.past = s.past /\ t.faults = s.faults
    /\ t.detections = s.detections /\ t.ok = s.ok
    /\ t.crash

(* What Yes_crash(s) leaves.                                                  *)
LEMMA Does_Yes_crash ==
    ASSUME NEW s \in StreamRecord
    PROVE  Yes_crash(s) \in StreamRecord /\ Eff_Yes_crash(s, Yes_crash(s))
<1>1. Yes_crash(s) \in StreamRecord
    BY DEF StreamRecord, Yes_crash
<1> QED BY <1>1, RecEq, NamesAre DEF Yes_crash, Eff_Yes_crash

(* What is left by setting past.                                              *)
Eff_Set_past(s, t, v) ==
    /\ KeepsMode(s, t) /\ KeepsModel(s, t) /\ KeepsDevice(s, t) /\ KeepsStage(s, t)
    /\ KeepsLocks(s, t) /\ t.crash = s.crash /\ t.faults = s.faults
    /\ t.detections = s.detections /\ t.ok = s.ok
    /\ t.past = v

(* What Set_past(s, v) leaves.                                                *)
LEMMA Does_Set_past ==
    ASSUME NEW s \in StreamRecord, NEW v \in SUBSET Pasts
    PROVE  Set_past(s, v) \in StreamRecord /\ Eff_Set_past(s, Set_past(s, v), v)
<1>1. Set_past(s, v) \in StreamRecord
    BY DEF StreamRecord, Set_past, Pasts
<1> QED BY <1>1, RecEq, NamesAre DEF Set_past, Eff_Set_past

(* What is left by setting faults.                                            *)
Eff_Set_faults(s, t, v) ==
    /\ KeepsMode(s, t) /\ KeepsModel(s, t) /\ KeepsDevice(s, t) /\ KeepsStage(s, t)
    /\ KeepsLocks(s, t) /\ t.past = s.past /\ t.crash = s.crash
    /\ t.detections = s.detections /\ t.ok = s.ok
    /\ t.faults = v

(* What Set_faults(s, v) leaves.                                              *)
LEMMA Does_Set_faults ==
    ASSUME NEW s \in StreamRecord, NEW v \in 0..MaxFaults
    PROVE  Set_faults(s, v) \in StreamRecord /\ Eff_Set_faults(s, Set_faults(s, v), v)
<1>1. Set_faults(s, v) \in StreamRecord
    BY DEF StreamRecord, Set_faults
<1> QED BY <1>1, RecEq, NamesAre DEF Set_faults, Eff_Set_faults

(* What is left by setting detections.                                        *)
Eff_Set_detections(s, t, v) ==
    /\ KeepsMode(s, t) /\ KeepsModel(s, t) /\ KeepsDevice(s, t) /\ KeepsStage(s, t)
    /\ KeepsLocks(s, t) /\ t.past = s.past /\ t.crash = s.crash
    /\ t.faults = s.faults /\ t.ok = s.ok
    /\ t.detections = v

(* What Set_detections(s, v) leaves.                                          *)
LEMMA Does_Set_detections ==
    ASSUME NEW s \in StreamRecord, NEW v \in 0..MaxDetections
    PROVE  /\ Set_detections(s, v) \in StreamRecord
           /\ Eff_Set_detections(s, Set_detections(s, v), v)
<1>1. Set_detections(s, v) \in StreamRecord
    BY DEF StreamRecord, Set_detections
<1> QED BY <1>1, RecEq, NamesAre DEF Set_detections, Eff_Set_detections

-----------------------------------------------------------------------------
(* The parts of the handlers.                                                 *)

(* The status is success ...                                                  *)
Eff_Ok(s, t) ==
    /\ KeepsAll(s, t)
    /\ t.ok

(* What Ok(s) leaves.                                                         *)
LEMMA Does_Ok ==
    ASSUME NEW s \in StreamRecord
    PROVE  Ok(s) \in StreamRecord /\ Eff_Ok(s, Ok(s))
<1> DEFINE a1 == Yes_ok(s)
<1>r1. a1 \in StreamRecord /\ Eff_Yes_ok(s, a1) BY Does_Yes_ok
<1>e. Ok(s) = a1
    BY DEF Ok, Yes_ok
<1> HIDE DEF a1
<1>g1. a1 \in StreamRecord /\ Eff_Ok(s, a1)
    BY <1>r1 DEF Eff_Yes_ok, Eff_Ok
<1> QED BY <1>e, <1>g1, <1>r1

(* ... or failure.                                                            *)
Eff_Failed(s, t) ==
    /\ KeepsAll(s, t)
    /\ ~t.ok

(* What Failed(s) leaves.                                                     *)
LEMMA Does_Failed ==
    ASSUME NEW s \in StreamRecord
    PROVE  Failed(s) \in StreamRecord /\ Eff_Failed(s, Failed(s))
<1> DEFINE a1 == No_ok(s)
<1>r1. a1 \in StreamRecord /\ Eff_No_ok(s, a1) BY Does_No_ok
<1>e. Failed(s) = a1
    BY DEF Failed, No_ok
<1> HIDE DEF a1
<1>g1. a1 \in StreamRecord /\ Eff_Failed(s, a1)
    BY <1>r1 DEF Eff_No_ok, Eff_Failed
<1> QED BY <1>e, <1>g1, <1>r1

(* A null pointer is used.                                                    *)
Eff_Crash(s, t) ==
    /\ KeepsMode(s, t) /\ KeepsModel(s, t) /\ KeepsDevice(s, t) /\ KeepsStage(s, t)
    /\ KeepsLocks(s, t) /\ t.past = s.past /\ t.faults = s.faults
    /\ t.detections = s.detections /\ t.ok = s.ok
    /\ t.crash

(* What Crash(s) leaves.                                                      *)
LEMMA Does_Crash ==
    ASSUME NEW s \in StreamRecord
    PROVE  Crash(s) \in StreamRecord /\ Eff_Crash(s, Crash(s))
<1> DEFINE a1 == Yes_crash(s)
<1>r1. a1 \in StreamRecord /\ Eff_Yes_crash(s, a1) BY Does_Yes_crash
<1>e. Crash(s) = a1
    BY DEF Crash, Yes_crash
<1> HIDE DEF a1
<1>g1. a1 \in StreamRecord /\ Eff_Crash(s, a1)
    BY <1>r1 DEF Eff_Yes_crash, Eff_Crash
<1> QED BY <1>e, <1>g1, <1>r1

(* A transition of the state machine.                                         *)
Eff_TransitTo(s, t, id) ==
    /\ KeepsModel(s, t) /\ KeepsDevice(s, t) /\ KeepsStage(s, t)
    /\ KeepsLocks(s, t) /\ KeepsPast(s, t)
    /\ t.state_for_restore = s.state_for_restore /\ t.currentState = s.currentState
    /\ t.paused = s.paused /\ t.ok = s.ok
    /\ t.state = id

(* What TransitTo(s, id) leaves.                                              *)
LEMMA Does_TransitTo ==
    ASSUME NEW s \in StreamRecord, NEW id \in States
    PROVE  TransitTo(s, id) \in StreamRecord /\ Eff_TransitTo(s, TransitTo(s, id), id)
<1> DEFINE a1 == Set_state(s, id)
<1>r1. a1 \in StreamRecord /\ Eff_Set_state(s, a1, id) BY Does_Set_state
<1>e. TransitTo(s, id) = a1
    BY DEF TransitTo, Set_state
<1> HIDE DEF a1
<1>g1. a1 \in StreamRecord /\ Eff_TransitTo(s, a1, id)
    BY <1>r1 DEF Eff_Set_state, Eff_TransitTo
<1> QED BY <1>e, <1>g1, <1>r1

(* A history is marked.                                                       *)
Eff_Mark(s, t, what) ==
    /\ KeepsMode(s, t) /\ KeepsModel(s, t) /\ KeepsDevice(s, t) /\ KeepsStage(s, t)
    /\ KeepsLocks(s, t) /\ t.crash = s.crash /\ t.faults = s.faults
    /\ t.detections = s.detections /\ t.ok = s.ok
    /\ t.past = With(s.past, what)

(* What Mark(s, TRUE, what) leaves.                                           *)
LEMMA Does_Mark ==
    ASSUME NEW s \in StreamRecord, NEW what \in Pasts
    PROVE  /\ Mark(s, TRUE, what) \in StreamRecord
           /\ Eff_Mark(s, Mark(s, TRUE, what), what)
<1>pv. PICK v \in SUBSET Pasts : v = With(s.past, what)
    BY FieldTypes DEF With
<1> DEFINE a1 == Set_past(s, v)
<1>r1. a1 \in StreamRecord /\ Eff_Set_past(s, a1, v) BY Does_Set_past, <1>pv
<1>e. Mark(s, TRUE, what) = a1
    BY <1>pv DEF Mark, With, Set_past
<1> HIDE DEF a1
<1>g1. a1 \in StreamRecord /\ Eff_Mark(s, a1, what)
    BY <1>pv, <1>r1 DEF Eff_Set_past, Eff_Mark
<1> QED BY <1>e, <1>g1, <1>r1

(* The wake lock of a detection is given back.                                *)
Eff_releaseWakeLock(s, t) ==
    /\ KeepsMode(s, t) /\ KeepsModel(s, t) /\ KeepsDevice(s, t) /\ KeepsStage(s, t)
    /\ KeepsPast(s, t) /\ t.sleepVote = s.sleepVote
    /\ t.pending_stop = s.pending_stop /\ t.ok = s.ok
    /\ t.wake = s.wake - 1

(* What releaseWakeLock(s) leaves.                                            *)
LEMMA Does_releaseWakeLock ==
    ASSUME NEW s \in StreamRecord
    PROVE  /\ releaseWakeLock(s) \in StreamRecord
           /\ Eff_releaseWakeLock(s, releaseWakeLock(s))
<1>pn. PICK n \in Int : n = s.wake - 1
    BY FieldTypes, StAssumption
<1> DEFINE a1 == Set_wake(s, n)
<1>r1. a1 \in StreamRecord /\ Eff_Set_wake(s, a1, n) BY Does_Set_wake, <1>pn
<1>e. releaseWakeLock(s) = a1
    BY <1>pn DEF releaseWakeLock, Set_wake
<1> HIDE DEF a1
<1>g1. a1 \in StreamRecord /\ Eff_releaseWakeLock(s, a1)
    BY <1>pn, <1>r1, StAssumption, FieldTypes DEF Eff_Set_wake, Eff_releaseWakeLock
<1> QED BY <1>e, <1>g1, <1>r1

(* The vote against sleep ends with the buffering.                            *)
Eff_dropSleepVote(s, t) ==
    /\ KeepsMode(s, t) /\ KeepsModel(s, t) /\ KeepsDevice(s, t) /\ KeepsStage(s, t)
    /\ KeepsPast(s, t) /\ t.wake = s.wake /\ t.pending_stop = s.pending_stop
    /\ t.ok = s.ok
    /\ t.sleepVote <=> s.sleepVote /\ s.state # "BUFFERING"

(* What dropSleepVote(s) leaves.                                              *)
LEMMA Does_dropSleepVote ==
    ASSUME NEW s \in StreamRecord
    PROVE  dropSleepVote(s) \in StreamRecord /\ Eff_dropSleepVote(s, dropSleepVote(s))
<1>1. CASE s.sleepVote /\ s.state # "BUFFERING"
  <2> DEFINE a1 == Yes_sleepVote(s)
  <2>r1. a1 \in StreamRecord /\ Eff_Yes_sleepVote(s, a1) BY Does_Yes_sleepVote
  <2>e. dropSleepVote(s) = a1
      BY <1>1 DEF dropSleepVote, Yes_sleepVote
  <2> HIDE DEF a1
  <2>g1. a1 \in StreamRecord /\ Eff_dropSleepVote(s, a1)
      BY <1>1, <2>r1 DEF Eff_Yes_sleepVote, Eff_dropSleepVote
  <2> QED BY <2>e, <2>g1, <2>r1
<1>2. CASE ~(s.sleepVote /\ s.state # "BUFFERING")
  <2> DEFINE a1 == No_sleepVote(s)
  <2>r1. a1 \in StreamRecord /\ Eff_No_sleepVote(s, a1) BY Does_No_sleepVote
  <2>e. dropSleepVote(s) = a1
      BY <1>2 DEF dropSleepVote, No_sleepVote
  <2> HIDE DEF a1
  <2>g1. a1 \in StreamRecord /\ Eff_dropSleepVote(s, a1)
      BY <1>2, <2>r1 DEF Eff_No_sleepVote, Eff_dropSleepVote
  <2> QED BY <2>e, <2>g1, <2>r1
<1> QED BY <1>1, <1>2

(* A delayed stop is posted ...                                               *)
Eff_PostDelayedStop(s, t) ==
    /\ KeepsMode(s, t) /\ KeepsModel(s, t) /\ KeepsDevice(s, t) /\ KeepsStage(s, t)
    /\ KeepsPast(s, t) /\ t.wake = s.wake /\ t.sleepVote = s.sleepVote
    /\ t.ok = s.ok
    /\ t.pending_stop

(* What PostDelayedStop(s) leaves.                                            *)
LEMMA Does_PostDelayedStop ==
    ASSUME NEW s \in StreamRecord
    PROVE  /\ PostDelayedStop(s) \in StreamRecord
           /\ Eff_PostDelayedStop(s, PostDelayedStop(s))
<1>pw. PICK w \in Timers : w = IF s.timer = "start" THEN "wait" ELSE s.timer
    BY FieldTypes, Values
<1> DEFINE a1 == Yes_pending_stop(s)
<1>r1. a1 \in StreamRecord /\ Eff_Yes_pending_stop(s, a1) BY Does_Yes_pending_stop
<1> DEFINE a2 == No_timer_stop_waiting(a1)
<1>r2. a2 \in StreamRecord /\ Eff_No_timer_stop_waiting(a1, a2)
    BY <1>r1, Does_No_timer_stop_waiting
<1> DEFINE a3 == Set_timer(a2, w)
<1>r3. a3 \in StreamRecord /\ Eff_Set_timer(a2, a3, w) BY <1>r2, Does_Set_timer, <1>pw
<1>e. PostDelayedStop(s) = a3
    BY <1>pw DEF PostDelayedStop, Yes_pending_stop, No_timer_stop_waiting, Set_timer
<1> HIDE DEF a1, a2, a3
<1>g1. a3 \in StreamRecord /\ Eff_PostDelayedStop(s, a3)
    BY <1>pw, <1>r1, <1>r2, <1>r3 DEF Eff_Yes_pending_stop, Eff_No_timer_stop_waiting,
       Eff_Set_timer, Eff_PostDelayedStop
<1> QED BY <1>e, <1>g1, <1>r3

(* ... and cancelled.                                                         *)
Eff_CancelDelayedStop(s, t) ==
    /\ KeepsMode(s, t) /\ KeepsModel(s, t) /\ KeepsDevice(s, t) /\ KeepsStage(s, t)
    /\ KeepsPast(s, t) /\ t.wake = s.wake /\ t.sleepVote = s.sleepVote
    /\ t.ok = s.ok
    /\ ~t.pending_stop

(* What CancelDelayedStop(s) leaves.                                          *)
LEMMA Does_CancelDelayedStop ==
    ASSUME NEW s \in StreamRecord
    PROVE  /\ CancelDelayedStop(s) \in StreamRecord
           /\ Eff_CancelDelayedStop(s, CancelDelayedStop(s))
<1>pw. PICK w \in Timers : w = IF s.timer = "wait" THEN "woken" ELSE s.timer
    BY FieldTypes, Values
<1> DEFINE a1 == No_pending_stop(s)
<1>r1. a1 \in StreamRecord /\ Eff_No_pending_stop(s, a1) BY Does_No_pending_stop
<1> DEFINE a2 == Yes_timer_stop_waiting(a1)
<1>r2. a2 \in StreamRecord /\ Eff_Yes_timer_stop_waiting(a1, a2)
    BY <1>r1, Does_Yes_timer_stop_waiting
<1> DEFINE a3 == Set_timer(a2, w)
<1>r3. a3 \in StreamRecord /\ Eff_Set_timer(a2, a3, w) BY <1>r2, Does_Set_timer, <1>pw
<1>e. CancelDelayedStop(s) = a3
    BY <1>pw DEF CancelDelayedStop, No_pending_stop, Yes_timer_stop_waiting, Set_timer
<1> HIDE DEF a1, a2, a3
<1>g1. a3 \in StreamRecord /\ Eff_CancelDelayedStop(s, a3)
    BY <1>pw, <1>r1, <1>r2, <1>r3 DEF Eff_No_pending_stop, Eff_Yes_timer_stop_waiting,
       Eff_Set_timer, Eff_CancelDelayedStop
<1> QED BY <1>e, <1>g1, <1>r3

(* The engines stop.                                                          *)
Eff_stopEngines(s, t) ==
    /\ KeepsMode(s, t) /\ KeepsModel(s, t) /\ KeepsDevice(s, t) /\ KeepsLocks(s, t)
    /\ KeepsPast(s, t) /\ t.second_stage_processing = s.second_stage_processing
    /\ t.ok = s.ok
    /\ t.proc = {}

(* What stopEngines(s) leaves.                                                *)
LEMMA Does_stopEngines ==
    ASSUME NEW s \in StreamRecord
    PROVE  stopEngines(s) \in StreamRecord /\ Eff_stopEngines(s, stopEngines(s))
<1>pv. PICK v \in Engs : v = IF s.eng \in {"running", "detected"} THEN "loaded" ELSE s.eng
    BY FieldTypes, Values
<1> DEFINE a1 == Set_eng(s, v)
<1>r1. a1 \in StreamRecord /\ Eff_Set_eng(s, a1, v) BY Does_Set_eng, <1>pv
<1> DEFINE a2 == Set_proc(a1, {})
<1>r2. a2 \in StreamRecord /\ Eff_Set_proc(a1, a2, {})
    BY <1>r1, Does_Set_proc, Values, <1>pv
<1>e. stopEngines(s) = a2
    BY <1>pv DEF stopEngines, Set_eng, Set_proc
<1> HIDE DEF a1, a2
<1>g1. a2 \in StreamRecord /\ Eff_stopEngines(s, a2)
    BY <1>pv, <1>r1, <1>r2 DEF Eff_Set_eng, Eff_Set_proc, Eff_stopEngines
<1> QED BY <1>e, <1>g1, <1>r2

(* The device stops and is closed.                                            *)
Eff_stopDevice(s, t) ==
    /\ KeepsMode(s, t) /\ KeepsModel(s, t) /\ KeepsStage(s, t) /\ KeepsLocks(s, t)
    /\ KeepsPast(s, t) /\ t.mDevices = s.mDevices /\ t.ok = s.ok
    /\ s.mDevices => ~t.registered /\ ~t.started /\ ~t.device_opened
    /\ ~s.mDevices => KeepsDevice(s, t)

(* What stopDevice(s) leaves.                                                 *)
LEMMA Does_stopDevice ==
    ASSUME NEW s \in StreamRecord
    PROVE  stopDevice(s) \in StreamRecord /\ Eff_stopDevice(s, stopDevice(s))
<1>1. CASE s.mDevices
  <2> DEFINE a1 == No_registered(s)
  <2>r1. a1 \in StreamRecord /\ Eff_No_registered(s, a1) BY Does_No_registered
  <2> DEFINE a2 == No_started(a1)
  <2>r2. a2 \in StreamRecord /\ Eff_No_started(a1, a2) BY <2>r1, Does_No_started
  <2> DEFINE a3 == No_device_opened(a2)
  <2>r3. a3 \in StreamRecord /\ Eff_No_device_opened(a2, a3)
      BY <2>r2, Does_No_device_opened
  <2>e. stopDevice(s) = a3
      BY <1>1 DEF stopDevice, No_registered, No_started, No_device_opened
  <2> HIDE DEF a1, a2, a3
  <2>g1. a3 \in StreamRecord /\ Eff_stopDevice(s, a3)
      BY <1>1, <2>r1, <2>r2, <2>r3 DEF Eff_No_registered, Eff_No_started,
         Eff_No_device_opened, Eff_stopDevice
  <2> QED BY <2>e, <2>g1, <2>r3
<1>2. CASE ~s.mDevices
  <2>e. stopDevice(s) = s
      BY <1>2 DEF stopDevice
  <2>g1. s \in StreamRecord /\ Eff_stopDevice(s, s)
      BY <1>2 DEF Eff_stopDevice
  <2> QED BY <2>e, <2>g1
<1> QED BY <1>1, <1>2

(* A device starts.                                                           *)
Eff_startDevice(s, t) ==
    /\ KeepsMode(s, t) /\ KeepsModel(s, t) /\ KeepsStage(s, t) /\ KeepsLocks(s, t)
    /\ t.mDevices = s.mDevices /\ t.device_opened = s.device_opened
    /\ t.registered = s.registered /\ t.crash = s.crash /\ t.faults = s.faults
    /\ t.detections = s.detections /\ t.ok = s.ok
    /\ t.started
    /\ s.started => t.past = With(s.past, "device")
    /\ ~s.started => t.past = s.past

(* What startDevice(s) leaves.                                                *)
LEMMA Does_startDevice ==
    ASSUME NEW s \in StreamRecord
    PROVE  startDevice(s) \in StreamRecord /\ Eff_startDevice(s, startDevice(s))
<1>1. CASE s.started
  <2> DEFINE a1 == Mark(s, TRUE, "device")
  <2>r1. a1 \in StreamRecord /\ Eff_Mark(s, a1, "device") BY Does_Mark, Values
  <2> DEFINE a2 == Yes_started(a1)
  <2>r2. a2 \in StreamRecord /\ Eff_Yes_started(a1, a2) BY <2>r1, Does_Yes_started
  <2>e. startDevice(s) = a2
      BY <1>1 DEF startDevice, Mark, Yes_started
  <2> HIDE DEF a1, a2
  <2>g1. a2 \in StreamRecord /\ Eff_startDevice(s, a2)
      BY <1>1, <2>r1, <2>r2 DEF Eff_Mark, Eff_Yes_started, Eff_startDevice
  <2> QED BY <2>e, <2>g1, <2>r2
<1>2. CASE ~s.started
  <2> DEFINE a1 == Yes_started(s)
  <2>r1. a1 \in StreamRecord /\ Eff_Yes_started(s, a1) BY Does_Yes_started
  <2>e. startDevice(s) = a1
      BY <1>2 DEF startDevice, Mark, Yes_started
  <2> HIDE DEF a1
  <2>g1. a1 \in StreamRecord /\ Eff_startDevice(s, a1)
      BY <1>2, <2>r1 DEF Eff_Yes_started, Eff_startDevice
  <2> QED BY <2>e, <2>g1, <2>r1
<1> QED BY <1>1, <1>2

(* The device is set up.                                                      *)
Eff_attach(s, t) ==
    /\ KeepsMode(s, t) /\ KeepsModel(s, t) /\ KeepsStage(s, t) /\ KeepsLocks(s, t)
    /\ KeepsPast(s, t) /\ t.device_opened = s.device_opened
    /\ t.started = s.started /\ t.registered = s.registered /\ t.ok = s.ok
    /\ t.mDevices

(* What attach(s) leaves.                                                     *)
LEMMA Does_attach ==
    ASSUME NEW s \in StreamRecord
    PROVE  attach(s) \in StreamRecord /\ Eff_attach(s, attach(s))
<1> DEFINE a1 == Yes_mDevices(s)
<1>r1. a1 \in StreamRecord /\ Eff_Yes_mDevices(s, a1) BY Does_Yes_mDevices
<1>e. attach(s) = a1
    BY DEF attach, Yes_mDevices
<1> HIDE DEF a1
<1>g1. a1 \in StreamRecord /\ Eff_attach(s, a1)
    BY <1>r1 DEF Eff_Yes_mDevices, Eff_attach
<1> QED BY <1>e, <1>g1, <1>r1

(* The sound model is loaded into the first stage.                            *)
Eff_FstageLoad(s, t, f) ==
    /\ KeepsMode(s, t) /\ KeepsModel(s, t) /\ KeepsStage(s, t) /\ KeepsLocks(s, t)
    /\ t.device_opened = s.device_opened /\ t.started = s.started
    /\ t.registered = s.registered /\ t.past = s.past /\ t.faults = s.faults
    /\ t.detections = s.detections
    /\ f = "config" => ~t.ok /\ KeepsDevice(s, t) /\ KeepsPast(s, t)
    /\ f # "config" /\ s.gsl_engine_model # "ok" => t.crash
    /\ f # "config" /\ s.gsl_engine_model = "ok"
          => t.mDevices /\ t.crash = s.crash /\ (t.ok <=> f # "load")

(* What FstageLoad(s, f) leaves.                                              *)
LEMMA Does_FstageLoad ==
    ASSUME NEW s \in StreamRecord, NEW f
    PROVE  FstageLoad(s, f) \in StreamRecord /\ Eff_FstageLoad(s, FstageLoad(s, f), f)
<1>1. CASE f = "config"
  <2> DEFINE a1 == Failed(s)
  <2>r1. a1 \in StreamRecord /\ Eff_Failed(s, a1) BY Does_Failed
  <2>e. FstageLoad(s, f) = a1
      BY <1>1 DEF FstageLoad
  <2> HIDE DEF a1
  <2>g1. a1 \in StreamRecord /\ Eff_FstageLoad(s, a1, f)
      BY <1>1, <2>r1 DEF Eff_Failed, Eff_FstageLoad
  <2> QED BY <2>e, <2>g1, <2>r1
<1>2. CASE f # "config" /\ s.gsl_engine_model # "ok"
  <2> DEFINE a1 == Crash(s)
  <2>r1. a1 \in StreamRecord /\ Eff_Crash(s, a1) BY Does_Crash
  <2>e. FstageLoad(s, f) = a1
      BY <1>2 DEF FstageLoad
  <2> HIDE DEF a1
  <2>g1. a1 \in StreamRecord /\ Eff_FstageLoad(s, a1, f)
      BY <1>2, <2>r1 DEF Eff_Crash, Eff_FstageLoad
  <2> QED BY <2>e, <2>g1, <2>r1
<1>3. CASE f = "load" /\ s.gsl_engine_model = "ok"
  <2> DEFINE a1 == attach(s)
  <2>r1. a1 \in StreamRecord /\ Eff_attach(s, a1) BY Does_attach
  <2> DEFINE a2 == Failed(a1)
  <2>r2. a2 \in StreamRecord /\ Eff_Failed(a1, a2) BY <2>r1, Does_Failed
  <2>e. FstageLoad(s, f) = a2
      BY <1>3 DEF FstageLoad
  <2> HIDE DEF a1, a2
  <2>g1. a2 \in StreamRecord /\ Eff_FstageLoad(s, a2, f)
      BY <1>3, <2>r1, <2>r2 DEF Eff_attach, Eff_Failed, Eff_FstageLoad
  <2> QED BY <2>e, <2>g1, <2>r2
<1>4. CASE f \notin {"config", "load"} /\ s.gsl_engine_model = "ok"
  <2> DEFINE a1 == attach(s)
  <2>r1. a1 \in StreamRecord /\ Eff_attach(s, a1) BY Does_attach
  <2> DEFINE a2 == Set_eng(a1, "loaded")
  <2>r2. a2 \in StreamRecord /\ Eff_Set_eng(a1, a2, "loaded")
      BY <2>r1, Does_Set_eng, Values
  <2> DEFINE a3 == Ok(a2)
  <2>r3. a3 \in StreamRecord /\ Eff_Ok(a2, a3) BY <2>r2, Does_Ok
  <2>e. FstageLoad(s, f) = a3
      BY <1>4 DEF FstageLoad, Set_eng
  <2> HIDE DEF a1, a2, a3
  <2>g1. a3 \in StreamRecord /\ Eff_FstageLoad(s, a3, f)
      BY <1>4, <2>r1, <2>r2, <2>r3 DEF Eff_attach, Eff_Set_eng, Eff_Ok, Eff_FstageLoad
  <2> QED BY <2>e, <2>g1, <2>r3
<1> QED BY <1>1, <1>2, <1>3, <1>4

(* The first stage and the device are released.                               *)
Eff_FstageUnload(s, t, f) ==
    /\ KeepsMode(s, t) /\ KeepsModel(s, t) /\ KeepsStage(s, t) /\ KeepsLocks(s, t)
    /\ KeepsPast(s, t) /\ t.started = s.started /\ t.registered = s.registered
    /\ ~t.mDevices
    /\ t.device_opened <=> s.device_opened /\ ~s.mDevices
    /\ t.ok <=> f # "reconfigure"

(* What FstageUnload(s, f) leaves.                                            *)
LEMMA Does_FstageUnload ==
    ASSUME NEW s \in StreamRecord, NEW f
    PROVE  /\ FstageUnload(s, f) \in StreamRecord
           /\ Eff_FstageUnload(s, FstageUnload(s, f), f)
<1>1. CASE (s.device_opened /\ ~s.mDevices) /\ f = "reconfigure"
  <2> DEFINE a1 == Yes_device_opened(s)
  <2>r1. a1 \in StreamRecord /\ Eff_Yes_device_opened(s, a1) BY Does_Yes_device_opened
  <2> DEFINE a2 == No_mDevices(a1)
  <2>r2. a2 \in StreamRecord /\ Eff_No_mDevices(a1, a2) BY <2>r1, Does_No_mDevices
  <2> DEFINE a3 == Failed(a2)
  <2>r3. a3 \in StreamRecord /\ Eff_Failed(a2, a3) BY <2>r2, Does_Failed
  <2>e. FstageUnload(s, f) = a3
      BY <1>1 DEF FstageUnload, Yes_device_opened, No_mDevices
  <2> HIDE DEF a1, a2, a3
  <2>g1. a3 \in StreamRecord /\ Eff_FstageUnload(s, a3, f)
      BY <1>1, <2>r1, <2>r2, <2>r3 DEF Eff_Yes_device_opened, Eff_No_mDevices, Eff_Failed,
         Eff_FstageUnload
  <2> QED BY <2>e, <2>g1, <2>r3
<1>2. CASE (s.device_opened /\ ~s.mDevices) /\ f # "reconfigure"
  <2> DEFINE a1 == Yes_device_opened(s)
  <2>r1. a1 \in StreamRecord /\ Eff_Yes_device_opened(s, a1) BY Does_Yes_device_opened
  <2> DEFINE a2 == No_mDevices(a1)
  <2>r2. a2 \in StreamRecord /\ Eff_No_mDevices(a1, a2) BY <2>r1, Does_No_mDevices
  <2> DEFINE a3 == Set_eng(a2, "none")
  <2>r3. a3 \in StreamRecord /\ Eff_Set_eng(a2, a3, "none") BY <2>r2, Does_Set_eng, Values
  <2> DEFINE a4 == Ok(a3)
  <2>r4. a4 \in StreamRecord /\ Eff_Ok(a3, a4) BY <2>r3, Does_Ok
  <2>e. FstageUnload(s, f) = a4
      BY <1>2 DEF FstageUnload, Yes_device_opened, No_mDevices, Set_eng
  <2> HIDE DEF a1, a2, a3, a4
  <2>g1. a4 \in StreamRecord /\ Eff_FstageUnload(s, a4, f)
      BY <1>2, <2>r1, <2>r2, <2>r3, <2>r4 DEF Eff_Yes_device_opened, Eff_No_mDevices,
         Eff_Set_eng, Eff_Ok, Eff_FstageUnload
  <2> QED BY <2>e, <2>g1, <2>r4
<1>3. CASE ~(s.device_opened /\ ~s.mDevices) /\ f = "reconfigure"
  <2> DEFINE a1 == No_device_opened(s)
  <2>r1. a1 \in StreamRecord /\ Eff_No_device_opened(s, a1) BY Does_No_device_opened
  <2> DEFINE a2 == No_mDevices(a1)
  <2>r2. a2 \in StreamRecord /\ Eff_No_mDevices(a1, a2) BY <2>r1, Does_No_mDevices
  <2> DEFINE a3 == Failed(a2)
  <2>r3. a3 \in StreamRecord /\ Eff_Failed(a2, a3) BY <2>r2, Does_Failed
  <2>e. FstageUnload(s, f) = a3
      BY <1>3 DEF FstageUnload, No_device_opened, No_mDevices
  <2> HIDE DEF a1, a2, a3
  <2>g1. a3 \in StreamRecord /\ Eff_FstageUnload(s, a3, f)
      BY <1>3, <2>r1, <2>r2, <2>r3 DEF Eff_No_device_opened, Eff_No_mDevices, Eff_Failed,
         Eff_FstageUnload
  <2> QED BY <2>e, <2>g1, <2>r3
<1>4. CASE ~(s.device_opened /\ ~s.mDevices) /\ f # "reconfigure"
  <2> DEFINE a1 == No_device_opened(s)
  <2>r1. a1 \in StreamRecord /\ Eff_No_device_opened(s, a1) BY Does_No_device_opened
  <2> DEFINE a2 == No_mDevices(a1)
  <2>r2. a2 \in StreamRecord /\ Eff_No_mDevices(a1, a2) BY <2>r1, Does_No_mDevices
  <2> DEFINE a3 == Set_eng(a2, "none")
  <2>r3. a3 \in StreamRecord /\ Eff_Set_eng(a2, a3, "none") BY <2>r2, Does_Set_eng, Values
  <2> DEFINE a4 == Ok(a3)
  <2>r4. a4 \in StreamRecord /\ Eff_Ok(a3, a4) BY <2>r3, Does_Ok
  <2>e. FstageUnload(s, f) = a4
      BY <1>4 DEF FstageUnload, No_device_opened, No_mDevices, Set_eng
  <2> HIDE DEF a1, a2, a3, a4
  <2>g1. a4 \in StreamRecord /\ Eff_FstageUnload(s, a4, f)
      BY <1>4, <2>r1, <2>r2, <2>r3, <2>r4 DEF Eff_No_device_opened, Eff_No_mDevices,
         Eff_Set_eng, Eff_Ok, Eff_FstageUnload
  <2> QED BY <2>e, <2>g1, <2>r4
<1> QED BY <1>1, <1>2, <1>3, <1>4

(* A recognition configuration is sent.                                       *)
Eff_SendRecognitionConfig(s, t, c, f) ==
    /\ KeepsMode(s, t) /\ KeepsDevice(s, t) /\ KeepsStage(s, t) /\ KeepsLocks(s, t)
    /\ KeepsPast(s, t) /\ t.gsl_engine_model = s.gsl_engine_model
    /\ t.stage2 = s.stage2 /\ t.sm_config = s.sm_config
    /\ t.ok <=> f # "reccfg" /\ s.gsl_engine_model = "ok"
    /\ t.ok => t.rec_config = c
    /\ ~t.ok => t.rec_config = "none"

(* What SendRecognitionConfig(s, c, f) leaves.                                *)
LEMMA Does_SendRecognitionConfig ==
    ASSUME NEW s \in StreamRecord, NEW c \in Recs, NEW f
    PROVE  /\ SendRecognitionConfig(s, c, f) \in StreamRecord
           /\ Eff_SendRecognitionConfig(s, SendRecognitionConfig(s, c, f), c, f)
<1>1. CASE f = "reccfg" \/ s.gsl_engine_model # "ok"
  <2> DEFINE a1 == Set_rec_config(s, "none")
  <2>r1. a1 \in StreamRecord /\ Eff_Set_rec_config(s, a1, "none")
      BY Does_Set_rec_config, Values
  <2> DEFINE a2 == Failed(a1)
  <2>r2. a2 \in StreamRecord /\ Eff_Failed(a1, a2) BY <2>r1, Does_Failed
  <2>e. SendRecognitionConfig(s, c, f) = a2
      BY <1>1 DEF SendRecognitionConfig, Set_rec_config
  <2> HIDE DEF a1, a2
  <2>g1. a2 \in StreamRecord /\ Eff_SendRecognitionConfig(s, a2, c, f)
      BY <1>1, <2>r1, <2>r2 DEF Eff_Set_rec_config, Eff_Failed, Eff_SendRecognitionConfig
  <2> QED BY <2>e, <2>g1, <2>r2
<1>2. CASE ~(f = "reccfg" \/ s.gsl_engine_model # "ok")
  <2> DEFINE a1 == Set_rec_config(s, c)
  <2>r1. a1 \in StreamRecord /\ Eff_Set_rec_config(s, a1, c) BY Does_Set_rec_config
  <2> DEFINE a2 == Ok(a1)
  <2>r2. a2 \in StreamRecord /\ Eff_Ok(a1, a2) BY <2>r1, Does_Ok
  <2>e. SendRecognitionConfig(s, c, f) = a2
      BY <1>2 DEF SendRecognitionConfig, Set_rec_config
  <2> HIDE DEF a1, a2
  <2>g1. a2 \in StreamRecord /\ Eff_SendRecognitionConfig(s, a2, c, f)
      BY <1>2, <2>r1, <2>r2 DEF Eff_Set_rec_config, Eff_Ok, Eff_SendRecognitionConfig
  <2> QED BY <2>e, <2>g1, <2>r2
<1> QED BY <1>1, <1>2

(* The client is told of an abort.                                            *)
Eff_notifyAbort(s, t) ==
    /\ KeepsModel(s, t) /\ KeepsDevice(s, t) /\ KeepsStage(s, t)
    /\ KeepsLocks(s, t) /\ KeepsPast(s, t) /\ t.state = s.state
    /\ t.state_for_restore = s.state_for_restore /\ t.paused = s.paused
    /\ s.sm_config => t.currentState = "STOPPED"
    /\ ~s.sm_config => t.currentState = s.currentState

(* What notifyAbort(s) leaves.                                                *)
LEMMA Does_notifyAbort ==
    ASSUME NEW s \in StreamRecord
    PROVE  notifyAbort(s) \in StreamRecord /\ Eff_notifyAbort(s, notifyAbort(s))
<1>1. CASE s.sm_config
  <2> DEFINE a1 == Set_currentState(s, "STOPPED")
  <2>r1. a1 \in StreamRecord /\ Eff_Set_currentState(s, a1, "STOPPED")
      BY Does_Set_currentState, Values
  <2> DEFINE a2 == Ok(a1)
  <2>r2. a2 \in StreamRecord /\ Eff_Ok(a1, a2) BY <2>r1, Does_Ok
  <2>e. notifyAbort(s) = a2
      BY <1>1 DEF notifyAbort, Set_currentState
  <2> HIDE DEF a1, a2
  <2>g1. a2 \in StreamRecord /\ Eff_notifyAbort(s, a2)
      BY <1>1, <2>r1, <2>r2 DEF Eff_Set_currentState, Eff_Ok, Eff_notifyAbort
  <2> QED BY <2>e, <2>g1, <2>r2
<1>2. CASE ~s.sm_config
  <2> DEFINE a1 == Failed(s)
  <2>r1. a1 \in StreamRecord /\ Eff_Failed(s, a1) BY Does_Failed
  <2>e. notifyAbort(s) = a1
      BY <1>2 DEF notifyAbort
  <2> HIDE DEF a1
  <2>g1. a1 \in StreamRecord /\ Eff_notifyAbort(s, a1)
      BY <1>2, <2>r1 DEF Eff_Failed, Eff_notifyAbort
  <2> QED BY <2>e, <2>g1, <2>r1
<1> QED BY <1>1, <1>2

(* The device of a stream that has detected is disconnected.                  *)
Eff_DisconnectEvent(s, t) ==
    /\ KeepsMode(s, t) /\ KeepsModel(s, t) /\ KeepsPast(s, t)
    /\ t.second_stage_processing = s.second_stage_processing /\ t.wake = s.wake
    /\ t.sleepVote = s.sleepVote
    /\ t.ok /\ ~t.mDevices
    /\ s.mDevices => /\ ~t.registered /\ ~t.started /\ ~t.device_opened
                     /\ ~t.pending_stop /\ t.proc = {}
    /\ ~s.mDevices => /\ KeepsDevice(s, t) /\ t.proc = s.proc
                      /\ t.pending_stop = s.pending_stop

(* What DisconnectEvent(s) leaves.                                            *)
LEMMA Does_DisconnectEvent ==
    ASSUME NEW s \in StreamRecord
    PROVE  /\ DisconnectEvent(s) \in StreamRecord
           /\ Eff_DisconnectEvent(s, DisconnectEvent(s))
<1>1. CASE ~s.mDevices
  <2> DEFINE a1 == Ok(s)
  <2>r1. a1 \in StreamRecord /\ Eff_Ok(s, a1) BY Does_Ok
  <2>e. DisconnectEvent(s) = a1
      BY <1>1 DEF DisconnectEvent
  <2> HIDE DEF a1
  <2>g1. a1 \in StreamRecord /\ Eff_DisconnectEvent(s, a1)
      BY <1>1, <2>r1 DEF Eff_Ok, Eff_DisconnectEvent
  <2> QED BY <2>e, <2>g1, <2>r1
<1>2. CASE s.mDevices
  <2> DEFINE a1 == CancelDelayedStop(s)
  <2>r1. a1 \in StreamRecord /\ Eff_CancelDelayedStop(s, a1) BY Does_CancelDelayedStop
  <2> DEFINE a2 == stopEngines(a1)
  <2>r2. a2 \in StreamRecord /\ Eff_stopEngines(a1, a2) BY <2>r1, Does_stopEngines
  <2> DEFINE a3 == stopDevice(a2)
  <2>r3. a3 \in StreamRecord /\ Eff_stopDevice(a2, a3) BY <2>r2, Does_stopDevice
  <2> DEFINE a4 == No_mDevices(a3)
  <2>r4. a4 \in StreamRecord /\ Eff_No_mDevices(a3, a4) BY <2>r3, Does_No_mDevices
  <2> DEFINE a5 == Ok(a4)
  <2>r5. a5 \in StreamRecord /\ Eff_Ok(a4, a5) BY <2>r4, Does_Ok
  <2>e. DisconnectEvent(s) = a5
      BY <1>2 DEF DisconnectEvent, No_mDevices
  <2> HIDE DEF a1, a2, a3, a4, a5
  <2>g1. a5 \in StreamRecord /\ Eff_DisconnectEvent(s, a5)
      BY <1>2, <2>r1, <2>r2, <2>r3, <2>r4, <2>r5 DEF Eff_CancelDelayedStop,
         Eff_stopEngines, Eff_stopDevice, Eff_No_mDevices, Eff_Ok, Eff_DisconnectEvent
  <2> QED BY <2>e, <2>g1, <2>r5
<1> QED BY <1>1, <1>2

(* A device is opened for a stream that does not listen ...                   *)
Eff_connectOff(s, t, f) ==
    /\ KeepsMode(s, t) /\ KeepsModel(s, t) /\ KeepsStage(s, t) /\ KeepsLocks(s, t)
    /\ KeepsPast(s, t) /\ t.started = s.started /\ t.registered = s.registered
    /\ t.ok => ~s.mDevices /\ t.mDevices /\ t.device_opened
    /\ s.mDevices => KeepsDevice(s, t) /\ ~t.ok
    /\ f = "none" => (t.ok <=> ~s.mDevices)

(* What connectDevice(s, FALSE, f) leaves.                                    *)
LEMMA Does_connectOff ==
    ASSUME NEW s \in StreamRecord, NEW f
    PROVE  /\ connectDevice(s, FALSE, f) \in StreamRecord
           /\ Eff_connectOff(s, connectDevice(s, FALSE, f), f)
<1>1. CASE s.mDevices
  <2> DEFINE a1 == Failed(s)
  <2>r1. a1 \in StreamRecord /\ Eff_Failed(s, a1) BY Does_Failed
  <2>e. connectDevice(s, FALSE, f) = a1
      BY <1>1 DEF connectDevice, Mark
  <2> HIDE DEF a1
  <2>g1. a1 \in StreamRecord /\ Eff_connectOff(s, a1, f)
      BY <1>1, <2>r1, FieldTypes DEF Eff_Failed, Eff_connectOff
  <2> QED BY <2>e, <2>g1, <2>r1
<1>2. CASE ~s.mDevices /\ f = "config"
  <2> DEFINE a1 == Failed(s)
  <2>r1. a1 \in StreamRecord /\ Eff_Failed(s, a1) BY Does_Failed
  <2>e. connectDevice(s, FALSE, f) = a1
      BY <1>2 DEF connectDevice, Mark
  <2> HIDE DEF a1
  <2>g1. a1 \in StreamRecord /\ Eff_connectOff(s, a1, f)
      BY <1>2, <2>r1, FieldTypes DEF Eff_Failed, Eff_connectOff
  <2> QED BY <2>e, <2>g1, <2>r1
<1>3. CASE ~s.mDevices /\ f = "open" /\ ~s.device_opened
  <2> DEFINE a1 == attach(s)
  <2>r1. a1 \in StreamRecord /\ Eff_attach(s, a1) BY Does_attach
  <2> DEFINE a2 == Failed(a1)
  <2>r2. a2 \in StreamRecord /\ Eff_Failed(a1, a2) BY <2>r1, Does_Failed
  <2>e. connectDevice(s, FALSE, f) = a2
      BY <1>3 DEF connectDevice, Mark
  <2> HIDE DEF a1, a2
  <2>g1. a2 \in StreamRecord /\ Eff_connectOff(s, a2, f)
      BY <1>3, <2>r1, <2>r2, FieldTypes, ZenonT(40)
         DEF Eff_attach, Eff_Failed, Eff_connectOff
  <2> QED BY <2>e, <2>g1, <2>r2
<1>4. CASE ~s.mDevices /\ f = "connect"
  <2>1. CASE s.started
    <3> DEFINE a1 == No_device_opened(s)
    <3>r1. a1 \in StreamRecord /\ Eff_No_device_opened(s, a1) BY Does_No_device_opened
    <3> DEFINE a2 == Yes_started(a1)
    <3>r2. a2 \in StreamRecord /\ Eff_Yes_started(a1, a2) BY <3>r1, Does_Yes_started
    <3> DEFINE a3 == Failed(a2)
    <3>r3. a3 \in StreamRecord /\ Eff_Failed(a2, a3) BY <3>r2, Does_Failed
    <3>e. connectDevice(s, FALSE, f) = a3
        BY <1>4, <2>1 DEF connectDevice, Mark, No_device_opened, Yes_started
    <3> HIDE DEF a1, a2, a3
    <3>g1. a3 \in StreamRecord /\ Eff_connectOff(s, a3, f)
        BY <1>4, <2>1, <3>r1, <3>r2, <3>r3, FieldTypes DEF Eff_No_device_opened,
           Eff_Yes_started, Eff_Failed, Eff_connectOff
    <3> QED BY <3>e, <3>g1, <3>r3
  <2>2. CASE ~s.started
    <3> DEFINE a1 == No_device_opened(s)
    <3>r1. a1 \in StreamRecord /\ Eff_No_device_opened(s, a1) BY Does_No_device_opened
    <3> DEFINE a2 == No_started(a1)
    <3>r2. a2 \in StreamRecord /\ Eff_No_started(a1, a2) BY <3>r1, Does_No_started
    <3> DEFINE a3 == Failed(a2)
    <3>r3. a3 \in StreamRecord /\ Eff_Failed(a2, a3) BY <3>r2, Does_Failed
    <3>e. connectDevice(s, FALSE, f) = a3
        BY <1>4, <2>2 DEF connectDevice, Mark, No_device_opened, No_started
    <3> HIDE DEF a1, a2, a3
    <3>g1. a3 \in StreamRecord /\ Eff_connectOff(s, a3, f)
        BY <1>4, <2>2, <3>r1, <3>r2, <3>r3, FieldTypes DEF Eff_No_device_opened,
           Eff_No_started, Eff_Failed, Eff_connectOff
    <3> QED BY <3>e, <3>g1, <3>r3
  <2> QED BY <2>1, <2>2
<1>5. CASE ~s.mDevices /\ f \notin {"config", "connect"} /\ (f # "open" \/ s.device_opened)
  <2> DEFINE a1 == attach(s)
  <2>r1. a1 \in StreamRecord /\ Eff_attach(s, a1) BY Does_attach
  <2> DEFINE a2 == Yes_device_opened(a1)
  <2>r2. a2 \in StreamRecord /\ Eff_Yes_device_opened(a1, a2)
      BY <2>r1, Does_Yes_device_opened
  <2> DEFINE a3 == Ok(a2)
  <2>r3. a3 \in StreamRecord /\ Eff_Ok(a2, a3) BY <2>r2, Does_Ok
  <2>e. connectDevice(s, FALSE, f) = a3
      BY <1>5 DEF connectDevice, Mark, Yes_device_opened
  <2> HIDE DEF a1, a2, a3
  <2>g1. a3 \in StreamRecord /\ Eff_connectOff(s, a3, f)
      BY <1>5, <2>r1, <2>r2, <2>r3, FieldTypes DEF Eff_attach, Eff_Yes_device_opened,
         Eff_Ok, Eff_connectOff
  <2> QED BY <2>e, <2>g1, <2>r3
<1> QED BY <1>1, <1>2, <1>3, <1>4, <1>5

(* ... and for one that does: one that is refused stays on.                   *)
Eff_connectOn(s, t, f) ==
    /\ KeepsMode(s, t) /\ KeepsModel(s, t) /\ KeepsStage(s, t) /\ KeepsLocks(s, t)
    /\ t.crash = s.crash /\ t.faults = s.faults /\ t.detections = s.detections
    /\ t.ok => /\ ~s.mDevices /\ t.mDevices /\ t.device_opened /\ t.started /\ t.registered
               /\ ~s.started => t.past = s.past
               /\ s.started => t.past = With(s.past, "device")
    /\ ~t.ok => \/ /\ t.started = s.started /\ t.registered = s.registered
                   /\ t.past = s.past
                \/ t.past = With(s.past, "device")
    /\ s.mDevices => KeepsDevice(s, t) /\ t.past = s.past /\ ~t.ok
    /\ f = "none" => (t.ok <=> ~s.mDevices)

(* What connectDevice(s, TRUE, f) leaves.                                     *)
LEMMA Does_connectOn ==
    ASSUME NEW s \in StreamRecord, NEW f
    PROVE  /\ connectDevice(s, TRUE, f) \in StreamRecord
           /\ Eff_connectOn(s, connectDevice(s, TRUE, f), f)
<1>1. CASE s.mDevices
  <2> DEFINE a1 == Failed(s)
  <2>r1. a1 \in StreamRecord /\ Eff_Failed(s, a1) BY Does_Failed
  <2>e. connectDevice(s, TRUE, f) = a1
      BY <1>1 DEF connectDevice
  <2> HIDE DEF a1
  <2>g1. a1 \in StreamRecord /\ Eff_connectOn(s, a1, f)
      BY <1>1, <2>r1 DEF Eff_Failed, Eff_connectOn
  <2> QED BY <2>e, <2>g1, <2>r1
<1>2. CASE ~s.mDevices /\ f = "config"
  <2> DEFINE a1 == Failed(s)
  <2>r1. a1 \in StreamRecord /\ Eff_Failed(s, a1) BY Does_Failed
  <2>e. connectDevice(s, TRUE, f) = a1
      BY <1>2 DEF connectDevice
  <2> HIDE DEF a1
  <2>g1. a1 \in StreamRecord /\ Eff_connectOn(s, a1, f)
      BY <1>2, <2>r1 DEF Eff_Failed, Eff_connectOn
  <2> QED BY <2>e, <2>g1, <2>r1
<1>3. CASE ~s.mDevices /\ f = "open" /\ ~s.device_opened
  <2> DEFINE a1 == attach(s)
  <2>r1. a1 \in StreamRecord /\ Eff_attach(s, a1) BY Does_attach
  <2> DEFINE a2 == Failed(a1)
  <2>r2. a2 \in StreamRecord /\ Eff_Failed(a1, a2) BY <2>r1, Does_Failed
  <2>e. connectDevice(s, TRUE, f) = a2
      BY <1>3 DEF connectDevice
  <2> HIDE DEF a1, a2
  <2>g1. a2 \in StreamRecord /\ Eff_connectOn(s, a2, f)
      BY <1>3, <2>r1, <2>r2, ZenonT(40)
         DEF Eff_attach, Eff_Failed, Eff_connectOn
  <2> QED BY <2>e, <2>g1, <2>r2
<1>4. CASE ~s.mDevices /\ f = "start"
  <2> DEFINE a1 == attach(s)
  <2>r1. a1 \in StreamRecord /\ Eff_attach(s, a1) BY Does_attach
  <2> DEFINE a2 == No_device_opened(a1)
  <2>r2. a2 \in StreamRecord /\ Eff_No_device_opened(a1, a2)
      BY <2>r1, Does_No_device_opened
  <2> DEFINE a3 == Failed(a2)
  <2>r3. a3 \in StreamRecord /\ Eff_Failed(a2, a3) BY <2>r2, Does_Failed
  <2>e. connectDevice(s, TRUE, f) = a3
      BY <1>4 DEF connectDevice, No_device_opened
  <2> HIDE DEF a1, a2, a3
  <2>g1. a3 \in StreamRecord /\ Eff_connectOn(s, a3, f)
      BY <1>4, <2>r1, <2>r2, <2>r3, ZenonT(40)
         DEF Eff_attach, Eff_No_device_opened, Eff_Failed, Eff_connectOn
  <2> QED BY <2>e, <2>g1, <2>r3
<1>5. CASE ~s.mDevices /\ f = "connect"
  <2> DEFINE a1 == Mark(s, TRUE, "device")
  <2>r1. a1 \in StreamRecord /\ Eff_Mark(s, a1, "device") BY Does_Mark, Values
  <2> DEFINE a2 == No_device_opened(a1)
  <2>r2. a2 \in StreamRecord /\ Eff_No_device_opened(a1, a2)
      BY <2>r1, Does_No_device_opened
  <2> DEFINE a3 == Yes_started(a2)
  <2>r3. a3 \in StreamRecord /\ Eff_Yes_started(a2, a3) BY <2>r2, Does_Yes_started
  <2> DEFINE a4 == Failed(a3)
  <2>r4. a4 \in StreamRecord /\ Eff_Failed(a3, a4) BY <2>r3, Does_Failed
  <2>e. connectDevice(s, TRUE, f) = a4
      BY <1>5 DEF connectDevice, No_device_opened, Yes_started
  <2> HIDE DEF a1, a2, a3, a4
  <2>f1. a4.past = With(s.past, "device") /\ ~a4.ok
      BY <1>5, <2>r1, <2>r2, <2>r3, <2>r4 DEF Eff_Mark, Eff_No_device_opened,
         Eff_Yes_started, Eff_Failed
  <2>f2. KeepsMode(s, a4) /\ KeepsModel(s, a4) /\ KeepsStage(s, a4) /\ KeepsLocks(s, a4)
      BY <1>5, <2>r1, <2>r2, <2>r3, <2>r4 DEF Eff_Mark, Eff_No_device_opened,
         Eff_Yes_started, Eff_Failed
  <2>f3. a4.crash = s.crash /\ a4.faults = s.faults /\ a4.detections = s.detections
      BY <1>5, <2>r1, <2>r2, <2>r3, <2>r4 DEF Eff_Mark, Eff_No_device_opened,
         Eff_Yes_started, Eff_Failed
  <2>f4. f # "none"
      BY <1>5, <2>r1, <2>r2, <2>r3, <2>r4 DEF Eff_Mark, Eff_No_device_opened,
         Eff_Yes_started, Eff_Failed
  <2>g1. a4 \in StreamRecord /\ Eff_connectOn(s, a4, f)
      BY <1>5, <2>f1, <2>f2, <2>f3, <2>f4, <2>r4 DEF Eff_connectOn
  <2> QED BY <2>e, <2>g1, <2>r4
<1>6. CASE /\ ~s.mDevices /\ f \notin {"config", "connect", "start"}
           /\ f # "open" \/ s.device_opened
  <2> DEFINE a1 == attach(s)
  <2>r1. a1 \in StreamRecord /\ Eff_attach(s, a1) BY Does_attach
  <2> DEFINE a2 == Yes_device_opened(a1)
  <2>r2. a2 \in StreamRecord /\ Eff_Yes_device_opened(a1, a2)
      BY <2>r1, Does_Yes_device_opened
  <2> DEFINE a3 == startDevice(a2)
  <2>r3. a3 \in StreamRecord /\ Eff_startDevice(a2, a3) BY <2>r2, Does_startDevice
  <2> DEFINE a4 == Yes_registered(a3)
  <2>r4. a4 \in StreamRecord /\ Eff_Yes_registered(a3, a4) BY <2>r3, Does_Yes_registered
  <2> DEFINE a5 == Ok(a4)
  <2>r5. a5 \in StreamRecord /\ Eff_Ok(a4, a5) BY <2>r4, Does_Ok
  <2>e. connectDevice(s, TRUE, f) = a5
      BY <1>6 DEF connectDevice, Yes_device_opened, Yes_registered
  <2> HIDE DEF a1, a2, a3, a4, a5
  <2>g1. a5 \in StreamRecord /\ Eff_connectOn(s, a5, f)
      BY <1>6, <2>r1, <2>r2, <2>r3, <2>r4, <2>r5 DEF Eff_attach, Eff_Yes_device_opened,
         Eff_startDevice, Eff_Yes_registered, Eff_Ok, Eff_connectOn
  <2> QED BY <2>e, <2>g1, <2>r5
<1> QED BY <1>1, <1>2, <1>3, <1>4, <1>5, <1>6

(* The way down to LOADED of a stream that listens or has detected.           *)
Eff_stopRecognition(s, t) ==
    /\ KeepsModel(s, t) /\ KeepsPast(s, t)
    /\ t.state_for_restore = s.state_for_restore /\ t.currentState = s.currentState
    /\ t.paused = s.paused /\ t.mDevices = s.mDevices
    /\ t.second_stage_processing = s.second_stage_processing
    /\ t.state = "LOADED" /\ t.ok /\ t.proc = {}
    /\ s.mDevices => ~t.registered /\ ~t.started /\ ~t.device_opened
    /\ ~s.mDevices => KeepsDevice(s, t)
    /\ t.sleepVote <=> s.sleepVote /\ s.state # "BUFFERING"
    /\ s.state = "ACTIVE" => t.wake = s.wake /\ t.pending_stop = s.pending_stop
    /\ s.state # "ACTIVE" => /\ t.wake = s.wake - 1
                             /\ ~t.pending_stop

(* What stopRecognition(s) leaves.                                            *)
LEMMA Does_stopRecognition ==
    ASSUME NEW s \in StreamRecord
    PROVE  /\ stopRecognition(s) \in StreamRecord
           /\ Eff_stopRecognition(s, stopRecognition(s))
<1> DEFINE a1 == dropSleepVote(s)
<1>r1. a1 \in StreamRecord /\ Eff_dropSleepVote(s, a1) BY Does_dropSleepVote
<1> DEFINE a2 == stopEngines(a1)
<1>r2. a2 \in StreamRecord /\ Eff_stopEngines(a1, a2) BY <1>r1, Does_stopEngines
<1> DEFINE a3 == stopDevice(a2)
<1>r3. a3 \in StreamRecord /\ Eff_stopDevice(a2, a3) BY <1>r2, Does_stopDevice
<1> DEFINE a4 == Ok(a3)
<1>r4. a4 \in StreamRecord /\ Eff_Ok(a3, a4) BY <1>r3, Does_Ok
<1> DEFINE a5 == TransitTo(a4, "LOADED")
<1>r5. a5 \in StreamRecord /\ Eff_TransitTo(a4, a5, "LOADED")
    BY <1>r4, Does_TransitTo, Values
<1>1. CASE s.state = "ACTIVE"
  <2>e. stopRecognition(s) = a5
      BY <1>1 DEF stopRecognition
  <2> HIDE DEF a1, a2, a3, a4, a5
  <2>g1. a5 \in StreamRecord /\ Eff_stopRecognition(s, a5)
      BY <1>1, <1>r1, <1>r2, <1>r3, <1>r4, <1>r5 DEF Eff_dropSleepVote, Eff_stopEngines,
         Eff_stopDevice, Eff_Ok, Eff_TransitTo, Eff_stopRecognition
  <2> QED BY <2>e, <2>g1, <1>r5
<1>2. CASE s.state # "ACTIVE"
  <2> DEFINE a6 == CancelDelayedStop(a5)
  <2>r6. a6 \in StreamRecord /\ Eff_CancelDelayedStop(a5, a6)
      BY <1>r5, Does_CancelDelayedStop
  <2> DEFINE a7 == releaseWakeLock(a6)
  <2>r7. a7 \in StreamRecord /\ Eff_releaseWakeLock(a6, a7) BY <2>r6, Does_releaseWakeLock
  <2>e. stopRecognition(s) = a7
      BY <1>2 DEF stopRecognition
  <2> HIDE DEF a1, a2, a3, a4, a5, a6, a7
  <2>g1. a7 \in StreamRecord /\ Eff_stopRecognition(s, a7)
      BY <1>2, <1>r1, <1>r2, <1>r3, <1>r4, <1>r5, <2>r6, <2>r7 DEF Eff_dropSleepVote,
         Eff_stopEngines, Eff_stopDevice, Eff_Ok, Eff_TransitTo, Eff_CancelDelayedStop,
         Eff_releaseWakeLock, Eff_stopRecognition
  <2> QED BY <2>e, <2>g1, <2>r7
<1> QED BY <1>1, <1>2

(* A start in LOADED.                                                         *)
Eff_Loaded_START(s, t, f) ==
    /\ KeepsModel(s, t) /\ KeepsLocks(s, t)
    /\ t.state_for_restore = s.state_for_restore /\ t.currentState = s.currentState
    /\ t.paused = s.paused /\ t.mDevices = s.mDevices
    /\ t.second_stage_processing = s.second_stage_processing /\ t.crash = s.crash
    /\ t.faults = s.faults /\ t.detections = s.detections
    /\ t.ok => /\ t.state = "ACTIVE" /\ t.proc = s.proc
               /\ ~s.paused /\ s.rec_config # "none"
               /\ s.mDevices => t.started /\ t.registered /\ t.device_opened
               /\ ~s.mDevices => KeepsDevice(s, t)
    /\ ~t.ok => /\ t.state = s.state /\ (t.proc = s.proc \/ t.proc = {})
                /\ ~s.started /\ ~s.registered => ~t.started /\ ~t.registered
    /\ ~s.started => t.past = s.past
    /\ t.past = s.past \/ t.past = With(s.past, "device")
    /\ f = "none" => (t.ok <=> ~s.paused /\ s.rec_config # "none")

(* What Loaded_START(s, f) leaves.                                            *)
LEMMA Does_Loaded_START ==
    ASSUME NEW s \in StreamRecord, NEW f
    PROVE  /\ Loaded_START(s, f) \in StreamRecord
           /\ Eff_Loaded_START(s, Loaded_START(s, f), f)
<1>1. CASE s.paused \/ s.rec_config = "none"
  <2> DEFINE a1 == Failed(s)
  <2>r1. a1 \in StreamRecord /\ Eff_Failed(s, a1) BY Does_Failed
  <2>e. Loaded_START(s, f) = a1
      BY <1>1 DEF Loaded_START
  <2> HIDE DEF a1
  <2>g1. a1 \in StreamRecord /\ Eff_Loaded_START(s, a1, f)
      BY <1>1, <2>r1 DEF Eff_Failed, Eff_Loaded_START
  <2> QED BY <2>e, <2>g1, <2>r1
<1>2. CASE /\ ~(s.paused \/ s.rec_config = "none") /\ s.mDevices
           /\ f = "open" /\ ~s.device_opened
  <2> DEFINE a1 == Failed(s)
  <2>r1. a1 \in StreamRecord /\ Eff_Failed(s, a1) BY Does_Failed
  <2>e. Loaded_START(s, f) = a1
      BY <1>2 DEF Loaded_START
  <2> HIDE DEF a1
  <2>g1. a1 \in StreamRecord /\ Eff_Loaded_START(s, a1, f)
      BY <1>2, <2>r1 DEF Eff_Failed, Eff_Loaded_START
  <2> QED BY <2>e, <2>g1, <2>r1
<1>3. CASE ~(s.paused \/ s.rec_config = "none") /\ s.mDevices /\ f = "start"
  <2> DEFINE a1 == No_device_opened(s)
  <2>r1. a1 \in StreamRecord /\ Eff_No_device_opened(s, a1) BY Does_No_device_opened
  <2> DEFINE a2 == Failed(a1)
  <2>r2. a2 \in StreamRecord /\ Eff_Failed(a1, a2) BY <2>r1, Does_Failed
  <2>e. Loaded_START(s, f) = a2
      BY <1>3 DEF Loaded_START, No_device_opened
  <2> HIDE DEF a1, a2
  <2>g1. a2 \in StreamRecord /\ Eff_Loaded_START(s, a2, f)
      BY <1>3, <2>r1, <2>r2 DEF Eff_No_device_opened, Eff_Failed, Eff_Loaded_START
  <2> QED BY <2>e, <2>g1, <2>r2
<1>4. CASE /\ ~(s.paused \/ s.rec_config = "none") /\ s.mDevices
           /\ ~(f = "open" /\ ~s.device_opened) /\ f # "start"
  <2> DEFINE a1 == startDevice(s)
  <2>r1. a1 \in StreamRecord /\ Eff_startDevice(s, a1) BY Does_startDevice
  <2> DEFINE a2 == Yes_device_opened(a1)
  <2>r2. a2 \in StreamRecord /\ Eff_Yes_device_opened(a1, a2)
      BY <2>r1, Does_Yes_device_opened
  <2> DEFINE a3 == Yes_registered(a2)
  <2>r3. a3 \in StreamRecord /\ Eff_Yes_registered(a2, a3) BY <2>r2, Does_Yes_registered
  <2>1. CASE f = "engine"
    <3> DEFINE a4 == stopEngines(a3)
    <3>r4. a4 \in StreamRecord /\ Eff_stopEngines(a3, a4) BY <2>r3, Does_stopEngines
    <3> DEFINE a5 == stopDevice(a4)
    <3>r5. a5 \in StreamRecord /\ Eff_stopDevice(a4, a5) BY <3>r4, Does_stopDevice
    <3> DEFINE a6 == Failed(a5)
    <3>r6. a6 \in StreamRecord /\ Eff_Failed(a5, a6) BY <3>r5, Does_Failed
    <3>e. Loaded_START(s, f) = a6
        BY <1>4, <2>1 DEF Loaded_START, Yes_device_opened, Yes_registered
    <3> HIDE DEF a1, a2, a3, a4, a5, a6
    <3>g1. a6 \in StreamRecord /\ Eff_Loaded_START(s, a6, f)
        BY <1>4, <2>1, <2>r1, <2>r2, <2>r3, <3>r4, <3>r5, <3>r6 DEF Eff_startDevice,
           Eff_Yes_device_opened, Eff_Yes_registered, Eff_stopEngines, Eff_stopDevice,
           Eff_Failed, Eff_Loaded_START
    <3> QED BY <3>e, <3>g1, <3>r6
  <2>2. CASE f # "engine"
    <3> DEFINE a4 == Set_eng(a3, "running")
    <3>r4. a4 \in StreamRecord /\ Eff_Set_eng(a3, a4, "running")
        BY <2>r3, Does_Set_eng, Values
    <3> DEFINE a5 == TransitTo(a4, "ACTIVE")
    <3>r5. a5 \in StreamRecord /\ Eff_TransitTo(a4, a5, "ACTIVE")
        BY <3>r4, Does_TransitTo, Values
    <3> DEFINE a6 == Ok(a5)
    <3>r6. a6 \in StreamRecord /\ Eff_Ok(a5, a6) BY <3>r5, Does_Ok
    <3>e. Loaded_START(s, f) = a6
        BY <1>4, <2>2 DEF Loaded_START, Yes_device_opened, Yes_registered, Set_eng
    <3> HIDE DEF a1, a2, a3, a4, a5, a6
    <3>g1. a6 \in StreamRecord /\ Eff_Loaded_START(s, a6, f)
        BY <1>4, <2>2, <2>r1, <2>r2, <2>r3, <3>r4, <3>r5, <3>r6 DEF Eff_startDevice,
           Eff_Yes_device_opened, Eff_Yes_registered, Eff_Set_eng, Eff_TransitTo, Eff_Ok,
           Eff_Loaded_START
    <3> QED BY <3>e, <3>g1, <3>r6
  <2> QED BY <2>1, <2>2
<1>5. CASE ~(s.paused \/ s.rec_config = "none") /\ ~s.mDevices
  <2>1. CASE f = "engine"
    <3> DEFINE a1 == stopEngines(s)
    <3>r1. a1 \in StreamRecord /\ Eff_stopEngines(s, a1) BY Does_stopEngines
    <3> DEFINE a2 == stopDevice(a1)
    <3>r2. a2 \in StreamRecord /\ Eff_stopDevice(a1, a2) BY <3>r1, Does_stopDevice
    <3> DEFINE a3 == Failed(a2)
    <3>r3. a3 \in StreamRecord /\ Eff_Failed(a2, a3) BY <3>r2, Does_Failed
    <3>e. Loaded_START(s, f) = a3
        BY <1>5, <2>1 DEF Loaded_START
    <3> HIDE DEF a1, a2, a3
    <3>g1. a3 \in StreamRecord /\ Eff_Loaded_START(s, a3, f)
        BY <1>5, <2>1, <3>r1, <3>r2, <3>r3 DEF Eff_stopEngines, Eff_stopDevice, Eff_Failed,
           Eff_Loaded_START
    <3> QED BY <3>e, <3>g1, <3>r3
  <2>2. CASE f # "engine"
    <3> DEFINE a1 == Set_eng(s, "running")
    <3>r1. a1 \in StreamRecord /\ Eff_Set_eng(s, a1, "running") BY Does_Set_eng, Values
    <3> DEFINE a2 == TransitTo(a1, "ACTIVE")
    <3>r2. a2 \in StreamRecord /\ Eff_TransitTo(a1, a2, "ACTIVE")
        BY <3>r1, Does_TransitTo, Values
    <3> DEFINE a3 == Ok(a2)
    <3>r3. a3 \in StreamRecord /\ Eff_Ok(a2, a3) BY <3>r2, Does_Ok
    <3>e. Loaded_START(s, f) = a3
        BY <1>5, <2>2 DEF Loaded_START, Set_eng
    <3> HIDE DEF a1, a2, a3
    <3>g1. a3 \in StreamRecord /\ Eff_Loaded_START(s, a3, f)
        BY <1>5, <2>2, <3>r1, <3>r2, <3>r3 DEF Eff_Set_eng, Eff_TransitTo, Eff_Ok,
           Eff_Loaded_START
    <3> QED BY <3>e, <3>g1, <3>r3
  <2> QED BY <2>1, <2>2
<1> QED BY <1>1, <1>2, <1>3, <1>4, <1>5

(* The engines are restarted.  After a failure the device still runs.         *)
Eff_restartRecognition(s, t, f) ==
    /\ KeepsModel(s, t) /\ KeepsDevice(s, t) /\ KeepsLocks(s, t)
    /\ t.state_for_restore = s.state_for_restore /\ t.currentState = s.currentState
    /\ t.paused = s.paused /\ t.second_stage_processing = s.second_stage_processing
    /\ t.crash = s.crash /\ t.faults = s.faults /\ t.detections = s.detections
    /\ t.proc = {}
    /\ t.ok => t.state = "ACTIVE" /\ t.past = s.past
    /\ ~t.ok => /\ t.state = "LOADED" /\ f = "restart"
                /\ s.started => t.past = With(s.past, "device")
                /\ ~s.started => t.past = s.past

(* What restartRecognition(s, f) leaves.                                      *)
LEMMA Does_restartRecognition ==
    ASSUME NEW s \in StreamRecord, NEW f
    PROVE  /\ restartRecognition(s, f) \in StreamRecord
           /\ Eff_restartRecognition(s, restartRecognition(s, f), f)
<1> DEFINE a1 == Set_proc(s, {})
<1>r1. a1 \in StreamRecord /\ Eff_Set_proc(s, a1, {}) BY Does_Set_proc, Values
<1>1. CASE f = "restart" /\ s.started
  <2> DEFINE a2 == stopEngines(a1)
  <2>r2. a2 \in StreamRecord /\ Eff_stopEngines(a1, a2) BY <1>r1, Does_stopEngines
  <2> DEFINE a3 == Mark(a2, TRUE, "device")
  <2>r3. a3 \in StreamRecord /\ Eff_Mark(a2, a3, "device") BY <2>r2, Does_Mark, Values
  <2> DEFINE a4 == TransitTo(a3, "LOADED")
  <2>r4. a4 \in StreamRecord /\ Eff_TransitTo(a3, a4, "LOADED")
      BY <2>r3, Does_TransitTo, Values
  <2> DEFINE a5 == Failed(a4)
  <2>r5. a5 \in StreamRecord /\ Eff_Failed(a4, a5) BY <2>r4, Does_Failed
  <2>e. restartRecognition(s, f) = a5
      BY <1>1 DEF restartRecognition, Mark, Set_proc
  <2> HIDE DEF a1, a2, a3, a4, a5
  <2>g1. a5 \in StreamRecord /\ Eff_restartRecognition(s, a5, f)
      BY <1>1, <1>r1, <2>r2, <2>r3, <2>r4, <2>r5 DEF Eff_Set_proc, Eff_stopEngines,
         Eff_Mark, Eff_TransitTo, Eff_Failed, Eff_restartRecognition
  <2> QED BY <2>e, <2>g1, <2>r5
<1>2. CASE f = "restart" /\ ~s.started
  <2> DEFINE a2 == stopEngines(a1)
  <2>r2. a2 \in StreamRecord /\ Eff_stopEngines(a1, a2) BY <1>r1, Does_stopEngines
  <2> DEFINE a3 == TransitTo(a2, "LOADED")
  <2>r3. a3 \in StreamRecord /\ Eff_TransitTo(a2, a3, "LOADED")
      BY <2>r2, Does_TransitTo, Values
  <2> DEFINE a4 == Failed(a3)
  <2>r4. a4 \in StreamRecord /\ Eff_Failed(a3, a4) BY <2>r3, Does_Failed
  <2>e. restartRecognition(s, f) = a4
      BY <1>2 DEF restartRecognition, Mark, Set_proc
  <2> HIDE DEF a1, a2, a3, a4
  <2>g1. a4 \in StreamRecord /\ Eff_restartRecognition(s, a4, f)
      BY <1>2, <1>r1, <2>r2, <2>r3, <2>r4 DEF Eff_Set_proc, Eff_stopEngines,
         Eff_TransitTo, Eff_Failed, Eff_restartRecognition
  <2> QED BY <2>e, <2>g1, <2>r4
<1>3. CASE f # "restart"
  <2> DEFINE a2 == Set_eng(a1, "running")
  <2>r2. a2 \in StreamRecord /\ Eff_Set_eng(a1, a2, "running")
      BY <1>r1, Does_Set_eng, Values
  <2> DEFINE a3 == TransitTo(a2, "ACTIVE")
  <2>r3. a3 \in StreamRecord /\ Eff_TransitTo(a2, a3, "ACTIVE")
      BY <2>r2, Does_TransitTo, Values
  <2> DEFINE a4 == Ok(a3)
  <2>r4. a4 \in StreamRecord /\ Eff_Ok(a3, a4) BY <2>r3, Does_Ok
  <2>e. restartRecognition(s, f) = a4
      BY <1>3 DEF restartRecognition, Mark, Set_proc, Set_eng
  <2> HIDE DEF a1, a2, a3, a4
  <2>g1. a4 \in StreamRecord /\ Eff_restartRecognition(s, a4, f)
      BY <1>3, <1>r1, <2>r2, <2>r3, <2>r4 DEF Eff_Set_proc, Eff_Set_eng, Eff_TransitTo,
         Eff_Ok, Eff_restartRecognition
  <2> QED BY <2>e, <2>g1, <2>r4
<1> QED BY <1>1, <1>2, <1>3

(* The sound model is unloaded.                                               *)
Eff_UnloadSoundModel(s, t) ==
    /\ KeepsMode(s, t) /\ KeepsLocks(s, t) /\ KeepsPast(s, t)
    /\ t.sm_config = s.sm_config /\ t.rec_config = s.rec_config
    /\ t.started = s.started /\ t.registered = s.registered
    /\ t.second_stage_processing = s.second_stage_processing
    /\ t.ok /\ ~t.mDevices /\ t.proc = {} /\ t.stage2 = {}
    /\ t.gsl_engine_model # "ok"

(* What UnloadSoundModel(s) leaves.                                           *)
LEMMA Does_UnloadSoundModel ==
    ASSUME NEW s \in StreamRecord
    PROVE  /\ UnloadSoundModel(s) \in StreamRecord
           /\ Eff_UnloadSoundModel(s, UnloadSoundModel(s))
<1> DEFINE a1 == stopEngines(s)
<1>r1. a1 \in StreamRecord /\ Eff_stopEngines(s, a1) BY Does_stopEngines
<1>1. CASE a1.device_opened /\ ~s.mDevices
  <2> DEFINE a2 == Yes_device_opened(a1)
  <2>r2. a2 \in StreamRecord /\ Eff_Yes_device_opened(a1, a2)
      BY <1>r1, Does_Yes_device_opened
  <2> DEFINE a3 == No_mDevices(a2)
  <2>r3. a3 \in StreamRecord /\ Eff_No_mDevices(a2, a3) BY <2>r2, Does_No_mDevices
  <2> DEFINE a4 == Set_eng(a3, "none")
  <2>r4. a4 \in StreamRecord /\ Eff_Set_eng(a3, a4, "none") BY <2>r3, Does_Set_eng, Values
  <2>pm. PICK m \in Models :
             m = IF a1.gsl_engine_model = "ok" THEN "dangling" ELSE a1.gsl_engine_model
      BY <2>r4, <1>r1, FieldTypes, Values
  <2> DEFINE a5 == Set_gsl_engine_model(a4, m)
  <2>r5. a5 \in StreamRecord /\ Eff_Set_gsl_engine_model(a4, a5, m)
      BY <2>r4, Does_Set_gsl_engine_model, <2>pm
  <2> DEFINE a6 == Set_stage2(a5, {})
  <2>r6. a6 \in StreamRecord /\ Eff_Set_stage2(a5, a6, {})
      BY <2>r5, Does_Set_stage2, Values, <2>pm
  <2> DEFINE a7 == Yes_ok(a6)
  <2>r7. a7 \in StreamRecord /\ Eff_Yes_ok(a6, a7) BY <2>r6, Does_Yes_ok
  <2>e. UnloadSoundModel(s) = a7
      BY <1>1, <2>pm DEF UnloadSoundModel, Yes_device_opened, No_mDevices, Set_eng,
         Set_gsl_engine_model, Set_stage2, Yes_ok
  <2> HIDE DEF a1, a2, a3, a4, a5, a6, a7
  <2>g1. a7 \in StreamRecord /\ Eff_UnloadSoundModel(s, a7)
      BY <1>1, <2>pm, <1>r1, <2>r2, <2>r3, <2>r4, <2>r5, <2>r6, <2>r7 DEF Eff_stopEngines,
         Eff_Yes_device_opened, Eff_No_mDevices, Eff_Set_eng, Eff_Set_gsl_engine_model,
         Eff_Set_stage2, Eff_Yes_ok, Eff_UnloadSoundModel
  <2> QED BY <2>e, <2>g1, <2>r7
<1>2. CASE ~(a1.device_opened /\ ~s.mDevices)
  <2> DEFINE a2 == No_device_opened(a1)
  <2>r2. a2 \in StreamRecord /\ Eff_No_device_opened(a1, a2)
      BY <1>r1, Does_No_device_opened
  <2> DEFINE a3 == No_mDevices(a2)
  <2>r3. a3 \in StreamRecord /\ Eff_No_mDevices(a2, a3) BY <2>r2, Does_No_mDevices
  <2> DEFINE a4 == Set_eng(a3, "none")
  <2>r4. a4 \in StreamRecord /\ Eff_Set_eng(a3, a4, "none") BY <2>r3, Does_Set_eng, Values
  <2>pm. PICK m \in Models :
             m = IF a1.gsl_engine_model = "ok" THEN "dangling" ELSE a1.gsl_engine_model
      BY <2>r4, <1>r1, FieldTypes, Values
  <2> DEFINE a5 == Set_gsl_engine_model(a4, m)
  <2>r5. a5 \in StreamRecord /\ Eff_Set_gsl_engine_model(a4, a5, m)
      BY <2>r4, Does_Set_gsl_engine_model, <2>pm
  <2> DEFINE a6 == Set_stage2(a5, {})
  <2>r6. a6 \in StreamRecord /\ Eff_Set_stage2(a5, a6, {})
      BY <2>r5, Does_Set_stage2, Values, <2>pm
  <2> DEFINE a7 == Yes_ok(a6)
  <2>r7. a7 \in StreamRecord /\ Eff_Yes_ok(a6, a7) BY <2>r6, Does_Yes_ok
  <2>e. UnloadSoundModel(s) = a7
      BY <1>2, <2>pm DEF UnloadSoundModel, No_device_opened, No_mDevices, Set_eng,
         Set_gsl_engine_model, Set_stage2, Yes_ok
  <2> HIDE DEF a1, a2, a3, a4, a5, a6, a7
  <2>g1. a7 \in StreamRecord /\ Eff_UnloadSoundModel(s, a7)
      BY <1>2, <2>pm, <1>r1, <2>r2, <2>r3, <2>r4, <2>r5, <2>r6, <2>r7 DEF Eff_stopEngines,
         Eff_No_device_opened, Eff_No_mDevices, Eff_Set_eng, Eff_Set_gsl_engine_model,
         Eff_Set_stage2, Eff_Yes_ok, Eff_UnloadSoundModel
  <2> QED BY <2>e, <2>g1, <2>r7
<1> QED BY <1>1, <1>2

-----------------------------------------------------------------------------
(* What the handlers keep.                                                    *)

(* The microphone runs for a stream that listens or has detected, and it is   *)
(* on the list of active devices while it runs.                               *)
DeviceOK(s) ==
    "device" \notin s.past =>
        /\ s.started <=> s.registered
        /\ s.started => s.state \in Running /\ s.mDevices /\ s.device_opened

(* A stream that is not loaded has no engines, and the model that waits for   *)
(* the end of a subsystem restart is not loaded.                              *)
ModelOK(s) ==
    /\ s.currentState = "IDLE" => s.stage2 = {} /\ s.gsl_engine_model # "ok"
    /\ s.sm_config => s.gsl_engine_model # "ok"

(* A stream that listens, that will listen after the restart, or whose second *)
(* stage is at work, was started.                                             *)
WantOK(s) ==
    "restore" \notin s.past =>
        /\ s.state = "ACTIVE" => s.currentState = "STARTED"
        /\ s.state # "SSR" => s.state_for_restore = "NONE"
        /\ s.state_for_restore = "ACTIVE" /\ s.gsl_engine_model = "ok"
              => s.currentState = "STARTED"
        /\ s.state = "BUFFERING" /\ s.second_stage_processing
              => s.currentState = "STARTED"

(* The wake lock is held during a detection, the vote against sleep while the *)
(* client reads.                                                              *)
WakeOK(s) ==
    "wake" \notin s.past /\ "restore" \notin s.past =>
        /\ s.wake = IF s.state \in {"DETECTED", "BUFFERING"} THEN 1 ELSE 0
        /\ s.sleepVote => s.state = "BUFFERING" /\ s.currentState # "STARTED"

(* No call failed, no concurrency paused the stream, no recovery ended early. *)
Calm(s) == "pause" \notin s.past /\ "restore" \notin s.past

(* Then a started stream runs, but for what the resource manager is about to  *)
(* bring back, with op what it is in the middle of.                           *)
RunsOK(s, op) ==
    /\ s.state \in {"LOADED"} \cup Running =>
          /\ s.gsl_engine_model = "ok" /\ s.currentState # "IDLE"
          /\ op # "device" => s.mDevices
    /\ op # "internal" => ~s.paused
    /\ s.pending_stop => /\ s.state \in {"DETECTED", "BUFFERING"}
                         /\ s.currentState # "STARTED"
    /\ s.state = "IDLE" /\ s.currentState # "IDLE"
          => op \in {"concurrent", "internal"} /\ s.gsl_engine_model = "ok"
    /\ op \in {"concurrent", "internal"} => s.state \in {"IDLE", "SSR"}
    /\ s.state = "SSR" => s.state_for_restore # "NONE"
    /\ s.currentState = "STARTED" =>
          /\ s.rec_config # "none"
          /\ s.state = "BUFFERING" => s.second_stage_processing
          /\ s.state # "DETECTED"
          /\ "config" \notin s.past =>
                /\ s.state = "SSR" => s.state_for_restore \in {"IDLE", "ACTIVE"}
                /\ s.state # "LOADED"

(* The client has its detection, or has stopped, and the stream buffers.      *)
Told(s) == s.state = "BUFFERING" /\ s.currentState # "STARTED"

(* The stream is not started.                                                 *)
Unstarts(s, t) == t.currentState = "STARTED" => s.currentState = "STARTED"

(* ... and it stays loaded.                                                   *)
Loads(s, t) == s.currentState # "IDLE" => t.currentState # "IDLE"

(* What the engines' threads and the counters rely on: of a start, and of what*)
(* does not start the stream.                                                 *)
KeptBase(s, t) ==
    /\ t.detections = s.detections /\ t.wake <= s.wake
    /\ "restore" \in s.past => "restore" \in t.past
    /\ "pause" \in s.past => "pause" \in t.past
    /\ t.proc \subseteq s.proc
    /\ Told(t) => Told(s)
    /\ Loads(s, t)
Kept(s, t) == KeptBase(s, t) /\ Unstarts(s, t)
SameModel(s, t) == t.stage2 = s.stage2
SameCard(s, t) == t.state = "SSR" <=> s.state = "SSR"
CardDown(s, t) == t.state = "SSR"
CardUp(s, t) == t.state # "SSR"
(* The thread of the engine r has gone through the end of its loop.           *)
Ended(t, r) == t.crash \/ r \notin t.proc


(* ... when the first stage has detected ...                                  *)
Noticed(s, t) ==
    /\ t.detections = s.detections + 1 /\ t.wake = s.wake + 1 /\ t.faults = s.faults
    /\ "restore" \in s.past => "restore" \in t.past
    /\ "pause" \in s.past => "pause" \in t.past
    /\ t.stage2 = s.stage2 /\ t.proc \subseteq s.stage2 \cup s.proc
    /\ t.state # "SSR"
    /\ WantOK(s) /\ Told(t) => s.stage2 = {} \/ "restore" \in s.past
    /\ Unstarts(s, t) /\ Loads(s, t)
(* ... and when the second stage engine e has an answer.                      *)
Replied(s, t, e) ==
    /\ t.detections = s.detections /\ t.wake <= s.wake /\ t.faults = s.faults
    /\ "restore" \in s.past => "restore" \in t.past
    /\ "pause" \in s.past => "pause" \in t.past
    /\ t.stage2 = s.stage2 /\ t.proc \subseteq s.proc /\ t.state # "SSR"
    /\ Told(t) => Told(s) \/ Notifies(s, e)
    /\ Unstarts(s, t) /\ Loads(s, t)

(* What a handler preserves, unless it uses a null pointer: of the device and *)
(* of the model, and of what the client wants.                                *)
PreservesBase(s, t) ==
    ~t.crash => (DeviceOK(s) => DeviceOK(t)) /\ (ModelOK(s) => ModelOK(t))
PreservesWant(s, t) ==
    ~t.crash /\ ModelOK(s) /\ WantOK(s) => WantOK(t) /\ (WakeOK(s) => WakeOK(t))
Preserves(s, t) == PreservesBase(s, t) /\ PreservesWant(s, t)

(* ... and when no call fails.                                                *)
Runs(s, op, t, next) ==
    ~t.crash /\ Calm(t) /\ ModelOK(s) /\ WantOK(s) /\ RunsOK(s, op) => RunsOK(t, next)

(* The client's call that loads a sound model.                                *)
loadCall(s, n, f) ==
    LET t == LOAD_SOUND_MODEL(s, n, f)
    IN  IF t.ok THEN [t EXCEPT !.currentState = "OPENED"] ELSE t

(* A delayed stop is posted when the client has read the data.                *)
LEMMA Ev_STOP_BUFFERING ==
    ASSUME NEW s \in StreamRecord,
           s.state = "BUFFERING", s.currentState = "STOPPED"
    PROVE  LET t == Buffering_STOP_BUFFERING(s) IN
           /\ t \in StreamRecord
           /\ Kept(s, t) /\ SameModel(s, t) /\ SameCard(s, t) /\ t.faults = s.faults
           /\ Preserves(s, t)
           /\ Runs(s, "none", t, "none")
<1>s. /\ s.state \in {"IDLE", "LOADED", "SSR", "ACTIVE", "DETECTED", "BUFFERING"}
      /\ s.wake \in Int
      /\ s.state_for_restore \in {"NONE", "IDLE", "LOADED", "ACTIVE"}
      /\ s.currentState \in {"IDLE", "OPENED", "STARTED", "STOPPED"}
    BY FieldTypes, StAssumption DEF States, Running, Restores, Currents
<1> DEFINE a1 == dropSleepVote(s)
<1>r1. a1 \in StreamRecord /\ Eff_dropSleepVote(s, a1) BY Does_dropSleepVote
<1> DEFINE a2 == PostDelayedStop(a1)
<1>r2. a2 \in StreamRecord /\ Eff_PostDelayedStop(a1, a2) BY <1>r1, Does_PostDelayedStop
<1> DEFINE a3 == Ok(a2)
<1>r3. a3 \in StreamRecord /\ Eff_Ok(a2, a3) BY <1>r2, Does_Ok
<1>e. Buffering_STOP_BUFFERING(s) = a3
    BY DEF Buffering_STOP_BUFFERING
<1> HIDE DEF a1, a2, a3
<1> USE <1>r1, <1>r2, <1>r3 DEF Eff_dropSleepVote, Eff_PostDelayedStop, Eff_Ok
<1>g1. Kept(s, a3) /\ SameModel(s, a3) /\ SameCard(s, a3) /\ a3.faults = s.faults
    BY <1>s DEF Kept, KeptBase, Unstarts, Loads, Told, With, SameModel, SameCard
<1>g2. Preserves(s, a3)
    BY <1>s DEF Preserves, PreservesBase, PreservesWant, DeviceOK, ModelOK, WantOK,
       WakeOK, With, Running
<1>g3. Runs(s, "none", a3, "none")
    BY <1>s DEF Runs, RunsOK, Calm, ModelOK, WantOK, With, Running
<1> QED BY <1>e, <1>g1, <1>g2, <1>g3, <1>r3

(* A read cancels the delayed stop and votes against sleep.                   *)
LEMMA Ev_read ==
    ASSUME NEW s \in StreamRecord,
           s.state = "BUFFERING", s.currentState = "STOPPED"
    PROVE  LET t == [CancelDelayedStop(s) EXCEPT !.sleepVote = TRUE] IN
           /\ t \in StreamRecord
           /\ Kept(s, t) /\ SameModel(s, t) /\ SameCard(s, t) /\ t.faults = s.faults
           /\ Preserves(s, t)
           /\ Runs(s, "none", t, "none")
<1>s. /\ s.state \in {"IDLE", "LOADED", "SSR", "ACTIVE", "DETECTED", "BUFFERING"}
      /\ s.wake \in Int
      /\ s.state_for_restore \in {"NONE", "IDLE", "LOADED", "ACTIVE"}
      /\ s.currentState \in {"IDLE", "OPENED", "STARTED", "STOPPED"}
    BY FieldTypes, StAssumption DEF States, Running, Restores, Currents
<1> DEFINE a1 == CancelDelayedStop(s)
<1>r1. a1 \in StreamRecord /\ Eff_CancelDelayedStop(s, a1) BY Does_CancelDelayedStop
<1> DEFINE a2 == Yes_sleepVote(a1)
<1>r2. a2 \in StreamRecord /\ Eff_Yes_sleepVote(a1, a2) BY <1>r1, Does_Yes_sleepVote
<1>e. [CancelDelayedStop(s) EXCEPT !.sleepVote = TRUE] = a2
    BY DEF Yes_sleepVote
<1> HIDE DEF a1, a2
<1> USE <1>r1, <1>r2 DEF Eff_CancelDelayedStop, Eff_Yes_sleepVote
<1>g1. Kept(s, a2) /\ SameModel(s, a2) /\ SameCard(s, a2) /\ a2.faults = s.faults
    BY <1>s DEF Kept, KeptBase, Unstarts, Loads, Told, With, SameModel, SameCard
<1>g2. Preserves(s, a2)
    BY <1>s DEF Preserves, PreservesBase, PreservesWant, DeviceOK, ModelOK, WantOK,
       WakeOK, With, Running
<1>g3. Runs(s, "none", a2, "none")
    BY <1>s DEF Runs, RunsOK, Calm, ModelOK, WantOK, With, Running
<1> QED BY <1>e, <1>g1, <1>g2, <1>g3, <1>r2

(* The client sends a configuration.                                          *)
LEMMA Ev_RECOGNITION_CONFIG ==
    ASSUME NEW s \in StreamRecord, NEW f, NEW c \in Recs,
           c # "none", s.currentState # "IDLE"
    PROVE  LET t == RECOGNITION_CONFIG(s, c, f) IN
           /\ t \in StreamRecord
           /\ Kept(s, t) /\ SameModel(s, t) /\ SameCard(s, t) /\ t.faults = s.faults
           /\ Preserves(s, t)
           /\ f = "none" => Runs(s, "none", t, "none")
<1>s. /\ s.state \in {"IDLE", "LOADED", "SSR", "ACTIVE", "DETECTED", "BUFFERING"}
      /\ s.wake \in Int
      /\ s.state_for_restore \in {"NONE", "IDLE", "LOADED", "ACTIVE"}
      /\ s.currentState \in {"IDLE", "OPENED", "STARTED", "STOPPED"}
    BY FieldTypes, StAssumption DEF States, Running, Restores, Currents
<1>1. CASE s.state = "IDLE"
  <2> DEFINE a1 == Ok(s)
  <2>r1. a1 \in StreamRecord /\ Eff_Ok(s, a1) BY Does_Ok
  <2>e. RECOGNITION_CONFIG(s, c, f) = a1
      BY <1>1 DEF RECOGNITION_CONFIG, Running_RECOGNITION_CONFIG, Ssr_RECOGNITION_CONFIG,
         Running
  <2> HIDE DEF a1
  <2> USE <1>1, <2>r1 DEF Eff_Ok
  <2>g1. Kept(s, a1) /\ SameModel(s, a1) /\ SameCard(s, a1) /\ a1.faults = s.faults
      BY <1>s DEF Kept, KeptBase, Unstarts, Loads, Told, With, SameModel, SameCard
  <2>g2. Preserves(s, a1)
      BY <1>s DEF Preserves, PreservesBase, PreservesWant, DeviceOK, ModelOK, WantOK,
         WakeOK, With, Running
  <2>g3. f = "none" => Runs(s, "none", a1, "none")
      BY <1>s DEF Runs, RunsOK, Calm, ModelOK, WantOK, With, Running
  <2> QED BY <2>e, <2>g1, <2>g2, <2>g3, <2>r1
<1>2. CASE s.state = "LOADED"
  <2> DEFINE a1 == SendRecognitionConfig(s, c, f)
  <2>r1. a1 \in StreamRecord /\ Eff_SendRecognitionConfig(s, a1, c, f)
      BY Does_SendRecognitionConfig
  <2>e. RECOGNITION_CONFIG(s, c, f) = a1
      BY <1>2 DEF RECOGNITION_CONFIG, Running_RECOGNITION_CONFIG, Ssr_RECOGNITION_CONFIG,
         Running
  <2> HIDE DEF a1
  <2> USE <1>2, <2>r1 DEF Eff_SendRecognitionConfig
  <2>g1. Kept(s, a1) /\ SameModel(s, a1) /\ SameCard(s, a1) /\ a1.faults = s.faults
      BY <1>s DEF Kept, KeptBase, Unstarts, Loads, Told, With, SameModel, SameCard
  <2>g2. Preserves(s, a1)
      BY <1>s DEF Preserves, PreservesBase, PreservesWant, DeviceOK, ModelOK, WantOK,
         WakeOK, With, Running
  <2>g3. f = "none" => Runs(s, "none", a1, "none")
      BY <1>s DEF Runs, RunsOK, Calm, ModelOK, WantOK, With, Running
  <2> QED BY <2>e, <2>g1, <2>g2, <2>g3, <2>r1
<1>3. CASE s.state \in {"ACTIVE", "DETECTED", "BUFFERING"}
  <2>1. CASE c = s.rec_config
    <3> DEFINE a1 == Ok(s)
    <3>r1. a1 \in StreamRecord /\ Eff_Ok(s, a1) BY Does_Ok
    <3>e. RECOGNITION_CONFIG(s, c, f) = a1
        BY <1>3, <2>1 DEF RECOGNITION_CONFIG, Running_RECOGNITION_CONFIG,
           Ssr_RECOGNITION_CONFIG, Running
    <3> HIDE DEF a1
    <3> USE <1>3, <2>1, <3>r1 DEF Eff_Ok
    <3>g1. Kept(s, a1) /\ SameModel(s, a1) /\ SameCard(s, a1) /\ a1.faults = s.faults
        BY <1>s DEF Kept, KeptBase, Unstarts, Loads, Told, With, SameModel, SameCard
    <3>g2. Preserves(s, a1)
        BY <1>s DEF Preserves, PreservesBase, PreservesWant, DeviceOK, ModelOK, WantOK,
           WakeOK, With, Running
    <3>g3. f = "none" => Runs(s, "none", a1, "none")
        BY <1>s DEF Runs, RunsOK, Calm, ModelOK, WantOK, With, Running
    <3> QED BY <3>e, <3>g1, <3>g2, <3>g3, <3>r1
  <2>2. CASE ~(c = s.rec_config)
    <3> DEFINE a1 == stopRecognition(s)
    <3>r1. a1 \in StreamRecord /\ Eff_stopRecognition(s, a1) BY Does_stopRecognition
    <3> DEFINE a2 == Mark(a1, TRUE, "config")
    <3>r2. a2 \in StreamRecord /\ Eff_Mark(a1, a2, "config") BY <3>r1, Does_Mark, Values
    <3> DEFINE a3 == SendRecognitionConfig(a2, c, f)
    <3>r3. a3 \in StreamRecord /\ Eff_SendRecognitionConfig(a2, a3, c, f)
        BY <3>r2, Does_SendRecognitionConfig
    <3>e. RECOGNITION_CONFIG(s, c, f) = a3
        BY <1>3, <2>2 DEF RECOGNITION_CONFIG, Running_RECOGNITION_CONFIG,
           Ssr_RECOGNITION_CONFIG, Running
    <3> HIDE DEF a1, a2, a3
    <3> USE <1>3, <2>2, <3>r1, <3>r2, <3>r3 DEF Eff_stopRecognition, Eff_Mark,
           Eff_SendRecognitionConfig
    <3>g1. Kept(s, a3) /\ SameModel(s, a3) /\ SameCard(s, a3) /\ a3.faults = s.faults
        BY <1>s DEF Kept, KeptBase, Unstarts, Loads, Told, With, SameModel, SameCard
    <3>g2. Preserves(s, a3)
        BY <1>s DEF Preserves, PreservesBase, PreservesWant, DeviceOK, ModelOK, WantOK,
           WakeOK, With, Running
    <3>g3. f = "none" => Runs(s, "none", a3, "none")
        BY <1>s DEF Runs, RunsOK, Calm, ModelOK, WantOK, With, Running
    <3> QED BY <3>e, <3>g1, <3>g2, <3>g3, <3>r3
  <2> QED BY <2>1, <2>2
<1>4. CASE s.state = "SSR"
  <2>1. CASE s.state_for_restore # "LOADED"
    <3> DEFINE a1 == Failed(s)
    <3>r1. a1 \in StreamRecord /\ Eff_Failed(s, a1) BY Does_Failed
    <3>e. RECOGNITION_CONFIG(s, c, f) = a1
        BY <1>4, <2>1 DEF RECOGNITION_CONFIG, Running_RECOGNITION_CONFIG,
           Ssr_RECOGNITION_CONFIG, Running
    <3> HIDE DEF a1
    <3> USE <1>4, <2>1, <3>r1 DEF Eff_Failed
    <3>g1. Kept(s, a1) /\ SameModel(s, a1) /\ SameCard(s, a1) /\ a1.faults = s.faults
        BY <1>s DEF Kept, KeptBase, Unstarts, Loads, Told, With, SameModel, SameCard
    <3>g2. Preserves(s, a1)
        BY <1>s DEF Preserves, PreservesBase, PreservesWant, DeviceOK, ModelOK, WantOK,
           WakeOK, With, Running
    <3>g3. f = "none" => Runs(s, "none", a1, "none")
        BY <1>s DEF Runs, RunsOK, Calm, ModelOK, WantOK, With, Running
    <3> QED BY <3>e, <3>g1, <3>g2, <3>g3, <3>r1
  <2>2. CASE ~(s.state_for_restore # "LOADED")
    <3> DEFINE a1 == Set_rec_config(s, c)
    <3>r1. a1 \in StreamRecord /\ Eff_Set_rec_config(s, a1, c) BY Does_Set_rec_config
    <3> DEFINE a2 == Ok(a1)
    <3>r2. a2 \in StreamRecord /\ Eff_Ok(a1, a2) BY <3>r1, Does_Ok
    <3>e. RECOGNITION_CONFIG(s, c, f) = a2
        BY <1>4, <2>2 DEF RECOGNITION_CONFIG, Running_RECOGNITION_CONFIG,
           Ssr_RECOGNITION_CONFIG, Running, Set_rec_config
    <3> HIDE DEF a1, a2
    <3> USE <1>4, <2>2, <3>r1, <3>r2 DEF Eff_Set_rec_config, Eff_Ok
    <3>g1. Kept(s, a2) /\ SameModel(s, a2) /\ SameCard(s, a2) /\ a2.faults = s.faults
        BY <1>s DEF Kept, KeptBase, Unstarts, Loads, Told, With, SameModel, SameCard
    <3>g2. Preserves(s, a2)
        BY <1>s DEF Preserves, PreservesBase, PreservesWant, DeviceOK, ModelOK, WantOK,
           WakeOK, With, Running
    <3>g3. f = "none" => Runs(s, "none", a2, "none")
        BY <1>s DEF Runs, RunsOK, Calm, ModelOK, WantOK, With, Running
    <3> QED BY <3>e, <3>g1, <3>g2, <3>g3, <3>r2
  <2> QED BY <2>1, <2>2
<1> QED BY <1>1, <1>2, <1>3, <1>4, <1>s

(* The client starts the stream.                                              *)
LEMMA Ev_start_l ==
    ASSUME NEW s \in StreamRecord, NEW f,
           s.currentState # "IDLE"
    PROVE  LET t == start_l(s, f) IN
           /\ t \in StreamRecord
           /\ KeptBase(s, t) /\ SameModel(s, t) /\ SameCard(s, t) /\ t.faults = s.faults
           /\ Preserves(s, t)
           /\ f = "none" => Runs(s, "none", t, "none")
<1>s. /\ s.state \in {"IDLE", "LOADED", "SSR", "ACTIVE", "DETECTED", "BUFFERING"}
      /\ s.wake \in Int
      /\ s.state_for_restore \in {"NONE", "IDLE", "LOADED", "ACTIVE"}
      /\ s.currentState \in {"IDLE", "OPENED", "STARTED", "STOPPED"}
    BY FieldTypes, StAssumption DEF States, Running, Restores, Currents
<1>pp. PICK p \in SUBSET Pasts : p = s.past \ {"config"}
    BY FieldTypes
<1>pcs. PICK cs \in Currents : cs = s.currentState
    BY FieldTypes
<1> DEFINE a1 == Set_currentState(s, "STARTED")
<1>r1. a1 \in StreamRecord /\ Eff_Set_currentState(s, a1, "STARTED")
    BY Does_Set_currentState, Values, <1>pp, <1>pcs
<1> DEFINE a2 == No_rejection_notified(a1)
<1>r2. a2 \in StreamRecord /\ Eff_No_rejection_notified(a1, a2)
    BY <1>r1, Does_No_rejection_notified
<1> DEFINE a3 == Set_past(a2, p)
<1>r3. a3 \in StreamRecord /\ Eff_Set_past(a2, a3, p)
    BY <1>r2, Does_Set_past, <1>pp, <1>pcs
<1>k1. a3.state = s.state /\ a3.state_for_restore = s.state_for_restore
          /\ a3.rec_config = s.rec_config
    BY <1>pp, <1>pcs, <1>r1, <1>r2, <1>r3 DEF Eff_Set_currentState,
       Eff_No_rejection_notified, Eff_Set_past
<1>1. CASE s.state = "LOADED"
  <2> DEFINE a4 == Loaded_START(a3, f)
  <2>r4. a4 \in StreamRecord /\ Eff_Loaded_START(a3, a4, f) BY <1>r3, Does_Loaded_START
  <2>1. CASE ~a4.ok
    <3> DEFINE a5 == Set_currentState(a4, cs)
    <3>r5. a5 \in StreamRecord /\ Eff_Set_currentState(a4, a5, cs)
        BY <2>r4, Does_Set_currentState, <1>pp, <1>pcs
    <3>e. start_l(s, f) = a5
        BY <1>pp, <1>pcs, <1>k1, <1>1, <2>1 DEF start_l, START_RECOGNITION, Detected_START,
           Ssr_START, Running, Set_currentState, No_rejection_notified, Set_past
    <3> HIDE DEF a1, a2, a3, a4, a5
    <3> USE <1>pp, <1>pcs, <1>k1, <1>1, <2>1, <1>r1, <1>r2, <1>r3, <2>r4, <3>r5 DEF
           Eff_Set_currentState, Eff_No_rejection_notified, Eff_Set_past, Eff_Loaded_START
    <3>g1. KeptBase(s, a5) /\ SameModel(s, a5) /\ SameCard(s, a5) /\ a5.faults = s.faults
        BY <1>s DEF KeptBase, Loads, Told, With, SameModel, SameCard
    <3>g2. Preserves(s, a5)
        BY <1>s DEF Preserves, PreservesBase, PreservesWant, DeviceOK, ModelOK, WantOK,
           WakeOK, With, Running
    <3>g3. f = "none" => Runs(s, "none", a5, "none")
        BY <1>s DEF Runs, RunsOK, Calm, ModelOK, WantOK, With, Running
    <3> QED BY <3>e, <3>g1, <3>g2, <3>g3, <3>r5
  <2>2. CASE a4.ok
    <3>k2. a4.rec_config # "none"
        BY <1>pp, <1>pcs, <1>k1, <1>1, <2>2, <1>r1, <1>r2, <1>r3, <2>r4 DEF
           Eff_Set_currentState, Eff_No_rejection_notified, Eff_Set_past, Eff_Loaded_START
    <3>e. start_l(s, f) = a4
        BY <1>pp, <1>pcs, <1>k1, <1>1, <2>2, <3>k2 DEF start_l, START_RECOGNITION,
           Detected_START, Ssr_START, Running, Set_currentState, No_rejection_notified,
           Set_past
    <3> HIDE DEF a1, a2, a3, a4
    <3> USE <1>pp, <1>pcs, <1>k1, <1>1, <2>2, <3>k2, <1>r1, <1>r2, <1>r3, <2>r4 DEF
           Eff_Set_currentState, Eff_No_rejection_notified, Eff_Set_past, Eff_Loaded_START
    <3>g1. KeptBase(s, a4) /\ SameModel(s, a4) /\ SameCard(s, a4) /\ a4.faults = s.faults
        BY <1>s DEF KeptBase, Loads, Told, With, SameModel, SameCard
    <3>g2. Preserves(s, a4)
        BY <1>s DEF Preserves, PreservesBase, PreservesWant, DeviceOK, ModelOK, WantOK,
           WakeOK, With, Running
    <3>g3. f = "none" => Runs(s, "none", a4, "none")
        BY <1>s DEF Runs, RunsOK, Calm, ModelOK, WantOK, With, Running
    <3> QED BY <3>e, <3>g1, <3>g2, <3>g3, <2>r4
  <2> QED BY <2>1, <2>2
<1>2. CASE s.state \in {"DETECTED", "BUFFERING"}
  <2> DEFINE a4 == dropSleepVote(a3)
  <2>r4. a4 \in StreamRecord /\ Eff_dropSleepVote(a3, a4) BY <1>r3, Does_dropSleepVote
  <2> DEFINE a5 == CancelDelayedStop(a4)
  <2>r5. a5 \in StreamRecord /\ Eff_CancelDelayedStop(a4, a5)
      BY <2>r4, Does_CancelDelayedStop
  <2> DEFINE a6 == restartRecognition(a5, f)
  <2>r6. a6 \in StreamRecord /\ Eff_restartRecognition(a5, a6, f)
      BY <2>r5, Does_restartRecognition
  <2> DEFINE a7 == releaseWakeLock(a6)
  <2>r7. a7 \in StreamRecord /\ Eff_releaseWakeLock(a6, a7) BY <2>r6, Does_releaseWakeLock
  <2>1. CASE ~a7.ok
    <3> DEFINE a8 == Set_currentState(a7, cs)
    <3>r8. a8 \in StreamRecord /\ Eff_Set_currentState(a7, a8, cs)
        BY <2>r7, Does_Set_currentState, <1>pp, <1>pcs
    <3>e. start_l(s, f) = a8
        BY <1>pp, <1>pcs, <1>k1, <1>2, <2>1 DEF start_l, START_RECOGNITION, Detected_START,
           Ssr_START, Running, Set_currentState, No_rejection_notified, Set_past
    <3> HIDE DEF a1, a2, a3, a4, a5, a6, a7, a8
    <3> USE <1>pp, <1>pcs, <1>k1, <1>2, <2>1, <1>r1, <1>r2, <1>r3, <2>r4, <2>r5, <2>r6,
           <2>r7, <3>r8 DEF Eff_Set_currentState, Eff_No_rejection_notified, Eff_Set_past,
           Eff_dropSleepVote, Eff_CancelDelayedStop, Eff_restartRecognition,
           Eff_releaseWakeLock
    <3>g1. KeptBase(s, a8) /\ SameModel(s, a8) /\ SameCard(s, a8) /\ a8.faults = s.faults
        BY <1>s DEF KeptBase, Loads, Told, With, SameModel, SameCard
    <3>g2. Preserves(s, a8)
        BY <1>s DEF Preserves, PreservesBase, PreservesWant, DeviceOK, ModelOK, WantOK,
           WakeOK, With, Running
    <3>g3. f = "none" => Runs(s, "none", a8, "none")
        BY <1>s DEF Runs, RunsOK, Calm, ModelOK, WantOK, With, Running
    <3> QED BY <3>e, <3>g1, <3>g2, <3>g3, <3>r8
  <2>2. CASE a7.ok /\ a7.rec_config = "none"
    <3> DEFINE a8 == Crash(a7)
    <3>r8. a8 \in StreamRecord /\ Eff_Crash(a7, a8) BY <2>r7, Does_Crash
    <3>e. start_l(s, f) = a8
        BY <1>pp, <1>pcs, <1>k1, <1>2, <2>2 DEF start_l, START_RECOGNITION, Detected_START,
           Ssr_START, Running, Set_currentState, No_rejection_notified, Set_past
    <3> HIDE DEF a1, a2, a3, a4, a5, a6, a7, a8
    <3> USE <1>pp, <1>pcs, <1>k1, <1>2, <2>2, <1>r1, <1>r2, <1>r3, <2>r4, <2>r5, <2>r6,
           <2>r7, <3>r8 DEF Eff_Set_currentState, Eff_No_rejection_notified, Eff_Set_past,
           Eff_dropSleepVote, Eff_CancelDelayedStop, Eff_restartRecognition,
           Eff_releaseWakeLock, Eff_Crash
    <3>g1. KeptBase(s, a8) /\ SameModel(s, a8) /\ SameCard(s, a8) /\ a8.faults = s.faults
        BY <1>s DEF KeptBase, Loads, Told, With, SameModel, SameCard
    <3>g2. Preserves(s, a8)
        BY <1>s DEF Preserves, PreservesBase, PreservesWant, DeviceOK, ModelOK, WantOK,
           WakeOK, With, Running
    <3>g3. f = "none" => Runs(s, "none", a8, "none")
        BY <1>s DEF Runs, RunsOK, Calm, ModelOK, WantOK, With, Running
    <3> QED BY <3>e, <3>g1, <3>g2, <3>g3, <3>r8
  <2>3. CASE a7.ok /\ a7.rec_config # "none"
    <3>e. start_l(s, f) = a7
        BY <1>pp, <1>pcs, <1>k1, <1>2, <2>3 DEF start_l, START_RECOGNITION, Detected_START,
           Ssr_START, Running, Set_currentState, No_rejection_notified, Set_past
    <3> HIDE DEF a1, a2, a3, a4, a5, a6, a7
    <3> USE <1>pp, <1>pcs, <1>k1, <1>2, <2>3, <1>r1, <1>r2, <1>r3, <2>r4, <2>r5, <2>r6,
       <2>r7
           DEF Eff_Set_currentState, Eff_No_rejection_notified, Eff_Set_past,
           Eff_dropSleepVote, Eff_CancelDelayedStop, Eff_restartRecognition,
           Eff_releaseWakeLock
    <3>g1. KeptBase(s, a7) /\ SameModel(s, a7) /\ SameCard(s, a7) /\ a7.faults = s.faults
        BY <1>s DEF KeptBase, Loads, Told, With, SameModel, SameCard
    <3>g2. Preserves(s, a7)
        BY <1>s DEF Preserves, PreservesBase, PreservesWant, DeviceOK, ModelOK, WantOK,
           WakeOK, With, Running
    <3>g3. f = "none" => Runs(s, "none", a7, "none")
        BY <1>s DEF Runs, RunsOK, Calm, ModelOK, WantOK, With, Running
    <3> QED BY <3>e, <3>g1, <3>g2, <3>g3, <2>r7
  <2> QED BY <2>1, <2>2, <2>3
<1>3. CASE s.state = "SSR"
  <2>1. CASE s.state_for_restore # "LOADED" \/ s.rec_config = "none"
    <3> DEFINE a4 == Failed(a3)
    <3>r4. a4 \in StreamRecord /\ Eff_Failed(a3, a4) BY <1>r3, Does_Failed
    <3>k2. ~a4.ok
        BY <1>pp, <1>pcs, <1>k1, <1>3, <2>1, <1>r1, <1>r2, <1>r3, <3>r4 DEF
           Eff_Set_currentState, Eff_No_rejection_notified, Eff_Set_past, Eff_Failed
    <3> DEFINE a5 == Set_currentState(a4, cs)
    <3>r5. a5 \in StreamRecord /\ Eff_Set_currentState(a4, a5, cs)
        BY <3>r4, Does_Set_currentState, <1>pp, <1>pcs
    <3>e. start_l(s, f) = a5
        BY <1>pp, <1>pcs, <1>k1, <1>3, <2>1, <3>k2 DEF start_l, START_RECOGNITION,
           Detected_START, Ssr_START, Running, Set_currentState, No_rejection_notified,
           Set_past
    <3> HIDE DEF a1, a2, a3, a4, a5
    <3> USE <1>pp, <1>pcs, <1>k1, <1>3, <2>1, <3>k2, <1>r1, <1>r2, <1>r3, <3>r4, <3>r5 DEF
           Eff_Set_currentState, Eff_No_rejection_notified, Eff_Set_past, Eff_Failed
    <3>g1. KeptBase(s, a5) /\ SameModel(s, a5) /\ SameCard(s, a5) /\ a5.faults = s.faults
        BY <1>s DEF KeptBase, Loads, Told, With, SameModel, SameCard
    <3>g2. Preserves(s, a5)
        BY <1>s DEF Preserves, PreservesBase, PreservesWant, DeviceOK, ModelOK, WantOK,
           WakeOK, With, Running
    <3>g3. f = "none" => Runs(s, "none", a5, "none")
        BY <1>s DEF Runs, RunsOK, Calm, ModelOK, WantOK, With, Running
    <3> QED BY <3>e, <3>g1, <3>g2, <3>g3, <3>r5
  <2>2. CASE ~(s.state_for_restore # "LOADED" \/ s.rec_config = "none")
    <3> DEFINE a4 == Set_state_for_restore(a3, "ACTIVE")
    <3>r4. a4 \in StreamRecord /\ Eff_Set_state_for_restore(a3, a4, "ACTIVE")
        BY <1>r3, Does_Set_state_for_restore, Values, <1>pp, <1>pcs
    <3> DEFINE a5 == Ok(a4)
    <3>r5. a5 \in StreamRecord /\ Eff_Ok(a4, a5) BY <3>r4, Does_Ok
    <3>k2. a5.ok /\ a5.rec_config # "none"
        BY SMTT(20), <1>pp, <1>pcs, <1>k1, <1>3, <2>2, <1>r1, <1>r2, <1>r3, <3>r4, <3>r5 DEF
           Eff_Set_currentState, Eff_No_rejection_notified, Eff_Set_past,
           Eff_Set_state_for_restore, Eff_Ok
    <3>e. start_l(s, f) = a5
        BY <1>pp, <1>pcs, <1>k1, <1>3, <2>2, <3>k2 DEF start_l, START_RECOGNITION,
           Detected_START, Ssr_START, Running, Set_currentState, No_rejection_notified,
           Set_past, Set_state_for_restore
    <3> HIDE DEF a1, a2, a3, a4, a5
    <3> USE <1>pp, <1>pcs, <1>k1, <1>3, <2>2, <3>k2, <1>r1, <1>r2, <1>r3, <3>r4, <3>r5 DEF
           Eff_Set_currentState, Eff_No_rejection_notified, Eff_Set_past,
           Eff_Set_state_for_restore, Eff_Ok
    <3>g1. KeptBase(s, a5) /\ SameModel(s, a5) /\ SameCard(s, a5) /\ a5.faults = s.faults
        BY <1>s DEF KeptBase, Loads, Told, With, SameModel, SameCard
    <3>g2. Preserves(s, a5)
        BY <1>s DEF Preserves, PreservesBase, PreservesWant, DeviceOK, ModelOK, WantOK,
           WakeOK, With, Running
    <3>g3. f = "none" => Runs(s, "none", a5, "none")
        BY <1>s DEF Runs, RunsOK, Calm, ModelOK, WantOK, With, Running
    <3> QED BY <3>e, <3>g1, <3>g2, <3>g3, <3>r5
  <2> QED BY <2>1, <2>2
<1>4. CASE s.state \in {"IDLE", "ACTIVE"}
  <2> DEFINE a4 == Ok(a3)
  <2>r4. a4 \in StreamRecord /\ Eff_Ok(a3, a4) BY <1>r3, Does_Ok
  <2>k2. a4.ok
      BY <1>pp, <1>pcs, <1>k1, <1>4, <1>r1, <1>r2, <1>r3, <2>r4 DEF Eff_Set_currentState,
         Eff_No_rejection_notified, Eff_Set_past, Eff_Ok
  <2>1. CASE a4.rec_config = "none"
    <3> DEFINE a5 == Crash(a4)
    <3>r5. a5 \in StreamRecord /\ Eff_Crash(a4, a5) BY <2>r4, Does_Crash
    <3>e. start_l(s, f) = a5
        BY <1>pp, <1>pcs, <1>k1, <1>4, <2>k2, <2>1 DEF start_l, START_RECOGNITION,
           Detected_START, Ssr_START, Running, Set_currentState, No_rejection_notified,
           Set_past
    <3> HIDE DEF a1, a2, a3, a4, a5
    <3> USE <1>pp, <1>pcs, <1>k1, <1>4, <2>k2, <2>1, <1>r1, <1>r2, <1>r3, <2>r4, <3>r5 DEF
           Eff_Set_currentState, Eff_No_rejection_notified, Eff_Set_past, Eff_Ok, Eff_Crash
    <3>g1. KeptBase(s, a5) /\ SameModel(s, a5) /\ SameCard(s, a5) /\ a5.faults = s.faults
        BY <1>s DEF KeptBase, Loads, Told, With, SameModel, SameCard
    <3>g2. Preserves(s, a5)
        BY <1>s DEF Preserves, PreservesBase, PreservesWant, DeviceOK, ModelOK, WantOK,
           WakeOK, With, Running
    <3>g3. f = "none" => Runs(s, "none", a5, "none")
        BY <1>s DEF Runs, RunsOK, Calm, ModelOK, WantOK, With, Running
    <3> QED BY <3>e, <3>g1, <3>g2, <3>g3, <3>r5
  <2>2. CASE ~(a4.rec_config = "none")
    <3>e. start_l(s, f) = a4
        BY <1>pp, <1>pcs, <1>k1, <1>4, <2>k2, <2>2 DEF start_l, START_RECOGNITION,
           Detected_START, Ssr_START, Running, Set_currentState, No_rejection_notified,
           Set_past
    <3> HIDE DEF a1, a2, a3, a4
    <3> USE <1>pp, <1>pcs, <1>k1, <1>4, <2>k2, <2>2, <1>r1, <1>r2, <1>r3, <2>r4 DEF
           Eff_Set_currentState, Eff_No_rejection_notified, Eff_Set_past, Eff_Ok
    <3>g1. KeptBase(s, a4) /\ SameModel(s, a4) /\ SameCard(s, a4) /\ a4.faults = s.faults
        BY <1>s DEF KeptBase, Loads, Told, With, SameModel, SameCard
    <3>g2. Preserves(s, a4)
        BY <1>s DEF Preserves, PreservesBase, PreservesWant, DeviceOK, ModelOK, WantOK,
           WakeOK, With, Running
    <3>g3. f = "none" => Runs(s, "none", a4, "none")
        BY <1>s DEF Runs, RunsOK, Calm, ModelOK, WantOK, With, Running
    <3> QED BY <3>e, <3>g1, <3>g2, <3>g3, <2>r4
  <2> QED BY <2>1, <2>2
<1> QED BY <1>1, <1>2, <1>3, <1>4, <1>s

(* The client stops the stream.                                               *)
LEMMA Ev_stopCall ==
    ASSUME NEW s \in StreamRecord, NEW f,
           s.currentState # "IDLE"
    PROVE  LET t == stopCall(s, f) IN
           /\ t \in StreamRecord
           /\ Kept(s, t) /\ SameModel(s, t) /\ SameCard(s, t) /\ t.faults = s.faults
           /\ (t.crash \/ t.currentState # "STARTED") /\ Preserves(s, t)
           /\ f = "none" => Runs(s, "none", t, "none")
<1>s. /\ s.state \in {"IDLE", "LOADED", "SSR", "ACTIVE", "DETECTED", "BUFFERING"}
      /\ s.wake \in Int
      /\ s.state_for_restore \in {"NONE", "IDLE", "LOADED", "ACTIVE"}
      /\ s.currentState \in {"IDLE", "OPENED", "STARTED", "STOPPED"}
    BY FieldTypes, StAssumption DEF States, Running, Restores, Currents
<1>1. CASE s.rec_config = "none"
  <2> DEFINE a1 == Crash(s)
  <2>r1. a1 \in StreamRecord /\ Eff_Crash(s, a1) BY Does_Crash
  <2>e. stopCall(s, f) = a1
      BY <1>1 DEF stopCall, STOP_RECOGNITION, Running_STOP, Ssr_STOP, Running
  <2> HIDE DEF a1
  <2> USE <1>1, <2>r1 DEF Eff_Crash
  <2>g1. Kept(s, a1) /\ SameModel(s, a1) /\ SameCard(s, a1) /\ a1.faults = s.faults
            /\ (a1.crash \/ a1.currentState # "STARTED")
      BY <1>s DEF Kept, KeptBase, Unstarts, Loads, Told, With, SameModel, SameCard
  <2>g2. Preserves(s, a1)
      BY <1>s DEF Preserves, PreservesBase, PreservesWant, DeviceOK, ModelOK, WantOK,
         WakeOK, With, Running
  <2>g3. f = "none" => Runs(s, "none", a1, "none")
      BY <1>s DEF Runs, RunsOK, Calm, ModelOK, WantOK, With, Running
  <2> QED BY <2>e, <2>g1, <2>g2, <2>g3, <2>r1
<1>2. CASE ~(s.rec_config = "none")
  <2> DEFINE a1 == Set_currentState(s, "STOPPED")
  <2>r1. a1 \in StreamRecord /\ Eff_Set_currentState(s, a1, "STOPPED")
      BY Does_Set_currentState, Values
  <2>k1. a1.state = s.state /\ a1.state_for_restore = s.state_for_restore
      BY <1>2, <2>r1 DEF Eff_Set_currentState
  <2>1. CASE s.state \in {"ACTIVE", "DETECTED", "BUFFERING"}
    <3> DEFINE a2 == stopRecognition(a1)
    <3>r2. a2 \in StreamRecord /\ Eff_stopRecognition(a1, a2)
        BY <2>r1, Does_stopRecognition
    <3>e. stopCall(s, f) = a2
        BY <1>2, <2>k1, <2>1 DEF stopCall, STOP_RECOGNITION, Running_STOP, Ssr_STOP,
           Running, Set_currentState
    <3> HIDE DEF a1, a2
    <3> USE <1>2, <2>k1, <2>1, <2>r1, <3>r2 DEF Eff_Set_currentState, Eff_stopRecognition
    <3>g1. Kept(s, a2) /\ SameModel(s, a2) /\ SameCard(s, a2) /\ a2.faults = s.faults
            /\ (a2.crash \/ a2.currentState # "STARTED")
        BY <1>s DEF Kept, KeptBase, Unstarts, Loads, Told, With, SameModel, SameCard
    <3>g2. Preserves(s, a2)
        BY <1>s DEF Preserves, PreservesBase, PreservesWant, DeviceOK, ModelOK, WantOK,
           WakeOK, With, Running
    <3>g3. f = "none" => Runs(s, "none", a2, "none")
        BY <1>s DEF Runs, RunsOK, Calm, ModelOK, WantOK, With, Running
    <3> QED BY <3>e, <3>g1, <3>g2, <3>g3, <3>r2
  <2>2. CASE s.state = "SSR"
    <3>1. CASE s.state_for_restore # "ACTIVE"
      <4> DEFINE a2 == Failed(a1)
      <4>r2. a2 \in StreamRecord /\ Eff_Failed(a1, a2) BY <2>r1, Does_Failed
      <4>e. stopCall(s, f) = a2
          BY <1>2, <2>k1, <2>2, <3>1 DEF stopCall, STOP_RECOGNITION, Running_STOP, Ssr_STOP,
             Running, Set_currentState
      <4> HIDE DEF a1, a2
      <4> USE <1>2, <2>k1, <2>2, <3>1, <2>r1, <4>r2 DEF Eff_Set_currentState, Eff_Failed
      <4>g1. Kept(s, a2) /\ SameModel(s, a2) /\ SameCard(s, a2) /\ a2.faults = s.faults
            /\ (a2.crash \/ a2.currentState # "STARTED")
          BY <1>s DEF Kept, KeptBase, Unstarts, Loads, Told, With, SameModel, SameCard
      <4>g2. Preserves(s, a2)
          BY <1>s DEF Preserves, PreservesBase, PreservesWant, DeviceOK, ModelOK, WantOK,
             WakeOK, With, Running
      <4>g3. f = "none" => Runs(s, "none", a2, "none")
          BY <1>s DEF Runs, RunsOK, Calm, ModelOK, WantOK, With, Running
      <4> QED BY <4>e, <4>g1, <4>g2, <4>g3, <4>r2
    <3>2. CASE ~(s.state_for_restore # "ACTIVE")
      <4> DEFINE a2 == Set_state_for_restore(a1, "LOADED")
      <4>r2. a2 \in StreamRecord /\ Eff_Set_state_for_restore(a1, a2, "LOADED")
          BY <2>r1, Does_Set_state_for_restore, Values
      <4> DEFINE a3 == Ok(a2)
      <4>r3. a3 \in StreamRecord /\ Eff_Ok(a2, a3) BY <4>r2, Does_Ok
      <4>e. stopCall(s, f) = a3
          BY <1>2, <2>k1, <2>2, <3>2 DEF stopCall, STOP_RECOGNITION, Running_STOP, Ssr_STOP,
             Running, Set_currentState, Set_state_for_restore
      <4> HIDE DEF a1, a2, a3
      <4> USE <1>2, <2>k1, <2>2, <3>2, <2>r1, <4>r2, <4>r3 DEF Eff_Set_currentState,
             Eff_Set_state_for_restore, Eff_Ok
      <4>g1. Kept(s, a3) /\ SameModel(s, a3) /\ SameCard(s, a3) /\ a3.faults = s.faults
            /\ (a3.crash \/ a3.currentState # "STARTED")
          BY <1>s DEF Kept, KeptBase, Unstarts, Loads, Told, With, SameModel, SameCard
      <4>g2. Preserves(s, a3)
          BY <1>s DEF Preserves, PreservesBase, PreservesWant, DeviceOK, ModelOK, WantOK,
             WakeOK, With, Running
      <4>g3. f = "none" => Runs(s, "none", a3, "none")
          BY <1>s DEF Runs, RunsOK, Calm, ModelOK, WantOK, With, Running
      <4> QED BY <4>e, <4>g1, <4>g2, <4>g3, <4>r3
    <3> QED BY <3>1, <3>2
  <2>3. CASE s.state \in {"IDLE", "LOADED"}
    <3> DEFINE a2 == Ok(a1)
    <3>r2. a2 \in StreamRecord /\ Eff_Ok(a1, a2) BY <2>r1, Does_Ok
    <3>e. stopCall(s, f) = a2
        BY <1>2, <2>k1, <2>3 DEF stopCall, STOP_RECOGNITION, Running_STOP, Ssr_STOP,
           Running, Set_currentState
    <3> HIDE DEF a1, a2
    <3> USE <1>2, <2>k1, <2>3, <2>r1, <3>r2 DEF Eff_Set_currentState, Eff_Ok
    <3>g1. Kept(s, a2) /\ SameModel(s, a2) /\ SameCard(s, a2) /\ a2.faults = s.faults
            /\ (a2.crash \/ a2.currentState # "STARTED")
        BY <1>s DEF Kept, KeptBase, Unstarts, Loads, Told, With, SameModel, SameCard
    <3>g2. Preserves(s, a2)
        BY <1>s DEF Preserves, PreservesBase, PreservesWant, DeviceOK, ModelOK, WantOK,
           WakeOK, With, Running
    <3>g3. f = "none" => Runs(s, "none", a2, "none")
        BY <1>s DEF Runs, RunsOK, Calm, ModelOK, WantOK, With, Running
    <3> QED BY <3>e, <3>g1, <3>g2, <3>g3, <3>r2
  <2> QED BY <2>1, <2>2, <2>3, <1>s
<1> QED BY <1>1, <1>2

(* The delayed stop stops the stream.                                         *)
LEMMA Ev_InternalStop ==
    ASSUME NEW s \in StreamRecord,
           s.pending_stop = TRUE
    PROVE  LET t == [STOP_RECOGNITION(s) EXCEPT !.timer = "back", !.ok = TRUE] IN
           /\ t \in StreamRecord
           /\ Kept(s, t) /\ SameModel(s, t) /\ SameCard(s, t) /\ t.faults = s.faults
           /\ Preserves(s, t)
           /\ Runs(s, "none", t, "none")
<1>s. /\ s.state \in {"IDLE", "LOADED", "SSR", "ACTIVE", "DETECTED", "BUFFERING"}
      /\ s.wake \in Int
      /\ s.state_for_restore \in {"NONE", "IDLE", "LOADED", "ACTIVE"}
      /\ s.currentState \in {"IDLE", "OPENED", "STARTED", "STOPPED"}
    BY FieldTypes, StAssumption DEF States, Running, Restores, Currents
<1>1. CASE s.state \in {"ACTIVE", "DETECTED", "BUFFERING"}
  <2> DEFINE a1 == stopRecognition(s)
  <2>r1. a1 \in StreamRecord /\ Eff_stopRecognition(s, a1) BY Does_stopRecognition
  <2> DEFINE a2 == Set_timer(a1, "back")
  <2>r2. a2 \in StreamRecord /\ Eff_Set_timer(a1, a2, "back")
      BY <2>r1, Does_Set_timer, Values
  <2> DEFINE a3 == Yes_ok(a2)
  <2>r3. a3 \in StreamRecord /\ Eff_Yes_ok(a2, a3) BY <2>r2, Does_Yes_ok
  <2>e. [STOP_RECOGNITION(s) EXCEPT !.timer = "back", !.ok = TRUE] = a3
      BY <1>1 DEF STOP_RECOGNITION, Running_STOP, Ssr_STOP, Running, Set_timer, Yes_ok
  <2> HIDE DEF a1, a2, a3
  <2> USE <1>1, <2>r1, <2>r2, <2>r3 DEF Eff_stopRecognition, Eff_Set_timer, Eff_Yes_ok
  <2>g1. Kept(s, a3) /\ SameModel(s, a3) /\ SameCard(s, a3) /\ a3.faults = s.faults
      BY <1>s DEF Kept, KeptBase, Unstarts, Loads, Told, With, SameModel, SameCard
  <2>g2. Preserves(s, a3)
      BY <1>s DEF Preserves, PreservesBase, PreservesWant, DeviceOK, ModelOK, WantOK,
         WakeOK, With, Running
  <2>g3. Runs(s, "none", a3, "none")
      BY <1>s DEF Runs, RunsOK, Calm, ModelOK, WantOK, With, Running
  <2> QED BY <2>e, <2>g1, <2>g2, <2>g3, <2>r3
<1>2. CASE s.state = "SSR"
  <2>1. CASE s.state_for_restore # "ACTIVE"
    <3> DEFINE a1 == Failed(s)
    <3>r1. a1 \in StreamRecord /\ Eff_Failed(s, a1) BY Does_Failed
    <3> DEFINE a2 == Set_timer(a1, "back")
    <3>r2. a2 \in StreamRecord /\ Eff_Set_timer(a1, a2, "back")
        BY <3>r1, Does_Set_timer, Values
    <3> DEFINE a3 == Yes_ok(a2)
    <3>r3. a3 \in StreamRecord /\ Eff_Yes_ok(a2, a3) BY <3>r2, Does_Yes_ok
    <3>e. [STOP_RECOGNITION(s) EXCEPT !.timer = "back", !.ok = TRUE] = a3
        BY <1>2, <2>1 DEF STOP_RECOGNITION, Running_STOP, Ssr_STOP, Running, Set_timer,
           Yes_ok
    <3> HIDE DEF a1, a2, a3
    <3> USE <1>2, <2>1, <3>r1, <3>r2, <3>r3 DEF Eff_Failed, Eff_Set_timer, Eff_Yes_ok
    <3>g1. Kept(s, a3) /\ SameModel(s, a3) /\ SameCard(s, a3) /\ a3.faults = s.faults
        BY <1>s DEF Kept, KeptBase, Unstarts, Loads, Told, With, SameModel, SameCard
    <3>g2. Preserves(s, a3)
        BY <1>s DEF Preserves, PreservesBase, PreservesWant, DeviceOK, ModelOK, WantOK,
           WakeOK, With, Running
    <3>g3. Runs(s, "none", a3, "none")
        BY <1>s DEF Runs, RunsOK, Calm, ModelOK, WantOK, With, Running
    <3> QED BY <3>e, <3>g1, <3>g2, <3>g3, <3>r3
  <2>2. CASE ~(s.state_for_restore # "ACTIVE")
    <3> DEFINE a1 == Set_state_for_restore(s, "LOADED")
    <3>r1. a1 \in StreamRecord /\ Eff_Set_state_for_restore(s, a1, "LOADED")
        BY Does_Set_state_for_restore, Values
    <3> DEFINE a2 == Ok(a1)
    <3>r2. a2 \in StreamRecord /\ Eff_Ok(a1, a2) BY <3>r1, Does_Ok
    <3> DEFINE a3 == Set_timer(a2, "back")
    <3>r3. a3 \in StreamRecord /\ Eff_Set_timer(a2, a3, "back")
        BY <3>r2, Does_Set_timer, Values
    <3> DEFINE a4 == Yes_ok(a3)
    <3>r4. a4 \in StreamRecord /\ Eff_Yes_ok(a3, a4) BY <3>r3, Does_Yes_ok
    <3>e. [STOP_RECOGNITION(s) EXCEPT !.timer = "back", !.ok = TRUE] = a4
        BY <1>2, <2>2 DEF STOP_RECOGNITION, Running_STOP, Ssr_STOP, Running,
           Set_state_for_restore, Set_timer, Yes_ok
    <3> HIDE DEF a1, a2, a3, a4
    <3> USE <1>2, <2>2, <3>r1, <3>r2, <3>r3, <3>r4 DEF Eff_Set_state_for_restore, Eff_Ok,
           Eff_Set_timer, Eff_Yes_ok
    <3>g1. Kept(s, a4) /\ SameModel(s, a4) /\ SameCard(s, a4) /\ a4.faults = s.faults
        BY <1>s DEF Kept, KeptBase, Unstarts, Loads, Told, With, SameModel, SameCard
    <3>g2. Preserves(s, a4)
        BY <1>s DEF Preserves, PreservesBase, PreservesWant, DeviceOK, ModelOK, WantOK,
           WakeOK, With, Running
    <3>g3. Runs(s, "none", a4, "none")
        BY <1>s DEF Runs, RunsOK, Calm, ModelOK, WantOK, With, Running
    <3> QED BY <3>e, <3>g1, <3>g2, <3>g3, <3>r4
  <2> QED BY <2>1, <2>2
<1>3. CASE s.state \in {"IDLE", "LOADED"}
  <2> DEFINE a1 == Ok(s)
  <2>r1. a1 \in StreamRecord /\ Eff_Ok(s, a1) BY Does_Ok
  <2> DEFINE a2 == Set_timer(a1, "back")
  <2>r2. a2 \in StreamRecord /\ Eff_Set_timer(a1, a2, "back")
      BY <2>r1, Does_Set_timer, Values
  <2> DEFINE a3 == Yes_ok(a2)
  <2>r3. a3 \in StreamRecord /\ Eff_Yes_ok(a2, a3) BY <2>r2, Does_Yes_ok
  <2>e. [STOP_RECOGNITION(s) EXCEPT !.timer = "back", !.ok = TRUE] = a3
      BY <1>3 DEF STOP_RECOGNITION, Running_STOP, Ssr_STOP, Running, Set_timer, Yes_ok
  <2> HIDE DEF a1, a2, a3
  <2> USE <1>3, <2>r1, <2>r2, <2>r3 DEF Eff_Ok, Eff_Set_timer, Eff_Yes_ok
  <2>g1. Kept(s, a3) /\ SameModel(s, a3) /\ SameCard(s, a3) /\ a3.faults = s.faults
      BY <1>s DEF Kept, KeptBase, Unstarts, Loads, Told, With, SameModel, SameCard
  <2>g2. Preserves(s, a3)
      BY <1>s DEF Preserves, PreservesBase, PreservesWant, DeviceOK, ModelOK, WantOK,
         WakeOK, With, Running
  <2>g3. Runs(s, "none", a3, "none")
      BY <1>s DEF Runs, RunsOK, Calm, ModelOK, WantOK, With, Running
  <2> QED BY <2>e, <2>g1, <2>g2, <2>g3, <2>r3
<1> QED BY <1>1, <1>2, <1>3, <1>s

(* A concurrency pauses the stream.                                           *)
LEMMA Ev_Pause ==
    ASSUME NEW s \in StreamRecord, NEW f
    PROVE  LET t == Mark(FSTAGE_UNLOAD(PAUSE(s, FALSE), f), TRUE, "pause") IN
           /\ t \in StreamRecord
           /\ Kept(s, t) /\ SameModel(s, t) /\ SameCard(s, t) /\ t.faults = s.faults
           /\ Preserves(s, t)
           /\ f = "none" => Runs(s, "none", t, "none")
<1>s. /\ s.state \in {"IDLE", "LOADED", "SSR", "ACTIVE", "DETECTED", "BUFFERING"}
      /\ s.wake \in Int
      /\ s.state_for_restore \in {"NONE", "IDLE", "LOADED", "ACTIVE"}
      /\ s.currentState \in {"IDLE", "OPENED", "STARTED", "STOPPED"}
    BY FieldTypes, StAssumption DEF States, Running, Restores, Currents
<1> DEFINE a1 == Yes_paused(s)
<1>r1. a1 \in StreamRecord /\ Eff_Yes_paused(s, a1) BY Does_Yes_paused
<1>1. CASE s.state \in {"IDLE", "LOADED"}
  <2> DEFINE a2 == Ok(a1)
  <2>r2. a2 \in StreamRecord /\ Eff_Ok(a1, a2) BY <1>r1, Does_Ok
  <2>1. CASE a2.state = "LOADED"
    <3> DEFINE a3 == FstageUnload(a2, f)
    <3>r3. a3 \in StreamRecord /\ Eff_FstageUnload(a2, a3, f) BY <2>r2, Does_FstageUnload
    <3> DEFINE a4 == TransitTo(a3, "IDLE")
    <3>r4. a4 \in StreamRecord /\ Eff_TransitTo(a3, a4, "IDLE")
        BY <3>r3, Does_TransitTo, Values
    <3> DEFINE a5 == Mark(a4, TRUE, "pause")
    <3>r5. a5 \in StreamRecord /\ Eff_Mark(a4, a5, "pause") BY <3>r4, Does_Mark, Values
    <3>e. Mark(FSTAGE_UNLOAD(PAUSE(s, FALSE), f), TRUE, "pause") = a5
        BY <1>1, <2>1 DEF FSTAGE_UNLOAD, PAUSE, Running_PAUSE, Running_INTERNAL_PAUSE,
           Ssr_PAUSE, Loaded_FSTAGE_UNLOAD, Yes_paused
    <3> HIDE DEF a1, a2, a3, a4, a5
    <3> USE <1>1, <2>1, <1>r1, <2>r2, <3>r3, <3>r4, <3>r5 DEF Eff_Yes_paused, Eff_Ok,
           Eff_FstageUnload, Eff_TransitTo, Eff_Mark
    <3>g1. Kept(s, a5) /\ SameModel(s, a5) /\ SameCard(s, a5) /\ a5.faults = s.faults
        BY <1>s DEF Kept, KeptBase, Unstarts, Loads, Told, With, SameModel, SameCard
    <3>g2. Preserves(s, a5)
        BY <1>s DEF Preserves, PreservesBase, PreservesWant, DeviceOK, ModelOK, WantOK,
           WakeOK, With, Running
    <3>g3. f = "none" => Runs(s, "none", a5, "none")
        BY <1>s DEF Runs, RunsOK, Calm, ModelOK, WantOK, With, Running
    <3> QED BY <3>e, <3>g1, <3>g2, <3>g3, <3>r5
  <2>2. CASE a2.state # "LOADED"
    <3> DEFINE a3 == Ok(a2)
    <3>r3. a3 \in StreamRecord /\ Eff_Ok(a2, a3) BY <2>r2, Does_Ok
    <3> DEFINE a4 == Mark(a3, TRUE, "pause")
    <3>r4. a4 \in StreamRecord /\ Eff_Mark(a3, a4, "pause") BY <3>r3, Does_Mark, Values
    <3>e. Mark(FSTAGE_UNLOAD(PAUSE(s, FALSE), f), TRUE, "pause") = a4
        BY <1>1, <2>2 DEF FSTAGE_UNLOAD, PAUSE, Running_PAUSE, Running_INTERNAL_PAUSE,
           Ssr_PAUSE, Loaded_FSTAGE_UNLOAD, Yes_paused
    <3> HIDE DEF a1, a2, a3, a4
    <3> USE <1>1, <2>2, <1>r1, <2>r2, <3>r3, <3>r4 DEF Eff_Yes_paused, Eff_Ok, Eff_Mark
    <3>g1. Kept(s, a4) /\ SameModel(s, a4) /\ SameCard(s, a4) /\ a4.faults = s.faults
        BY <1>s DEF Kept, KeptBase, Unstarts, Loads, Told, With, SameModel, SameCard
    <3>g2. Preserves(s, a4)
        BY <1>s DEF Preserves, PreservesBase, PreservesWant, DeviceOK, ModelOK, WantOK,
           WakeOK, With, Running
    <3>g3. f = "none" => Runs(s, "none", a4, "none")
        BY <1>s DEF Runs, RunsOK, Calm, ModelOK, WantOK, With, Running
    <3> QED BY <3>e, <3>g1, <3>g2, <3>g3, <3>r4
  <2> QED BY <2>1, <2>2
<1>2. CASE s.state = "SSR"
  <2> DEFINE a2 == notifyAbort(a1)
  <2>r2. a2 \in StreamRecord /\ Eff_notifyAbort(a1, a2) BY <1>r1, Does_notifyAbort
  <2>1. CASE a2.state = "LOADED"
    <3> DEFINE a3 == FstageUnload(a2, f)
    <3>r3. a3 \in StreamRecord /\ Eff_FstageUnload(a2, a3, f) BY <2>r2, Does_FstageUnload
    <3> DEFINE a4 == TransitTo(a3, "IDLE")
    <3>r4. a4 \in StreamRecord /\ Eff_TransitTo(a3, a4, "IDLE")
        BY <3>r3, Does_TransitTo, Values
    <3> DEFINE a5 == Mark(a4, TRUE, "pause")
    <3>r5. a5 \in StreamRecord /\ Eff_Mark(a4, a5, "pause") BY <3>r4, Does_Mark, Values
    <3>e. Mark(FSTAGE_UNLOAD(PAUSE(s, FALSE), f), TRUE, "pause") = a5
        BY <1>2, <2>1 DEF FSTAGE_UNLOAD, PAUSE, Running_PAUSE, Running_INTERNAL_PAUSE,
           Ssr_PAUSE, Loaded_FSTAGE_UNLOAD, Yes_paused
    <3> HIDE DEF a1, a2, a3, a4, a5
    <3> USE <1>2, <2>1, <1>r1, <2>r2, <3>r3, <3>r4, <3>r5 DEF Eff_Yes_paused,
           Eff_notifyAbort, Eff_FstageUnload, Eff_TransitTo, Eff_Mark
    <3>g1. Kept(s, a5) /\ SameModel(s, a5) /\ SameCard(s, a5) /\ a5.faults = s.faults
        BY <1>s DEF Kept, KeptBase, Unstarts, Loads, Told, With, SameModel, SameCard
    <3>g2. Preserves(s, a5)
        BY <1>s DEF Preserves, PreservesBase, PreservesWant, DeviceOK, ModelOK, WantOK,
           WakeOK, With, Running
    <3>g3. f = "none" => Runs(s, "none", a5, "none")
        BY <1>s DEF Runs, RunsOK, Calm, ModelOK, WantOK, With, Running
    <3> QED BY <3>e, <3>g1, <3>g2, <3>g3, <3>r5
  <2>2. CASE a2.state # "LOADED"
    <3> DEFINE a3 == Ok(a2)
    <3>r3. a3 \in StreamRecord /\ Eff_Ok(a2, a3) BY <2>r2, Does_Ok
    <3> DEFINE a4 == Mark(a3, TRUE, "pause")
    <3>r4. a4 \in StreamRecord /\ Eff_Mark(a3, a4, "pause") BY <3>r3, Does_Mark, Values
    <3>e. Mark(FSTAGE_UNLOAD(PAUSE(s, FALSE), f), TRUE, "pause") = a4
        BY <1>2, <2>2 DEF FSTAGE_UNLOAD, PAUSE, Running_PAUSE, Running_INTERNAL_PAUSE,
           Ssr_PAUSE, Loaded_FSTAGE_UNLOAD, Yes_paused
    <3> HIDE DEF a1, a2, a3, a4
    <3> USE <1>2, <2>2, <1>r1, <2>r2, <3>r3, <3>r4 DEF Eff_Yes_paused, Eff_notifyAbort,
           Eff_Ok, Eff_Mark
    <3>g1. Kept(s, a4) /\ SameModel(s, a4) /\ SameCard(s, a4) /\ a4.faults = s.faults
        BY <1>s DEF Kept, KeptBase, Unstarts, Loads, Told, With, SameModel, SameCard
    <3>g2. Preserves(s, a4)
        BY <1>s DEF Preserves, PreservesBase, PreservesWant, DeviceOK, ModelOK, WantOK,
           WakeOK, With, Running
    <3>g3. f = "none" => Runs(s, "none", a4, "none")
        BY <1>s DEF Runs, RunsOK, Calm, ModelOK, WantOK, With, Running
    <3> QED BY <3>e, <3>g1, <3>g2, <3>g3, <3>r4
  <2> QED BY <2>1, <2>2
<1>3. CASE s.state \in {"ACTIVE", "DETECTED", "BUFFERING"}
  <2> DEFINE a2 == stopRecognition(a1)
  <2>r2. a2 \in StreamRecord /\ Eff_stopRecognition(a1, a2) BY <1>r1, Does_stopRecognition
  <2> DEFINE a3 == notifyAbort(a2)
  <2>r3. a3 \in StreamRecord /\ Eff_notifyAbort(a2, a3) BY <2>r2, Does_notifyAbort
  <2>1. CASE a3.state = "LOADED"
    <3> DEFINE a4 == FstageUnload(a3, f)
    <3>r4. a4 \in StreamRecord /\ Eff_FstageUnload(a3, a4, f) BY <2>r3, Does_FstageUnload
    <3> DEFINE a5 == TransitTo(a4, "IDLE")
    <3>r5. a5 \in StreamRecord /\ Eff_TransitTo(a4, a5, "IDLE")
        BY <3>r4, Does_TransitTo, Values
    <3> DEFINE a6 == Mark(a5, TRUE, "pause")
    <3>r6. a6 \in StreamRecord /\ Eff_Mark(a5, a6, "pause") BY <3>r5, Does_Mark, Values
    <3>e. Mark(FSTAGE_UNLOAD(PAUSE(s, FALSE), f), TRUE, "pause") = a6
        BY <1>3, <2>1 DEF FSTAGE_UNLOAD, PAUSE, Running_PAUSE, Running_INTERNAL_PAUSE,
           Ssr_PAUSE, Loaded_FSTAGE_UNLOAD, Yes_paused
    <3> HIDE DEF a1, a2, a3, a4, a5, a6
    <3> USE <1>3, <2>1, <1>r1, <2>r2, <2>r3, <3>r4, <3>r5, <3>r6 DEF Eff_Yes_paused,
           Eff_stopRecognition, Eff_notifyAbort, Eff_FstageUnload, Eff_TransitTo, Eff_Mark
    <3>g1. Kept(s, a6) /\ SameModel(s, a6) /\ SameCard(s, a6) /\ a6.faults = s.faults
        BY <1>s DEF Kept, KeptBase, Unstarts, Loads, Told, With, SameModel, SameCard
    <3>g2. Preserves(s, a6)
        BY <1>s DEF Preserves, PreservesBase, PreservesWant, DeviceOK, ModelOK, WantOK,
           WakeOK, With, Running
    <3>g3. f = "none" => Runs(s, "none", a6, "none")
        BY <1>s DEF Runs, RunsOK, Calm, ModelOK, WantOK, With, Running
    <3> QED BY <3>e, <3>g1, <3>g2, <3>g3, <3>r6
  <2>2. CASE a3.state # "LOADED"
    <3> DEFINE a4 == Ok(a3)
    <3>r4. a4 \in StreamRecord /\ Eff_Ok(a3, a4) BY <2>r3, Does_Ok
    <3> DEFINE a5 == Mark(a4, TRUE, "pause")
    <3>r5. a5 \in StreamRecord /\ Eff_Mark(a4, a5, "pause") BY <3>r4, Does_Mark, Values
    <3>e. Mark(FSTAGE_UNLOAD(PAUSE(s, FALSE), f), TRUE, "pause") = a5
        BY <1>3, <2>2 DEF FSTAGE_UNLOAD, PAUSE, Running_PAUSE, Running_INTERNAL_PAUSE,
           Ssr_PAUSE, Loaded_FSTAGE_UNLOAD, Yes_paused
    <3> HIDE DEF a1, a2, a3, a4, a5
    <3> USE <1>3, <2>2, <1>r1, <2>r2, <2>r3, <3>r4, <3>r5 DEF Eff_Yes_paused,
           Eff_stopRecognition, Eff_notifyAbort, Eff_Ok, Eff_Mark
    <3>g1. Kept(s, a5) /\ SameModel(s, a5) /\ SameCard(s, a5) /\ a5.faults = s.faults
        BY <1>s DEF Kept, KeptBase, Unstarts, Loads, Told, With, SameModel, SameCard
    <3>g2. Preserves(s, a5)
        BY <1>s DEF Preserves, PreservesBase, PreservesWant, DeviceOK, ModelOK, WantOK,
           WakeOK, With, Running
    <3>g3. f = "none" => Runs(s, "none", a5, "none")
        BY <1>s DEF Runs, RunsOK, Calm, ModelOK, WantOK, With, Running
    <3> QED BY <3>e, <3>g1, <3>g2, <3>g3, <3>r5
  <2> QED BY <2>1, <2>2
<1> QED BY <1>1, <1>2, <1>3, <1>s

(* The resource manager pauses the stream for a switch.                       *)
LEMMA Ev_InternalPause ==
    ASSUME NEW s \in StreamRecord, NEW f
    PROVE  LET t == FSTAGE_UNLOAD(PAUSE(s, TRUE), f) IN
           /\ t \in StreamRecord
           /\ Kept(s, t) /\ SameModel(s, t) /\ SameCard(s, t) /\ t.faults = s.faults
           /\ Preserves(s, t)
           /\ f = "none" => Runs(s, "none", t, "internal")
<1>s. /\ s.state \in {"IDLE", "LOADED", "SSR", "ACTIVE", "DETECTED", "BUFFERING"}
      /\ s.wake \in Int
      /\ s.state_for_restore \in {"NONE", "IDLE", "LOADED", "ACTIVE"}
      /\ s.currentState \in {"IDLE", "OPENED", "STARTED", "STOPPED"}
    BY FieldTypes, StAssumption DEF States, Running, Restores, Currents
<1> DEFINE a1 == Yes_paused(s)
<1>r1. a1 \in StreamRecord /\ Eff_Yes_paused(s, a1) BY Does_Yes_paused
<1>1. CASE s.state \in {"IDLE", "LOADED", "SSR"}
  <2> DEFINE a2 == Ok(a1)
  <2>r2. a2 \in StreamRecord /\ Eff_Ok(a1, a2) BY <1>r1, Does_Ok
  <2>1. CASE a2.state = "LOADED"
    <3> DEFINE a3 == FstageUnload(a2, f)
    <3>r3. a3 \in StreamRecord /\ Eff_FstageUnload(a2, a3, f) BY <2>r2, Does_FstageUnload
    <3> DEFINE a4 == TransitTo(a3, "IDLE")
    <3>r4. a4 \in StreamRecord /\ Eff_TransitTo(a3, a4, "IDLE")
        BY <3>r3, Does_TransitTo, Values
    <3>e. FSTAGE_UNLOAD(PAUSE(s, TRUE), f) = a4
        BY <1>1, <2>1 DEF FSTAGE_UNLOAD, PAUSE, Running_INTERNAL_PAUSE,
           Loaded_FSTAGE_UNLOAD, Yes_paused
    <3> HIDE DEF a1, a2, a3, a4
    <3> USE <1>1, <2>1, <1>r1, <2>r2, <3>r3, <3>r4 DEF Eff_Yes_paused, Eff_Ok,
           Eff_FstageUnload, Eff_TransitTo
    <3>g1. Kept(s, a4) /\ SameModel(s, a4) /\ SameCard(s, a4) /\ a4.faults = s.faults
        BY <1>s DEF Kept, KeptBase, Unstarts, Loads, Told, With, SameModel, SameCard
    <3>g2. Preserves(s, a4)
        BY <1>s DEF Preserves, PreservesBase, PreservesWant, DeviceOK, ModelOK, WantOK,
           WakeOK, With, Running
    <3>g3. f = "none" => Runs(s, "none", a4, "internal")
        BY <1>s DEF Runs, RunsOK, Calm, ModelOK, WantOK, With, Running
    <3> QED BY <3>e, <3>g1, <3>g2, <3>g3, <3>r4
  <2>2. CASE a2.state # "LOADED"
    <3> DEFINE a3 == Ok(a2)
    <3>r3. a3 \in StreamRecord /\ Eff_Ok(a2, a3) BY <2>r2, Does_Ok
    <3>e. FSTAGE_UNLOAD(PAUSE(s, TRUE), f) = a3
        BY <1>1, <2>2 DEF FSTAGE_UNLOAD, PAUSE, Running_INTERNAL_PAUSE,
           Loaded_FSTAGE_UNLOAD, Yes_paused
    <3> HIDE DEF a1, a2, a3
    <3> USE <1>1, <2>2, <1>r1, <2>r2, <3>r3 DEF Eff_Yes_paused, Eff_Ok
    <3>g1. Kept(s, a3) /\ SameModel(s, a3) /\ SameCard(s, a3) /\ a3.faults = s.faults
        BY <1>s DEF Kept, KeptBase, Unstarts, Loads, Told, With, SameModel, SameCard
    <3>g2. Preserves(s, a3)
        BY <1>s DEF Preserves, PreservesBase, PreservesWant, DeviceOK, ModelOK, WantOK,
           WakeOK, With, Running
    <3>g3. f = "none" => Runs(s, "none", a3, "internal")
        BY <1>s DEF Runs, RunsOK, Calm, ModelOK, WantOK, With, Running
    <3> QED BY <3>e, <3>g1, <3>g2, <3>g3, <3>r3
  <2> QED BY <2>1, <2>2
<1>2. CASE s.state \in {"ACTIVE", "DETECTED", "BUFFERING"}
  <2> DEFINE a2 == stopRecognition(a1)
  <2>r2. a2 \in StreamRecord /\ Eff_stopRecognition(a1, a2) BY <1>r1, Does_stopRecognition
  <2>1. CASE a2.state = "LOADED"
    <3> DEFINE a3 == FstageUnload(a2, f)
    <3>r3. a3 \in StreamRecord /\ Eff_FstageUnload(a2, a3, f) BY <2>r2, Does_FstageUnload
    <3> DEFINE a4 == TransitTo(a3, "IDLE")
    <3>r4. a4 \in StreamRecord /\ Eff_TransitTo(a3, a4, "IDLE")
        BY <3>r3, Does_TransitTo, Values
    <3>e. FSTAGE_UNLOAD(PAUSE(s, TRUE), f) = a4
        BY <1>2, <2>1 DEF FSTAGE_UNLOAD, PAUSE, Running_INTERNAL_PAUSE,
           Loaded_FSTAGE_UNLOAD, Yes_paused
    <3> HIDE DEF a1, a2, a3, a4
    <3> USE <1>2, <2>1, <1>r1, <2>r2, <3>r3, <3>r4 DEF Eff_Yes_paused, Eff_stopRecognition,
           Eff_FstageUnload, Eff_TransitTo
    <3>g1. Kept(s, a4) /\ SameModel(s, a4) /\ SameCard(s, a4) /\ a4.faults = s.faults
        BY <1>s DEF Kept, KeptBase, Unstarts, Loads, Told, With, SameModel, SameCard
    <3>g2. Preserves(s, a4)
        BY <1>s DEF Preserves, PreservesBase, PreservesWant, DeviceOK, ModelOK, WantOK,
           WakeOK, With, Running
    <3>g3. f = "none" => Runs(s, "none", a4, "internal")
        BY <1>s DEF Runs, RunsOK, Calm, ModelOK, WantOK, With, Running
    <3> QED BY <3>e, <3>g1, <3>g2, <3>g3, <3>r4
  <2>2. CASE a2.state # "LOADED"
    <3> DEFINE a3 == Ok(a2)
    <3>r3. a3 \in StreamRecord /\ Eff_Ok(a2, a3) BY <2>r2, Does_Ok
    <3>e. FSTAGE_UNLOAD(PAUSE(s, TRUE), f) = a3
        BY <1>2, <2>2 DEF FSTAGE_UNLOAD, PAUSE, Running_INTERNAL_PAUSE,
           Loaded_FSTAGE_UNLOAD, Yes_paused
    <3> HIDE DEF a1, a2, a3
    <3> USE <1>2, <2>2, <1>r1, <2>r2, <3>r3 DEF Eff_Yes_paused, Eff_stopRecognition, Eff_Ok
    <3>g1. Kept(s, a3) /\ SameModel(s, a3) /\ SameCard(s, a3) /\ a3.faults = s.faults
        BY <1>s DEF Kept, KeptBase, Unstarts, Loads, Told, With, SameModel, SameCard
    <3>g2. Preserves(s, a3)
        BY <1>s DEF Preserves, PreservesBase, PreservesWant, DeviceOK, ModelOK, WantOK,
           WakeOK, With, Running
    <3>g3. f = "none" => Runs(s, "none", a3, "internal")
        BY <1>s DEF Runs, RunsOK, Calm, ModelOK, WantOK, With, Running
    <3> QED BY <3>e, <3>g1, <3>g2, <3>g3, <3>r3
  <2> QED BY <2>1, <2>2
<1> QED BY <1>1, <1>2, <1>s

(* The concurrency ends.                                                      *)
LEMMA Ev_Resume ==
    ASSUME NEW s \in StreamRecord, NEW f
    PROVE  LET t == RESUME(FSTAGE_LOAD(s, f), FALSE, f) IN
           /\ t \in StreamRecord
           /\ Kept(s, t) /\ SameModel(s, t) /\ SameCard(s, t) /\ t.faults = s.faults
           /\ Preserves(s, t)
           /\ f = "none" => Runs(s, "none", t, "none")
<1>s. /\ s.state \in {"IDLE", "LOADED", "SSR", "ACTIVE", "DETECTED", "BUFFERING"}
      /\ s.wake \in Int
      /\ s.state_for_restore \in {"NONE", "IDLE", "LOADED", "ACTIVE"}
      /\ s.currentState \in {"IDLE", "OPENED", "STARTED", "STOPPED"}
    BY FieldTypes, StAssumption DEF States, Running, Restores, Currents
<1>1. CASE s.state = "IDLE"
  <2> DEFINE a1 == FstageLoad(s, f)
  <2>r1. a1 \in StreamRecord /\ Eff_FstageLoad(s, a1, f) BY Does_FstageLoad
  <2>1. CASE a1.ok
    <3> DEFINE a2 == TransitTo(a1, "LOADED")
    <3>r2. a2 \in StreamRecord /\ Eff_TransitTo(a1, a2, "LOADED")
        BY <2>r1, Does_TransitTo, Values
    <3>k1. a2.state = "LOADED"
        BY <1>1, <2>1, <2>r1, <3>r2 DEF Eff_FstageLoad, Eff_TransitTo
    <3> DEFINE a3 == No_paused(a2)
    <3>r3. a3 \in StreamRecord /\ Eff_No_paused(a2, a3) BY <3>r2, Does_No_paused
    <3> DEFINE a4 == Ok(a3)
    <3>r4. a4 \in StreamRecord /\ Eff_Ok(a3, a4) BY <3>r3, Does_Ok
    <3>e. RESUME(FSTAGE_LOAD(s, f), FALSE, f) = a4
        BY <1>1, <2>1, <3>k1 DEF RESUME, FSTAGE_LOAD, Idle_FSTAGE_LOAD, Loaded_RESUME,
           Ssr_RESUME, No_paused
    <3> HIDE DEF a1, a2, a3, a4
    <3> USE <1>1, <2>1, <3>k1, <2>r1, <3>r2, <3>r3, <3>r4 DEF Eff_FstageLoad, Eff_TransitTo,
           Eff_No_paused, Eff_Ok
    <3>g1. Kept(s, a4) /\ SameModel(s, a4) /\ SameCard(s, a4) /\ a4.faults = s.faults
        BY <1>s DEF Kept, KeptBase, Unstarts, Loads, Told, With, SameModel, SameCard
    <3>g2. Preserves(s, a4)
        BY <1>s DEF Preserves, PreservesBase, PreservesWant, DeviceOK, ModelOK, WantOK,
           WakeOK, With, Running
    <3>g3. f = "none" => Runs(s, "none", a4, "none")
        BY <1>s DEF Runs, RunsOK, Calm, ModelOK, WantOK, With, Running
    <3> QED BY <3>e, <3>g1, <3>g2, <3>g3, <3>r4
  <2>2. CASE ~a1.ok
    <3>k1. a1.state = "IDLE"
        BY <1>1, <2>2, <2>r1 DEF Eff_FstageLoad
    <3> DEFINE a2 == No_paused(a1)
    <3>r2. a2 \in StreamRecord /\ Eff_No_paused(a1, a2) BY <2>r1, Does_No_paused
    <3> DEFINE a3 == Ok(a2)
    <3>r3. a3 \in StreamRecord /\ Eff_Ok(a2, a3) BY <3>r2, Does_Ok
    <3>e. RESUME(FSTAGE_LOAD(s, f), FALSE, f) = a3
        BY <1>1, <2>2, <3>k1 DEF RESUME, FSTAGE_LOAD, Idle_FSTAGE_LOAD, Loaded_RESUME,
           Ssr_RESUME, No_paused
    <3> HIDE DEF a1, a2, a3
    <3> USE <1>1, <2>2, <3>k1, <2>r1, <3>r2, <3>r3 DEF Eff_FstageLoad, Eff_No_paused, Eff_Ok
    <3>g1. Kept(s, a3) /\ SameModel(s, a3) /\ SameCard(s, a3) /\ a3.faults = s.faults
        BY <1>s DEF Kept, KeptBase, Unstarts, Loads, Told, With, SameModel, SameCard
    <3>g2. Preserves(s, a3)
        BY <1>s DEF Preserves, PreservesBase, PreservesWant, DeviceOK, ModelOK, WantOK,
           WakeOK, With, Running
    <3>g3. f = "none" => Runs(s, "none", a3, "none")
        BY <1>s DEF Runs, RunsOK, Calm, ModelOK, WantOK, With, Running
    <3> QED BY <3>e, <3>g1, <3>g2, <3>g3, <3>r3
  <2> QED BY <2>1, <2>2
<1>2. CASE s.state = "LOADED"
  <2> DEFINE a1 == Ok(s)
  <2>r1. a1 \in StreamRecord /\ Eff_Ok(s, a1) BY Does_Ok
  <2>k1. a1.state = "LOADED"
      BY <1>2, <2>r1 DEF Eff_Ok
  <2> DEFINE a2 == No_paused(a1)
  <2>r2. a2 \in StreamRecord /\ Eff_No_paused(a1, a2) BY <2>r1, Does_No_paused
  <2> DEFINE a3 == Ok(a2)
  <2>r3. a3 \in StreamRecord /\ Eff_Ok(a2, a3) BY <2>r2, Does_Ok
  <2>e. RESUME(FSTAGE_LOAD(s, f), FALSE, f) = a3
      BY <1>2, <2>k1 DEF RESUME, FSTAGE_LOAD, Idle_FSTAGE_LOAD, Loaded_RESUME, Ssr_RESUME,
         No_paused
  <2> HIDE DEF a1, a2, a3
  <2> USE <1>2, <2>k1, <2>r1, <2>r2, <2>r3 DEF Eff_Ok, Eff_No_paused
  <2>g1. Kept(s, a3) /\ SameModel(s, a3) /\ SameCard(s, a3) /\ a3.faults = s.faults
      BY <1>s DEF Kept, KeptBase, Unstarts, Loads, Told, With, SameModel, SameCard
  <2>g2. Preserves(s, a3)
      BY <1>s DEF Preserves, PreservesBase, PreservesWant, DeviceOK, ModelOK, WantOK,
         WakeOK, With, Running
  <2>g3. f = "none" => Runs(s, "none", a3, "none")
      BY <1>s DEF Runs, RunsOK, Calm, ModelOK, WantOK, With, Running
  <2> QED BY <2>e, <2>g1, <2>g2, <2>g3, <2>r3
<1>3. CASE s.state = "SSR"
  <2> DEFINE a1 == Ok(s)
  <2>r1. a1 \in StreamRecord /\ Eff_Ok(s, a1) BY Does_Ok
  <2>k1. a1.state = s.state /\ a1.currentState = s.currentState
            /\ a1.state_for_restore = s.state_for_restore
      BY <1>3, <2>r1 DEF Eff_Ok
  <2>1. CASE ~a1.paused
    <3> DEFINE a2 == Ok(a1)
    <3>r2. a2 \in StreamRecord /\ Eff_Ok(a1, a2) BY <2>r1, Does_Ok
    <3>e. RESUME(FSTAGE_LOAD(s, f), FALSE, f) = a2
        BY <1>3, <2>k1, <2>1 DEF RESUME, FSTAGE_LOAD, Idle_FSTAGE_LOAD, Loaded_RESUME,
           Ssr_RESUME
    <3> HIDE DEF a1, a2
    <3> USE <1>3, <2>k1, <2>1, <2>r1, <3>r2 DEF Eff_Ok
    <3>g1. Kept(s, a2) /\ SameModel(s, a2) /\ SameCard(s, a2) /\ a2.faults = s.faults
        BY <1>s DEF Kept, KeptBase, Unstarts, Loads, Told, With, SameModel, SameCard
    <3>g2. Preserves(s, a2)
        BY <1>s DEF Preserves, PreservesBase, PreservesWant, DeviceOK, ModelOK, WantOK,
           WakeOK, With, Running
    <3>g3. f = "none" => Runs(s, "none", a2, "none")
        BY <1>s DEF Runs, RunsOK, Calm, ModelOK, WantOK, With, Running
    <3> QED BY <3>e, <3>g1, <3>g2, <3>g3, <3>r2
  <2>2. CASE ~(~a1.paused)
    <3> DEFINE a2 == No_paused(a1)
    <3>r2. a2 \in StreamRecord /\ Eff_No_paused(a1, a2) BY <2>r1, Does_No_paused
    <3>1. CASE s.currentState = "STARTED"
      <4> DEFINE a3 == Set_state_for_restore(a2, "ACTIVE")
      <4>r3. a3 \in StreamRecord /\ Eff_Set_state_for_restore(a2, a3, "ACTIVE")
          BY <3>r2, Does_Set_state_for_restore, Values
      <4> DEFINE a4 == Ok(a3)
      <4>r4. a4 \in StreamRecord /\ Eff_Ok(a3, a4) BY <4>r3, Does_Ok
      <4>e. RESUME(FSTAGE_LOAD(s, f), FALSE, f) = a4
          BY <1>3, <2>k1, <2>2, <3>1 DEF RESUME, FSTAGE_LOAD, Idle_FSTAGE_LOAD,
             Loaded_RESUME,
             Ssr_RESUME, No_paused, Set_state_for_restore
      <4> HIDE DEF a1, a2, a3, a4
      <4> USE <1>3, <2>k1, <2>2, <3>1, <2>r1, <3>r2, <4>r3, <4>r4 DEF Eff_Ok, Eff_No_paused,
             Eff_Set_state_for_restore
      <4>g1. Kept(s, a4) /\ SameModel(s, a4) /\ SameCard(s, a4) /\ a4.faults = s.faults
          BY <1>s DEF Kept, KeptBase, Unstarts, Loads, Told, With, SameModel, SameCard
      <4>g2. Preserves(s, a4)
          BY <1>s DEF Preserves, PreservesBase, PreservesWant, DeviceOK, ModelOK, WantOK,
             WakeOK, With, Running
      <4>g3. f = "none" => Runs(s, "none", a4, "none")
          BY <1>s DEF Runs, RunsOK, Calm, ModelOK, WantOK, With, Running
      <4> QED BY <4>e, <4>g1, <4>g2, <4>g3, <4>r4
    <3>2. CASE ~(s.currentState = "STARTED")
      <4>pq. PICK q \in Restores : q = s.state_for_restore
          BY <3>r2, FieldTypes
      <4> DEFINE a3 == Set_state_for_restore(a2, q)
      <4>r3. a3 \in StreamRecord /\ Eff_Set_state_for_restore(a2, a3, q)
          BY <3>r2, Does_Set_state_for_restore, <4>pq
      <4> DEFINE a4 == Ok(a3)
      <4>r4. a4 \in StreamRecord /\ Eff_Ok(a3, a4) BY <4>r3, Does_Ok
      <4>e. RESUME(FSTAGE_LOAD(s, f), FALSE, f) = a4
          BY <1>3, <2>k1, <2>2, <3>2, <4>pq DEF RESUME, FSTAGE_LOAD, Idle_FSTAGE_LOAD,
             Loaded_RESUME, Ssr_RESUME, No_paused, Set_state_for_restore
      <4> HIDE DEF a1, a2, a3, a4
      <4> USE <1>3, <2>k1, <2>2, <3>2, <4>pq, <2>r1, <3>r2, <4>r3, <4>r4 DEF Eff_Ok,
             Eff_No_paused, Eff_Set_state_for_restore
      <4>g1. Kept(s, a4) /\ SameModel(s, a4) /\ SameCard(s, a4) /\ a4.faults = s.faults
          BY <1>s DEF Kept, KeptBase, Unstarts, Loads, Told, With, SameModel, SameCard
      <4>g2. Preserves(s, a4)
          BY <1>s DEF Preserves, PreservesBase, PreservesWant, DeviceOK, ModelOK, WantOK,
             WakeOK, With, Running
      <4>g3. f = "none" => Runs(s, "none", a4, "none")
          BY <1>s DEF Runs, RunsOK, Calm, ModelOK, WantOK, With, Running
      <4> QED BY <4>e, <4>g1, <4>g2, <4>g3, <4>r4
    <3> QED BY <3>1, <3>2
  <2> QED BY <2>1, <2>2
<1>4. CASE s.state \in {"ACTIVE", "BUFFERING"}
  <2> DEFINE a1 == Ok(s)
  <2>r1. a1 \in StreamRecord /\ Eff_Ok(s, a1) BY Does_Ok
  <2>k1. a1.state = s.state
      BY <1>4, <2>r1 DEF Eff_Ok
  <2> DEFINE a2 == Ok(a1)
  <2>r2. a2 \in StreamRecord /\ Eff_Ok(a1, a2) BY <2>r1, Does_Ok
  <2>e. RESUME(FSTAGE_LOAD(s, f), FALSE, f) = a2
      BY <1>4, <2>k1 DEF RESUME, FSTAGE_LOAD, Idle_FSTAGE_LOAD, Loaded_RESUME, Ssr_RESUME
  <2> HIDE DEF a1, a2
  <2> USE <1>4, <2>k1, <2>r1, <2>r2 DEF Eff_Ok
  <2>g1. Kept(s, a2) /\ SameModel(s, a2) /\ SameCard(s, a2) /\ a2.faults = s.faults
      BY <1>s DEF Kept, KeptBase, Unstarts, Loads, Told, With, SameModel, SameCard
  <2>g2. Preserves(s, a2)
      BY <1>s DEF Preserves, PreservesBase, PreservesWant, DeviceOK, ModelOK, WantOK,
         WakeOK, With, Running
  <2>g3. f = "none" => Runs(s, "none", a2, "none")
      BY <1>s DEF Runs, RunsOK, Calm, ModelOK, WantOK, With, Running
  <2> QED BY <2>e, <2>g1, <2>g2, <2>g3, <2>r2
<1>5. CASE s.state = "DETECTED"
  <2> DEFINE a1 == Ok(s)
  <2>r1. a1 \in StreamRecord /\ Eff_Ok(s, a1) BY Does_Ok
  <2>k1. a1.state = "DETECTED"
      BY <1>5, <2>r1 DEF Eff_Ok
  <2> DEFINE a2 == No_paused(a1)
  <2>r2. a2 \in StreamRecord /\ Eff_No_paused(a1, a2) BY <2>r1, Does_No_paused
  <2> DEFINE a3 == Ok(a2)
  <2>r3. a3 \in StreamRecord /\ Eff_Ok(a2, a3) BY <2>r2, Does_Ok
  <2>e. RESUME(FSTAGE_LOAD(s, f), FALSE, f) = a3
      BY <1>5, <2>k1 DEF RESUME, FSTAGE_LOAD, Idle_FSTAGE_LOAD, Loaded_RESUME, Ssr_RESUME,
         No_paused
  <2> HIDE DEF a1, a2, a3
  <2> USE <1>5, <2>k1, <2>r1, <2>r2, <2>r3 DEF Eff_Ok, Eff_No_paused
  <2>g1. Kept(s, a3) /\ SameModel(s, a3) /\ SameCard(s, a3) /\ a3.faults = s.faults
      BY <1>s DEF Kept, KeptBase, Unstarts, Loads, Told, With, SameModel, SameCard
  <2>g2. Preserves(s, a3)
      BY <1>s DEF Preserves, PreservesBase, PreservesWant, DeviceOK, ModelOK, WantOK,
         WakeOK, With, Running
  <2>g3. f = "none" => Runs(s, "none", a3, "none")
      BY <1>s DEF Runs, RunsOK, Calm, ModelOK, WantOK, With, Running
  <2> QED BY <2>e, <2>g1, <2>g2, <2>g3, <2>r3
<1> QED BY <1>1, <1>2, <1>3, <1>4, <1>5, <1>s

(* The resource manager resumes the stream after the switch.                  *)
LEMMA Ev_InternalResume ==
    ASSUME NEW s \in StreamRecord, NEW f
    PROVE  LET t == RESUME(FSTAGE_LOAD(s, f), TRUE, f) IN
           /\ t \in StreamRecord
           /\ Kept(s, t) /\ SameModel(s, t) /\ SameCard(s, t) /\ t.faults = s.faults
           /\ Preserves(s, t)
           /\ f = "none" => Runs(s, "internal", t, "none")
<1>s. /\ s.state \in {"IDLE", "LOADED", "SSR", "ACTIVE", "DETECTED", "BUFFERING"}
      /\ s.wake \in Int
      /\ s.state_for_restore \in {"NONE", "IDLE", "LOADED", "ACTIVE"}
      /\ s.currentState \in {"IDLE", "OPENED", "STARTED", "STOPPED"}
    BY FieldTypes, StAssumption DEF States, Running, Restores, Currents
<1>1. CASE s.state = "IDLE"
  <2> DEFINE a1 == FstageLoad(s, f)
  <2>r1. a1 \in StreamRecord /\ Eff_FstageLoad(s, a1, f) BY Does_FstageLoad
  <2>1. CASE a1.ok
    <3> DEFINE a2 == TransitTo(a1, "LOADED")
    <3>r2. a2 \in StreamRecord /\ Eff_TransitTo(a1, a2, "LOADED")
        BY <2>r1, Does_TransitTo, Values
    <3>k1. a2.state = "LOADED"
        BY <1>1, <2>1, <2>r1, <3>r2 DEF Eff_FstageLoad, Eff_TransitTo
    <3> DEFINE a3 == No_paused(a2)
    <3>r3. a3 \in StreamRecord /\ Eff_No_paused(a2, a3) BY <3>r2, Does_No_paused
    <3> DEFINE a4 == Ok(a3)
    <3>r4. a4 \in StreamRecord /\ Eff_Ok(a3, a4) BY <3>r3, Does_Ok
    <3>k2. a4.state = "LOADED" /\ a4.ok
        BY <1>1, <2>1, <3>k1, <2>r1, <3>r2, <3>r3, <3>r4 DEF Eff_FstageLoad, Eff_TransitTo,
           Eff_No_paused, Eff_Ok
    <3>1. CASE a4.currentState = "STARTED"
      <4>1. CASE a4.rec_config = "none"
        <5> DEFINE a5 == Loaded_START(a4, f)
        <5>r5. a5 \in StreamRecord /\ Eff_Loaded_START(a4, a5, f)
            BY <3>r4, Does_Loaded_START
        <5>e. RESUME(FSTAGE_LOAD(s, f), TRUE, f) = a5
            BY <1>1, <2>1, <3>k1, <3>k2, <3>1, <4>1 DEF RESUME, FSTAGE_LOAD,
               Idle_FSTAGE_LOAD,
               Loaded_RESUME, Loaded_INTERNAL_RESUME, isActive, Ssr_RESUME, No_paused
        <5> HIDE DEF a1, a2, a3, a4, a5
        <5> USE <1>1, <2>1, <3>k1, <3>k2, <3>1, <4>1, <2>r1, <3>r2, <3>r3, <3>r4, <5>r5 DEF
               Eff_FstageLoad, Eff_TransitTo, Eff_No_paused, Eff_Ok, Eff_Loaded_START
        <5>g1. Kept(s, a5) /\ SameModel(s, a5) /\ SameCard(s, a5) /\ a5.faults = s.faults
            BY <1>s DEF Kept, KeptBase, Unstarts, Loads, Told, With, SameModel, SameCard
        <5>g2. Preserves(s, a5)
            BY <1>s DEF Preserves, PreservesBase, PreservesWant, DeviceOK, ModelOK, WantOK,
               WakeOK, With, Running
        <5>g3. f = "none" => Runs(s, "internal", a5, "none")
            BY <1>s DEF Runs, RunsOK, Calm, ModelOK, WantOK, With, Running
        <5> QED BY <5>e, <5>g1, <5>g2, <5>g3, <5>r5
      <4>2. CASE ~(a4.rec_config = "none")
        <5>prc. PICK rc \in Recs : rc = a4.rec_config
            BY <3>r4, FieldTypes
        <5> DEFINE a5 == SendRecognitionConfig(a4, rc, f)
        <5>r5. a5 \in StreamRecord /\ Eff_SendRecognitionConfig(a4, a5, rc, f)
            BY <3>r4, Does_SendRecognitionConfig, <5>prc
        <5>1. CASE ~a5.ok
          <6>e. RESUME(FSTAGE_LOAD(s, f), TRUE, f) = a5
              BY <1>1, <2>1, <3>k1, <3>k2, <3>1, <4>2, <5>prc, <5>1 DEF RESUME, FSTAGE_LOAD,
                 Idle_FSTAGE_LOAD, Loaded_RESUME, Loaded_INTERNAL_RESUME, isActive,
                 Ssr_RESUME,
                 No_paused
          <6> HIDE DEF a1, a2, a3, a4, a5
          <6> USE <1>1, <2>1, <3>k1, <3>k2, <3>1, <4>2, <5>prc, <5>1, <2>r1, <3>r2, <3>r3,
             <3>r4,
                 <5>r5 DEF Eff_FstageLoad, Eff_TransitTo, Eff_No_paused, Eff_Ok,
                 Eff_SendRecognitionConfig
          <6>g1. Kept(s, a5) /\ SameModel(s, a5) /\ SameCard(s, a5) /\ a5.faults = s.faults
              BY <1>s DEF Kept, KeptBase, Unstarts, Loads, Told, With, SameModel, SameCard
          <6>g2. Preserves(s, a5)
              BY <1>s DEF Preserves, PreservesBase, PreservesWant, DeviceOK, ModelOK,
                 WantOK,
                 WakeOK, With, Running
          <6>g3. f = "none" => Runs(s, "internal", a5, "none")
              BY <1>s DEF Runs, RunsOK, Calm, ModelOK, WantOK, With, Running
          <6> QED BY <6>e, <6>g1, <6>g2, <6>g3, <5>r5
        <5>2. CASE ~(~a5.ok)
          <6> DEFINE a6 == Loaded_START(a5, f)
          <6>r6. a6 \in StreamRecord /\ Eff_Loaded_START(a5, a6, f)
              BY <5>r5, Does_Loaded_START
          <6>e. RESUME(FSTAGE_LOAD(s, f), TRUE, f) = a6
              BY <1>1, <2>1, <3>k1, <3>k2, <3>1, <4>2, <5>prc, <5>2 DEF RESUME, FSTAGE_LOAD,
                 Idle_FSTAGE_LOAD, Loaded_RESUME, Loaded_INTERNAL_RESUME, isActive,
                 Ssr_RESUME,
                 No_paused
          <6> HIDE DEF a1, a2, a3, a4, a5, a6
          <6> USE <1>1, <2>1, <3>k1, <3>k2, <3>1, <4>2, <5>prc, <5>2, <2>r1, <3>r2, <3>r3,
             <3>r4,
                 <5>r5, <6>r6 DEF Eff_FstageLoad, Eff_TransitTo, Eff_No_paused, Eff_Ok,
                 Eff_SendRecognitionConfig, Eff_Loaded_START
          <6>g1. Kept(s, a6) /\ SameModel(s, a6) /\ SameCard(s, a6) /\ a6.faults = s.faults
              BY <1>s DEF Kept, KeptBase, Unstarts, Loads, Told, With, SameModel, SameCard
          <6>g2. Preserves(s, a6)
              BY <1>s DEF Preserves, PreservesBase, PreservesWant, DeviceOK, ModelOK,
                 WantOK,
                 WakeOK, With, Running
          <6>g3. f = "none" => Runs(s, "internal", a6, "none")
              BY <1>s DEF Runs, RunsOK, Calm, ModelOK, WantOK, With, Running
          <6> QED BY <6>e, <6>g1, <6>g2, <6>g3, <6>r6
        <5> QED BY <5>1, <5>2
      <4> QED BY <4>1, <4>2
    <3>2. CASE ~(a4.currentState = "STARTED")
      <4>e. RESUME(FSTAGE_LOAD(s, f), TRUE, f) = a4
          BY <1>1, <2>1, <3>k1, <3>k2, <3>2 DEF RESUME, FSTAGE_LOAD, Idle_FSTAGE_LOAD,
             Loaded_RESUME, Loaded_INTERNAL_RESUME, isActive, Ssr_RESUME, No_paused
      <4> HIDE DEF a1, a2, a3, a4
      <4> USE <1>1, <2>1, <3>k1, <3>k2, <3>2, <2>r1, <3>r2, <3>r3, <3>r4 DEF Eff_FstageLoad,
             Eff_TransitTo, Eff_No_paused, Eff_Ok
      <4>g1. Kept(s, a4) /\ SameModel(s, a4) /\ SameCard(s, a4) /\ a4.faults = s.faults
          BY <1>s DEF Kept, KeptBase, Unstarts, Loads, Told, With, SameModel, SameCard
      <4>g2. Preserves(s, a4)
          BY <1>s DEF Preserves, PreservesBase, PreservesWant, DeviceOK, ModelOK, WantOK,
             WakeOK, With, Running
      <4>g3. f = "none" => Runs(s, "internal", a4, "none")
          BY <1>s DEF Runs, RunsOK, Calm, ModelOK, WantOK, With, Running
      <4> QED BY <4>e, <4>g1, <4>g2, <4>g3, <3>r4
    <3> QED BY <3>1, <3>2
  <2>2. CASE ~a1.ok
    <3>k1. a1.state = "IDLE"
        BY <1>1, <2>2, <2>r1 DEF Eff_FstageLoad
    <3> DEFINE a2 == No_paused(a1)
    <3>r2. a2 \in StreamRecord /\ Eff_No_paused(a1, a2) BY <2>r1, Does_No_paused
    <3> DEFINE a3 == Ok(a2)
    <3>r3. a3 \in StreamRecord /\ Eff_Ok(a2, a3) BY <3>r2, Does_Ok
    <3>e. RESUME(FSTAGE_LOAD(s, f), TRUE, f) = a3
        BY <1>1, <2>2, <3>k1 DEF RESUME, FSTAGE_LOAD, Idle_FSTAGE_LOAD, Loaded_RESUME,
           Loaded_INTERNAL_RESUME, isActive, Ssr_RESUME, No_paused
    <3> HIDE DEF a1, a2, a3
    <3> USE <1>1, <2>2, <3>k1, <2>r1, <3>r2, <3>r3 DEF Eff_FstageLoad, Eff_No_paused, Eff_Ok
    <3>g1. Kept(s, a3) /\ SameModel(s, a3) /\ SameCard(s, a3) /\ a3.faults = s.faults
        BY <1>s DEF Kept, KeptBase, Unstarts, Loads, Told, With, SameModel, SameCard
    <3>g2. Preserves(s, a3)
        BY <1>s DEF Preserves, PreservesBase, PreservesWant, DeviceOK, ModelOK, WantOK,
           WakeOK, With, Running
    <3>g3. f = "none" => Runs(s, "internal", a3, "none")
        BY <1>s DEF Runs, RunsOK, Calm, ModelOK, WantOK, With, Running
    <3> QED BY <3>e, <3>g1, <3>g2, <3>g3, <3>r3
  <2> QED BY <2>1, <2>2
<1>2. CASE s.state = "LOADED"
  <2> DEFINE a1 == Ok(s)
  <2>r1. a1 \in StreamRecord /\ Eff_Ok(s, a1) BY Does_Ok
  <2>k1. a1.state = "LOADED"
      BY <1>2, <2>r1 DEF Eff_Ok
  <2> DEFINE a2 == No_paused(a1)
  <2>r2. a2 \in StreamRecord /\ Eff_No_paused(a1, a2) BY <2>r1, Does_No_paused
  <2> DEFINE a3 == Ok(a2)
  <2>r3. a3 \in StreamRecord /\ Eff_Ok(a2, a3) BY <2>r2, Does_Ok
  <2>k2. a3.state = "LOADED" /\ a3.ok
      BY <1>2, <2>k1, <2>r1, <2>r2, <2>r3 DEF Eff_Ok, Eff_No_paused, Eff_Ok
  <2>1. CASE a3.currentState = "STARTED"
    <3>1. CASE a3.rec_config = "none"
      <4> DEFINE a4 == Loaded_START(a3, f)
      <4>r4. a4 \in StreamRecord /\ Eff_Loaded_START(a3, a4, f)
          BY <2>r3, Does_Loaded_START
      <4>e. RESUME(FSTAGE_LOAD(s, f), TRUE, f) = a4
          BY <1>2, <2>k1, <2>k2, <2>1, <3>1 DEF RESUME, FSTAGE_LOAD, Idle_FSTAGE_LOAD,
             Loaded_RESUME, Loaded_INTERNAL_RESUME, isActive, Ssr_RESUME, No_paused
      <4> HIDE DEF a1, a2, a3, a4
      <4> USE <1>2, <2>k1, <2>k2, <2>1, <3>1, <2>r1, <2>r2, <2>r3, <4>r4 DEF Eff_Ok,
             Eff_No_paused, Eff_Loaded_START
      <4>g1. Kept(s, a4) /\ SameModel(s, a4) /\ SameCard(s, a4) /\ a4.faults = s.faults
          BY <1>s DEF Kept, KeptBase, Unstarts, Loads, Told, With, SameModel, SameCard
      <4>g2. Preserves(s, a4)
          BY <1>s DEF Preserves, PreservesBase, PreservesWant, DeviceOK, ModelOK, WantOK,
             WakeOK, With, Running
      <4>g3. f = "none" => Runs(s, "internal", a4, "none")
          BY <1>s DEF Runs, RunsOK, Calm, ModelOK, WantOK, With, Running
      <4> QED BY <4>e, <4>g1, <4>g2, <4>g3, <4>r4
    <3>2. CASE ~(a3.rec_config = "none")
      <4>prc. PICK rc \in Recs : rc = a3.rec_config
          BY <2>r3, FieldTypes
      <4> DEFINE a4 == SendRecognitionConfig(a3, rc, f)
      <4>r4. a4 \in StreamRecord /\ Eff_SendRecognitionConfig(a3, a4, rc, f)
          BY <2>r3, Does_SendRecognitionConfig, <4>prc
      <4>1. CASE ~a4.ok
        <5>e. RESUME(FSTAGE_LOAD(s, f), TRUE, f) = a4
            BY <1>2, <2>k1, <2>k2, <2>1, <3>2, <4>prc, <4>1 DEF RESUME, FSTAGE_LOAD,
               Idle_FSTAGE_LOAD, Loaded_RESUME, Loaded_INTERNAL_RESUME, isActive,
               Ssr_RESUME,
               No_paused
        <5> HIDE DEF a1, a2, a3, a4
        <5> USE <1>2, <2>k1, <2>k2, <2>1, <3>2, <4>prc, <4>1, <2>r1, <2>r2, <2>r3, <4>r4 DEF
               Eff_Ok, Eff_No_paused, Eff_SendRecognitionConfig
        <5>g1. Kept(s, a4) /\ SameModel(s, a4) /\ SameCard(s, a4) /\ a4.faults = s.faults
            BY <1>s DEF Kept, KeptBase, Unstarts, Loads, Told, With, SameModel, SameCard
        <5>g2. Preserves(s, a4)
            BY <1>s DEF Preserves, PreservesBase, PreservesWant, DeviceOK, ModelOK, WantOK,
               WakeOK, With, Running
        <5>g3. f = "none" => Runs(s, "internal", a4, "none")
            BY <1>s DEF Runs, RunsOK, Calm, ModelOK, WantOK, With, Running
        <5> QED BY <5>e, <5>g1, <5>g2, <5>g3, <4>r4
      <4>2. CASE ~(~a4.ok)
        <5> DEFINE a5 == Loaded_START(a4, f)
        <5>r5. a5 \in StreamRecord /\ Eff_Loaded_START(a4, a5, f)
            BY <4>r4, Does_Loaded_START
        <5>e. RESUME(FSTAGE_LOAD(s, f), TRUE, f) = a5
            BY <1>2, <2>k1, <2>k2, <2>1, <3>2, <4>prc, <4>2 DEF RESUME, FSTAGE_LOAD,
               Idle_FSTAGE_LOAD, Loaded_RESUME, Loaded_INTERNAL_RESUME, isActive,
               Ssr_RESUME,
               No_paused
        <5> HIDE DEF a1, a2, a3, a4, a5
        <5> USE <1>2, <2>k1, <2>k2, <2>1, <3>2, <4>prc, <4>2, <2>r1, <2>r2, <2>r3, <4>r4,
           <5>r5
               DEF Eff_Ok, Eff_No_paused, Eff_SendRecognitionConfig, Eff_Loaded_START
        <5>g1. Kept(s, a5) /\ SameModel(s, a5) /\ SameCard(s, a5) /\ a5.faults = s.faults
            BY <1>s DEF Kept, KeptBase, Unstarts, Loads, Told, With, SameModel, SameCard
        <5>g2. Preserves(s, a5)
            BY <1>s DEF Preserves, PreservesBase, PreservesWant, DeviceOK, ModelOK, WantOK,
               WakeOK, With, Running
        <5>g3. f = "none" => Runs(s, "internal", a5, "none")
            BY <1>s DEF Runs, RunsOK, Calm, ModelOK, WantOK, With, Running
        <5> QED BY <5>e, <5>g1, <5>g2, <5>g3, <5>r5
      <4> QED BY <4>1, <4>2
    <3> QED BY <3>1, <3>2
  <2>2. CASE ~(a3.currentState = "STARTED")
    <3>e. RESUME(FSTAGE_LOAD(s, f), TRUE, f) = a3
        BY <1>2, <2>k1, <2>k2, <2>2 DEF RESUME, FSTAGE_LOAD, Idle_FSTAGE_LOAD,
           Loaded_RESUME, Loaded_INTERNAL_RESUME, isActive, Ssr_RESUME, No_paused
    <3> HIDE DEF a1, a2, a3
    <3> USE <1>2, <2>k1, <2>k2, <2>2, <2>r1, <2>r2, <2>r3 DEF Eff_Ok, Eff_No_paused
    <3>g1. Kept(s, a3) /\ SameModel(s, a3) /\ SameCard(s, a3) /\ a3.faults = s.faults
        BY <1>s DEF Kept, KeptBase, Unstarts, Loads, Told, With, SameModel, SameCard
    <3>g2. Preserves(s, a3)
        BY <1>s DEF Preserves, PreservesBase, PreservesWant, DeviceOK, ModelOK, WantOK,
           WakeOK, With, Running
    <3>g3. f = "none" => Runs(s, "internal", a3, "none")
        BY <1>s DEF Runs, RunsOK, Calm, ModelOK, WantOK, With, Running
    <3> QED BY <3>e, <3>g1, <3>g2, <3>g3, <2>r3
  <2> QED BY <2>1, <2>2
<1>3. CASE s.state = "SSR"
  <2> DEFINE a1 == Ok(s)
  <2>r1. a1 \in StreamRecord /\ Eff_Ok(s, a1) BY Does_Ok
  <2>k1. a1.state = s.state /\ a1.currentState = s.currentState
            /\ a1.state_for_restore = s.state_for_restore
      BY <1>3, <2>r1 DEF Eff_Ok
  <2>1. CASE ~a1.paused
    <3> DEFINE a2 == Ok(a1)
    <3>r2. a2 \in StreamRecord /\ Eff_Ok(a1, a2) BY <2>r1, Does_Ok
    <3>e. RESUME(FSTAGE_LOAD(s, f), TRUE, f) = a2
        BY <1>3, <2>k1, <2>1 DEF RESUME, FSTAGE_LOAD, Idle_FSTAGE_LOAD, Loaded_RESUME,
           Loaded_INTERNAL_RESUME, isActive, Ssr_RESUME
    <3> HIDE DEF a1, a2
    <3> USE <1>3, <2>k1, <2>1, <2>r1, <3>r2 DEF Eff_Ok
    <3>g1. Kept(s, a2) /\ SameModel(s, a2) /\ SameCard(s, a2) /\ a2.faults = s.faults
        BY <1>s DEF Kept, KeptBase, Unstarts, Loads, Told, With, SameModel, SameCard
    <3>g2. Preserves(s, a2)
        BY <1>s DEF Preserves, PreservesBase, PreservesWant, DeviceOK, ModelOK, WantOK,
           WakeOK, With, Running
    <3>g3. f = "none" => Runs(s, "internal", a2, "none")
        BY <1>s DEF Runs, RunsOK, Calm, ModelOK, WantOK, With, Running
    <3> QED BY <3>e, <3>g1, <3>g2, <3>g3, <3>r2
  <2>2. CASE ~(~a1.paused)
    <3> DEFINE a2 == No_paused(a1)
    <3>r2. a2 \in StreamRecord /\ Eff_No_paused(a1, a2) BY <2>r1, Does_No_paused
    <3>1. CASE s.currentState = "STARTED"
      <4> DEFINE a3 == Set_state_for_restore(a2, "ACTIVE")
      <4>r3. a3 \in StreamRecord /\ Eff_Set_state_for_restore(a2, a3, "ACTIVE")
          BY <3>r2, Does_Set_state_for_restore, Values
      <4> DEFINE a4 == Ok(a3)
      <4>r4. a4 \in StreamRecord /\ Eff_Ok(a3, a4) BY <4>r3, Does_Ok
      <4>e. RESUME(FSTAGE_LOAD(s, f), TRUE, f) = a4
          BY <1>3, <2>k1, <2>2, <3>1 DEF RESUME, FSTAGE_LOAD, Idle_FSTAGE_LOAD,
             Loaded_RESUME,
             Loaded_INTERNAL_RESUME, isActive, Ssr_RESUME, No_paused, Set_state_for_restore
      <4> HIDE DEF a1, a2, a3, a4
      <4> USE <1>3, <2>k1, <2>2, <3>1, <2>r1, <3>r2, <4>r3, <4>r4 DEF Eff_Ok, Eff_No_paused,
             Eff_Set_state_for_restore
      <4>g1. Kept(s, a4) /\ SameModel(s, a4) /\ SameCard(s, a4) /\ a4.faults = s.faults
          BY <1>s DEF Kept, KeptBase, Unstarts, Loads, Told, With, SameModel, SameCard
      <4>g2. Preserves(s, a4)
          BY <1>s DEF Preserves, PreservesBase, PreservesWant, DeviceOK, ModelOK, WantOK,
             WakeOK, With, Running
      <4>g3. f = "none" => Runs(s, "internal", a4, "none")
          BY <1>s DEF Runs, RunsOK, Calm, ModelOK, WantOK, With, Running
      <4> QED BY <4>e, <4>g1, <4>g2, <4>g3, <4>r4
    <3>2. CASE ~(s.currentState = "STARTED")
      <4>pq. PICK q \in Restores : q = s.state_for_restore
          BY <3>r2, FieldTypes
      <4> DEFINE a3 == Set_state_for_restore(a2, q)
      <4>r3. a3 \in StreamRecord /\ Eff_Set_state_for_restore(a2, a3, q)
          BY <3>r2, Does_Set_state_for_restore, <4>pq
      <4> DEFINE a4 == Ok(a3)
      <4>r4. a4 \in StreamRecord /\ Eff_Ok(a3, a4) BY <4>r3, Does_Ok
      <4>e. RESUME(FSTAGE_LOAD(s, f), TRUE, f) = a4
          BY <1>3, <2>k1, <2>2, <3>2, <4>pq DEF RESUME, FSTAGE_LOAD, Idle_FSTAGE_LOAD,
             Loaded_RESUME, Loaded_INTERNAL_RESUME, isActive, Ssr_RESUME, No_paused,
             Set_state_for_restore
      <4> HIDE DEF a1, a2, a3, a4
      <4> USE <1>3, <2>k1, <2>2, <3>2, <4>pq, <2>r1, <3>r2, <4>r3, <4>r4 DEF Eff_Ok,
             Eff_No_paused, Eff_Set_state_for_restore
      <4>g1. Kept(s, a4) /\ SameModel(s, a4) /\ SameCard(s, a4) /\ a4.faults = s.faults
          BY <1>s DEF Kept, KeptBase, Unstarts, Loads, Told, With, SameModel, SameCard
      <4>g2. Preserves(s, a4)
          BY <1>s DEF Preserves, PreservesBase, PreservesWant, DeviceOK, ModelOK, WantOK,
             WakeOK, With, Running
      <4>g3. f = "none" => Runs(s, "internal", a4, "none")
          BY <1>s DEF Runs, RunsOK, Calm, ModelOK, WantOK, With, Running
      <4> QED BY <4>e, <4>g1, <4>g2, <4>g3, <4>r4
    <3> QED BY <3>1, <3>2
  <2> QED BY <2>1, <2>2
<1>4. CASE s.state \in {"ACTIVE", "BUFFERING"}
  <2> DEFINE a1 == Ok(s)
  <2>r1. a1 \in StreamRecord /\ Eff_Ok(s, a1) BY Does_Ok
  <2>k1. a1.state = s.state
      BY <1>4, <2>r1 DEF Eff_Ok
  <2> DEFINE a2 == Ok(a1)
  <2>r2. a2 \in StreamRecord /\ Eff_Ok(a1, a2) BY <2>r1, Does_Ok
  <2>e. RESUME(FSTAGE_LOAD(s, f), TRUE, f) = a2
      BY <1>4, <2>k1 DEF RESUME, FSTAGE_LOAD, Idle_FSTAGE_LOAD, Loaded_RESUME,
         Loaded_INTERNAL_RESUME, isActive, Ssr_RESUME
  <2> HIDE DEF a1, a2
  <2> USE <1>4, <2>k1, <2>r1, <2>r2 DEF Eff_Ok
  <2>g1. Kept(s, a2) /\ SameModel(s, a2) /\ SameCard(s, a2) /\ a2.faults = s.faults
      BY <1>s DEF Kept, KeptBase, Unstarts, Loads, Told, With, SameModel, SameCard
  <2>g2. Preserves(s, a2)
      BY <1>s DEF Preserves, PreservesBase, PreservesWant, DeviceOK, ModelOK, WantOK,
         WakeOK, With, Running
  <2>g3. f = "none" => Runs(s, "internal", a2, "none")
      BY <1>s DEF Runs, RunsOK, Calm, ModelOK, WantOK, With, Running
  <2> QED BY <2>e, <2>g1, <2>g2, <2>g3, <2>r2
<1>5. CASE s.state = "DETECTED"
  <2> DEFINE a1 == Ok(s)
  <2>r1. a1 \in StreamRecord /\ Eff_Ok(s, a1) BY Does_Ok
  <2>k1. a1.state = "DETECTED"
      BY <1>5, <2>r1 DEF Eff_Ok
  <2> DEFINE a2 == No_paused(a1)
  <2>r2. a2 \in StreamRecord /\ Eff_No_paused(a1, a2) BY <2>r1, Does_No_paused
  <2> DEFINE a3 == Ok(a2)
  <2>r3. a3 \in StreamRecord /\ Eff_Ok(a2, a3) BY <2>r2, Does_Ok
  <2>e. RESUME(FSTAGE_LOAD(s, f), TRUE, f) = a3
      BY <1>5, <2>k1 DEF RESUME, FSTAGE_LOAD, Idle_FSTAGE_LOAD, Loaded_RESUME,
         Loaded_INTERNAL_RESUME, isActive, Ssr_RESUME, No_paused
  <2> HIDE DEF a1, a2, a3
  <2> USE <1>5, <2>k1, <2>r1, <2>r2, <2>r3 DEF Eff_Ok, Eff_No_paused
  <2>g1. Kept(s, a3) /\ SameModel(s, a3) /\ SameCard(s, a3) /\ a3.faults = s.faults
      BY <1>s DEF Kept, KeptBase, Unstarts, Loads, Told, With, SameModel, SameCard
  <2>g2. Preserves(s, a3)
      BY <1>s DEF Preserves, PreservesBase, PreservesWant, DeviceOK, ModelOK, WantOK,
         WakeOK, With, Running
  <2>g3. f = "none" => Runs(s, "internal", a3, "none")
      BY <1>s DEF Runs, RunsOK, Calm, ModelOK, WantOK, With, Running
  <2> QED BY <2>e, <2>g1, <2>g2, <2>g3, <2>r3
<1> QED BY <1>1, <1>2, <1>3, <1>4, <1>5, <1>s

(* The subsystem goes down.                                                   *)
LEMMA Ev_SSR_OFFLINE ==
    ASSUME NEW s \in StreamRecord, NEW f
    PROVE  LET t == SSR_OFFLINE(s, f) IN
           /\ t \in StreamRecord
           /\ Kept(s, t) /\ SameModel(s, t) /\ CardDown(s, t) /\ t.faults = s.faults
           /\ Preserves(s, t)
           /\ f = "none" => Runs(s, "none", t, "none")
<1>s. /\ s.state \in {"IDLE", "LOADED", "SSR", "ACTIVE", "DETECTED", "BUFFERING"}
      /\ s.wake \in Int
      /\ s.state_for_restore \in {"NONE", "IDLE", "LOADED", "ACTIVE"}
      /\ s.currentState \in {"IDLE", "OPENED", "STARTED", "STOPPED"}
    BY FieldTypes, StAssumption DEF States, Running, Restores, Currents
<1>prs. PICK rs \in Restores : rs = restoreOf(s)
    BY <1>s DEF restoreOf, Restores
<1>k1. /\ s.state_for_restore # "NONE" => rs = s.state_for_restore
       /\ s.state_for_restore = "NONE" /\ rs = "ACTIVE" =>
             \/ s.state \in {"ACTIVE", "SSR"}
             \/ s.state = "BUFFERING" /\ s.second_stage_processing
       /\ s.state_for_restore = "NONE" /\ rs = "LOADED" =>
             \/ s.state \in {"LOADED", "DETECTED"}
             \/ s.state = "BUFFERING" /\ ~s.second_stage_processing
       /\ rs \in {"IDLE", "LOADED", "ACTIVE"}
    BY <1>prs, <1>s DEF restoreOf
<1>1. CASE s.state = "SSR"
  <2> DEFINE a1 == Ok(s)
  <2>r1. a1 \in StreamRecord /\ Eff_Ok(s, a1) BY Does_Ok
  <2>e. SSR_OFFLINE(s, f) = a1
      BY <1>prs, <1>k1, <1>1 DEF SSR_OFFLINE, Loaded_FSTAGE_UNLOAD, Running_STOP
  <2> HIDE DEF a1
  <2> USE <1>prs, <1>k1, <1>1, <2>r1 DEF Eff_Ok
  <2>g1. Kept(s, a1) /\ SameModel(s, a1) /\ CardDown(s, a1) /\ a1.faults = s.faults
      BY <1>s DEF Kept, KeptBase, Unstarts, Loads, Told, With, SameModel, CardDown
  <2>g2. Preserves(s, a1)
      BY <1>s DEF Preserves, PreservesBase, PreservesWant, DeviceOK, ModelOK, WantOK,
         WakeOK, With, Running
  <2>g3. f = "none" => Runs(s, "none", a1, "none")
      BY <1>s DEF Runs, RunsOK, Calm, ModelOK, WantOK, With, Running
  <2> QED BY <2>e, <2>g1, <2>g2, <2>g3, <2>r1
<1>2. CASE s.state = "IDLE"
  <2> DEFINE a1 == Set_state_for_restore(s, rs)
  <2>r1. a1 \in StreamRecord /\ Eff_Set_state_for_restore(s, a1, rs)
      BY Does_Set_state_for_restore, <1>prs
  <2> DEFINE a2 == TransitTo(a1, "SSR")
  <2>r2. a2 \in StreamRecord /\ Eff_TransitTo(a1, a2, "SSR")
      BY <2>r1, Does_TransitTo, Values
  <2> DEFINE a3 == Ok(a2)
  <2>r3. a3 \in StreamRecord /\ Eff_Ok(a2, a3) BY <2>r2, Does_Ok
  <2>e. SSR_OFFLINE(s, f) = a3
      BY <1>prs, <1>k1, <1>2 DEF SSR_OFFLINE, Loaded_FSTAGE_UNLOAD, Running_STOP,
         Set_state_for_restore
  <2> HIDE DEF a1, a2, a3
  <2> USE <1>prs, <1>k1, <1>2, <2>r1, <2>r2, <2>r3 DEF Eff_Set_state_for_restore,
         Eff_TransitTo, Eff_Ok
  <2>g1. Kept(s, a3) /\ SameModel(s, a3) /\ CardDown(s, a3) /\ a3.faults = s.faults
      BY <1>s DEF Kept, KeptBase, Unstarts, Loads, Told, With, SameModel, CardDown
  <2>g2. Preserves(s, a3)
      BY <1>s DEF Preserves, PreservesBase, PreservesWant, DeviceOK, ModelOK, WantOK,
         WakeOK, With, Running
  <2>g3. f = "none" => Runs(s, "none", a3, "none")
      BY <1>s DEF Runs, RunsOK, Calm, ModelOK, WantOK, With, Running
  <2> QED BY <2>e, <2>g1, <2>g2, <2>g3, <2>r3
<1>3. CASE s.state = "LOADED"
  <2> DEFINE a1 == Set_state_for_restore(s, rs)
  <2>r1. a1 \in StreamRecord /\ Eff_Set_state_for_restore(s, a1, rs)
      BY Does_Set_state_for_restore, <1>prs
  <2> DEFINE a2 == FstageUnload(a1, f)
  <2>r2. a2 \in StreamRecord /\ Eff_FstageUnload(a1, a2, f) BY <2>r1, Does_FstageUnload
  <2> DEFINE a3 == TransitTo(a2, "IDLE")
  <2>r3. a3 \in StreamRecord /\ Eff_TransitTo(a2, a3, "IDLE")
      BY <2>r2, Does_TransitTo, Values
  <2> DEFINE a4 == TransitTo(a3, "SSR")
  <2>r4. a4 \in StreamRecord /\ Eff_TransitTo(a3, a4, "SSR")
      BY <2>r3, Does_TransitTo, Values
  <2>e. SSR_OFFLINE(s, f) = a4
      BY <1>prs, <1>k1, <1>3 DEF SSR_OFFLINE, Loaded_FSTAGE_UNLOAD, Running_STOP,
         Set_state_for_restore
  <2> HIDE DEF a1, a2, a3, a4
  <2> USE <1>prs, <1>k1, <1>3, <2>r1, <2>r2, <2>r3, <2>r4 DEF Eff_Set_state_for_restore,
         Eff_FstageUnload, Eff_TransitTo
  <2>g1. Kept(s, a4) /\ SameModel(s, a4) /\ CardDown(s, a4) /\ a4.faults = s.faults
      BY <1>s DEF Kept, KeptBase, Unstarts, Loads, Told, With, SameModel, CardDown
  <2>g2. Preserves(s, a4)
      BY <1>s DEF Preserves, PreservesBase, PreservesWant, DeviceOK, ModelOK, WantOK,
         WakeOK, With, Running
  <2>g3. f = "none" => Runs(s, "none", a4, "none")
      BY <1>s DEF Runs, RunsOK, Calm, ModelOK, WantOK, With, Running
  <2> QED BY <2>e, <2>g1, <2>g2, <2>g3, <2>r4
<1>4. CASE s.state \in {"ACTIVE", "DETECTED", "BUFFERING"}
  <2> DEFINE a1 == Set_state_for_restore(s, rs)
  <2>r1. a1 \in StreamRecord /\ Eff_Set_state_for_restore(s, a1, rs)
      BY Does_Set_state_for_restore, <1>prs
  <2> DEFINE a2 == stopRecognition(a1)
  <2>r2. a2 \in StreamRecord /\ Eff_stopRecognition(a1, a2) BY <2>r1, Does_stopRecognition
  <2> DEFINE a3 == FstageUnload(a2, f)
  <2>r3. a3 \in StreamRecord /\ Eff_FstageUnload(a2, a3, f) BY <2>r2, Does_FstageUnload
  <2> DEFINE a4 == TransitTo(a3, "IDLE")
  <2>r4. a4 \in StreamRecord /\ Eff_TransitTo(a3, a4, "IDLE")
      BY <2>r3, Does_TransitTo, Values
  <2> DEFINE a5 == TransitTo(a4, "SSR")
  <2>r5. a5 \in StreamRecord /\ Eff_TransitTo(a4, a5, "SSR")
      BY <2>r4, Does_TransitTo, Values
  <2>e. SSR_OFFLINE(s, f) = a5
      BY <1>prs, <1>k1, <1>4 DEF SSR_OFFLINE, Loaded_FSTAGE_UNLOAD, Running_STOP,
         Set_state_for_restore
  <2> HIDE DEF a1, a2, a3, a4, a5
  <2> USE <1>prs, <1>k1, <1>4, <2>r1, <2>r2, <2>r3, <2>r4, <2>r5 DEF
         Eff_Set_state_for_restore, Eff_stopRecognition, Eff_FstageUnload, Eff_TransitTo
  <2>g1. Kept(s, a5) /\ SameModel(s, a5) /\ CardDown(s, a5) /\ a5.faults = s.faults
      BY <1>s DEF Kept, KeptBase, Unstarts, Loads, Told, With, SameModel, CardDown
  <2>g2. Preserves(s, a5)
      BY <1>s DEF Preserves, PreservesBase, PreservesWant, DeviceOK, ModelOK, WantOK,
         WakeOK, With, Running
  <2>g3. f = "none" => Runs(s, "none", a5, "none")
      BY <1>s DEF Runs, RunsOK, Calm, ModelOK, WantOK, With, Running
  <2> QED BY <2>e, <2>g1, <2>g2, <2>g3, <2>r5
<1> QED BY <1>1, <1>2, <1>3, <1>4, <1>s

(* The subsystem comes up.                                                    *)
LEMMA Ev_SSR_ONLINE ==
    ASSUME NEW s \in StreamRecord, NEW f
    PROVE  LET t == SSR_ONLINE(s, f) IN
           /\ t \in StreamRecord
           /\ Kept(s, t) /\ SameModel(s, t) /\ CardUp(s, t) /\ t.faults = s.faults
           /\ Preserves(s, t)
           /\ f = "none" => Runs(s, "none", t, "none")
<1>s. /\ s.state \in {"IDLE", "LOADED", "SSR", "ACTIVE", "DETECTED", "BUFFERING"}
      /\ s.wake \in Int
      /\ s.state_for_restore \in {"NONE", "IDLE", "LOADED", "ACTIVE"}
      /\ s.currentState \in {"IDLE", "OPENED", "STARTED", "STOPPED"}
    BY FieldTypes, StAssumption DEF States, Running, Restores, Currents
<1>1. CASE s.state # "SSR"
  <2> DEFINE a1 == Ok(s)
  <2>r1. a1 \in StreamRecord /\ Eff_Ok(s, a1) BY Does_Ok
  <2>e. SSR_ONLINE(s, f) = a1
      BY <1>1 DEF SSR_ONLINE, Idle_FSTAGE_LOAD
  <2> HIDE DEF a1
  <2> USE <1>1, <2>r1 DEF Eff_Ok
  <2>g1. Kept(s, a1) /\ SameModel(s, a1) /\ CardUp(s, a1) /\ a1.faults = s.faults
      BY <1>s DEF Kept, KeptBase, Unstarts, Loads, Told, With, SameModel, CardUp
  <2>g2. Preserves(s, a1)
      BY <1>s DEF Preserves, PreservesBase, PreservesWant, DeviceOK, ModelOK, WantOK,
         WakeOK, With, Running
  <2>g3. f = "none" => Runs(s, "none", a1, "none")
      BY <1>s DEF Runs, RunsOK, Calm, ModelOK, WantOK, With, Running
  <2> QED BY <2>e, <2>g1, <2>g2, <2>g3, <2>r1
<1>2. CASE s.state = "SSR" /\ s.gsl_engine_model = "none"
  <2> DEFINE a1 == TransitTo(s, "IDLE")
  <2>r1. a1 \in StreamRecord /\ Eff_TransitTo(s, a1, "IDLE") BY Does_TransitTo, Values
  <2> DEFINE a2 == Mark(a1, TRUE, "restore")
  <2>r2. a2 \in StreamRecord /\ Eff_Mark(a1, a2, "restore") BY <2>r1, Does_Mark, Values
  <2> DEFINE a3 == Ok(a2)
  <2>r3. a3 \in StreamRecord /\ Eff_Ok(a2, a3) BY <2>r2, Does_Ok
  <2>e. SSR_ONLINE(s, f) = a3
      BY <1>2 DEF SSR_ONLINE, Idle_FSTAGE_LOAD
  <2> HIDE DEF a1, a2, a3
  <2> USE <1>2, <2>r1, <2>r2, <2>r3 DEF Eff_TransitTo, Eff_Mark, Eff_Ok
  <2>g1. Kept(s, a3) /\ SameModel(s, a3) /\ CardUp(s, a3) /\ a3.faults = s.faults
      BY <1>s DEF Kept, KeptBase, Unstarts, Loads, Told, With, SameModel, CardUp
  <2>g2. Preserves(s, a3)
      BY <1>s DEF Preserves, PreservesBase, PreservesWant, DeviceOK, ModelOK, WantOK,
         WakeOK, With, Running
  <2>g3. f = "none" => Runs(s, "none", a3, "none")
      BY <1>s DEF Runs, RunsOK, Calm, ModelOK, WantOK, With, Running
  <2> QED BY <2>e, <2>g1, <2>g2, <2>g3, <2>r3
<1>3. CASE s.state = "SSR" /\ s.gsl_engine_model # "none"
  <2>pw. PICK w \in Restores : w = IF s.state_for_restore # "IDLE" THEN s.state_for_restore
            ELSE IF s.currentState = "STARTED" THEN "ACTIVE"
            ELSE IF s.currentState \in {"OPENED", "STOPPED"} THEN "LOADED" ELSE "IDLE"
      BY <1>s DEF Restores
  <2> DEFINE a1 == TransitTo(s, "IDLE")
  <2>r1. a1 \in StreamRecord /\ Eff_TransitTo(s, a1, "IDLE") BY Does_TransitTo, Values
  <2> DEFINE a2 == Set_state_for_restore(a1, w)
  <2>r2. a2 \in StreamRecord /\ Eff_Set_state_for_restore(a1, a2, w)
      BY <2>r1, Does_Set_state_for_restore, <2>pw
  <2>1. CASE w \in {"LOADED", "ACTIVE"}
    <3> DEFINE a3 == FstageLoad(a2, f)
    <3>r3. a3 \in StreamRecord /\ Eff_FstageLoad(a2, a3, f) BY <2>r2, Does_FstageLoad
    <3>1. CASE ~a3.ok
      <4> DEFINE a4 == Mark(a3, TRUE, "restore")
      <4>r4. a4 \in StreamRecord /\ Eff_Mark(a3, a4, "restore")
          BY <3>r3, Does_Mark, Values
      <4>e. SSR_ONLINE(s, f) = a4
          BY <1>3, <2>pw, <2>1, <3>1 DEF SSR_ONLINE, Idle_FSTAGE_LOAD, Set_state_for_restore
      <4> HIDE DEF a1, a2, a3, a4
      <4> USE <1>3, <2>pw, <2>1, <3>1, <2>r1, <2>r2, <3>r3, <4>r4 DEF Eff_TransitTo,
             Eff_Set_state_for_restore, Eff_FstageLoad, Eff_Mark
      <4>g1. Kept(s, a4) /\ SameModel(s, a4) /\ CardUp(s, a4) /\ a4.faults = s.faults
          BY <1>s DEF Kept, KeptBase, Unstarts, Loads, Told, With, SameModel, CardUp
      <4>g2. Preserves(s, a4)
          BY <1>s DEF Preserves, PreservesBase, PreservesWant, DeviceOK, ModelOK, WantOK,
             WakeOK, With, Running
      <4>g3. f = "none" => Runs(s, "none", a4, "none")
          BY <1>s DEF Runs, RunsOK, Calm, ModelOK, WantOK, With, Running
      <4> QED BY <4>e, <4>g1, <4>g2, <4>g3, <4>r4
    <3>2. CASE a3.ok /\ a3.crash
      <4> DEFINE a4 == TransitTo(a3, "LOADED")
      <4>r4. a4 \in StreamRecord /\ Eff_TransitTo(a3, a4, "LOADED")
          BY <3>r3, Does_TransitTo, Values
      <4>k1. a4.ok /\ a4.crash
          BY <1>3, <2>pw, <2>1, <3>2, <2>r1, <2>r2, <3>r3, <4>r4 DEF Eff_TransitTo,
             Eff_Set_state_for_restore, Eff_FstageLoad, Eff_TransitTo
      <4> DEFINE a5 == Mark(a4, TRUE, "restore")
      <4>r5. a5 \in StreamRecord /\ Eff_Mark(a4, a5, "restore")
          BY <4>r4, Does_Mark, Values
      <4>e. SSR_ONLINE(s, f) = a5
          BY <1>3, <2>pw, <2>1, <3>2, <4>k1 DEF SSR_ONLINE, Idle_FSTAGE_LOAD,
             Set_state_for_restore
      <4> HIDE DEF a1, a2, a3, a4, a5
      <4> USE <1>3, <2>pw, <2>1, <3>2, <4>k1, <2>r1, <2>r2, <3>r3, <4>r4, <4>r5 DEF
             Eff_TransitTo, Eff_Set_state_for_restore, Eff_FstageLoad, Eff_Mark
      <4>g1. Kept(s, a5) /\ SameModel(s, a5) /\ CardUp(s, a5) /\ a5.faults = s.faults
          BY <1>s DEF Kept, KeptBase, Unstarts, Loads, Told, With, SameModel, CardUp
      <4>g2. Preserves(s, a5)
          BY <1>s DEF Preserves, PreservesBase, PreservesWant, DeviceOK, ModelOK, WantOK,
             WakeOK, With, Running
      <4>g3. f = "none" => Runs(s, "none", a5, "none")
          BY <1>s DEF Runs, RunsOK, Calm, ModelOK, WantOK, With, Running
      <4> QED BY <4>e, <4>g1, <4>g2, <4>g3, <4>r5
    <3>3. CASE a3.ok /\ ~a3.crash
      <4> DEFINE a4 == TransitTo(a3, "LOADED")
      <4>r4. a4 \in StreamRecord /\ Eff_TransitTo(a3, a4, "LOADED")
          BY <3>r3, Does_TransitTo, Values
      <4>k1. a4.ok /\ ~a4.crash
          BY <1>3, <2>pw, <2>1, <3>3, <2>r1, <2>r2, <3>r3, <4>r4 DEF Eff_TransitTo,
             Eff_Set_state_for_restore, Eff_FstageLoad, Eff_TransitTo
      <4>1. CASE a4.rec_config = "none"
        <5>1. CASE w = "ACTIVE"
          <6> DEFINE a5 == Loaded_START(a4, f)
          <6>r5. a5 \in StreamRecord /\ Eff_Loaded_START(a4, a5, f)
              BY <4>r4, Does_Loaded_START
          <6>1. CASE a5.ok /\ ~a5.crash
            <7> DEFINE a6 == Set_state_for_restore(a5, "NONE")
            <7>r6. a6 \in StreamRecord /\ Eff_Set_state_for_restore(a5, a6, "NONE")
                BY <6>r5, Does_Set_state_for_restore, Values, <2>pw
            <7>e. SSR_ONLINE(s, f) = a6
                BY <1>3, <2>pw, <2>1, <3>3, <4>k1, <4>1, <5>1, <6>1 DEF SSR_ONLINE,
                   Idle_FSTAGE_LOAD, Set_state_for_restore
            <7> HIDE DEF a1, a2, a3, a4, a5, a6
            <7> USE <1>3, <2>pw, <2>1, <3>3, <4>k1, <4>1, <5>1, <6>1, <2>r1, <2>r2, <3>r3,
               <4>r4,
                   <6>r5, <7>r6 DEF Eff_TransitTo, Eff_Set_state_for_restore,
                   Eff_FstageLoad,
                   Eff_Loaded_START
            <7>g1. Kept(s, a6) /\ SameModel(s, a6) /\ CardUp(s, a6) /\ a6.faults = s.faults
                BY <1>s DEF Kept, KeptBase, Unstarts, Loads, Told, With, SameModel, CardUp
            <7>g2. Preserves(s, a6)
                BY <1>s DEF Preserves, PreservesBase, PreservesWant, DeviceOK, ModelOK,
                   WantOK,
                   WakeOK, With, Running
            <7>g3. f = "none" => Runs(s, "none", a6, "none")
                BY <1>s DEF Runs, RunsOK, Calm, ModelOK, WantOK, With, Running
            <7> QED BY <7>e, <7>g1, <7>g2, <7>g3, <7>r6
          <6>2. CASE ~(a5.ok /\ ~a5.crash)
            <7> DEFINE a6 == Mark(a5, TRUE, "restore")
            <7>r6. a6 \in StreamRecord /\ Eff_Mark(a5, a6, "restore")
                BY <6>r5, Does_Mark, Values
            <7>e. SSR_ONLINE(s, f) = a6
                BY <1>3, <2>pw, <2>1, <3>3, <4>k1, <4>1, <5>1, <6>2 DEF SSR_ONLINE,
                   Idle_FSTAGE_LOAD, Set_state_for_restore
            <7> HIDE DEF a1, a2, a3, a4, a5, a6
            <7> USE <1>3, <2>pw, <2>1, <3>3, <4>k1, <4>1, <5>1, <6>2, <2>r1, <2>r2, <3>r3,
               <4>r4,
                   <6>r5, <7>r6 DEF Eff_TransitTo, Eff_Set_state_for_restore,
                   Eff_FstageLoad,
                   Eff_Loaded_START, Eff_Mark
            <7>g1. Kept(s, a6) /\ SameModel(s, a6) /\ CardUp(s, a6) /\ a6.faults = s.faults
                BY <1>s DEF Kept, KeptBase, Unstarts, Loads, Told, With, SameModel, CardUp
            <7>g2. Preserves(s, a6)
                BY <1>s DEF Preserves, PreservesBase, PreservesWant, DeviceOK, ModelOK,
                   WantOK,
                   WakeOK, With, Running
            <7>g3. f = "none" => Runs(s, "none", a6, "none")
                BY <1>s DEF Runs, RunsOK, Calm, ModelOK, WantOK, With, Running
            <7> QED BY <7>e, <7>g1, <7>g2, <7>g3, <7>r6
          <6> QED BY <6>1, <6>2
        <5>2. CASE ~(w = "ACTIVE")
          <6>1. CASE a4.ok /\ ~a4.crash
            <7> DEFINE a5 == Set_state_for_restore(a4, "NONE")
            <7>r5. a5 \in StreamRecord /\ Eff_Set_state_for_restore(a4, a5, "NONE")
                BY <4>r4, Does_Set_state_for_restore, Values, <2>pw
            <7>e. SSR_ONLINE(s, f) = a5
                BY <1>3, <2>pw, <2>1, <3>3, <4>k1, <4>1, <5>2, <6>1 DEF SSR_ONLINE,
                   Idle_FSTAGE_LOAD, Set_state_for_restore
            <7> HIDE DEF a1, a2, a3, a4, a5
            <7> USE <1>3, <2>pw, <2>1, <3>3, <4>k1, <4>1, <5>2, <6>1, <2>r1, <2>r2, <3>r3,
               <4>r4,
                   <7>r5 DEF Eff_TransitTo, Eff_Set_state_for_restore, Eff_FstageLoad
            <7>g1. Kept(s, a5) /\ SameModel(s, a5) /\ CardUp(s, a5) /\ a5.faults = s.faults
                BY <1>s DEF Kept, KeptBase, Unstarts, Loads, Told, With, SameModel, CardUp
            <7>g2. Preserves(s, a5)
                BY <1>s DEF Preserves, PreservesBase, PreservesWant, DeviceOK, ModelOK,
                   WantOK,
                   WakeOK, With, Running
            <7>g3. f = "none" => Runs(s, "none", a5, "none")
                BY <1>s DEF Runs, RunsOK, Calm, ModelOK, WantOK, With, Running
            <7> QED BY <7>e, <7>g1, <7>g2, <7>g3, <7>r5
          <6>2. CASE ~(a4.ok /\ ~a4.crash)
            <7> DEFINE a5 == Mark(a4, TRUE, "restore")
            <7>r5. a5 \in StreamRecord /\ Eff_Mark(a4, a5, "restore")
                BY <4>r4, Does_Mark, Values
            <7>e. SSR_ONLINE(s, f) = a5
                BY <1>3, <2>pw, <2>1, <3>3, <4>k1, <4>1, <5>2, <6>2 DEF SSR_ONLINE,
                   Idle_FSTAGE_LOAD, Set_state_for_restore
            <7> HIDE DEF a1, a2, a3, a4, a5
            <7> USE <1>3, <2>pw, <2>1, <3>3, <4>k1, <4>1, <5>2, <6>2, <2>r1, <2>r2, <3>r3,
               <4>r4,
                   <7>r5 DEF Eff_TransitTo, Eff_Set_state_for_restore, Eff_FstageLoad,
                   Eff_Mark
            <7>g1. Kept(s, a5) /\ SameModel(s, a5) /\ CardUp(s, a5) /\ a5.faults = s.faults
                BY <1>s DEF Kept, KeptBase, Unstarts, Loads, Told, With, SameModel, CardUp
            <7>g2. Preserves(s, a5)
                BY <1>s DEF Preserves, PreservesBase, PreservesWant, DeviceOK, ModelOK,
                   WantOK,
                   WakeOK, With, Running
            <7>g3. f = "none" => Runs(s, "none", a5, "none")
                BY <1>s DEF Runs, RunsOK, Calm, ModelOK, WantOK, With, Running
            <7> QED BY <7>e, <7>g1, <7>g2, <7>g3, <7>r5
          <6> QED BY <6>1, <6>2
        <5> QED BY <5>1, <5>2
      <4>2. CASE ~(a4.rec_config = "none")
        <5>prc. PICK rc \in Recs : rc = a4.rec_config
            BY <4>r4, FieldTypes
        <5> DEFINE a5 == SendRecognitionConfig(a4, rc, f)
        <5>r5. a5 \in StreamRecord /\ Eff_SendRecognitionConfig(a4, a5, rc, f)
            BY <4>r4, Does_SendRecognitionConfig, <2>pw, <5>prc
        <5>1. CASE ~a5.ok
          <6> DEFINE a6 == Mark(a5, TRUE, "restore")
          <6>r6. a6 \in StreamRecord /\ Eff_Mark(a5, a6, "restore")
              BY <5>r5, Does_Mark, Values
          <6>e. SSR_ONLINE(s, f) = a6
              BY <1>3, <2>pw, <2>1, <3>3, <4>k1, <4>2, <5>prc, <5>1 DEF SSR_ONLINE,
                 Idle_FSTAGE_LOAD, Set_state_for_restore
          <6> HIDE DEF a1, a2, a3, a4, a5, a6
          <6> USE <1>3, <2>pw, <2>1, <3>3, <4>k1, <4>2, <5>prc, <5>1, <2>r1, <2>r2, <3>r3,
             <4>r4,
                 <5>r5, <6>r6 DEF Eff_TransitTo, Eff_Set_state_for_restore, Eff_FstageLoad,
                 Eff_SendRecognitionConfig, Eff_Mark
          <6>g1. Kept(s, a6) /\ SameModel(s, a6) /\ CardUp(s, a6) /\ a6.faults = s.faults
              BY <1>s DEF Kept, KeptBase, Unstarts, Loads, Told, With, SameModel, CardUp
          <6>g2. Preserves(s, a6)
              BY <1>s DEF Preserves, PreservesBase, PreservesWant, DeviceOK, ModelOK,
                 WantOK,
                 WakeOK, With, Running
          <6>g3. f = "none" => Runs(s, "none", a6, "none")
              BY <1>s DEF Runs, RunsOK, Calm, ModelOK, WantOK, With, Running
          <6> QED BY <6>e, <6>g1, <6>g2, <6>g3, <6>r6
        <5>2. CASE ~(~a5.ok)
          <6>1. CASE w = "ACTIVE"
            <7> DEFINE a6 == Loaded_START(a5, f)
            <7>r6. a6 \in StreamRecord /\ Eff_Loaded_START(a5, a6, f)
                BY <5>r5, Does_Loaded_START
            <7>1. CASE a6.ok /\ ~a6.crash
              <8> DEFINE a7 == Set_state_for_restore(a6, "NONE")
              <8>r7. a7 \in StreamRecord /\ Eff_Set_state_for_restore(a6, a7, "NONE")
                  BY <7>r6, Does_Set_state_for_restore, Values, <2>pw, <5>prc
              <8>e. SSR_ONLINE(s, f) = a7
                  BY <1>3, <2>pw, <2>1, <3>3, <4>k1, <4>2, <5>prc, <5>2, <6>1,
                     <7>1 DEF SSR_ONLINE,
                     Idle_FSTAGE_LOAD, Set_state_for_restore
              <8> HIDE DEF a1, a2, a3, a4, a5, a6, a7
              <8> USE <1>3, <2>pw, <2>1, <3>3, <4>k1, <4>2, <5>prc, <5>2, <6>1, <7>1,
                 <2>r1, <2>r2,
                     <3>r3, <4>r4, <5>r5, <7>r6, <8>r7 DEF Eff_TransitTo,
                     Eff_Set_state_for_restore,
                     Eff_FstageLoad, Eff_SendRecognitionConfig, Eff_Loaded_START
              <8>g1. /\ Kept(s, a7) /\ SameModel(s, a7) /\ CardUp(s, a7)
                     /\ a7.faults = s.faults
                  BY <1>s DEF Kept, KeptBase, Unstarts, Loads, Told, With, SameModel, CardUp
              <8>g2. Preserves(s, a7)
                  BY <1>s DEF Preserves, PreservesBase, PreservesWant, DeviceOK, ModelOK,
                     WantOK,
                     WakeOK, With, Running
              <8>g3. f = "none" => Runs(s, "none", a7, "none")
                  BY <1>s DEF Runs, RunsOK, Calm, ModelOK, WantOK, With, Running
              <8> QED BY <8>e, <8>g1, <8>g2, <8>g3, <8>r7
            <7>2. CASE ~(a6.ok /\ ~a6.crash)
              <8> DEFINE a7 == Mark(a6, TRUE, "restore")
              <8>r7. a7 \in StreamRecord /\ Eff_Mark(a6, a7, "restore")
                  BY <7>r6, Does_Mark, Values
              <8>e. SSR_ONLINE(s, f) = a7
                  BY <1>3, <2>pw, <2>1, <3>3, <4>k1, <4>2, <5>prc, <5>2, <6>1,
                     <7>2 DEF SSR_ONLINE,
                     Idle_FSTAGE_LOAD, Set_state_for_restore
              <8> HIDE DEF a1, a2, a3, a4, a5, a6, a7
              <8> USE <1>3, <2>pw, <2>1, <3>3, <4>k1, <4>2, <5>prc, <5>2, <6>1, <7>2,
                 <2>r1, <2>r2,
                     <3>r3, <4>r4, <5>r5, <7>r6, <8>r7 DEF Eff_TransitTo,
                     Eff_Set_state_for_restore,
                     Eff_FstageLoad, Eff_SendRecognitionConfig, Eff_Loaded_START, Eff_Mark
              <8>g1. /\ Kept(s, a7) /\ SameModel(s, a7) /\ CardUp(s, a7)
                     /\ a7.faults = s.faults
                  BY <1>s DEF Kept, KeptBase, Unstarts, Loads, Told, With, SameModel, CardUp
              <8>g2. Preserves(s, a7)
                  BY <1>s DEF Preserves, PreservesBase, PreservesWant, DeviceOK, ModelOK,
                     WantOK,
                     WakeOK, With, Running
              <8>g3. f = "none" => Runs(s, "none", a7, "none")
                  BY <1>s DEF Runs, RunsOK, Calm, ModelOK, WantOK, With, Running
              <8> QED BY <8>e, <8>g1, <8>g2, <8>g3, <8>r7
            <7> QED BY <7>1, <7>2
          <6>2. CASE ~(w = "ACTIVE")
            <7>1. CASE a5.ok /\ ~a5.crash
              <8> DEFINE a6 == Set_state_for_restore(a5, "NONE")
              <8>r6. a6 \in StreamRecord /\ Eff_Set_state_for_restore(a5, a6, "NONE")
                  BY <5>r5, Does_Set_state_for_restore, Values, <2>pw, <5>prc
              <8>e. SSR_ONLINE(s, f) = a6
                  BY <1>3, <2>pw, <2>1, <3>3, <4>k1, <4>2, <5>prc, <5>2, <6>2,
                     <7>1 DEF SSR_ONLINE,
                     Idle_FSTAGE_LOAD, Set_state_for_restore
              <8> HIDE DEF a1, a2, a3, a4, a5, a6
              <8> USE <1>3, <2>pw, <2>1, <3>3, <4>k1, <4>2, <5>prc, <5>2, <6>2, <7>1,
                 <2>r1, <2>r2,
                     <3>r3, <4>r4, <5>r5, <8>r6 DEF Eff_TransitTo,
                     Eff_Set_state_for_restore,
                     Eff_FstageLoad, Eff_SendRecognitionConfig
              <8>g1. /\ Kept(s, a6) /\ SameModel(s, a6) /\ CardUp(s, a6)
                     /\ a6.faults = s.faults
                  BY <1>s DEF Kept, KeptBase, Unstarts, Loads, Told, With, SameModel, CardUp
              <8>g2. Preserves(s, a6)
                  BY <1>s DEF Preserves, PreservesBase, PreservesWant, DeviceOK, ModelOK,
                     WantOK,
                     WakeOK, With, Running
              <8>g3. f = "none" => Runs(s, "none", a6, "none")
                  BY <1>s DEF Runs, RunsOK, Calm, ModelOK, WantOK, With, Running
              <8> QED BY <8>e, <8>g1, <8>g2, <8>g3, <8>r6
            <7>2. CASE ~(a5.ok /\ ~a5.crash)
              <8> DEFINE a6 == Mark(a5, TRUE, "restore")
              <8>r6. a6 \in StreamRecord /\ Eff_Mark(a5, a6, "restore")
                  BY <5>r5, Does_Mark, Values
              <8>e. SSR_ONLINE(s, f) = a6
                  BY <1>3, <2>pw, <2>1, <3>3, <4>k1, <4>2, <5>prc, <5>2, <6>2,
                     <7>2 DEF SSR_ONLINE,
                     Idle_FSTAGE_LOAD, Set_state_for_restore
              <8> HIDE DEF a1, a2, a3, a4, a5, a6
              <8> USE <1>3, <2>pw, <2>1, <3>3, <4>k1, <4>2, <5>prc, <5>2, <6>2, <7>2,
                 <2>r1, <2>r2,
                     <3>r3, <4>r4, <5>r5, <8>r6 DEF Eff_TransitTo,
                     Eff_Set_state_for_restore,
                     Eff_FstageLoad, Eff_SendRecognitionConfig, Eff_Mark
              <8>g1. /\ Kept(s, a6) /\ SameModel(s, a6) /\ CardUp(s, a6)
                     /\ a6.faults = s.faults
                  BY <1>s DEF Kept, KeptBase, Unstarts, Loads, Told, With, SameModel, CardUp
              <8>g2. Preserves(s, a6)
                  BY <1>s DEF Preserves, PreservesBase, PreservesWant, DeviceOK, ModelOK,
                     WantOK,
                     WakeOK, With, Running
              <8>g3. f = "none" => Runs(s, "none", a6, "none")
                  BY <1>s DEF Runs, RunsOK, Calm, ModelOK, WantOK, With, Running
              <8> QED BY <8>e, <8>g1, <8>g2, <8>g3, <8>r6
            <7> QED BY <7>1, <7>2
          <6> QED BY <6>1, <6>2
        <5> QED BY <5>1, <5>2
      <4> QED BY <4>1, <4>2
    <3> QED BY <3>1, <3>2, <3>3
  <2>2. CASE ~(w \in {"LOADED", "ACTIVE"})
    <3> DEFINE a3 == Ok(a2)
    <3>r3. a3 \in StreamRecord /\ Eff_Ok(a2, a3) BY <2>r2, Does_Ok
    <3>k1. a3.ok
        BY <1>3, <2>pw, <2>2, <2>r1, <2>r2, <3>r3 DEF Eff_TransitTo,
           Eff_Set_state_for_restore, Eff_Ok
    <3>1. CASE a3.ok /\ ~a3.crash
      <4> DEFINE a4 == Set_state_for_restore(a3, "NONE")
      <4>r4. a4 \in StreamRecord /\ Eff_Set_state_for_restore(a3, a4, "NONE")
          BY <3>r3, Does_Set_state_for_restore, Values, <2>pw
      <4>e. SSR_ONLINE(s, f) = a4
          BY <1>3, <2>pw, <2>2, <3>k1, <3>1 DEF SSR_ONLINE, Idle_FSTAGE_LOAD,
             Set_state_for_restore
      <4> HIDE DEF a1, a2, a3, a4
      <4> USE <1>3, <2>pw, <2>2, <3>k1, <3>1, <2>r1, <2>r2, <3>r3, <4>r4 DEF Eff_TransitTo,
             Eff_Set_state_for_restore, Eff_Ok
      <4>g1. Kept(s, a4) /\ SameModel(s, a4) /\ CardUp(s, a4) /\ a4.faults = s.faults
          BY <1>s DEF Kept, KeptBase, Unstarts, Loads, Told, With, SameModel, CardUp
      <4>g2. Preserves(s, a4)
          BY <1>s DEF Preserves, PreservesBase, PreservesWant, DeviceOK, ModelOK, WantOK,
             WakeOK, With, Running
      <4>g3. f = "none" => Runs(s, "none", a4, "none")
          BY <1>s DEF Runs, RunsOK, Calm, ModelOK, WantOK, With, Running
      <4> QED BY <4>e, <4>g1, <4>g2, <4>g3, <4>r4
    <3>2. CASE ~(a3.ok /\ ~a3.crash)
      <4> DEFINE a4 == Mark(a3, TRUE, "restore")
      <4>r4. a4 \in StreamRecord /\ Eff_Mark(a3, a4, "restore")
          BY <3>r3, Does_Mark, Values
      <4>e. SSR_ONLINE(s, f) = a4
          BY <1>3, <2>pw, <2>2, <3>k1, <3>2 DEF SSR_ONLINE, Idle_FSTAGE_LOAD,
             Set_state_for_restore
      <4> HIDE DEF a1, a2, a3, a4
      <4> USE <1>3, <2>pw, <2>2, <3>k1, <3>2, <2>r1, <2>r2, <3>r3, <4>r4 DEF Eff_TransitTo,
             Eff_Set_state_for_restore, Eff_Ok, Eff_Mark
      <4>g1. Kept(s, a4) /\ SameModel(s, a4) /\ CardUp(s, a4) /\ a4.faults = s.faults
          BY <1>s DEF Kept, KeptBase, Unstarts, Loads, Told, With, SameModel, CardUp
      <4>g2. Preserves(s, a4)
          BY <1>s DEF Preserves, PreservesBase, PreservesWant, DeviceOK, ModelOK, WantOK,
             WakeOK, With, Running
      <4>g3. f = "none" => Runs(s, "none", a4, "none")
          BY <1>s DEF Runs, RunsOK, Calm, ModelOK, WantOK, With, Running
      <4> QED BY <4>e, <4>g1, <4>g2, <4>g3, <4>r4
    <3> QED BY <3>1, <3>2
  <2> QED BY <2>1, <2>2
<1> QED BY <1>1, <1>2, <1>3

(* The first half of a device switch.                                         *)
LEMMA Ev_DEVICE_DISCONNECTED ==
    ASSUME NEW s \in StreamRecord, NEW f
    PROVE  LET t == DEVICE_DISCONNECTED(s, f) IN
           /\ t \in StreamRecord
           /\ Kept(s, t) /\ SameModel(s, t) /\ SameCard(s, t) /\ t.faults = s.faults
           /\ Preserves(s, t)
           /\ f = "none" => Runs(s, "none", t, "device")
<1>s. /\ s.state \in {"IDLE", "LOADED", "SSR", "ACTIVE", "DETECTED", "BUFFERING"}
      /\ s.wake \in Int
      /\ s.state_for_restore \in {"NONE", "IDLE", "LOADED", "ACTIVE"}
      /\ s.currentState \in {"IDLE", "OPENED", "STARTED", "STOPPED"}
    BY FieldTypes, StAssumption DEF States, Running, Restores, Currents
<1>1. CASE s.state = "IDLE"
  <2> DEFINE a1 == No_mDevices(s)
  <2>r1. a1 \in StreamRecord /\ Eff_No_mDevices(s, a1) BY Does_No_mDevices
  <2> DEFINE a2 == Ok(a1)
  <2>r2. a2 \in StreamRecord /\ Eff_Ok(a1, a2) BY <2>r1, Does_Ok
  <2>e. DEVICE_DISCONNECTED(s, f) = a2
      BY <1>1 DEF DEVICE_DISCONNECTED, Idle_DEVICE_DISCONNECTED,
         Loaded_DEVICE_DISCONNECTED, Active_DEVICE_DISCONNECTED, No_mDevices
  <2> HIDE DEF a1, a2
  <2> USE <1>1, <2>r1, <2>r2 DEF Eff_No_mDevices, Eff_Ok
  <2>g1. Kept(s, a2) /\ SameModel(s, a2) /\ SameCard(s, a2) /\ a2.faults = s.faults
      BY <1>s DEF Kept, KeptBase, Unstarts, Loads, Told, With, SameModel, SameCard
  <2>g2. Preserves(s, a2)
      BY <1>s DEF Preserves, PreservesBase, PreservesWant, DeviceOK, ModelOK, WantOK,
         WakeOK, With, Running
  <2>g3. f = "none" => Runs(s, "none", a2, "device")
      BY <1>s DEF Runs, RunsOK, Calm, ModelOK, WantOK, With, Running
  <2> QED BY <2>e, <2>g1, <2>g2, <2>g3, <2>r2
<1>2. CASE s.state = "LOADED"
  <2>1. CASE s.device_opened /\ ~s.mDevices
    <3> DEFINE a1 == Yes_device_opened(s)
    <3>r1. a1 \in StreamRecord /\ Eff_Yes_device_opened(s, a1) BY Does_Yes_device_opened
    <3> DEFINE a2 == No_mDevices(a1)
    <3>r2. a2 \in StreamRecord /\ Eff_No_mDevices(a1, a2) BY <3>r1, Does_No_mDevices
    <3> DEFINE a3 == Ok(a2)
    <3>r3. a3 \in StreamRecord /\ Eff_Ok(a2, a3) BY <3>r2, Does_Ok
    <3>e. DEVICE_DISCONNECTED(s, f) = a3
        BY <1>2, <2>1 DEF DEVICE_DISCONNECTED, Idle_DEVICE_DISCONNECTED,
           Loaded_DEVICE_DISCONNECTED, Active_DEVICE_DISCONNECTED, Yes_device_opened,
           No_mDevices
    <3> HIDE DEF a1, a2, a3
    <3> USE <1>2, <2>1, <3>r1, <3>r2, <3>r3 DEF Eff_Yes_device_opened, Eff_No_mDevices,
           Eff_Ok
    <3>g1. Kept(s, a3) /\ SameModel(s, a3) /\ SameCard(s, a3) /\ a3.faults = s.faults
        BY <1>s DEF Kept, KeptBase, Unstarts, Loads, Told, With, SameModel, SameCard
    <3>g2. Preserves(s, a3)
        BY <1>s DEF Preserves, PreservesBase, PreservesWant, DeviceOK, ModelOK, WantOK,
           WakeOK, With, Running
    <3>g3. f = "none" => Runs(s, "none", a3, "device")
        BY <1>s DEF Runs, RunsOK, Calm, ModelOK, WantOK, With, Running
    <3> QED BY <3>e, <3>g1, <3>g2, <3>g3, <3>r3
  <2>2. CASE ~(s.device_opened /\ ~s.mDevices)
    <3> DEFINE a1 == No_device_opened(s)
    <3>r1. a1 \in StreamRecord /\ Eff_No_device_opened(s, a1) BY Does_No_device_opened
    <3> DEFINE a2 == No_mDevices(a1)
    <3>r2. a2 \in StreamRecord /\ Eff_No_mDevices(a1, a2) BY <3>r1, Does_No_mDevices
    <3> DEFINE a3 == Ok(a2)
    <3>r3. a3 \in StreamRecord /\ Eff_Ok(a2, a3) BY <3>r2, Does_Ok
    <3>e. DEVICE_DISCONNECTED(s, f) = a3
        BY <1>2, <2>2 DEF DEVICE_DISCONNECTED, Idle_DEVICE_DISCONNECTED,
           Loaded_DEVICE_DISCONNECTED, Active_DEVICE_DISCONNECTED, No_device_opened,
           No_mDevices
    <3> HIDE DEF a1, a2, a3
    <3> USE <1>2, <2>2, <3>r1, <3>r2, <3>r3 DEF Eff_No_device_opened, Eff_No_mDevices,
       Eff_Ok
    <3>g1. Kept(s, a3) /\ SameModel(s, a3) /\ SameCard(s, a3) /\ a3.faults = s.faults
        BY <1>s DEF Kept, KeptBase, Unstarts, Loads, Told, With, SameModel, SameCard
    <3>g2. Preserves(s, a3)
        BY <1>s DEF Preserves, PreservesBase, PreservesWant, DeviceOK, ModelOK, WantOK,
           WakeOK, With, Running
    <3>g3. f = "none" => Runs(s, "none", a3, "device")
        BY <1>s DEF Runs, RunsOK, Calm, ModelOK, WantOK, With, Running
    <3> QED BY <3>e, <3>g1, <3>g2, <3>g3, <3>r3
  <2> QED BY <2>1, <2>2
<1>3. CASE s.state = "ACTIVE"
  <2>1. CASE ~s.mDevices
    <3> DEFINE a1 == Ok(s)
    <3>r1. a1 \in StreamRecord /\ Eff_Ok(s, a1) BY Does_Ok
    <3>e. DEVICE_DISCONNECTED(s, f) = a1
        BY <1>3, <2>1 DEF DEVICE_DISCONNECTED, Idle_DEVICE_DISCONNECTED,
           Loaded_DEVICE_DISCONNECTED, Active_DEVICE_DISCONNECTED
    <3> HIDE DEF a1
    <3> USE <1>3, <2>1, <3>r1 DEF Eff_Ok
    <3>g1. Kept(s, a1) /\ SameModel(s, a1) /\ SameCard(s, a1) /\ a1.faults = s.faults
        BY <1>s DEF Kept, KeptBase, Unstarts, Loads, Told, With, SameModel, SameCard
    <3>g2. Preserves(s, a1)
        BY <1>s DEF Preserves, PreservesBase, PreservesWant, DeviceOK, ModelOK, WantOK,
           WakeOK, With, Running
    <3>g3. f = "none" => Runs(s, "none", a1, "device")
        BY <1>s DEF Runs, RunsOK, Calm, ModelOK, WantOK, With, Running
    <3> QED BY <3>e, <3>g1, <3>g2, <3>g3, <3>r1
  <2>2. CASE s.mDevices /\ f = "stop"
    <3> DEFINE a1 == Mark(s, TRUE, "device")
    <3>r1. a1 \in StreamRecord /\ Eff_Mark(s, a1, "device") BY Does_Mark, Values
    <3> DEFINE a2 == No_mDevices(a1)
    <3>r2. a2 \in StreamRecord /\ Eff_No_mDevices(a1, a2) BY <3>r1, Does_No_mDevices
    <3> DEFINE a3 == No_registered(a2)
    <3>r3. a3 \in StreamRecord /\ Eff_No_registered(a2, a3) BY <3>r2, Does_No_registered
    <3> DEFINE a4 == Failed(a3)
    <3>r4. a4 \in StreamRecord /\ Eff_Failed(a3, a4) BY <3>r3, Does_Failed
    <3>e. DEVICE_DISCONNECTED(s, f) = a4
        BY <1>3, <2>2 DEF DEVICE_DISCONNECTED, Idle_DEVICE_DISCONNECTED,
           Loaded_DEVICE_DISCONNECTED, Active_DEVICE_DISCONNECTED, No_mDevices,
           No_registered
    <3> HIDE DEF a1, a2, a3, a4
    <3> USE <1>3, <2>2, <3>r1, <3>r2, <3>r3, <3>r4 DEF Eff_Mark, Eff_No_mDevices,
           Eff_No_registered, Eff_Failed
    <3>g1. Kept(s, a4) /\ SameModel(s, a4) /\ SameCard(s, a4) /\ a4.faults = s.faults
        BY <1>s DEF Kept, KeptBase, Unstarts, Loads, Told, With, SameModel, SameCard
    <3>g2. Preserves(s, a4)
        BY <1>s DEF Preserves, PreservesBase, PreservesWant, DeviceOK, ModelOK, WantOK,
           WakeOK, With, Running
    <3>g3. f = "none" => Runs(s, "none", a4, "device")
        BY <1>s DEF Runs, RunsOK, Calm, ModelOK, WantOK, With, Running
    <3> QED BY <3>e, <3>g1, <3>g2, <3>g3, <3>r4
  <2>3. CASE s.mDevices /\ f # "stop"
    <3> DEFINE a1 == stopDevice(s)
    <3>r1. a1 \in StreamRecord /\ Eff_stopDevice(s, a1) BY Does_stopDevice
    <3> DEFINE a2 == No_mDevices(a1)
    <3>r2. a2 \in StreamRecord /\ Eff_No_mDevices(a1, a2) BY <3>r1, Does_No_mDevices
    <3> DEFINE a3 == Ok(a2)
    <3>r3. a3 \in StreamRecord /\ Eff_Ok(a2, a3) BY <3>r2, Does_Ok
    <3>e. DEVICE_DISCONNECTED(s, f) = a3
        BY <1>3, <2>3 DEF DEVICE_DISCONNECTED, Idle_DEVICE_DISCONNECTED,
           Loaded_DEVICE_DISCONNECTED, Active_DEVICE_DISCONNECTED, No_mDevices
    <3> HIDE DEF a1, a2, a3
    <3> USE <1>3, <2>3, <3>r1, <3>r2, <3>r3 DEF Eff_stopDevice, Eff_No_mDevices, Eff_Ok
    <3>g1. Kept(s, a3) /\ SameModel(s, a3) /\ SameCard(s, a3) /\ a3.faults = s.faults
        BY <1>s DEF Kept, KeptBase, Unstarts, Loads, Told, With, SameModel, SameCard
    <3>g2. Preserves(s, a3)
        BY <1>s DEF Preserves, PreservesBase, PreservesWant, DeviceOK, ModelOK, WantOK,
           WakeOK, With, Running
    <3>g3. f = "none" => Runs(s, "none", a3, "device")
        BY <1>s DEF Runs, RunsOK, Calm, ModelOK, WantOK, With, Running
    <3> QED BY <3>e, <3>g1, <3>g2, <3>g3, <3>r3
  <2> QED BY <2>1, <2>2, <2>3
<1>4. CASE s.state \in {"DETECTED", "BUFFERING"}
  <2> DEFINE a1 == dropSleepVote(s)
  <2>r1. a1 \in StreamRecord /\ Eff_dropSleepVote(s, a1) BY Does_dropSleepVote
  <2> DEFINE a2 == DisconnectEvent(a1)
  <2>r2. a2 \in StreamRecord /\ Eff_DisconnectEvent(a1, a2) BY <2>r1, Does_DisconnectEvent
  <2>e. DEVICE_DISCONNECTED(s, f) = a2
      BY <1>4 DEF DEVICE_DISCONNECTED, Idle_DEVICE_DISCONNECTED,
         Loaded_DEVICE_DISCONNECTED, Active_DEVICE_DISCONNECTED
  <2> HIDE DEF a1, a2
  <2> USE <1>4, <2>r1, <2>r2 DEF Eff_dropSleepVote, Eff_DisconnectEvent
  <2>g1. Kept(s, a2) /\ SameModel(s, a2) /\ SameCard(s, a2) /\ a2.faults = s.faults
      BY <1>s DEF Kept, KeptBase, Unstarts, Loads, Told, With, SameModel, SameCard
  <2>g2. Preserves(s, a2)
      BY <1>s DEF Preserves, PreservesBase, PreservesWant, DeviceOK, ModelOK, WantOK,
         WakeOK, With, Running
  <2>g3. f = "none" => Runs(s, "none", a2, "device")
      BY <1>s DEF Runs, RunsOK, Calm, ModelOK, WantOK, With, Running
  <2> QED BY <2>e, <2>g1, <2>g2, <2>g3, <2>r2
<1>5. CASE s.state = "SSR"
  <2> DEFINE a1 == Ok(s)
  <2>r1. a1 \in StreamRecord /\ Eff_Ok(s, a1) BY Does_Ok
  <2>e. DEVICE_DISCONNECTED(s, f) = a1
      BY <1>5 DEF DEVICE_DISCONNECTED, Idle_DEVICE_DISCONNECTED,
         Loaded_DEVICE_DISCONNECTED, Active_DEVICE_DISCONNECTED
  <2> HIDE DEF a1
  <2> USE <1>5, <2>r1 DEF Eff_Ok
  <2>g1. Kept(s, a1) /\ SameModel(s, a1) /\ SameCard(s, a1) /\ a1.faults = s.faults
      BY <1>s DEF Kept, KeptBase, Unstarts, Loads, Told, With, SameModel, SameCard
  <2>g2. Preserves(s, a1)
      BY <1>s DEF Preserves, PreservesBase, PreservesWant, DeviceOK, ModelOK, WantOK,
         WakeOK, With, Running
  <2>g3. f = "none" => Runs(s, "none", a1, "device")
      BY <1>s DEF Runs, RunsOK, Calm, ModelOK, WantOK, With, Running
  <2> QED BY <2>e, <2>g1, <2>g2, <2>g3, <2>r1
<1> QED BY <1>1, <1>2, <1>3, <1>4, <1>5, <1>s

(* The second half of a device switch.                                        *)
LEMMA Ev_DEVICE_CONNECTED ==
    ASSUME NEW s \in StreamRecord, NEW f
    PROVE  LET t == DEVICE_CONNECTED(s, f) IN
           /\ t \in StreamRecord
           /\ Kept(s, t) /\ SameModel(s, t) /\ SameCard(s, t) /\ t.faults = s.faults
           /\ Preserves(s, t)
           /\ f = "none" => Runs(s, "device", t, "none")
<1>s. /\ s.state \in {"IDLE", "LOADED", "SSR", "ACTIVE", "DETECTED", "BUFFERING"}
      /\ s.wake \in Int
      /\ s.state_for_restore \in {"NONE", "IDLE", "LOADED", "ACTIVE"}
      /\ s.currentState \in {"IDLE", "OPENED", "STARTED", "STOPPED"}
    BY FieldTypes, StAssumption DEF States, Running, Restores, Currents
<1>1. CASE s.state = "IDLE"
  <2>1. CASE s.mDevices
    <3> DEFINE a1 == Failed(s)
    <3>r1. a1 \in StreamRecord /\ Eff_Failed(s, a1) BY Does_Failed
    <3>e. DEVICE_CONNECTED(s, f) = a1
        BY <1>1, <2>1 DEF DEVICE_CONNECTED, Idle_DEVICE_CONNECTED, Loaded_DEVICE_CONNECTED,
           Active_DEVICE_CONNECTED, ConnectEvent, Buffering_DEVICE_CONNECTED, isActive
    <3> HIDE DEF a1
    <3> USE <1>1, <2>1, <3>r1 DEF Eff_Failed
    <3>g1. Kept(s, a1) /\ SameModel(s, a1) /\ SameCard(s, a1) /\ a1.faults = s.faults
        BY <1>s DEF Kept, KeptBase, Unstarts, Loads, Told, With, SameModel, SameCard
    <3>g2. Preserves(s, a1)
        BY <1>s DEF Preserves, PreservesBase, PreservesWant, DeviceOK, ModelOK, WantOK,
           WakeOK, With, Running
    <3>g3. f = "none" => Runs(s, "device", a1, "none")
        BY <1>s DEF Runs, RunsOK, Calm, ModelOK, WantOK, With, Running
    <3> QED BY <3>e, <3>g1, <3>g2, <3>g3, <3>r1
  <2>2. CASE ~s.mDevices /\ s.gsl_engine_model = "none"
    <3> DEFINE a1 == Ok(s)
    <3>r1. a1 \in StreamRecord /\ Eff_Ok(s, a1) BY Does_Ok
    <3>e. DEVICE_CONNECTED(s, f) = a1
        BY <1>1, <2>2 DEF DEVICE_CONNECTED, Idle_DEVICE_CONNECTED, Loaded_DEVICE_CONNECTED,
           Active_DEVICE_CONNECTED, ConnectEvent, Buffering_DEVICE_CONNECTED, isActive
    <3> HIDE DEF a1
    <3> USE <1>1, <2>2, <3>r1 DEF Eff_Ok
    <3>g1. Kept(s, a1) /\ SameModel(s, a1) /\ SameCard(s, a1) /\ a1.faults = s.faults
        BY <1>s DEF Kept, KeptBase, Unstarts, Loads, Told, With, SameModel, SameCard
    <3>g2. Preserves(s, a1)
        BY <1>s DEF Preserves, PreservesBase, PreservesWant, DeviceOK, ModelOK, WantOK,
           WakeOK, With, Running
    <3>g3. f = "none" => Runs(s, "device", a1, "none")
        BY <1>s DEF Runs, RunsOK, Calm, ModelOK, WantOK, With, Running
    <3> QED BY <3>e, <3>g1, <3>g2, <3>g3, <3>r1
  <2>3. CASE ~s.mDevices /\ s.gsl_engine_model # "none" /\ f = "config"
    <3> DEFINE a1 == Failed(s)
    <3>r1. a1 \in StreamRecord /\ Eff_Failed(s, a1) BY Does_Failed
    <3>e. DEVICE_CONNECTED(s, f) = a1
        BY <1>1, <2>3 DEF DEVICE_CONNECTED, Idle_DEVICE_CONNECTED, Loaded_DEVICE_CONNECTED,
           Active_DEVICE_CONNECTED, ConnectEvent, Buffering_DEVICE_CONNECTED, isActive
    <3> HIDE DEF a1
    <3> USE <1>1, <2>3, <3>r1 DEF Eff_Failed
    <3>g1. Kept(s, a1) /\ SameModel(s, a1) /\ SameCard(s, a1) /\ a1.faults = s.faults
        BY <1>s DEF Kept, KeptBase, Unstarts, Loads, Told, With, SameModel, SameCard
    <3>g2. Preserves(s, a1)
        BY <1>s DEF Preserves, PreservesBase, PreservesWant, DeviceOK, ModelOK, WantOK,
           WakeOK, With, Running
    <3>g3. f = "none" => Runs(s, "device", a1, "none")
        BY <1>s DEF Runs, RunsOK, Calm, ModelOK, WantOK, With, Running
    <3> QED BY <3>e, <3>g1, <3>g2, <3>g3, <3>r1
  <2>4. CASE ~s.mDevices /\ s.gsl_engine_model # "none" /\ f # "config"
    <3> DEFINE a1 == attach(s)
    <3>r1. a1 \in StreamRecord /\ Eff_attach(s, a1) BY Does_attach
    <3> DEFINE a2 == Ok(a1)
    <3>r2. a2 \in StreamRecord /\ Eff_Ok(a1, a2) BY <3>r1, Does_Ok
    <3>e. DEVICE_CONNECTED(s, f) = a2
        BY <1>1, <2>4 DEF DEVICE_CONNECTED, Idle_DEVICE_CONNECTED, Loaded_DEVICE_CONNECTED,
           Active_DEVICE_CONNECTED, ConnectEvent, Buffering_DEVICE_CONNECTED, isActive
    <3> HIDE DEF a1, a2
    <3> USE <1>1, <2>4, <3>r1, <3>r2 DEF Eff_attach, Eff_Ok
    <3>g1. Kept(s, a2) /\ SameModel(s, a2) /\ SameCard(s, a2) /\ a2.faults = s.faults
        BY <1>s DEF Kept, KeptBase, Unstarts, Loads, Told, With, SameModel, SameCard
    <3>g2. Preserves(s, a2)
        BY <1>s DEF Preserves, PreservesBase, PreservesWant, DeviceOK, ModelOK, WantOK,
           WakeOK, With, Running
    <3>g3. f = "none" => Runs(s, "device", a2, "none")
        BY <1>s DEF Runs, RunsOK, Calm, ModelOK, WantOK, With, Running
    <3> QED BY <3>e, <3>g1, <3>g2, <3>g3, <3>r2
  <2> QED BY <2>1, <2>2, <2>3, <2>4
<1>2. CASE s.state = "LOADED"
  <2>1. CASE s.currentState = "STARTED" /\ ~s.paused
    <3>k1. (isActive(s) /\ ~s.paused) = TRUE
        BY <1>2, <2>1 DEF isActive
    <3> DEFINE a1 == connectDevice(s, TRUE, f)
    <3>r1. a1 \in StreamRecord /\ Eff_connectOn(s, a1, f) BY Does_connectOn
    <3>1. CASE ~a1.ok
      <4>e. DEVICE_CONNECTED(s, f) = a1
          BY <1>2, <2>1, <3>k1, <3>1 DEF DEVICE_CONNECTED, Idle_DEVICE_CONNECTED,
             Loaded_DEVICE_CONNECTED, Active_DEVICE_CONNECTED, ConnectEvent,
             Buffering_DEVICE_CONNECTED, isActive
      <4> HIDE DEF a1
      <4> USE <1>2, <2>1, <3>k1, <3>1, <3>r1 DEF Eff_connectOn
      <4>g1. Kept(s, a1) /\ SameModel(s, a1) /\ SameCard(s, a1) /\ a1.faults = s.faults
          BY <1>s DEF Kept, KeptBase, Unstarts, Loads, Told, With, SameModel, SameCard
      <4>g2. Preserves(s, a1)
          BY <1>s DEF Preserves, PreservesBase, PreservesWant, DeviceOK, ModelOK, WantOK,
             WakeOK, With, Running
      <4>g3. f = "none" => Runs(s, "device", a1, "none")
          BY <1>s DEF Runs, RunsOK, Calm, ModelOK, WantOK, With, Running
      <4> QED BY <4>e, <4>g1, <4>g2, <4>g3, <3>r1
    <3>2. CASE a1.ok /\ f = "engine"
      <4> DEFINE a2 == stopEngines(a1)
      <4>r2. a2 \in StreamRecord /\ Eff_stopEngines(a1, a2) BY <3>r1, Does_stopEngines
      <4> DEFINE a3 == stopDevice(a2)
      <4>r3. a3 \in StreamRecord /\ Eff_stopDevice(a2, a3) BY <4>r2, Does_stopDevice
      <4> DEFINE a4 == Failed(a3)
      <4>r4. a4 \in StreamRecord /\ Eff_Failed(a3, a4) BY <4>r3, Does_Failed
      <4>e. DEVICE_CONNECTED(s, f) = a4
          BY <1>2, <2>1, <3>k1, <3>2 DEF DEVICE_CONNECTED, Idle_DEVICE_CONNECTED,
             Loaded_DEVICE_CONNECTED, Active_DEVICE_CONNECTED, ConnectEvent,
             Buffering_DEVICE_CONNECTED, isActive
      <4> HIDE DEF a1, a2, a3, a4
      <4> USE <1>2, <2>1, <3>k1, <3>2, <3>r1, <4>r2, <4>r3, <4>r4 DEF Eff_connectOn,
             Eff_stopEngines, Eff_stopDevice, Eff_Failed
      <4>g1. Kept(s, a4) /\ SameModel(s, a4) /\ SameCard(s, a4) /\ a4.faults = s.faults
          BY <1>s DEF Kept, KeptBase, Unstarts, Loads, Told, With, SameModel, SameCard
      <4>g2. Preserves(s, a4)
          BY <1>s DEF Preserves, PreservesBase, PreservesWant, DeviceOK, ModelOK, WantOK,
             WakeOK, With, Running
      <4>g3. f = "none" => Runs(s, "device", a4, "none")
          BY <1>s DEF Runs, RunsOK, Calm, ModelOK, WantOK, With, Running
      <4> QED BY <4>e, <4>g1, <4>g2, <4>g3, <4>r4
    <3>3. CASE a1.ok /\ f # "engine"
      <4> DEFINE a2 == No_second_stage_processing(a1)
      <4>r2. a2 \in StreamRecord /\ Eff_No_second_stage_processing(a1, a2)
          BY <3>r1, Does_No_second_stage_processing
      <4> DEFINE a3 == Set_eng(a2, "running")
      <4>r3. a3 \in StreamRecord /\ Eff_Set_eng(a2, a3, "running")
          BY <4>r2, Does_Set_eng, Values
      <4> DEFINE a4 == TransitTo(a3, "ACTIVE")
      <4>r4. a4 \in StreamRecord /\ Eff_TransitTo(a3, a4, "ACTIVE")
          BY <4>r3, Does_TransitTo, Values
      <4>e. DEVICE_CONNECTED(s, f) = a4
          BY <1>2, <2>1, <3>k1, <3>3 DEF DEVICE_CONNECTED, Idle_DEVICE_CONNECTED,
             Loaded_DEVICE_CONNECTED, Active_DEVICE_CONNECTED, ConnectEvent,
             Buffering_DEVICE_CONNECTED, isActive, No_second_stage_processing, Set_eng
      <4> HIDE DEF a1, a2, a3, a4
      <4> USE <1>2, <2>1, <3>k1, <3>3, <3>r1, <4>r2, <4>r3, <4>r4 DEF Eff_connectOn,
             Eff_No_second_stage_processing, Eff_Set_eng, Eff_TransitTo
      <4>g1. Kept(s, a4) /\ SameModel(s, a4) /\ SameCard(s, a4) /\ a4.faults = s.faults
          BY <1>s DEF Kept, KeptBase, Unstarts, Loads, Told, With, SameModel, SameCard
      <4>g2. Preserves(s, a4)
          BY <1>s DEF Preserves, PreservesBase, PreservesWant, DeviceOK, ModelOK, WantOK,
             WakeOK, With, Running
      <4>g3. f = "none" => Runs(s, "device", a4, "none")
          BY <1>s DEF Runs, RunsOK, Calm, ModelOK, WantOK, With, Running
      <4> QED BY <4>e, <4>g1, <4>g2, <4>g3, <4>r4
    <3> QED BY <3>1, <3>2, <3>3
  <2>2. CASE ~(s.currentState = "STARTED" /\ ~s.paused)
    <3>k1. (isActive(s) /\ ~s.paused) = FALSE
        BY <1>2, <2>2 DEF isActive
    <3> DEFINE a1 == connectDevice(s, FALSE, f)
    <3>r1. a1 \in StreamRecord /\ Eff_connectOff(s, a1, f) BY Does_connectOff
    <3>1. CASE ~a1.ok
      <4>e. DEVICE_CONNECTED(s, f) = a1
          BY <1>2, <2>2, <3>k1, <3>1 DEF DEVICE_CONNECTED, Idle_DEVICE_CONNECTED,
             Loaded_DEVICE_CONNECTED, Active_DEVICE_CONNECTED, ConnectEvent,
             Buffering_DEVICE_CONNECTED, isActive
      <4> HIDE DEF a1
      <4> USE <1>2, <2>2, <3>k1, <3>1, <3>r1 DEF Eff_connectOff
      <4>g1. Kept(s, a1) /\ SameModel(s, a1) /\ SameCard(s, a1) /\ a1.faults = s.faults
          BY <1>s DEF Kept, KeptBase, Unstarts, Loads, Told, With, SameModel, SameCard
      <4>g2. Preserves(s, a1)
          BY <1>s DEF Preserves, PreservesBase, PreservesWant, DeviceOK, ModelOK, WantOK,
             WakeOK, With, Running
      <4>g3. f = "none" => Runs(s, "device", a1, "none")
          BY <1>s DEF Runs, RunsOK, Calm, ModelOK, WantOK, With, Running
      <4> QED BY <4>e, <4>g1, <4>g2, <4>g3, <3>r1
    <3>2. CASE a1.ok /\ f = "engine"
      <4> DEFINE a2 == stopEngines(a1)
      <4>r2. a2 \in StreamRecord /\ Eff_stopEngines(a1, a2) BY <3>r1, Does_stopEngines
      <4> DEFINE a3 == stopDevice(a2)
      <4>r3. a3 \in StreamRecord /\ Eff_stopDevice(a2, a3) BY <4>r2, Does_stopDevice
      <4> DEFINE a4 == Failed(a3)
      <4>r4. a4 \in StreamRecord /\ Eff_Failed(a3, a4) BY <4>r3, Does_Failed
      <4>e. DEVICE_CONNECTED(s, f) = a4
          BY <1>2, <2>2, <3>k1, <3>2 DEF DEVICE_CONNECTED, Idle_DEVICE_CONNECTED,
             Loaded_DEVICE_CONNECTED, Active_DEVICE_CONNECTED, ConnectEvent,
             Buffering_DEVICE_CONNECTED, isActive
      <4> HIDE DEF a1, a2, a3, a4
      <4> USE <1>2, <2>2, <3>k1, <3>2, <3>r1, <4>r2, <4>r3, <4>r4 DEF Eff_connectOff,
             Eff_stopEngines, Eff_stopDevice, Eff_Failed
      <4>g1. Kept(s, a4) /\ SameModel(s, a4) /\ SameCard(s, a4) /\ a4.faults = s.faults
          BY <1>s DEF Kept, KeptBase, Unstarts, Loads, Told, With, SameModel, SameCard
      <4>g2. Preserves(s, a4)
          BY <1>s DEF Preserves, PreservesBase, PreservesWant, DeviceOK, ModelOK, WantOK,
             WakeOK, With, Running
      <4>g3. f = "none" => Runs(s, "device", a4, "none")
          BY <1>s DEF Runs, RunsOK, Calm, ModelOK, WantOK, With, Running
      <4> QED BY <4>e, <4>g1, <4>g2, <4>g3, <4>r4
    <3>3. CASE a1.ok /\ f # "engine"
      <4> DEFINE a2 == No_second_stage_processing(a1)
      <4>r2. a2 \in StreamRecord /\ Eff_No_second_stage_processing(a1, a2)
          BY <3>r1, Does_No_second_stage_processing
      <4>e. DEVICE_CONNECTED(s, f) = a2
          BY <1>2, <2>2, <3>k1, <3>3 DEF DEVICE_CONNECTED, Idle_DEVICE_CONNECTED,
             Loaded_DEVICE_CONNECTED, Active_DEVICE_CONNECTED, ConnectEvent,
             Buffering_DEVICE_CONNECTED, isActive, No_second_stage_processing
      <4> HIDE DEF a1, a2
      <4> USE <1>2, <2>2, <3>k1, <3>3, <3>r1, <4>r2 DEF Eff_connectOff,
             Eff_No_second_stage_processing
      <4>g1. Kept(s, a2) /\ SameModel(s, a2) /\ SameCard(s, a2) /\ a2.faults = s.faults
          BY <1>s DEF Kept, KeptBase, Unstarts, Loads, Told, With, SameModel, SameCard
      <4>g2. Preserves(s, a2)
          BY <1>s DEF Preserves, PreservesBase, PreservesWant, DeviceOK, ModelOK, WantOK,
             WakeOK, With, Running
      <4>g3. f = "none" => Runs(s, "device", a2, "none")
          BY <1>s DEF Runs, RunsOK, Calm, ModelOK, WantOK, With, Running
      <4> QED BY <4>e, <4>g1, <4>g2, <4>g3, <4>r2
    <3> QED BY <3>1, <3>2, <3>3
  <2> QED BY <2>1, <2>2
<1>3. CASE s.state = "ACTIVE"
  <2> DEFINE a1 == connectDevice(s, TRUE, f)
  <2>r1. a1 \in StreamRecord /\ Eff_connectOn(s, a1, f) BY Does_connectOn
  <2>e. DEVICE_CONNECTED(s, f) = a1
      BY <1>3 DEF DEVICE_CONNECTED, Idle_DEVICE_CONNECTED, Loaded_DEVICE_CONNECTED,
         Active_DEVICE_CONNECTED, ConnectEvent, Buffering_DEVICE_CONNECTED, isActive
  <2> HIDE DEF a1
  <2> USE <1>3, <2>r1 DEF Eff_connectOn
  <2>g1. Kept(s, a1) /\ SameModel(s, a1) /\ SameCard(s, a1) /\ a1.faults = s.faults
      BY <1>s DEF Kept, KeptBase, Unstarts, Loads, Told, With, SameModel, SameCard
  <2>g2. Preserves(s, a1)
      BY <1>s DEF Preserves, PreservesBase, PreservesWant, DeviceOK, ModelOK, WantOK,
         WakeOK, With, Running
  <2>g3. f = "none" => Runs(s, "device", a1, "none")
      BY <1>s DEF Runs, RunsOK, Calm, ModelOK, WantOK, With, Running
  <2> QED BY <2>e, <2>g1, <2>g2, <2>g3, <2>r1
<1>4. CASE s.state = "DETECTED"
  <2> DEFINE a1 == connectDevice(s, TRUE, f)
  <2>r1. a1 \in StreamRecord /\ Eff_connectOn(s, a1, f) BY Does_connectOn
  <2>1. CASE ~a1.ok
    <3>e. DEVICE_CONNECTED(s, f) = a1
        BY <1>4, <2>1 DEF DEVICE_CONNECTED, Idle_DEVICE_CONNECTED, Loaded_DEVICE_CONNECTED,
           Active_DEVICE_CONNECTED, ConnectEvent, Buffering_DEVICE_CONNECTED, isActive
    <3> HIDE DEF a1
    <3> USE <1>4, <2>1, <2>r1 DEF Eff_connectOn
    <3>g1. Kept(s, a1) /\ SameModel(s, a1) /\ SameCard(s, a1) /\ a1.faults = s.faults
        BY <1>s DEF Kept, KeptBase, Unstarts, Loads, Told, With, SameModel, SameCard
    <3>g2. Preserves(s, a1)
        BY <1>s DEF Preserves, PreservesBase, PreservesWant, DeviceOK, ModelOK, WantOK,
           WakeOK, With, Running
    <3>g3. f = "none" => Runs(s, "device", a1, "none")
        BY <1>s DEF Runs, RunsOK, Calm, ModelOK, WantOK, With, Running
    <3> QED BY <3>e, <3>g1, <3>g2, <3>g3, <2>r1
  <2>2. CASE ~(~a1.ok)
    <3> DEFINE a2 == No_second_stage_processing(a1)
    <3>r2. a2 \in StreamRecord /\ Eff_No_second_stage_processing(a1, a2)
        BY <2>r1, Does_No_second_stage_processing
    <3>e. DEVICE_CONNECTED(s, f) = a2
        BY <1>4, <2>2 DEF DEVICE_CONNECTED, Idle_DEVICE_CONNECTED, Loaded_DEVICE_CONNECTED,
           Active_DEVICE_CONNECTED, ConnectEvent, Buffering_DEVICE_CONNECTED, isActive,
           No_second_stage_processing
    <3> HIDE DEF a1, a2
    <3> USE <1>4, <2>2, <2>r1, <3>r2 DEF Eff_connectOn, Eff_No_second_stage_processing
    <3>g1. Kept(s, a2) /\ SameModel(s, a2) /\ SameCard(s, a2) /\ a2.faults = s.faults
        BY <1>s DEF Kept, KeptBase, Unstarts, Loads, Told, With, SameModel, SameCard
    <3>g2. Preserves(s, a2)
        BY <1>s DEF Preserves, PreservesBase, PreservesWant, DeviceOK, ModelOK, WantOK,
           WakeOK, With, Running
    <3>g3. f = "none" => Runs(s, "device", a2, "none")
        BY <1>s DEF Runs, RunsOK, Calm, ModelOK, WantOK, With, Running
    <3> QED BY <3>e, <3>g1, <3>g2, <3>g3, <3>r2
  <2> QED BY <2>1, <2>2
<1>5. CASE s.state = "BUFFERING"
  <2> DEFINE a1 == connectDevice(s, TRUE, f)
  <2>r1. a1 \in StreamRecord /\ Eff_connectOn(s, a1, f) BY Does_connectOn
  <2>1. CASE ~a1.ok
    <3>e. DEVICE_CONNECTED(s, f) = a1
        BY <1>5, <2>1 DEF DEVICE_CONNECTED, Idle_DEVICE_CONNECTED, Loaded_DEVICE_CONNECTED,
           Active_DEVICE_CONNECTED, ConnectEvent, Buffering_DEVICE_CONNECTED, isActive
    <3> HIDE DEF a1
    <3> USE <1>5, <2>1, <2>r1 DEF Eff_connectOn
    <3>g1. Kept(s, a1) /\ SameModel(s, a1) /\ SameCard(s, a1) /\ a1.faults = s.faults
        BY <1>s DEF Kept, KeptBase, Unstarts, Loads, Told, With, SameModel, SameCard
    <3>g2. Preserves(s, a1)
        BY <1>s DEF Preserves, PreservesBase, PreservesWant, DeviceOK, ModelOK, WantOK,
           WakeOK, With, Running
    <3>g3. f = "none" => Runs(s, "device", a1, "none")
        BY <1>s DEF Runs, RunsOK, Calm, ModelOK, WantOK, With, Running
    <3> QED BY <3>e, <3>g1, <3>g2, <3>g3, <2>r1
  <2>2. CASE a1.ok /\ ~s.second_stage_processing
    <3>k1. ~a1.second_stage_processing
        BY <1>5, <2>2, <2>r1 DEF Eff_connectOn
    <3>e. DEVICE_CONNECTED(s, f) = a1
        BY <1>5, <2>2, <3>k1 DEF DEVICE_CONNECTED, Idle_DEVICE_CONNECTED,
           Loaded_DEVICE_CONNECTED, Active_DEVICE_CONNECTED, ConnectEvent,
           Buffering_DEVICE_CONNECTED, isActive
    <3> HIDE DEF a1
    <3> USE <1>5, <2>2, <3>k1, <2>r1 DEF Eff_connectOn
    <3>g1. Kept(s, a1) /\ SameModel(s, a1) /\ SameCard(s, a1) /\ a1.faults = s.faults
        BY <1>s DEF Kept, KeptBase, Unstarts, Loads, Told, With, SameModel, SameCard
    <3>g2. Preserves(s, a1)
        BY <1>s DEF Preserves, PreservesBase, PreservesWant, DeviceOK, ModelOK, WantOK,
           WakeOK, With, Running
    <3>g3. f = "none" => Runs(s, "device", a1, "none")
        BY <1>s DEF Runs, RunsOK, Calm, ModelOK, WantOK, With, Running
    <3> QED BY <3>e, <3>g1, <3>g2, <3>g3, <2>r1
  <2>3. CASE a1.ok /\ s.second_stage_processing /\ f = "engine"
    <3> DEFINE a2 == stopEngines(a1)
    <3>r2. a2 \in StreamRecord /\ Eff_stopEngines(a1, a2) BY <2>r1, Does_stopEngines
    <3> DEFINE a3 == stopDevice(a2)
    <3>r3. a3 \in StreamRecord /\ Eff_stopDevice(a2, a3) BY <3>r2, Does_stopDevice
    <3> DEFINE a4 == Failed(a3)
    <3>r4. a4 \in StreamRecord /\ Eff_Failed(a3, a4) BY <3>r3, Does_Failed
    <3>k1. ~a4.ok
        BY <1>5, <2>3, <2>r1, <3>r2, <3>r3, <3>r4 DEF Eff_connectOn, Eff_stopEngines,
           Eff_stopDevice, Eff_Failed
    <3>e. DEVICE_CONNECTED(s, f) = a4
        BY <1>5, <2>3, <3>k1 DEF DEVICE_CONNECTED, Idle_DEVICE_CONNECTED,
           Loaded_DEVICE_CONNECTED, Active_DEVICE_CONNECTED, ConnectEvent,
           Buffering_DEVICE_CONNECTED, isActive
    <3> HIDE DEF a1, a2, a3, a4
    <3> USE <1>5, <2>3, <3>k1, <2>r1, <3>r2, <3>r3, <3>r4 DEF Eff_connectOn,
       Eff_stopEngines,
           Eff_stopDevice, Eff_Failed
    <3>g1. Kept(s, a4) /\ SameModel(s, a4) /\ SameCard(s, a4) /\ a4.faults = s.faults
        BY <1>s DEF Kept, KeptBase, Unstarts, Loads, Told, With, SameModel, SameCard
    <3>g2. Preserves(s, a4)
        BY <1>s DEF Preserves, PreservesBase, PreservesWant, DeviceOK, ModelOK, WantOK,
           WakeOK, With, Running
    <3>g3. f = "none" => Runs(s, "device", a4, "none")
        BY <1>s DEF Runs, RunsOK, Calm, ModelOK, WantOK, With, Running
    <3> QED BY <3>e, <3>g1, <3>g2, <3>g3, <3>r4
  <2>4. CASE a1.ok /\ s.second_stage_processing /\ f # "engine"
    <3> DEFINE a2 == Set_eng(a1, "running")
    <3>r2. a2 \in StreamRecord /\ Eff_Set_eng(a1, a2, "running")
        BY <2>r1, Does_Set_eng, Values
    <3>k1. a2.ok /\ a2.second_stage_processing
        BY <1>5, <2>4, <2>r1, <3>r2 DEF Eff_connectOn, Eff_Set_eng
    <3> DEFINE a3 == Mark(a2, TRUE, "wake")
    <3>r3. a3 \in StreamRecord /\ Eff_Mark(a2, a3, "wake") BY <3>r2, Does_Mark, Values
    <3> DEFINE a4 == No_second_stage_processing(a3)
    <3>r4. a4 \in StreamRecord /\ Eff_No_second_stage_processing(a3, a4)
        BY <3>r3, Does_No_second_stage_processing
    <3> DEFINE a5 == TransitTo(a4, "ACTIVE")
    <3>r5. a5 \in StreamRecord /\ Eff_TransitTo(a4, a5, "ACTIVE")
        BY <3>r4, Does_TransitTo, Values
    <3>e. DEVICE_CONNECTED(s, f) = a5
        BY <1>5, <2>4, <3>k1 DEF DEVICE_CONNECTED, Idle_DEVICE_CONNECTED,
           Loaded_DEVICE_CONNECTED, Active_DEVICE_CONNECTED, ConnectEvent,
           Buffering_DEVICE_CONNECTED, isActive, Set_eng, No_second_stage_processing
    <3> HIDE DEF a1, a2, a3, a4, a5
    <3> USE <1>5, <2>4, <3>k1, <2>r1, <3>r2, <3>r3, <3>r4, <3>r5 DEF Eff_connectOn,
           Eff_Set_eng, Eff_Mark, Eff_No_second_stage_processing, Eff_TransitTo
    <3>g1. Kept(s, a5) /\ SameModel(s, a5) /\ SameCard(s, a5) /\ a5.faults = s.faults
        BY <1>s DEF Kept, KeptBase, Unstarts, Loads, Told, With, SameModel, SameCard
    <3>g2. Preserves(s, a5)
        BY <1>s DEF Preserves, PreservesBase, PreservesWant, DeviceOK, ModelOK, WantOK,
           WakeOK, With, Running
    <3>g3. f = "none" => Runs(s, "device", a5, "none")
        BY <1>s DEF Runs, RunsOK, Calm, ModelOK, WantOK, With, Running
    <3> QED BY <3>e, <3>g1, <3>g2, <3>g3, <3>r5
  <2> QED BY <2>1, <2>2, <2>3, <2>4
<1>6. CASE s.state = "SSR"
  <2> DEFINE a1 == Ok(s)
  <2>r1. a1 \in StreamRecord /\ Eff_Ok(s, a1) BY Does_Ok
  <2>e. DEVICE_CONNECTED(s, f) = a1
      BY <1>6 DEF DEVICE_CONNECTED, Idle_DEVICE_CONNECTED, Loaded_DEVICE_CONNECTED,
         Active_DEVICE_CONNECTED, ConnectEvent, Buffering_DEVICE_CONNECTED, isActive
  <2> HIDE DEF a1
  <2> USE <1>6, <2>r1 DEF Eff_Ok
  <2>g1. Kept(s, a1) /\ SameModel(s, a1) /\ SameCard(s, a1) /\ a1.faults = s.faults
      BY <1>s DEF Kept, KeptBase, Unstarts, Loads, Told, With, SameModel, SameCard
  <2>g2. Preserves(s, a1)
      BY <1>s DEF Preserves, PreservesBase, PreservesWant, DeviceOK, ModelOK, WantOK,
         WakeOK, With, Running
  <2>g3. f = "none" => Runs(s, "device", a1, "none")
      BY <1>s DEF Runs, RunsOK, Calm, ModelOK, WantOK, With, Running
  <2> QED BY <2>e, <2>g1, <2>g2, <2>g3, <2>r1
<1> QED BY <1>1, <1>2, <1>3, <1>4, <1>5, <1>6, <1>s

(* The first half of a switch between LPI and NLPI.                           *)
LEMMA Ev_CONCURRENT_off ==
    ASSUME NEW s \in StreamRecord, NEW f
    PROVE  LET t == CONCURRENT_STREAM(s, FALSE, f) IN
           /\ t \in StreamRecord
           /\ Kept(s, t) /\ SameModel(s, t) /\ SameCard(s, t) /\ t.faults = s.faults
           /\ Preserves(s, t)
           /\ f = "none" => Runs(s, "none", t, "concurrent")
<1>s. /\ s.state \in {"IDLE", "LOADED", "SSR", "ACTIVE", "DETECTED", "BUFFERING"}
      /\ s.wake \in Int
      /\ s.state_for_restore \in {"NONE", "IDLE", "LOADED", "ACTIVE"}
      /\ s.currentState \in {"IDLE", "OPENED", "STARTED", "STOPPED"}
    BY FieldTypes, StAssumption DEF States, Running, Restores, Currents
<1>1. CASE s.state = "IDLE"
  <2> DEFINE a1 == Ok(s)
  <2>r1. a1 \in StreamRecord /\ Eff_Ok(s, a1) BY Does_Ok
  <2>e. CONCURRENT_STREAM(s, FALSE, f) = a1
      BY <1>1 DEF CONCURRENT_STREAM, Idle_CONCURRENT, Loaded_CONCURRENT,
         Detected_CONCURRENT, Running_STOP
  <2> HIDE DEF a1
  <2> USE <1>1, <2>r1 DEF Eff_Ok
  <2>g1. Kept(s, a1) /\ SameModel(s, a1) /\ SameCard(s, a1) /\ a1.faults = s.faults
      BY <1>s DEF Kept, KeptBase, Unstarts, Loads, Told, With, SameModel, SameCard
  <2>g2. Preserves(s, a1)
      BY <1>s DEF Preserves, PreservesBase, PreservesWant, DeviceOK, ModelOK, WantOK,
         WakeOK, With, Running
  <2>g3. f = "none" => Runs(s, "none", a1, "concurrent")
      BY <1>s DEF Runs, RunsOK, Calm, ModelOK, WantOK, With, Running
  <2> QED BY <2>e, <2>g1, <2>g2, <2>g3, <2>r1
<1>2. CASE s.state = "LOADED"
  <2> DEFINE a1 == FstageUnload(s, f)
  <2>r1. a1 \in StreamRecord /\ Eff_FstageUnload(s, a1, f) BY Does_FstageUnload
  <2>1. CASE a1.ok
    <3> DEFINE a2 == TransitTo(a1, "IDLE")
    <3>r2. a2 \in StreamRecord /\ Eff_TransitTo(a1, a2, "IDLE")
        BY <2>r1, Does_TransitTo, Values
    <3>e. CONCURRENT_STREAM(s, FALSE, f) = a2
        BY <1>2, <2>1 DEF CONCURRENT_STREAM, Idle_CONCURRENT, Loaded_CONCURRENT,
           Detected_CONCURRENT, Running_STOP
    <3> HIDE DEF a1, a2
    <3> USE <1>2, <2>1, <2>r1, <3>r2 DEF Eff_FstageUnload, Eff_TransitTo
    <3>g1. Kept(s, a2) /\ SameModel(s, a2) /\ SameCard(s, a2) /\ a2.faults = s.faults
        BY <1>s DEF Kept, KeptBase, Unstarts, Loads, Told, With, SameModel, SameCard
    <3>g2. Preserves(s, a2)
        BY <1>s DEF Preserves, PreservesBase, PreservesWant, DeviceOK, ModelOK, WantOK,
           WakeOK, With, Running
    <3>g3. f = "none" => Runs(s, "none", a2, "concurrent")
        BY <1>s DEF Runs, RunsOK, Calm, ModelOK, WantOK, With, Running
    <3> QED BY <3>e, <3>g1, <3>g2, <3>g3, <3>r2
  <2>2. CASE ~(a1.ok)
    <3>e. CONCURRENT_STREAM(s, FALSE, f) = a1
        BY <1>2, <2>2 DEF CONCURRENT_STREAM, Idle_CONCURRENT, Loaded_CONCURRENT,
           Detected_CONCURRENT, Running_STOP
    <3> HIDE DEF a1
    <3> USE <1>2, <2>2, <2>r1 DEF Eff_FstageUnload
    <3>g1. Kept(s, a1) /\ SameModel(s, a1) /\ SameCard(s, a1) /\ a1.faults = s.faults
        BY <1>s DEF Kept, KeptBase, Unstarts, Loads, Told, With, SameModel, SameCard
    <3>g2. Preserves(s, a1)
        BY <1>s DEF Preserves, PreservesBase, PreservesWant, DeviceOK, ModelOK, WantOK,
           WakeOK, With, Running
    <3>g3. f = "none" => Runs(s, "none", a1, "concurrent")
        BY <1>s DEF Runs, RunsOK, Calm, ModelOK, WantOK, With, Running
    <3> QED BY <3>e, <3>g1, <3>g2, <3>g3, <2>r1
  <2> QED BY <2>1, <2>2
<1>3. CASE s.state = "ACTIVE"
  <2> DEFINE a1 == stopRecognition(s)
  <2>r1. a1 \in StreamRecord /\ Eff_stopRecognition(s, a1) BY Does_stopRecognition
  <2> DEFINE a2 == FstageUnload(a1, f)
  <2>r2. a2 \in StreamRecord /\ Eff_FstageUnload(a1, a2, f) BY <2>r1, Does_FstageUnload
  <2>1. CASE a2.ok
    <3> DEFINE a3 == TransitTo(a2, "IDLE")
    <3>r3. a3 \in StreamRecord /\ Eff_TransitTo(a2, a3, "IDLE")
        BY <2>r2, Does_TransitTo, Values
    <3>e. CONCURRENT_STREAM(s, FALSE, f) = a3
        BY <1>3, <2>1 DEF CONCURRENT_STREAM, Idle_CONCURRENT, Loaded_CONCURRENT,
           Detected_CONCURRENT, Running_STOP
    <3> HIDE DEF a1, a2, a3
    <3> USE <1>3, <2>1, <2>r1, <2>r2, <3>r3 DEF Eff_stopRecognition, Eff_FstageUnload,
           Eff_TransitTo
    <3>g1. Kept(s, a3) /\ SameModel(s, a3) /\ SameCard(s, a3) /\ a3.faults = s.faults
        BY <1>s DEF Kept, KeptBase, Unstarts, Loads, Told, With, SameModel, SameCard
    <3>g2. Preserves(s, a3)
        BY <1>s DEF Preserves, PreservesBase, PreservesWant, DeviceOK, ModelOK, WantOK,
           WakeOK, With, Running
    <3>g3. f = "none" => Runs(s, "none", a3, "concurrent")
        BY <1>s DEF Runs, RunsOK, Calm, ModelOK, WantOK, With, Running
    <3> QED BY <3>e, <3>g1, <3>g2, <3>g3, <3>r3
  <2>2. CASE ~(a2.ok)
    <3>e. CONCURRENT_STREAM(s, FALSE, f) = a2
        BY <1>3, <2>2 DEF CONCURRENT_STREAM, Idle_CONCURRENT, Loaded_CONCURRENT,
           Detected_CONCURRENT, Running_STOP
    <3> HIDE DEF a1, a2
    <3> USE <1>3, <2>2, <2>r1, <2>r2 DEF Eff_stopRecognition, Eff_FstageUnload
    <3>g1. Kept(s, a2) /\ SameModel(s, a2) /\ SameCard(s, a2) /\ a2.faults = s.faults
        BY <1>s DEF Kept, KeptBase, Unstarts, Loads, Told, With, SameModel, SameCard
    <3>g2. Preserves(s, a2)
        BY <1>s DEF Preserves, PreservesBase, PreservesWant, DeviceOK, ModelOK, WantOK,
           WakeOK, With, Running
    <3>g3. f = "none" => Runs(s, "none", a2, "concurrent")
        BY <1>s DEF Runs, RunsOK, Calm, ModelOK, WantOK, With, Running
    <3> QED BY <3>e, <3>g1, <3>g2, <3>g3, <2>r2
  <2> QED BY <2>1, <2>2
<1>4. CASE s.state \in {"DETECTED", "BUFFERING"}
  <2> DEFINE a1 == dropSleepVote(s)
  <2>r1. a1 \in StreamRecord /\ Eff_dropSleepVote(s, a1) BY Does_dropSleepVote
  <2> DEFINE a2 == DisconnectEvent(a1)
  <2>r2. a2 \in StreamRecord /\ Eff_DisconnectEvent(a1, a2) BY <2>r1, Does_DisconnectEvent
  <2> DEFINE a3 == TransitTo(a2, "LOADED")
  <2>r3. a3 \in StreamRecord /\ Eff_TransitTo(a2, a3, "LOADED")
      BY <2>r2, Does_TransitTo, Values
  <2> DEFINE a4 == FstageUnload(a3, f)
  <2>r4. a4 \in StreamRecord /\ Eff_FstageUnload(a3, a4, f) BY <2>r3, Does_FstageUnload
  <2>1. CASE a4.ok
    <3> DEFINE a5 == TransitTo(a4, "IDLE")
    <3>r5. a5 \in StreamRecord /\ Eff_TransitTo(a4, a5, "IDLE")
        BY <2>r4, Does_TransitTo, Values
    <3> DEFINE a6 == releaseWakeLock(a5)
    <3>r6. a6 \in StreamRecord /\ Eff_releaseWakeLock(a5, a6)
        BY <3>r5, Does_releaseWakeLock
    <3>e. CONCURRENT_STREAM(s, FALSE, f) = a6
        BY <1>4, <2>1 DEF CONCURRENT_STREAM, Idle_CONCURRENT, Loaded_CONCURRENT,
           Detected_CONCURRENT, Running_STOP
    <3> HIDE DEF a1, a2, a3, a4, a5, a6
    <3> USE <1>4, <2>1, <2>r1, <2>r2, <2>r3, <2>r4, <3>r5, <3>r6 DEF Eff_dropSleepVote,
           Eff_DisconnectEvent, Eff_TransitTo, Eff_FstageUnload, Eff_releaseWakeLock
    <3>g1. Kept(s, a6) /\ SameModel(s, a6) /\ SameCard(s, a6) /\ a6.faults = s.faults
        BY <1>s DEF Kept, KeptBase, Unstarts, Loads, Told, With, SameModel, SameCard
    <3>g2. Preserves(s, a6)
        BY <1>s DEF Preserves, PreservesBase, PreservesWant, DeviceOK, ModelOK, WantOK,
           WakeOK, With, Running
    <3>g3. f = "none" => Runs(s, "none", a6, "concurrent")
        BY <1>s DEF Runs, RunsOK, Calm, ModelOK, WantOK, With, Running
    <3> QED BY <3>e, <3>g1, <3>g2, <3>g3, <3>r6
  <2>2. CASE ~(a4.ok)
    <3> DEFINE a5 == releaseWakeLock(a4)
    <3>r5. a5 \in StreamRecord /\ Eff_releaseWakeLock(a4, a5)
        BY <2>r4, Does_releaseWakeLock
    <3>e. CONCURRENT_STREAM(s, FALSE, f) = a5
        BY <1>4, <2>2 DEF CONCURRENT_STREAM, Idle_CONCURRENT, Loaded_CONCURRENT,
           Detected_CONCURRENT, Running_STOP
    <3> HIDE DEF a1, a2, a3, a4, a5
    <3> USE <1>4, <2>2, <2>r1, <2>r2, <2>r3, <2>r4, <3>r5 DEF Eff_dropSleepVote,
           Eff_DisconnectEvent, Eff_TransitTo, Eff_FstageUnload, Eff_releaseWakeLock
    <3>g1. Kept(s, a5) /\ SameModel(s, a5) /\ SameCard(s, a5) /\ a5.faults = s.faults
        BY <1>s DEF Kept, KeptBase, Unstarts, Loads, Told, With, SameModel, SameCard
    <3>g2. Preserves(s, a5)
        BY <1>s DEF Preserves, PreservesBase, PreservesWant, DeviceOK, ModelOK, WantOK,
           WakeOK, With, Running
    <3>g3. f = "none" => Runs(s, "none", a5, "concurrent")
        BY <1>s DEF Runs, RunsOK, Calm, ModelOK, WantOK, With, Running
    <3> QED BY <3>e, <3>g1, <3>g2, <3>g3, <3>r5
  <2> QED BY <2>1, <2>2
<1>5. CASE s.state = "SSR"
  <2> DEFINE a1 == Ok(s)
  <2>r1. a1 \in StreamRecord /\ Eff_Ok(s, a1) BY Does_Ok
  <2>e. CONCURRENT_STREAM(s, FALSE, f) = a1
      BY <1>5 DEF CONCURRENT_STREAM, Idle_CONCURRENT, Loaded_CONCURRENT,
         Detected_CONCURRENT, Running_STOP
  <2> HIDE DEF a1
  <2> USE <1>5, <2>r1 DEF Eff_Ok
  <2>g1. Kept(s, a1) /\ SameModel(s, a1) /\ SameCard(s, a1) /\ a1.faults = s.faults
      BY <1>s DEF Kept, KeptBase, Unstarts, Loads, Told, With, SameModel, SameCard
  <2>g2. Preserves(s, a1)
      BY <1>s DEF Preserves, PreservesBase, PreservesWant, DeviceOK, ModelOK, WantOK,
         WakeOK, With, Running
  <2>g3. f = "none" => Runs(s, "none", a1, "concurrent")
      BY <1>s DEF Runs, RunsOK, Calm, ModelOK, WantOK, With, Running
  <2> QED BY <2>e, <2>g1, <2>g2, <2>g3, <2>r1
<1> QED BY <1>1, <1>2, <1>3, <1>4, <1>5, <1>s

(* The second half of a switch between LPI and NLPI.                          *)
LEMMA Ev_CONCURRENT_on ==
    ASSUME NEW s \in StreamRecord, NEW f
    PROVE  LET t == CONCURRENT_STREAM(s, TRUE, f) IN
           /\ t \in StreamRecord
           /\ Kept(s, t) /\ SameModel(s, t) /\ SameCard(s, t) /\ t.faults = s.faults
           /\ Preserves(s, t)
           /\ f = "none" => Runs(s, "concurrent", t, "none")
<1>s. /\ s.state \in {"IDLE", "LOADED", "SSR", "ACTIVE", "DETECTED", "BUFFERING"}
      /\ s.wake \in Int
      /\ s.state_for_restore \in {"NONE", "IDLE", "LOADED", "ACTIVE"}
      /\ s.currentState \in {"IDLE", "OPENED", "STARTED", "STOPPED"}
    BY FieldTypes, StAssumption DEF States, Running, Restores, Currents
<1>1. CASE s.state = "IDLE"
  <2>1. CASE s.gsl_engine_model = "none"
    <3> DEFINE a1 == Ok(s)
    <3>r1. a1 \in StreamRecord /\ Eff_Ok(s, a1) BY Does_Ok
    <3>e. CONCURRENT_STREAM(s, TRUE, f) = a1
        BY <1>1, <2>1 DEF CONCURRENT_STREAM, Idle_CONCURRENT, Idle_FSTAGE_LOAD,
           Loaded_CONCURRENT, Detected_CONCURRENT, isActive
    <3> HIDE DEF a1
    <3> USE <1>1, <2>1, <3>r1 DEF Eff_Ok
    <3>g1. Kept(s, a1) /\ SameModel(s, a1) /\ SameCard(s, a1) /\ a1.faults = s.faults
        BY <1>s DEF Kept, KeptBase, Unstarts, Loads, Told, With, SameModel, SameCard
    <3>g2. Preserves(s, a1)
        BY <1>s DEF Preserves, PreservesBase, PreservesWant, DeviceOK, ModelOK, WantOK,
           WakeOK, With, Running
    <3>g3. f = "none" => Runs(s, "concurrent", a1, "none")
        BY <1>s DEF Runs, RunsOK, Calm, ModelOK, WantOK, With, Running
    <3> QED BY <3>e, <3>g1, <3>g2, <3>g3, <3>r1
  <2>2. CASE ~(s.gsl_engine_model = "none")
    <3> DEFINE a1 == FstageLoad(s, f)
    <3>r1. a1 \in StreamRecord /\ Eff_FstageLoad(s, a1, f) BY Does_FstageLoad
    <3>1. CASE a1.ok
      <4> DEFINE a2 == TransitTo(a1, "LOADED")
      <4>r2. a2 \in StreamRecord /\ Eff_TransitTo(a1, a2, "LOADED")
          BY <3>r1, Does_TransitTo, Values
      <4>k1. a2.state = "LOADED" /\ a2.ok
          BY <1>1, <2>2, <3>1, <3>r1, <4>r2 DEF Eff_FstageLoad, Eff_TransitTo
      <4>1. CASE ~a2.crash /\ a2.currentState = "STARTED"
        <5> DEFINE a3 == Loaded_START(a2, f)
        <5>r3. a3 \in StreamRecord /\ Eff_Loaded_START(a2, a3, f)
            BY <4>r2, Does_Loaded_START
        <5>e. CONCURRENT_STREAM(s, TRUE, f) = a3
            BY <1>1, <2>2, <3>1, <4>k1, <4>1 DEF CONCURRENT_STREAM, Idle_CONCURRENT,
               Idle_FSTAGE_LOAD, Loaded_CONCURRENT, Detected_CONCURRENT, isActive
        <5> HIDE DEF a1, a2, a3
        <5> USE <1>1, <2>2, <3>1, <4>k1, <4>1, <3>r1, <4>r2, <5>r3 DEF Eff_FstageLoad,
               Eff_TransitTo, Eff_Loaded_START
        <5>g1. Kept(s, a3) /\ SameModel(s, a3) /\ SameCard(s, a3) /\ a3.faults = s.faults
            BY <1>s DEF Kept, KeptBase, Unstarts, Loads, Told, With, SameModel, SameCard
        <5>g2. Preserves(s, a3)
            BY <1>s DEF Preserves, PreservesBase, PreservesWant, DeviceOK, ModelOK, WantOK,
               WakeOK, With, Running
        <5>g3. f = "none" => Runs(s, "concurrent", a3, "none")
            BY <1>s DEF Runs, RunsOK, Calm, ModelOK, WantOK, With, Running
        <5> QED BY <5>e, <5>g1, <5>g2, <5>g3, <5>r3
      <4>2. CASE ~(~a2.crash /\ a2.currentState = "STARTED")
        <5>e. CONCURRENT_STREAM(s, TRUE, f) = a2
            BY <1>1, <2>2, <3>1, <4>k1, <4>2 DEF CONCURRENT_STREAM, Idle_CONCURRENT,
               Idle_FSTAGE_LOAD, Loaded_CONCURRENT, Detected_CONCURRENT, isActive
        <5> HIDE DEF a1, a2
        <5> USE <1>1, <2>2, <3>1, <4>k1, <4>2, <3>r1, <4>r2 DEF Eff_FstageLoad,
           Eff_TransitTo
        <5>g1. Kept(s, a2) /\ SameModel(s, a2) /\ SameCard(s, a2) /\ a2.faults = s.faults
            BY <1>s DEF Kept, KeptBase, Unstarts, Loads, Told, With, SameModel, SameCard
        <5>g2. Preserves(s, a2)
            BY <1>s DEF Preserves, PreservesBase, PreservesWant, DeviceOK, ModelOK, WantOK,
               WakeOK, With, Running
        <5>g3. f = "none" => Runs(s, "concurrent", a2, "none")
            BY <1>s DEF Runs, RunsOK, Calm, ModelOK, WantOK, With, Running
        <5> QED BY <5>e, <5>g1, <5>g2, <5>g3, <4>r2
      <4> QED BY <4>1, <4>2
    <3>2. CASE ~(a1.ok)
      <4>e. CONCURRENT_STREAM(s, TRUE, f) = a1
          BY <1>1, <2>2, <3>2 DEF CONCURRENT_STREAM, Idle_CONCURRENT, Idle_FSTAGE_LOAD,
             Loaded_CONCURRENT, Detected_CONCURRENT, isActive
      <4> HIDE DEF a1
      <4> USE <1>1, <2>2, <3>2, <3>r1 DEF Eff_FstageLoad
      <4>g1. Kept(s, a1) /\ SameModel(s, a1) /\ SameCard(s, a1) /\ a1.faults = s.faults
          BY <1>s DEF Kept, KeptBase, Unstarts, Loads, Told, With, SameModel, SameCard
      <4>g2. Preserves(s, a1)
          BY <1>s DEF Preserves, PreservesBase, PreservesWant, DeviceOK, ModelOK, WantOK,
             WakeOK, With, Running
      <4>g3. f = "none" => Runs(s, "concurrent", a1, "none")
          BY <1>s DEF Runs, RunsOK, Calm, ModelOK, WantOK, With, Running
      <4> QED BY <4>e, <4>g1, <4>g2, <4>g3, <3>r1
    <3> QED BY <3>1, <3>2
  <2> QED BY <2>1, <2>2
<1>2. CASE s.state \in {"LOADED", "ACTIVE"}
  <2> DEFINE a1 == Failed(s)
  <2>r1. a1 \in StreamRecord /\ Eff_Failed(s, a1) BY Does_Failed
  <2>e. CONCURRENT_STREAM(s, TRUE, f) = a1
      BY <1>2 DEF CONCURRENT_STREAM, Idle_CONCURRENT, Idle_FSTAGE_LOAD, Loaded_CONCURRENT,
         Detected_CONCURRENT, isActive
  <2> HIDE DEF a1
  <2> USE <1>2, <2>r1 DEF Eff_Failed
  <2>g1. Kept(s, a1) /\ SameModel(s, a1) /\ SameCard(s, a1) /\ a1.faults = s.faults
      BY <1>s DEF Kept, KeptBase, Unstarts, Loads, Told, With, SameModel, SameCard
  <2>g2. Preserves(s, a1)
      BY <1>s DEF Preserves, PreservesBase, PreservesWant, DeviceOK, ModelOK, WantOK,
         WakeOK, With, Running
  <2>g3. f = "none" => Runs(s, "concurrent", a1, "none")
      BY <1>s DEF Runs, RunsOK, Calm, ModelOK, WantOK, With, Running
  <2> QED BY <2>e, <2>g1, <2>g2, <2>g3, <2>r1
<1>3. CASE s.state \in {"DETECTED", "BUFFERING"}
  <2> DEFINE a1 == dropSleepVote(s)
  <2>r1. a1 \in StreamRecord /\ Eff_dropSleepVote(s, a1) BY Does_dropSleepVote
  <2> DEFINE a2 == DisconnectEvent(a1)
  <2>r2. a2 \in StreamRecord /\ Eff_DisconnectEvent(a1, a2) BY <2>r1, Does_DisconnectEvent
  <2> DEFINE a3 == TransitTo(a2, "LOADED")
  <2>r3. a3 \in StreamRecord /\ Eff_TransitTo(a2, a3, "LOADED")
      BY <2>r2, Does_TransitTo, Values
  <2> DEFINE a4 == Failed(a3)
  <2>r4. a4 \in StreamRecord /\ Eff_Failed(a3, a4) BY <2>r3, Does_Failed
  <2> DEFINE a5 == releaseWakeLock(a4)
  <2>r5. a5 \in StreamRecord /\ Eff_releaseWakeLock(a4, a5) BY <2>r4, Does_releaseWakeLock
  <2>e. CONCURRENT_STREAM(s, TRUE, f) = a5
      BY <1>3 DEF CONCURRENT_STREAM, Idle_CONCURRENT, Idle_FSTAGE_LOAD, Loaded_CONCURRENT,
         Detected_CONCURRENT, isActive
  <2> HIDE DEF a1, a2, a3, a4, a5
  <2> USE <1>3, <2>r1, <2>r2, <2>r3, <2>r4, <2>r5 DEF Eff_dropSleepVote,
         Eff_DisconnectEvent, Eff_TransitTo, Eff_Failed, Eff_releaseWakeLock
  <2>g1. Kept(s, a5) /\ SameModel(s, a5) /\ SameCard(s, a5) /\ a5.faults = s.faults
      BY <1>s DEF Kept, KeptBase, Unstarts, Loads, Told, With, SameModel, SameCard
  <2>g2. Preserves(s, a5)
      BY <1>s DEF Preserves, PreservesBase, PreservesWant, DeviceOK, ModelOK, WantOK,
         WakeOK, With, Running
  <2>g3. f = "none" => Runs(s, "concurrent", a5, "none")
      BY <1>s DEF Runs, RunsOK, Calm, ModelOK, WantOK, With, Running
  <2> QED BY <2>e, <2>g1, <2>g2, <2>g3, <2>r5
<1>4. CASE s.state = "SSR"
  <2> DEFINE a1 == Ok(s)
  <2>r1. a1 \in StreamRecord /\ Eff_Ok(s, a1) BY Does_Ok
  <2>e. CONCURRENT_STREAM(s, TRUE, f) = a1
      BY <1>4 DEF CONCURRENT_STREAM, Idle_CONCURRENT, Idle_FSTAGE_LOAD, Loaded_CONCURRENT,
         Detected_CONCURRENT, isActive
  <2> HIDE DEF a1
  <2> USE <1>4, <2>r1 DEF Eff_Ok
  <2>g1. Kept(s, a1) /\ SameModel(s, a1) /\ SameCard(s, a1) /\ a1.faults = s.faults
      BY <1>s DEF Kept, KeptBase, Unstarts, Loads, Told, With, SameModel, SameCard
  <2>g2. Preserves(s, a1)
      BY <1>s DEF Preserves, PreservesBase, PreservesWant, DeviceOK, ModelOK, WantOK,
         WakeOK, With, Running
  <2>g3. f = "none" => Runs(s, "concurrent", a1, "none")
      BY <1>s DEF Runs, RunsOK, Calm, ModelOK, WantOK, With, Running
  <2> QED BY <2>e, <2>g1, <2>g2, <2>g3, <2>r1
<1> QED BY <1>1, <1>2, <1>3, <1>4, <1>s

(* The client loads a sound model.                                            *)
LEMMA Ev_load ==
    ASSUME NEW s \in StreamRecord, NEW f, NEW n \in Stage2Choices,
           s.currentState = "IDLE"
    PROVE  LET t == loadCall(s, n, f) IN
           /\ t \in StreamRecord
           /\ Kept(s, t) /\ SameCard(s, t) /\ t.faults = s.faults
           /\ Preserves(s, t)
           /\ f = "none" => Runs(s, "none", t, "none")
<1>s. /\ s.state \in {"IDLE", "LOADED", "SSR", "ACTIVE", "DETECTED", "BUFFERING"}
      /\ s.wake \in Int
      /\ s.state_for_restore \in {"NONE", "IDLE", "LOADED", "ACTIVE"}
      /\ s.currentState \in {"IDLE", "OPENED", "STARTED", "STOPPED"}
    BY FieldTypes, StAssumption DEF States, Running, Restores, Currents
<1>1. CASE s.state = "IDLE"
  <2>1. CASE f = "config"
    <3> DEFINE a1 == Failed(s)
    <3>r1. a1 \in StreamRecord /\ Eff_Failed(s, a1) BY Does_Failed
    <3>k1. ~a1.ok
        BY <1>1, <2>1, <3>r1 DEF Eff_Failed
    <3>e. loadCall(s, n, f) = a1
        BY <1>1, <2>1, <3>k1 DEF loadCall, LOAD_SOUND_MODEL, Idle_LOAD, Ssr_LOAD
    <3> HIDE DEF a1
    <3> USE <1>1, <2>1, <3>k1, <3>r1 DEF Eff_Failed
    <3>g1. Kept(s, a1) /\ SameCard(s, a1) /\ a1.faults = s.faults
        BY <1>s DEF Kept, KeptBase, Unstarts, Loads, Told, With, SameCard
    <3>g2. Preserves(s, a1)
        BY <1>s DEF Preserves, PreservesBase, PreservesWant, DeviceOK, ModelOK, WantOK,
           WakeOK, With, Running
    <3>g3. f = "none" => Runs(s, "none", a1, "none")
        BY <1>s DEF Runs, RunsOK, Calm, ModelOK, WantOK, With, Running
    <3> QED BY <3>e, <3>g1, <3>g2, <3>g3, <3>r1
  <2>2. CASE f = "load"
    <3> DEFINE a1 == attach(s)
    <3>r1. a1 \in StreamRecord /\ Eff_attach(s, a1) BY Does_attach
    <3> DEFINE a2 == Set_gsl_engine_model(a1, "dangling")
    <3>r2. a2 \in StreamRecord /\ Eff_Set_gsl_engine_model(a1, a2, "dangling")
        BY <3>r1, Does_Set_gsl_engine_model, Values
    <3> DEFINE a3 == No_sm_config(a2)
    <3>r3. a3 \in StreamRecord /\ Eff_No_sm_config(a2, a3) BY <3>r2, Does_No_sm_config
    <3> DEFINE a4 == Failed(a3)
    <3>r4. a4 \in StreamRecord /\ Eff_Failed(a3, a4) BY <3>r3, Does_Failed
    <3>k1. ~a4.ok
        BY <1>1, <2>2, <3>r1, <3>r2, <3>r3, <3>r4 DEF Eff_attach, Eff_Set_gsl_engine_model,
           Eff_No_sm_config, Eff_Failed
    <3>e. loadCall(s, n, f) = a4
        BY <1>1, <2>2, <3>k1 DEF loadCall, LOAD_SOUND_MODEL, Idle_LOAD, Ssr_LOAD,
           Set_gsl_engine_model, No_sm_config
    <3> HIDE DEF a1, a2, a3, a4
    <3> USE <1>1, <2>2, <3>k1, <3>r1, <3>r2, <3>r3, <3>r4 DEF Eff_attach,
           Eff_Set_gsl_engine_model, Eff_No_sm_config, Eff_Failed
    <3>g1. Kept(s, a4) /\ SameCard(s, a4) /\ a4.faults = s.faults
        BY <1>s DEF Kept, KeptBase, Unstarts, Loads, Told, With, SameCard
    <3>g2. Preserves(s, a4)
        BY <1>s DEF Preserves, PreservesBase, PreservesWant, DeviceOK, ModelOK, WantOK,
           WakeOK, With, Running
    <3>g3. f = "none" => Runs(s, "none", a4, "none")
        BY <1>s DEF Runs, RunsOK, Calm, ModelOK, WantOK, With, Running
    <3> QED BY <3>e, <3>g1, <3>g2, <3>g3, <3>r4
  <2>3. CASE f \notin {"config", "load"}
    <3> DEFINE a1 == attach(s)
    <3>r1. a1 \in StreamRecord /\ Eff_attach(s, a1) BY Does_attach
    <3> DEFINE a2 == Set_gsl_engine_model(a1, "ok")
    <3>r2. a2 \in StreamRecord /\ Eff_Set_gsl_engine_model(a1, a2, "ok")
        BY <3>r1, Does_Set_gsl_engine_model, Values
    <3> DEFINE a3 == Set_eng(a2, "loaded")
    <3>r3. a3 \in StreamRecord /\ Eff_Set_eng(a2, a3, "loaded")
        BY <3>r2, Does_Set_eng, Values
    <3> DEFINE a4 == Set_stage2(a3, n)
    <3>r4. a4 \in StreamRecord /\ Eff_Set_stage2(a3, a4, n) BY <3>r3, Does_Set_stage2
    <3> DEFINE a5 == No_sm_config(a4)
    <3>r5. a5 \in StreamRecord /\ Eff_No_sm_config(a4, a5) BY <3>r4, Does_No_sm_config
    <3> DEFINE a6 == TransitTo(a5, "LOADED")
    <3>r6. a6 \in StreamRecord /\ Eff_TransitTo(a5, a6, "LOADED")
        BY <3>r5, Does_TransitTo, Values
    <3> DEFINE a7 == Ok(a6)
    <3>r7. a7 \in StreamRecord /\ Eff_Ok(a6, a7) BY <3>r6, Does_Ok
    <3>k1. a7.ok
        BY <1>1, <2>3, <3>r1, <3>r2, <3>r3, <3>r4, <3>r5, <3>r6, <3>r7 DEF Eff_attach,
           Eff_Set_gsl_engine_model, Eff_Set_eng, Eff_Set_stage2, Eff_No_sm_config,
           Eff_TransitTo, Eff_Ok
    <3> DEFINE a8 == Set_currentState(a7, "OPENED")
    <3>r8. a8 \in StreamRecord /\ Eff_Set_currentState(a7, a8, "OPENED")
        BY <3>r7, Does_Set_currentState, Values
    <3>e. loadCall(s, n, f) = a8
        BY <1>1, <2>3, <3>k1 DEF loadCall, LOAD_SOUND_MODEL, Idle_LOAD, Ssr_LOAD,
           Set_gsl_engine_model, Set_eng, Set_stage2, No_sm_config, Set_currentState
    <3> HIDE DEF a1, a2, a3, a4, a5, a6, a7, a8
    <3> USE <1>1, <2>3, <3>k1, <3>r1, <3>r2, <3>r3, <3>r4, <3>r5, <3>r6, <3>r7, <3>r8 DEF
           Eff_attach, Eff_Set_gsl_engine_model, Eff_Set_eng, Eff_Set_stage2,
           Eff_No_sm_config,
           Eff_TransitTo, Eff_Ok, Eff_Set_currentState
    <3>g1. Kept(s, a8) /\ SameCard(s, a8) /\ a8.faults = s.faults
        BY <1>s DEF Kept, KeptBase, Unstarts, Loads, Told, With, SameCard
    <3>g2. Preserves(s, a8)
        BY <1>s DEF Preserves, PreservesBase, PreservesWant, DeviceOK, ModelOK, WantOK,
           WakeOK, With, Running
    <3>g3. f = "none" => Runs(s, "none", a8, "none")
        BY <1>s DEF Runs, RunsOK, Calm, ModelOK, WantOK, With, Running
    <3> QED BY <3>e, <3>g1, <3>g2, <3>g3, <3>r8
  <2> QED BY <2>1, <2>2, <2>3
<1>2. CASE s.state = "SSR"
  <2>1. CASE s.state_for_restore # "IDLE"
    <3> DEFINE a1 == Failed(s)
    <3>r1. a1 \in StreamRecord /\ Eff_Failed(s, a1) BY Does_Failed
    <3>k1. ~a1.ok
        BY <1>2, <2>1, <3>r1 DEF Eff_Failed
    <3>e. loadCall(s, n, f) = a1
        BY <1>2, <2>1, <3>k1 DEF loadCall, LOAD_SOUND_MODEL, Idle_LOAD, Ssr_LOAD
    <3> HIDE DEF a1
    <3> USE <1>2, <2>1, <3>k1, <3>r1 DEF Eff_Failed
    <3>g1. Kept(s, a1) /\ SameCard(s, a1) /\ a1.faults = s.faults
        BY <1>s DEF Kept, KeptBase, Unstarts, Loads, Told, With, SameCard
    <3>g2. Preserves(s, a1)
        BY <1>s DEF Preserves, PreservesBase, PreservesWant, DeviceOK, ModelOK, WantOK,
           WakeOK, With, Running
    <3>g3. f = "none" => Runs(s, "none", a1, "none")
        BY <1>s DEF Runs, RunsOK, Calm, ModelOK, WantOK, With, Running
    <3> QED BY <3>e, <3>g1, <3>g2, <3>g3, <3>r1
  <2>2. CASE ~(s.state_for_restore # "IDLE")
    <3> DEFINE a1 == Set_state_for_restore(s, "LOADED")
    <3>r1. a1 \in StreamRecord /\ Eff_Set_state_for_restore(s, a1, "LOADED")
        BY Does_Set_state_for_restore, Values
    <3> DEFINE a2 == Yes_sm_config(a1)
    <3>r2. a2 \in StreamRecord /\ Eff_Yes_sm_config(a1, a2) BY <3>r1, Does_Yes_sm_config
    <3> DEFINE a3 == Ok(a2)
    <3>r3. a3 \in StreamRecord /\ Eff_Ok(a2, a3) BY <3>r2, Does_Ok
    <3>k1. a3.ok
        BY <1>2, <2>2, <3>r1, <3>r2, <3>r3 DEF Eff_Set_state_for_restore, Eff_Yes_sm_config,
           Eff_Ok
    <3> DEFINE a4 == Set_currentState(a3, "OPENED")
    <3>r4. a4 \in StreamRecord /\ Eff_Set_currentState(a3, a4, "OPENED")
        BY <3>r3, Does_Set_currentState, Values
    <3>e. loadCall(s, n, f) = a4
        BY <1>2, <2>2, <3>k1 DEF loadCall, LOAD_SOUND_MODEL, Idle_LOAD, Ssr_LOAD,
           Set_state_for_restore, Yes_sm_config, Set_currentState
    <3> HIDE DEF a1, a2, a3, a4
    <3> USE <1>2, <2>2, <3>k1, <3>r1, <3>r2, <3>r3, <3>r4 DEF Eff_Set_state_for_restore,
           Eff_Yes_sm_config, Eff_Ok, Eff_Set_currentState
    <3>g1. Kept(s, a4) /\ SameCard(s, a4) /\ a4.faults = s.faults
        BY <1>s DEF Kept, KeptBase, Unstarts, Loads, Told, With, SameCard
    <3>g2. Preserves(s, a4)
        BY <1>s DEF Preserves, PreservesBase, PreservesWant, DeviceOK, ModelOK, WantOK,
           WakeOK, With, Running
    <3>g3. f = "none" => Runs(s, "none", a4, "none")
        BY <1>s DEF Runs, RunsOK, Calm, ModelOK, WantOK, With, Running
    <3> QED BY <3>e, <3>g1, <3>g2, <3>g3, <3>r4
  <2> QED BY <2>1, <2>2
<1>3. CASE s.state \in {"LOADED", "ACTIVE", "DETECTED", "BUFFERING"}
  <2> DEFINE a1 == Ok(s)
  <2>r1. a1 \in StreamRecord /\ Eff_Ok(s, a1) BY Does_Ok
  <2>k1. a1.ok
      BY <1>3, <2>r1 DEF Eff_Ok
  <2> DEFINE a2 == Set_currentState(a1, "OPENED")
  <2>r2. a2 \in StreamRecord /\ Eff_Set_currentState(a1, a2, "OPENED")
      BY <2>r1, Does_Set_currentState, Values
  <2>e. loadCall(s, n, f) = a2
      BY <1>3, <2>k1 DEF loadCall, LOAD_SOUND_MODEL, Idle_LOAD, Ssr_LOAD, Set_currentState
  <2> HIDE DEF a1, a2
  <2> USE <1>3, <2>k1, <2>r1, <2>r2 DEF Eff_Ok, Eff_Set_currentState
  <2>g1. Kept(s, a2) /\ SameCard(s, a2) /\ a2.faults = s.faults
      BY <1>s DEF Kept, KeptBase, Unstarts, Loads, Told, With, SameCard
  <2>g2. Preserves(s, a2)
      BY <1>s DEF Preserves, PreservesBase, PreservesWant, DeviceOK, ModelOK, WantOK,
         WakeOK, With, Running
  <2>g3. f = "none" => Runs(s, "none", a2, "none")
      BY <1>s DEF Runs, RunsOK, Calm, ModelOK, WantOK, With, Running
  <2> QED BY <2>e, <2>g1, <2>g2, <2>g3, <2>r2
<1> QED BY <1>1, <1>2, <1>3, <1>s

(* The client closes the stream.                                              *)
LEMMA Ev_close ==
    ASSUME NEW s \in StreamRecord
    PROVE  LET t == [UNLOAD_SOUND_MODEL(s) EXCEPT !.sm_config = FALSE, !.ok = TRUE] IN
           /\ t \in StreamRecord
           /\ Kept(s, t) /\ t.faults = s.faults
<1>s. /\ s.state \in {"IDLE", "LOADED", "SSR", "ACTIVE", "DETECTED", "BUFFERING"}
      /\ s.wake \in Int
      /\ s.state_for_restore \in {"NONE", "IDLE", "LOADED", "ACTIVE"}
      /\ s.currentState \in {"IDLE", "OPENED", "STARTED", "STOPPED"}
    BY FieldTypes, StAssumption DEF States, Running, Restores, Currents
<1>1. CASE s.state = "IDLE"
  <2>1. CASE s.gsl_engine_model = "none"
    <3> DEFINE a1 == Ok(s)
    <3>r1. a1 \in StreamRecord /\ Eff_Ok(s, a1) BY Does_Ok
    <3> DEFINE a2 == No_sm_config(a1)
    <3>r2. a2 \in StreamRecord /\ Eff_No_sm_config(a1, a2) BY <3>r1, Does_No_sm_config
    <3> DEFINE a3 == Yes_ok(a2)
    <3>r3. a3 \in StreamRecord /\ Eff_Yes_ok(a2, a3) BY <3>r2, Does_Yes_ok
    <3>e. [UNLOAD_SOUND_MODEL(s) EXCEPT !.sm_config = FALSE, !.ok = TRUE] = a3
        BY <1>1, <2>1 DEF UNLOAD_SOUND_MODEL, Loaded_UNLOAD, Running_UNLOAD, Ssr_UNLOAD,
           Running, No_sm_config, Yes_ok
    <3> HIDE DEF a1, a2, a3
    <3>g1. Kept(s, a3) /\ a3.faults = s.faults
        BY <1>1, <2>1, <3>r1, <3>r2, <3>r3, <1>s DEF Eff_Ok, Eff_No_sm_config, Eff_Yes_ok,
           Kept, KeptBase, Unstarts, Loads, Told, With
    <3> QED BY <3>e, <3>g1, <3>r3
  <2>2. CASE ~(s.gsl_engine_model = "none")
    <3> DEFINE a1 == UnloadSoundModel(s)
    <3>r1. a1 \in StreamRecord /\ Eff_UnloadSoundModel(s, a1) BY Does_UnloadSoundModel
    <3> DEFINE a2 == No_sm_config(a1)
    <3>r2. a2 \in StreamRecord /\ Eff_No_sm_config(a1, a2) BY <3>r1, Does_No_sm_config
    <3> DEFINE a3 == Yes_ok(a2)
    <3>r3. a3 \in StreamRecord /\ Eff_Yes_ok(a2, a3) BY <3>r2, Does_Yes_ok
    <3>e. [UNLOAD_SOUND_MODEL(s) EXCEPT !.sm_config = FALSE, !.ok = TRUE] = a3
        BY <1>1, <2>2 DEF UNLOAD_SOUND_MODEL, Loaded_UNLOAD, Running_UNLOAD, Ssr_UNLOAD,
           Running, No_sm_config, Yes_ok
    <3> HIDE DEF a1, a2, a3
    <3>g1. Kept(s, a3) /\ a3.faults = s.faults
        BY <1>1, <2>2, <3>r1, <3>r2, <3>r3, <1>s DEF Eff_UnloadSoundModel, Eff_No_sm_config,
           Eff_Yes_ok, Kept, KeptBase, Unstarts, Loads, Told, With
    <3> QED BY <3>e, <3>g1, <3>r3
  <2> QED BY <2>1, <2>2
<1>2. CASE s.state = "LOADED"
  <2> DEFINE a1 == UnloadSoundModel(s)
  <2>r1. a1 \in StreamRecord /\ Eff_UnloadSoundModel(s, a1) BY Does_UnloadSoundModel
  <2> DEFINE a2 == TransitTo(a1, "IDLE")
  <2>r2. a2 \in StreamRecord /\ Eff_TransitTo(a1, a2, "IDLE")
      BY <2>r1, Does_TransitTo, Values
  <2> DEFINE a3 == No_sm_config(a2)
  <2>r3. a3 \in StreamRecord /\ Eff_No_sm_config(a2, a3) BY <2>r2, Does_No_sm_config
  <2> DEFINE a4 == Yes_ok(a3)
  <2>r4. a4 \in StreamRecord /\ Eff_Yes_ok(a3, a4) BY <2>r3, Does_Yes_ok
  <2>e. [UNLOAD_SOUND_MODEL(s) EXCEPT !.sm_config = FALSE, !.ok = TRUE] = a4
      BY <1>2 DEF UNLOAD_SOUND_MODEL, Loaded_UNLOAD, Running_UNLOAD, Ssr_UNLOAD, Running,
         No_sm_config, Yes_ok
  <2> HIDE DEF a1, a2, a3, a4
  <2>g1. Kept(s, a4) /\ a4.faults = s.faults
      BY <1>2, <2>r1, <2>r2, <2>r3, <2>r4, <1>s DEF Eff_UnloadSoundModel, Eff_TransitTo,
         Eff_No_sm_config, Eff_Yes_ok, Kept, KeptBase, Unstarts, Loads, Told, With
  <2> QED BY <2>e, <2>g1, <2>r4
<1>3. CASE s.state \in {"ACTIVE", "DETECTED", "BUFFERING"}
  <2> DEFINE a1 == stopRecognition(s)
  <2>r1. a1 \in StreamRecord /\ Eff_stopRecognition(s, a1) BY Does_stopRecognition
  <2> DEFINE a2 == UnloadSoundModel(a1)
  <2>r2. a2 \in StreamRecord /\ Eff_UnloadSoundModel(a1, a2)
      BY <2>r1, Does_UnloadSoundModel
  <2> DEFINE a3 == TransitTo(a2, "IDLE")
  <2>r3. a3 \in StreamRecord /\ Eff_TransitTo(a2, a3, "IDLE")
      BY <2>r2, Does_TransitTo, Values
  <2> DEFINE a4 == No_sm_config(a3)
  <2>r4. a4 \in StreamRecord /\ Eff_No_sm_config(a3, a4) BY <2>r3, Does_No_sm_config
  <2> DEFINE a5 == Yes_ok(a4)
  <2>r5. a5 \in StreamRecord /\ Eff_Yes_ok(a4, a5) BY <2>r4, Does_Yes_ok
  <2>e. [UNLOAD_SOUND_MODEL(s) EXCEPT !.sm_config = FALSE, !.ok = TRUE] = a5
      BY <1>3 DEF UNLOAD_SOUND_MODEL, Loaded_UNLOAD, Running_UNLOAD, Ssr_UNLOAD, Running,
         No_sm_config, Yes_ok
  <2> HIDE DEF a1, a2, a3, a4, a5
  <2>g1. Kept(s, a5) /\ a5.faults = s.faults
      BY <1>3, <2>r1, <2>r2, <2>r3, <2>r4, <2>r5, <1>s DEF Eff_stopRecognition,
         Eff_UnloadSoundModel, Eff_TransitTo, Eff_No_sm_config, Eff_Yes_ok, Kept, KeptBase, Unstarts, Loads, Told, With
  <2> QED BY <2>e, <2>g1, <2>r5
<1>4. CASE s.state = "SSR"
  <2>1. CASE s.state_for_restore # "LOADED"
    <3> DEFINE a1 == Failed(s)
    <3>r1. a1 \in StreamRecord /\ Eff_Failed(s, a1) BY Does_Failed
    <3> DEFINE a2 == No_sm_config(a1)
    <3>r2. a2 \in StreamRecord /\ Eff_No_sm_config(a1, a2) BY <3>r1, Does_No_sm_config
    <3> DEFINE a3 == Yes_ok(a2)
    <3>r3. a3 \in StreamRecord /\ Eff_Yes_ok(a2, a3) BY <3>r2, Does_Yes_ok
    <3>e. [UNLOAD_SOUND_MODEL(s) EXCEPT !.sm_config = FALSE, !.ok = TRUE] = a3
        BY <1>4, <2>1 DEF UNLOAD_SOUND_MODEL, Loaded_UNLOAD, Running_UNLOAD, Ssr_UNLOAD,
           Running, No_sm_config, Yes_ok
    <3> HIDE DEF a1, a2, a3
    <3>g1. Kept(s, a3) /\ a3.faults = s.faults
        BY <1>4, <2>1, <3>r1, <3>r2, <3>r3, <1>s DEF Eff_Failed, Eff_No_sm_config,
           Eff_Yes_ok, Kept, KeptBase, Unstarts, Loads, Told, With
    <3> QED BY <3>e, <3>g1, <3>r3
  <2>2. CASE ~(s.state_for_restore # "LOADED")
    <3> DEFINE a1 == Set_state_for_restore(s, "IDLE")
    <3>r1. a1 \in StreamRecord /\ Eff_Set_state_for_restore(s, a1, "IDLE")
        BY Does_Set_state_for_restore, Values
    <3> DEFINE a2 == Ok(a1)
    <3>r2. a2 \in StreamRecord /\ Eff_Ok(a1, a2) BY <3>r1, Does_Ok
    <3> DEFINE a3 == No_sm_config(a2)
    <3>r3. a3 \in StreamRecord /\ Eff_No_sm_config(a2, a3) BY <3>r2, Does_No_sm_config
    <3> DEFINE a4 == Yes_ok(a3)
    <3>r4. a4 \in StreamRecord /\ Eff_Yes_ok(a3, a4) BY <3>r3, Does_Yes_ok
    <3>e. [UNLOAD_SOUND_MODEL(s) EXCEPT !.sm_config = FALSE, !.ok = TRUE] = a4
        BY <1>4, <2>2 DEF UNLOAD_SOUND_MODEL, Loaded_UNLOAD, Running_UNLOAD, Ssr_UNLOAD,
           Running, Set_state_for_restore, No_sm_config, Yes_ok
    <3> HIDE DEF a1, a2, a3, a4
    <3>g1. Kept(s, a4) /\ a4.faults = s.faults
        BY <1>4, <2>2, <3>r1, <3>r2, <3>r3, <3>r4, <1>s DEF Eff_Set_state_for_restore,
           Eff_Ok, Eff_No_sm_config, Eff_Yes_ok, Kept, KeptBase, Unstarts, Loads, Told, With
    <3> QED BY <3>e, <3>g1, <3>r4
  <2> QED BY <2>1, <2>2
<1> QED BY <1>1, <1>2, <1>3, <1>4, <1>s

(* The first stage has detected.                                              *)
LEMMA Ev_gmm ==
    ASSUME NEW s \in StreamRecord, NEW f,
           s.state = "ACTIVE", s.wake <= s.detections, s.detections < MaxDetections
    PROVE  LET t == Handled(s, "gmm", f) IN
           /\ t \in StreamRecord
           /\ Noticed(s, t)
           /\ Preserves(s, t)
           /\ f = "none" => Runs(s, "none", t, "none")
<1>s. /\ s.state \in {"IDLE", "LOADED", "SSR", "ACTIVE", "DETECTED", "BUFFERING"}
      /\ s.wake \in Int
      /\ s.state_for_restore \in {"NONE", "IDLE", "LOADED", "ACTIVE"}
      /\ s.currentState \in {"IDLE", "OPENED", "STARTED", "STOPPED"}
    BY FieldTypes, StAssumption DEF States, Running, Restores, Currents
<1>pw. PICK w \in Int : w = s.wake + 1
    BY FieldTypes, StAssumption
<1>pd. PICK d \in 0..MaxDetections : d = s.detections + 1
    BY FieldTypes, StAssumption
<1>pq. PICK q \in SUBSET Stage2 : q = s.stage2
    BY FieldTypes DEF Stage2
<1> DEFINE a1 == Set_wake(s, w)
<1>r1. a1 \in StreamRecord /\ Eff_Set_wake(s, a1, w) BY Does_Set_wake, <1>pw, <1>pd, <1>pq
<1> DEFINE a2 == Set_detections(a1, d)
<1>r2. a2 \in StreamRecord /\ Eff_Set_detections(a1, a2, d)
    BY <1>r1, Does_Set_detections, <1>pw, <1>pd, <1>pq
<1>1. CASE s.stage2 = {} /\ s.rec_config # "capture"
  <2> DEFINE a3 == TransitTo(a2, "DETECTED")
  <2>r3. a3 \in StreamRecord /\ Eff_TransitTo(a2, a3, "DETECTED")
      BY <1>r2, Does_TransitTo, Values
  <2> DEFINE a4 == PostDelayedStop(a3)
  <2>r4. a4 \in StreamRecord /\ Eff_PostDelayedStop(a3, a4) BY <2>r3, Does_PostDelayedStop
  <2> DEFINE a5 == Set_currentState(a4, "STOPPED")
  <2>r5. a5 \in StreamRecord /\ Eff_Set_currentState(a4, a5, "STOPPED")
      BY <2>r4, Does_Set_currentState, Values, <1>pw, <1>pd, <1>pq
  <2>e. Handled(s, "gmm", f) = a5
      BY <1>pw, <1>pd, <1>pq, <1>1 DEF Handled, Active_DETECTED, Notifies, notifyClient,
         Back, Unlock, Set_wake, Set_detections, Set_currentState
  <2> HIDE DEF a1, a2, a3, a4, a5
  <2> USE <1>pw, <1>pd, <1>pq, <1>1, <1>r1, <1>r2, <2>r3, <2>r4, <2>r5 DEF Eff_Set_wake,
         Eff_Set_detections, Eff_TransitTo, Eff_PostDelayedStop, Eff_Set_currentState
  <2>g1. Noticed(s, a5)
      BY <1>s DEF Kept, KeptBase, Unstarts, Loads, Told, With, Noticed, WantOK
  <2>g2. Preserves(s, a5)
      BY <1>s DEF Preserves, PreservesBase, PreservesWant, DeviceOK, ModelOK, WantOK,
         WakeOK, With, Running
  <2>g3. f = "none" => Runs(s, "none", a5, "none")
      BY <1>s DEF Runs, RunsOK, Calm, ModelOK, WantOK, With, Running
  <2> QED BY <2>e, <2>g1, <2>g2, <2>g3, <2>r5
<1>2. CASE s.stage2 = {} /\ s.rec_config = "capture"
  <2> DEFINE a3 == Set_proc(a2, q)
  <2>r3. a3 \in StreamRecord /\ Eff_Set_proc(a2, a3, q)
      BY <1>r2, Does_Set_proc, <1>pw, <1>pd, <1>pq
  <2> DEFINE a4 == No_second_stage_processing(a3)
  <2>r4. a4 \in StreamRecord /\ Eff_No_second_stage_processing(a3, a4)
      BY <2>r3, Does_No_second_stage_processing
  <2> DEFINE a5 == TransitTo(a4, "BUFFERING")
  <2>r5. a5 \in StreamRecord /\ Eff_TransitTo(a4, a5, "BUFFERING")
      BY <2>r4, Does_TransitTo, Values
  <2> DEFINE a6 == PostDelayedStop(a5)
  <2>r6. a6 \in StreamRecord /\ Eff_PostDelayedStop(a5, a6) BY <2>r5, Does_PostDelayedStop
  <2> DEFINE a7 == Set_currentState(a6, "STOPPED")
  <2>r7. a7 \in StreamRecord /\ Eff_Set_currentState(a6, a7, "STOPPED")
      BY <2>r6, Does_Set_currentState, Values, <1>pw, <1>pd, <1>pq
  <2>e. Handled(s, "gmm", f) = a7
      BY <1>pw, <1>pd, <1>pq, <1>2 DEF Handled, Active_DETECTED, Notifies, notifyClient,
         Back, Unlock, Set_wake, Set_detections, Set_proc, No_second_stage_processing,
         Set_currentState
  <2> HIDE DEF a1, a2, a3, a4, a5, a6, a7
  <2> USE <1>pw, <1>pd, <1>pq, <1>2, <1>r1, <1>r2, <2>r3, <2>r4, <2>r5, <2>r6, <2>r7 DEF
         Eff_Set_wake, Eff_Set_detections, Eff_Set_proc, Eff_No_second_stage_processing,
         Eff_TransitTo, Eff_PostDelayedStop, Eff_Set_currentState
  <2>g1. Noticed(s, a7)
      BY <1>s DEF Kept, KeptBase, Unstarts, Loads, Told, With, Noticed, WantOK
  <2>g2. Preserves(s, a7)
      BY <1>s DEF Preserves, PreservesBase, PreservesWant, DeviceOK, ModelOK, WantOK,
         WakeOK, With, Running
  <2>g3. f = "none" => Runs(s, "none", a7, "none")
      BY <1>s DEF Runs, RunsOK, Calm, ModelOK, WantOK, With, Running
  <2> QED BY <2>e, <2>g1, <2>g2, <2>g3, <2>r7
<1>3. CASE s.stage2 # {}
  <2> DEFINE a3 == Set_proc(a2, q)
  <2>r3. a3 \in StreamRecord /\ Eff_Set_proc(a2, a3, q)
      BY <1>r2, Does_Set_proc, <1>pw, <1>pd, <1>pq
  <2> DEFINE a4 == Yes_second_stage_processing(a3)
  <2>r4. a4 \in StreamRecord /\ Eff_Yes_second_stage_processing(a3, a4)
      BY <2>r3, Does_Yes_second_stage_processing
  <2> DEFINE a5 == TransitTo(a4, "BUFFERING")
  <2>r5. a5 \in StreamRecord /\ Eff_TransitTo(a4, a5, "BUFFERING")
      BY <2>r4, Does_TransitTo, Values
  <2>pz. PICK z \in SUBSET Stage2 : z = a5.proc \ {"gmm"}
      BY <2>r5, FieldTypes
  <2> DEFINE a6 == Set_proc(a5, z)
  <2>r6. a6 \in StreamRecord /\ Eff_Set_proc(a5, a6, z)
      BY <2>r5, Does_Set_proc, <1>pw, <1>pd, <1>pq, <2>pz
  <2>1. CASE a6.mutex_unlocked_after_cb
    <3> DEFINE a7 == Crash(a6)
    <3>r7. a7 \in StreamRecord /\ Eff_Crash(a6, a7) BY <2>r6, Does_Crash
    <3>e. Handled(s, "gmm", f) = a7
        BY <1>pw, <1>pd, <1>pq, <1>3, <2>pz, <2>1 DEF Handled, Active_DETECTED, Notifies,
           notifyClient, Back, Unlock, Set_wake, Set_detections, Set_proc,
           Yes_second_stage_processing
    <3> HIDE DEF a1, a2, a3, a4, a5, a6, a7
    <3> USE <1>pw, <1>pd, <1>pq, <1>3, <2>pz, <2>1, <1>r1, <1>r2, <2>r3, <2>r4, <2>r5,
       <2>r6,
           <3>r7 DEF Eff_Set_wake, Eff_Set_detections, Eff_Set_proc,
           Eff_Yes_second_stage_processing, Eff_TransitTo, Eff_Crash
    <3>g1. Noticed(s, a7)
        BY <1>s DEF Kept, KeptBase, Unstarts, Loads, Told, With, Noticed, WantOK
    <3>g2. Preserves(s, a7)
        BY <1>s DEF Preserves, PreservesBase, PreservesWant, DeviceOK, ModelOK, WantOK,
           WakeOK, With, Running
    <3>g3. f = "none" => Runs(s, "none", a7, "none")
        BY <1>s DEF Runs, RunsOK, Calm, ModelOK, WantOK, With, Running
    <3> QED BY <3>e, <3>g1, <3>g2, <3>g3, <3>r7
  <2>2. CASE ~(a6.mutex_unlocked_after_cb)
    <3>e. Handled(s, "gmm", f) = a6
        BY <1>pw, <1>pd, <1>pq, <1>3, <2>pz, <2>2 DEF Handled, Active_DETECTED, Notifies,
           notifyClient, Back, Unlock, Set_wake, Set_detections, Set_proc,
           Yes_second_stage_processing
    <3> HIDE DEF a1, a2, a3, a4, a5, a6
    <3> USE <1>pw, <1>pd, <1>pq, <1>3, <2>pz, <2>2, <1>r1, <1>r2, <2>r3, <2>r4, <2>r5, <2>r6
           DEF Eff_Set_wake, Eff_Set_detections, Eff_Set_proc,
           Eff_Yes_second_stage_processing,
           Eff_TransitTo
    <3>g1. Noticed(s, a6)
        BY <1>s DEF Kept, KeptBase, Unstarts, Loads, Told, With, Noticed, WantOK
    <3>g2. Preserves(s, a6)
        BY <1>s DEF Preserves, PreservesBase, PreservesWant, DeviceOK, ModelOK, WantOK,
           WakeOK, With, Running
    <3>g3. f = "none" => Runs(s, "none", a6, "none")
        BY <1>s DEF Runs, RunsOK, Calm, ModelOK, WantOK, With, Running
    <3> QED BY <3>e, <3>g1, <3>g2, <3>g3, <2>r6
  <2> QED BY <2>1, <2>2
<1> QED BY <1>1, <1>2, <1>3

(* A second stage engine accepts.                                             *)
LEMMA Ev_accept ==
    ASSUME NEW s \in StreamRecord, NEW f, NEW e \in Stage2,
           e # "gmm", answer[e], s.state = "BUFFERING"
    PROVE  LET t == Handled(s, e, f) IN
           /\ t \in StreamRecord
           /\ Replied(s, t, e)
           /\ PreservesBase(s, t)
           /\ ("restore" \in s.past \/ ~Told(s)) => PreservesWant(s, t)
           /\ ("restore" \in s.past \/ ~Told(s)) /\ f = "none" => Runs(s, "none", t, "none")
<1>s. /\ s.state \in {"IDLE", "LOADED", "SSR", "ACTIVE", "DETECTED", "BUFFERING"}
      /\ s.wake \in Int
      /\ s.state_for_restore \in {"NONE", "IDLE", "LOADED", "ACTIVE"}
      /\ s.currentState \in {"IDLE", "OPENED", "STARTED", "STOPPED"}
    BY FieldTypes, StAssumption DEF States, Running, Restores, Currents
<1>pds. PICK ds \in SUBSET Stage2 : ds = Accepted(s, e)
    BY FieldTypes DEF Accepted
<1>1. CASE ds # s.stage2
  <2> DEFINE a1 == Set_detection_state(s, ds)
  <2>r1. a1 \in StreamRecord /\ Eff_Set_detection_state(s, a1, ds)
      BY Does_Set_detection_state, <1>pds
  <2>pz. PICK z \in SUBSET Stage2 : z = a1.proc \ {e}
      BY <2>r1, FieldTypes
  <2> DEFINE a2 == Set_proc(a1, z)
  <2>r2. a2 \in StreamRecord /\ Eff_Set_proc(a1, a2, z)
      BY <2>r1, Does_Set_proc, <1>pds, <2>pz
  <2>1. CASE a2.mutex_unlocked_after_cb
    <3> DEFINE a3 == Crash(a2)
    <3>r3. a3 \in StreamRecord /\ Eff_Crash(a2, a3) BY <2>r2, Does_Crash
    <3>e. Handled(s, e, f) = a3
        BY <1>pds, <1>1, <2>pz, <2>1 DEF Handled, Buffering_ACCEPT, Notifies, notifyClient,
           Back, Unlock, Set_detection_state, Set_proc
    <3> HIDE DEF a1, a2, a3
    <3> USE <1>pds, <1>1, <2>pz, <2>1, <2>r1, <2>r2, <3>r3 DEF Eff_Set_detection_state,
           Eff_Set_proc, Eff_Crash
    <3>g1. Replied(s, a3, e)
        BY <1>s DEF Kept, KeptBase, Unstarts, Loads, Told, With, Replied, Notifies
    <3>g2. PreservesBase(s, a3)
        BY <1>s DEF PreservesBase, DeviceOK, ModelOK, With, Running
    <3>g3. ("restore" \in s.past \/ ~Told(s)) => PreservesWant(s, a3)
        BY <1>s DEF PreservesWant, ModelOK, WantOK, WakeOK, With, Running, Told
    <3>g4. ("restore" \in s.past \/ ~Told(s)) /\ f = "none" => Runs(s, "none", a3, "none")
        BY <1>s DEF Told, Runs, RunsOK, Calm, ModelOK, WantOK, With, Running
    <3> QED BY <3>e, <3>g1, <3>g2, <3>g3, <3>g4, <3>r3
  <2>2. CASE ~(a2.mutex_unlocked_after_cb)
    <3>e. Handled(s, e, f) = a2
        BY <1>pds, <1>1, <2>pz, <2>2 DEF Handled, Buffering_ACCEPT, Notifies, notifyClient,
           Back, Unlock, Set_detection_state, Set_proc
    <3> HIDE DEF a1, a2
    <3> USE <1>pds, <1>1, <2>pz, <2>2, <2>r1, <2>r2 DEF Eff_Set_detection_state,
       Eff_Set_proc
    <3>g1. Replied(s, a2, e)
        BY <1>s DEF Kept, KeptBase, Unstarts, Loads, Told, With, Replied, Notifies
    <3>g2. PreservesBase(s, a2)
        BY <1>s DEF PreservesBase, DeviceOK, ModelOK, With, Running
    <3>g3. ("restore" \in s.past \/ ~Told(s)) => PreservesWant(s, a2)
        BY <1>s DEF PreservesWant, ModelOK, WantOK, WakeOK, With, Running, Told
    <3>g4. ("restore" \in s.past \/ ~Told(s)) /\ f = "none" => Runs(s, "none", a2, "none")
        BY <1>s DEF Told, Runs, RunsOK, Calm, ModelOK, WantOK, With, Running
    <3> QED BY <3>e, <3>g1, <3>g2, <3>g3, <3>g4, <2>r2
  <2> QED BY <2>1, <2>2
<1>2. CASE ds = s.stage2
  <2> DEFINE a1 == Set_detection_state(s, {})
  <2>r1. a1 \in StreamRecord /\ Eff_Set_detection_state(s, a1, {})
      BY Does_Set_detection_state, Values, <1>pds
  <2> DEFINE a2 == No_second_stage_processing(a1)
  <2>r2. a2 \in StreamRecord /\ Eff_No_second_stage_processing(a1, a2)
      BY <2>r1, Does_No_second_stage_processing
  <2>1. CASE s.rec_config = "capture"
    <3> DEFINE a3 == PostDelayedStop(a2)
    <3>r3. a3 \in StreamRecord /\ Eff_PostDelayedStop(a2, a3)
        BY <2>r2, Does_PostDelayedStop
    <3> DEFINE a4 == Set_currentState(a3, "STOPPED")
    <3>r4. a4 \in StreamRecord /\ Eff_Set_currentState(a3, a4, "STOPPED")
        BY <3>r3, Does_Set_currentState, Values, <1>pds
    <3>e. Handled(s, e, f) = a4
        BY <1>pds, <1>2, <2>1 DEF Handled, Buffering_ACCEPT, Notifies, notifyClient, Back,
           Unlock, Set_detection_state, No_second_stage_processing, Set_currentState
    <3> HIDE DEF a1, a2, a3, a4
    <3> USE <1>pds, <1>2, <2>1, <2>r1, <2>r2, <3>r3, <3>r4 DEF Eff_Set_detection_state,
           Eff_No_second_stage_processing, Eff_PostDelayedStop, Eff_Set_currentState
    <3>g1. Replied(s, a4, e)
        BY <1>s DEF Kept, KeptBase, Unstarts, Loads, Told, With, Replied, Notifies
    <3>g2. PreservesBase(s, a4)
        BY <1>s DEF PreservesBase, DeviceOK, ModelOK, With, Running
    <3>g3. ("restore" \in s.past \/ ~Told(s)) => PreservesWant(s, a4)
        BY <1>s DEF PreservesWant, ModelOK, WantOK, WakeOK, With, Running, Told
    <3>g4. ("restore" \in s.past \/ ~Told(s)) /\ f = "none" => Runs(s, "none", a4, "none")
        BY <1>s DEF Told, Runs, RunsOK, Calm, ModelOK, WantOK, With, Running
    <3> QED BY <3>e, <3>g1, <3>g2, <3>g3, <3>g4, <3>r4
  <2>2. CASE ~(s.rec_config = "capture")
    <3> DEFINE a3 == TransitTo(a2, "DETECTED")
    <3>r3. a3 \in StreamRecord /\ Eff_TransitTo(a2, a3, "DETECTED")
        BY <2>r2, Does_TransitTo, Values
    <3> DEFINE a4 == PostDelayedStop(a3)
    <3>r4. a4 \in StreamRecord /\ Eff_PostDelayedStop(a3, a4)
        BY <3>r3, Does_PostDelayedStop
    <3> DEFINE a5 == Set_currentState(a4, "STOPPED")
    <3>r5. a5 \in StreamRecord /\ Eff_Set_currentState(a4, a5, "STOPPED")
        BY <3>r4, Does_Set_currentState, Values, <1>pds
    <3>e. Handled(s, e, f) = a5
        BY <1>pds, <1>2, <2>2 DEF Handled, Buffering_ACCEPT, Notifies, notifyClient, Back,
           Unlock, Set_detection_state, No_second_stage_processing, Set_currentState
    <3> HIDE DEF a1, a2, a3, a4, a5
    <3> USE <1>pds, <1>2, <2>2, <2>r1, <2>r2, <3>r3, <3>r4, <3>r5 DEF
           Eff_Set_detection_state, Eff_No_second_stage_processing, Eff_TransitTo,
           Eff_PostDelayedStop, Eff_Set_currentState
    <3>g1. Replied(s, a5, e)
        BY <1>s DEF Kept, KeptBase, Unstarts, Loads, Told, With, Replied, Notifies
    <3>g2. PreservesBase(s, a5)
        BY <1>s DEF PreservesBase, DeviceOK, ModelOK, With, Running
    <3>g3. ("restore" \in s.past \/ ~Told(s)) => PreservesWant(s, a5)
        BY <1>s DEF PreservesWant, ModelOK, WantOK, WakeOK, With, Running, Told
    <3>g4. ("restore" \in s.past \/ ~Told(s)) /\ f = "none" => Runs(s, "none", a5, "none")
        BY <1>s DEF Told, Runs, RunsOK, Calm, ModelOK, WantOK, With, Running
    <3> QED BY <3>e, <3>g1, <3>g2, <3>g3, <3>g4, <3>r5
  <2> QED BY <2>1, <2>2
<1> QED BY <1>1, <1>2

(* A second stage engine rejects.                                             *)
LEMMA Ev_reject ==
    ASSUME NEW s \in StreamRecord, NEW f, NEW e \in Stage2,
           e # "gmm", ~answer[e], s.state = "BUFFERING"
    PROVE  LET t == Handled(s, e, f) IN
           /\ t \in StreamRecord
           /\ Replied(s, t, e)
           /\ PreservesBase(s, t)
           /\ ("restore" \in s.past \/ ~Told(s)) => PreservesWant(s, t)
           /\ ("restore" \in s.past \/ ~Told(s)) /\ f = "none" => Runs(s, "none", t, "none")
<1>s. /\ s.state \in {"IDLE", "LOADED", "SSR", "ACTIVE", "DETECTED", "BUFFERING"}
      /\ s.wake \in Int
      /\ s.state_for_restore \in {"NONE", "IDLE", "LOADED", "ACTIVE"}
      /\ s.currentState \in {"IDLE", "OPENED", "STARTED", "STOPPED"}
    BY FieldTypes, StAssumption DEF States, Running, Restores, Currents
<1>pq. PICK q \in SUBSET Stage2 : q = s.proc \cap {e}
    BY FieldTypes
<1>1. CASE s.rejection_notified
  <2>pz. PICK z \in SUBSET Stage2 : z = s.proc \ {e}
      BY FieldTypes
  <2> DEFINE a1 == Set_proc(s, z)
  <2>r1. a1 \in StreamRecord /\ Eff_Set_proc(s, a1, z) BY Does_Set_proc, <1>pq, <2>pz
  <2>1. CASE a1.mutex_unlocked_after_cb
    <3> DEFINE a2 == Crash(a1)
    <3>r2. a2 \in StreamRecord /\ Eff_Crash(a1, a2) BY <2>r1, Does_Crash
    <3>e. Handled(s, e, f) = a2
        BY <1>pq, <1>1, <2>pz, <2>1 DEF Handled, Buffering_REJECT, Notifies, notifyClient,
           Back, Unlock, Set_proc
    <3> HIDE DEF a1, a2
    <3> USE <1>pq, <1>1, <2>pz, <2>1, <2>r1, <3>r2 DEF Eff_Set_proc, Eff_Crash
    <3>g1. Replied(s, a2, e)
        BY <1>s DEF Kept, KeptBase, Unstarts, Loads, Told, With, Replied, Notifies
    <3>g2. PreservesBase(s, a2)
        BY <1>s DEF PreservesBase, DeviceOK, ModelOK, With, Running
    <3>g3. ("restore" \in s.past \/ ~Told(s)) => PreservesWant(s, a2)
        BY <1>s DEF PreservesWant, ModelOK, WantOK, WakeOK, With, Running, Told
    <3>g4. ("restore" \in s.past \/ ~Told(s)) /\ f = "none" => Runs(s, "none", a2, "none")
        BY <1>s DEF Told, Runs, RunsOK, Calm, ModelOK, WantOK, With, Running
    <3> QED BY <3>e, <3>g1, <3>g2, <3>g3, <3>g4, <3>r2
  <2>2. CASE ~(a1.mutex_unlocked_after_cb)
    <3>e. Handled(s, e, f) = a1
        BY <1>pq, <1>1, <2>pz, <2>2 DEF Handled, Buffering_REJECT, Notifies, notifyClient,
           Back, Unlock, Set_proc
    <3> HIDE DEF a1
    <3> USE <1>pq, <1>1, <2>pz, <2>2, <2>r1 DEF Eff_Set_proc
    <3>g1. Replied(s, a1, e)
        BY <1>s DEF Kept, KeptBase, Unstarts, Loads, Told, With, Replied, Notifies
    <3>g2. PreservesBase(s, a1)
        BY <1>s DEF PreservesBase, DeviceOK, ModelOK, With, Running
    <3>g3. ("restore" \in s.past \/ ~Told(s)) => PreservesWant(s, a1)
        BY <1>s DEF PreservesWant, ModelOK, WantOK, WakeOK, With, Running, Told
    <3>g4. ("restore" \in s.past \/ ~Told(s)) /\ f = "none" => Runs(s, "none", a1, "none")
        BY <1>s DEF Told, Runs, RunsOK, Calm, ModelOK, WantOK, With, Running
    <3> QED BY <3>e, <3>g1, <3>g2, <3>g3, <3>g4, <2>r1
  <2> QED BY <2>1, <2>2
<1>2. CASE ~s.rejection_notified /\ NotifyFailure
  <2> DEFINE a1 == Set_proc(s, q)
  <2>r1. a1 \in StreamRecord /\ Eff_Set_proc(s, a1, q) BY Does_Set_proc, <1>pq
  <2> DEFINE a2 == No_second_stage_processing(a1)
  <2>r2. a2 \in StreamRecord /\ Eff_No_second_stage_processing(a1, a2)
      BY <2>r1, Does_No_second_stage_processing
  <2> DEFINE a3 == Set_detection_state(a2, {})
  <2>r3. a3 \in StreamRecord /\ Eff_Set_detection_state(a2, a3, {})
      BY <2>r2, Does_Set_detection_state, Values, <1>pq
  <2> DEFINE a4 == Yes_rejection_notified(a3)
  <2>r4. a4 \in StreamRecord /\ Eff_Yes_rejection_notified(a3, a4)
      BY <2>r3, Does_Yes_rejection_notified
  <2> DEFINE a5 == PostDelayedStop(a4)
  <2>r5. a5 \in StreamRecord /\ Eff_PostDelayedStop(a4, a5) BY <2>r4, Does_PostDelayedStop
  <2> DEFINE a6 == Set_currentState(a5, "STOPPED")
  <2>r6. a6 \in StreamRecord /\ Eff_Set_currentState(a5, a6, "STOPPED")
      BY <2>r5, Does_Set_currentState, Values, <1>pq
  <2>e. Handled(s, e, f) = a6
      BY <1>pq, <1>2 DEF Handled, Buffering_REJECT, Notifies, notifyClient, Back, Unlock,
         Set_proc, No_second_stage_processing, Set_detection_state, Yes_rejection_notified,
         Set_currentState
  <2> HIDE DEF a1, a2, a3, a4, a5, a6
  <2> USE <1>pq, <1>2, <2>r1, <2>r2, <2>r3, <2>r4, <2>r5, <2>r6 DEF Eff_Set_proc,
         Eff_No_second_stage_processing, Eff_Set_detection_state,
         Eff_Yes_rejection_notified,
         Eff_PostDelayedStop, Eff_Set_currentState
  <2>g1. Replied(s, a6, e)
      BY <1>s DEF Kept, KeptBase, Unstarts, Loads, Told, With, Replied, Notifies
  <2>g2. PreservesBase(s, a6)
      BY <1>s DEF PreservesBase, DeviceOK, ModelOK, With, Running
  <2>g3. ("restore" \in s.past \/ ~Told(s)) => PreservesWant(s, a6)
      BY <1>s DEF PreservesWant, ModelOK, WantOK, WakeOK, With, Running, Told
  <2>g4. ("restore" \in s.past \/ ~Told(s)) /\ f = "none" => Runs(s, "none", a6, "none")
      BY <1>s DEF Told, Runs, RunsOK, Calm, ModelOK, WantOK, With, Running
  <2> QED BY <2>e, <2>g1, <2>g2, <2>g3, <2>g4, <2>r6
<1>3. CASE ~s.rejection_notified /\ ~NotifyFailure
  <2> DEFINE a1 == Set_proc(s, q)
  <2>r1. a1 \in StreamRecord /\ Eff_Set_proc(s, a1, q) BY Does_Set_proc, <1>pq
  <2> DEFINE a2 == No_second_stage_processing(a1)
  <2>r2. a2 \in StreamRecord /\ Eff_No_second_stage_processing(a1, a2)
      BY <2>r1, Does_No_second_stage_processing
  <2> DEFINE a3 == Set_detection_state(a2, {})
  <2>r3. a3 \in StreamRecord /\ Eff_Set_detection_state(a2, a3, {})
      BY <2>r2, Does_Set_detection_state, Values, <1>pq
  <2> DEFINE a4 == restartRecognition(a3, f)
  <2>r4. a4 \in StreamRecord /\ Eff_restartRecognition(a3, a4, f)
      BY <2>r3, Does_restartRecognition
  <2> DEFINE a5 == releaseWakeLock(a4)
  <2>r5. a5 \in StreamRecord /\ Eff_releaseWakeLock(a4, a5) BY <2>r4, Does_releaseWakeLock
  <2>pz. PICK z \in SUBSET Stage2 : z = a5.proc \ {e}
      BY <2>r5, FieldTypes
  <2> DEFINE a6 == Set_proc(a5, z)
  <2>r6. a6 \in StreamRecord /\ Eff_Set_proc(a5, a6, z)
      BY <2>r5, Does_Set_proc, <1>pq, <2>pz
  <2>1. CASE a6.mutex_unlocked_after_cb
    <3> DEFINE a7 == Crash(a6)
    <3>r7. a7 \in StreamRecord /\ Eff_Crash(a6, a7) BY <2>r6, Does_Crash
    <3>e. Handled(s, e, f) = a7
        BY <1>pq, <1>3, <2>pz, <2>1 DEF Handled, Buffering_REJECT, Notifies, notifyClient,
           Back, Unlock, Set_proc, No_second_stage_processing, Set_detection_state
    <3> HIDE DEF a1, a2, a3, a4, a5, a6, a7
    <3> USE <1>pq, <1>3, <2>pz, <2>1, <2>r1, <2>r2, <2>r3, <2>r4, <2>r5, <2>r6, <3>r7 DEF
           Eff_Set_proc, Eff_No_second_stage_processing, Eff_Set_detection_state,
           Eff_restartRecognition, Eff_releaseWakeLock, Eff_Crash
    <3>g1. Replied(s, a7, e)
        BY <1>s DEF Kept, KeptBase, Unstarts, Loads, Told, With, Replied, Notifies
    <3>g2. PreservesBase(s, a7)
        BY <1>s DEF PreservesBase, DeviceOK, ModelOK, With, Running
    <3>g3. ("restore" \in s.past \/ ~Told(s)) => PreservesWant(s, a7)
        BY <1>s DEF PreservesWant, ModelOK, WantOK, WakeOK, With, Running, Told
    <3>g4. ("restore" \in s.past \/ ~Told(s)) /\ f = "none" => Runs(s, "none", a7, "none")
        BY <1>s DEF Told, Runs, RunsOK, Calm, ModelOK, WantOK, With, Running
    <3> QED BY <3>e, <3>g1, <3>g2, <3>g3, <3>g4, <3>r7
  <2>2. CASE ~(a6.mutex_unlocked_after_cb)
    <3>e. Handled(s, e, f) = a6
        BY <1>pq, <1>3, <2>pz, <2>2 DEF Handled, Buffering_REJECT, Notifies, notifyClient,
           Back, Unlock, Set_proc, No_second_stage_processing, Set_detection_state
    <3> HIDE DEF a1, a2, a3, a4, a5, a6
    <3> USE <1>pq, <1>3, <2>pz, <2>2, <2>r1, <2>r2, <2>r3, <2>r4, <2>r5, <2>r6 DEF
           Eff_Set_proc, Eff_No_second_stage_processing, Eff_Set_detection_state,
           Eff_restartRecognition, Eff_releaseWakeLock
    <3>g1. Replied(s, a6, e)
        BY <1>s DEF Kept, KeptBase, Unstarts, Loads, Told, With, Replied, Notifies
    <3>g2. PreservesBase(s, a6)
        BY <1>s DEF PreservesBase, DeviceOK, ModelOK, With, Running
    <3>g3. ("restore" \in s.past \/ ~Told(s)) => PreservesWant(s, a6)
        BY <1>s DEF PreservesWant, ModelOK, WantOK, WakeOK, With, Running, Told
    <3>g4. ("restore" \in s.past \/ ~Told(s)) /\ f = "none" => Runs(s, "none", a6, "none")
        BY <1>s DEF Told, Runs, RunsOK, Calm, ModelOK, WantOK, With, Running
    <3> QED BY <3>e, <3>g1, <3>g2, <3>g3, <3>g4, <2>r6
  <2> QED BY <2>1, <2>2
<1> QED BY <1>1, <1>2, <1>3

(* A thread ends its turn.                                                    *)
LEMMA Ev_Back ==
    ASSUME NEW s \in StreamRecord, NEW r, NEW op
    PROVE  LET t == Back(s, r) IN
           /\ t \in StreamRecord
           /\ Kept(s, t) /\ SameModel(s, t) /\ SameCard(s, t)
           /\ t.faults = s.faults /\ Ended(t, r)
           /\ Preserves(s, t)
           /\ Runs(s, op, t, op)
<1>s. /\ s.state \in {"IDLE", "LOADED", "SSR", "ACTIVE", "DETECTED", "BUFFERING"}
      /\ s.wake \in Int
      /\ s.state_for_restore \in {"NONE", "IDLE", "LOADED", "ACTIVE"}
      /\ s.currentState \in {"IDLE", "OPENED", "STARTED", "STOPPED"}
    BY FieldTypes, StAssumption DEF States, Running, Restores, Currents
<1>pz. PICK z \in SUBSET Stage2 : z = s.proc \ {r}
    BY FieldTypes
<1> DEFINE a1 == Set_proc(s, z)
<1>r1. a1 \in StreamRecord /\ Eff_Set_proc(s, a1, z) BY Does_Set_proc, <1>pz
<1>e. Back(s, r) = a1
    BY <1>pz DEF Back, Set_proc
<1> HIDE DEF a1
<1> USE <1>pz, <1>r1 DEF Eff_Set_proc
<1>g1. Kept(s, a1) /\ SameModel(s, a1) /\ SameCard(s, a1)
           /\ a1.faults = s.faults /\ Ended(a1, r)
    BY <1>s DEF Kept, KeptBase, Unstarts, Loads, Told, With, SameModel, SameCard, Ended
<1>g2. Preserves(s, a1)
    BY <1>s DEF Preserves, PreservesBase, PreservesWant, DeviceOK, ModelOK, WantOK,
       WakeOK, With, Running
<1>g3. Runs(s, op, a1, op)
    BY <1>s DEF Runs, RunsOK, Calm, ModelOK, WantOK, With, Running
<1> QED BY <1>e, <1>g1, <1>g2, <1>g3, <1>r1

(* The callback returns.                                                      *)
LEMMA Ev_CallbackReturns ==
    ASSUME NEW s \in StreamRecord, NEW r, NEW op
    PROVE  LET t == Unlock(Back(AfterCallback(s, r), r)) IN
           /\ t \in StreamRecord
           /\ Kept(s, t) /\ SameModel(s, t) /\ SameCard(s, t)
           /\ t.faults = s.faults /\ Ended(t, r)
           /\ Preserves(s, t)
           /\ Runs(s, op, t, op)
<1>s. /\ s.state \in {"IDLE", "LOADED", "SSR", "ACTIVE", "DETECTED", "BUFFERING"}
      /\ s.wake \in Int
      /\ s.state_for_restore \in {"NONE", "IDLE", "LOADED", "ACTIVE"}
      /\ s.currentState \in {"IDLE", "OPENED", "STARTED", "STOPPED"}
    BY FieldTypes, StAssumption DEF States, Running, Restores, Currents
<1>1. CASE r # "gmm" /\ ~answer[r]
  <2> DEFINE a1 == releaseWakeLock(s)
  <2>r1. a1 \in StreamRecord /\ Eff_releaseWakeLock(s, a1) BY Does_releaseWakeLock
  <2> DEFINE a2 == Mark(a1, TRUE, "wake")
  <2>r2. a2 \in StreamRecord /\ Eff_Mark(a1, a2, "wake") BY <2>r1, Does_Mark, Values
  <2>pz. PICK z \in SUBSET Stage2 : z = a2.proc \ {r}
      BY <2>r2, FieldTypes
  <2> DEFINE a3 == Set_proc(a2, z)
  <2>r3. a3 \in StreamRecord /\ Eff_Set_proc(a2, a3, z) BY <2>r2, Does_Set_proc, <2>pz
  <2>1. CASE a3.mutex_unlocked_after_cb
    <3> DEFINE a4 == Crash(a3)
    <3>r4. a4 \in StreamRecord /\ Eff_Crash(a3, a4) BY <2>r3, Does_Crash
    <3>e. Unlock(Back(AfterCallback(s, r), r)) = a4
        BY <1>1, <2>pz, <2>1 DEF Unlock, Back, AfterCallback, Set_proc
    <3> HIDE DEF a1, a2, a3, a4
    <3> USE <1>1, <2>pz, <2>1, <2>r1, <2>r2, <2>r3, <3>r4 DEF Eff_releaseWakeLock, Eff_Mark,
           Eff_Set_proc, Eff_Crash
    <3>g1. Kept(s, a4) /\ SameModel(s, a4) /\ SameCard(s, a4)
               /\ a4.faults = s.faults /\ Ended(a4, r)
        BY <1>s DEF Kept, KeptBase, Unstarts, Loads, Told, With, SameModel, SameCard, Ended
    <3>g2. Preserves(s, a4)
        BY <1>s DEF Preserves, PreservesBase, PreservesWant, DeviceOK, ModelOK, WantOK,
           WakeOK, With, Running
    <3>g3. Runs(s, op, a4, op)
        BY <1>s DEF Runs, RunsOK, Calm, ModelOK, WantOK, With, Running
    <3> QED BY <3>e, <3>g1, <3>g2, <3>g3, <3>r4
  <2>2. CASE ~(a3.mutex_unlocked_after_cb)
    <3>e. Unlock(Back(AfterCallback(s, r), r)) = a3
        BY <1>1, <2>pz, <2>2 DEF Unlock, Back, AfterCallback, Set_proc
    <3> HIDE DEF a1, a2, a3
    <3> USE <1>1, <2>pz, <2>2, <2>r1, <2>r2, <2>r3 DEF Eff_releaseWakeLock, Eff_Mark,
           Eff_Set_proc
    <3>g1. Kept(s, a3) /\ SameModel(s, a3) /\ SameCard(s, a3)
               /\ a3.faults = s.faults /\ Ended(a3, r)
        BY <1>s DEF Kept, KeptBase, Unstarts, Loads, Told, With, SameModel, SameCard, Ended
    <3>g2. Preserves(s, a3)
        BY <1>s DEF Preserves, PreservesBase, PreservesWant, DeviceOK, ModelOK, WantOK,
           WakeOK, With, Running
    <3>g3. Runs(s, op, a3, op)
        BY <1>s DEF Runs, RunsOK, Calm, ModelOK, WantOK, With, Running
    <3> QED BY <3>e, <3>g1, <3>g2, <3>g3, <2>r3
  <2> QED BY <2>1, <2>2
<1>2. CASE ~(r # "gmm" /\ ~answer[r])
  <2>pz. PICK z \in SUBSET Stage2 : z = s.proc \ {r}
      BY FieldTypes
  <2> DEFINE a1 == Set_proc(s, z)
  <2>r1. a1 \in StreamRecord /\ Eff_Set_proc(s, a1, z) BY Does_Set_proc, <2>pz
  <2>1. CASE a1.mutex_unlocked_after_cb
    <3> DEFINE a2 == Crash(a1)
    <3>r2. a2 \in StreamRecord /\ Eff_Crash(a1, a2) BY <2>r1, Does_Crash
    <3>e. Unlock(Back(AfterCallback(s, r), r)) = a2
        BY <1>2, <2>pz, <2>1 DEF Unlock, Back, AfterCallback, Set_proc
    <3> HIDE DEF a1, a2
    <3> USE <1>2, <2>pz, <2>1, <2>r1, <3>r2 DEF Eff_Set_proc, Eff_Crash
    <3>g1. Kept(s, a2) /\ SameModel(s, a2) /\ SameCard(s, a2)
               /\ a2.faults = s.faults /\ Ended(a2, r)
        BY <1>s DEF Kept, KeptBase, Unstarts, Loads, Told, With, SameModel, SameCard, Ended
    <3>g2. Preserves(s, a2)
        BY <1>s DEF Preserves, PreservesBase, PreservesWant, DeviceOK, ModelOK, WantOK,
           WakeOK, With, Running
    <3>g3. Runs(s, op, a2, op)
        BY <1>s DEF Runs, RunsOK, Calm, ModelOK, WantOK, With, Running
    <3> QED BY <3>e, <3>g1, <3>g2, <3>g3, <3>r2
  <2>2. CASE ~(a1.mutex_unlocked_after_cb)
    <3>e. Unlock(Back(AfterCallback(s, r), r)) = a1
        BY <1>2, <2>pz, <2>2 DEF Unlock, Back, AfterCallback, Set_proc
    <3> HIDE DEF a1
    <3> USE <1>2, <2>pz, <2>2, <2>r1 DEF Eff_Set_proc
    <3>g1. Kept(s, a1) /\ SameModel(s, a1) /\ SameCard(s, a1)
               /\ a1.faults = s.faults /\ Ended(a1, r)
        BY <1>s DEF Kept, KeptBase, Unstarts, Loads, Told, With, SameModel, SameCard, Ended
    <3>g2. Preserves(s, a1)
        BY <1>s DEF Preserves, PreservesBase, PreservesWant, DeviceOK, ModelOK, WantOK,
           WakeOK, With, Running
    <3>g3. Runs(s, op, a1, op)
        BY <1>s DEF Runs, RunsOK, Calm, ModelOK, WantOK, With, Running
    <3> QED BY <3>e, <3>g1, <3>g2, <3>g3, <2>r1
  <2> QED BY <2>1, <2>2
<1> QED BY <1>1, <1>2

(* The callback returns while the client stops the stream.                    *)
LEMMA Ev_CallbackGivesUp ==
    ASSUME NEW s \in StreamRecord, NEW r, NEW op
    PROVE  LET t == [AfterCallback(s, r) EXCEPT !.mutex_unlocked_after_cb = TRUE] IN
           /\ t \in StreamRecord
           /\ Kept(s, t) /\ SameModel(s, t) /\ SameCard(s, t) /\ t.faults = s.faults
           /\ Preserves(s, t)
           /\ Runs(s, op, t, op)
<1>s. /\ s.state \in {"IDLE", "LOADED", "SSR", "ACTIVE", "DETECTED", "BUFFERING"}
      /\ s.wake \in Int
      /\ s.state_for_restore \in {"NONE", "IDLE", "LOADED", "ACTIVE"}
      /\ s.currentState \in {"IDLE", "OPENED", "STARTED", "STOPPED"}
    BY FieldTypes, StAssumption DEF States, Running, Restores, Currents
<1>1. CASE r # "gmm" /\ ~answer[r]
  <2> DEFINE a1 == releaseWakeLock(s)
  <2>r1. a1 \in StreamRecord /\ Eff_releaseWakeLock(s, a1) BY Does_releaseWakeLock
  <2> DEFINE a2 == Mark(a1, TRUE, "wake")
  <2>r2. a2 \in StreamRecord /\ Eff_Mark(a1, a2, "wake") BY <2>r1, Does_Mark, Values
  <2> DEFINE a3 == Yes_mutex_unlocked_after_cb(a2)
  <2>r3. a3 \in StreamRecord /\ Eff_Yes_mutex_unlocked_after_cb(a2, a3)
      BY <2>r2, Does_Yes_mutex_unlocked_after_cb
  <2>e. [AfterCallback(s, r) EXCEPT !.mutex_unlocked_after_cb = TRUE] = a3
      BY <1>1 DEF AfterCallback, Yes_mutex_unlocked_after_cb
  <2> HIDE DEF a1, a2, a3
  <2> USE <1>1, <2>r1, <2>r2, <2>r3 DEF Eff_releaseWakeLock, Eff_Mark,
         Eff_Yes_mutex_unlocked_after_cb
  <2>g1. Kept(s, a3) /\ SameModel(s, a3) /\ SameCard(s, a3) /\ a3.faults = s.faults
      BY <1>s DEF Kept, KeptBase, Unstarts, Loads, Told, With, SameModel, SameCard
  <2>g2. Preserves(s, a3)
      BY <1>s DEF Preserves, PreservesBase, PreservesWant, DeviceOK, ModelOK, WantOK,
         WakeOK, With, Running
  <2>g3. Runs(s, op, a3, op)
      BY <1>s DEF Runs, RunsOK, Calm, ModelOK, WantOK, With, Running
  <2> QED BY <2>e, <2>g1, <2>g2, <2>g3, <2>r3
<1>2. CASE ~(r # "gmm" /\ ~answer[r])
  <2> DEFINE a1 == Yes_mutex_unlocked_after_cb(s)
  <2>r1. a1 \in StreamRecord /\ Eff_Yes_mutex_unlocked_after_cb(s, a1)
      BY Does_Yes_mutex_unlocked_after_cb
  <2>e. [AfterCallback(s, r) EXCEPT !.mutex_unlocked_after_cb = TRUE] = a1
      BY <1>2 DEF AfterCallback, Yes_mutex_unlocked_after_cb
  <2> HIDE DEF a1
  <2> USE <1>2, <2>r1 DEF Eff_Yes_mutex_unlocked_after_cb
  <2>g1. Kept(s, a1) /\ SameModel(s, a1) /\ SameCard(s, a1) /\ a1.faults = s.faults
      BY <1>s DEF Kept, KeptBase, Unstarts, Loads, Told, With, SameModel, SameCard
  <2>g2. Preserves(s, a1)
      BY <1>s DEF Preserves, PreservesBase, PreservesWant, DeviceOK, ModelOK, WantOK,
         WakeOK, With, Running
  <2>g3. Runs(s, op, a1, op)
      BY <1>s DEF Runs, RunsOK, Calm, ModelOK, WantOK, With, Running
  <2> QED BY <2>e, <2>g1, <2>g2, <2>g3, <2>r1
<1> QED BY <1>1, <1>2

(* The thread that did not get the mutex ends.                                *)
LEMMA Ev_NoUnlock ==
    ASSUME NEW s \in StreamRecord, NEW r, NEW op
    PROVE  LET t == (IF s.mutex_unlocked_after_cb
                        THEN [Back(s, r) EXCEPT !.mutex_unlocked_after_cb = FALSE]
                        ELSE Crash(s)) IN
           /\ t \in StreamRecord
           /\ Kept(s, t) /\ SameModel(s, t) /\ SameCard(s, t)
           /\ t.faults = s.faults /\ Ended(t, r)
           /\ Preserves(s, t)
           /\ Runs(s, op, t, op)
<1>s. /\ s.state \in {"IDLE", "LOADED", "SSR", "ACTIVE", "DETECTED", "BUFFERING"}
      /\ s.wake \in Int
      /\ s.state_for_restore \in {"NONE", "IDLE", "LOADED", "ACTIVE"}
      /\ s.currentState \in {"IDLE", "OPENED", "STARTED", "STOPPED"}
    BY FieldTypes, StAssumption DEF States, Running, Restores, Currents
<1>1. CASE s.mutex_unlocked_after_cb
  <2>pz. PICK z \in SUBSET Stage2 : z = s.proc \ {r}
      BY FieldTypes
  <2> DEFINE a1 == Set_proc(s, z)
  <2>r1. a1 \in StreamRecord /\ Eff_Set_proc(s, a1, z) BY Does_Set_proc, <2>pz
  <2> DEFINE a2 == No_mutex_unlocked_after_cb(a1)
  <2>r2. a2 \in StreamRecord /\ Eff_No_mutex_unlocked_after_cb(a1, a2)
      BY <2>r1, Does_No_mutex_unlocked_after_cb
  <2>e. (IF s.mutex_unlocked_after_cb
                          THEN [Back(s, r) EXCEPT !.mutex_unlocked_after_cb = FALSE]
                          ELSE Crash(s)) = a2
      BY <1>1, <2>pz DEF Back, Set_proc, No_mutex_unlocked_after_cb
  <2> HIDE DEF a1, a2
  <2> USE <1>1, <2>pz, <2>r1, <2>r2 DEF Eff_Set_proc, Eff_No_mutex_unlocked_after_cb
  <2>g1. Kept(s, a2) /\ SameModel(s, a2) /\ SameCard(s, a2)
             /\ a2.faults = s.faults /\ Ended(a2, r)
      BY <1>s DEF Kept, KeptBase, Unstarts, Loads, Told, With, SameModel, SameCard, Ended
  <2>g2. Preserves(s, a2)
      BY <1>s DEF Preserves, PreservesBase, PreservesWant, DeviceOK, ModelOK, WantOK,
         WakeOK, With, Running
  <2>g3. Runs(s, op, a2, op)
      BY <1>s DEF Runs, RunsOK, Calm, ModelOK, WantOK, With, Running
  <2> QED BY <2>e, <2>g1, <2>g2, <2>g3, <2>r2
<1>2. CASE ~(s.mutex_unlocked_after_cb)
  <2> DEFINE a1 == Crash(s)
  <2>r1. a1 \in StreamRecord /\ Eff_Crash(s, a1) BY Does_Crash
  <2>e. (IF s.mutex_unlocked_after_cb
                          THEN [Back(s, r) EXCEPT !.mutex_unlocked_after_cb = FALSE]
                          ELSE Crash(s)) = a1
      BY <1>2 DEF Back
  <2> HIDE DEF a1
  <2> USE <1>2, <2>r1 DEF Eff_Crash
  <2>g1. Kept(s, a1) /\ SameModel(s, a1) /\ SameCard(s, a1)
             /\ a1.faults = s.faults /\ Ended(a1, r)
      BY <1>s DEF Kept, KeptBase, Unstarts, Loads, Told, With, SameModel, SameCard, Ended
  <2>g2. Preserves(s, a1)
      BY <1>s DEF Preserves, PreservesBase, PreservesWant, DeviceOK, ModelOK, WantOK,
         WakeOK, With, Running
  <2>g3. Runs(s, op, a1, op)
      BY <1>s DEF Runs, RunsOK, Calm, ModelOK, WantOK, With, Running
  <2> QED BY <2>e, <2>g1, <2>g2, <2>g3, <2>r1
<1> QED BY <1>1, <1>2

-----------------------------------------------------------------------------
(* The invariant.                                                             *)

(* A sound model with one second stage engine at most.  With two,             *)
(* detection_state_ outlives a stop, and the answer left there completes the  *)
(* next detection.                                                            *)
OneEngine == \A n \in Stage2Choices : \A d, e \in n : d = e

Open == client \in {"idle", "in"}

(* Every detection counts one wake lock at most, and a thread of the first    *)
(* stage reports one that was counted on.                                     *)
CountOK ==
    /\ st.wake <= st.detections
    /\ report["gmm"] = "call" => st.detections < MaxDetections

(* Who has mStreamMutex.                                                      *)
OwnerOK ==
    /\ client \in {"in", "join", "deleting"} => owner = "client"
    /\ rmOp # "none" => owner = "rm"

(* A stream waits for the subsystem while the card is down.                   *)
CardOK == st.state = "SSR" <=> card = "down"

(* Only the engines of the model work or report.                              *)
EnginesOK == \A e \in Stage2 : report[e] # "wait" \/ e \in st.proc => e \in st.stage2

(* An engine that will report, or may.                                        *)
Pending(e) == report[e] = "call" \/ (e \in st.proc /\ report[e] \in {"wait", "work"})
(* None does once the client has its detection.                               *)
AnsweredOK == "restore" \notin st.past /\ Told(st) => \A e \in Stage2 : ~Pending(e)

WantedOK ==
    /\ WantOK(st) /\ WakeOK(st) /\ AnsweredOK
    /\ st.faults = 0 /\ Calm(st) => RunsOK(st, rmOp)

(* The types of what is not in the record of the stream, but for the list of  *)
(* deferred streams and the history.                                          *)
RestOK ==
    /\ owner \in {"free", "client", "rm"} \cup Reporter
    /\ client \in {"idle", "in", "join", "closed", "deleting", "gone"}
    /\ report \in [Reporter -> {"wait", "work", "call", "unlocked", "callback", "end"}]
    /\ answer \in [Reporter -> BOOLEAN]
    /\ rmOp \in {"none", "device", "concurrent", "internal"}
    /\ card \in {"up", "down"}
    /\ conc \in BOOLEAN

CoreOK == st \in StreamRecord /\ RestOK

(* The list of deferred streams and the client's last word.                   *)
WordOK ==
    /\ deferred \in {"never", "no", "waiting", "due"}
    /\ word \in {"start", "stop", "ignored"}
    /\ Lpi => word # "ignored"
    /\ OnList => word = "start" /\ Open /\ st.currentState # "IDLE"
    /\ ~st.crash /\ st.currentState = "STARTED" => word # "stop"

Inv ==
    /\ CoreOK
    /\ Alive => /\ CountOK /\ OwnerOK
                /\ Open => /\ DeviceOK(st) /\ ModelOK(st) /\ EnginesOK /\ CardOK
                           /\ OneEngine => WantedOK

(* What the threads of the engines do while the stream is handled.            *)
Fewer ==
    /\ \A e \in Stage2 : report'[e] # "wait" => report[e] # "wait" \/ e \in st.proc
    /\ \A e \in Stage2 : Pending(e)' => Pending(e)
    /\ report'["gmm"] = "call" => report["gmm"] = "call" \/ st.detections < MaxDetections

(* A step that keeps what the handlers keep keeps the invariant.              *)
LEMMA Carry ==
    ASSUME Inv, Alive, st' \in StreamRecord, RestOK', OwnerOK',
           Open' => Open /\ CardOK', Fewer, KeptBase(st, st'), Preserves(st, st'),
           ModelOK(st) => SameModel(st, st') \/ st.stage2 = {},
           st'.faults = 0 => st.faults = 0 /\ Runs(st, rmOp, st', rmOp')
    PROVE  Inv'
<1>1. st \in StreamRecord /\ st' \in StreamRecord
    BY DEF Inv, CoreOK
<1>0. CoreOK'
    BY DEF CoreOK, RestOK
<1>2. /\ st.wake \in Int /\ st.detections \in Int
      /\ st'.wake \in Int /\ st'.detections \in Int
    BY <1>1, FieldTypes, StAssumption
<1>3. CountOK'
    BY <1>2 DEF Inv, CountOK, KeptBase, Fewer
<1>4. SUFFICES ASSUME Alive', Open'
               PROVE  /\ DeviceOK(st)' /\ ModelOK(st)' /\ EnginesOK' /\ CardOK'
                      /\ OneEngine => WantedOK'
    BY <1>0, <1>3 DEF Inv, OneEngine
<1>5. DeviceOK(st) /\ ModelOK(st) /\ EnginesOK /\ (OneEngine => WantedOK)
    BY <1>4 DEF Inv
<1>6. ~st'.crash
    BY <1>4 DEF Alive
<1>7. DeviceOK(st)' /\ ModelOK(st)'
    BY <1>5, <1>6 DEF Preserves, PreservesBase
<1>8. EnginesOK'
    BY <1>5 DEF EnginesOK, Fewer, KeptBase, SameModel
<1>9. ASSUME OneEngine
      PROVE  WantedOK'
  <2>1. WantedOK
      BY <1>5, <1>9
  <2>2. WantOK(st)' /\ WakeOK(st)'
      BY <2>1, <1>5, <1>6 DEF WantedOK, Preserves, PreservesWant
  <2>3. AnsweredOK'
      BY <2>1 DEF WantedOK, AnsweredOK, KeptBase, Fewer
  <2>4. st'.faults = 0 /\ Calm(st)' => RunsOK(st, rmOp)'
      BY <2>1, <1>5, <1>6 DEF WantedOK, Runs, KeptBase, Calm
  <2> QED BY <2>2, <2>3, <2>4 DEF WantedOK
<1> QED BY <1>4, <1>7, <1>8, <1>9

(* What is left by the end of an event: the status is success, and a call     *)
(* that failed is counted.                                                    *)
Eff_Applied(s, t, f, u) ==
    /\ KeepsAllBut(t, u)
    /\ u.faults = 0 => f = "none" /\ s.faults = 0

(* The end of an event.                                                       *)
LEMMA Does_Applied ==
    ASSUME NEW s \in StreamRecord, NEW t \in StreamRecord, NEW f,
           t.faults = s.faults, f # "none" => s.faults < MaxFaults
    PROVE  LET u == [t EXCEPT !.ok = TRUE, !.faults = IF f = "none" THEN @ ELSE @ + 1]
           IN  u \in StreamRecord /\ Eff_Applied(s, t, f, u)
<1>1. PICK n \in 0..MaxFaults : n = IF f = "none" THEN t.faults ELSE t.faults + 1
    BY FieldTypes, StAssumption
<1> DEFINE a == Yes_ok(t)
           b == Set_faults(a, n)
<1>2. a \in StreamRecord /\ Eff_Yes_ok(t, a)
    BY Does_Yes_ok
<1>3. b \in StreamRecord /\ Eff_Set_faults(a, b, n)
    BY <1>2, Does_Set_faults
<1>4. [t EXCEPT !.ok = TRUE, !.faults = IF f = "none" THEN @ ELSE @ + 1] = b
    BY <1>1 DEF Yes_ok, Set_faults
<1>5. t.faults \in Nat
    BY FieldTypes, StAssumption
<1> HIDE DEF a, b
<1>6. Eff_Applied(s, t, f, b)
    BY <1>1, <1>2, <1>3, <1>5 DEF Eff_Yes_ok, Eff_Set_faults, Eff_Applied, KeepsAllBut
<1> QED BY <1>3, <1>4, <1>6

(* What an event keeps does not depend on the status and the count.           *)
LEMMA AppliedKeeps ==
    ASSUME NEW s, NEW t, NEW f, NEW u, NEW op, NEW next, NEW e, Eff_Applied(s, t, f, u)
    PROVE  /\ u.crash = t.crash
           /\ KeptBase(s, t) => KeptBase(s, u)
           /\ Unstarts(s, t) => Unstarts(s, u)
           /\ SameModel(s, t) => SameModel(s, u)
           /\ SameCard(s, t) => SameCard(s, u)
           /\ Preserves(s, t) => Preserves(s, u)
           /\ PreservesBase(s, t) => PreservesBase(s, u)
           /\ PreservesWant(s, t) => PreservesWant(s, u)
           /\ Runs(s, op, t, next) => Runs(s, op, u, next)
<1> USE DEF Eff_Applied, KeepsAllBut
<1>1. /\ u.crash = t.crash
      /\ (SameModel(s, t) => SameModel(s, u)) /\ (SameCard(s, t) => SameCard(s, u))
    BY DEF SameModel, SameCard
<1>2. (KeptBase(s, t) => KeptBase(s, u)) /\ (Unstarts(s, t) => Unstarts(s, u))
    BY DEF KeptBase, Told, Unstarts, Loads
<1>3. (DeviceOK(t) => DeviceOK(u)) /\ (ModelOK(t) => ModelOK(u))
    BY DEF DeviceOK, ModelOK
<1>4. (WantOK(t) => WantOK(u)) /\ (WakeOK(t) => WakeOK(u))
    BY DEF WantOK, WakeOK
<1>5. RunsOK(t, next) => RunsOK(u, next)
    BY DEF RunsOK
<1>6. Calm(u) <=> Calm(t)
    BY DEF Calm
<1> QED BY <1>1, <1>2, <1>3, <1>4, <1>5, <1>6
       DEF Preserves, PreservesBase, PreservesWant, Runs

(* An event with mStreamMutex keeps the invariant.                            *)
LEMMA EventBase ==
    ASSUME Inv, Alive, NEW t \in StreamRecord, NEW f \in Fault,
           f # "none" => st.faults < MaxFaults,
           st' = [t EXCEPT !.ok = TRUE, !.faults = IF f = "none" THEN @ ELSE @ + 1],
           t.faults = st.faults, KeptBase(st, t), Preserves(st, t),
           ModelOK(st) => SameModel(st, t) \/ st.stage2 = {},
           f = "none" => Runs(st, rmOp, t, rmOp'),
           RestOK', OwnerOK', Open' => Open /\ (t.state = "SSR" <=> card' = "down"),
           report' = report
    PROVE  Inv' /\ Loads(st, st')
<1>1. st \in StreamRecord
    BY DEF Inv, CoreOK
<1>2. st' \in StreamRecord /\ Eff_Applied(st, t, f, st')
    BY <1>1, Does_Applied
<1>3. /\ KeptBase(st, st') /\ Preserves(st, st')
      /\ SameModel(st, t) => SameModel(st, st')
      /\ Runs(st, rmOp, t, rmOp') => Runs(st, rmOp, st', rmOp')
    BY <1>2, AppliedKeeps
<1>4. /\ st'.state = t.state
      /\ st'.faults = 0 => f = "none" /\ st.faults = 0
    BY <1>2 DEF Eff_Applied, KeepsAllBut
<1>5. Fewer
    BY <1>3 DEF Fewer, Pending, KeptBase
<1>6. Open' => Open /\ CardOK'
    BY <1>4 DEF CardOK
<1>7. st'.faults = 0 => st.faults = 0 /\ Runs(st, rmOp, st', rmOp')
    BY <1>3, <1>4
<1> QED BY <1>2, <1>3, <1>5, <1>6, <1>7, Carry DEF KeptBase

(* The call of a client.                                                      *)
LEMMA ClientBase ==
    ASSUME Inv, InCall, Return, NEW t \in StreamRecord, NEW f \in Fault,
           f # "none" => st.faults < MaxFaults,
           st' = [t EXCEPT !.ok = TRUE, !.faults = IF f = "none" THEN @ ELSE @ + 1],
           t.faults = st.faults, KeptBase(st, t), SameCard(st, t), Preserves(st, t),
           ModelOK(st) => SameModel(st, t) \/ st.stage2 = {},
           f = "none" => Runs(st, "none", t, "none")
    PROVE  Inv' /\ Loads(st, st')
<1>1. Alive /\ client = "in" /\ Open
    BY DEF InCall, Open
<1>2. rmOp = "none" /\ CardOK /\ RestOK
    BY <1>1 DEF Inv, CoreOK, RestOK, OwnerOK
<1>3. RestOK' /\ OwnerOK' /\ report' = report /\ card' = card /\ rmOp' = "none"
    BY <1>2 DEF Return, RestOK, OwnerOK
<1>4. t.state = "SSR" <=> card' = "down"
    BY <1>2, <1>3 DEF CardOK, SameCard
<1> QED BY <1>1, <1>2, <1>3, <1>4, EventBase


(* What does not start the stream, whatever its status and the count.         *)
LEMMA EventUnstarts ==
    ASSUME st \in StreamRecord, NEW t \in StreamRecord, NEW f \in Fault,
           f # "none" => st.faults < MaxFaults, t.faults = st.faults,
           st' = [t EXCEPT !.ok = TRUE, !.faults = IF f = "none" THEN @ ELSE @ + 1],
           Kept(st, t)
    PROVE  KeptBase(st, t) /\ Unstarts(st, st')
<1>1. Eff_Applied(st, t, f, st')
    BY Does_Applied
<1>2. Unstarts(st, t) => Unstarts(st, st')
    BY <1>1, AppliedKeeps
<1> QED BY <1>2 DEF Kept

(* ... of an event that does not start the stream.                            *)
LEMMA EventStep ==
    ASSUME Inv, Alive, NEW t \in StreamRecord, NEW f \in Fault,
           f # "none" => st.faults < MaxFaults,
           st' = [t EXCEPT !.ok = TRUE, !.faults = IF f = "none" THEN @ ELSE @ + 1],
           t.faults = st.faults, Kept(st, t), Preserves(st, t),
           ModelOK(st) => SameModel(st, t) \/ st.stage2 = {},
           f = "none" => Runs(st, rmOp, t, rmOp'),
           RestOK', OwnerOK', Open' => Open /\ (t.state = "SSR" <=> card' = "down"),
           report' = report
    PROVE  Inv' /\ Unstarts(st, st') /\ Loads(st, st')
<1>1. st \in StreamRecord
    BY DEF Inv, CoreOK
<1>2. KeptBase(st, t) /\ Unstarts(st, st')
    BY ONLY <1>1, EventUnstarts, Kept(st, t), t \in StreamRecord, f \in Fault,
       f # "none" => st.faults < MaxFaults, t.faults = st.faults,
       st' = [t EXCEPT !.ok = TRUE, !.faults = IF f = "none" THEN @ ELSE @ + 1]
<1> QED BY <1>2, EventBase

(* ... of a call that does not start the stream.                              *)
LEMMA ClientStep ==
    ASSUME Inv, InCall, Return, NEW t \in StreamRecord, NEW f \in Fault,
           f # "none" => st.faults < MaxFaults,
           st' = [t EXCEPT !.ok = TRUE, !.faults = IF f = "none" THEN @ ELSE @ + 1],
           t.faults = st.faults, Kept(st, t), SameCard(st, t), Preserves(st, t),
           ModelOK(st) => SameModel(st, t) \/ st.stage2 = {},
           f = "none" => Runs(st, "none", t, "none")
    PROVE  Inv' /\ Unstarts(st, st') /\ Loads(st, st')
<1>1. st \in StreamRecord
    BY DEF Inv, CoreOK
<1>2. KeptBase(st, t) /\ Unstarts(st, st')
    BY ONLY <1>1, EventUnstarts, Kept(st, t), t \in StreamRecord, f \in Fault,
       f # "none" => st.faults < MaxFaults, t.faults = st.faults,
       st' = [t EXCEPT !.ok = TRUE, !.faults = IF f = "none" THEN @ ELSE @ + 1]
<1> QED BY <1>2, ClientBase

(* ... and a call that is not made through ProcessEvent's status.             *)
LEMMA CallStep ==
    ASSUME Inv, InCall, Return, st' \in StreamRecord,
           Kept(st, st'), SameModel(st, st'), SameCard(st, st'),
           st'.faults = st.faults, Preserves(st, st'), Runs(st, "none", st', "none")
    PROVE  Inv' /\ Unstarts(st, st') /\ Loads(st, st')
<1>1. Alive /\ client = "in" /\ Open
    BY DEF InCall, Open
<1>2. rmOp = "none" /\ CardOK /\ RestOK
    BY <1>1 DEF Inv, CoreOK, RestOK, OwnerOK
<1>3. RestOK' /\ OwnerOK' /\ report' = report /\ card' = card /\ rmOp' = "none"
    BY <1>2 DEF Return, RestOK, OwnerOK
<1>4. CardOK'
    BY <1>2, <1>3 DEF CardOK, SameCard
<1>5. Fewer
    BY <1>3 DEF Fewer, Pending, Kept, KeptBase
<1> QED BY <1>1, <1>2, <1>3, <1>4, <1>5, Carry DEF Kept, KeptBase

(* The client loads a sound model; the invariant is kept.                     *)
LEMMA Step_load ==
    ASSUME Inv, load
    PROVE  Inv' /\ Unstarts(st, st') /\ Loads(st, st')
<1>1. PICK n \in Stage2Choices, f \in Fault :
          /\ f # "none" => st.faults < MaxFaults
          /\ st' = [loadCall(st, n, f) EXCEPT !.ok = TRUE,
                 !.faults = IF f = "none" THEN @ ELSE @ + 1]
    BY DEF load, Apply, loadCall
<1>2. st \in StreamRecord /\ InCall /\ Return /\ st.currentState = "IDLE"
    BY DEF Inv, CoreOK, load, Loaded
<1>4. LET t == loadCall(st, n, f) IN
      /\ t \in StreamRecord /\ Kept(st, t) /\ SameCard(st, t)
      /\ t.faults = st.faults /\ Preserves(st, t)
      /\ f = "none" => Runs(st, "none", t, "none")
    BY <1>1, <1>2, Ev_load
<1>5. ModelOK(st) => st.stage2 = {}
    BY <1>2 DEF ModelOK
<1> QED BY <1>1, <1>2, <1>4, <1>5, ClientStep

(* The client sends a recognition configuration; the invariant is kept.       *)
LEMMA Step_recognitionConfig ==
    ASSUME Inv, recognitionConfig
    PROVE  Inv' /\ Unstarts(st, st') /\ Loads(st, st')
<1>1. PICK c \in {"plain", "capture"}, f \in Fault :
          /\ f # "none" => st.faults < MaxFaults
          /\ st' = [RECOGNITION_CONFIG(st, c, f) EXCEPT !.ok = TRUE,
                 !.faults = IF f = "none" THEN @ ELSE @ + 1]
    BY DEF recognitionConfig, Apply
<1>2. st \in StreamRecord /\ InCall /\ Return /\ st.currentState # "IDLE"
    BY DEF Inv, CoreOK, recognitionConfig, Loaded
<1>3. c \in Recs /\ c # "none"
    BY <1>1 DEF Recs
<1>4. LET t == RECOGNITION_CONFIG(st, c, f) IN
      /\ t \in StreamRecord /\ Kept(st, t) /\ SameModel(st, t) /\ SameCard(st, t)
      /\ t.faults = st.faults /\ Preserves(st, t)
      /\ f = "none" => Runs(st, "none", t, "none")
    BY <1>1, <1>2, <1>3, Ev_RECOGNITION_CONFIG
<1> QED BY <1>1, <1>2, <1>4, ClientStep

(* The client starts the stream (start_l); the invariant is kept.             *)
LEMMA Step_start ==
    ASSUME Inv, start
    PROVE  Inv' /\ Loads(st, st')
<1>1. PICK f \in Fault :
          /\ f # "none" => st.faults < MaxFaults
          /\ st' = [start_l(st, f) EXCEPT !.ok = TRUE,
                 !.faults = IF f = "none" THEN @ ELSE @ + 1]
    BY DEF start, Apply
<1>2. st \in StreamRecord /\ InCall /\ Return /\ st.currentState # "IDLE"
    BY DEF Inv, CoreOK, start, Loaded
<1>4. LET t == start_l(st, f) IN
      /\ t \in StreamRecord /\ KeptBase(st, t) /\ SameModel(st, t) /\ SameCard(st, t)
      /\ t.faults = st.faults /\ Preserves(st, t)
      /\ f = "none" => Runs(st, "none", t, "none")
    BY <1>1, <1>2, Ev_start_l
<1> QED BY <1>1, <1>2, <1>4, ClientBase

(* The client stops the stream; the invariant is kept.                        *)
LEMMA Step_stop ==
    ASSUME Inv, stop
    PROVE  Inv' /\ Unstarts(st, st') /\ Loads(st, st')
           /\ (st'.crash \/ st'.currentState # "STARTED")
<1>1. PICK f \in Fault :
          /\ f # "none" => st.faults < MaxFaults
          /\ st' = [stopCall(st, f) EXCEPT !.ok = TRUE,
                 !.faults = IF f = "none" THEN @ ELSE @ + 1]
    BY DEF stop, Apply
<1>2. st \in StreamRecord /\ InCall /\ Return /\ st.currentState # "IDLE"
    BY DEF Inv, CoreOK, stop, Loaded
<1>4. LET t == stopCall(st, f) IN
      /\ t \in StreamRecord /\ Kept(st, t) /\ SameModel(st, t) /\ SameCard(st, t)
      /\ t.faults = st.faults /\ Preserves(st, t)
      /\ (t.crash \/ t.currentState # "STARTED")
      /\ f = "none" => Runs(st, "none", t, "none")
    BY <1>1, <1>2, Ev_stopCall
<1>5. Eff_Applied(st, stopCall(st, f), f, st')
    BY ONLY <1>1, <1>2, <1>4, Does_Applied
<1>6. st'.crash \/ st'.currentState # "STARTED"
    BY <1>4, <1>5 DEF Eff_Applied, KeepsAllBut
<1> QED BY <1>1, <1>2, <1>4, <1>6, ClientStep

(* ssrDownHandler takes the stream to SSR with the card.                      *)
LEMMA Step_ssrDownHandler ==
    ASSUME Inv, ssrDownHandler
    PROVE  Inv' /\ Unstarts(st, st') /\ Loads(st, st')
<1>1. PICK f \in Fault :
          /\ f # "none" => st.faults < MaxFaults
          /\ st' = [SSR_OFFLINE(st, f) EXCEPT !.ok = TRUE,
                 !.faults = IF f = "none" THEN @ ELSE @ + 1]
    BY DEF ssrDownHandler, Apply
<1>2. /\ Alive /\ rmOp = "none" /\ rmOp' = "none" /\ report' = report /\ card' = "down"
      /\ client' = client /\ answer' = answer /\ conc' \in {conc, TRUE, FALSE}
      /\ owner' \in {"free", "rm"} /\ (rmOp' # "none" => owner' = "rm")
      /\ owner # "client"
    BY DEF ssrDownHandler, RmFree, RmKeeps, Inv, OwnerOK
<1>3. st \in StreamRecord /\ RestOK /\ OwnerOK /\ (Open => CardOK)
    BY <1>2 DEF Inv, CoreOK, RestOK
<1>4. LET t == SSR_OFFLINE(st, f) IN
      /\ t \in StreamRecord /\ Kept(st, t) /\ SameModel(st, t) /\ CardDown(st, t)
      /\ t.faults = st.faults /\ Preserves(st, t)
      /\ f = "none" => Runs(st, rmOp, t, rmOp')
    BY <1>2, <1>3, Ev_SSR_OFFLINE
<1>5. RestOK' /\ OwnerOK' /\ (Open' => Open)
    BY <1>2, <1>3 DEF RestOK, OwnerOK, Open
<1>6. Open => (SSR_OFFLINE(st, f).state = "SSR" <=> card' = "down")
    BY <1>2, <1>3, <1>4 DEF CardOK, CardDown
<1> QED BY <1>1, <1>2, <1>4, <1>5, <1>6, EventStep

(* ssrUpHandler takes the stream back to where it was.                        *)
LEMMA Step_ssrUpHandler ==
    ASSUME Inv, ssrUpHandler
    PROVE  Inv' /\ Unstarts(st, st') /\ Loads(st, st')
<1>1. PICK f \in Fault :
          /\ f # "none" => st.faults < MaxFaults
          /\ st' = [SSR_ONLINE(st, f) EXCEPT !.ok = TRUE,
                 !.faults = IF f = "none" THEN @ ELSE @ + 1]
    BY DEF ssrUpHandler, Apply
<1>2. /\ Alive /\ rmOp = "none" /\ rmOp' = "none" /\ report' = report /\ card' = "up"
      /\ client' = client /\ answer' = answer /\ conc' \in {conc, TRUE, FALSE}
      /\ owner' \in {"free", "rm"} /\ (rmOp' # "none" => owner' = "rm")
      /\ owner # "client"
    BY DEF ssrUpHandler, RmFree, RmKeeps, Inv, OwnerOK
<1>3. st \in StreamRecord /\ RestOK /\ OwnerOK /\ (Open => CardOK)
    BY <1>2 DEF Inv, CoreOK, RestOK
<1>4. LET t == SSR_ONLINE(st, f) IN
      /\ t \in StreamRecord /\ Kept(st, t) /\ SameModel(st, t) /\ CardUp(st, t)
      /\ t.faults = st.faults /\ Preserves(st, t)
      /\ f = "none" => Runs(st, rmOp, t, rmOp')
    BY <1>2, <1>3, Ev_SSR_ONLINE
<1>5. RestOK' /\ OwnerOK' /\ (Open' => Open)
    BY <1>2, <1>3 DEF RestOK, OwnerOK, Open
<1>6. Open => (SSR_ONLINE(st, f).state = "SSR" <=> card' = "down")
    BY <1>2, <1>3, <1>4 DEF CardOK, CardUp
<1> QED BY <1>1, <1>2, <1>4, <1>5, <1>6, EventStep

(* A concurrency begins and pauses the stream.                                *)
LEMMA Step_Pause ==
    ASSUME Inv, Pause
    PROVE  Inv' /\ Unstarts(st, st') /\ Loads(st, st')
<1>1. PICK f \in Fault :
          /\ f # "none" => st.faults < MaxFaults
          /\ st' = [Mark(FSTAGE_UNLOAD(PAUSE(st, FALSE), f), TRUE, "pause") EXCEPT
                      !.ok = TRUE, !.faults = IF f = "none" THEN @ ELSE @ + 1]
    BY DEF Pause, Apply
<1>2. /\ Alive /\ rmOp = "none" /\ rmOp' = "none" /\ report' = report /\ card' = card
      /\ client' = client /\ answer' = answer /\ conc' \in {conc, TRUE, FALSE}
      /\ owner' \in {"free", "rm"} /\ (rmOp' # "none" => owner' = "rm")
      /\ owner # "client"
    BY DEF Pause, RmFree, RmKeeps, Inv, OwnerOK
<1>3. st \in StreamRecord /\ RestOK /\ OwnerOK /\ (Open => CardOK)
    BY <1>2 DEF Inv, CoreOK, RestOK
<1>4. LET t == Mark(FSTAGE_UNLOAD(PAUSE(st, FALSE), f), TRUE, "pause") IN
      /\ t \in StreamRecord /\ Kept(st, t) /\ SameModel(st, t) /\ SameCard(st, t)
      /\ t.faults = st.faults /\ Preserves(st, t)
      /\ f = "none" => Runs(st, rmOp, t, rmOp')
    BY <1>2, <1>3, Ev_Pause
<1>5. RestOK' /\ OwnerOK' /\ (Open' => Open)
    BY <1>2, <1>3 DEF RestOK, OwnerOK, Open
<1>6. Open => (Mark(FSTAGE_UNLOAD(PAUSE(st, FALSE), f), TRUE, "pause").state = "SSR"
                  <=> card' = "down")
    BY <1>2, <1>3, <1>4 DEF CardOK, SameCard
<1> QED BY <1>1, <1>2, <1>4, <1>5, <1>6, EventStep

(* A concurrency ends and the stream resumes.                                 *)
LEMMA Step_Resume ==
    ASSUME Inv, Resume
    PROVE  Inv' /\ Unstarts(st, st') /\ Loads(st, st')
<1>1. PICK f \in Fault :
          /\ f # "none" => st.faults < MaxFaults
          /\ st' = [RESUME(FSTAGE_LOAD(st, f), FALSE, f) EXCEPT !.ok = TRUE,
                 !.faults = IF f = "none" THEN @ ELSE @ + 1]
    BY DEF Resume, Apply
<1>2. /\ Alive /\ rmOp = "none" /\ rmOp' = "none" /\ report' = report /\ card' = card
      /\ client' = client /\ answer' = answer /\ conc' \in {conc, TRUE, FALSE}
      /\ owner' \in {"free", "rm"} /\ (rmOp' # "none" => owner' = "rm")
      /\ owner # "client"
    BY DEF Resume, RmFree, RmKeeps, Inv, OwnerOK
<1>3. st \in StreamRecord /\ RestOK /\ OwnerOK /\ (Open => CardOK)
    BY <1>2 DEF Inv, CoreOK, RestOK
<1>4. LET t == RESUME(FSTAGE_LOAD(st, f), FALSE, f) IN
      /\ t \in StreamRecord /\ Kept(st, t) /\ SameModel(st, t) /\ SameCard(st, t)
      /\ t.faults = st.faults /\ Preserves(st, t)
      /\ f = "none" => Runs(st, rmOp, t, rmOp')
    BY <1>2, <1>3, Ev_Resume
<1>5. RestOK' /\ OwnerOK' /\ (Open' => Open)
    BY <1>2, <1>3 DEF RestOK, OwnerOK, Open
<1>6. Open => (RESUME(FSTAGE_LOAD(st, f), FALSE, f).state = "SSR" <=> card' = "down")
    BY <1>2, <1>3, <1>4 DEF CardOK, SameCard
<1> QED BY <1>1, <1>2, <1>4, <1>5, <1>6, EventStep

(* A device switch begins: DisconnectDevice, with the mutex kept.             *)
LEMMA Step_DisconnectDevice ==
    ASSUME Inv, DisconnectDevice
    PROVE  Inv' /\ Unstarts(st, st') /\ Loads(st, st')
<1>1. PICK f \in Fault :
          /\ f # "none" => st.faults < MaxFaults
          /\ st' = [DEVICE_DISCONNECTED(st, f) EXCEPT !.ok = TRUE,
                 !.faults = IF f = "none" THEN @ ELSE @ + 1]
    BY DEF DisconnectDevice, Apply
<1>2. /\ Alive /\ rmOp = "none" /\ rmOp' = "device" /\ report' = report /\ card' = card
      /\ client' = client /\ answer' = answer /\ conc' \in {conc, TRUE, FALSE}
      /\ owner' \in {"free", "rm"} /\ (rmOp' # "none" => owner' = "rm")
      /\ owner # "client"
    BY DEF DisconnectDevice, FirstHalf, RmFree, RmKeeps, Inv, OwnerOK
<1>3. st \in StreamRecord /\ RestOK /\ OwnerOK /\ (Open => CardOK)
    BY <1>2 DEF Inv, CoreOK, RestOK
<1>4. LET t == DEVICE_DISCONNECTED(st, f) IN
      /\ t \in StreamRecord /\ Kept(st, t) /\ SameModel(st, t) /\ SameCard(st, t)
      /\ t.faults = st.faults /\ Preserves(st, t)
      /\ f = "none" => Runs(st, rmOp, t, rmOp')
    BY <1>2, <1>3, Ev_DEVICE_DISCONNECTED
<1>5. RestOK' /\ OwnerOK' /\ (Open' => Open)
    BY <1>2, <1>3 DEF RestOK, OwnerOK, Open
<1>6. Open => (DEVICE_DISCONNECTED(st, f).state = "SSR" <=> card' = "down")
    BY <1>2, <1>3, <1>4 DEF CardOK, SameCard
<1> QED BY <1>1, <1>2, <1>4, <1>5, <1>6, EventStep

(* A device switch ends: ConnectDevice, and the mutex is released.            *)
LEMMA Step_ConnectDevice ==
    ASSUME Inv, ConnectDevice
    PROVE  Inv' /\ Unstarts(st, st') /\ Loads(st, st')
<1>1. PICK f \in Fault :
          /\ f # "none" => st.faults < MaxFaults
          /\ st' = [DEVICE_CONNECTED(st, f) EXCEPT !.ok = TRUE,
                 !.faults = IF f = "none" THEN @ ELSE @ + 1]
    BY DEF ConnectDevice, Apply
<1>2. /\ Alive /\ rmOp = "device" /\ rmOp' = "none" /\ report' = report /\ card' = card
      /\ client' = client /\ answer' = answer /\ conc' \in {conc, TRUE, FALSE}
      /\ owner' \in {"free", "rm"} /\ (rmOp' # "none" => owner' = "rm")
      /\ owner # "client"
    BY DEF ConnectDevice, SecondHalf, Completes, Inv, OwnerOK
<1>3. st \in StreamRecord /\ RestOK /\ OwnerOK /\ (Open => CardOK)
    BY <1>2 DEF Inv, CoreOK, RestOK
<1>4. LET t == DEVICE_CONNECTED(st, f) IN
      /\ t \in StreamRecord /\ Kept(st, t) /\ SameModel(st, t) /\ SameCard(st, t)
      /\ t.faults = st.faults /\ Preserves(st, t)
      /\ f = "none" => Runs(st, rmOp, t, rmOp')
    BY <1>2, <1>3, Ev_DEVICE_CONNECTED
<1>5. RestOK' /\ OwnerOK' /\ (Open' => Open)
    BY <1>2, <1>3 DEF RestOK, OwnerOK, Open
<1>6. Open => (DEVICE_CONNECTED(st, f).state = "SSR" <=> card' = "down")
    BY <1>2, <1>3, <1>4 DEF CardOK, SameCard
<1> QED BY <1>1, <1>2, <1>4, <1>5, <1>6, EventStep

(* A switch between LPI and NLPI begins: HandleConcurrentStream(false).       *)
LEMMA Step_HandleConcurrentStreamOff ==
    ASSUME Inv, HandleConcurrentStreamOff
    PROVE  Inv' /\ Unstarts(st, st') /\ Loads(st, st')
<1>1. PICK f \in Fault :
          /\ f # "none" => st.faults < MaxFaults
          /\ st' = [CONCURRENT_STREAM(st, FALSE, f) EXCEPT !.ok = TRUE,
                 !.faults = IF f = "none" THEN @ ELSE @ + 1]
    BY DEF HandleConcurrentStreamOff, Apply
<1>2. /\ Alive /\ rmOp = "none" /\ rmOp' = "concurrent" /\ report' = report /\ card' = card
      /\ client' = client /\ answer' = answer /\ conc' \in {conc, TRUE, FALSE}
      /\ owner' \in {"free", "rm"} /\ (rmOp' # "none" => owner' = "rm")
      /\ owner # "client"
    BY DEF HandleConcurrentStreamOff, FirstHalf, RmFree, RmKeeps, Inv, OwnerOK
<1>3. st \in StreamRecord /\ RestOK /\ OwnerOK /\ (Open => CardOK)
    BY <1>2 DEF Inv, CoreOK, RestOK
<1>4. LET t == CONCURRENT_STREAM(st, FALSE, f) IN
      /\ t \in StreamRecord /\ Kept(st, t) /\ SameModel(st, t) /\ SameCard(st, t)
      /\ t.faults = st.faults /\ Preserves(st, t)
      /\ f = "none" => Runs(st, rmOp, t, rmOp')
    BY <1>2, <1>3, Ev_CONCURRENT_off
<1>5. RestOK' /\ OwnerOK' /\ (Open' => Open)
    BY <1>2, <1>3 DEF RestOK, OwnerOK, Open
<1>6. Open => (CONCURRENT_STREAM(st, FALSE, f).state = "SSR" <=> card' = "down")
    BY <1>2, <1>3, <1>4 DEF CardOK, SameCard
<1> QED BY <1>1, <1>2, <1>4, <1>5, <1>6, EventStep

(* A switch between LPI and NLPI ends: HandleConcurrentStream(true).          *)
LEMMA Step_HandleConcurrentStreamOn ==
    ASSUME Inv, HandleConcurrentStreamOn
    PROVE  Inv' /\ Unstarts(st, st') /\ Loads(st, st')
<1>1. PICK f \in Fault :
          /\ f # "none" => st.faults < MaxFaults
          /\ st' = [CONCURRENT_STREAM(st, TRUE, f) EXCEPT !.ok = TRUE,
                 !.faults = IF f = "none" THEN @ ELSE @ + 1]
    BY DEF HandleConcurrentStreamOn, Apply
<1>2. /\ Alive /\ rmOp = "concurrent" /\ rmOp' = "none" /\ report' = report /\ card' = card
      /\ client' = client /\ answer' = answer /\ conc' \in {conc, TRUE, FALSE}
      /\ owner' \in {"free", "rm"} /\ (rmOp' # "none" => owner' = "rm")
      /\ owner # "client"
    BY DEF HandleConcurrentStreamOn, SecondHalf, Completes, Inv, OwnerOK
<1>3. st \in StreamRecord /\ RestOK /\ OwnerOK /\ (Open => CardOK)
    BY <1>2 DEF Inv, CoreOK, RestOK
<1>4. LET t == CONCURRENT_STREAM(st, TRUE, f) IN
      /\ t \in StreamRecord /\ Kept(st, t) /\ SameModel(st, t) /\ SameCard(st, t)
      /\ t.faults = st.faults /\ Preserves(st, t)
      /\ f = "none" => Runs(st, rmOp, t, rmOp')
    BY <1>2, <1>3, Ev_CONCURRENT_on
<1>5. RestOK' /\ OwnerOK' /\ (Open' => Open)
    BY <1>2, <1>3 DEF RestOK, OwnerOK, Open
<1>6. Open => (CONCURRENT_STREAM(st, TRUE, f).state = "SSR" <=> card' = "down")
    BY <1>2, <1>3, <1>4 DEF CardOK, SameCard
<1> QED BY <1>1, <1>2, <1>4, <1>5, <1>6, EventStep

(* ... and a switch that was deferred.                                         *)
LEMMA Step_HandleDeferredSwitchOn ==
    ASSUME Inv, HandleDeferredSwitchOn
    PROVE  Inv' /\ Unstarts(st, st') /\ Loads(st, st')
<1>1. PICK f \in Fault :
          /\ f # "none" => st.faults < MaxFaults
          /\ st' = [CONCURRENT_STREAM(st, TRUE, f) EXCEPT !.ok = TRUE,
                 !.faults = IF f = "none" THEN @ ELSE @ + 1]
    BY DEF HandleDeferredSwitchOn, Apply
<1>2. /\ Alive /\ rmOp = "concurrent" /\ rmOp' = "none" /\ report' = report /\ card' = card
      /\ client' = client /\ answer' = answer /\ conc' \in {conc, TRUE, FALSE}
      /\ owner' \in {"free", "rm"} /\ (rmOp' # "none" => owner' = "rm")
      /\ owner # "client"
    BY DEF HandleDeferredSwitchOn, Completes, Inv, OwnerOK
<1>3. st \in StreamRecord /\ RestOK /\ OwnerOK /\ (Open => CardOK)
    BY <1>2 DEF Inv, CoreOK, RestOK
<1>4. LET t == CONCURRENT_STREAM(st, TRUE, f) IN
      /\ t \in StreamRecord /\ Kept(st, t) /\ SameModel(st, t) /\ SameCard(st, t)
      /\ t.faults = st.faults /\ Preserves(st, t)
      /\ f = "none" => Runs(st, rmOp, t, rmOp')
    BY <1>2, <1>3, Ev_CONCURRENT_on
<1>5. RestOK' /\ OwnerOK' /\ (Open' => Open)
    BY <1>2, <1>3 DEF RestOK, OwnerOK, Open
<1>6. Open => (CONCURRENT_STREAM(st, TRUE, f).state = "SSR" <=> card' = "down")
    BY <1>2, <1>3, <1>4 DEF CardOK, SameCard
<1> QED BY <1>1, <1>2, <1>4, <1>5, <1>6, EventStep

(* A stream on the list is started after the switch.                          *)
LEMMA Step_StartDeferred ==
    ASSUME Inv, WordOK, StartDeferred
    PROVE  Inv' /\ Loads(st, st')
<1>1. PICK f \in Fault :
          /\ f # "none" => st.faults < MaxFaults
          /\ st' = [start_l(st, f) EXCEPT !.ok = TRUE,
                 !.faults = IF f = "none" THEN @ ELSE @ + 1]
    BY DEF StartDeferred, Apply
<1>2. /\ Alive /\ rmOp = "none" /\ rmOp' = "none" /\ report' = report /\ card' = card
      /\ client' = client /\ answer' = answer /\ conc' = conc
      /\ owner' = owner /\ owner # "client" /\ st.currentState # "IDLE"
    BY DEF StartDeferred, Inv, OwnerOK, WordOK, OnList
<1>3. st \in StreamRecord /\ RestOK /\ OwnerOK /\ (Open => CardOK)
    BY <1>2 DEF Inv, CoreOK
<1>4. LET t == start_l(st, f) IN
      /\ t \in StreamRecord /\ KeptBase(st, t) /\ SameModel(st, t) /\ SameCard(st, t)
      /\ t.faults = st.faults /\ Preserves(st, t)
      /\ f = "none" => Runs(st, rmOp, t, rmOp')
    BY <1>2, <1>3, Ev_start_l
<1>5. RestOK' /\ OwnerOK' /\ (Open' => Open)
    BY <1>2, <1>3 DEF RestOK, OwnerOK, Open
<1>6. Open => (start_l(st, f).state = "SSR" <=> card' = "down")
    BY <1>2, <1>3, <1>4 DEF CardOK, SameCard
<1> QED BY <1>1, <1>2, <1>4, <1>5, <1>6, EventBase

(* An internal pause, with the mutex kept until the resume.                   *)
LEMMA Step_InternalPause ==
    ASSUME Inv, InternalPause
    PROVE  Inv' /\ Unstarts(st, st') /\ Loads(st, st')
<1>1. PICK f \in Fault :
          /\ f # "none" => st.faults < MaxFaults
          /\ st' = [FSTAGE_UNLOAD(PAUSE(st, TRUE), f) EXCEPT !.ok = TRUE,
                 !.faults = IF f = "none" THEN @ ELSE @ + 1]
    BY DEF InternalPause, Apply
<1>2. /\ Alive /\ rmOp = "none" /\ rmOp' = "internal" /\ report' = report /\ card' = card
      /\ client' = client /\ answer' = answer /\ conc' \in {conc, TRUE, FALSE}
      /\ owner' \in {"free", "rm"} /\ (rmOp' # "none" => owner' = "rm")
      /\ owner # "client"
    BY DEF InternalPause, FirstHalf, RmFree, RmKeeps, Inv, OwnerOK
<1>3. st \in StreamRecord /\ RestOK /\ OwnerOK /\ (Open => CardOK)
    BY <1>2 DEF Inv, CoreOK, RestOK
<1>4. LET t == FSTAGE_UNLOAD(PAUSE(st, TRUE), f) IN
      /\ t \in StreamRecord /\ Kept(st, t) /\ SameModel(st, t) /\ SameCard(st, t)
      /\ t.faults = st.faults /\ Preserves(st, t)
      /\ f = "none" => Runs(st, rmOp, t, rmOp')
    BY <1>2, <1>3, Ev_InternalPause
<1>5. RestOK' /\ OwnerOK' /\ (Open' => Open)
    BY <1>2, <1>3 DEF RestOK, OwnerOK, Open
<1>6. Open => (FSTAGE_UNLOAD(PAUSE(st, TRUE), f).state = "SSR" <=> card' = "down")
    BY <1>2, <1>3, <1>4 DEF CardOK, SameCard
<1> QED BY <1>1, <1>2, <1>4, <1>5, <1>6, EventStep

(* The internal resume, and the mutex is released.                            *)
LEMMA Step_InternalResume ==
    ASSUME Inv, InternalResume
    PROVE  Inv' /\ Unstarts(st, st') /\ Loads(st, st')
<1>1. PICK f \in Fault :
          /\ f # "none" => st.faults < MaxFaults
          /\ st' = [RESUME(FSTAGE_LOAD(st, f), TRUE, f) EXCEPT !.ok = TRUE,
                 !.faults = IF f = "none" THEN @ ELSE @ + 1]
    BY DEF InternalResume, Apply
<1>2. /\ Alive /\ rmOp = "internal" /\ rmOp' = "none" /\ report' = report /\ card' = card
      /\ client' = client /\ answer' = answer /\ conc' \in {conc, TRUE, FALSE}
      /\ owner' \in {"free", "rm"} /\ (rmOp' # "none" => owner' = "rm")
      /\ owner # "client"
    BY DEF InternalResume, SecondHalf, Completes, Inv, OwnerOK
<1>3. st \in StreamRecord /\ RestOK /\ OwnerOK /\ (Open => CardOK)
    BY <1>2 DEF Inv, CoreOK, RestOK
<1>4. LET t == RESUME(FSTAGE_LOAD(st, f), TRUE, f) IN
      /\ t \in StreamRecord /\ Kept(st, t) /\ SameModel(st, t) /\ SameCard(st, t)
      /\ t.faults = st.faults /\ Preserves(st, t)
      /\ f = "none" => Runs(st, rmOp, t, rmOp')
    BY <1>2, <1>3, Ev_InternalResume
<1>5. RestOK' /\ OwnerOK' /\ (Open' => Open)
    BY <1>2, <1>3 DEF RestOK, OwnerOK, Open
<1>6. Open => (RESUME(FSTAGE_LOAD(st, f), TRUE, f).state = "SSR" <=> card' = "down")
    BY <1>2, <1>3, <1>4 DEF CardOK, SameCard
<1> QED BY <1>1, <1>2, <1>4, <1>5, <1>6, EventStep


-----------------------------------------------------------------------------
(* The client's calls that end at once, and the end of the stream.            *)

(* The client reads the data of a detection.                                  *)
LEMMA Step_read ==
    ASSUME Inv, read
    PROVE  Inv' /\ Unstarts(st, st') /\ Loads(st, st')
<1>1. /\ st \in StreamRecord /\ InCall /\ Return
      /\ st' = [CancelDelayedStop(st) EXCEPT !.sleepVote = TRUE]
      /\ st.state = "BUFFERING" /\ st.currentState = "STOPPED"
    BY DEF Inv, CoreOK, read, Notified
<1>2. /\ st' \in StreamRecord /\ Kept(st, st') /\ SameModel(st, st') /\ SameCard(st, st')
      /\ st'.faults = st.faults /\ Preserves(st, st') /\ Runs(st, "none", st', "none")
    BY <1>1, Ev_read
<1> QED BY <1>1, <1>2, CallStep

(* The client stops reading.                                                  *)
LEMMA Step_stopBuffering ==
    ASSUME Inv, stopBuffering
    PROVE  Inv' /\ Unstarts(st, st') /\ Loads(st, st')
<1>1. /\ st \in StreamRecord /\ InCall /\ Return
      /\ st' = Buffering_STOP_BUFFERING(st)
      /\ st.state = "BUFFERING" /\ st.currentState = "STOPPED"
    BY DEF Inv, CoreOK, stopBuffering, Notified
<1>2. /\ st' \in StreamRecord /\ Kept(st, st') /\ SameModel(st, st') /\ SameCard(st, st')
      /\ st'.faults = st.faults /\ Preserves(st, st') /\ Runs(st, "none", st', "none")
    BY <1>1, Ev_STOP_BUFFERING
<1> QED BY <1>1, <1>2, CallStep

(* The client takes mStreamMutex.                                             *)
LEMMA Step_ClientLock ==
    ASSUME Inv, ClientLock
    PROVE  Inv' /\ Unstarts(st, st') /\ Loads(st, st')
<1>1. /\ Alive /\ client = "idle" /\ owner = "free" /\ client' = "in"
      /\ owner' = "client"
      /\ st' = st /\ report' = report /\ answer' = answer /\ rmOp' = rmOp
      /\ card' = card /\ conc' = conc
    BY DEF ClientLock
<1>2. CoreOK /\ CountOK /\ OwnerOK /\ DeviceOK(st) /\ ModelOK(st) /\ EnginesOK /\ CardOK
    BY <1>1 DEF Inv, Open
<1>3. CoreOK' /\ CountOK' /\ OwnerOK'
    BY <1>1, <1>2 DEF CoreOK, RestOK, CountOK, OwnerOK
<1>4. DeviceOK(st)' /\ ModelOK(st)' /\ EnginesOK' /\ CardOK'
    BY <1>1, <1>2 DEF DeviceOK, ModelOK, EnginesOK, CardOK
<1>5. OneEngine => WantedOK
    BY <1>1 DEF Inv, Open
<1>6. OneEngine => WantedOK'
  <2>1. WantOK(st)' <=> WantOK(st)
      BY <1>1
  <2>2. WakeOK(st)' <=> WakeOK(st)
      BY <1>1
  <2>3. RunsOK(st, rmOp)' <=> RunsOK(st, rmOp)
      BY <1>1
  <2>4. AnsweredOK' <=> AnsweredOK
      BY <1>1 DEF AnsweredOK, Pending
  <2> QED BY <1>1, <1>5, <2>1, <2>2, <2>3, <2>4 DEF WantedOK
<1> QED BY <1>1, <1>3, <1>4, <1>6 DEF Inv, OneEngine, Unstarts, Loads

(* Once the client closes the stream only the counts and the mutex matter.    *)
LEMMA ShutStep ==
    ASSUME Inv, Alive, st' \in StreamRecord,
           client' \in {"join", "closed", "deleting"}, OwnerOK',
           owner' \in {"free", "client"},
           st'.wake <= st.wake, st'.detections = st.detections, Unstarts(st, st'),
           report' = report, answer' = answer, rmOp' = rmOp, card' = card, conc' = conc
    PROVE  Inv' /\ Unstarts(st, st')
<1>1. /\ st.wake \in Int /\ st.detections \in Int
      /\ st'.wake \in Int /\ st'.detections \in Int
    BY FieldTypes, StAssumption DEF Inv, CoreOK
<1>2. CoreOK' BY DEF Inv, CoreOK, RestOK
<1>3. CountOK' BY <1>1 DEF Inv, CountOK
<1>4. ~Open' BY DEF Open
<1> QED BY <1>2, <1>3, <1>4 DEF Inv

(* close unloads the model and joins the threads.                             *)
LEMMA Step_close ==
    ASSUME Inv, close
    PROVE  Inv' /\ Unstarts(st, st') /\ Loads(st, st')
<1>1. st \in StreamRecord /\ Alive /\ OwnerOK /\ client = "in"
    BY DEF Inv, CoreOK, close, InCall
<1>2. st' \in StreamRecord /\ Kept(st, st')
    BY <1>1, Ev_close DEF close
<1>3. OwnerOK' /\ owner' = "client" /\ client' = "join"
    BY <1>1 DEF close, OwnerOK
<1> QED BY <1>1, <1>2, <1>3, ShutStep DEF close, Kept, KeptBase

(* The threads of the second stage have ended.                                *)
LEMMA Step_closed ==
    ASSUME Inv, closed
    PROVE  Inv' /\ Unstarts(st, st')
<1>1. /\ st \in StreamRecord /\ Alive /\ OwnerOK
      /\ st' = Set_currentState(st, "IDLE")
    BY DEF Inv, CoreOK, closed, Set_currentState
<1>2. st' \in StreamRecord /\ Eff_Set_currentState(st, st', "IDLE")
    BY <1>1, Does_Set_currentState, Values
<1>3. st'.wake <= st.wake /\ st'.detections = st.detections /\ Unstarts(st, st')
    BY <1>1, <1>2, FieldTypes, StAssumption DEF Eff_Set_currentState, Unstarts
<1>4. OwnerOK' BY <1>1 DEF closed, OwnerOK
<1> QED BY <1>1, <1>2, <1>3, <1>4, ShutStep DEF closed

(* The destructor takes the mutex.                                            *)
LEMMA Step_delete ==
    ASSUME Inv, delete
    PROVE  Inv' /\ Unstarts(st, st')
<1>1. st \in StreamRecord /\ Alive /\ OwnerOK
    BY DEF Inv, CoreOK, delete
<1>2. st.wake <= st.wake
    BY <1>1, FieldTypes, StAssumption
<1>3. OwnerOK' BY <1>1 DEF delete, OwnerOK
<1> QED BY <1>1, <1>2, <1>3, ShutStep DEF delete, Unstarts

(* A new stream is a record of the stream.                                    *)
LEMMA NewStreamType ==
    ASSUME NEW disabled \in BOOLEAN
    PROVE  NewStream(disabled) \in StreamRecord
<1>1. /\ {} \in Stage2Choices /\ 0 \in 0..MaxDetections /\ 0 \in 0..MaxFaults
    BY StAssumption
<1>2. (IF disabled THEN {"pause"} ELSE {})
         \in SUBSET {"device", "wake", "restore", "pause", "config"}
    OBVIOUS
<1> QED BY <1>1, <1>2 DEF NewStream, StreamRecord

(* The stream is gone.                                                        *)
LEMMA Step_deleted ==
    ASSUME Inv, deleted
    PROVE  Inv' /\ Unstarts(st, st')
<1>1. CoreOK'
    BY NewStreamType DEF Inv, CoreOK, RestOK, deleted
<1>2. ~Alive' /\ Unstarts(st, st')
    BY DEF deleted, Alive, NewStream, Unstarts
<1> QED BY <1>1, <1>2 DEF Inv



-----------------------------------------------------------------------------
(* The thread of the delayed stop, and the threads that report.               *)

(* A record that differs in what no property speaks of.                       *)
LEMMA Silent ==
    ASSUME NEW s \in StreamRecord, NEW t, KeepsAll(s, t), NEW op
    PROVE  /\ Kept(s, t) /\ SameModel(s, t) /\ SameCard(s, t) /\ t.faults = s.faults
           /\ Preserves(s, t) /\ Runs(s, op, t, op)
<1>1. s.wake \in Int
    BY FieldTypes, StAssumption
<1>2. Kept(s, t) /\ SameModel(s, t) /\ SameCard(s, t)
    BY <1>1 DEF Kept, KeptBase, Unstarts, Loads, Told, SameModel, SameCard
<1>3. (DeviceOK(s) => DeviceOK(t)) /\ (ModelOK(s) => ModelOK(t))
    BY DEF DeviceOK, ModelOK
<1>4. (WantOK(s) => WantOK(t)) /\ (WakeOK(s) => WakeOK(t))
    BY DEF WantOK, WakeOK
<1>5. RunsOK(s, op) => RunsOK(t, op)
    BY DEF RunsOK
<1> QED BY <1>2, <1>3, <1>4, <1>5 DEF Preserves, PreservesBase, PreservesWant, Runs

(* A step of one of these threads keeps the invariant when the client and the *)
(* resource manager do not move.                                              *)
LEMMA ThreadStep ==
    ASSUME Inv, Alive, st' \in StreamRecord, RestOK', ~st'.crash => Fewer,
           client' = client, owner' = owner, rmOp' = rmOp, card' = card,
           Kept(st, st'), SameModel(st, st'), SameCard(st, st'), st'.faults = st.faults,
           Preserves(st, st'), Runs(st, rmOp, st', rmOp)
    PROVE  Inv' /\ Unstarts(st, st') /\ Loads(st, st')
<1>1. CASE st'.crash
  <2>1. CoreOK' BY DEF CoreOK, RestOK
  <2>2. ~Alive' BY <1>1 DEF Alive
  <2> QED BY <2>1, <2>2 DEF Inv, Kept, KeptBase
<1>2. CASE ~st'.crash
  <2>1. OwnerOK' BY DEF Inv, OwnerOK
  <2>2. Open' => Open /\ CardOK'
      BY DEF Inv, Open, CardOK, SameCard
  <2> QED BY <1>2, <2>1, <2>2, Carry DEF Kept, KeptBase
<1> QED BY <1>1, <1>2

(* What the timer thread does between two stops.                              *)
LEMMA TimerStep ==
    ASSUME Inv, Alive, NEW pc \in Timers, TimerTo(pc)
    PROVE  Inv' /\ Unstarts(st, st') /\ Loads(st, st')
<1>1. /\ st \in StreamRecord /\ RestOK /\ st' = Set_timer(st, pc)
      /\ owner' = owner /\ client' = client /\ report' = report /\ answer' = answer
      /\ rmOp' = rmOp /\ card' = card /\ conc' = conc
    BY DEF Inv, CoreOK, RestOK, TimerTo, Set_timer
<1>2. st' \in StreamRecord /\ Eff_Set_timer(st, st', pc)
    BY <1>1, Does_Set_timer
<1>3. KeepsAll(st, st')
    BY <1>2 DEF Eff_Set_timer
<1>4. /\ Kept(st, st') /\ SameModel(st, st') /\ SameCard(st, st') /\ st'.faults = st.faults
      /\ Preserves(st, st') /\ Runs(st, rmOp, st', rmOp)
    BY ONLY <1>1, <1>2, <1>3, Silent
<1>5. Fewer
    BY <1>1, <1>4 DEF Fewer, Pending, Kept, KeptBase
<1>6. RestOK'
    BY <1>1 DEF RestOK
<1> QED BY <1>1, <1>2, <1>4, <1>5, <1>6, ThreadStep

(* The delayed stop stops the stream unless it was cancelled.                 *)
LEMMA Step_InternalStopRecognition ==
    ASSUME Inv, InternalStopRecognition
    PROVE  Inv' /\ Unstarts(st, st') /\ Loads(st, st')
<1>1. /\ st \in StreamRecord /\ RestOK /\ Alive /\ OwnerOK /\ owner = "free"
      /\ owner' = owner /\ client' = client /\ report' = report /\ answer' = answer
      /\ rmOp' = rmOp /\ card' = card /\ conc' = conc
    BY DEF Inv, CoreOK, RestOK, InternalStopRecognition
<1>2. rmOp = "none"
    BY <1>1 DEF OwnerOK
<1>3. /\ st' \in StreamRecord
      /\ Kept(st, st') /\ SameModel(st, st') /\ SameCard(st, st') /\ st'.faults = st.faults
      /\ Preserves(st, st') /\ Runs(st, "none", st', "none")
  <2>1. CASE st.pending_stop = TRUE
    <3>1. st' = [STOP_RECOGNITION(st) EXCEPT !.timer = "back", !.ok = TRUE]
        BY <2>1 DEF InternalStopRecognition
    <3> QED BY <1>1, <2>1, <3>1, Ev_InternalStop
  <2>2. CASE ~st.pending_stop
    <3> DEFINE a == Set_timer(st, "back")
               b == Yes_ok(a)
    <3>1. a \in StreamRecord /\ Eff_Set_timer(st, a, "back")
        BY <1>1, Does_Set_timer, Values
    <3>2. b \in StreamRecord /\ Eff_Yes_ok(a, b)
        BY <3>1, Does_Yes_ok
    <3>3. st' = b
        BY <2>2 DEF InternalStopRecognition, Set_timer, Yes_ok
    <3> HIDE DEF a, b
    <3>4. KeepsAll(st, b)
        BY <3>1, <3>2 DEF Eff_Set_timer, Eff_Yes_ok
    <3> QED BY ONLY <1>1, <3>2, <3>3, <3>4, Silent
  <2>3. st.pending_stop \in BOOLEAN
      BY <1>1, FieldTypes
  <2> QED BY <2>1, <2>2, <2>3
<1>4. Fewer
    BY <1>1, <1>3 DEF Fewer, Pending, Kept, KeptBase
<1>5. RestOK'
    BY <1>1 DEF RestOK
<1> QED BY <1>1, <1>2, <1>3, <1>4, <1>5, ThreadStep

(* Every step of the thread of the delayed stop.                              *)
LEMMA Step_Timer ==
    ASSUME Inv, Timer
    PROVE  Inv' /\ Unstarts(st, st') /\ Loads(st, st')
<1>1. CASE TimerExpires
    BY <1>1, TimerStep, Values DEF TimerExpires
<1>2. CASE TimerWoken
  <2>1. PICK pc \in {"start", "due"} :
            pc = IF st.timer_stop_waiting THEN "start" ELSE "due"
      OBVIOUS
  <2>2. TimerTo(pc) /\ Alive
      BY <1>2, <2>1 DEF TimerWoken
  <2>3. pc \in Timers
      BY Values
  <2> QED BY <2>2, <2>3, TimerStep
<1>3. CASE InternalStopRecognition
    BY <1>3, Step_InternalStopRecognition
<1>4. CASE TimerBack
    BY <1>4, TimerStep, Values DEF TimerBack
<1> QED BY <1>1, <1>2, <1>3, <1>4 DEF Timer

(* "gmm" is not a second stage engine.                                        *)
LEMMA FirstStage == "gmm" \in Reporter /\ \A e \in Stage2 : e # "gmm" /\ e \in Reporter
BY StAssumption DEF Reporter

(* What a thread that moves on does to the others: nothing.                   *)
LEMMA Moves ==
    ASSUME Inv, NEW r \in Reporter, answer' \in [Reporter -> BOOLEAN],
           NEW pc \in {"wait", "work", "call", "unlocked", "callback", "end"},
           owner' = owner, Step(r, pc)
    PROVE  /\ RestOK' /\ client' = client /\ rmOp' = rmOp /\ card' = card
           /\ report'[r] = pc
           /\ \A e \in Reporter : e # r => report'[e] = report[e]
<1>1. report' = [report EXCEPT ![r] = pc] /\ RestOK
    BY DEF Step, Inv, CoreOK, RestOK
<1>2. report' \in [Reporter -> {"wait", "work", "call", "unlocked", "callback", "end"}]
    BY <1>1 DEF RestOK
<1>3. RestOK'
    BY <1>1, <1>2 DEF RestOK, Step
<1> QED BY <1>1, <1>3 DEF Step, RestOK

(* An engine thread that was at work is no longer, or waits.                  *)
LEMMA Ends ==
    ASSUME Inv, NEW r \in Reporter, NEW pc \in {"wait", "unlocked", "callback", "end"},
           \A e \in Reporter : e # r => report'[e] = report[e], report'[r] = pc,
           pc # "wait" => report[r] # "wait",
           pc = "wait" => r \notin st'.proc \/ report[r] = "call",
           st'.proc \subseteq st.proc
    PROVE  Fewer
<1>1. report'["gmm"] = "call" => report["gmm"] = "call"
    BY FirstStage
<1>2. ASSUME NEW e \in Stage2
      PROVE  /\ report'[e] # "wait" => report[e] # "wait"
             /\ Pending(e)' => Pending(e)
  <2>1. e \in Reporter BY FirstStage
  <2>2. CASE e = r BY <2>2 DEF Pending
  <2>3. CASE e # r BY <2>1, <2>3 DEF Pending
  <2> QED BY <2>2, <2>3
<1> QED BY <1>1, <1>2 DEF Fewer


(* The first stage detects.                                                   *)
LEMMA Step_Detects ==
    ASSUME Inv, Detects
    PROVE  Inv' /\ Unstarts(st, st') /\ Loads(st, st')
<1>1. /\ st \in StreamRecord /\ Alive /\ st' = Set_eng(st, "detected")
      /\ Step("gmm", "call") /\ owner' = owner /\ answer' = answer
      /\ st.detections < MaxDetections /\ answer \in [Reporter -> BOOLEAN]
    BY DEF Inv, CoreOK, RestOK, Detects, Set_eng
<1>2. st' \in StreamRecord /\ Eff_Set_eng(st, st', "detected")
    BY <1>1, Does_Set_eng, Values
<1>3. KeepsAll(st, st')
    BY <1>2 DEF Eff_Set_eng
<1>4. /\ Kept(st, st') /\ SameModel(st, st') /\ SameCard(st, st') /\ st'.faults = st.faults
      /\ Preserves(st, st') /\ Runs(st, rmOp, st', rmOp)
    BY ONLY <1>1, <1>2, <1>3, Silent
<1>5. /\ RestOK' /\ client' = client /\ rmOp' = rmOp /\ card' = card
      /\ \A e \in Reporter : e # "gmm" => report'[e] = report[e]
    BY <1>1, FirstStage, Moves
<1>6. Fewer
    BY <1>1, <1>4, <1>5, FirstStage DEF Fewer, Pending, Kept, KeptBase
<1> QED BY <1>1, <1>2, <1>4, <1>5, <1>6, ThreadStep

(* A record that is left alone.                                               *)
LEMMA Same ==
    ASSUME Inv, st' = st
    PROVE  /\ st \in StreamRecord
           /\ Kept(st, st') /\ SameModel(st, st') /\ SameCard(st, st')
           /\ st'.faults = st.faults /\ Preserves(st, st') /\ Runs(st, rmOp, st', rmOp)
<1>1. st \in StreamRecord
    BY DEF Inv, CoreOK
<1>2. KeepsAll(st, st')
    OBVIOUS
<1> QED BY ONLY <1>1, <1>2, Silent

(* A second stage engine starts to work on the data.                          *)
LEMMA Step_Processing ==
    ASSUME Inv, NEW e \in Stage2, Processing(e)
    PROVE  Inv' /\ Unstarts(st, st') /\ Loads(st, st')
<1>1. /\ Alive /\ st' = st /\ Step(e, "work") /\ owner' = owner /\ answer' = answer
      /\ report[e] = "wait" /\ e \in st.proc /\ answer \in [Reporter -> BOOLEAN]
      /\ e \in Reporter
    BY FirstStage DEF Processing, Inv, CoreOK, RestOK
<1>2. /\ RestOK' /\ client' = client /\ rmOp' = rmOp /\ card' = card
      /\ report'[e] = "work"
      /\ \A d \in Reporter : d # e => report'[d] = report[d]
    BY <1>1, Moves
<1>3. Fewer
  <2>1. report'["gmm"] = "call" => report["gmm"] = "call"
      BY <1>2, FirstStage
  <2>2. ASSUME NEW d \in Stage2
        PROVE  /\ report'[d] # "wait" => report[d] # "wait" \/ d \in st.proc
               /\ Pending(d)' => Pending(d)
    <3>1. CASE d = e BY <1>1, <1>2, <3>1 DEF Pending
    <3>2. CASE d # e BY <1>1, <1>2, <3>2, FirstStage DEF Pending
    <3> QED BY <3>1, <3>2
  <2> QED BY <2>1, <2>2 DEF Fewer
<1>4. /\ st \in StreamRecord
      /\ Kept(st, st') /\ SameModel(st, st') /\ SameCard(st, st')
      /\ st'.faults = st.faults /\ Preserves(st, st') /\ Runs(st, rmOp, st', rmOp)
    BY <1>1, Same
<1>5. st' \in StreamRecord
    BY <1>1, <1>4
<1> QED BY <1>1, <1>2, <1>3, <1>4, <1>5, ThreadStep

(* A second stage engine has its answer, or finds that nobody waits for it.   *)
LEMMA Step_Processed ==
    ASSUME Inv, NEW e \in Stage2, Processed(e)
    PROVE  Inv' /\ Unstarts(st, st') /\ Loads(st, st')
<1>1. /\ Alive /\ st' = st /\ owner' = owner
      /\ report[e] = "work" /\ answer \in [Reporter -> BOOLEAN]
      /\ e \in Reporter
    BY FirstStage DEF Processed, Inv, CoreOK, RestOK
<1>2. PICK pc \in {"wait", "call"} :
          /\ Step(e, pc) /\ answer' \in [Reporter -> BOOLEAN]
          /\ pc = "call" <=> e \in st.proc
    BY <1>1 DEF Processed
<1>3. /\ RestOK' /\ client' = client /\ rmOp' = rmOp /\ card' = card
      /\ report'[e] = pc
      /\ \A d \in Reporter : d # e => report'[d] = report[d]
    BY <1>1, <1>2, Moves
<1>4. Fewer
  <2>1. report'["gmm"] = "call" => report["gmm"] = "call"
      BY <1>3, FirstStage
  <2>2. ASSUME NEW d \in Stage2
        PROVE  /\ report'[d] # "wait" => report[d] # "wait" \/ d \in st.proc
               /\ Pending(d)' => Pending(d)
    <3>1. CASE d = e BY <1>1, <1>2, <1>3, <3>1 DEF Pending
    <3>2. CASE d # e BY <1>1, <1>3, <3>2, FirstStage DEF Pending
    <3> QED BY <3>1, <3>2
  <2> QED BY <2>1, <2>2 DEF Fewer
<1>5. /\ st \in StreamRecord
      /\ Kept(st, st') /\ SameModel(st, st') /\ SameCard(st, st')
      /\ st'.faults = st.faults /\ Preserves(st, st') /\ Runs(st, rmOp, st', rmOp)
    BY <1>1, Same
<1>6. st' \in StreamRecord
    BY <1>1, <1>5
<1> QED BY <1>1, <1>3, <1>4, <1>5, <1>6, ThreadStep

(* A thread that moves on and does to the stream what no property minds.      *)
LEMMA EndStep ==
    ASSUME Inv, Alive, NEW r \in Reporter,
           NEW pc \in {"wait", "unlocked", "callback", "end"}, Step(r, pc),
           answer' \in [Reporter -> BOOLEAN], owner' = owner,
           report[r] # "wait", pc = "wait" => Ended(st', r),
           st' \in StreamRecord, Kept(st, st'), SameModel(st, st'), SameCard(st, st'),
           st'.faults = st.faults, Preserves(st, st'), Runs(st, rmOp, st', rmOp)
    PROVE  Inv' /\ Unstarts(st, st') /\ Loads(st, st')
<1>1. /\ RestOK' /\ client' = client /\ rmOp' = rmOp /\ card' = card
      /\ report'[r] = pc
      /\ \A e \in Reporter : e # r => report'[e] = report[e]
    BY Moves
<1>2. ~st'.crash => Fewer
    BY <1>1, Ends DEF Ended, Kept, KeptBase
<1> QED BY <1>1, <1>2, ThreadStep

(* A report whose thread forgets its answer.                                  *)
LEMMA Forgotten ==
    ASSUME Inv, NEW r, Forget(r)
    PROVE  answer' \in [Reporter -> BOOLEAN]
BY DEF Inv, CoreOK, RestOK, Forget

(* try_lock fails.                                                            *)
LEMMA Step_GivesUp ==
    ASSUME Inv, NEW r \in Reporter, GivesUp(r)
    PROVE  Inv' /\ Unstarts(st, st') /\ Loads(st, st')
<1>1. /\ Alive /\ st' = st /\ owner' = owner /\ answer' \in [Reporter -> BOOLEAN]
      /\ report[r] # "wait" /\ Step(r, "unlocked")
    BY DEF GivesUp, Inv, CoreOK, RestOK
<1>2. /\ st \in StreamRecord
      /\ Kept(st, st') /\ SameModel(st, st') /\ SameCard(st, st')
      /\ st'.faults = st.faults /\ Preserves(st, st') /\ Runs(st, rmOp, st', rmOp)
    BY <1>1, Same
<1>3. st' \in StreamRecord
    BY <1>1, <1>2
<1> QED BY <1>1, <1>2, <1>3, EndStep

(* A thread that goes on without the mutex.                                   *)
LEMMA Step_WithoutLock ==
    ASSUME Inv, NEW r \in Reporter, WithoutLock(r)
    PROVE  Inv' /\ Unstarts(st, st') /\ Loads(st, st')
<1>1. /\ Alive /\ owner' = owner /\ answer' \in [Reporter -> BOOLEAN]
      /\ report[r] # "wait" /\ Step(r, "wait") /\ st \in StreamRecord
    BY Forgotten DEF WithoutLock, Inv, CoreOK
<1>2. CASE st.state # Expected(r)
  <2>1. st' = Back(st, r)
      BY <1>2 DEF WithoutLock
  <2>2. /\ st' \in StreamRecord
        /\ Kept(st, st') /\ SameModel(st, st') /\ SameCard(st, st')
        /\ st'.faults = st.faults /\ Ended(st', r)
        /\ Preserves(st, st') /\ Runs(st, rmOp, st', rmOp)
      BY <1>1, <2>1, Ev_Back
  <2> QED BY <1>1, <2>2, EndStep
<1>3. CASE st.state = Expected(r)
  <2>1. st' = Crash(st)
      BY <1>3 DEF WithoutLock
  <2>2. st' \in StreamRecord /\ Eff_Crash(st, st')
      BY <1>1, <2>1, Does_Crash
  <2>3. ~Alive' /\ Unstarts(st, st') /\ Loads(st, st')
      BY <2>2 DEF Eff_Crash, Alive, Unstarts, Loads
  <2>4. RestOK'
      BY <1>1, Moves
  <2>5. CoreOK'
      BY <2>2, <2>4 DEF CoreOK, RestOK
  <2> QED BY <2>3, <2>5 DEF Inv
<1> QED BY <1>2, <1>3

(* The callback returns.                                                      *)
LEMMA Step_CallbackReturns ==
    ASSUME Inv, NEW r \in Reporter, CallbackReturns(r)
    PROVE  Inv' /\ Unstarts(st, st') /\ Loads(st, st')
<1>1. /\ Alive /\ owner' = owner /\ answer' \in [Reporter -> BOOLEAN]
      /\ report[r] # "wait" /\ Step(r, "wait") /\ st \in StreamRecord
      /\ st' = Unlock(Back(AfterCallback(st, r), r))
    BY Forgotten DEF CallbackReturns, Inv, CoreOK
<1>2. /\ st' \in StreamRecord
      /\ Kept(st, st') /\ SameModel(st, st') /\ SameCard(st, st')
      /\ st'.faults = st.faults /\ Ended(st', r)
      /\ Preserves(st, st') /\ Runs(st, rmOp, st', rmOp)
    BY <1>1, Ev_CallbackReturns
<1> QED BY <1>1, <1>2, EndStep

(* The callback returns and does not get the mutex.                           *)
LEMMA Step_CallbackGivesUp ==
    ASSUME Inv, NEW r \in Reporter, CallbackGivesUp(r)
    PROVE  Inv' /\ Unstarts(st, st') /\ Loads(st, st')
<1>1. /\ Alive /\ owner' = owner /\ answer' \in [Reporter -> BOOLEAN]
      /\ report[r] # "wait" /\ Step(r, "end") /\ st \in StreamRecord
      /\ st' = [AfterCallback(st, r) EXCEPT !.mutex_unlocked_after_cb = TRUE]
    BY DEF CallbackGivesUp, Inv, CoreOK, RestOK
<1>2. /\ st' \in StreamRecord
      /\ Kept(st, st') /\ SameModel(st, st') /\ SameCard(st, st')
      /\ st'.faults = st.faults
      /\ Preserves(st, st') /\ Runs(st, rmOp, st', rmOp)
    BY <1>1, Ev_CallbackGivesUp
<1> QED BY <1>1, <1>2, EndStep

(* A thread without the mutex does not unlock it.                             *)
LEMMA Step_NoUnlock ==
    ASSUME Inv, NEW r \in Reporter, NoUnlock(r)
    PROVE  Inv' /\ Unstarts(st, st') /\ Loads(st, st')
<1>1. /\ Alive /\ owner' = owner /\ answer' \in [Reporter -> BOOLEAN]
      /\ report[r] # "wait" /\ Step(r, "wait") /\ st \in StreamRecord
      /\ st' = IF st.mutex_unlocked_after_cb
               THEN [Back(st, r) EXCEPT !.mutex_unlocked_after_cb = FALSE]
               ELSE Crash(st)
    BY Forgotten DEF NoUnlock, Inv, CoreOK
<1>2. /\ st' \in StreamRecord
      /\ Kept(st, st') /\ SameModel(st, st') /\ SameCard(st, st')
      /\ st'.faults = st.faults /\ Ended(st', r)
      /\ Preserves(st, st') /\ Runs(st, rmOp, st', rmOp)
    BY <1>1, Ev_NoUnlock
<1> QED BY <1>1, <1>2, EndStep

(* A detection of the first stage is handled.                                 *)
LEMMA Step_gmm ==
    ASSUME Inv, Alive, owner = "free", owner' = owner, report["gmm"] = "call",
           st.state = "ACTIVE", NEW pc \in {"wait", "callback"}, Step("gmm", pc),
           answer' \in [Reporter -> BOOLEAN],
           NEW f \in Fault, f # "none" => st.faults < MaxFaults,
           st' = [Handled(st, "gmm", f) EXCEPT
                    !.ok = TRUE, !.faults = IF f = "none" THEN @ ELSE @ + 1]
    PROVE  Inv' /\ Unstarts(st, st') /\ Loads(st, st')
<1> DEFINE t == Handled(st, "gmm", f)
<1>1. /\ st \in StreamRecord /\ CountOK /\ OwnerOK
      /\ rmOp = "none" /\ st.wake <= st.detections /\ st.detections < MaxDetections
    BY DEF Inv, CoreOK, CountOK, OwnerOK
<1>2. /\ t \in StreamRecord /\ Noticed(st, t) /\ Preserves(st, t)
      /\ f = "none" => Runs(st, "none", t, "none")
    BY <1>1, Ev_gmm
<1>h. /\ st' = [t EXCEPT !.ok = TRUE, !.faults = IF f = "none" THEN @ ELSE @ + 1]
      /\ f # "none" => st.faults < MaxFaults
    OBVIOUS
<1> HIDE DEF t
<1>3. t.faults = st.faults
    BY <1>2 DEF Noticed
<1>4. st' \in StreamRecord /\ Eff_Applied(st, t, f, st')
    BY ONLY <1>1, <1>2, <1>3, <1>h, Does_Applied
<1>5. /\ Preserves(st, st')
      /\ f = "none" => Runs(st, "none", st', "none")
    BY <1>2, <1>4, AppliedKeeps
<1>6. /\ RestOK' /\ client' = client /\ rmOp' = rmOp /\ card' = card
      /\ report'["gmm"] = pc
      /\ \A e \in Reporter : e # "gmm" => report'[e] = report[e]
    BY FirstStage, Moves
<1>7. /\ st'.detections = st.detections + 1 /\ st'.wake = st.wake + 1
      /\ "restore" \in st.past => "restore" \in st'.past
      /\ "pause" \in st.past => "pause" \in st'.past
      /\ st'.stage2 = st.stage2 /\ st'.proc \subseteq st.stage2 \cup st.proc
      /\ st'.state # "SSR"
      /\ WantOK(st) /\ Told(st') => st.stage2 = {} \/ "restore" \in st.past
      /\ st'.faults = 0 => f = "none" /\ st.faults = 0
      /\ Unstarts(st, st') /\ Loads(st, st')
    BY <1>2, <1>4 DEF Noticed, Eff_Applied, KeepsAllBut, Told, Unstarts, Loads
<1>8. CoreOK' /\ OwnerOK' /\ CountOK'
  <2>1. st.wake \in Int /\ st.detections \in Int
      BY <1>1, FieldTypes, StAssumption
  <2> QED BY <1>1, <1>4, <1>6, <1>7, <2>1 DEF CoreOK, RestOK, OwnerOK, CountOK
<1>9. SUFFICES ASSUME Alive', Open'
               PROVE  /\ DeviceOK(st)' /\ ModelOK(st)' /\ EnginesOK' /\ CardOK'
                      /\ OneEngine => WantedOK'
    BY <1>7, <1>8 DEF Inv, OneEngine
<1>10. /\ DeviceOK(st) /\ ModelOK(st) /\ EnginesOK /\ CardOK
       /\ OneEngine => WantedOK
    BY <1>6, <1>9 DEF Inv, Open
<1>11. ~st'.crash
    BY <1>9 DEF Alive
<1>12. DeviceOK(st)' /\ ModelOK(st)'
    BY <1>5, <1>10, <1>11 DEF Preserves, PreservesBase
<1>13. EnginesOK' /\ CardOK'
    BY <1>6, <1>7, <1>10, FirstStage DEF EnginesOK, CardOK, RestOK
<1>14. ASSUME OneEngine
       PROVE  WantedOK'
  <2>1. WantOK(st)' /\ WakeOK(st)'
      BY <1>5, <1>10, <1>11, <1>14 DEF WantedOK, Preserves, PreservesWant
  <2>2. AnsweredOK'
      BY <1>6, <1>7, <1>10, <1>14, FirstStage
         DEF WantedOK, AnsweredOK, EnginesOK, Pending
  <2>3. st'.faults = 0 /\ Calm(st)' => RunsOK(st, rmOp)'
      BY <1>1, <1>5, <1>6, <1>7, <1>10, <1>11, <1>14 DEF WantedOK, Runs, Calm
  <2> QED BY <2>1, <2>2, <2>3 DEF WantedOK
<1> QED BY <1>12, <1>13, <1>14

(* An answer of the second stage is handled.                                  *)
LEMMA Step_answer ==
    ASSUME Inv, Alive, owner = "free", owner' = owner, NEW e \in Stage2,
           report[e] = "call", st.state = "BUFFERING",
           NEW pc \in {"wait", "callback"}, Step(e, pc), Notifies(st, e) => pc = "callback",
           answer' \in [Reporter -> BOOLEAN],
           NEW f \in Fault, f # "none" => st.faults < MaxFaults,
           st' = [Handled(st, e, f) EXCEPT
                    !.ok = TRUE, !.faults = IF f = "none" THEN @ ELSE @ + 1]
    PROVE  Inv' /\ Unstarts(st, st') /\ Loads(st, st')
<1> DEFINE t == Handled(st, e, f)
           Untold == "restore" \in st.past \/ ~Told(st)
<1>1. st \in StreamRecord /\ CountOK /\ OwnerOK /\ rmOp = "none"
    BY DEF Inv, CoreOK, CountOK, OwnerOK
<1>2. /\ t \in StreamRecord /\ Replied(st, t, e) /\ PreservesBase(st, t)
      /\ Untold => PreservesWant(st, t)
      /\ Untold /\ f = "none" => Runs(st, "none", t, "none")
  <2>1. e # "gmm" BY FirstStage
  <2>2. CASE answer[e] BY <1>1, <2>1, <2>2, Ev_accept
  <2>3. CASE ~answer[e] BY <1>1, <2>1, <2>3, Ev_reject
  <2> QED BY <2>2, <2>3
<1>h. /\ st' = [t EXCEPT !.ok = TRUE, !.faults = IF f = "none" THEN @ ELSE @ + 1]
      /\ f # "none" => st.faults < MaxFaults
    OBVIOUS
<1> HIDE DEF t, Untold
<1>3. t.faults = st.faults
    BY <1>2 DEF Replied
<1>4. st' \in StreamRecord /\ Eff_Applied(st, t, f, st')
    BY ONLY <1>1, <1>2, <1>3, <1>h, Does_Applied
<1>5. /\ PreservesBase(st, st') /\ (Untold => PreservesWant(st, st'))
      /\ Untold /\ f = "none" => Runs(st, "none", st', "none")
    BY <1>2, <1>4, AppliedKeeps
<1>6. /\ RestOK' /\ client' = client /\ rmOp' = rmOp /\ card' = card
      /\ report'[e] = pc
      /\ \A d \in Reporter : d # e => report'[d] = report[d]
    BY FirstStage, Moves
<1>7. /\ st'.detections = st.detections /\ st'.wake <= st.wake
      /\ "restore" \in st.past => "restore" \in st'.past
      /\ "pause" \in st.past => "pause" \in st'.past
      /\ st'.stage2 = st.stage2 /\ st'.proc \subseteq st.proc /\ st'.state # "SSR"
      /\ Told(st') => Told(st) \/ Notifies(st, e)
      /\ st'.faults = 0 => f = "none" /\ st.faults = 0
      /\ Unstarts(st, st') /\ Loads(st, st')
    BY <1>2, <1>4 DEF Replied, Eff_Applied, KeepsAllBut, Told, Unstarts, Loads
<1>8. CoreOK' /\ OwnerOK' /\ CountOK'
  <2>1. /\ st.wake \in Int /\ st.detections \in Int
        /\ st'.wake \in Int /\ st'.detections \in Int
      BY ONLY <1>1, <1>4, FieldTypes, StAssumption
  <2> QED BY <1>1, <1>4, <1>6, <1>7, <2>1, FirstStage DEF CoreOK, RestOK, OwnerOK, CountOK
<1>9. SUFFICES ASSUME Alive', Open'
               PROVE  /\ DeviceOK(st)' /\ ModelOK(st)' /\ EnginesOK' /\ CardOK'
                      /\ OneEngine => WantedOK'
    BY <1>7, <1>8 DEF Inv, OneEngine
<1>10. /\ DeviceOK(st) /\ ModelOK(st) /\ EnginesOK /\ CardOK
       /\ OneEngine => WantedOK
    BY <1>6, <1>9 DEF Inv, Open
<1>11. ~st'.crash
    BY <1>9 DEF Alive
<1>12. DeviceOK(st)' /\ ModelOK(st)'
    BY <1>5, <1>10, <1>11 DEF PreservesBase
<1>13. EnginesOK' /\ CardOK'
    BY <1>6, <1>7, <1>10, FirstStage DEF EnginesOK, CardOK, RestOK
<1>14. ASSUME OneEngine
       PROVE  WantedOK'
  <2>1. Untold
      BY <1>10, <1>14 DEF Untold, WantedOK, AnsweredOK, Pending
  <2>2. WantOK(st)' /\ WakeOK(st)'
      BY <1>5, <1>10, <1>11, <1>14, <2>1 DEF WantedOK, PreservesWant
  <2>3. AnsweredOK'
    <3>1. SUFFICES ASSUME "restore" \notin st'.past, Told(st'), NEW d \in Stage2
                   PROVE  ~Pending(d)'
        BY DEF AnsweredOK
    <3>2. report'[e] = "callback"
        BY <1>6, <1>7, <2>1, <3>1 DEF Untold
    <3>3. CASE d = e
        BY <3>2, <3>3 DEF Pending
    <3>4. CASE d # e
      <4>1. st.stage2 \in Stage2Choices
          BY <1>1, FieldTypes
      <4>2. e \in st.stage2
          BY <1>10 DEF EnginesOK
      <4>3. d \notin st.stage2
          BY <1>14, <3>4, <4>1, <4>2 DEF OneEngine
      <4>4. report[d] = "wait" /\ d \notin st.proc
          BY <1>10, <4>3 DEF EnginesOK
      <4> QED BY <1>6, <1>7, <3>4, <4>4, FirstStage DEF Pending
    <3> QED BY <3>3, <3>4
  <2>4. st'.faults = 0 /\ Calm(st)' => RunsOK(st, rmOp)'
      BY <1>1, <1>5, <1>6, <1>7, <1>10, <1>11, <1>14, <2>1 DEF WantedOK, Runs, Calm
  <2> QED BY <2>2, <2>3, <2>4 DEF WantedOK
<1> QED BY <1>12, <1>13, <1>14

(* SetEngineDetectionState with the mutex.                                    *)
LEMMA Step_SetEngineDetectionState ==
    ASSUME Inv, NEW r \in Reporter, SetEngineDetectionState(r)
    PROVE  Inv' /\ Unstarts(st, st') /\ Loads(st, st')
<1>1. /\ Alive /\ owner = "free" /\ owner' = owner /\ report[r] = "call"
      /\ st \in StreamRecord /\ answer \in [Reporter -> BOOLEAN]
    BY DEF SetEngineDetectionState, Inv, CoreOK, RestOK
<1>2. CASE st.state # Expected(r)
  <2>1. /\ st' = Back(st, r) /\ Step(r, "wait") /\ answer' \in [Reporter -> BOOLEAN]
      BY <1>2, Forgotten DEF SetEngineDetectionState
  <2>2. /\ st' \in StreamRecord
        /\ Kept(st, st') /\ SameModel(st, st') /\ SameCard(st, st')
        /\ st'.faults = st.faults /\ Ended(st', r)
        /\ Preserves(st, st') /\ Runs(st, rmOp, st', rmOp)
      BY <1>1, <2>1, Ev_Back
  <2> QED BY <1>1, <2>1, <2>2, EndStep
<1>3. CASE st.state = Expected(r)
  <2>1. PICK f \in Fault :
            /\ f # "none" => st.faults < MaxFaults
            /\ st' = [Handled(st, r, f) EXCEPT
                        !.ok = TRUE, !.faults = IF f = "none" THEN @ ELSE @ + 1]
      BY <1>3 DEF SetEngineDetectionState, Apply
  <2>2. PICK pc \in {"wait", "callback"} :
            /\ Step(r, pc) /\ answer' \in [Reporter -> BOOLEAN]
            /\ Notifies(st, r) => pc = "callback"
      BY <1>1, <1>3, Forgotten DEF SetEngineDetectionState
  <2>3. CASE r = "gmm"
      BY <1>1, <1>3, <2>1, <2>2, <2>3, Step_gmm DEF Expected
  <2>4. CASE r # "gmm"
    <3>1. r \in Stage2 /\ st.state = "BUFFERING"
        BY <1>3, <2>4 DEF Reporter, Expected
    <3> QED BY <1>1, <2>1, <2>2, <3>1, Step_answer
  <2> QED BY <2>3, <2>4
<1> QED BY <1>2, <1>3


-----------------------------------------------------------------------------
(* The theorems.                                                              *)

(* The constructor establishes the invariant.                                 *)
LEMMA Begins ==
    ASSUME Init
    PROVE  Inv
<1>0. conc = ("pause" \in RmOps) \/ conc = FALSE
    BY DEF Init
<1>1. conc \in BOOLEAN /\ st = NewStream(conc)
  <2>1. ("pause" \in RmOps) \in BOOLEAN
      OBVIOUS
  <2>2. conc \in BOOLEAN
      BY <1>0, <2>1, Zenon
  <2> QED BY <2>2 DEF Init
<1>2. st \in StreamRecord
    BY <1>1, NewStreamType
<1>3. /\ owner = "free" /\ client = "idle" /\ rmOp = "none" /\ card = "up"
      /\ \A r \in Reporter : report[r] = "wait"
    BY DEF Init
<1>4. CoreOK
    BY <1>1, <1>2 DEF Init, CoreOK, RestOK
<1>5. /\ st.state = "IDLE" /\ st.currentState = "IDLE" /\ st.state_for_restore = "NONE"
      /\ st.wake = 0 /\ st.detections = 0 /\ ~st.started /\ ~st.registered
      /\ st.stage2 = {} /\ st.gsl_engine_model = "none" /\ ~st.sm_config
      /\ st.proc = {} /\ ~st.sleepVote /\ ~st.pending_stop
      /\ "pause" \notin st.past => ~st.paused
    BY <1>1 DEF NewStream
<1>6. CountOK /\ OwnerOK /\ CardOK
    BY <1>3, <1>5, FirstStage DEF CountOK, OwnerOK, CardOK
<1>7. EnginesOK /\ AnsweredOK
    BY <1>3, <1>5, FirstStage DEF EnginesOK, AnsweredOK, Told
<1>8. DeviceOK(st) /\ ModelOK(st) /\ WantOK(st) /\ WakeOK(st)
    BY <1>5 DEF DeviceOK, ModelOK, WantOK, WakeOK
<1>9. Calm(st) => RunsOK(st, rmOp)
    BY <1>3, <1>5 DEF Calm, RunsOK, Running
<1> QED BY <1>4, <1>6, <1>7, <1>8, <1>9 DEF Inv, WantedOK

(* What is not in the list of deferred streams nor in the history is as it    *)
(* was, and so is the invariant.                                              *)
LEMMA SameInv ==
    ASSUME Inv, st' = st, owner' = owner, client' = client, report' = report,
           answer' = answer, rmOp' = rmOp, card' = card, conc' = conc
    PROVE  Inv'
<1>2. CoreOK' /\ (Alive' <=> Alive) /\ (Open' <=> Open)
    BY DEF Inv, CoreOK, RestOK, Alive, Open
<1>3. /\ CountOK' <=> CountOK
      /\ OwnerOK' <=> OwnerOK
      /\ EnginesOK' <=> EnginesOK
      /\ CardOK' <=> CardOK
      /\ AnsweredOK' <=> AnsweredOK
    BY DEF CountOK, OwnerOK, EnginesOK, CardOK, AnsweredOK, Pending
<1>4. WantedOK' <=> WantedOK
    BY <1>3 DEF WantedOK
<1> QED BY <1>2, <1>3, <1>4 DEF Inv, OneEngine

(* Every step of a reporting thread keeps the invariant.                      *)
LEMMA Step_Engine ==
    ASSUME Inv, NEW r \in Reporter, Engine(r)
    PROVE  Inv' /\ Unstarts(st, st') /\ Loads(st, st')
BY Step_Processing, Step_Processed, Step_SetEngineDetectionState, Step_GivesUp,
   Step_WithoutLock, Step_CallbackReturns, Step_CallbackGivesUp, Step_NoUnlock
   DEF Engine

(* A step that says nothing, for a stream that is on the list or is not, does *)
(* not start the stream either.                                               *)
LEMMA SaysNothing ==
    ASSUME WordOK, Alive, Unstarts(st, st'), Loads(st, st'), Open => Open',
           deferred' = deferred, word' = word
    PROVE  WordOK'
BY DEF WordOK, Lpi, OnList, Alive, Unstarts, Loads

(* Every step of the client that has the mutex keeps the invariant.           *)
LEMMA Step_Client ==
    ASSUME Inv, WordOK, Client
    PROVE  Inv' /\ WordOK'
<1>1. CASE load \/ recognitionConfig \/ read \/ stopBuffering
  <2>1. Inv' /\ Unstarts(st, st') /\ Loads(st, st')
      BY <1>1, Step_load, Step_recognitionConfig, Step_read, Step_stopBuffering
  <2>2. deferred' = deferred /\ word' = word /\ Open' /\ Alive
      BY <1>1 DEF load, recognitionConfig, read, stopBuffering, InCall, Return, Open
  <2> QED BY <2>1, <2>2, SaysNothing
<1>2. CASE start
  <2>1. Inv' /\ Loads(st, st')
      BY <1>2, Step_start
  <2>2. deferred' = deferred /\ word' = "start" /\ Open'
      BY <1>2 DEF start, Return, Open
  <2> QED BY <2>1, <2>2 DEF WordOK, Lpi, OnList, Loads
<1>3. CASE stop
  <2>1. Inv' /\ Unstarts(st, st') /\ Loads(st, st')
      BY <1>3, Step_stop
  <2>2. Lpi /\ deferred' = deferred /\ word' = "stop" /\ Open'
      BY <1>3 DEF stop, Return, Open
  <2>3. st'.crash \/ st'.currentState # "STARTED"
      BY <1>3, Step_stop
  <2> QED BY <2>1, <2>2, <2>3 DEF WordOK, Lpi, OnList, Loads
<1>4. CASE close
  <2>1. Inv' /\ Unstarts(st, st') /\ Loads(st, st')
      BY <1>4, Step_close
  <2>2. ~OnList /\ deferred' = deferred /\ word' = word /\ Alive
      BY <1>4 DEF close, InCall
  <2> QED BY <2>1, <2>2 DEF WordOK, Unstarts, Alive, Lpi, OnList
<1> QED BY <1>1, <1>2, <1>3, <1>4 DEF Client

(* A start that is deferred, and the stop of an NLPI stream.                  *)
LEMMA Step_Deferral ==
    ASSUME Inv, WordOK, deferStart \/ stopUndeferred
    PROVE  Inv' /\ WordOK'
<1>1. /\ st' = st /\ owner' = owner /\ client' = client /\ report' = report
      /\ answer' = answer /\ rmOp' = rmOp /\ card' = card /\ conc' = conc
    BY DEF deferStart, stopUndeferred, StopsFrom, UpdateDeferred
<1>2. Inv'
    BY <1>1, SameInv
<1>3. CASE deferStart
    BY <1>1, <1>2, <1>3 DEF WordOK, Lpi, OnList, deferStart, UpdateDeferred, Unlocked, Loaded, Open
<1>4. CASE stopUndeferred
    BY <1>1, <1>2, <1>4 DEF WordOK, Lpi, OnList, stopUndeferred, StopsFrom, UpdateDeferred
<1> QED BY <1>2, <1>3, <1>4

(* Every step of the resource manager keeps the invariant.                    *)
LEMMA Step_ResourceManager ==
    ASSUME Inv, WordOK, ResourceManager
    PROVE  Inv' /\ WordOK'
<1>1. CASE \/ ssrDownHandler \/ ssrUpHandler \/ Pause \/ Resume
           \/ DisconnectDevice \/ HandleConcurrentStreamOff \/ InternalPause
           \/ ConnectDevice \/ HandleConcurrentStreamOn \/ InternalResume
  <2>1. Inv' /\ Unstarts(st, st') /\ Loads(st, st')
      BY <1>1, Step_ssrDownHandler, Step_ssrUpHandler, Step_Pause, Step_Resume,
         Step_DisconnectDevice, Step_ConnectDevice, Step_HandleConcurrentStreamOff,
         Step_HandleConcurrentStreamOn, Step_InternalPause, Step_InternalResume
  <2>2. deferred' = deferred /\ word' = word /\ client' = client /\ Alive
      BY <1>1 DEF ssrDownHandler, ssrUpHandler, Pause, Resume, DisconnectDevice,
         HandleConcurrentStreamOff, InternalPause, ConnectDevice,
         HandleConcurrentStreamOn, InternalResume, FirstHalf, SecondHalf, Completes,
         RmKeeps, RmFree
  <2> QED BY <2>1, <2>2, SaysNothing DEF Open
<1>2. CASE HandleDeferredSwitchOn
  <2>1. Inv' /\ Unstarts(st, st') /\ Loads(st, st')
      BY <1>2, Step_HandleDeferredSwitchOn
  <2>2. /\ deferred = "waiting" /\ deferred' = "due" /\ word' = word
        /\ client' = client /\ Alive
      BY <1>2 DEF HandleDeferredSwitchOn, Completes
  <2> QED BY <2>1, <2>2 DEF WordOK, Lpi, OnList, Unstarts, Loads, Open, Alive
<1>3. CASE HandleDeferredSwitch
  <2>1. /\ st' = st /\ owner' = owner /\ client' = client /\ report' = report
        /\ answer' = answer /\ rmOp' = rmOp /\ card' = card /\ conc' = conc
        /\ deferred = "waiting" /\ deferred' = "due" /\ word' = word
      BY <1>3 DEF HandleDeferredSwitch
  <2> QED BY <2>1, SameInv DEF WordOK, Lpi, OnList, Open
<1>4. CASE StartDeferred
  <2>1. Inv' /\ Loads(st, st')
      BY <1>4, Step_StartDeferred
  <2>2. deferred = "due" /\ deferred' = "no" /\ word' = word
      BY <1>4 DEF StartDeferred
  <2> QED BY <2>1, <2>2 DEF WordOK, Lpi, OnList
<1> QED BY <1>1, <1>2, <1>3, <1>4 DEF ResourceManager, SecondHalves

(* A step that changes nothing keeps the invariant.                           *)
LEMMA Stutters ==
    ASSUME Inv, WordOK, UNCHANGED vars
    PROVE  Inv' /\ WordOK'
<1>1. Inv'
    BY SameInv DEF vars
<1>2. WordOK'
    BY DEF vars, WordOK, Lpi, OnList, Open
<1> QED BY <1>1, <1>2

(* The invariant holds whatever the client, the resource manager, the delayed *)
(* stop and the engines do to the stream, in whatever order.                  *)
THEOREM Invariant == Spec => [](Inv /\ WordOK)
<1>1. Init => Inv /\ WordOK
  <2> SUFFICES ASSUME Init
               PROVE  Inv /\ WordOK
      OBVIOUS
  <2>1. st = NewStream(conc) /\ deferred \in {"never", "no"} /\ word = "stop"
      BY DEF Init
  <2>2. st.currentState = "IDLE"
      BY <2>1 DEF NewStream
  <2> QED BY <2>1, <2>2, Begins DEF WordOK, Lpi, OnList
<1>2. Inv /\ WordOK /\ [Next]_vars => (Inv /\ WordOK)'
  <2> SUFFICES ASSUME Inv, WordOK, [Next]_vars
               PROVE  Inv' /\ WordOK'
      OBVIOUS
  <2>1. CASE ClientLock
    <3>1. Inv' /\ Unstarts(st, st') /\ Loads(st, st')
        BY <2>1, Step_ClientLock
    <3> QED BY <2>1, <3>1, SaysNothing DEF ClientLock, Open
  <2>2. CASE Client BY <2>2, Step_Client
  <2>3. CASE deferStart \/ stopUndeferred BY <2>3, Step_Deferral
  <2>4. CASE closed \/ delete \/ deleted
    <3>1. Inv' /\ Unstarts(st, st')
        BY <2>4, Step_closed, Step_delete, Step_deleted
    <3>2. deferred' = deferred /\ word' = word /\ ~Open /\ Alive
        BY <2>4 DEF closed, delete, deleted, Open, Alive
    <3> QED BY <3>1, <3>2 DEF WordOK, Lpi, OnList, Unstarts, Alive
  <2>5. CASE Timer
    <3>1. Inv' /\ Unstarts(st, st') /\ Loads(st, st')
        BY <2>5, Step_Timer
    <3>2. deferred' = deferred /\ word' = word /\ client' = client /\ Alive
        BY <2>5 DEF Timer, TimerExpires, TimerWoken, TimerBack, TimerTo,
           InternalStopRecognition
    <3> QED BY <3>1, <3>2, SaysNothing DEF Open
  <2>6. CASE Detects \/ \E r \in Reporter : Engine(r)
    <3>1. Inv' /\ Unstarts(st, st') /\ Loads(st, st')
        BY <2>6, Step_Detects, Step_Engine
    <3>2. deferred' = deferred /\ word' = word /\ client' = client /\ Alive
        BY <2>6 DEF Detects, Engine, Processing, Processed, SetEngineDetectionState,
           GivesUp, WithoutLock, CallbackReturns, CallbackGivesUp, NoUnlock, Step
    <3> QED BY <3>1, <3>2, SaysNothing DEF Open
  <2>7. CASE ResourceManager BY <2>7, Step_ResourceManager
  <2>8. CASE UNCHANGED vars BY <2>8, Stutters
  <2> QED BY <2>1, <2>2, <2>3, <2>4, <2>5, <2>6, <2>7, <2>8 DEF Next
<1> QED BY <1>1, <1>2, PTL DEF Spec

(* Every field of the stream keeps its type: no handler of any event leaves   *)
(* the state machine outside its states.                                      *)
THEOREM TypeCorrect == Spec => []TypeOK
<1>1. Inv /\ WordOK => TypeOK
    BY DEF Inv, CoreOK, RestOK, WordOK, TypeOK
<1> QED BY <1>1, Invariant, PTL

(* Between two events of a stream that is not closed the invariant speaks of  *)
(* all of the stream.                                                         *)
LEMMA WhenQuiet ==
    ASSUME Inv, Quiet
    PROVE  /\ st \in StreamRecord /\ rmOp = "none" /\ DeviceOK(st) /\ CardOK
           /\ OneEngine => WantedOK
<1>1. Alive /\ owner = "free" /\ client # "closed" /\ client # "gone"
    BY DEF Quiet, Alive
<1>2. OwnerOK /\ CoreOK
    BY <1>1 DEF Inv
<1>3. client = "idle" /\ rmOp = "none"
    BY <1>1, <1>2 DEF OwnerOK, CoreOK, RestOK
<1> QED BY <1>1, <1>2, <1>3 DEF Inv, Open, CoreOK

(* The microphone runs only for a stream that listens or has detected, it is  *)
(* open and attached, and it is registered exactly while it runs: for every   *)
(* set of second stage engines, any number of detections and of failed calls. *)
THEOREM DeviceRunsOnlyWhenNeeded == Spec => []DeviceRuns
<1>1. Inv => DeviceRuns
    BY WhenQuiet DEF DeviceRuns, DeviceOK, Without
<1> QED BY <1>1, Invariant, PTL

(* With one second stage engine at most, the wake lock of a detection is      *)
(* released exactly once, however the detection ends, and the vote against    *)
(* sleep of a read ends with the buffering.                                   *)
THEOREM WakeLockReleasedOnce ==
    ASSUME OneEngine
    PROVE  Spec => []WakeHeld
<1>1. Inv => WakeHeld
    BY WhenQuiet DEF WakeHeld, WantedOK, WakeOK, Without
<1> QED BY <1>1, Invariant, PTL

(* With one second stage engine at most, neither a recovery nor a resume nor  *)
(* a switch, nor a deferred start, makes a stream listen whose client did not *)
(* start it or has stopped it, but for the stop the code ignores: that of an  *)
(* NLPI stream that was started already.                                      *)
THEOREM ListensOnlyWhenStarted ==
    ASSUME OneEngine
    PROVE  Spec => []ActiveIsWanted
<1>1. Inv /\ WordOK => ActiveIsWanted
    BY WhenQuiet DEF ActiveIsWanted, WantedOK, WantOK, WordOK, Without, Quiet, Alive
<1> QED BY <1>1, Invariant, PTL

(* With one second stage engine at most, a started stream listens or its      *)
(* second stage is at work after any sequence of subsystem restarts and       *)
(* switches in which no call failed.                                          *)
THEOREM StartedStreamRuns ==
    ASSUME OneEngine
    PROVE  Spec => []RunsWhenWanted
<1>1. ASSUME Inv, Quiet, Without({"pause", "config", "restore"}), st.faults = 0,
             st.currentState = "STARTED", card = "up"
      PROVE  st.state \in {"ACTIVE", "BUFFERING"}
  <2>1. /\ "pause" \notin st.past /\ "restore" \notin st.past
        /\ "config" \notin st.past
      BY <1>1 DEF Without
  <2>2. RunsOK(st, "none") /\ CardOK /\ st \in StreamRecord
      BY <1>1, <2>1, WhenQuiet DEF WantedOK, Calm
  <2>3. st.state \in {"IDLE", "LOADED", "SSR", "ACTIVE", "DETECTED", "BUFFERING"}
      BY <2>2, FieldTypes DEF States, Running
  <2> QED BY <1>1, <2>1, <2>2, <2>3 DEF RunsOK, CardOK
<1>2. Inv => RunsWhenWanted
    BY <1>1 DEF RunsWhenWanted
<1> QED BY <1>2, Invariant, PTL

=============================================================================
