------------------------- MODULE StreamSoundTrigger -------------------------
(* One voice UI stream (StreamSoundTrigger.cpp): its state machine with the  *)
(* events of the client, of the resource manager (subsystem restart, pause,  *)
(* device switch, LPI/NLPI switch) and of the detection engines, the thread  *)
(* of the delayed stop, and the threads of the second stage engines           *)
(* (SoundTriggerEngineCapi.cpp).                                              *)
(*                                                                            *)
(* The fields of the stream are one record, st.  A handler of ProcessEvent is *)
(* an operator from the record before the event to the record after it, with *)
(* the status in ok, so a handler that sends a further event applies the      *)
(* operator of that event.  f names the call that fails during the event.     *)
EXTENDS Integers

CONSTANTS
    Stage2Choices,  \* the sets of second stage engines a sound model can have
    NotifyFailure,  \* GetNotifySecondStageFailure()
    RmOps,          \* what the resource manager does to the stream
    MaxDetections,  \* bound: first stage detections
    MaxFaults       \* bound: calls that fail

Stage2 == UNION Stage2Choices
Reporter == {"gmm"} \cup Stage2   \* threads that call SetEngineDetectionState

ASSUME StAssumption ==
    /\ {} \in Stage2Choices /\ Stage2 \subseteq {"kw", "uv"}
    /\ NotifyFailure \in BOOLEAN
    /\ RmOps \subseteq {"ssr", "pause", "device", "concurrent", "internal"}
    /\ MaxDetections \in Nat
    /\ MaxFaults \in Nat

(* What can fail, each at the call its name stands for.                       *)
Fault == {"none", "config", "load", "open", "start", "stop", "connect",
          "engine", "restart", "reconfigure", "reccfg"}

VARIABLES
    st,      \* the stream
    owner,   \* the thread that holds mStreamMutex, "free" if none
    client,  \* the client's thread: idle, in a call, in close, in the destructor
    report,  \* per reporter: what it is about to do
    answer,  \* per reporter: its result
    rmOp,    \* what the resource manager is in the middle of
    card,    \* the sound card
    conc,    \* a concurrency pauses the detection streams
    deferred, \* mStartDeferredStreams: the stream is configured for LPI and
              \* never on it, is not on it, waits on it, or is next to be
              \* started from it
    word     \* history: the client's last word, "ignored" a stop that was not
             \* carried out

vars == <<st, owner, client, report, answer, rmOp, card, conc, deferred, word>>

Lpi == deferred = "never"      \* GetStreamLPIFlag()
OnList == deferred \in {"waiting", "due"}

Running == {"ACTIVE", "DETECTED", "BUFFERING"}

(* The fields keep the names of the source.  eng is the first stage engine's  *)
(* view of the stream, proc the second stage engines with processing_started_,*)
(* sleepVote is force_nlpi_vote, and timer is where TimerThread is: waiting   *)
(* for a start, in the delay, woken from it by a cancel, past it, or on its   *)
(* way back.  crash: a null pointer was used, or a mutex unlocked by a thread *)
(* that did not hold it.                                                      *)
(* faults, detections and past are history.  past has                         *)
(*   "device"   when a device was left running,                               *)
(*   "wake"     when a wake lock was left held or released twice,             *)
(*   "restore"  when a recovery ended early and left state_for_restore_ set,  *)
(*   "pause"    when a concurrency paused the stream,                         *)
(*   "config"   when a new configuration took a running stream to LOADED and  *)
(*              the client has not started it again.                          *)
StreamRecord ==
    [state : {"IDLE", "LOADED", "SSR"} \cup Running,
     state_for_restore : {"NONE", "IDLE", "LOADED", "ACTIVE"},
     currentState : {"IDLE", "OPENED", "STARTED", "STOPPED"},
     paused : BOOLEAN,
     gsl_engine_model : {"none", "ok", "dangling"},
     stage2 : Stage2Choices,
     sm_config : BOOLEAN,
     rec_config : {"none", "plain", "capture"},
     eng : {"none", "loaded", "running", "detected"},
     proc : SUBSET Stage2,
     mDevices : BOOLEAN, device_opened : BOOLEAN,
     started : BOOLEAN, registered : BOOLEAN,
     wake : Int, sleepVote : BOOLEAN,
     second_stage_processing : BOOLEAN,
     detection_state : SUBSET Stage2,
     rejection_notified : BOOLEAN,
     pending_stop : BOOLEAN, timer_stop_waiting : BOOLEAN,
     timer : {"start", "wait", "woken", "due", "back"},
     mutex_unlocked_after_cb : BOOLEAN,
     ok : BOOLEAN, crash : BOOLEAN,
     past : SUBSET {"device", "wake", "restore", "pause", "config"},
     faults : 0..MaxFaults, detections : 0..MaxDetections]

TypeOK ==
    /\ st \in StreamRecord
    /\ owner \in {"free", "client", "rm"} \cup Reporter
    /\ client \in {"idle", "in", "join", "closed", "deleting", "gone"}
    /\ report \in [Reporter -> {"wait", "work", "call", "unlocked", "callback", "end"}]
    /\ answer \in [Reporter -> BOOLEAN]
    /\ rmOp \in {"none", "device", "concurrent", "internal"}
    /\ card \in {"up", "down"}
    /\ conc \in BOOLEAN
    /\ deferred \in {"never", "no", "waiting", "due"}
    /\ word \in {"start", "stop", "ignored"}

(* The constructor; a stream that is opened while a concurrency is active is  *)
(* paused from the beginning.                                                 *)
NewStream(disabled) ==
    [state |-> "IDLE", state_for_restore |-> "NONE", currentState |-> "IDLE",
     paused |-> disabled, gsl_engine_model |-> "none", stage2 |-> {},
     sm_config |-> FALSE, rec_config |-> "none", eng |-> "none", proc |-> {},
     mDevices |-> FALSE, device_opened |-> FALSE, started |-> FALSE,
     registered |-> FALSE, wake |-> 0, sleepVote |-> FALSE,
     second_stage_processing |-> FALSE, detection_state |-> {},
     rejection_notified |-> FALSE, pending_stop |-> FALSE,
     timer_stop_waiting |-> FALSE, timer |-> "start", mutex_unlocked_after_cb |-> FALSE,
     ok |-> TRUE, crash |-> FALSE, past |-> IF disabled THEN {"pause"} ELSE {},
     faults |-> 0, detections |-> 0]

Init ==
    /\ conc \in {"pause" \in RmOps, FALSE}
    /\ st = NewStream(conc)
    /\ owner = "free"
    /\ client = "idle"
    /\ report = [r \in Reporter |-> "wait"]
    /\ answer = [r \in Reporter |-> FALSE]
    /\ rmOp = "none"
    /\ card = "up"
    /\ deferred \in {"never", "no"}
    /\ word = "stop"

-----------------------------------------------------------------------------
(* Parts of the handlers.                                                     *)
Ok(s) == [s EXCEPT !.ok = TRUE]
Mark(s, when, what) == IF when THEN [s EXCEPT !.past = @ \cup {what}] ELSE s
Failed(s) == [s EXCEPT !.ok = FALSE]
Crash(s) == [s EXCEPT !.crash = TRUE]
TransitTo(s, id) == [s EXCEPT !.state = id]

isActive(s) == s.currentState = "STARTED" \/ s.state \in {"BUFFERING", "DETECTED"}

(* The stream's share of the wake locks that the resource manager counts for  *)
(* all streams: a second release takes the lock of another one.               *)
releaseWakeLock(s) == [s EXCEPT !.wake = @ - 1]
(* voteSleepMonitor(false) of the handlers of BUFFERING.                      *)
dropSleepVote(s) == [s EXCEPT !.sleepVote = @ /\ s.state # "BUFFERING"]

(* The condition variables of the timer have no predicate: a notification is  *)
(* lost unless the thread waits on that variable.                             *)
PostDelayedStop(s) ==
    [s EXCEPT !.pending_stop = TRUE, !.timer_stop_waiting = FALSE,
              !.timer = IF @ = "start" THEN "wait" ELSE @]
CancelDelayedStop(s) ==
    [s EXCEPT !.pending_stop = FALSE, !.timer_stop_waiting = TRUE,
              !.timer = IF @ = "wait" THEN "woken" ELSE @]

stopEngines(s) ==
    [s EXCEPT !.eng = IF @ \in {"running", "detected"} THEN "loaded" ELSE @, !.proc = {}]

(* A faulty stop: the device is closed and stays on the active list.          *)
stopDeviceKeepsEntry(s) ==
    IF s.mDevices
    THEN [s EXCEPT !.started = FALSE, !.device_opened = FALSE]
    ELSE s

(* dev->stop() and dev->close(), with the device taken off the active list.   *)
stopDevice(s) ==
    IF s.mDevices
    THEN [s EXCEPT !.registered = FALSE, !.started = FALSE, !.device_opened = FALSE]
    ELSE s

(* dev->start(): a device that already runs for this stream runs twice.       *)
startDevice(s) == [Mark(s, s.started, "device") EXCEPT !.started = TRUE]

(* UpdateDeviceConfig has picked the device, SetupSessionDevice has set it up.*)
attach(s) == [s EXCEPT !.mDevices = TRUE]

FstageLoad(s, f) ==
    CASE f = "config" -> Failed(s)
      [] f # "config" /\ s.gsl_engine_model # "ok" -> Crash(s)
      [] f = "load" /\ s.gsl_engine_model = "ok" -> Failed(attach(s))
      [] OTHER -> Ok([attach(s) EXCEPT !.eng = "loaded"])

FstageUnload(s, f) ==
    LET t == [s EXCEPT !.device_opened = @ /\ ~s.mDevices, !.mDevices = FALSE]
    IN  IF f = "reconfigure" THEN Failed(t) ELSE Ok([t EXCEPT !.eng = "none"])

(* The device and the first stage are released; the pointer to the model of   *)
(* the first stage is not cleared, and neither is detection_state_.           *)
UnloadSoundModel(s) ==
    [stopEngines(s) EXCEPT
        !.device_opened = @ /\ ~s.mDevices, !.mDevices = FALSE, !.eng = "none",
        !.gsl_engine_model = IF @ = "ok" THEN "dangling" ELSE @,
        !.stage2 = {}, !.ok = TRUE]

SendRecognitionConfig(s, c, f) ==
    IF f = "reccfg" \/ s.gsl_engine_model # "ok"
    THEN Failed([s EXCEPT !.rec_config = "none"])
    ELSE Ok([s EXCEPT !.rec_config = c])

(* notifyClient with an abort: nothing is sent unless sm_config_ is there, and*)
(* LoadSoundModel has freed it.                                               *)
notifyAbort(s) ==
    IF s.sm_config
    THEN Ok([s EXCEPT !.currentState = "STOPPED"])
    ELSE Failed(s)

DisconnectEvent(s) ==
    IF ~s.mDevices
    THEN Ok(s)
    ELSE Ok([stopDevice(stopEngines(CancelDelayedStop(s))) EXCEPT !.mDevices = FALSE])

(* The device of ConnectEvent and of the DEVICE_CONNECTED handlers: opened,   *)
(* started when run holds, and connected to the session.  When the session    *)
(* refuses it, it is closed but not stopped.                                  *)
connectDevice(s, run, f) ==
    CASE s.mDevices -> Failed(s)
      [] ~s.mDevices /\ f = "config" -> Failed(s)
      [] ~s.mDevices /\ f = "open" /\ ~s.device_opened -> Failed(attach(s))
      [] ~s.mDevices /\ f = "start" /\ run ->
            Failed([attach(s) EXCEPT !.device_opened = FALSE])
      [] ~s.mDevices /\ f = "connect" ->
            Failed([Mark(s, run, "device") EXCEPT !.device_opened = FALSE,
                                                  !.started = @ \/ run])
      [] OTHER ->
            LET t == [attach(s) EXCEPT !.device_opened = TRUE]
            IN  IF run THEN Ok([startDevice(t) EXCEPT !.registered = TRUE]) ELSE Ok(t)

-----------------------------------------------------------------------------
(* LOADED.                                                                    *)
Loaded_UNLOAD(s) == TransitTo(UnloadSoundModel(s), "IDLE")

Loaded_FSTAGE_UNLOAD(s, f) == TransitTo(FstageUnload(s, f), "IDLE")

(* The engines that started before the one that fails are stopped again.  The *)
(* common capture profile, for which other streams are restarted, is left out.*)
Loaded_START(s, f) ==
    IF s.paused \/ s.rec_config = "none" THEN Failed(s)
    ELSE IF s.mDevices /\ f = "open" /\ ~s.device_opened THEN Failed(s)
    ELSE IF s.mDevices /\ f = "start"
    THEN Failed([s EXCEPT !.device_opened = FALSE])
    ELSE LET d == IF s.mDevices
                  THEN [startDevice(s) EXCEPT !.device_opened = TRUE,
                                              !.registered = TRUE]
                  ELSE s
         IN  IF f = "engine"
             THEN Failed(stopDevice(stopEngines(d)))
             ELSE Ok(TransitTo([d EXCEPT !.eng = "running"], "ACTIVE"))

Loaded_RESUME(s) == Ok([s EXCEPT !.paused = FALSE])

(* A faulty resume: the stream is not started again.                          *)
Loaded_INTERNAL_RESUMEOnly(s, f) == Loaded_RESUME(s)

Loaded_INTERNAL_RESUME(s, f) ==
    LET t == Loaded_RESUME(s)
        c == IF t.rec_config = "none" THEN t
             ELSE SendRecognitionConfig(t, t.rec_config, f)
    IN  IF ~isActive(t) THEN t
        ELSE IF ~c.ok THEN c
        ELSE Loaded_START(c, f)

Loaded_DEVICE_DISCONNECTED(s) ==
    Ok([s EXCEPT !.device_opened = @ /\ ~s.mDevices, !.mDevices = FALSE])

Loaded_DEVICE_CONNECTED(s, f) ==
    LET run == isActive(s) /\ ~s.paused
        t == connectDevice(s, run, f)
    IN  IF ~t.ok THEN t
        ELSE IF f = "engine" THEN Failed(stopDevice(stopEngines(t)))
        ELSE LET u == [t EXCEPT !.second_stage_processing = FALSE]
             IN  IF run THEN TransitTo([u EXCEPT !.eng = "running"], "ACTIVE") ELSE u

Loaded_CONCURRENT(s, active, f) ==
    IF active THEN Failed(s)
    ELSE LET t == FstageUnload(s, f)
         IN  IF t.ok THEN TransitTo(t, "IDLE") ELSE t

(* IDLE.  LoadSoundModel copies the model to sm_config_ and frees it again.   *)
Idle_LOAD(s, n, f) ==
    CASE f = "config" -> Failed(s)
      [] f = "load" -> Failed([attach(s) EXCEPT !.gsl_engine_model = "dangling",
                                                !.sm_config = FALSE])
      [] OTHER -> Ok(TransitTo([attach(s) EXCEPT !.gsl_engine_model = "ok",
                                    !.eng = "loaded", !.stage2 = n,
                                    !.sm_config = FALSE], "LOADED"))

Idle_DEVICE_DISCONNECTED(s) == Ok([s EXCEPT !.mDevices = FALSE])

Idle_DEVICE_CONNECTED(s, f) ==
    IF s.mDevices THEN Failed(s)
    ELSE IF s.gsl_engine_model = "none" THEN Ok(s)
    ELSE IF f = "config" THEN Failed(s) ELSE Ok(attach(s))

Idle_FSTAGE_LOAD(s, f) ==
    LET t == FstageLoad(s, f) IN IF t.ok THEN TransitTo(t, "LOADED") ELSE t

Idle_CONCURRENT(s, active, f) ==
    IF ~active \/ s.gsl_engine_model = "none" THEN Ok(s)
    ELSE LET t == Idle_FSTAGE_LOAD(s, f)
         IN  IF t.ok /\ ~t.crash /\ isActive(t) THEN Loaded_START(t, f) ELSE t

(* A faulty stop: the stream gives up the detection and keeps its wake lock.  *)
stopRecognitionKeepsWakeLock(s) ==
    LET halted == TransitTo(Ok(stopDevice(stopEngines(dropSleepVote(s)))), "LOADED")
    IN  IF s.state = "ACTIVE" THEN halted ELSE CancelDelayedStop(halted)

(* ACTIVE, DETECTED and BUFFERING share the way down to LOADED.  A detection  *)
(* that is not answered any more gives its wake lock back.                    *)
stopRecognition(s) ==
    LET halted == TransitTo(Ok(stopDevice(stopEngines(dropSleepVote(s)))), "LOADED")
    IN  IF s.state = "ACTIVE" THEN halted
        ELSE releaseWakeLock(CancelDelayedStop(halted))

Running_STOP(s) == stopRecognition(s)
Running_UNLOAD(s) == Loaded_UNLOAD(stopRecognition(s))
Running_INTERNAL_PAUSE(s) == stopRecognition([s EXCEPT !.paused = TRUE])
Running_PAUSE(s) == notifyAbort(Running_INTERNAL_PAUSE(s))

(* The configuration is compared with the one in use; a new one goes through  *)
(* LOADED, and the next start starts it.                                      *)
Running_RECOGNITION_CONFIG(s, c, f) ==
    IF c = s.rec_config THEN Ok(s)
    ELSE SendRecognitionConfig(Mark(stopRecognition(s), TRUE, "config"), c, f)

Active_DEVICE_DISCONNECTED(s, f) ==
    IF ~s.mDevices THEN Ok(s)
    ELSE IF f = "stop"
    THEN Failed([Mark(s, TRUE, "device") EXCEPT !.mDevices = FALSE,
                                                !.registered = FALSE])
    ELSE Ok([stopDevice(s) EXCEPT !.mDevices = FALSE])

Active_DEVICE_CONNECTED(s, f) == connectDevice(s, TRUE, f)

(* RestartRecognition of every engine.  A failure leads to LOADED with the    *)
(* device still running.                                                      *)
restartRecognition(s, f) ==
    LET r == [s EXCEPT !.proc = {}]
    IN  IF f = "restart"
        THEN Failed(TransitTo(Mark(stopEngines(r), s.started, "device"), "LOADED"))
        ELSE Ok(TransitTo([r EXCEPT !.eng = "running"], "ACTIVE"))

Detected_START(s, f) ==
    releaseWakeLock(restartRecognition(CancelDelayedStop(dropSleepVote(s)), f))

(* The delayed stop is cancelled only if the stream has a device.             *)
Detected_CONCURRENT(s, active, f) ==
    LET t == DisconnectEvent(dropSleepVote(s))
    IN  releaseWakeLock(Loaded_CONCURRENT(TransitTo(t, "LOADED"), active, f))

ConnectEvent(s, f) ==
    LET t == connectDevice(s, TRUE, f)
    IN  IF ~t.ok THEN t
        ELSE IF s.state = "BUFFERING"
        THEN IF ~s.second_stage_processing THEN t
             ELSE IF f = "engine" THEN Failed(stopDevice(stopEngines(t)))
             ELSE [t EXCEPT !.eng = "running"]
        ELSE [t EXCEPT !.second_stage_processing = FALSE]

(* A stream whose second stage was interrupted listens again; the wake lock of*)
(* the detection is not released.                                             *)
Buffering_DEVICE_CONNECTED(s, f) ==
    LET t == ConnectEvent(s, f)
    IN  IF t.ok /\ t.second_stage_processing
        THEN TransitTo([Mark(t, TRUE, "wake") EXCEPT !.second_stage_processing = FALSE],
                       "ACTIVE")
        ELSE t

Buffering_STOP_BUFFERING(s) == Ok(PostDelayedStop(dropSleepVote(s)))

(* A detection of the first stage in ACTIVE.                                  *)
Active_DETECTED(s) ==
    LET d == [s EXCEPT !.wake = @ + 1, !.detections = @ + 1]
    IN  IF s.stage2 = {} /\ s.rec_config # "capture"
        THEN TransitTo(d, "DETECTED")
        ELSE TransitTo([d EXCEPT !.proc = s.stage2,
                                 !.second_stage_processing = s.stage2 # {}],
                       "BUFFERING")

(* A rejection of the second stage engine e in BUFFERING; the other second    *)
(* stage engine is stopped.                                                   *)
Buffering_REJECT(s, e, f) ==
    LET t == [s EXCEPT !.proc = @ \cap {e}, !.second_stage_processing = FALSE,
                       !.detection_state = {}]
    IN  IF s.rejection_notified THEN s
        ELSE IF NotifyFailure THEN [t EXCEPT !.rejection_notified = TRUE]
        ELSE releaseWakeLock(restartRecognition(t, f))

(* A second stage engine accepts: the client is notified when every engine    *)
(* has.                                                                       *)
Accepted(s, e) == s.detection_state \cup {e}
Buffering_ACCEPT(s, e) ==
    IF Accepted(s, e) # s.stage2
    THEN [s EXCEPT !.detection_state = Accepted(s, e)]
    ELSE LET t == [s EXCEPT !.detection_state = {}, !.second_stage_processing = FALSE]
         IN  IF s.rec_config = "capture" THEN t ELSE TransitTo(t, "DETECTED")

(* notifyClient with a detection, up to the callback.                         *)
notifyClient(s) == [PostDelayedStop(s) EXCEPT !.currentState = "STOPPED"]

-----------------------------------------------------------------------------
(* The subsystem goes down and comes up.                                      *)
(* A faulty record: the state of the stream as it is.                         *)
restoreOfState(s) ==
    IF s.state_for_restore # "NONE" THEN s.state_for_restore ELSE s.state

(* A faulty record: a stream that has notified its client restarts.           *)
restoreOfDetected(s) ==
    IF s.state_for_restore # "NONE" THEN s.state_for_restore
    ELSE CASE s.state = "IDLE" -> "IDLE"
           [] s.state = "LOADED" -> "LOADED"
           [] OTHER -> "ACTIVE"

restoreOf(s) ==
    IF s.state_for_restore # "NONE" THEN s.state_for_restore
    ELSE CASE s.state = "IDLE" -> "IDLE"
           [] s.state \in {"LOADED", "DETECTED"} -> "LOADED"
           [] s.state = "BUFFERING" /\ ~s.second_stage_processing -> "LOADED"
           [] OTHER -> "ACTIVE"

SSR_OFFLINE(s, f) ==
    LET r == [s EXCEPT !.state_for_restore = restoreOf(s)]
    IN  CASE s.state = "SSR" -> Ok(s)
          [] s.state = "IDLE" -> Ok(TransitTo(r, "SSR"))
          [] s.state = "LOADED" -> TransitTo(Loaded_FSTAGE_UNLOAD(r, f), "SSR")
          [] OTHER -> TransitTo(Loaded_FSTAGE_UNLOAD(Running_STOP(r), f), "SSR")

(* Only a recovery that gets to its end clears state_for_restore_.            *)
SSR_ONLINE(s, f) ==
    LET idle == TransitTo(s, "IDLE")
        want == IF s.state_for_restore # "IDLE" THEN s.state_for_restore
                ELSE IF s.currentState = "STARTED" THEN "ACTIVE"
                ELSE IF s.currentState \in {"OPENED", "STOPPED"} THEN "LOADED"
                ELSE "IDLE"
        r == [idle EXCEPT !.state_for_restore = want]
        loaded == IF want \in {"LOADED", "ACTIVE"} THEN Idle_FSTAGE_LOAD(r, f) ELSE Ok(r)
        config == IF want \in {"LOADED", "ACTIVE"} /\ loaded.rec_config # "none"
                  THEN SendRecognitionConfig(loaded, loaded.rec_config, f)
                  ELSE loaded
        started == IF want = "ACTIVE" THEN Loaded_START(config, f) ELSE config
        end == CASE ~loaded.ok \/ loaded.crash -> loaded
                 [] loaded.ok /\ ~loaded.crash /\ ~config.ok -> config
                 [] OTHER -> started
    IN  IF s.state # "SSR" \/ s.gsl_engine_model = "none"
        THEN IF s.state # "SSR" THEN Ok(s) ELSE Ok(Mark(idle, TRUE, "restore"))
        ELSE IF end.ok /\ ~end.crash
        THEN [end EXCEPT !.state_for_restore = "NONE"]
        ELSE Mark(end, TRUE, "restore")

(* What the client and the resource manager may do to a stream in SSR.        *)
Ssr_LOAD(s) ==
    IF s.state_for_restore # "IDLE" THEN Failed(s)
    ELSE Ok([s EXCEPT !.state_for_restore = "LOADED", !.sm_config = TRUE])
Ssr_UNLOAD(s) ==
    IF s.state_for_restore # "LOADED" THEN Failed(s)
    ELSE Ok([s EXCEPT !.state_for_restore = "IDLE"])
Ssr_RECOGNITION_CONFIG(s, c) ==
    IF s.state_for_restore # "LOADED" THEN Failed(s)
    ELSE Ok([s EXCEPT !.rec_config = c])
Ssr_START(s) ==
    IF s.state_for_restore # "LOADED" \/ s.rec_config = "none" THEN Failed(s)
    ELSE Ok([s EXCEPT !.state_for_restore = "ACTIVE"])
Ssr_STOP(s) ==
    IF s.state_for_restore # "ACTIVE" THEN Failed(s)
    ELSE Ok([s EXCEPT !.state_for_restore = "LOADED"])
Ssr_PAUSE(s) == notifyAbort([s EXCEPT !.paused = TRUE])
Ssr_RESUME(s) ==
    IF ~s.paused THEN Ok(s)
    ELSE Ok([s EXCEPT !.paused = FALSE,
                      !.state_for_restore = IF s.currentState = "STARTED"
                                            THEN "ACTIVE" ELSE @])

-----------------------------------------------------------------------------
(* cur_state_->ProcessEvent: the handlers of the current state.  What a state *)
(* has no handler for is ignored, with status 0.                              *)
LOAD_SOUND_MODEL(s, n, f) ==
    CASE s.state = "IDLE" -> Idle_LOAD(s, n, f)
      [] s.state = "SSR" -> Ssr_LOAD(s)
      [] OTHER -> Ok(s)

UNLOAD_SOUND_MODEL(s) ==
    CASE s.state = "IDLE" -> IF s.gsl_engine_model = "none" THEN Ok(s)
                             ELSE UnloadSoundModel(s)
      [] s.state = "LOADED" -> Loaded_UNLOAD(s)
      [] s.state \in Running -> Running_UNLOAD(s)
      [] OTHER -> Ssr_UNLOAD(s)

RECOGNITION_CONFIG(s, c, f) ==
    CASE s.state = "IDLE" -> Ok(s)
      [] s.state = "LOADED" -> SendRecognitionConfig(s, c, f)
      [] s.state \in Running -> Running_RECOGNITION_CONFIG(s, c, f)
      [] OTHER -> Ssr_RECOGNITION_CONFIG(s, c)

START_RECOGNITION(s, f) ==
    CASE s.state = "LOADED" -> Loaded_START(s, f)
      [] s.state \in {"DETECTED", "BUFFERING"} -> Detected_START(s, f)
      [] s.state = "SSR" -> Ssr_START(s)
      [] OTHER -> Ok(s)

STOP_RECOGNITION(s) ==
    CASE s.state \in Running -> Running_STOP(s)
      [] s.state = "SSR" -> Ssr_STOP(s)
      [] OTHER -> Ok(s)

PAUSE(s, internal) ==
    CASE s.state \in {"IDLE", "LOADED"} -> Ok([s EXCEPT !.paused = TRUE])
      [] s.state = "SSR" -> IF internal THEN Ok([s EXCEPT !.paused = TRUE])
                            ELSE Ssr_PAUSE(s)
      [] OTHER -> IF internal THEN Running_INTERNAL_PAUSE(s) ELSE Running_PAUSE(s)

RESUME(s, internal, f) ==
    CASE s.state = "LOADED" -> IF internal THEN Loaded_INTERNAL_RESUME(s, f)
                               ELSE Loaded_RESUME(s)
      [] s.state = "SSR" -> Ssr_RESUME(s)
      [] s.state \in {"ACTIVE", "BUFFERING"} -> Ok(s)
      [] OTHER -> Ok([s EXCEPT !.paused = FALSE])

FSTAGE_LOAD(s, f) == IF s.state = "IDLE" THEN Idle_FSTAGE_LOAD(s, f) ELSE Ok(s)
FSTAGE_UNLOAD(s, f) == IF s.state = "LOADED" THEN Loaded_FSTAGE_UNLOAD(s, f) ELSE Ok(s)

DEVICE_DISCONNECTED(s, f) ==
    CASE s.state = "IDLE" -> Idle_DEVICE_DISCONNECTED(s)
      [] s.state = "LOADED" -> Loaded_DEVICE_DISCONNECTED(s)
      [] s.state = "ACTIVE" -> Active_DEVICE_DISCONNECTED(s, f)
      [] s.state \in {"DETECTED", "BUFFERING"} -> DisconnectEvent(dropSleepVote(s))
      [] OTHER -> Ok(s)

DEVICE_CONNECTED(s, f) ==
    CASE s.state = "IDLE" -> Idle_DEVICE_CONNECTED(s, f)
      [] s.state = "LOADED" -> Loaded_DEVICE_CONNECTED(s, f)
      [] s.state = "ACTIVE" -> Active_DEVICE_CONNECTED(s, f)
      [] s.state = "DETECTED" -> ConnectEvent(s, f)
      [] s.state = "BUFFERING" -> Buffering_DEVICE_CONNECTED(s, f)
      [] OTHER -> Ok(s)

CONCURRENT_STREAM(s, active, f) ==
    CASE s.state = "IDLE" -> Idle_CONCURRENT(s, active, f)
      [] s.state = "LOADED" -> Loaded_CONCURRENT(s, active, f)
      [] s.state = "ACTIVE" -> IF active THEN Failed(s)
                               ELSE Loaded_CONCURRENT(Running_STOP(s), active, f)
      [] s.state \in {"DETECTED", "BUFFERING"} -> Detected_CONCURRENT(s, active, f)
      [] OTHER -> Ok(s)

-----------------------------------------------------------------------------
(* An event takes the stream from st to H; the call that fails, if any, makes *)
(* a difference.  The status is returned and not kept.                        *)
Apply(H(_, _)) ==
    \E f \in Fault :
        /\ f # "none" => st.faults < MaxFaults /\ H(st, f) # H(st, "none")
        /\ st' = [H(st, f) EXCEPT !.ok = TRUE,
                                  !.faults = IF f = "none" THEN @ ELSE @ + 1]

Alive == ~st.crash /\ client # "gone"

(* The client takes mStreamMutex, then the call runs with it.                 *)
ClientLock ==
    /\ Alive /\ client = "idle" /\ owner = "free"
    /\ client' = "in" /\ owner' = "client"
    /\ UNCHANGED <<st, report, answer, rmOp, card, conc, deferred, word>>

InCall == Alive /\ client = "in"
Return ==
    /\ client' = "idle" /\ owner' = "free"
    /\ UNCHANGED <<report, answer, rmOp, card, conc, deferred>>
Loaded == st.currentState # "IDLE"

load ==
    /\ InCall /\ ~Loaded
    /\ \E n \in Stage2Choices :
        LET H(s, f) == LET t == LOAD_SOUND_MODEL(s, n, f)
                       IN  IF t.ok THEN [t EXCEPT !.currentState = "OPENED"] ELSE t
        IN  Apply(H)
    /\ Return /\ UNCHANGED word

recognitionConfig ==
    /\ InCall /\ Loaded
    /\ \E c \in {"plain", "capture"} :
        LET H(s, f) == RECOGNITION_CONFIG(s, c, f) IN Apply(H)
    /\ Return /\ UNCHANGED word

(* start_l: the state of the client is set first and restored on failure;     *)
(* UpdateCaptureHandleInfo reads rec_config_.                                 *)
start_l(s, f) ==
    LET t == START_RECOGNITION([s EXCEPT !.currentState = "STARTED",
                                         !.rejection_notified = FALSE,
                                         !.past = @ \ {"config"}], f)
    IN  IF ~t.ok THEN [t EXCEPT !.currentState = s.currentState]
        ELSE IF t.rec_config = "none" THEN Crash(t) ELSE t

(* mActiveStreamMutex, which start and stop take as well, is free: the        *)
(* resource manager is not between a deferred switch and the start after it.  *)
Unswitched == deferred # "due"

start ==
    /\ InCall /\ Loaded /\ Unswitched
    /\ Apply(start_l)
    /\ word' = "start"
    /\ Return

(* An NLPI stream that is started while its switch to NLPI is deferred goes on*)
(* the list of the streams that start after that switch; the client's call is *)
(* over, with status 0.  mStreamMutex is not taken.                           *)
Unlocked == Alive /\ client = "idle" /\ rmOp = "none" /\ Unswitched
UpdateDeferred(to) ==
    /\ deferred' = to
    /\ UNCHANGED <<st, owner, client, report, answer, rmOp, card, conc>>

deferStart ==
    /\ deferred = "no" /\ Unlocked /\ Loaded
    /\ UpdateDeferred("waiting")
    /\ word' = "start"

stopCall(s, f) ==
    IF s.rec_config = "none" THEN Crash(s)
    ELSE STOP_RECOGNITION([s EXCEPT !.currentState = "STOPPED"])

stop ==
    /\ Lpi /\ InCall /\ Loaded
    /\ Apply(stopCall)
    /\ word' = "stop"
    /\ Return

(* stop() of an NLPI stream takes it off the list and does nothing else, with *)
(* status 0: a stream that was started already goes on.                       *)
StopsFrom(list) ==
    /\ ~Lpi /\ Unlocked /\ Loaded
    /\ UpdateDeferred(list)
    /\ word' = IF st.currentState = "STARTED" THEN "ignored" ELSE "stop"

(* A faulty stop: the stream stays on the list.                               *)
stopUndeferredKeepsList == StopsFrom(deferred)

stopUndeferred == StopsFrom("no")

(* What the client does with the data of a detection it was notified of.      *)
Notified == st.currentState = "STOPPED" /\ st.state = "BUFFERING"

read ==
    /\ InCall /\ Notified /\ ~st.sleepVote
    /\ st' = [CancelDelayedStop(st) EXCEPT !.sleepVote = TRUE]
    /\ Return /\ UNCHANGED word

stopBuffering ==
    /\ InCall /\ Notified
    /\ st' = Buffering_STOP_BUFFERING(st)
    /\ Return /\ UNCHANGED word

(* close keeps the mutex while it joins the threads of the second stage.  A   *)
(* client whose start is deferred stops the stream before it closes it.       *)
close ==
    /\ InCall /\ ~OnList
    /\ st' = [UNLOAD_SOUND_MODEL(st) EXCEPT !.sm_config = FALSE, !.ok = TRUE]
    /\ client' = "join"
    /\ UNCHANGED <<owner, report, answer, rmOp, card, conc, deferred, word>>

Reporting(e) == report[e] \in {"call", "unlocked", "callback", "end"}

closed ==
    /\ Alive /\ client = "join"
    /\ \A e \in Stage2 : ~Reporting(e)
    /\ st' = [st EXCEPT !.currentState = "IDLE"]
    /\ client' = "closed" /\ owner' = "free"
    /\ UNCHANGED <<report, answer, rmOp, card, conc, deferred, word>>

(* The destructor takes the mutex and joins the thread of the timer.          *)
delete ==
    /\ Alive /\ client = "closed" /\ owner = "free"
    /\ client' = "deleting" /\ owner' = "client"
    /\ UNCHANGED <<st, report, answer, rmOp, card, conc, deferred, word>>

deleted ==
    /\ Alive /\ client = "deleting"
    /\ st.timer # "due"
    /\ client' = "gone" /\ owner' = "free"
    /\ st' = NewStream(FALSE)
    /\ UNCHANGED <<report, answer, rmOp, card, conc, deferred, word>>

Client ==
    \/ load \/ recognitionConfig \/ start \/ stop \/ read \/ stopBuffering
    \/ close

-----------------------------------------------------------------------------
(* The thread of the delayed stop.  It has timer_mutex_ from the end of one   *)
(* wait to the beginning of the next, except while it stops the stream.       *)
TimerTo(pc) == st' = [st EXCEPT !.timer = pc]
                /\ UNCHANGED <<owner, client, report, answer, rmOp, card, conc,
                                deferred, word>>

TimerExpires == Alive /\ st.timer = "wait" /\ TimerTo("due")

TimerWoken ==
    /\ Alive /\ st.timer = "woken"
    /\ TimerTo(IF st.timer_stop_waiting THEN "start" ELSE "due")

InternalStopRecognition ==
    /\ Alive /\ st.timer = "due" /\ owner = "free"
    /\ LET t == IF st.pending_stop THEN STOP_RECOGNITION(st) ELSE st
       IN  st' = [t EXCEPT !.timer = "back", !.ok = TRUE]
    /\ UNCHANGED <<owner, client, report, answer, rmOp, card, conc, deferred, word>>

TimerBack == Alive /\ st.timer = "back" /\ TimerTo("start")

Timer == TimerExpires \/ TimerWoken \/ InternalStopRecognition \/ TimerBack

-----------------------------------------------------------------------------
(* The threads that report a detection.                                       *)
Step(r, pc) ==
    /\ report' = [report EXCEPT ![r] = pc]
    /\ UNCHANGED <<client, rmOp, card, conc, deferred, word>>

(* The first stage detects once while it listens for the stream.              *)
Detects ==
    /\ Alive /\ report["gmm"] = "wait"
    /\ st.eng = "running" /\ st.detections < MaxDetections
    /\ st' = [st EXCEPT !.eng = "detected"]
    /\ Step("gmm", "call")
    /\ UNCHANGED <<owner, answer>>

(* BufferThreadLoop of a second stage engine.  The answer is not reported when*)
(* processing_started_ was cleared meanwhile.                                 *)
Processing(e) ==
    /\ Alive /\ report[e] = "wait" /\ e \in st.proc
    /\ Step(e, "work")
    /\ UNCHANGED <<st, owner, answer>>

Processed(e) ==
    /\ Alive /\ report[e] = "work"
    /\ IF e \in st.proc
       THEN (\E good \in BOOLEAN : answer' = [answer EXCEPT ![e] = good]) /\ Step(e, "call")
       ELSE Step(e, "wait") /\ UNCHANGED answer
    /\ UNCHANGED <<st, owner>>

(* The end of the loop clears processing_started_, whoever has set it.        *)
Forget(r) == answer' = [answer EXCEPT ![r] = FALSE]
Back(s, r) == [s EXCEPT !.proc = @ \ {r}]

Expected(r) == IF r = "gmm" THEN "ACTIVE" ELSE "BUFFERING"

(* SetEngineDetectionState with the mutex taken.  The end looks at            *)
(* mutex_unlocked_after_cb_, which another reporter may have set.             *)
Unlock(s) == IF s.mutex_unlocked_after_cb THEN Crash(s) ELSE s

Notifies(s, r) ==
    IF r = "gmm" THEN s.stage2 = {}
    ELSE IF answer[r] THEN Accepted(s, r) = s.stage2
    ELSE NotifyFailure /\ ~s.rejection_notified

Handled(s, r, f) ==
    LET t == IF r = "gmm" THEN Active_DETECTED(s)
             ELSE IF answer[r] THEN Buffering_ACCEPT(s, r)
             ELSE Buffering_REJECT(s, r, f)
    IN  IF Notifies(s, r) THEN notifyClient(t) ELSE Unlock(Back(t, r))

SetEngineDetectionState(r) ==
    /\ Alive /\ report[r] = "call" /\ owner = "free"
    /\ IF st.state # Expected(r)
       THEN st' = Back(st, r) /\ Step(r, "wait") /\ Forget(r)
       ELSE /\ LET H(s, f) == Handled(s, r, f) IN Apply(H)
            /\ IF Notifies(st, r)
               THEN Step(r, "callback") /\ UNCHANGED answer
               ELSE Step(r, "wait") /\ Forget(r)
    /\ UNCHANGED owner

(* try_lock fails while another thread has the mutex; the loop ends without it*)
(* in a state that does not expect a detection, and the state is read again.  *)
GivesUp(r) ==
    /\ Alive /\ report[r] = "call" /\ owner # "free"
    /\ st.state \notin {"ACTIVE", "BUFFERING"}
    /\ Step(r, "unlocked")
    /\ UNCHANGED <<st, owner, answer>>

WithoutLock(r) ==
    /\ Alive /\ report[r] = "unlocked"
    /\ st' = IF st.state # Expected(r) THEN Back(st, r) ELSE Crash(st)
    /\ Step(r, "wait")
    /\ Forget(r) /\ UNCHANGED owner

(* After the callback of a rejection the wake lock is released a first time.  *)
AfterCallback(s, r) ==
    IF r # "gmm" /\ ~answer[r]
    THEN Mark(releaseWakeLock(s), TRUE, "wake") ELSE s

CallbackReturns(r) ==
    /\ Alive /\ report[r] = "callback" /\ owner = "free"
    /\ st' = Unlock(Back(AfterCallback(st, r), r))
    /\ Step(r, "wait")
    /\ Forget(r) /\ UNCHANGED owner

(* The client stops the stream during the callback and has the mutex.         *)
CallbackGivesUp(r) ==
    /\ Alive /\ report[r] = "callback" /\ owner # "free"
    /\ st.state \notin {"DETECTED", "BUFFERING"}
    /\ st' = [AfterCallback(st, r) EXCEPT !.mutex_unlocked_after_cb = TRUE]
    /\ Step(r, "end")
    /\ UNCHANGED <<owner, answer>>

NoUnlock(r) ==
    /\ Alive /\ report[r] = "end"
    /\ st' = IF st.mutex_unlocked_after_cb
             THEN [Back(st, r) EXCEPT !.mutex_unlocked_after_cb = FALSE]
             ELSE Crash(st)
    /\ Step(r, "wait")
    /\ Forget(r) /\ UNCHANGED owner

Engine(r) ==
    \/ (r \in Stage2 /\ (Processing(r) \/ Processed(r)))
    \/ SetEngineDetectionState(r) \/ GivesUp(r) \/ WithoutLock(r)
    \/ CallbackReturns(r) \/ CallbackGivesUp(r) \/ NoUnlock(r)

-----------------------------------------------------------------------------
(* The resource manager: one thing at a time, under mActiveStreamMutex.       *)
RmFree == Alive /\ rmOp = "none" /\ owner = "free" /\ Unswitched
RmKeeps == UNCHANGED <<client, report, answer, deferred, word>>

ssrDownHandler ==
    /\ "ssr" \in RmOps /\ RmFree /\ card = "up"
    /\ Apply(SSR_OFFLINE)
    /\ card' = "down"
    /\ UNCHANGED <<owner, rmOp, conc>> /\ RmKeeps

ssrUpHandler ==
    /\ RmFree /\ card = "down"
    /\ Apply(SSR_ONLINE)
    /\ card' = "up"
    /\ UNCHANGED <<owner, rmOp, conc>> /\ RmKeeps

Pause ==
    /\ "pause" \in RmOps /\ RmFree /\ ~conc
    /\ LET H(s, f) == Mark(FSTAGE_UNLOAD(PAUSE(s, FALSE), f), TRUE, "pause")
       IN  Apply(H)
    /\ conc' = TRUE
    /\ UNCHANGED <<owner, rmOp, card>> /\ RmKeeps

Resume ==
    /\ RmFree /\ conc
    /\ LET H(s, f) == RESUME(FSTAGE_LOAD(s, f), FALSE, f) IN Apply(H)
    /\ conc' = FALSE
    /\ UNCHANGED <<owner, rmOp, card>> /\ RmKeeps

(* Operations in two halves, with the mutex held from the first to the second.*)
FirstHalf(op) ==
    /\ op \in RmOps /\ RmFree /\ rmOp' = op /\ owner' = "rm"
    /\ UNCHANGED <<card, conc>> /\ RmKeeps
Completes(op) ==
    /\ Alive /\ rmOp = op /\ rmOp' = "none" /\ owner' = "free"
    /\ UNCHANGED <<card, conc, client, report, answer, word>>
SecondHalf(op) == Completes(op) /\ UNCHANGED deferred

DisconnectDevice == FirstHalf("device") /\ Apply(DEVICE_DISCONNECTED)
ConnectDevice == SecondHalf("device") /\ Apply(DEVICE_CONNECTED)

HandleConcurrentStreamOff ==
    /\ FirstHalf("concurrent")
    /\ LET H(s, f) == CONCURRENT_STREAM(s, FALSE, f) IN Apply(H)
HandleConcurrentStreamOn ==
    /\ SecondHalf("concurrent")
    /\ LET H(s, f) == CONCURRENT_STREAM(s, TRUE, f) IN Apply(H)

(* The second half of the switch that was deferred, or all of it for a stream *)
(* whose capture profile stays the same.  mStreamMutex is released and taken  *)
(* again for the start of a stream on the list.                               *)
HandleDeferredSwitchOn ==
    /\ Completes("concurrent") /\ deferred = "waiting" /\ card = "up"
    /\ LET H(s, f) == CONCURRENT_STREAM(s, TRUE, f) IN Apply(H)
    /\ deferred' = "due"
HandleDeferredSwitch ==
    /\ RmFree /\ deferred = "waiting" /\ card = "up"
    /\ deferred' = "due"
    /\ UNCHANGED <<st, owner, client, report, answer, rmOp, card, conc, word>>
StartDeferred ==
    /\ Alive /\ deferred = "due" /\ owner = "free"
    /\ Apply(start_l)
    /\ deferred' = "no"
    /\ UNCHANGED <<owner, client, report, answer, rmOp, card, conc, word>>

InternalPause ==
    /\ FirstHalf("internal")
    /\ LET H(s, f) == FSTAGE_UNLOAD(PAUSE(s, TRUE), f) IN Apply(H)
InternalResume ==
    /\ SecondHalf("internal")
    /\ LET H(s, f) == RESUME(FSTAGE_LOAD(s, f), TRUE, f) IN Apply(H)

SecondHalves ==
    \/ ConnectDevice \/ InternalResume
    \/ HandleConcurrentStreamOn \/ HandleDeferredSwitchOn

ResourceManager ==
    \/ ssrDownHandler \/ ssrUpHandler \/ Pause \/ Resume
    \/ DisconnectDevice \/ HandleConcurrentStreamOff \/ InternalPause
    \/ SecondHalves \/ HandleDeferredSwitch \/ StartDeferred

Next ==
    \/ ClientLock \/ Client \/ deferStart \/ stopUndeferred
    \/ closed \/ delete \/ deleted
    \/ Timer
    \/ Detects \/ (\E r \in Reporter : Engine(r))
    \/ ResourceManager

Spec == Init /\ [][Next]_vars

-----------------------------------------------------------------------------
(* Properties.                                                                *)
(* The stream between two events, before it is closed.                        *)
Quiet == owner = "free" /\ Alive /\ client # "closed"
(* The histories the property is not about.                                   *)
Without(X) == st.past \cap X = {}

(* Whatever the client, the resource manager and the engines do in whatever   *)
(* order, the microphone runs only for a stream that listens or has detected, *)
(* it is open and attached, and it is on the list of active devices exactly   *)
(* while it runs.  Excepted are the paths of the code that leave a device     *)
(* running: a failed RestartRecognition, a failed ConnectSessionDevice, a     *)
(* failed stop of a device switch, a second start of a running device.        *)
DeviceRuns ==
    Quiet /\ Without({"device"}) =>
        /\ st.started <=> st.registered
        /\ st.started => st.state \in Running /\ st.mDevices /\ st.device_opened

(* The wake lock taken for a detection is released exactly once, by whichever *)
(* of restart, stop, delayed stop, rejection, pause, subsystem restart, device*)
(* and LPI switch ends the detection, and the vote against sleep of a read    *)
(* does not outlive the buffering.  Excepted are a device switch during the   *)
(* second stage and a recovery that left state_for_restore_ behind.           *)
WakeHeld ==
    Quiet /\ Without({"wake", "restore"}) =>
        /\ st.wake = IF st.state \in {"DETECTED", "BUFFERING"} THEN 1 ELSE 0
        /\ st.sleepVote => st.state = "BUFFERING"

(* A stream listens only if the client's last word was start and no detection *)
(* was reported since: neither the recovery of the subsystem nor a resume nor *)
(* a switch, nor the start of the streams deferred by a switch, starts a      *)
(* stream that was stopped or that has reported its detection.  Excepted are a*)
(* stop of an NLPI stream that was started already, which the code ignores,   *)
(* and a recovery that ended early and left state_for_restore_ behind.        *)
ActiveIsWanted ==
    Quiet /\ Without({"restore"}) /\ st.state = "ACTIVE" =>
        /\ st.currentState = "STARTED"
        /\ word \in {"start", "ignored"}
        /\ Lpi => word = "start"

(* What the description of pal_stream_stop says: after a stop that returned   *)
(* success the stream does not listen.                                        *)
StopStops ==
    Quiet /\ Without({"restore"}) /\ word \in {"stop", "ignored"} => st.state # "ACTIVE"

(* A stream the client has started listens, or its second stage is at work,   *)
(* after any number of subsystem restarts, device switches, LPI switches and  *)
(* internal pauses, as long as no call failed.  Excepted are a pause by a     *)
(* concurrency, a new configuration until the next start, and a recovery that *)
(* ended early.                                                               *)
RunsWhenWanted ==
    /\ Quiet /\ Without({"pause", "config", "restore"})
    /\ st.faults = 0 /\ st.currentState = "STARTED" /\ card = "up"
    => st.state \in {"ACTIVE", "BUFFERING"}

=============================================================================
