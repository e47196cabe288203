------------------------------- MODULE LpiSwitch -------------------------------
(* The concurrency of detection streams with the other streams (STUtils.cpp):  *)
(* which streams keep the detection out of the low power island (LPI), the      *)
(* switch between LPI and NLPI and its deferral while a stream buffers or for   *)
(* the low latency barge-in delay, the pause of detection during calls, and the *)
(* deferred starts.  A step is what runs under mActiveStreamMutex.  Of a        *)
(* detection stream (StreamSoundTrigger has its state machine) only its         *)
(* constructor, and whether it runs, in which mode, and buffers, is kept.       *)
EXTENDS Integers, FiniteSets

CONSTANTS
    Audio,      \* streams whose concurrency with detection is supported
    Calls,      \* voice calls, whose concurrency is not supported
    Crs,        \* voice calls with the "crsCall" device key
    Nlpi,       \* voice UI streams configured to run in NLPI
    Vui,        \* the other voice UI streams
    Bargein,    \* IsLowLatencyBargeinSupported()
    OnCharging, \* IsTransitToNonLPIOnChargingSupported()
    Delay       \* NLPI_LPI_SWITCH_DELAY_SEC

Others == Audio \cup Calls \cup Crs     \* pal_stream_open and pal_stream_close
Det == Nlpi \cup Vui                    \* detection streams
Streams == Others \cup Det

ASSUME LpiAssumption ==
    /\ IsFiniteSet(Streams)
    /\ Nlpi \cap Vui = {} /\ Others \cap Det = {}
    /\ Audio \cap (Calls \cup Crs) = {} /\ Calls \cap Crs = {}
    /\ Bargein \in BOOLEAN /\ OnCharging \in BOOLEAN
    /\ Delay \in Nat \ {0}

VARIABLES
    use_lpi, deferredSwitchState, deferred_switch_cnt,
    mNLPIStreams, TxconcurrencyEnableCount, concurrencyDisableCount,
    mStartDeferredStreams,
    charging,   \* charging_state_, and whether onChargingStateChange is still to come
    crs,        \* isCRSCallEnabled
    card,       \* the sound card
    pc,         \* per stream: how far its client is
    paused,     \* detection streams with paused_
    started,    \* detection streams with currentState STREAM_STARTED
    run,        \* per detection stream: the mode it runs in, or off
    buffering,  \* IsStreamInBuffering()
    late,       \* streams whose buffering ended and whose thread calls
                \* stHandleDeferredSwitch
    loop,       \* voiceUIDeferredSwitchLoop
    race        \* history: a detection stream came or went while another one or
                \* the battery did, or with a switch deferred

lpi == <<use_lpi, deferredSwitchState, deferred_switch_cnt>>
conc == <<mNLPIStreams, TxconcurrencyEnableCount, concurrencyDisableCount>>
det == <<paused, started, run, buffering, late, mStartDeferredStreams>>
env == <<charging, crs, card, race>>
vars == <<lpi, conc, det, env, pc, loop>>

TypeOK ==
    /\ use_lpi \in BOOLEAN
    /\ deferredSwitchState \in {"NO_DEFER", "LPI_NLPI", "NLPI_LPI"}
    /\ deferred_switch_cnt \in -1..Delay
    /\ mNLPIStreams \subseteq Streams
    /\ TxconcurrencyEnableCount \in 0..Cardinality(Streams)
    /\ concurrencyDisableCount \in 0..Cardinality(Streams)
    /\ mStartDeferredStreams \subseteq Nlpi
    /\ charging \in [state : BOOLEAN, pending : BOOLEAN]
    /\ crs \in BOOLEAN
    /\ card \in {"up", "down"}
    /\ pc \in [Streams -> {"closed", "registered", "first", "opened", "counted", "zero",
                           "loaded", "active", "start", "go", "push", "closing", "gone",
                           "last"}]
    /\ paused \subseteq Det /\ started \subseteq Det
    /\ buffering \subseteq Vui /\ late \subseteq Vui
    /\ run \in [Det -> {"off", "lpi", "nlpi"}]
    /\ loop \in {"top", "sleep", "switch", "reset"}
    /\ race \in BOOLEAN

Init ==
    /\ use_lpi = TRUE
    /\ deferredSwitchState = "NO_DEFER"
    /\ deferred_switch_cnt = -1
    /\ mNLPIStreams = {}
    /\ TxconcurrencyEnableCount = 0
    /\ concurrencyDisableCount = 0
    /\ mStartDeferredStreams = {}
    /\ charging = [state |-> FALSE, pending |-> FALSE]
    /\ crs = FALSE
    /\ card = "up"
    /\ pc = [s \in Streams |-> "closed"]
    /\ paused = {} /\ started = {} /\ buffering = {} /\ late = {}
    /\ run = [d \in Det |-> "off"]
    /\ loop = "top"
    /\ race = FALSE

Go(s, step) == pc' = [pc EXCEPT ![s] = step]
Registered(S) == {d \in S : pc[d] \notin {"closed", "gone", "last"}}
Mode(use) == IF use THEN "lpi" ELSE "nlpi"

-----------------------------------------------------------------------------
(* GetConcurrencyInfo: every stream here has a side that counts.  The         *)
(* concurrency with a voice call depends on the flag of the CRS call.         *)
Concurrent(s) == s \in Calls \cup Crs => crs
Tx(s) == s \notin Audio

(* What a switch is planned from: the mode after the deferred switch.         *)
use_lpi_temp ==
    CASE deferredSwitchState = "LPI_NLPI" -> FALSE
      [] deferredSwitchState = "NLPI_LPI" -> TRUE
      [] OTHER -> use_lpi

(* handleConcurrentStreamSwitch: every detection stream is stopped and        *)
(* unloaded, then loaded, and started if its client has started it.           *)
Restarted(use) ==
    [d \in Det |-> IF d \in started \ paused /\ card = "up" THEN Mode(use) ELSE "off"]
handleConcurrentStreamSwitch(use) == run' = Restarted(use)

(* checkAndUpdateDeferSwitchState: a switch that is deferred is cancelled by  *)
(* the opposite one; otherwise it is deferred for the barge-in delay or while *)
(* a stream buffers.                                                          *)
(* A faulty version of the code: the cancelled switch stays deferred.         *)
CancelKeepsState(active) ==
    /\ deferredSwitchState = IF active THEN "NLPI_LPI" ELSE "LPI_NLPI"
    /\ UNCHANGED <<lpi, run>>

Cancel(active) ==
    /\ deferredSwitchState = IF active THEN "NLPI_LPI" ELSE "LPI_NLPI"
    /\ deferredSwitchState' = "NO_DEFER"
    /\ deferred_switch_cnt' = IF Bargein THEN -1 ELSE deferred_switch_cnt
    /\ UNCHANGED <<use_lpi, run>>
DeferFor(active) ==
    /\ deferredSwitchState # IF active THEN "NLPI_LPI" ELSE "LPI_NLPI"
    /\ \/ buffering # {}
       \/ ~active /\ Bargein /\ Registered(Det) # {}
    /\ deferredSwitchState' = IF active THEN "LPI_NLPI" ELSE "NLPI_LPI"
    /\ deferred_switch_cnt' = IF ~active /\ Bargein /\ Registered(Det) # {}
                              THEN Delay ELSE deferred_switch_cnt
    /\ UNCHANGED <<use_lpi, run>>
(* A faulty version of the code: the streams are not restarted.               *)
SwitchNowOnly(active) ==
    /\ deferredSwitchState # IF active THEN "NLPI_LPI" ELSE "LPI_NLPI"
    /\ buffering = {}
    /\ active \/ ~Bargein \/ Registered(Det) = {}
    /\ use_lpi' = ~active
    /\ UNCHANGED <<run, deferredSwitchState, deferred_switch_cnt>>

SwitchNow(active) ==
    /\ deferredSwitchState # IF active THEN "NLPI_LPI" ELSE "LPI_NLPI"
    /\ buffering = {}
    /\ active \/ ~Bargein \/ Registered(Det) = {}
    /\ use_lpi' = ~active
    /\ handleConcurrentStreamSwitch(~active)
    /\ UNCHANGED <<deferredSwitchState, deferred_switch_cnt>>
Switch(active) == Cancel(active) \/ DeferFor(active) \/ SwitchNow(active)
NoSwitch == UNCHANGED <<lpi, run>>

ForCharging == charging.state /\ OnCharging /\ Registered(Det) # {}

(* HandleConcurrencyForSoundTriggerStreams.                                   *)
TxCount(s, active) ==
    TxconcurrencyEnableCount' =
        CASE ~Tx(s) -> TxconcurrencyEnableCount
          [] Tx(s) /\ active -> TxconcurrencyEnableCount + 1
          [] OTHER -> IF TxconcurrencyEnableCount > 0
                      THEN TxconcurrencyEnableCount - 1 ELSE 0

NlpiSwitch(s, active) ==
    /\ mNLPIStreams' = IF active THEN mNLPIStreams \cup {s} ELSE mNLPIStreams \ {s}
    /\ IF IF active THEN use_lpi_temp ELSE mNLPIStreams' = {} /\ ~ForCharging
       THEN Switch(active) ELSE NoSwitch
    /\ UNCHANGED <<concurrencyDisableCount, paused, buffering>>

(* HandleStreamPauseResume: the first call pauses every detection stream, the *)
(* end of the last one resumes them, and their clients start them again.      *)
HandleStreamPauseResume(active) ==
    LET n == concurrencyDisableCount
    IN  /\ concurrencyDisableCount' = IF active THEN n + 1 ELSE IF n > 0 THEN n - 1 ELSE 0
        /\ paused' = CASE active /\ n = 0 -> paused \cup Registered(Det)
                       [] ~active /\ n = 1 -> paused \ Registered(Det)
                       [] OTHER -> paused
        /\ run' = IF active /\ n = 0 THEN [d \in Det |-> "off"] ELSE run
        /\ buffering' = IF active /\ n = 0 THEN {} ELSE buffering
        /\ UNCHANGED <<lpi, mNLPIStreams>>

HandleConcurrencyForSoundTriggerStreams(s, active) ==
    /\ TxCount(s, active)
    /\ IF Concurrent(s) THEN NlpiSwitch(s, active) ELSE HandleStreamPauseResume(active)

(* stHandleDeferredSwitch: when nothing buffers any more, the deferred switch *)
(* is done, and the streams that wait for NLPI are started.                   *)
Deferred == card = "up" /\ buffering = {} /\ deferredSwitchState # "NO_DEFER"

stHandleDeferredSwitch ==
    LET nlpi == deferredSwitchState = "LPI_NLPI"
        now == IF nlpi THEN mStartDeferredStreams ELSE {}
    IN  IF ~Deferred
        THEN UNCHANGED <<lpi, run, started, mStartDeferredStreams>>
        ELSE /\ use_lpi' = ~nlpi
             /\ run' = [d \in Det |-> IF d \in now \ paused THEN "nlpi"
                                      ELSE Restarted(~nlpi)[d]]
             /\ started' = started \cup now
             /\ mStartDeferredStreams' = mStartDeferredStreams \ now
             /\ deferredSwitchState' = "NO_DEFER"
             /\ UNCHANGED deferred_switch_cnt

-----------------------------------------------------------------------------
(* pal_stream_open and pal_stream_close of the other streams.  The flag of the*)
(* CRS call is set when its session is opened, and reset when any voice call  *)
(* is closed.                                                                 *)
Open(s) ==
    /\ s \in Others /\ pc[s] = "closed"
    /\ crs' = (crs \/ s \in Crs)
    /\ \E opened \in {"opened", "closed"} : Go(s, opened)
    /\ UNCHANGED <<lpi, conc, det, charging, card, race, loop>>

NotifyOpened(s) ==
    /\ s \in Others /\ pc[s] = "opened"
    /\ HandleConcurrencyForSoundTriggerStreams(s, TRUE)
    /\ Go(s, "active")
    /\ UNCHANGED <<started, late, mStartDeferredStreams, env, loop>>

NotifyClosed(s) ==
    /\ s \in Others /\ pc[s] = "active"
    /\ HandleConcurrencyForSoundTriggerStreams(s, FALSE)
    /\ Go(s, "closing")
    /\ UNCHANGED <<started, late, mStartDeferredStreams, env, loop>>

Closed(s) ==
    /\ s \in Others /\ pc[s] = "closing"
    /\ crs' = (crs /\ s \notin Calls \cup Crs)
    /\ Go(s, "closed")
    /\ UNCHANGED <<lpi, conc, det, charging, card, race, loop>>

-----------------------------------------------------------------------------
(* The constructor and the destructor of a detection stream take the mutex    *)
(* for each of their calls: for the list of streams, for the number of voice  *)
(* UI streams on it, for the battery when that number says that this one is   *)
(* the first or was the last, and the constructor for the number of calls,    *)
(* from which it sets paused_ last.                                           *)
Between == {d \in Det : pc[d] \in {"registered", "first", "gone", "last"}}

MarkRace ==
    race' = (race \/ (OnCharging /\ (\/ charging.pending \/ Between # {}
                                     \/ deferredSwitchState # "NO_DEFER")))

registerStream(d) ==
    /\ d \in Det /\ pc[d] = "closed"
    /\ Go(d, "registered")
    /\ MarkRace
    /\ UNCHANGED <<lpi, conc, det, charging, crs, card, loop>>

CountRegistered(d) ==
    /\ d \in Det /\ pc[d] = "registered"
    /\ Go(d, IF Registered(Det) = {d} THEN "first" ELSE "opened")
    /\ UNCHANGED <<lpi, conc, det, env, loop>>

(* It restarts no voice UI stream.                                           *)
onVUIStreamRegistered(d) ==
    /\ d \in Det /\ pc[d] = "first"
    /\ Go(d, "opened")
    /\ use_lpi' = (use_lpi /\ ~(charging.state /\ OnCharging))
    /\ UNCHANGED <<deferredSwitchState, deferred_switch_cnt, conc, det, env, loop>>

ReadCount(d) ==
    /\ d \in Det /\ pc[d] = "opened"
    /\ Go(d, IF concurrencyDisableCount > 0 THEN "counted" ELSE "zero")
    /\ UNCHANGED <<lpi, conc, det, env, loop>>

(* A faulty version of the code: the count is not looked at.                  *)
ConstructedRunning(d) ==
    /\ d \in Det /\ pc[d] \in {"counted", "zero"}
    /\ Go(d, IF d \in Nlpi THEN "loaded" ELSE "active")
    /\ UNCHANGED <<lpi, conc, det, env, loop>>

Constructed(d) ==
    /\ d \in Det /\ pc[d] \in {"counted", "zero"}
    /\ paused' = IF pc[d] = "counted" THEN paused \cup {d} ELSE paused
    /\ Go(d, IF d \in Nlpi THEN "loaded" ELSE "active")
    /\ UNCHANGED <<lpi, conc, started, run, buffering, late, mStartDeferredStreams,
                   env, loop>>

(* The end of a load: ConcurrentStreamStatus counts for a stream in NLPI.     *)
NotifyLoaded(d) ==
    /\ d \in Nlpi /\ pc[d] = "loaded"
    /\ HandleConcurrencyForSoundTriggerStreams(d, TRUE)
    /\ Go(d, "active")
    /\ UNCHANGED <<started, late, mStartDeferredStreams, env, loop>>

(* pal_stream_start: the deferred switch first, then start().  A paused stream*)
(* does not run, whatever start returns.                                      *)
StartHandlesDeferred(d) ==
    /\ d \in Det /\ pc[d] = "active" /\ d \notin started \cup mStartDeferredStreams
    /\ stHandleDeferredSwitch
    /\ Go(d, "start")
    /\ UNCHANGED <<deferred_switch_cnt, conc, paused, buffering, late, env, loop>>

(* A faulty version of the code: a stream in NLPI starts at once.             *)
MustNotWait(d) == d \notin Det

MustWait(d) == d \in Nlpi /\ deferredSwitchState = "LPI_NLPI"

(* getSTDeferedSwitchState takes the mutex for itself.                        *)
Start(d) ==
    /\ d \in Det /\ pc[d] = "start"
    /\ Go(d, IF MustWait(d) THEN "push" ELSE "go")
    /\ UNCHANGED <<lpi, conc, det, env, loop>>

start_l(d) ==
    /\ d \in Det /\ pc[d] = "go"
    /\ Go(d, "active")
    /\ buffering' = buffering \ {d}
    /\ \E begun \in {started \cup {d}} \cup (IF d \in paused THEN {started} ELSE {}) :
          started' = begun
    /\ run' = IF d \in paused \/ card = "down" \/ run[d] # "off" THEN run
              ELSE [run EXCEPT ![d] = Mode(use_lpi)]
    /\ UNCHANGED <<lpi, conc, paused, late, mStartDeferredStreams, env, loop>>

(* updateDeferredSTStreams takes the mutex again.                             *)
Push(d) ==
    /\ d \in Det /\ pc[d] = "push"
    /\ mStartDeferredStreams' = mStartDeferredStreams \cup {d}
    /\ Go(d, "active")
    /\ UNCHANGED <<lpi, conc, paused, started, run, buffering, late, env, loop>>

(* stop() of a stream in NLPI only takes it off the list.                     *)
Stop(d) ==
    /\ d \in Det /\ pc[d] = "active"
    /\ IF d \in Nlpi
       THEN mStartDeferredStreams' = mStartDeferredStreams \ {d}
            /\ UNCHANGED <<started, run, buffering>>
       ELSE /\ started' = started \ {d}
            /\ run' = [run EXCEPT ![d] = "off"]
            /\ buffering' = buffering \ {d}
            /\ UNCHANGED mStartDeferredStreams
    /\ UNCHANGED <<lpi, conc, paused, late, env, pc, loop>>

(* A detection with capture; its buffering ends with STOP_BUFFERING or with a *)
(* rejection, which restarts the stream.                                      *)
Detect(d) ==
    /\ d \in Vui \cap started /\ run[d] # "off" /\ d \notin buffering
    /\ started' = started \ {d}
    /\ buffering' = buffering \cup {d}
    /\ UNCHANGED <<lpi, conc, paused, run, late, mStartDeferredStreams, env, pc, loop>>

EndBuffering(d) ==
    /\ d \in buffering
    /\ buffering' = buffering \ {d}
    /\ late' = late \cup {d}
    /\ \E rejected \in BOOLEAN :
          started' = IF rejected THEN started \cup {d} ELSE started
    /\ UNCHANGED <<lpi, conc, paused, run, mStartDeferredStreams, env, pc, loop>>

HandleLate(d) ==
    /\ d \in late
    /\ stHandleDeferredSwitch
    /\ late' = late \ {d}
    /\ UNCHANGED <<deferred_switch_cnt, conc, paused, buffering, env, pc, loop>>

(* close() of a stopped detection stream, and its destructor.                 *)
CloseDet(d) ==
    /\ d \in Det /\ pc[d] = "active" /\ d \notin mStartDeferredStreams \cup late
    /\ d \in Vui => d \notin started
    /\ started' = started \ {d}
    /\ run' = [run EXCEPT ![d] = "off"]
    /\ buffering' = buffering \ {d}
    /\ Go(d, "closing")
    /\ UNCHANGED <<lpi, conc, paused, late, mStartDeferredStreams, env, loop>>

NotifyUnloaded(d) ==
    /\ d \in Nlpi /\ pc[d] = "closing" /\ d \in mNLPIStreams
    /\ HandleConcurrencyForSoundTriggerStreams(d, FALSE)
    /\ UNCHANGED <<started, late, mStartDeferredStreams, env, pc, loop>>

deregisterStream(d) ==
    /\ d \in Det /\ pc[d] = "closing" /\ d \notin mNLPIStreams
    /\ Go(d, "gone")
    /\ paused' = paused \ {d}
    /\ MarkRace
    /\ UNCHANGED <<lpi, conc, started, run, buffering, late, mStartDeferredStreams,
                   charging, crs, card, loop>>

CountDeregistered(d) ==
    /\ d \in Det /\ pc[d] = "gone"
    /\ Go(d, IF Registered(Det) = {} THEN "last" ELSE "closed")
    /\ UNCHANGED <<lpi, conc, det, env, loop>>

(* It does not look at the list again.                                       *)
onVUIStreamDeregistered(d) ==
    /\ d \in Det /\ pc[d] = "last"
    /\ Go(d, "closed")
    /\ use_lpi' = (use_lpi \/ (charging.state /\ OnCharging /\ mNLPIStreams = {}))
    /\ UNCHANGED <<deferredSwitchState, deferred_switch_cnt, conc, det, env, loop>>

-----------------------------------------------------------------------------
(* The battery.  charging_state_ is set before the mutex is taken.            *)
SetCharging ==
    /\ OnCharging /\ ~charging.pending
    /\ charging' = [state |-> ~charging.state, pending |-> TRUE]
    /\ race' = (race \/ Between # {})
    /\ UNCHANGED <<lpi, conc, det, crs, card, pc, loop>>

onChargingStateChange ==
    /\ charging.pending
    /\ charging' = [charging EXCEPT !.pending = FALSE]
    /\ IF /\ Registered(Det) # {}
          /\ IF charging.state THEN use_lpi_temp ELSE ~use_lpi_temp /\ mNLPIStreams = {}
       THEN Switch(charging.state) ELSE NoSwitch
    /\ UNCHANGED <<conc, paused, started, buffering, late, mStartDeferredStreams,
                   crs, card, race, pc, loop>>

(* The subsystem: detection streams stop and are restored.                    *)
CardDown ==
    /\ card = "up" /\ card' = "down"
    /\ run' = [d \in Det |-> "off"] /\ buffering' = {}
    /\ UNCHANGED <<lpi, conc, paused, started, late, mStartDeferredStreams, charging,
                   crs, race, pc, loop>>
CardUp ==
    /\ card = "down" /\ card' = "up"
    /\ run' = [d \in Det |-> IF d \in started \ paused THEN Mode(use_lpi) ELSE "off"]
    /\ UNCHANGED <<lpi, conc, paused, started, buffering, late, mStartDeferredStreams,
                   charging, crs, race, pc, loop>>

(* voiceUIDeferredSwitchLoop counts the seconds of the delay down.            *)
LoopTo(step) == loop' = step /\ UNCHANGED <<conc, env, pc>>
(* A faulty version of the code: the count goes down while nothing waits.     *)
TickAlways ==
    /\ Bargein /\ loop = "top"
    /\ deferred_switch_cnt' = deferred_switch_cnt - 1
    /\ LoopTo("sleep") /\ UNCHANGED <<use_lpi, deferredSwitchState, det>>

Tick ==
    /\ Bargein /\ loop = "top" /\ deferred_switch_cnt > 0
    /\ deferred_switch_cnt' = deferred_switch_cnt - 1
    /\ LoopTo("sleep") /\ UNCHANGED <<use_lpi, deferredSwitchState, det>>
Slept ==
    /\ loop = "sleep"
    /\ LoopTo(IF deferred_switch_cnt = 0 THEN "switch" ELSE "top")
    /\ UNCHANGED <<lpi, det>>
LoopSwitch ==
    /\ loop = "switch"
    /\ stHandleDeferredSwitch
    /\ LoopTo("reset") /\ UNCHANGED <<deferred_switch_cnt, paused, buffering, late>>
LoopReset ==
    /\ loop = "reset"
    /\ deferred_switch_cnt' = IF deferred_switch_cnt = 0 THEN -1 ELSE deferred_switch_cnt
    /\ LoopTo("top") /\ UNCHANGED <<use_lpi, deferredSwitchState, det>>
Loop == Tick \/ Slept \/ LoopSwitch \/ LoopReset

Next ==
    \/ \E s \in Others : Open(s) \/ NotifyOpened(s) \/ NotifyClosed(s) \/ Closed(s)
    \/ \E d \in Det :
        \/ registerStream(d) \/ CountRegistered(d) \/ onVUIStreamRegistered(d)
        \/ ReadCount(d) \/ Constructed(d) \/ NotifyLoaded(d)
        \/ StartHandlesDeferred(d) \/ Start(d) \/ start_l(d) \/ Push(d) \/ Stop(d)
        \/ Detect(d) \/ EndBuffering(d) \/ HandleLate(d)
        \/ CloseDet(d) \/ NotifyUnloaded(d)
        \/ deregisterStream(d) \/ CountDeregistered(d) \/ onVUIStreamDeregistered(d)
    \/ SetCharging \/ onChargingStateChange
    \/ CardDown \/ CardUp
    \/ Loop

Spec == Init /\ [][Next]_vars

-----------------------------------------------------------------------------
(* Properties.                                                                *)
WantsNlpi == mNLPIStreams # {} \/ ForCharging

(* The mode of the detection streams is the one the open streams and the      *)
(* battery ask for, or the switch to it is the one that is deferred: no order *)
(* of opens, closes, deferrals, cancellations and delayed switches leaves the *)
(* decision and the mode apart once the battery and the constructors and      *)
(* destructors have taken their turn.  Excepted are histories in which a      *)
(* detection stream came or went while another one or the battery did, or     *)
(* with a switch deferred: onVUIStreamRegistered and onVUIStreamDeregistered  *)
(* act on what was counted before, and without a look at the deferral.        *)
(* (A deferral that ends with the card down stays until the next start of a    *)
(* detection stream or the next end of a buffering: it is pending, not lost.)   *)
SwitchDecided ==
    ~race /\ ~charging.pending /\ Between = {} =>
        CASE deferredSwitchState = "NO_DEFER" -> use_lpi = ~WantsNlpi
          [] deferredSwitchState = "LPI_NLPI" -> use_lpi /\ WantsNlpi
          [] OTHER -> ~use_lpi /\ ~WantsNlpi

(* A detection stream runs in the mode use_lpi_ says, also when it started, or*)
(* came back from a pause or a subsystem restart, around a switch; and one    *)
(* configured for NLPI never runs in LPI: its start waits for the deferred    *)
(* switch.  The same histories are excepted.                                  *)
RunsInMode ==
    ~race =>
        /\ \A d \in Det : run[d] \in {"off", Mode(use_lpi)}
        /\ \A d \in Nlpi : run[d] # "lpi"

(* While a call forbids detection no detection stream runs, one that was      *)
(* constructed, started, switched or recovered during the call included.      *)
QuietInCalls ==
    concurrencyDisableCount > 0 => \A d \in Det : run[d] = "off"

=============================================================================
