-------------------------- MODULE LpiSwitch_proofs --------------------------
(* Proofs about LpiSwitch for any streams, with no CRS call among them: the   *)
(* flag of a CRS call changes what the close of another call undoes.          *)
EXTENDS LpiSwitch, FiniteSetTheorems, TLAPS

NoCrs == Crs = {}

(* A detection stream that is constructed and not being closed.               *)
Up == {"active", "start", "go", "push"}

(* The streams behind the two counts.                                         *)
CallSet == {s \in Calls : pc[s] = "active"}
TxSet == CallSet \cup (Nlpi \cap mNLPIStreams)
CountsExact ==
    /\ concurrencyDisableCount = Cardinality(CallSet)
    /\ TxconcurrencyEnableCount = Cardinality(TxSet)

(* The NLPI list is what is open.                                             *)
ListOK ==
    /\ mNLPIStreams \subseteq Audio \cup Nlpi
    /\ \A s \in Audio : s \in mNLPIStreams <=> pc[s] = "active"
    /\ \A d \in Nlpi : /\ pc[d] \in Up => d \in mNLPIStreams
                       /\ d \in mNLPIStreams => pc[d] \in Up \cup {"closing"}

(* Only a stream that is up is started, runs, buffers or waits for NLPI.      *)
LiveOK ==
    /\ \A d \in Det : (\/ d \in started \cup buffering \cup mStartDeferredStreams
                       \/ run[d] # "off") => pc[d] \in Up
    /\ \A d \in Vui : pc[d] # "push"

(* In a call every stream is paused, or will see the call when it reads the   *)
(* count, or has seen it, or is off the list of streams.                      *)
PausedOK ==
    concurrencyDisableCount > 0 =>
        \A d \in Det : \/ pc[d] \in {"closed", "registered", "first", "opened",
                                     "counted", "gone", "last"}
                       \/ d \in paused

(* The streams in their constructors and destructors.                          *)
Adding == {d \in Det : pc[d] \in {"registered", "first"}}
Leaving == {d \in Det : pc[d] \in {"gone", "last"}}

(* Where the battery counts, one stream at a time is between its lists and    *)
(* its call, with no change of the battery pending, and what it has counted   *)
(* is still so.                                                               *)
OneBetween ==
    ~race /\ OnCharging =>
        /\ \A d, e \in Between : d = e
        /\ Between # {} => ~charging.pending
        /\ \A d \in Det : /\ pc[d] = "first" => Registered(Det) = {d}
                          /\ pc[d] = "last" => Registered(Det) = {}

(* The only deferral such a stream can meet, when it is alone, is the one of  *)
(* a switch to LPI while nothing charges.                                     *)
FewDeferrals ==
    ~race /\ OnCharging =>
        \A d \in Between : Registered(Det) \subseteq {d} =>
            \/ deferredSwitchState = "NO_DEFER"
            \/ deferredSwitchState = "NLPI_LPI" /\ ~charging.state /\ d \in Adding

(* The first stream on the list, or the last one off it, is about to switch.  *)
ToSwitch ==
    /\ charging.state /\ OnCharging
    /\ mNLPIStreams = {} /\ deferredSwitchState = "NO_DEFER"
    /\ \/ \E d \in Adding : Registered(Det) = {d} /\ use_lpi
       \/ Leaving # {} /\ Registered(Det) = {} /\ ~use_lpi

(* A deferred switch goes away from the mode in force; the planned mode is    *)
(* the one wanted, except that a change of the battery may be pending, when   *)
(* an open stream still keeps detection out of LPI, or the call of the first  *)
(* or the last detection stream.                                              *)
PlanOK ==
    ~race =>
        /\ deferredSwitchState = "LPI_NLPI" => use_lpi
        /\ deferredSwitchState = "NLPI_LPI" => ~use_lpi
        /\ mNLPIStreams # {} => ~use_lpi_temp
        /\ mNLPIStreams = {} /\ Registered(Det) = {} /\ Between = {} => use_lpi_temp
        /\ ~charging.pending => ToSwitch \/ (use_lpi_temp <=> ~WantsNlpi)

(* No stream configured for NLPI is started while the mode is LPI.            *)
NlpiOff ==
    ~race /\ use_lpi =>
        \A d \in Nlpi : d \notin started /\ run[d] = "off" /\ pc[d] # "go"

ModeOK == ~race => \A d \in Det : run[d] \in {"off", Mode(use_lpi)}
EnvOK == ~crs /\ (charging.pending => OnCharging)

Inv ==
    /\ TypeOK /\ EnvOK
    /\ CountsExact /\ ListOK /\ LiveOK
    /\ PausedOK /\ QuietInCalls
    /\ ModeOK /\ OneBetween /\ FewDeferrals /\ PlanOK /\ NlpiOff
-----------------------------------------------------------------------------
(* What stHandleDeferredSwitch can do.                                        *)
StaysDeferred == UNCHANGED <<lpi, run, started, mStartDeferredStreams>>
SwitchesToNlpi ==
    /\ deferredSwitchState = "LPI_NLPI" /\ deferredSwitchState' = "NO_DEFER"
    /\ use_lpi' = FALSE /\ deferred_switch_cnt' = deferred_switch_cnt
    /\ run' = [d \in Det |-> IF d \in (started \cup mStartDeferredStreams) \ paused
                             THEN "nlpi" ELSE "off"]
    /\ started' = started \cup mStartDeferredStreams
    /\ mStartDeferredStreams' = {}
SwitchesToLpi ==
    /\ deferredSwitchState = "NLPI_LPI" /\ deferredSwitchState' = "NO_DEFER"
    /\ use_lpi' = TRUE /\ deferred_switch_cnt' = deferred_switch_cnt
    /\ run' = [d \in Det |-> IF d \in started \ paused THEN "lpi" ELSE "off"]
    /\ started' = started /\ mStartDeferredStreams' = mStartDeferredStreams

(* stHandleDeferredSwitch does nothing, or ends the deferral of a switch to   *)
(* NLPI, starting what waits for it, or that of a switch to LPI.              *)
LEMMA DeferredSwitchCases ==
    ASSUME TypeOK, stHandleDeferredSwitch
    PROVE  StaysDeferred \/ SwitchesToNlpi \/ SwitchesToLpi
<1>1. CASE ~Deferred
    BY <1>1 DEF stHandleDeferredSwitch, StaysDeferred
<1>2. CASE Deferred /\ deferredSwitchState = "LPI_NLPI"
    BY <1>2 DEF stHandleDeferredSwitch, SwitchesToNlpi, Deferred, Restarted, Mode
<1>3. CASE Deferred /\ deferredSwitchState = "NLPI_LPI"
    BY <1>3 DEF stHandleDeferredSwitch, SwitchesToLpi, Deferred, Restarted, Mode
<1> QED BY <1>1, <1>2, <1>3 DEF TypeOK, Deferred

(* What HandleConcurrencyForSoundTriggerStreams does with the list, and when  *)
(* it asks for a switch.                                                      *)
Listed(s, active) ==
    /\ s \notin Calls
    /\ mNLPIStreams' = IF active THEN mNLPIStreams \cup {s} ELSE mNLPIStreams \ {s}
    /\ UNCHANGED <<concurrencyDisableCount, paused, buffering>>
MaySwitch(active) ==
    IF active THEN use_lpi_temp ELSE mNLPIStreams' = {} /\ ~ForCharging

(* Without CRS calls HandleConcurrencyForSoundTriggerStreams pauses or resumes*)
(* for a call; any other stream goes through the list and may switch.         *)
LEMMA ConcurrencyCases ==
    ASSUME NoCrs, EnvOK, NEW s, NEW active \in BOOLEAN,
           HandleConcurrencyForSoundTriggerStreams(s, active)
    PROVE  /\ TxCount(s, active)
           /\ \/ s \in Calls /\ HandleStreamPauseResume(active)
              \/ Listed(s, active) /\ MaySwitch(active) /\ Switch(active)
              \/ Listed(s, active) /\ ~MaySwitch(active) /\ NoSwitch
BY DEF NoCrs, EnvOK, HandleConcurrencyForSoundTriggerStreams, Concurrent, NlpiSwitch,
       Listed, MaySwitch

(* A set of streams is no larger than the set of all of them.                 *)
LEMMA StreamSets ==
    ASSUME NEW S \in SUBSET Streams
    PROVE  IsFiniteSet(S) /\ Cardinality(S) \in 0..Cardinality(Streams)
BY LpiAssumption, FS_Subset, FS_CardinalityType

(* When onChargingStateChange asks for a switch.                              *)
MayCharge(plugged) ==
    /\ Registered(Det) # {}
    /\ IF plugged THEN use_lpi_temp ELSE ~use_lpi_temp /\ mNLPIStreams = {}

(* onChargingStateChange: the charger that is plugged in may switch to NLPI,  *)
(* the one that is taken away to LPI.                                         *)
LEMMA ChargingCases ==
    ASSUME TypeOK, onChargingStateChange
    PROVE  /\ charging.state \in BOOLEAN /\ charging.pending
           /\ charging'.state = charging.state /\ charging'.pending = FALSE
           /\ \E plugged \in BOOLEAN :
                /\ charging.state = plugged
                /\ \/ MayCharge(plugged) /\ Switch(plugged)
                   \/ ~MayCharge(plugged) /\ NoSwitch
<1>1. charging.state \in BOOLEAN
    BY DEF TypeOK
<1>2. charging'.state = charging.state /\ charging'.pending = FALSE
    BY DEF TypeOK, onChargingStateChange
<1> QED BY <1>1, <1>2 DEF onChargingStateChange, MayCharge

(* A step that leaves the counts and what they count alone.                   *)
SameCounts ==
    /\ CallSet' = CallSet /\ TxSet' = TxSet
    /\ UNCHANGED <<concurrencyDisableCount, TxconcurrencyEnableCount>>

(* Such a step keeps the counts right.                                        *)
LEMMA CountsSame ==
    ASSUME CountsExact, SameCounts PROVE CountsExact'
BY DEF CountsExact, SameCounts

-----------------------------------------------------------------------------
(* The battery callback comes only where the charger counts, and no CRS flag  *)
(* is set.                                                                    *)
LEMMA EnvStep ==
    ASSUME NoCrs, Inv, [Next]_vars
    PROVE  EnvOK'
<1> USE LpiAssumption DEF Go, lpi, conc, det, env, EnvOK, NoCrs, Inv, NlpiSwitch,
    HandleStreamPauseResume, HandleConcurrencyForSoundTriggerStreams, Switch,
    Cancel, DeferFor, SwitchNow, NoSwitch, handleConcurrentStreamSwitch, Restarted,
    TxCount, LoopTo
<1>1. ASSUME NEW s \in Others, Open(s) PROVE EnvOK'
  BY <1>1 DEF Open
<1>2. ASSUME NEW s \in Others, NotifyOpened(s) PROVE EnvOK'
  BY <1>2 DEF NotifyOpened
<1>3. ASSUME NEW s \in Others, NotifyClosed(s) PROVE EnvOK'
  BY <1>3 DEF NotifyClosed
<1>4. ASSUME NEW s \in Others, Closed(s) PROVE EnvOK'
  BY <1>4 DEF Closed
<1>5. ASSUME NEW d \in Det, registerStream(d) PROVE EnvOK'
  BY <1>5 DEF registerStream, MarkRace
<1>5a. ASSUME NEW d \in Det, CountRegistered(d) PROVE EnvOK'
  BY <1>5a DEF CountRegistered
<1>5b. ASSUME NEW d \in Det, onVUIStreamRegistered(d) PROVE EnvOK'
  BY <1>5b DEF onVUIStreamRegistered
<1>6. ASSUME NEW d \in Det, ReadCount(d) PROVE EnvOK'
  BY <1>6 DEF ReadCount
<1>7. ASSUME NEW d \in Det, Constructed(d) PROVE EnvOK'
  BY <1>7 DEF Constructed
<1>8. ASSUME NEW d \in Det, NotifyLoaded(d) PROVE EnvOK'
  BY <1>8 DEF NotifyLoaded
<1>9. ASSUME NEW d \in Det, StartHandlesDeferred(d) PROVE EnvOK'
  BY <1>9 DEF StartHandlesDeferred
<1>10. ASSUME NEW d \in Det, Start(d) PROVE EnvOK'
  BY <1>10 DEF Start, MustWait
<1>10a. ASSUME NEW d \in Det, start_l(d) PROVE EnvOK'
  BY <1>10a DEF start_l
<1>11. ASSUME NEW d \in Det, Push(d) PROVE EnvOK'
  BY <1>11 DEF Push
<1>12. ASSUME NEW d \in Det, Stop(d) PROVE EnvOK'
  BY <1>12 DEF Stop
<1>13. ASSUME NEW d \in Det, Detect(d) PROVE EnvOK'
  BY <1>13 DEF Detect
<1>14. ASSUME NEW d \in Det, EndBuffering(d) PROVE EnvOK'
  BY <1>14 DEF EndBuffering
<1>15. ASSUME NEW d \in Det, HandleLate(d) PROVE EnvOK'
  BY <1>15 DEF HandleLate
<1>16. ASSUME NEW d \in Det, CloseDet(d) PROVE EnvOK'
  BY <1>16 DEF CloseDet
<1>17. ASSUME NEW d \in Det, NotifyUnloaded(d) PROVE EnvOK'
  BY <1>17 DEF NotifyUnloaded
<1>18. ASSUME NEW d \in Det, deregisterStream(d) PROVE EnvOK'
  BY <1>18 DEF deregisterStream, MarkRace
<1>18a. ASSUME NEW d \in Det, CountDeregistered(d) PROVE EnvOK'
  BY <1>18a DEF CountDeregistered
<1>18b. ASSUME NEW d \in Det, onVUIStreamDeregistered(d) PROVE EnvOK'
  BY <1>18b DEF onVUIStreamDeregistered
<1>19. CASE SetCharging
  BY <1>19 DEF SetCharging
<1>20. CASE onChargingStateChange
  BY <1>20 DEF onChargingStateChange
<1>21. CASE CardDown
  BY <1>21 DEF CardDown
<1>22. CASE CardUp
  BY <1>22 DEF CardUp
<1>23. CASE Tick
  BY <1>23 DEF Tick
<1>24. CASE Slept
  BY <1>24 DEF Slept
<1>25. CASE LoopSwitch
  BY <1>25 DEF LoopSwitch
<1>26. CASE LoopReset
  BY <1>26 DEF LoopReset
<1>27. CASE UNCHANGED vars
  BY <1>27 DEF vars
<1> QED BY <1>1, <1>2, <1>3, <1>4, <1>5, <1>5a, <1>5b, <1>6, <1>7, <1>8, <1>9,
    <1>10, <1>10a, <1>11, <1>12, <1>13, <1>14, <1>15, <1>16, <1>17, <1>18, <1>18a,
    <1>18b, <1>19, <1>20, <1>21, <1>22, <1>23, <1>24, <1>25, <1>26, <1>27 DEF Next, Loop

(* mNLPIStreams lists the open streams: opens, closes, loads and unloads.      *)
LEMMA ListStep ==
    ASSUME NoCrs, Inv, [Next]_vars
    PROVE  ListOK'
<1> USE LpiAssumption DEF Go, lpi, conc, det, env, ListOK, EnvOK, Up, NoCrs, Inv,
    Others, Det, Streams, Concurrent, TypeOK, NlpiSwitch, HandleStreamPauseResume,
    HandleConcurrencyForSoundTriggerStreams, Switch, Cancel, DeferFor, SwitchNow,
    NoSwitch, handleConcurrentStreamSwitch, Restarted, TxCount, LoopTo
<1>1. ASSUME NEW s \in Others, Open(s) PROVE ListOK'
  BY <1>1 DEF Open
<1>2. ASSUME NEW s \in Others, NotifyOpened(s) PROVE ListOK'
  BY <1>2 DEF NotifyOpened
<1>3. ASSUME NEW s \in Others, NotifyClosed(s) PROVE ListOK'
  BY <1>3 DEF NotifyClosed
<1>4. ASSUME NEW s \in Others, Closed(s) PROVE ListOK'
  BY <1>4 DEF Closed
<1>5. ASSUME NEW d \in Det, registerStream(d) PROVE ListOK'
  BY <1>5 DEF registerStream, MarkRace
<1>5a. ASSUME NEW d \in Det, CountRegistered(d) PROVE ListOK'
  BY <1>5a DEF CountRegistered
<1>5b. ASSUME NEW d \in Det, onVUIStreamRegistered(d) PROVE ListOK'
  BY <1>5b DEF onVUIStreamRegistered
<1>6. ASSUME NEW d \in Det, ReadCount(d) PROVE ListOK'
  BY <1>6 DEF ReadCount
<1>7. ASSUME NEW d \in Det, Constructed(d) PROVE ListOK'
  BY <1>7 DEF Constructed
<1>8. ASSUME NEW d \in Det, NotifyLoaded(d) PROVE ListOK'
  BY <1>8 DEF NotifyLoaded
<1>9. ASSUME NEW d \in Det, StartHandlesDeferred(d) PROVE ListOK'
  BY <1>9 DEF StartHandlesDeferred
<1>10. ASSUME NEW d \in Det, Start(d) PROVE ListOK'
  BY <1>10 DEF Start, MustWait
<1>10a. ASSUME NEW d \in Det, start_l(d) PROVE ListOK'
  BY <1>10a DEF start_l
<1>11. ASSUME NEW d \in Det, Push(d) PROVE ListOK'
  BY <1>11 DEF Push
<1>12. ASSUME NEW d \in Det, Stop(d) PROVE ListOK'
  BY <1>12 DEF Stop
<1>13. ASSUME NEW d \in Det, Detect(d) PROVE ListOK'
  BY <1>13 DEF Detect
<1>14. ASSUME NEW d \in Det, EndBuffering(d) PROVE ListOK'
  BY <1>14 DEF EndBuffering
<1>15. ASSUME NEW d \in Det, HandleLate(d) PROVE ListOK'
  BY <1>15 DEF HandleLate
<1>16. ASSUME NEW d \in Det, CloseDet(d) PROVE ListOK'
  BY <1>16 DEF CloseDet
<1>17. ASSUME NEW d \in Det, NotifyUnloaded(d) PROVE ListOK'
  BY <1>17 DEF NotifyUnloaded
<1>18. ASSUME NEW d \in Det, deregisterStream(d) PROVE ListOK'
  BY <1>18 DEF deregisterStream, MarkRace
<1>18a. ASSUME NEW d \in Det, CountDeregistered(d) PROVE ListOK'
  BY <1>18a DEF CountDeregistered
<1>18b. ASSUME NEW d \in Det, onVUIStreamDeregistered(d) PROVE ListOK'
  BY <1>18b DEF onVUIStreamDeregistered
<1>19. CASE SetCharging
  BY <1>19 DEF SetCharging
<1>20. CASE onChargingStateChange
  BY <1>20 DEF onChargingStateChange
<1>21. CASE CardDown
  BY <1>21 DEF CardDown
<1>22. CASE CardUp
  BY <1>22 DEF CardUp
<1>23. CASE Tick
  BY <1>23 DEF Tick
<1>24. CASE Slept
  BY <1>24 DEF Slept
<1>25. CASE LoopSwitch
  BY <1>25 DEF LoopSwitch
<1>26. CASE LoopReset
  BY <1>26 DEF LoopReset
<1>27. CASE UNCHANGED vars
  BY <1>27 DEF vars
<1> QED BY <1>1, <1>2, <1>3, <1>4, <1>5, <1>5a, <1>5b, <1>6, <1>7, <1>8, <1>9,
    <1>10, <1>10a, <1>11, <1>12, <1>13, <1>14, <1>15, <1>16, <1>17, <1>18, <1>18a,
    <1>18b, <1>19, <1>20, <1>21, <1>22, <1>23, <1>24, <1>25, <1>26, <1>27 DEF Next, Loop

(* A start, a deferred start, a detection or a switch reaches only streams    *)
(* that are up.                                                               *)
LEMMA LiveStep ==
    ASSUME NoCrs, Inv, [Next]_vars
    PROVE  LiveOK'
<1> USE LpiAssumption DEF Go, lpi, conc, det, env, LiveOK, ListOK, EnvOK, Up,
    Registered, NoCrs, Inv, Others, Det, Streams, Concurrent, TypeOK, NlpiSwitch,
    HandleStreamPauseResume, HandleConcurrencyForSoundTriggerStreams, Switch,
    Cancel, DeferFor, SwitchNow, NoSwitch, handleConcurrentStreamSwitch, Restarted,
    TxCount, LoopTo
<1>1. ASSUME NEW s \in Others, Open(s) PROVE LiveOK'
  BY <1>1 DEF Open
<1>2. ASSUME NEW s \in Others, NotifyOpened(s) PROVE LiveOK'
  BY <1>2 DEF NotifyOpened
<1>3. ASSUME NEW s \in Others, NotifyClosed(s) PROVE LiveOK'
  BY <1>3 DEF NotifyClosed
<1>4. ASSUME NEW s \in Others, Closed(s) PROVE LiveOK'
  BY <1>4 DEF Closed
<1>5. ASSUME NEW d \in Det, registerStream(d) PROVE LiveOK'
  BY <1>5 DEF registerStream, MarkRace
<1>5a. ASSUME NEW d \in Det, CountRegistered(d) PROVE LiveOK'
  BY <1>5a DEF CountRegistered
<1>5b. ASSUME NEW d \in Det, onVUIStreamRegistered(d) PROVE LiveOK'
  BY <1>5b DEF onVUIStreamRegistered
<1>6. ASSUME NEW d \in Det, ReadCount(d) PROVE LiveOK'
  BY <1>6 DEF ReadCount
<1>7. ASSUME NEW d \in Det, Constructed(d) PROVE LiveOK'
  BY <1>7 DEF Constructed
<1>8. ASSUME NEW d \in Det, NotifyLoaded(d) PROVE LiveOK'
  BY <1>8 DEF NotifyLoaded
<1>9. ASSUME NEW d \in Det, StartHandlesDeferred(d) PROVE LiveOK'
  <2>1. CASE StaysDeferred
    BY <1>9, <2>1 DEF StartHandlesDeferred, StaysDeferred
  <2>2. CASE SwitchesToNlpi
    BY <1>9, <2>2 DEF StartHandlesDeferred, SwitchesToNlpi
  <2>3. CASE SwitchesToLpi
    BY <1>9, <2>3 DEF StartHandlesDeferred, SwitchesToLpi
  <2> QED BY <1>9, <2>1, <2>2, <2>3, DeferredSwitchCases DEF StartHandlesDeferred
<1>10. ASSUME NEW d \in Det, Start(d) PROVE LiveOK'
  BY <1>10 DEF Start, MustWait
<1>10a. ASSUME NEW d \in Det, start_l(d) PROVE LiveOK'
  BY <1>10a DEF start_l
<1>11. ASSUME NEW d \in Det, Push(d) PROVE LiveOK'
  BY <1>11 DEF Push
<1>12. ASSUME NEW d \in Det, Stop(d) PROVE LiveOK'
  BY <1>12 DEF Stop
<1>13. ASSUME NEW d \in Det, Detect(d) PROVE LiveOK'
  BY <1>13 DEF Detect
<1>14. ASSUME NEW d \in Det, EndBuffering(d) PROVE LiveOK'
  BY <1>14 DEF EndBuffering
<1>15. ASSUME NEW d \in Det, HandleLate(d) PROVE LiveOK'
  <2>1. CASE StaysDeferred
    BY <1>15, <2>1 DEF HandleLate, StaysDeferred
  <2>2. CASE SwitchesToNlpi
    BY <1>15, <2>2 DEF HandleLate, SwitchesToNlpi
  <2>3. CASE SwitchesToLpi
    BY <1>15, <2>3 DEF HandleLate, SwitchesToLpi
  <2> QED BY <1>15, <2>1, <2>2, <2>3, DeferredSwitchCases DEF HandleLate
<1>16. ASSUME NEW d \in Det, CloseDet(d) PROVE LiveOK'
  BY <1>16 DEF CloseDet
<1>17. ASSUME NEW d \in Det, NotifyUnloaded(d) PROVE LiveOK'
  BY <1>17 DEF NotifyUnloaded
<1>18. ASSUME NEW d \in Det, deregisterStream(d) PROVE LiveOK'
  BY <1>18 DEF deregisterStream, MarkRace
<1>18a. ASSUME NEW d \in Det, CountDeregistered(d) PROVE LiveOK'
  BY <1>18a DEF CountDeregistered
<1>18b. ASSUME NEW d \in Det, onVUIStreamDeregistered(d) PROVE LiveOK'
  BY <1>18b DEF onVUIStreamDeregistered
<1>19. CASE SetCharging
  BY <1>19 DEF SetCharging
<1>20. CASE onChargingStateChange
  BY <1>20 DEF onChargingStateChange
<1>21. CASE CardDown
  BY <1>21 DEF CardDown
<1>22. CASE CardUp
  BY <1>22 DEF CardUp
<1>23. CASE Tick
  BY <1>23 DEF Tick
<1>24. CASE Slept
  BY <1>24 DEF Slept
<1>25. CASE LoopSwitch
  <2>1. CASE StaysDeferred
    BY <1>25, <2>1 DEF LoopSwitch, StaysDeferred
  <2>2. CASE SwitchesToNlpi
    BY <1>25, <2>2 DEF LoopSwitch, SwitchesToNlpi
  <2>3. CASE SwitchesToLpi
    BY <1>25, <2>3 DEF LoopSwitch, SwitchesToLpi
  <2> QED BY <1>25, <2>1, <2>2, <2>3, DeferredSwitchCases DEF LoopSwitch
<1>26. CASE LoopReset
  BY <1>26 DEF LoopReset
<1>27. CASE UNCHANGED vars
  BY <1>27 DEF vars
<1> QED BY <1>1, <1>2, <1>3, <1>4, <1>5, <1>5a, <1>5b, <1>6, <1>7, <1>8, <1>9,
    <1>10, <1>10a, <1>11, <1>12, <1>13, <1>14, <1>15, <1>16, <1>17, <1>18, <1>18a,
    <1>18b, <1>19, <1>20, <1>21, <1>22, <1>23, <1>24, <1>25, <1>26, <1>27 DEF Next, Loop

(* Every open of a call and every load is undone by its close or unload: the  *)
(* counts never drift, and the tests for zero in the code never hide a loss.  *)
LEMMA CountsStep ==
    ASSUME NoCrs, Inv, [Next]_vars
    PROVE  CountsExact'
<1> USE LpiAssumption DEF Go, lpi, conc, det, env, ListOK, EnvOK, Up, NoCrs, Inv,
    Others, Det, Streams, Concurrent, TypeOK, LoopTo
<1>0. CallSet \in SUBSET Streams /\ TxSet \in SUBSET Streams
    BY DEF CallSet, TxSet
<1>f. IsFiniteSet(CallSet) /\ IsFiniteSet(TxSet)
    BY <1>0, StreamSets
<1>1. ASSUME NEW s \in Others, Open(s) PROVE SameCounts
  BY <1>1 DEF Open, SameCounts, CallSet, TxSet
<1>2. ASSUME NEW s \in Others, NotifyOpened(s) PROVE CountsExact'
  <2>1. CASE s \in Calls /\ HandleStreamPauseResume(TRUE) /\ TxCount(s, TRUE)
    <3>1. CallSet' = CallSet \cup {s} /\ s \notin CallSet
      BY <1>2, <2>1 DEF NotifyOpened, HandleStreamPauseResume, CallSet
    <3>2. TxSet' = TxSet \cup {s} /\ s \notin TxSet
      BY <1>2, <2>1 DEF NotifyOpened, HandleStreamPauseResume, CallSet, TxSet
    <3>3. /\ concurrencyDisableCount' = concurrencyDisableCount + 1
          /\ TxconcurrencyEnableCount' = TxconcurrencyEnableCount + 1
      BY <2>1 DEF HandleStreamPauseResume, TxCount, Tx
    <3> QED BY <3>1, <3>2, <3>3, <1>f, FS_AddElement DEF CountsExact
  <2>2. CASE Listed(s, TRUE) /\ TxCount(s, TRUE)
    <3>1. SameCounts
      BY <1>2, <2>2 DEF NotifyOpened, Listed, TxCount, Tx, SameCounts, CallSet,
          TxSet
    <3> QED BY <3>1, CountsSame
  <2> QED BY <1>2, <2>1, <2>2, ConcurrencyCases DEF NotifyOpened
<1>3. ASSUME NEW s \in Others, NotifyClosed(s) PROVE CountsExact'
  <2>1. CASE s \in Calls /\ HandleStreamPauseResume(FALSE) /\ TxCount(s, FALSE)
    <3>1. CallSet' = CallSet \ {s} /\ s \in CallSet
      BY <1>3, <2>1 DEF NotifyClosed, HandleStreamPauseResume, CallSet
    <3>2. TxSet' = TxSet \ {s} /\ s \in TxSet
      BY <1>3, <2>1 DEF NotifyClosed, HandleStreamPauseResume, CallSet, TxSet
    <3>3. concurrencyDisableCount > 0 /\ TxconcurrencyEnableCount > 0
      BY <3>1, <3>2, <1>f, FS_EmptySet, FS_CardinalityType DEF CountsExact
    <3>4. /\ concurrencyDisableCount' = concurrencyDisableCount - 1
          /\ TxconcurrencyEnableCount' = TxconcurrencyEnableCount - 1
      BY <2>1, <3>3 DEF HandleStreamPauseResume, TxCount, Tx
    <3> QED BY <3>1, <3>2, <3>4, <1>f, FS_RemoveElement DEF CountsExact
  <2>2. CASE Listed(s, FALSE) /\ TxCount(s, FALSE)
    <3>1. SameCounts
      BY <1>3, <2>2 DEF NotifyClosed, Listed, TxCount, Tx, SameCounts, CallSet,
          TxSet
    <3> QED BY <3>1, CountsSame
  <2> QED BY <1>3, <2>1, <2>2, ConcurrencyCases DEF NotifyClosed
<1>4. ASSUME NEW s \in Others, Closed(s) PROVE SameCounts
  BY <1>4 DEF Closed, SameCounts, CallSet, TxSet
<1>5. ASSUME NEW d \in Det, registerStream(d) PROVE SameCounts
  BY <1>5 DEF registerStream, MarkRace, SameCounts, CallSet, TxSet
<1>5a. ASSUME NEW d \in Det, CountRegistered(d) PROVE SameCounts
  BY <1>5a DEF CountRegistered, SameCounts, CallSet, TxSet
<1>5b. ASSUME NEW d \in Det, onVUIStreamRegistered(d) PROVE SameCounts
  BY <1>5b DEF onVUIStreamRegistered, SameCounts, CallSet, TxSet
<1>6. ASSUME NEW d \in Det, ReadCount(d) PROVE SameCounts
  BY <1>6 DEF ReadCount, SameCounts, CallSet, TxSet
<1>7. ASSUME NEW d \in Det, Constructed(d) PROVE SameCounts
  BY <1>7 DEF Constructed, SameCounts, CallSet, TxSet
<1>8. ASSUME NEW d \in Det, NotifyLoaded(d) PROVE CountsExact'
  <2>0. Listed(d, TRUE) /\ TxCount(d, TRUE)
    BY <1>8, ConcurrencyCases DEF NotifyLoaded
  <2>1. CallSet' = CallSet /\ concurrencyDisableCount' = concurrencyDisableCount
    BY <1>8, <2>0 DEF NotifyLoaded, Listed, CallSet
  <2>2. TxSet' = TxSet \cup {d} /\ d \notin TxSet
    BY <1>8, <2>0 DEF NotifyLoaded, Listed, CallSet, TxSet
  <2>3. TxconcurrencyEnableCount' = TxconcurrencyEnableCount + 1
    BY <1>8, <2>0 DEF TxCount, Tx
  <2> QED BY <2>1, <2>2, <2>3, <1>f, FS_AddElement DEF CountsExact
<1>9. ASSUME NEW d \in Det, StartHandlesDeferred(d) PROVE SameCounts
  BY <1>9 DEF StartHandlesDeferred, Go, SameCounts, CallSet, TxSet
<1>10. ASSUME NEW d \in Det, Start(d) PROVE SameCounts
  BY <1>10 DEF Start, MustWait, SameCounts, CallSet, TxSet
<1>10a. ASSUME NEW d \in Det, start_l(d) PROVE SameCounts
  BY <1>10a DEF start_l, SameCounts, CallSet, TxSet
<1>11. ASSUME NEW d \in Det, Push(d) PROVE SameCounts
  BY <1>11 DEF Push, SameCounts, CallSet, TxSet
<1>12. ASSUME NEW d \in Det, Stop(d) PROVE SameCounts
  BY <1>12 DEF Stop, SameCounts, CallSet, TxSet
<1>13. ASSUME NEW d \in Det, Detect(d) PROVE SameCounts
  BY <1>13 DEF Detect, SameCounts, CallSet, TxSet
<1>14. ASSUME NEW d \in Det, EndBuffering(d) PROVE SameCounts
  BY <1>14 DEF EndBuffering, SameCounts, CallSet, TxSet
<1>15. ASSUME NEW d \in Det, HandleLate(d) PROVE SameCounts
  BY <1>15 DEF HandleLate, Go, SameCounts, CallSet, TxSet
<1>16. ASSUME NEW d \in Det, CloseDet(d) PROVE SameCounts
  BY <1>16 DEF CloseDet, SameCounts, CallSet, TxSet
<1>17. ASSUME NEW d \in Det, NotifyUnloaded(d) PROVE CountsExact'
  <2>0. Listed(d, FALSE) /\ TxCount(d, FALSE)
    BY <1>17, ConcurrencyCases DEF NotifyUnloaded
  <2>1. CallSet' = CallSet /\ concurrencyDisableCount' = concurrencyDisableCount
    BY <1>17, <2>0 DEF NotifyUnloaded, Listed, CallSet
  <2>2. TxSet' = TxSet \ {d} /\ d \in TxSet
    BY <1>17, <2>0 DEF NotifyUnloaded, Listed, CallSet, TxSet
  <2>3. TxconcurrencyEnableCount > 0
    BY <2>2, <1>f, FS_EmptySet, FS_CardinalityType DEF CountsExact
  <2>4. TxconcurrencyEnableCount' = TxconcurrencyEnableCount - 1
    BY <1>17, <2>0, <2>3 DEF TxCount, Tx
  <2> QED BY <2>1, <2>2, <2>4, <1>f, FS_RemoveElement DEF CountsExact
<1>18. ASSUME NEW d \in Det, deregisterStream(d) PROVE SameCounts
  BY <1>18 DEF deregisterStream, MarkRace, SameCounts, CallSet, TxSet
<1>18a. ASSUME NEW d \in Det, CountDeregistered(d) PROVE SameCounts
  BY <1>18a DEF CountDeregistered, SameCounts, CallSet, TxSet
<1>18b. ASSUME NEW d \in Det, onVUIStreamDeregistered(d) PROVE SameCounts
  BY <1>18b DEF onVUIStreamDeregistered, SameCounts, CallSet, TxSet
<1>19. ASSUME SetCharging PROVE SameCounts
  BY <1>19 DEF SetCharging, SameCounts, CallSet, TxSet
<1>20. ASSUME onChargingStateChange PROVE SameCounts
  BY <1>20 DEF onChargingStateChange, Switch, Cancel, DeferFor, SwitchNow, NoSwitch,
      handleConcurrentStreamSwitch, Restarted, SameCounts, CallSet, TxSet
<1>21. ASSUME CardDown PROVE SameCounts
  BY <1>21 DEF CardDown, SameCounts, CallSet, TxSet
<1>22. ASSUME CardUp PROVE SameCounts
  BY <1>22 DEF CardUp, SameCounts, CallSet, TxSet
<1>23. ASSUME Tick PROVE SameCounts
  BY <1>23 DEF Tick, LoopTo, SameCounts, CallSet, TxSet
<1>24. ASSUME Slept PROVE SameCounts
  BY <1>24 DEF Slept, LoopTo, SameCounts, CallSet, TxSet
<1>25. ASSUME LoopSwitch PROVE SameCounts
  BY <1>25 DEF LoopSwitch, LoopTo, SameCounts, CallSet, TxSet
<1>26. ASSUME LoopReset PROVE SameCounts
  BY <1>26 DEF LoopReset, LoopTo, SameCounts, CallSet, TxSet
<1>27. ASSUME UNCHANGED vars PROVE SameCounts
  BY <1>27 DEF vars, SameCounts, CallSet, TxSet
<1> QED BY <1>1, <1>2, <1>3, <1>4, <1>5, <1>5a, <1>5b, <1>6, <1>7, <1>8, <1>9,
    <1>10, <1>10a, <1>11, <1>12, <1>13, <1>14, <1>15, <1>16, <1>17, <1>18, <1>18a,
    <1>18b, <1>19, <1>20, <1>21, <1>22, <1>23, <1>24, <1>25, <1>26, <1>27, CountsSame DEF Next, Loop

(* The counts are bounded because they count sets of streams.                 *)
LEMMA TypeStep ==
    ASSUME NoCrs, Inv, [Next]_vars, CountsExact', ListOK'
    PROVE  TypeOK'
<1> USE LpiAssumption DEF Go, lpi, conc, det, env, Mode, LiveOK, NoCrs, Inv, Others,
    Det, Streams, Concurrent, TypeOK, LoopTo
<1>c. /\ TxconcurrencyEnableCount' \in 0..Cardinality(Streams)
      /\ concurrencyDisableCount' \in 0..Cardinality(Streams)
  <2>1. CallSet' \in SUBSET Streams /\ TxSet' \in SUBSET Streams
    BY DEF CallSet, TxSet
  <2> QED BY <2>1, StreamSets DEF CountsExact
<1>m. mNLPIStreams' \subseteq Streams BY DEF ListOK
<1> USE <1>c, <1>m
<1>1. ASSUME NEW s \in Others, Open(s) PROVE TypeOK'
  BY <1>1 DEF Open
<1>2. ASSUME NEW s \in Others, NotifyOpened(s) PROVE TypeOK'
  <2>1. CASE s \in Calls /\ HandleStreamPauseResume(TRUE)
    <3>1. paused' \subseteq Det
      BY <2>1 DEF HandleStreamPauseResume, Registered
    <3> QED BY <1>2, <2>1, <3>1 DEF NotifyOpened, HandleStreamPauseResume
  <2>2. CASE Listed(s, TRUE) /\ MaySwitch(TRUE) /\ Cancel(TRUE)
    BY <1>2, <2>2 DEF NotifyOpened, Listed, MaySwitch, Cancel
  <2>3. CASE Listed(s, TRUE) /\ MaySwitch(TRUE) /\ DeferFor(TRUE)
    BY <1>2, <2>3 DEF NotifyOpened, Listed, MaySwitch, DeferFor
  <2>4. CASE Listed(s, TRUE) /\ MaySwitch(TRUE) /\ SwitchNow(TRUE)
    BY <1>2, <2>4 DEF NotifyOpened, Listed, MaySwitch, SwitchNow,
        handleConcurrentStreamSwitch, Restarted
  <2>5. CASE Listed(s, TRUE) /\ ~MaySwitch(TRUE) /\ NoSwitch
    BY <1>2, <2>5 DEF NotifyOpened, Listed, MaySwitch, NoSwitch
  <2> QED BY <1>2, <2>1, <2>2, <2>3, <2>4, <2>5, ConcurrencyCases DEF NotifyOpened,
      Switch
<1>3. ASSUME NEW s \in Others, NotifyClosed(s) PROVE TypeOK'
  <2>1. CASE s \in Calls /\ HandleStreamPauseResume(FALSE)
    BY <1>3, <2>1 DEF NotifyClosed, HandleStreamPauseResume
  <2>2. CASE Listed(s, FALSE) /\ MaySwitch(FALSE) /\ Cancel(FALSE)
    BY <1>3, <2>2 DEF NotifyClosed, Listed, MaySwitch, Cancel
  <2>3. CASE Listed(s, FALSE) /\ MaySwitch(FALSE) /\ DeferFor(FALSE)
    BY <1>3, <2>3 DEF NotifyClosed, Listed, MaySwitch, DeferFor
  <2>4. CASE Listed(s, FALSE) /\ MaySwitch(FALSE) /\ SwitchNow(FALSE)
    BY <1>3, <2>4 DEF NotifyClosed, Listed, MaySwitch, SwitchNow,
        handleConcurrentStreamSwitch, Restarted
  <2>5. CASE Listed(s, FALSE) /\ ~MaySwitch(FALSE) /\ NoSwitch
    BY <1>3, <2>5 DEF NotifyClosed, Listed, MaySwitch, NoSwitch
  <2> QED BY <1>3, <2>1, <2>2, <2>3, <2>4, <2>5, ConcurrencyCases DEF NotifyClosed,
      Switch
<1>4. ASSUME NEW s \in Others, Closed(s) PROVE TypeOK'
  BY <1>4 DEF Closed
<1>5. ASSUME NEW d \in Det, registerStream(d) PROVE TypeOK'
  BY <1>5 DEF registerStream, MarkRace
<1>5a. ASSUME NEW d \in Det, CountRegistered(d) PROVE TypeOK'
  BY <1>5a DEF CountRegistered
<1>5b. ASSUME NEW d \in Det, onVUIStreamRegistered(d) PROVE TypeOK'
  BY <1>5b DEF onVUIStreamRegistered
<1>6. ASSUME NEW d \in Det, ReadCount(d) PROVE TypeOK'
  BY <1>6 DEF ReadCount
<1>7. ASSUME NEW d \in Det, Constructed(d) PROVE TypeOK'
  BY <1>7 DEF Constructed
<1>8. ASSUME NEW d \in Det, NotifyLoaded(d) PROVE TypeOK'
  <2>1. CASE d \in Calls /\ HandleStreamPauseResume(TRUE)
    BY <1>8, <2>1 DEF NotifyLoaded, HandleStreamPauseResume
  <2>2. CASE Listed(d, TRUE) /\ MaySwitch(TRUE) /\ Cancel(TRUE)
    BY <1>8, <2>2 DEF NotifyLoaded, Listed, MaySwitch, Cancel
  <2>3. CASE Listed(d, TRUE) /\ MaySwitch(TRUE) /\ DeferFor(TRUE)
    BY <1>8, <2>3 DEF NotifyLoaded, Listed, MaySwitch, DeferFor
  <2>4. CASE Listed(d, TRUE) /\ MaySwitch(TRUE) /\ SwitchNow(TRUE)
    BY <1>8, <2>4 DEF NotifyLoaded, Listed, MaySwitch, SwitchNow,
        handleConcurrentStreamSwitch, Restarted
  <2>5. CASE Listed(d, TRUE) /\ ~MaySwitch(TRUE) /\ NoSwitch
    BY <1>8, <2>5 DEF NotifyLoaded, Listed, MaySwitch, NoSwitch
  <2> QED BY <1>8, <2>1, <2>2, <2>3, <2>4, <2>5, ConcurrencyCases DEF NotifyLoaded,
      Switch
<1>9. ASSUME NEW d \in Det, StartHandlesDeferred(d) PROVE TypeOK'
  <2>1. CASE StaysDeferred
    BY <1>9, <2>1 DEF StartHandlesDeferred, StaysDeferred
  <2>2. CASE SwitchesToNlpi
    BY <1>9, <2>2 DEF StartHandlesDeferred, SwitchesToNlpi
  <2>3. CASE SwitchesToLpi
    BY <1>9, <2>3 DEF StartHandlesDeferred, SwitchesToLpi
  <2> QED BY <1>9, <2>1, <2>2, <2>3, DeferredSwitchCases DEF StartHandlesDeferred
<1>10. ASSUME NEW d \in Det, Start(d) PROVE TypeOK'
  BY <1>10 DEF Start, MustWait
<1>10a. ASSUME NEW d \in Det, start_l(d) PROVE TypeOK'
  BY <1>10a DEF start_l
<1>11. ASSUME NEW d \in Det, Push(d) PROVE TypeOK'
  BY <1>11 DEF Push
<1>12. ASSUME NEW d \in Det, Stop(d) PROVE TypeOK'
  BY <1>12 DEF Stop
<1>13. ASSUME NEW d \in Det, Detect(d) PROVE TypeOK'
  BY <1>13 DEF Detect
<1>14. ASSUME NEW d \in Det, EndBuffering(d) PROVE TypeOK'
  BY <1>14 DEF EndBuffering
<1>15. ASSUME NEW d \in Det, HandleLate(d) PROVE TypeOK'
  <2>1. CASE StaysDeferred
    BY <1>15, <2>1 DEF HandleLate, StaysDeferred
  <2>2. CASE SwitchesToNlpi
    BY <1>15, <2>2 DEF HandleLate, SwitchesToNlpi
  <2>3. CASE SwitchesToLpi
    BY <1>15, <2>3 DEF HandleLate, SwitchesToLpi
  <2> QED BY <1>15, <2>1, <2>2, <2>3, DeferredSwitchCases DEF HandleLate
<1>16. ASSUME NEW d \in Det, CloseDet(d) PROVE TypeOK'
  BY <1>16 DEF CloseDet
<1>17. ASSUME NEW d \in Det, NotifyUnloaded(d) PROVE TypeOK'
  <2>1. CASE d \in Calls /\ HandleStreamPauseResume(FALSE)
    BY <1>17, <2>1 DEF NotifyUnloaded, HandleStreamPauseResume
  <2>2. CASE Listed(d, FALSE) /\ MaySwitch(FALSE) /\ Cancel(FALSE)
    BY <1>17, <2>2 DEF NotifyUnloaded, Listed, MaySwitch, Cancel
  <2>3. CASE Listed(d, FALSE) /\ MaySwitch(FALSE) /\ DeferFor(FALSE)
    BY <1>17, <2>3 DEF NotifyUnloaded, Listed, MaySwitch, DeferFor
  <2>4. CASE Listed(d, FALSE) /\ MaySwitch(FALSE) /\ SwitchNow(FALSE)
    BY <1>17, <2>4 DEF NotifyUnloaded, Listed, MaySwitch, SwitchNow,
        handleConcurrentStreamSwitch, Restarted
  <2>5. CASE Listed(d, FALSE) /\ ~MaySwitch(FALSE) /\ NoSwitch
    BY <1>17, <2>5 DEF NotifyUnloaded, Listed, MaySwitch, NoSwitch
  <2> QED BY <1>17, <2>1, <2>2, <2>3, <2>4, <2>5, ConcurrencyCases DEF
      NotifyUnloaded, Switch
<1>18. ASSUME NEW d \in Det, deregisterStream(d) PROVE TypeOK'
  BY <1>18 DEF deregisterStream, MarkRace
<1>18a. ASSUME NEW d \in Det, CountDeregistered(d) PROVE TypeOK'
  BY <1>18a DEF CountDeregistered
<1>18b. ASSUME NEW d \in Det, onVUIStreamDeregistered(d) PROVE TypeOK'
  BY <1>18b DEF onVUIStreamDeregistered
<1>19. CASE SetCharging
  BY <1>19 DEF SetCharging
<1>20. CASE onChargingStateChange
  <2> PICK plugged \in BOOLEAN :
       /\ charging.state = plugged
       /\ \/ MayCharge(plugged) /\ Switch(plugged)
          \/ ~MayCharge(plugged) /\ NoSwitch
    BY <1>20, ChargingCases
  <2>0. charging.pending /\ charging'.state = charging.state /\ charging'.pending =
      FALSE
    BY <1>20, ChargingCases
  <2>1. CASE MayCharge(plugged) /\ Cancel(plugged)
    <3>1. deferred_switch_cnt' \in -1..Delay /\ deferredSwitchState' \in
        {"NO_DEFER", "LPI_NLPI", "NLPI_LPI"}
      BY <2>1 DEF Cancel
    <3>2. charging' \in [state : BOOLEAN, pending : BOOLEAN]
      BY <1>20 DEF onChargingStateChange
    <3>3. UNCHANGED <<use_lpi, run>>
      BY <2>1 DEF Cancel
    <3> QED BY <1>20, <3>1, <3>2, <3>3 DEF onChargingStateChange
  <2>2. CASE MayCharge(plugged) /\ DeferFor(plugged)
    <3>1. deferred_switch_cnt' \in -1..Delay /\ deferredSwitchState' \in
        {"NO_DEFER", "LPI_NLPI", "NLPI_LPI"}
      BY <2>2 DEF DeferFor
    <3>2. charging' \in [state : BOOLEAN, pending : BOOLEAN]
      BY <1>20 DEF onChargingStateChange
    <3>3. UNCHANGED <<use_lpi, run>>
      BY <2>2 DEF DeferFor
    <3> QED BY <1>20, <3>1, <3>2, <3>3 DEF onChargingStateChange
  <2>3. CASE MayCharge(plugged) /\ SwitchNow(plugged)
    BY <1>20, <2>0, <2>3 DEF onChargingStateChange, MayCharge, SwitchNow,
        handleConcurrentStreamSwitch, Restarted
  <2>4. CASE ~MayCharge(plugged) /\ NoSwitch
    BY <1>20, <2>0, <2>4 DEF onChargingStateChange, MayCharge, NoSwitch
  <2> QED BY <1>20, <2>1, <2>2, <2>3, <2>4 DEF Switch
<1>21. CASE CardDown
  BY <1>21 DEF CardDown
<1>22. CASE CardUp
  BY <1>22 DEF CardUp
<1>23. CASE Tick
  BY <1>23 DEF Tick
<1>24. CASE Slept
  BY <1>24 DEF Slept
<1>25. CASE LoopSwitch
  <2>1. CASE StaysDeferred
    BY <1>25, <2>1 DEF LoopSwitch, StaysDeferred
  <2>2. CASE SwitchesToNlpi
    BY <1>25, <2>2 DEF LoopSwitch, SwitchesToNlpi
  <2>3. CASE SwitchesToLpi
    BY <1>25, <2>3 DEF LoopSwitch, SwitchesToLpi
  <2> QED BY <1>25, <2>1, <2>2, <2>3, DeferredSwitchCases DEF LoopSwitch
<1>26. CASE LoopReset
  BY <1>26 DEF LoopReset
<1>27. CASE UNCHANGED vars
  BY <1>27 DEF vars
<1> QED BY <1>1, <1>2, <1>3, <1>4, <1>5, <1>5a, <1>5b, <1>6, <1>7, <1>8, <1>9,
    <1>10, <1>10a, <1>11, <1>12, <1>13, <1>14, <1>15, <1>16, <1>17, <1>18, <1>18a,
    <1>18b, <1>19, <1>20, <1>21, <1>22, <1>23, <1>24, <1>25, <1>26, <1>27 DEF Next, Loop

(* The first call pauses whatever is registered; a constructor that runs into *)
(* it, a switch, a start and a recovery find the stream paused.               *)
LEMMA PausedStep ==
    ASSUME NoCrs, Inv, [Next]_vars
    PROVE  PausedOK' /\ QuietInCalls'
<1> USE LpiAssumption DEF Go, lpi, conc, det, env, PausedOK, QuietInCalls, LiveOK,
    EnvOK, Up, Registered, Mode, NoCrs, Inv, Others, Det, Streams, Concurrent,
    TypeOK, NlpiSwitch, HandleStreamPauseResume,
    HandleConcurrencyForSoundTriggerStreams, Switch, Cancel, DeferFor, SwitchNow,
    NoSwitch, handleConcurrentStreamSwitch, Restarted, TxCount, LoopTo
<1>1. ASSUME NEW s \in Others, Open(s) PROVE PausedOK' /\ QuietInCalls'
  BY <1>1 DEF Open
<1>2. ASSUME NEW s \in Others, NotifyOpened(s) PROVE PausedOK' /\ QuietInCalls'
  BY <1>2 DEF NotifyOpened
<1>3. ASSUME NEW s \in Others, NotifyClosed(s) PROVE PausedOK' /\ QuietInCalls'
  BY <1>3 DEF NotifyClosed
<1>4. ASSUME NEW s \in Others, Closed(s) PROVE PausedOK' /\ QuietInCalls'
  BY <1>4 DEF Closed
<1>5. ASSUME NEW d \in Det, registerStream(d) PROVE PausedOK' /\ QuietInCalls'
  BY <1>5 DEF registerStream, MarkRace
<1>5a. ASSUME NEW d \in Det, CountRegistered(d) PROVE PausedOK' /\ QuietInCalls'
  BY <1>5a DEF CountRegistered
<1>5b. ASSUME NEW d \in Det, onVUIStreamRegistered(d) PROVE PausedOK' /\ QuietInCalls'
  BY <1>5b DEF onVUIStreamRegistered
<1>6. ASSUME NEW d \in Det, ReadCount(d) PROVE PausedOK' /\ QuietInCalls'
  BY <1>6 DEF ReadCount
<1>7. ASSUME NEW d \in Det, Constructed(d) PROVE PausedOK' /\ QuietInCalls'
  BY <1>7 DEF Constructed
<1>8. ASSUME NEW d \in Det, NotifyLoaded(d) PROVE PausedOK' /\ QuietInCalls'
  BY <1>8 DEF NotifyLoaded
<1>9. ASSUME NEW d \in Det, StartHandlesDeferred(d) PROVE PausedOK' /\ QuietInCalls'
  <2>1. CASE StaysDeferred
    BY <1>9, <2>1 DEF StartHandlesDeferred, StaysDeferred
  <2>2. CASE SwitchesToNlpi
    BY <1>9, <2>2 DEF StartHandlesDeferred, SwitchesToNlpi
  <2>3. CASE SwitchesToLpi
    BY <1>9, <2>3 DEF StartHandlesDeferred, SwitchesToLpi
  <2> QED BY <1>9, <2>1, <2>2, <2>3, DeferredSwitchCases DEF StartHandlesDeferred
<1>10. ASSUME NEW d \in Det, Start(d) PROVE PausedOK' /\ QuietInCalls'
  BY <1>10 DEF Start, MustWait
<1>10a. ASSUME NEW d \in Det, start_l(d) PROVE PausedOK' /\ QuietInCalls'
  BY <1>10a DEF start_l
<1>11. ASSUME NEW d \in Det, Push(d) PROVE PausedOK' /\ QuietInCalls'
  BY <1>11 DEF Push
<1>12. ASSUME NEW d \in Det, Stop(d) PROVE PausedOK' /\ QuietInCalls'
  BY <1>12 DEF Stop
<1>13. ASSUME NEW d \in Det, Detect(d) PROVE PausedOK' /\ QuietInCalls'
  BY <1>13 DEF Detect
<1>14. ASSUME NEW d \in Det, EndBuffering(d) PROVE PausedOK' /\ QuietInCalls'
  BY <1>14 DEF EndBuffering
<1>15. ASSUME NEW d \in Det, HandleLate(d) PROVE PausedOK' /\ QuietInCalls'
  <2>1. CASE StaysDeferred
    BY <1>15, <2>1 DEF HandleLate, StaysDeferred
  <2>2. CASE SwitchesToNlpi
    BY <1>15, <2>2 DEF HandleLate, SwitchesToNlpi
  <2>3. CASE SwitchesToLpi
    BY <1>15, <2>3 DEF HandleLate, SwitchesToLpi
  <2> QED BY <1>15, <2>1, <2>2, <2>3, DeferredSwitchCases DEF HandleLate
<1>16. ASSUME NEW d \in Det, CloseDet(d) PROVE PausedOK' /\ QuietInCalls'
  BY <1>16 DEF CloseDet
<1>17. ASSUME NEW d \in Det, NotifyUnloaded(d) PROVE PausedOK' /\ QuietInCalls'
  BY <1>17 DEF NotifyUnloaded
<1>18. ASSUME NEW d \in Det, deregisterStream(d) PROVE PausedOK' /\ QuietInCalls'
  BY <1>18 DEF deregisterStream, MarkRace
<1>18a. ASSUME NEW d \in Det, CountDeregistered(d) PROVE PausedOK' /\ QuietInCalls'
  BY <1>18a DEF CountDeregistered
<1>18b. ASSUME NEW d \in Det, onVUIStreamDeregistered(d) PROVE PausedOK' /\ QuietInCalls'
  BY <1>18b DEF onVUIStreamDeregistered
<1>19. CASE SetCharging
  BY <1>19 DEF SetCharging
<1>20. CASE onChargingStateChange
  BY <1>20 DEF onChargingStateChange
<1>21. CASE CardDown
  BY <1>21 DEF CardDown
<1>22. CASE CardUp
  BY <1>22 DEF CardUp
<1>23. CASE Tick
  BY <1>23 DEF Tick
<1>24. CASE Slept
  BY <1>24 DEF Slept
<1>25. CASE LoopSwitch
  <2>1. CASE StaysDeferred
    BY <1>25, <2>1 DEF LoopSwitch, StaysDeferred
  <2>2. CASE SwitchesToNlpi
    BY <1>25, <2>2 DEF LoopSwitch, SwitchesToNlpi
  <2>3. CASE SwitchesToLpi
    BY <1>25, <2>3 DEF LoopSwitch, SwitchesToLpi
  <2> QED BY <1>25, <2>1, <2>2, <2>3, DeferredSwitchCases DEF LoopSwitch
<1>26. CASE LoopReset
  BY <1>26 DEF LoopReset
<1>27. CASE UNCHANGED vars
  BY <1>27 DEF vars
<1> QED BY <1>1, <1>2, <1>3, <1>4, <1>5, <1>5a, <1>5b, <1>6, <1>7, <1>8, <1>9,
    <1>10, <1>10a, <1>11, <1>12, <1>13, <1>14, <1>15, <1>16, <1>17, <1>18, <1>18a,
    <1>18b, <1>19, <1>20, <1>21, <1>22, <1>23, <1>24, <1>25, <1>26, <1>27 DEF Next, Loop

(* Every change of use_lpi_ restarts the streams, or finds none that runs.     *)
LEMMA ModeStep ==
    ASSUME NoCrs, Inv, [Next]_vars
    PROVE  ModeOK'
<1> USE LpiAssumption DEF Go, lpi, conc, det, env, ModeOK, LiveOK, EnvOK, Up,
    Registered, Mode, NoCrs, Inv, Others, Det, Streams, Concurrent, TypeOK, LoopTo
<1>1. ASSUME NEW s \in Others, Open(s) PROVE ModeOK'
  BY <1>1 DEF Open
<1>2. ASSUME NEW s \in Others, NotifyOpened(s) PROVE ModeOK'
  BY <1>2 DEF NotifyOpened, NlpiSwitch, HandleStreamPauseResume,
      HandleConcurrencyForSoundTriggerStreams, Switch, Cancel, DeferFor, SwitchNow,
      NoSwitch, handleConcurrentStreamSwitch, Restarted, TxCount
<1>3. ASSUME NEW s \in Others, NotifyClosed(s) PROVE ModeOK'
  <2>1. CASE s \in Calls /\ HandleStreamPauseResume(FALSE)
    BY <1>3, <2>1 DEF NotifyClosed, HandleStreamPauseResume
  <2>2. CASE Listed(s, FALSE) /\ MaySwitch(FALSE) /\ Cancel(FALSE)
    BY <1>3, <2>2 DEF NotifyClosed, Listed, MaySwitch, Cancel
  <2>3. CASE Listed(s, FALSE) /\ MaySwitch(FALSE) /\ DeferFor(FALSE)
    BY <1>3, <2>3 DEF NotifyClosed, Listed, MaySwitch, DeferFor
  <2>4. CASE Listed(s, FALSE) /\ MaySwitch(FALSE) /\ SwitchNow(FALSE)
    BY <1>3, <2>4 DEF NotifyClosed, Listed, MaySwitch, SwitchNow,
        handleConcurrentStreamSwitch, Restarted
  <2>5. CASE Listed(s, FALSE) /\ ~MaySwitch(FALSE) /\ NoSwitch
    BY <1>3, <2>5 DEF NotifyClosed, Listed, MaySwitch, NoSwitch
  <2> QED BY <1>3, <2>1, <2>2, <2>3, <2>4, <2>5, ConcurrencyCases DEF NotifyClosed,
      Switch
<1>4. ASSUME NEW s \in Others, Closed(s) PROVE ModeOK'
  BY <1>4 DEF Closed
<1>5. ASSUME NEW d \in Det, registerStream(d) PROVE ModeOK'
  BY <1>5 DEF registerStream, MarkRace
<1>5a. ASSUME NEW d \in Det, CountRegistered(d) PROVE ModeOK'
  BY <1>5a DEF CountRegistered
<1>5b. ASSUME NEW d \in Det, onVUIStreamRegistered(d) PROVE ModeOK'
  BY <1>5b DEF onVUIStreamRegistered, OneBetween
<1>6. ASSUME NEW d \in Det, ReadCount(d) PROVE ModeOK'
  BY <1>6 DEF ReadCount
<1>7. ASSUME NEW d \in Det, Constructed(d) PROVE ModeOK'
  BY <1>7 DEF Constructed
<1>8. ASSUME NEW d \in Det, NotifyLoaded(d) PROVE ModeOK'
  BY <1>8 DEF NotifyLoaded, NlpiSwitch, HandleStreamPauseResume,
      HandleConcurrencyForSoundTriggerStreams, Switch, Cancel, DeferFor, SwitchNow,
      NoSwitch, handleConcurrentStreamSwitch, Restarted, TxCount
<1>9. ASSUME NEW d \in Det, StartHandlesDeferred(d) PROVE ModeOK'
  <2>1. CASE StaysDeferred
    BY <1>9, <2>1 DEF StartHandlesDeferred, StaysDeferred
  <2>2. CASE SwitchesToNlpi
    BY <1>9, <2>2 DEF StartHandlesDeferred, SwitchesToNlpi
  <2>3. CASE SwitchesToLpi
    BY <1>9, <2>3 DEF StartHandlesDeferred, SwitchesToLpi
  <2> QED BY <1>9, <2>1, <2>2, <2>3, DeferredSwitchCases DEF StartHandlesDeferred
<1>10. ASSUME NEW d \in Det, Start(d) PROVE ModeOK'
  BY <1>10 DEF Start, MustWait
<1>10a. ASSUME NEW d \in Det, start_l(d) PROVE ModeOK'
  BY <1>10a DEF start_l
<1>11. ASSUME NEW d \in Det, Push(d) PROVE ModeOK'
  BY <1>11 DEF Push
<1>12. ASSUME NEW d \in Det, Stop(d) PROVE ModeOK'
  BY <1>12 DEF Stop
<1>13. ASSUME NEW d \in Det, Detect(d) PROVE ModeOK'
  BY <1>13 DEF Detect
<1>14. ASSUME NEW d \in Det, EndBuffering(d) PROVE ModeOK'
  BY <1>14 DEF EndBuffering
<1>15. ASSUME NEW d \in Det, HandleLate(d) PROVE ModeOK'
  <2>1. CASE StaysDeferred
    BY <1>15, <2>1 DEF HandleLate, StaysDeferred
  <2>2. CASE SwitchesToNlpi
    BY <1>15, <2>2 DEF HandleLate, SwitchesToNlpi
  <2>3. CASE SwitchesToLpi
    BY <1>15, <2>3 DEF HandleLate, SwitchesToLpi
  <2> QED BY <1>15, <2>1, <2>2, <2>3, DeferredSwitchCases DEF HandleLate
<1>16. ASSUME NEW d \in Det, CloseDet(d) PROVE ModeOK'
  BY <1>16 DEF CloseDet
<1>17. ASSUME NEW d \in Det, NotifyUnloaded(d) PROVE ModeOK'
  <2>1. CASE d \in Calls /\ HandleStreamPauseResume(FALSE)
    BY <1>17, <2>1 DEF NotifyUnloaded, HandleStreamPauseResume
  <2>2. CASE Listed(d, FALSE) /\ MaySwitch(FALSE) /\ Cancel(FALSE)
    BY <1>17, <2>2 DEF NotifyUnloaded, Listed, MaySwitch, Cancel
  <2>3. CASE Listed(d, FALSE) /\ MaySwitch(FALSE) /\ DeferFor(FALSE)
    BY <1>17, <2>3 DEF NotifyUnloaded, Listed, MaySwitch, DeferFor
  <2>4. CASE Listed(d, FALSE) /\ MaySwitch(FALSE) /\ SwitchNow(FALSE)
    BY <1>17, <2>4 DEF NotifyUnloaded, Listed, MaySwitch, SwitchNow,
        handleConcurrentStreamSwitch, Restarted
  <2>5. CASE Listed(d, FALSE) /\ ~MaySwitch(FALSE) /\ NoSwitch
    BY <1>17, <2>5 DEF NotifyUnloaded, Listed, MaySwitch, NoSwitch
  <2> QED BY <1>17, <2>1, <2>2, <2>3, <2>4, <2>5, ConcurrencyCases DEF
      NotifyUnloaded, Switch
<1>18. ASSUME NEW d \in Det, deregisterStream(d) PROVE ModeOK'
  BY <1>18 DEF deregisterStream, MarkRace
<1>18a. ASSUME NEW d \in Det, CountDeregistered(d) PROVE ModeOK'
  BY <1>18a DEF CountDeregistered
<1>18b. ASSUME NEW d \in Det, onVUIStreamDeregistered(d) PROVE ModeOK'
  BY <1>18b DEF onVUIStreamDeregistered, OneBetween
<1>19. CASE SetCharging
  BY <1>19 DEF SetCharging
<1>20. CASE onChargingStateChange
  BY <1>20 DEF onChargingStateChange, Switch, Cancel, DeferFor, SwitchNow, NoSwitch,
      handleConcurrentStreamSwitch, Restarted
<1>21. CASE CardDown
  BY <1>21 DEF CardDown
<1>22. CASE CardUp
  BY <1>22 DEF CardUp
<1>23. CASE Tick
  BY <1>23 DEF Tick
<1>24. CASE Slept
  BY <1>24 DEF Slept
<1>25. CASE LoopSwitch
  <2>1. CASE StaysDeferred
    BY <1>25, <2>1 DEF LoopSwitch, StaysDeferred
  <2>2. CASE SwitchesToNlpi
    BY <1>25, <2>2 DEF LoopSwitch, SwitchesToNlpi
  <2>3. CASE SwitchesToLpi
    BY <1>25, <2>3 DEF LoopSwitch, SwitchesToLpi
  <2> QED BY <1>25, <2>1, <2>2, <2>3, DeferredSwitchCases DEF LoopSwitch
<1>26. CASE LoopReset
  BY <1>26 DEF LoopReset
<1>27. CASE UNCHANGED vars
  BY <1>27 DEF vars
<1> QED BY <1>1, <1>2, <1>3, <1>4, <1>5, <1>5a, <1>5b, <1>6, <1>7, <1>8, <1>9,
    <1>10, <1>10a, <1>11, <1>12, <1>13, <1>14, <1>15, <1>16, <1>17, <1>18, <1>18a,
    <1>18b, <1>19, <1>20, <1>21, <1>22, <1>23, <1>24, <1>25, <1>26, <1>27 DEF Next, Loop

(* A step that leaves alone who is on the list of streams, and how far its    *)
(* constructor and destructor are.                                            *)
SameList ==
    /\ Registered(Det)' = Registered(Det) /\ Between' = Between
    /\ Adding' = Adding /\ Leaving' = Leaving
    /\ \A d \in Det : /\ pc'[d] = "first" => pc[d] = "first"
                      /\ pc'[d] = "last" => pc[d] = "last"

(* It does, when it moves one stream outside its constructor and destructor.  *)
LEMMA ListSame ==
    ASSUME TypeOK, NEW s \in Streams, NEW step,
           pc' = [pc EXCEPT ![s] = step],
           s \in Det => /\ pc[s] \notin {"closed", "registered", "first", "gone", "last"}
                        /\ step \notin {"closed", "registered", "first", "gone", "last"}
    PROVE  SameList
BY LpiAssumption DEF TypeOK, SameList, Registered, Between, Adding, Leaving, Det, Streams

(* A step that moves no stream leaves it alone.                               *)
LEMMA ListKept ==
    ASSUME pc' = pc
    PROVE  SameList
BY DEF SameList, Registered, Between, Adding, Leaving

(* Who is between its lists and its call, and which of these are on the list. *)
LEMMA BetweenSets ==
    ASSUME TypeOK, LiveOK
    PROVE  /\ Between = Adding \cup Leaving /\ Adding \cap Leaving = {}
           /\ Adding \subseteq Registered(Det) /\ Leaving \cap Registered(Det) = {}
           /\ buffering \subseteq Registered(Det) \ Between
           /\ Registered(Det) \subseteq Det /\ Between \subseteq Det
BY LpiAssumption DEF TypeOK, LiveOK, Up, Between, Adding, Leaving, Registered, Det, Streams

(* One stream at a time stays between its lists and its call.                 *)
LEMMA OneBetweenSame ==
    ASSUME OneBetween, SameList, race' = race, charging' = charging
    PROVE  OneBetween'
BY DEF OneBetween, SameList

(* A step that changes neither the plan nor what it is made for.              *)
PlanKept == OneBetween' /\ FewDeferrals' /\ PlanOK'
LEMMA PlanSame ==
    ASSUME Inv, SameList,
           UNCHANGED <<use_lpi, deferredSwitchState, mNLPIStreams, charging, race>>
    PROVE  PlanKept
<1>1. OneBetween'
    BY OneBetweenSame DEF Inv
<1>2. FewDeferrals'
    BY DEF Inv, FewDeferrals, SameList
<1>3. PlanOK'
    BY DEF Inv, PlanOK, SameList, ToSwitch, use_lpi_temp, WantsNlpi, ForCharging
<1> QED BY <1>1, <1>2, <1>3 DEF PlanKept

(* The end of a deferral: the mode becomes the planned one.                   *)
LEMMA PlanDeferred ==
    ASSUME Inv, SameList, UNCHANGED <<mNLPIStreams, charging, race>>,
           StaysDeferred \/ SwitchesToNlpi \/ SwitchesToLpi
    PROVE  PlanKept
<1>1. CASE StaysDeferred
    BY <1>1, PlanSame DEF StaysDeferred, lpi
<1>2. CASE SwitchesToNlpi
  <2>1. OneBetween'
    BY OneBetweenSame DEF Inv
  <2>2. FewDeferrals'
    BY <1>2 DEF SwitchesToNlpi, FewDeferrals
  <2>3. PlanOK'
    BY <1>2 DEF SwitchesToNlpi, Inv, PlanOK, SameList, ToSwitch, use_lpi_temp,
        WantsNlpi, ForCharging
  <2> QED BY <2>1, <2>2, <2>3 DEF PlanKept
<1>3. CASE SwitchesToLpi
  <2>1. OneBetween'
    BY OneBetweenSame DEF Inv
  <2>2. FewDeferrals'
    BY <1>3 DEF SwitchesToLpi, FewDeferrals
  <2>3. PlanOK'
    BY <1>3 DEF SwitchesToLpi, Inv, PlanOK, SameList, ToSwitch, use_lpi_temp,
        WantsNlpi, ForCharging
  <2> QED BY <2>1, <2>2, <2>3 DEF PlanKept
<1> QED BY <1>1, <1>2, <1>3

(* A stream that keeps detection out of LPI comes, or the charger is plugged  *)
(* in: the plan is NLPI.                                                      *)
LEMMA PlanToNlpi ==
    ASSUME Inv, SameList, ~race, use_lpi_temp,
           Cancel(TRUE) \/ DeferFor(TRUE) \/ SwitchNow(TRUE)
    PROVE  /\ ~use_lpi_temp'
           /\ deferredSwitchState' = "LPI_NLPI" => use_lpi'
           /\ deferredSwitchState' = "NLPI_LPI" => ~use_lpi'
           /\ deferredSwitchState' # "NO_DEFER" => buffering # {}
BY DEF Inv, TypeOK, PlanOK, use_lpi_temp, Cancel, DeferFor, SwitchNow

(* The last one goes: the plan is LPI.                                        *)
LEMMA PlanToLpi ==
    ASSUME Inv, SameList, ~race, ~use_lpi_temp,
           Cancel(FALSE) \/ DeferFor(FALSE) \/ SwitchNow(FALSE)
    PROVE  /\ use_lpi_temp'
           /\ deferredSwitchState' = "LPI_NLPI" => use_lpi'
           /\ deferredSwitchState' = "NLPI_LPI" => ~use_lpi'
           /\ deferredSwitchState' # "NO_DEFER" =>
                 /\ deferredSwitchState' = "NLPI_LPI"
                 /\ buffering # {} \/ Registered(Det) # {}
<1>1. \/ deferredSwitchState = "LPI_NLPI" /\ use_lpi
      \/ deferredSwitchState = "NO_DEFER" /\ ~use_lpi
    BY DEF Inv, TypeOK, PlanOK, use_lpi_temp
<1>2. CASE Cancel(FALSE)
    BY <1>1, <1>2 DEF Cancel, use_lpi_temp
<1>3. CASE DeferFor(FALSE)
    BY <1>1, <1>3 DEF DeferFor, use_lpi_temp
<1>4. CASE SwitchNow(FALSE)
    BY <1>1, <1>4 DEF SwitchNow, use_lpi_temp
<1> QED BY <1>2, <1>3, <1>4

(* A stream that comes onto the NLPI list.                                    *)
LEMMA PlanListed ==
    ASSUME Inv, SameList, NEW s, UNCHANGED <<charging, race>>, Listed(s, TRUE),
           \/ MaySwitch(TRUE) /\ Switch(TRUE)
           \/ ~MaySwitch(TRUE) /\ NoSwitch
    PROVE  PlanKept
<1>1. OneBetween'
    BY OneBetweenSame DEF Inv
<1>2. mNLPIStreams' # {} /\ WantsNlpi'
    BY DEF Listed, WantsNlpi
<1>3. CASE race
    BY <1>1, <1>3 DEF PlanKept, FewDeferrals, PlanOK
<1>4. CASE ~race /\ MaySwitch(TRUE)
  <2>1. use_lpi_temp /\ (Cancel(TRUE) \/ DeferFor(TRUE) \/ SwitchNow(TRUE))
    BY <1>4 DEF MaySwitch, Switch
  <2>2. /\ ~use_lpi_temp'
        /\ deferredSwitchState' = "LPI_NLPI" => use_lpi'
        /\ deferredSwitchState' = "NLPI_LPI" => ~use_lpi'
        /\ deferredSwitchState' # "NO_DEFER" => buffering # {}
    BY <1>4, <2>1, PlanToNlpi
  <2>3. FewDeferrals'
    BY <2>2, BetweenSets DEF Inv, FewDeferrals, SameList
  <2>4. PlanOK'
    BY <1>2, <2>2 DEF PlanOK
  <2> QED BY <1>1, <2>3, <2>4 DEF PlanKept
<1>5. CASE ~race /\ ~MaySwitch(TRUE)
  <2>1. ~use_lpi_temp /\ UNCHANGED lpi
    BY <1>5 DEF MaySwitch, NoSwitch
  <2>2. FewDeferrals'
    BY <2>1 DEF Inv, FewDeferrals, SameList, lpi
  <2>3. ~use_lpi_temp'
    BY <2>1 DEF use_lpi_temp, lpi
  <2>4. PlanOK'
    BY <1>2, <2>1, <2>3, <1>5 DEF Inv, PlanOK, lpi
  <2> QED BY <1>1, <2>2, <2>4 DEF PlanKept
<1> QED BY <1>3, <1>4, <1>5

(* A stream that leaves the NLPI list.                                        *)
LEMMA PlanUnlisted ==
    ASSUME Inv, SameList, NEW s \in mNLPIStreams, UNCHANGED <<charging, race>>,
           Listed(s, FALSE),
           \/ MaySwitch(FALSE) /\ Switch(FALSE)
           \/ ~MaySwitch(FALSE) /\ NoSwitch
    PROVE  PlanKept
<1>1. OneBetween'
    BY OneBetweenSame DEF Inv
<1>2. CASE race
    BY <1>1, <1>2 DEF PlanKept, FewDeferrals, PlanOK
<1>3. ~race => ~use_lpi_temp
    BY DEF Inv, PlanOK
<1>4. CASE ~race /\ MaySwitch(FALSE)
  <2>1. /\ ~use_lpi_temp /\ (Cancel(FALSE) \/ DeferFor(FALSE) \/ SwitchNow(FALSE))
        /\ mNLPIStreams' = {} /\ ~ForCharging
    BY <1>3, <1>4 DEF MaySwitch, Switch
  <2>2. /\ use_lpi_temp'
        /\ deferredSwitchState' = "LPI_NLPI" => use_lpi'
        /\ deferredSwitchState' = "NLPI_LPI" => ~use_lpi'
        /\ deferredSwitchState' # "NO_DEFER" =>
              /\ deferredSwitchState' = "NLPI_LPI"
              /\ buffering # {} \/ Registered(Det) # {}
    BY <1>4, <2>1, PlanToLpi
  <2>3. FewDeferrals'
    BY <2>1, <2>2, BetweenSets DEF Inv, FewDeferrals, SameList, ForCharging
  <2>4. ~ForCharging' /\ ~WantsNlpi'
    BY <2>1 DEF ForCharging, WantsNlpi, SameList
  <2>5. PlanOK'
    BY <2>1, <2>2, <2>4 DEF PlanOK
  <2> QED BY <1>1, <2>3, <2>5 DEF PlanKept
<1>5. CASE ~race /\ ~MaySwitch(FALSE)
  <2>1. UNCHANGED lpi /\ (mNLPIStreams' # {} \/ ForCharging)
    BY <1>5 DEF MaySwitch, NoSwitch
  <2>2. FewDeferrals'
    BY <2>1 DEF Inv, FewDeferrals, SameList, lpi
  <2>3. ~use_lpi_temp'
    BY <1>3, <1>5, <2>1 DEF use_lpi_temp, lpi
  <2>4. WantsNlpi' /\ (mNLPIStreams' = {} => Registered(Det)' # {})
    BY <2>1 DEF WantsNlpi, ForCharging, SameList
  <2>5. PlanOK'
    BY <2>1, <2>3, <2>4, <1>5 DEF Inv, PlanOK, lpi
  <2> QED BY <1>1, <2>2, <2>5 DEF PlanKept
<1> QED BY <1>2, <1>4, <1>5

(* The battery callback.  No stream is between its lists and its call.        *)
LEMMA PlanCharging ==
    ASSUME Inv, onChargingStateChange
    PROVE  PlanKept
<1>0. SameList
    BY ListKept DEF onChargingStateChange
<1>1. /\ charging.pending /\ OnCharging /\ UNCHANGED <<race, mNLPIStreams>>
      /\ charging'.state = charging.state /\ ~charging'.pending
    BY ChargingCases DEF Inv, EnvOK, onChargingStateChange, conc
<1>2. ~race => Between = {} /\ Between' = {} /\ Adding' = {} /\ Leaving' = {}
    BY <1>0, <1>1, BetweenSets DEF Inv, OneBetween, SameList
<1>3. OneBetween' /\ FewDeferrals'
    BY <1>0, <1>1, <1>2 DEF Inv, OneBetween, FewDeferrals, SameList
<1>4. CASE race
    BY <1>1, <1>3, <1>4 DEF PlanKept, PlanOK
<1>5. CASE ~race
  <2> PICK plugged \in BOOLEAN :
       /\ charging.state = plugged
       /\ \/ MayCharge(plugged) /\ Switch(plugged)
          \/ ~MayCharge(plugged) /\ NoSwitch
    BY ChargingCases DEF Inv
  <2>1. CASE plugged /\ MayCharge(plugged)
    <3>1. /\ use_lpi_temp /\ Registered(Det) # {}
          /\ Cancel(TRUE) \/ DeferFor(TRUE) \/ SwitchNow(TRUE)
      BY <2>1 DEF MayCharge, Switch
    <3>2. /\ ~use_lpi_temp'
          /\ deferredSwitchState' = "LPI_NLPI" => use_lpi'
          /\ deferredSwitchState' = "NLPI_LPI" => ~use_lpi'
      BY <1>0, <1>5, <3>1, PlanToNlpi
    <3>3. WantsNlpi' /\ Registered(Det)' # {}
      BY <1>0, <1>1, <2>1, <3>1 DEF WantsNlpi, ForCharging, SameList
    <3> QED BY <1>3, <3>2, <3>3 DEF PlanKept, PlanOK
  <2>2. CASE ~plugged /\ MayCharge(plugged)
    <3>1. /\ ~use_lpi_temp /\ mNLPIStreams' = {}
          /\ Cancel(FALSE) \/ DeferFor(FALSE) \/ SwitchNow(FALSE)
      BY <1>1, <2>2 DEF MayCharge, Switch
    <3>2. /\ use_lpi_temp'
          /\ deferredSwitchState' = "LPI_NLPI" => use_lpi'
          /\ deferredSwitchState' = "NLPI_LPI" => ~use_lpi'
      BY <1>0, <1>5, <3>1, PlanToLpi
    <3>3. ~WantsNlpi'
      BY <1>1, <2>2, <3>1 DEF WantsNlpi, ForCharging
    <3> QED BY <1>3, <3>1, <3>2, <3>3 DEF PlanKept, PlanOK
  <2>3. CASE ~MayCharge(plugged)
    <3>1. UNCHANGED <<use_lpi, deferredSwitchState>> /\ use_lpi_temp' = use_lpi_temp
      BY <2>3 DEF NoSwitch, lpi, use_lpi_temp
    <3>2. /\ Registered(Det)' = Registered(Det)
          /\ Registered(Det) = {} \/ IF plugged THEN ~use_lpi_temp
                                     ELSE use_lpi_temp \/ mNLPIStreams # {}
      BY <1>0, <2>3 DEF MayCharge, SameList
    <3>3. /\ deferredSwitchState = "LPI_NLPI" => use_lpi
          /\ deferredSwitchState = "NLPI_LPI" => ~use_lpi
          /\ mNLPIStreams # {} => ~use_lpi_temp
          /\ mNLPIStreams = {} /\ Registered(Det) = {} => use_lpi_temp
      BY <1>2, <1>5 DEF Inv, PlanOK
    <3>4. WantsNlpi' <=> mNLPIStreams # {} \/ (plugged /\ Registered(Det) # {})
      BY <1>1, <3>2 DEF WantsNlpi, ForCharging
    <3>5. use_lpi_temp \in BOOLEAN
      BY DEF use_lpi_temp, Inv, TypeOK
    <3>6. use_lpi_temp' <=> ~WantsNlpi'
      BY <3>1, <3>2, <3>3, <3>4, <3>5
    <3> QED BY <1>1, <1>3, <3>1, <3>2, <3>3, <3>6 DEF PlanKept, PlanOK
  <2> QED BY <2>1, <2>2, <2>3
<1> QED BY <1>4, <1>5

(* A constructor begins.                                                      *)
LEMMA PlanRegister ==
    ASSUME Inv, NEW d \in Det, registerStream(d)
    PROVE  PlanKept
<1>1. /\ Registered(Det)' = Registered(Det) \cup {d} /\ Between' = Between \cup {d}
      /\ Adding' = Adding \cup {d} /\ Leaving' = Leaving /\ d \notin Between
      /\ pc[d] = "closed" /\ pc' = [pc EXCEPT ![d] = "registered"]
    BY LpiAssumption DEF registerStream, Go, Inv, TypeOK, Registered, Between, Adding,
        Leaving, Det, Streams
<1>2. /\ UNCHANGED <<use_lpi, deferredSwitchState, mNLPIStreams, charging>>
      /\ use_lpi_temp' = use_lpi_temp
      /\ race => race'
      /\ ~race' /\ OnCharging =>
            Between = {} /\ ~charging.pending /\ deferredSwitchState = "NO_DEFER"
    BY DEF registerStream, MarkRace, lpi, conc, use_lpi_temp
<1>3. OneBetween'
    BY LpiAssumption, <1>1, <1>2 DEF Inv, TypeOK, OneBetween, Between, Det, Streams
<1>4. FewDeferrals'
    BY <1>1, <1>2 DEF FewDeferrals
<1>5. CASE ~OnCharging
  <2>1. ~race' => PlanOK
    BY <1>2 DEF Inv
  <2> QED BY <1>1, <1>2, <1>3, <1>4, <1>5, <2>1 DEF PlanKept, PlanOK, ToSwitch,
        WantsNlpi, ForCharging
<1>6. CASE OnCharging /\ ~race'
  <2>1. /\ ~race /\ Between = {} /\ ~charging.pending /\ deferredSwitchState = "NO_DEFER"
        /\ Adding = {} /\ Leaving = {} /\ use_lpi_temp = use_lpi
    BY <1>2, <1>6, BetweenSets DEF Inv, TypeOK, use_lpi_temp
  <2>2. /\ mNLPIStreams # {} => ~use_lpi
        /\ mNLPIStreams = {} /\ Registered(Det) = {} => use_lpi
        /\ use_lpi <=> ~WantsNlpi
    BY <2>1 DEF Inv, PlanOK, ToSwitch
  <2>3. CASE Registered(Det) = {} /\ mNLPIStreams = {} /\ charging.state
    <3>1. ToSwitch'
      BY <1>1, <1>2, <1>6, <2>1, <2>2, <2>3 DEF ToSwitch
    <3> QED BY <1>1, <1>2, <1>3, <1>4, <2>1, <2>2, <3>1 DEF PlanKept, PlanOK
  <2>4. CASE ~(Registered(Det) = {} /\ mNLPIStreams = {} /\ charging.state)
    <3>1. WantsNlpi' <=> WantsNlpi
      BY <1>1, <1>2, <2>4 DEF WantsNlpi, ForCharging
    <3> QED BY <1>1, <1>2, <1>3, <1>4, <2>1, <2>2, <3>1 DEF PlanKept, PlanOK
  <2> QED BY <2>3, <2>4
<1>7. CASE race'
    BY <1>3, <1>4, <1>7 DEF PlanKept, PlanOK
<1> QED BY <1>5, <1>6, <1>7

(* It counts the streams on the list.                                         *)
LEMMA PlanCountRegistered ==
    ASSUME Inv, NEW d \in Det, CountRegistered(d)
    PROVE  PlanKept
<1>0. UNCHANGED <<use_lpi, deferredSwitchState, mNLPIStreams, charging, race>>
    BY DEF CountRegistered, lpi, conc, env
<1>1. /\ Registered(Det)' = Registered(Det) /\ d \in Registered(Det)
      /\ d \in Adding /\ d \in Between /\ Leaving' = Leaving
      /\ \A e \in Det : e # d => pc'[e] = pc[e]
    BY LpiAssumption DEF CountRegistered, Go, Inv, TypeOK, Registered, Between, Adding,
        Leaving, Det, Streams
<1>2. CASE Registered(Det) = {d}
  <2>1. pc' = [pc EXCEPT ![d] = "first"] /\ Adding' = Adding /\ Between' = Between
    BY LpiAssumption, <1>2 DEF CountRegistered, Go, Inv, TypeOK, Adding, Between, Det, Streams
  <2>2. OneBetween'
    BY LpiAssumption, <1>0, <1>1, <1>2, <2>1 DEF Inv, TypeOK, OneBetween, Det, Streams
  <2>3. FewDeferrals'
    BY <1>0, <1>1, <2>1 DEF Inv, FewDeferrals
  <2>4. PlanOK'
    BY <1>0, <1>1, <2>1 DEF Inv, PlanOK, ToSwitch, use_lpi_temp, WantsNlpi, ForCharging
  <2> QED BY <2>2, <2>3, <2>4 DEF PlanKept
<1>3. CASE Registered(Det) # {d}
  <2>1. /\ pc' = [pc EXCEPT ![d] = "opened"]
        /\ Adding' = Adding \ {d} /\ Between' = Between \ {d}
    BY LpiAssumption, <1>3 DEF CountRegistered, Go, Inv, TypeOK, Adding, Between, Det, Streams
  <2>2. OneBetween'
    BY LpiAssumption, <1>0, <1>1, <1>3, <2>1 DEF Inv, TypeOK, OneBetween, Det, Streams
  <2>3. FewDeferrals'
    BY <1>0, <1>1, <2>1 DEF Inv, FewDeferrals
  <2>4. OnCharging /\ ~race => ~ToSwitch /\ ~ToSwitch'
    BY <1>0, <1>1, <1>3, <2>1, BetweenSets DEF Inv, OneBetween, ToSwitch
  <2>5. PlanOK'
    BY <1>0, <1>1, <2>1, <2>4 DEF Inv, PlanOK, ToSwitch, use_lpi_temp, WantsNlpi,
        ForCharging
  <2> QED BY <2>2, <2>3, <2>5 DEF PlanKept
<1> QED BY <1>2, <1>3

(* The first one looks at the battery.                                        *)
LEMMA PlanFirst ==
    ASSUME Inv, NEW d \in Det, onVUIStreamRegistered(d)
    PROVE  PlanKept
<1>1. /\ Registered(Det)' = Registered(Det) /\ d \in Registered(Det)
      /\ d \in Adding /\ d \in Between /\ Leaving' = Leaving /\ pc[d] = "first"
      /\ Adding' = Adding \ {d} /\ Between' = Between \ {d}
      /\ pc' = [pc EXCEPT ![d] = "opened"]
    BY LpiAssumption DEF onVUIStreamRegistered, Go, Inv, TypeOK, Registered, Between,
        Adding, Leaving, Det, Streams
<1>2. /\ UNCHANGED <<deferredSwitchState, mNLPIStreams, charging, race>>
      /\ use_lpi' = (use_lpi /\ ~(charging.state /\ OnCharging))
      /\ use_lpi \in BOOLEAN
    BY DEF onVUIStreamRegistered, conc, env, Inv, TypeOK
<1>3. OneBetween'
    BY LpiAssumption, <1>1, <1>2 DEF Inv, TypeOK, OneBetween, Det, Streams
<1>4. FewDeferrals'
    BY <1>1, <1>2 DEF Inv, FewDeferrals
<1>5. CASE race
    BY <1>2, <1>3, <1>4, <1>5 DEF PlanKept, PlanOK
<1>6. CASE ~OnCharging
    BY <1>1, <1>2, <1>3, <1>4, <1>6 DEF PlanKept, Inv, PlanOK, ToSwitch, use_lpi_temp,
        WantsNlpi, ForCharging
<1>7. CASE OnCharging /\ ~race
  <2>1. /\ Registered(Det) = {d} /\ Between = {d} /\ Leaving = {} /\ ~charging.pending
        /\ \/ deferredSwitchState = "NO_DEFER"
           \/ deferredSwitchState = "NLPI_LPI" /\ ~charging.state
    BY <1>1, <1>7, BetweenSets DEF Inv, OneBetween, FewDeferrals
  <2>2. CASE ~charging.state
    <3>1. use_lpi' = use_lpi /\ use_lpi_temp' = use_lpi_temp
      BY <1>2, <2>2 DEF use_lpi_temp
    <3> QED BY <1>1, <1>2, <1>3, <1>4, <1>7, <2>1, <2>2, <3>1 DEF PlanKept, Inv, PlanOK,
          ToSwitch, WantsNlpi, ForCharging
  <2>3. CASE charging.state
    <3>1. ~use_lpi' /\ ~use_lpi_temp' /\ WantsNlpi'
      BY <1>1, <1>2, <1>7, <2>1, <2>3 DEF use_lpi_temp, WantsNlpi, ForCharging
    <3> QED BY <1>1, <1>2, <1>3, <1>4, <2>1, <2>3, <3>1 DEF PlanKept, PlanOK
  <2> QED BY <2>2, <2>3
<1> QED BY <1>5, <1>6, <1>7

(* A destructor begins.                                                       *)
LEMMA PlanDeregister ==
    ASSUME Inv, NEW d \in Det, deregisterStream(d)
    PROVE  PlanKept
<1>1. /\ Registered(Det)' = Registered(Det) \ {d} /\ Between' = Between \cup {d}
      /\ Adding' = Adding /\ Leaving' = Leaving \cup {d} /\ d \notin Between
      /\ d \in Registered(Det)
      /\ pc[d] = "closing" /\ pc' = [pc EXCEPT ![d] = "gone"]
    BY LpiAssumption DEF deregisterStream, Go, Inv, TypeOK, Registered, Between, Adding,
        Leaving, Det, Streams
<1>2. /\ UNCHANGED <<use_lpi, deferredSwitchState, mNLPIStreams, charging>>
      /\ use_lpi_temp' = use_lpi_temp
      /\ race => race'
      /\ ~race' /\ OnCharging =>
            Between = {} /\ ~charging.pending /\ deferredSwitchState = "NO_DEFER"
    BY DEF deregisterStream, MarkRace, lpi, conc, use_lpi_temp
<1>3. OneBetween'
    BY LpiAssumption, <1>1, <1>2 DEF Inv, TypeOK, OneBetween, Between, Det, Streams
<1>4. FewDeferrals'
    BY <1>1, <1>2 DEF FewDeferrals
<1>5. CASE ~OnCharging
  <2>1. ~race' => PlanOK
    BY <1>2 DEF Inv
  <2> QED BY <1>1, <1>2, <1>3, <1>4, <1>5, <2>1 DEF PlanKept, PlanOK, ToSwitch,
        WantsNlpi, ForCharging
<1>6. CASE OnCharging /\ ~race'
  <2>1. /\ ~race /\ Between = {} /\ ~charging.pending /\ deferredSwitchState = "NO_DEFER"
        /\ Adding = {} /\ Leaving = {} /\ use_lpi_temp = use_lpi
    BY <1>2, <1>6, BetweenSets DEF Inv, TypeOK, use_lpi_temp
  <2>2. /\ mNLPIStreams # {} => ~use_lpi
        /\ use_lpi <=> ~WantsNlpi
    BY <2>1 DEF Inv, PlanOK, ToSwitch
  <2>3. CASE Registered(Det) = {d} /\ mNLPIStreams = {} /\ charging.state
    <3>1. WantsNlpi
      BY <1>1, <1>6, <2>3 DEF WantsNlpi, ForCharging
    <3>2. ToSwitch'
      BY <1>1, <1>2, <1>6, <2>1, <2>2, <2>3, <3>1 DEF ToSwitch
    <3> QED BY <1>1, <1>2, <1>3, <1>4, <2>1, <2>2, <3>2 DEF PlanKept, PlanOK
  <2>4. CASE ~(Registered(Det) = {d} /\ mNLPIStreams = {} /\ charging.state)
    <3>1. WantsNlpi' <=> WantsNlpi
      BY <1>1, <1>2, <2>4 DEF WantsNlpi, ForCharging
    <3> QED BY <1>1, <1>2, <1>3, <1>4, <2>1, <2>2, <3>1 DEF PlanKept, PlanOK
  <2> QED BY <2>3, <2>4
<1>7. CASE race'
    BY <1>3, <1>4, <1>7 DEF PlanKept, PlanOK
<1> QED BY <1>5, <1>6, <1>7

(* It counts the streams that are left.                                       *)
LEMMA PlanCountDeregistered ==
    ASSUME Inv, NEW d \in Det, CountDeregistered(d)
    PROVE  PlanKept
<1>0. UNCHANGED <<use_lpi, deferredSwitchState, mNLPIStreams, charging, race>>
    BY DEF CountDeregistered, lpi, conc, env
<1>1. /\ Registered(Det)' = Registered(Det) /\ d \notin Registered(Det)
      /\ d \in Leaving /\ d \in Between /\ Adding' = Adding
    BY LpiAssumption DEF CountDeregistered, Go, Inv, TypeOK, Registered, Between, Adding,
        Leaving, Det, Streams
<1>2. CASE Registered(Det) = {}
  <2>1. pc' = [pc EXCEPT ![d] = "last"] /\ Leaving' = Leaving /\ Between' = Between
    BY LpiAssumption, <1>2 DEF CountDeregistered, Go, Inv, TypeOK, Leaving, Between, Det,
        Streams
  <2>2. OneBetween'
    BY LpiAssumption, <1>0, <1>1, <1>2, <2>1 DEF Inv, TypeOK, OneBetween, Det, Streams
  <2>3. FewDeferrals'
    BY <1>0, <1>1, <2>1 DEF Inv, FewDeferrals
  <2>4. PlanOK'
    BY <1>0, <1>1, <2>1 DEF Inv, PlanOK, ToSwitch, use_lpi_temp, WantsNlpi, ForCharging
  <2> QED BY <2>2, <2>3, <2>4 DEF PlanKept
<1>3. CASE Registered(Det) # {}
  <2>1. /\ pc' = [pc EXCEPT ![d] = "closed"]
        /\ Leaving' = Leaving \ {d} /\ Between' = Between \ {d}
    BY LpiAssumption, <1>3 DEF CountDeregistered, Go, Inv, TypeOK, Leaving, Between, Det,
        Streams
  <2>2. OneBetween'
    BY LpiAssumption, <1>0, <1>1, <1>3, <2>1 DEF Inv, TypeOK, OneBetween, Det, Streams
  <2>3. FewDeferrals'
    BY <1>0, <1>1, <2>1 DEF Inv, FewDeferrals
  <2>4. OnCharging /\ ~race => ~ToSwitch /\ ~ToSwitch'
    BY <1>0, <1>1, <1>3, <2>1, BetweenSets DEF Inv, OneBetween, ToSwitch
  <2>5. PlanOK'
    BY <1>0, <1>1, <1>3, <2>1, <2>4 DEF Inv, PlanOK, ToSwitch, use_lpi_temp, WantsNlpi,
        ForCharging
  <2> QED BY <2>2, <2>3, <2>5 DEF PlanKept
<1> QED BY <1>2, <1>3

(* The last one looks at the battery.                                         *)
LEMMA PlanLast ==
    ASSUME Inv, NEW d \in Det, onVUIStreamDeregistered(d)
    PROVE  PlanKept
<1>1. /\ Registered(Det)' = Registered(Det) /\ d \notin Registered(Det)
      /\ d \in Leaving /\ d \in Between /\ Adding' = Adding /\ pc[d] = "last"
      /\ Leaving' = Leaving \ {d} /\ Between' = Between \ {d}
      /\ pc' = [pc EXCEPT ![d] = "closed"]
    BY LpiAssumption DEF onVUIStreamDeregistered, Go, Inv, TypeOK, Registered, Between,
        Adding, Leaving, Det, Streams
<1>2. /\ UNCHANGED <<deferredSwitchState, mNLPIStreams, charging, race>>
      /\ use_lpi' = (use_lpi \/ (charging.state /\ OnCharging /\ mNLPIStreams = {}))
      /\ use_lpi \in BOOLEAN
    BY DEF onVUIStreamDeregistered, conc, env, Inv, TypeOK
<1>3. OneBetween'
    BY LpiAssumption, <1>1, <1>2 DEF Inv, TypeOK, OneBetween, Det, Streams
<1>4. FewDeferrals'
    BY <1>1, <1>2 DEF Inv, FewDeferrals
<1>5. CASE race
    BY <1>2, <1>3, <1>4, <1>5 DEF PlanKept, PlanOK
<1>6. CASE ~OnCharging /\ ~race
  <2>1. use_lpi_temp' = use_lpi_temp /\ use_lpi' = use_lpi /\ ~charging.pending
    BY <1>2, <1>6 DEF use_lpi_temp, Inv, EnvOK
  <2>2. WantsNlpi' = WantsNlpi /\ ~ToSwitch /\ (WantsNlpi <=> mNLPIStreams # {})
    BY <1>1, <1>2, <1>6 DEF WantsNlpi, ForCharging, ToSwitch
  <2> QED BY <1>1, <1>2, <1>3, <1>4, <1>6, <2>1, <2>2 DEF PlanKept, Inv, PlanOK
<1>7. CASE OnCharging /\ ~race
  <2>1. /\ Registered(Det) = {} /\ Between = {d} /\ Adding = {} /\ ~charging.pending
        /\ deferredSwitchState = "NO_DEFER"
    BY <1>1, <1>7, BetweenSets DEF Inv, OneBetween, FewDeferrals
  <2>2. use_lpi_temp = use_lpi /\ use_lpi_temp' = use_lpi'
    BY <1>2, <2>1 DEF use_lpi_temp
  <2>3. (WantsNlpi <=> mNLPIStreams # {}) /\ (WantsNlpi' <=> mNLPIStreams # {})
    BY <1>1, <1>2, <2>1 DEF WantsNlpi, ForCharging
  <2>4. use_lpi' <=> ~WantsNlpi'
    BY <1>2, <1>7, <2>1, <2>2, <2>3 DEF Inv, PlanOK, ToSwitch
  <2> QED BY <1>1, <1>2, <1>3, <1>4, <2>1, <2>2, <2>3, <2>4 DEF PlanKept, PlanOK
<1> QED BY <1>5, <1>6, <1>7

(* The mode planned from (use_lpi_temp) is the one wanted after every step.   *)
LEMMA PlanStep ==
    ASSUME NoCrs, Inv, [Next]_vars
    PROVE  PlanKept
<1> USE LpiAssumption DEF Go, Inv, lpi, conc, det, env, LoopTo
<1>d. Det \subseteq Streams /\ Others \subseteq Streams /\ \A s \in Others : s \notin Det
    BY DEF Det, Streams, Others
<1>1. ASSUME NEW s \in Others, Open(s) PROVE PlanKept
  BY <1>1, <1>d, ListSame, PlanSame DEF Open
<1>2. ASSUME NEW s \in Others, NotifyOpened(s) PROVE PlanKept
  <2>1. SameList /\ UNCHANGED <<charging, race>>
    BY <1>2, <1>d, ListSame DEF NotifyOpened
  <2>2. CASE HandleStreamPauseResume(TRUE)
    BY <2>1, <2>2, PlanSame DEF HandleStreamPauseResume
  <2> QED BY <1>2, <2>1, <2>2, ConcurrencyCases, PlanListed DEF NotifyOpened
<1>3. ASSUME NEW s \in Others, NotifyClosed(s) PROVE PlanKept
  <2>1. SameList /\ UNCHANGED <<charging, race>>
    BY <1>3, <1>d, ListSame DEF NotifyClosed
  <2>2. CASE HandleStreamPauseResume(FALSE)
    BY <2>1, <2>2, PlanSame DEF HandleStreamPauseResume
  <2>3. s \in Calls \/ s \in mNLPIStreams
    BY <1>3 DEF NotifyClosed, ListOK, Others, NoCrs
  <2> QED BY <1>3, <2>1, <2>2, <2>3, ConcurrencyCases, PlanUnlisted DEF NotifyClosed,
      Listed
<1>4. ASSUME NEW s \in Others, Closed(s) PROVE PlanKept
  BY <1>4, <1>d, ListSame, PlanSame DEF Closed
<1>5. ASSUME NEW d \in Det, registerStream(d) PROVE PlanKept
  BY <1>5, PlanRegister
<1>5a. ASSUME NEW d \in Det, CountRegistered(d) PROVE PlanKept
  BY <1>5a, PlanCountRegistered
<1>5b. ASSUME NEW d \in Det, onVUIStreamRegistered(d) PROVE PlanKept
  BY <1>5b, PlanFirst
<1>6. ASSUME NEW d \in Det, ReadCount(d) PROVE PlanKept
  BY <1>6, <1>d, ListSame, PlanSame DEF ReadCount
<1>7. ASSUME NEW d \in Det, Constructed(d) PROVE PlanKept
  BY <1>7, <1>d, ListSame, PlanSame DEF Constructed
<1>8. ASSUME NEW d \in Det, NotifyLoaded(d) PROVE PlanKept
  <2>1. SameList /\ UNCHANGED <<charging, race>>
    BY <1>8, <1>d, ListSame DEF NotifyLoaded
  <2>2. d \notin Calls
    BY DEF Det, Others
  <2> QED BY <1>8, <2>1, <2>2, ConcurrencyCases, PlanListed DEF NotifyLoaded
<1>9. ASSUME NEW d \in Det, StartHandlesDeferred(d) PROVE PlanKept
  <2>1. SameList /\ UNCHANGED <<mNLPIStreams, charging, race>>
    BY <1>9, <1>d, ListSame DEF StartHandlesDeferred
  <2> QED BY <1>9, <2>1, DeferredSwitchCases, PlanDeferred DEF StartHandlesDeferred
<1>10. ASSUME NEW d \in Det, Start(d) PROVE PlanKept
  BY <1>10, <1>d, ListSame, PlanSame DEF Start
<1>10a. ASSUME NEW d \in Det, start_l(d) PROVE PlanKept
  BY <1>10a, <1>d, ListSame, PlanSame DEF start_l
<1>11. ASSUME NEW d \in Det, Push(d) PROVE PlanKept
  BY <1>11, <1>d, ListSame, PlanSame DEF Push
<1>12. ASSUME NEW d \in Det, Stop(d) PROVE PlanKept
  BY <1>12, ListKept, PlanSame DEF Stop
<1>13. ASSUME NEW d \in Det, Detect(d) PROVE PlanKept
  BY <1>13, ListKept, PlanSame DEF Detect
<1>14. ASSUME NEW d \in Det, EndBuffering(d) PROVE PlanKept
  BY <1>14, ListKept, PlanSame DEF EndBuffering
<1>15. ASSUME NEW d \in Det, HandleLate(d) PROVE PlanKept
  BY <1>15, ListKept, DeferredSwitchCases, PlanDeferred DEF HandleLate
<1>16. ASSUME NEW d \in Det, CloseDet(d) PROVE PlanKept
  BY <1>16, <1>d, ListSame, PlanSame DEF CloseDet
<1>17. ASSUME NEW d \in Det, NotifyUnloaded(d) PROVE PlanKept
  <2>1. SameList /\ UNCHANGED <<charging, race>>
    BY <1>17, ListKept DEF NotifyUnloaded
  <2>2. d \notin Calls /\ d \in mNLPIStreams
    BY <1>17 DEF NotifyUnloaded, Det, Others
  <2> QED BY <1>17, <2>1, <2>2, ConcurrencyCases, PlanUnlisted DEF NotifyUnloaded
<1>18. ASSUME NEW d \in Det, deregisterStream(d) PROVE PlanKept
  BY <1>18, PlanDeregister
<1>18a. ASSUME NEW d \in Det, CountDeregistered(d) PROVE PlanKept
  BY <1>18a, PlanCountDeregistered
<1>18b. ASSUME NEW d \in Det, onVUIStreamDeregistered(d) PROVE PlanKept
  BY <1>18b, PlanLast
<1>19. CASE SetCharging
  <2>1. SameList /\ charging'.pending /\ OnCharging
    BY <1>19, ListKept DEF SetCharging
  <2>2. UNCHANGED <<use_lpi, deferredSwitchState, mNLPIStreams>>
    BY <1>19 DEF SetCharging
  <2>3. race => race'
    BY <1>19 DEF SetCharging
  <2>4. ~race' => Between' = {} /\ Between = {}
    BY <1>19, <2>1 DEF SetCharging, SameList
  <2>5. OneBetween' /\ FewDeferrals'
    BY <2>1, <2>3, <2>4 DEF OneBetween, FewDeferrals, SameList
  <2>6. PlanOK'
    BY <2>1, <2>2, <2>3, <2>4 DEF PlanOK, SameList, use_lpi_temp
  <2> QED BY <2>5, <2>6 DEF PlanKept
<1>20. CASE onChargingStateChange
  BY <1>20, PlanCharging
<1>21. CASE CardDown
  BY <1>21, ListKept, PlanSame DEF CardDown
<1>22. CASE CardUp
  BY <1>22, ListKept, PlanSame DEF CardUp
<1>23. CASE Tick
  BY <1>23, ListKept, PlanSame DEF Tick
<1>24. CASE Slept
  BY <1>24, ListKept, PlanSame DEF Slept
<1>25. CASE LoopSwitch
  BY <1>25, ListKept, DeferredSwitchCases, PlanDeferred DEF LoopSwitch
<1>26. CASE LoopReset
  BY <1>26, ListKept, PlanSame DEF LoopReset
<1>27. CASE UNCHANGED vars
  BY <1>27, ListKept, PlanSame DEF vars
<1> QED BY <1>1, <1>2, <1>3, <1>4, <1>5, <1>5a, <1>5b, <1>6, <1>7, <1>8, <1>9,
    <1>10, <1>10a, <1>11, <1>12, <1>13, <1>14, <1>15, <1>16, <1>17, <1>18, <1>18a,
    <1>18b, <1>19, <1>20, <1>21, <1>22, <1>23, <1>24, <1>25, <1>26, <1>27 DEF Next, Loop

(* A stream configured for NLPI is on the list before it can start, which     *)
(* keeps a switch to LPI away while it is started.                            *)
LEMMA NlpiStep ==
    ASSUME NoCrs, Inv, [Next]_vars
    PROVE  NlpiOff'
<1> USE LpiAssumption DEF Go, lpi, conc, det, env, NlpiOff, PlanOK, ListOK, LiveOK,
    EnvOK, Up, Registered, Mode, use_lpi_temp, NoCrs, Inv, Others, Det, Streams,
    Concurrent, TypeOK, LoopTo
<1>1. ASSUME NEW s \in Others, Open(s) PROVE NlpiOff'
  BY <1>1 DEF Open
<1>2. ASSUME NEW s \in Others, NotifyOpened(s) PROVE NlpiOff'
  <2>1. CASE s \in Calls /\ HandleStreamPauseResume(TRUE)
    BY <1>2, <2>1 DEF NotifyOpened, HandleStreamPauseResume
  <2>2. CASE Listed(s, TRUE) /\ MaySwitch(TRUE) /\ Cancel(TRUE)
    BY <1>2, <2>2 DEF NotifyOpened, Listed, MaySwitch, Cancel
  <2>3. CASE Listed(s, TRUE) /\ MaySwitch(TRUE) /\ DeferFor(TRUE)
    BY <1>2, <2>3 DEF NotifyOpened, Listed, MaySwitch, DeferFor
  <2>4. CASE Listed(s, TRUE) /\ MaySwitch(TRUE) /\ SwitchNow(TRUE)
    BY <1>2, <2>4 DEF NotifyOpened, Listed, MaySwitch, SwitchNow,
        handleConcurrentStreamSwitch, Restarted
  <2>5. CASE Listed(s, TRUE) /\ ~MaySwitch(TRUE) /\ NoSwitch
    BY <1>2, <2>5 DEF NotifyOpened, Listed, MaySwitch, NoSwitch
  <2> QED BY <1>2, <2>1, <2>2, <2>3, <2>4, <2>5, ConcurrencyCases DEF NotifyOpened,
      Switch
<1>3. ASSUME NEW s \in Others, NotifyClosed(s) PROVE NlpiOff'
  <2>1. CASE s \in Calls /\ HandleStreamPauseResume(FALSE)
    BY <1>3, <2>1 DEF NotifyClosed, HandleStreamPauseResume
  <2>2. CASE Listed(s, FALSE) /\ MaySwitch(FALSE) /\ Cancel(FALSE)
    BY <1>3, <2>2 DEF NotifyClosed, Listed, MaySwitch, Cancel
  <2>3. CASE Listed(s, FALSE) /\ MaySwitch(FALSE) /\ DeferFor(FALSE)
    BY <1>3, <2>3 DEF NotifyClosed, Listed, MaySwitch, DeferFor
  <2>4. CASE Listed(s, FALSE) /\ MaySwitch(FALSE) /\ SwitchNow(FALSE)
    BY <1>3, <2>4 DEF NotifyClosed, Listed, MaySwitch, SwitchNow,
        handleConcurrentStreamSwitch, Restarted
  <2>5. CASE Listed(s, FALSE) /\ ~MaySwitch(FALSE) /\ NoSwitch
    BY <1>3, <2>5 DEF NotifyClosed, Listed, MaySwitch, NoSwitch
  <2> QED BY <1>3, <2>1, <2>2, <2>3, <2>4, <2>5, ConcurrencyCases DEF NotifyClosed,
      Switch
<1>4. ASSUME NEW s \in Others, Closed(s) PROVE NlpiOff'
  BY <1>4 DEF Closed
<1>5. ASSUME NEW d \in Det, registerStream(d) PROVE NlpiOff'
  BY <1>5 DEF registerStream, MarkRace
<1>5a. ASSUME NEW d \in Det, CountRegistered(d) PROVE NlpiOff'
  BY <1>5a DEF CountRegistered
<1>5b. ASSUME NEW d \in Det, onVUIStreamRegistered(d) PROVE NlpiOff'
  BY <1>5b DEF onVUIStreamRegistered
<1>6. ASSUME NEW d \in Det, ReadCount(d) PROVE NlpiOff'
  BY <1>6 DEF ReadCount
<1>7. ASSUME NEW d \in Det, Constructed(d) PROVE NlpiOff'
  BY <1>7 DEF Constructed
<1>8. ASSUME NEW d \in Det, NotifyLoaded(d) PROVE NlpiOff'
  BY <1>8 DEF NotifyLoaded, NlpiSwitch, HandleStreamPauseResume,
      HandleConcurrencyForSoundTriggerStreams, Switch, Cancel, DeferFor, SwitchNow,
      NoSwitch, handleConcurrentStreamSwitch, Restarted, TxCount
<1>9. ASSUME NEW d \in Det, StartHandlesDeferred(d) PROVE NlpiOff'
  <2>1. CASE StaysDeferred
    BY <1>9, <2>1 DEF StartHandlesDeferred, StaysDeferred
  <2>2. CASE SwitchesToNlpi
    BY <1>9, <2>2 DEF StartHandlesDeferred, SwitchesToNlpi
  <2>3. CASE SwitchesToLpi
    BY <1>9, <2>3 DEF StartHandlesDeferred, SwitchesToLpi
  <2> QED BY <1>9, <2>1, <2>2, <2>3, DeferredSwitchCases DEF StartHandlesDeferred
<1>10. ASSUME NEW d \in Det, Start(d) PROVE NlpiOff'
  BY <1>10 DEF Start, MustWait
<1>10a. ASSUME NEW d \in Det, start_l(d) PROVE NlpiOff'
  BY <1>10a DEF start_l
<1>11. ASSUME NEW d \in Det, Push(d) PROVE NlpiOff'
  BY <1>11 DEF Push
<1>12. ASSUME NEW d \in Det, Stop(d) PROVE NlpiOff'
  BY <1>12 DEF Stop
<1>13. ASSUME NEW d \in Det, Detect(d) PROVE NlpiOff'
  BY <1>13 DEF Detect
<1>14. ASSUME NEW d \in Det, EndBuffering(d) PROVE NlpiOff'
  BY <1>14 DEF EndBuffering
<1>15. ASSUME NEW d \in Det, HandleLate(d) PROVE NlpiOff'
  <2>1. CASE StaysDeferred
    BY <1>15, <2>1 DEF HandleLate, StaysDeferred
  <2>2. CASE SwitchesToNlpi
    BY <1>15, <2>2 DEF HandleLate, SwitchesToNlpi
  <2>3. CASE SwitchesToLpi
    BY <1>15, <2>3 DEF HandleLate, SwitchesToLpi
  <2> QED BY <1>15, <2>1, <2>2, <2>3, DeferredSwitchCases DEF HandleLate
<1>16. ASSUME NEW d \in Det, CloseDet(d) PROVE NlpiOff'
  BY <1>16 DEF CloseDet
<1>17. ASSUME NEW d \in Det, NotifyUnloaded(d) PROVE NlpiOff'
  <2>1. CASE d \in Calls /\ HandleStreamPauseResume(FALSE)
    BY <1>17, <2>1 DEF NotifyUnloaded, HandleStreamPauseResume
  <2>2. CASE Listed(d, FALSE) /\ MaySwitch(FALSE) /\ Cancel(FALSE)
    BY <1>17, <2>2 DEF NotifyUnloaded, Listed, MaySwitch, Cancel
  <2>3. CASE Listed(d, FALSE) /\ MaySwitch(FALSE) /\ DeferFor(FALSE)
    BY <1>17, <2>3 DEF NotifyUnloaded, Listed, MaySwitch, DeferFor
  <2>4. CASE Listed(d, FALSE) /\ MaySwitch(FALSE) /\ SwitchNow(FALSE)
    BY <1>17, <2>4 DEF NotifyUnloaded, Listed, MaySwitch, SwitchNow,
        handleConcurrentStreamSwitch, Restarted
  <2>5. CASE Listed(d, FALSE) /\ ~MaySwitch(FALSE) /\ NoSwitch
    BY <1>17, <2>5 DEF NotifyUnloaded, Listed, MaySwitch, NoSwitch
  <2> QED BY <1>17, <2>1, <2>2, <2>3, <2>4, <2>5, ConcurrencyCases DEF
      NotifyUnloaded, Switch
<1>18. ASSUME NEW d \in Det, deregisterStream(d) PROVE NlpiOff'
  BY <1>18 DEF deregisterStream, MarkRace
<1>18a. ASSUME NEW d \in Det, CountDeregistered(d) PROVE NlpiOff'
  BY <1>18a DEF CountDeregistered
<1>18b. ASSUME NEW d \in Det, onVUIStreamDeregistered(d) PROVE NlpiOff'
  BY <1>18b DEF onVUIStreamDeregistered
<1>19. CASE SetCharging
  BY <1>19 DEF SetCharging
<1>20. CASE onChargingStateChange
  <2> PICK plugged \in BOOLEAN :
       /\ charging.state = plugged
       /\ \/ MayCharge(plugged) /\ Switch(plugged)
          \/ ~MayCharge(plugged) /\ NoSwitch
    BY <1>20, ChargingCases
  <2>0. charging.pending /\ charging'.state = charging.state /\ charging'.pending =
      FALSE
    BY <1>20, ChargingCases
  <2>1. CASE MayCharge(plugged) /\ Cancel(plugged)
    BY <1>20, <2>0, <2>1 DEF onChargingStateChange, MayCharge, Cancel
  <2>2. CASE MayCharge(plugged) /\ DeferFor(plugged)
    BY <1>20, <2>0, <2>2 DEF onChargingStateChange, MayCharge, DeferFor
  <2>3. CASE MayCharge(plugged) /\ SwitchNow(plugged)
    BY <1>20, <2>0, <2>3 DEF onChargingStateChange, MayCharge, SwitchNow,
        handleConcurrentStreamSwitch, Restarted
  <2>4. CASE ~MayCharge(plugged) /\ NoSwitch
    BY <1>20, <2>0, <2>4 DEF onChargingStateChange, MayCharge, NoSwitch
  <2> QED BY <1>20, <2>1, <2>2, <2>3, <2>4 DEF Switch
<1>21. CASE CardDown
  BY <1>21 DEF CardDown
<1>22. CASE CardUp
  BY <1>22 DEF CardUp
<1>23. CASE Tick
  BY <1>23 DEF Tick
<1>24. CASE Slept
  BY <1>24 DEF Slept
<1>25. CASE LoopSwitch
  <2>1. CASE StaysDeferred
    BY <1>25, <2>1 DEF LoopSwitch, StaysDeferred
  <2>2. CASE SwitchesToNlpi
    BY <1>25, <2>2 DEF LoopSwitch, SwitchesToNlpi
  <2>3. CASE SwitchesToLpi
    BY <1>25, <2>3 DEF LoopSwitch, SwitchesToLpi
  <2> QED BY <1>25, <2>1, <2>2, <2>3, DeferredSwitchCases DEF LoopSwitch
<1>26. CASE LoopReset
  BY <1>26 DEF LoopReset
<1>27. CASE UNCHANGED vars
  BY <1>27 DEF vars
<1> QED BY <1>1, <1>2, <1>3, <1>4, <1>5, <1>5a, <1>5b, <1>6, <1>7, <1>8, <1>9,
    <1>10, <1>10a, <1>11, <1>12, <1>13, <1>14, <1>15, <1>16, <1>17, <1>18, <1>18a,
    <1>18b, <1>19, <1>20, <1>21, <1>22, <1>23, <1>24, <1>25, <1>26, <1>27 DEF Next, Loop

-----------------------------------------------------------------------------
(* Nothing is open, counted or running when the resource manager starts.      *)
LEMMA InvInit == ASSUME Init PROVE Inv
<1>1. CallSet = {} /\ TxSet = {}
    BY LpiAssumption DEF Init, CallSet, TxSet, Streams, Others
<1>2. CountsExact
    BY <1>1, FS_EmptySet DEF Init, CountsExact
<1>3. 0 \in 0..Cardinality(Streams)
    BY StreamSets, FS_EmptySet
<1>4. TypeOK
  <2>1. deferred_switch_cnt \in -1..Delay
    BY LpiAssumption DEF Init
  <2>2. /\ pc \in [Streams -> {"closed"}] /\ run \in [Det -> {"off"}]
        /\ charging \in [state : BOOLEAN, pending : BOOLEAN]
    BY DEF Init
  <2>3. use_lpi \in BOOLEAN /\ crs \in BOOLEAN /\ race \in BOOLEAN
    BY DEF Init
  <2> QED BY <1>3, <2>1, <2>2, <2>3 DEF Init, TypeOK
<1>5. EnvOK /\ PausedOK /\ QuietInCalls /\ ModeOK /\ NlpiOff
    BY DEF Init, EnvOK, PausedOK, QuietInCalls, ModeOK, NlpiOff, Det, Mode,
        Streams
<1>6. ListOK /\ LiveOK
    BY LpiAssumption DEF Init, ListOK, LiveOK, Streams, Others, Det, Up
<1>7. PlanOK /\ OneBetween /\ FewDeferrals
    BY DEF Init, PlanOK, OneBetween, FewDeferrals, WantsNlpi, ForCharging, use_lpi_temp,
        Registered, Between, Adding, Leaving, ToSwitch, Streams, Det
<1> QED BY <1>2, <1>4, <1>5, <1>6, <1>7 DEF Inv

(* Every step of the streams, the battery, the card and the loop keeps Inv.   *)
LEMMA InvNext == ASSUME NoCrs, Inv, [Next]_vars PROVE Inv'
<1>1. EnvOK' /\ ListOK' /\ LiveOK' /\ CountsExact'
    BY EnvStep, ListStep, LiveStep, CountsStep
<1>2. TypeOK'
    BY <1>1, TypeStep
<1> QED BY <1>1, <1>2, PausedStep, ModeStep, PlanStep, NlpiStep DEF Inv,
    PlanKept

(* The bookkeeping of STUtils, whatever the streams, the delay and the        *)
(* platform's features: counts, list, plan, pauses and modes agree in every   *)
(* reachable state.                                                           *)
THEOREM Invariant == ASSUME NoCrs PROVE Spec => []Inv
<1>1. Init => Inv
    BY InvInit
<1>2. Inv /\ [Next]_vars => Inv'
    BY InvNext
<1> QED BY <1>1, <1>2, PTL DEF Spec

(* The counts of HandleConcurrencyForSoundTriggerStreams stay within the      *)
(* number of streams, the delay within its bound.                             *)
THEOREM TypeCorrect == ASSUME NoCrs PROVE Spec => []TypeOK
<1>1. Inv => TypeOK
    BY DEF Inv
<1> QED BY <1>1, Invariant, PTL

(* concurrencyDisableCount is the number of open calls, and                   *)
(* TxconcurrencyEnableCount that of the calls and of the streams loaded in    *)
(* NLPI: what an open adds, its close takes away.                             *)
THEOREM CountsAreExact == ASSUME NoCrs PROVE Spec => []CountsExact
<1>1. Inv => CountsExact
    BY DEF Inv
<1> QED BY <1>1, Invariant, PTL

(* No order of opens, closes, loads, battery changes, deferrals,              *)
(* cancellations and delayed switches leaves the mode and the decision apart. *)
(* Excepted is a history in which a constructor or destructor of a detection  *)
(* stream acted on what it had counted before (race).                         *)
THEOREM AlwaysDecided == ASSUME NoCrs PROVE Spec => []SwitchDecided
<1>1. Inv => SwitchDecided
    BY BetweenSets DEF Inv, TypeOK, PlanOK, SwitchDecided, ToSwitch, use_lpi_temp
<1> QED BY <1>1, Invariant, PTL

(* A detection stream runs in the mode use_lpi_ says, and one configured for  *)
(* NLPI never in LPI, in the same histories.                                  *)
THEOREM AlwaysInMode == ASSUME NoCrs PROVE Spec => []RunsInMode
<1>1. Inv => RunsInMode
    BY LpiAssumption DEF Inv, ModeOK, NlpiOff, RunsInMode, Mode, Det
<1> QED BY <1>1, Invariant, PTL

(* During a call no detection stream runs, also one that is constructed,      *)
(* started, switched or recovered in it.                                      *)
THEOREM AlwaysQuiet == ASSUME NoCrs PROVE Spec => []QuietInCalls
<1>1. Inv => QuietInCalls
    BY DEF Inv
<1> QED BY <1>1, Invariant, PTL

=============================================================================
