----------------------------- MODULE EchoReference -----------------------------
(* The echo reference of capture streams (checkandEnableEC_l and the map of     *)
(* reference counts in ResourceManager.cpp, setECRef in SessionAlsaPcm.cpp):    *)
(* when a playback or a capture stream enters or leaves active_devices, the     *)
(* capture sessions are given the playback device to cancel.  A step is what    *)
(* runs under mResourceManagerMutex, which is released around the call into the *)
(* session.  Most streams register with mActiveStreamMutex held; detection and  *)
(* sensor streams do not.  External echo references and voice calls, which have *)
(* an echo reference of their own, are left out.                                *)
EXTENDS Naturals, FiniteSets

CONSTANTS
    Rx, Tx,         \* playback and capture streams
    RxDevices,
    Unguarded,      \* capture streams that register without mActiveStreamMutex
    MaxFails        \* bound: times the mixer refuses an echo reference path

Streams == Rx \cup Tx
None == "PAL_DEVICE_OUT_MIN"

ASSUME EchoAssumption ==
    /\ IsFiniteSet(Rx) /\ Rx \cap Tx = {}
    /\ None \notin RxDevices
    /\ Unguarded \subseteq Tx /\ MaxFails \in Nat
    /\ "none" \notin Streams

VARIABLES
    active_devices,     \* streams whose device is registered
    started,            \* playback streams in STREAM_STARTED
    ec_ref_count_map,   \* per capture stream and playback device
    ecRefDevId,         \* per capture session
    op,                 \* the registration each stream is in
    mActiveStreamMutex, mResourceManagerMutex,
    fails,              \* calls into a session that failed so far
    deviceOf            \* the device each playback stream is opened on

vars == <<active_devices, started, ec_ref_count_map, ecRefDevId, op,
          mActiveStreamMutex, mResourceManagerMutex, fails, deviceOf>>

Quiet == [at |-> "idle", on |-> FALSE, todo |-> {}, tx |-> "none", rx |-> None]

TypeOK ==
    /\ active_devices \subseteq Streams /\ started \subseteq Rx
    /\ ec_ref_count_map \in [Tx -> [RxDevices -> 0..Cardinality(Rx)]]
    /\ ecRefDevId \in [Tx -> RxDevices \cup {None}]
    /\ op \in [Streams -> [at : {"idle", "register", "deregister", "next", "set"},
                           on : BOOLEAN, todo : SUBSET Tx, tx : Tx \cup {"none"},
                           rx : RxDevices \cup {None}]]
    /\ mActiveStreamMutex \in Streams \cup {"none"}
    /\ mResourceManagerMutex \in Streams \cup {"none"}
    /\ fails \in 0..MaxFails /\ deviceOf \in [Rx -> RxDevices]

Init ==
    /\ active_devices = {} /\ started = {}
    /\ ec_ref_count_map = [t \in Tx |-> [d \in RxDevices |-> 0]]
    /\ ecRefDevId = [t \in Tx |-> None]
    /\ op = [s \in Streams |-> Quiet]
    /\ mActiveStreamMutex = "none" /\ mResourceManagerMutex = "none"
    /\ fails = 0 /\ deviceOf \in [Rx -> RxDevices]

-----------------------------------------------------------------------------
(* updateECDeviceMap *)

\* Playback streams that count for an echo reference on device d.
PlayingOn(d) == {r \in Rx \cap active_devices \cap started : deviceOf[r] = d}

Added(t, d, n) == [ec_ref_count_map EXCEPT ![t][d] = @ + n]
RemovedAll(t, d) == [ec_ref_count_map EXCEPT ![t][d] = 0]
RemovedOne(t, d) ==
    [ec_ref_count_map EXCEPT ![t][d] = IF @ > 0 THEN @ - 1 ELSE 0]
Erased(t, D) ==
    [ec_ref_count_map EXCEPT ![t] = [d \in RxDevices |-> IF d \in D THEN 0 ELSE @[d]]]

-----------------------------------------------------------------------------
(* registerDevice and deregisterDevice *)

\* Both locks of a stream that comes to the list or leaves it.
MayEnter(s) ==
    /\ mResourceManagerMutex = "none"
    /\ s \in Unguarded \/ mActiveStreamMutex = "none"
Enter(s) ==
    /\ MayEnter(s)
    /\ mResourceManagerMutex' = s
    /\ mActiveStreamMutex' = IF s \in Unguarded THEN mActiveStreamMutex ELSE s

\* A stream starts, is STARTED, and then registers; or stops.
start(s) ==
    /\ op[s].at = "idle" /\ s \notin active_devices
    /\ op' = [op EXCEPT ![s] = [Quiet EXCEPT !.at = "register", !.on = TRUE]]
    /\ started' = started \cup ({s} \cap Rx)
    /\ UNCHANGED <<active_devices, ec_ref_count_map, ecRefDevId, mActiveStreamMutex,
                   mResourceManagerMutex, fails>>

stop(s) ==
    /\ op[s].at = "idle" /\ s \in active_devices
    /\ s \in Unguarded \/ mActiveStreamMutex = "none"
    /\ mActiveStreamMutex' = IF s \in Unguarded THEN mActiveStreamMutex ELSE s
    /\ op' = [op EXCEPT ![s] = [Quiet EXCEPT !.at = "deregister"]]
    /\ started' = started \ {s}
    /\ UNCHANGED <<active_devices, ec_ref_count_map, ecRefDevId, mResourceManagerMutex,
                   fails>>

\* checkandEnableECForRXStream_l: the capture streams to tell are looked up once.
RxRegister(r) ==
    /\ op[r].at = "register" /\ Enter(r)
    /\ active_devices' = active_devices \cup {r}
    /\ op' = [op EXCEPT ![r].at = "next", ![r].todo = Tx \cap active_devices]
    /\ UNCHANGED <<started, ec_ref_count_map, ecRefDevId, fails>>

RxDeregister(r) ==
    /\ op[r].at = "deregister" /\ mResourceManagerMutex = "none"
    /\ mResourceManagerMutex' = r
    /\ active_devices' = active_devices \ {r}
    /\ op' = [op EXCEPT ![r].at = "next", ![r].todo = Tx \cap active_devices]
    /\ UNCHANGED <<started, ec_ref_count_map, ecRefDevId, mActiveStreamMutex, fails>>

\* The next capture stream: its count goes up or down, and its session is called when
\* that was the first or the last playback stream on the device.
RxNext(r) ==
    /\ op[r].at = "next" /\ mResourceManagerMutex = r
    /\ \E t \in op[r].todo :
          LET d == deviceOf[r]
              n == ec_ref_count_map[t][d]
              map == IF op[r].on THEN Added(t, d, 1) ELSE RemovedOne(t, d)
              call == IF op[r].on THEN n = 0 ELSE n = 1
          IN  /\ ec_ref_count_map' = map
              /\ op' = [op EXCEPT ![r].todo = @ \ {t},
                                  ![r].at = IF call THEN "set" ELSE "next",
                                  ![r].tx = t, ![r].rx = d]
              /\ mResourceManagerMutex' = IF call THEN "none" ELSE r
    /\ UNCHANGED <<active_devices, started, ecRefDevId, mActiveStreamMutex, fails>>

\* checkandEnableECForTXStream_l: a device with playback, and how many streams play.
TxRegister(t) ==
    /\ op[t].at = "register" /\ MayEnter(t)
    /\ mActiveStreamMutex' = IF t \in Unguarded THEN mActiveStreamMutex ELSE t
    /\ active_devices' = active_devices \cup {t}
    /\ LET D == {d \in RxDevices : PlayingOn(d) # {}}
       IN  \/ /\ D = {}
              /\ op' = [op EXCEPT ![t].at = "next"]
              /\ mResourceManagerMutex' = t
              /\ UNCHANGED ec_ref_count_map
           \/ \E d \in D :
                /\ ec_ref_count_map' = Added(t, d, Cardinality(PlayingOn(d)))
                /\ op' = [op EXCEPT ![t].at = "set", ![t].tx = t, ![t].rx = d]
                /\ UNCHANGED mResourceManagerMutex
    /\ UNCHANGED <<started, ecRefDevId, fails>>

\* A capture stream that leaves takes all its counts along.
TxDeregisterKeepsCounts(t) ==
    /\ op[t].at = "deregister" /\ mResourceManagerMutex = "none"
    /\ active_devices' = active_devices \ {t}
    /\ op' = [op EXCEPT ![t].at = "set", ![t].tx = t]
    /\ UNCHANGED <<started, ec_ref_count_map, ecRefDevId, mActiveStreamMutex,
                   mResourceManagerMutex, fails>>
TxDeregister(t) ==
    /\ op[t].at = "deregister" /\ mResourceManagerMutex = "none"
    /\ active_devices' = active_devices \ {t}
    /\ ec_ref_count_map' = Erased(t, RxDevices)
    /\ op' = [op EXCEPT ![t].at = "set", ![t].tx = t]
    /\ UNCHANGED <<started, ecRefDevId, mActiveStreamMutex, mResourceManagerMutex, fails>>

-----------------------------------------------------------------------------
(* The call into the session, without mResourceManagerMutex *)

\* Back under the mutex: a reference that was not set is not counted.  A playback
\* stream takes its one back, a capture stream its entry.
Refused(s, map) ==
    LET t == op[s].tx
        d == op[s].rx
    IN  IF ~op[s].on THEN map
        ELSE IF s \in Rx THEN [map EXCEPT ![t][d] = IF @ > 0 THEN @ - 1 ELSE 0]
        ELSE [map EXCEPT ![t][d] = 0]

Answered(s) ==
    /\ mResourceManagerMutex' = s
    /\ op' = [op EXCEPT ![s].at = "next", ![s].tx = "none", ![s].rx = None]
    /\ UNCHANGED <<active_devices, started, mActiveStreamMutex>>

\* Nothing to do, or another device than the one in use is to be switched off.
setECRefSkips(s) ==
    LET o == op[s]
        ec == ecRefDevId[o.tx]
    IN  /\ o.at = "set" /\ mResourceManagerMutex = "none"
        /\ IF o.on THEN ec = o.rx ELSE ec = None \/ o.rx \notin {None, ec}
        /\ Answered(s)
        /\ UNCHANGED <<ec_ref_count_map, ecRefDevId, fails>>

setECRefOff(s) ==
    LET t == op[s].tx
    IN  /\ op[s].at = "set" /\ ~op[s].on /\ mResourceManagerMutex = "none"
        /\ ecRefDevId[t] # None /\ op[s].rx \in {None, ecRefDevId[t]}
        /\ Answered(s)
        /\ \/ ecRefDevId' = [ecRefDevId EXCEPT ![t] = None] /\ UNCHANGED fails
           \/ fails < MaxFails /\ fails' = fails + 1 /\ UNCHANGED ecRefDevId
        /\ UNCHANGED ec_ref_count_map

\* Another device in use loses its count before the new one is set.
setECRefOnKeepsCount(s) ==
    LET t == op[s].tx
    IN  /\ op[s].at = "set" /\ op[s].on /\ mResourceManagerMutex = "none"
        /\ ecRefDevId[t] # op[s].rx
        /\ Answered(s)
        /\ ecRefDevId' = [ecRefDevId EXCEPT ![t] = op[s].rx]
        /\ UNCHANGED <<ec_ref_count_map, fails>>
setECRefOn(s) ==
    LET t == op[s].tx
        map == IF ecRefDevId[t] = None THEN ec_ref_count_map
               ELSE Erased(t, {ecRefDevId[t]})
    IN  /\ op[s].at = "set" /\ op[s].on /\ mResourceManagerMutex = "none"
        /\ ecRefDevId[t] # op[s].rx
        /\ Answered(s)
        /\ \/ /\ ecRefDevId' = [ecRefDevId EXCEPT ![t] = op[s].rx]
              /\ ec_ref_count_map' = map
              /\ UNCHANGED fails
           \/ /\ fails < MaxFails /\ fails' = fails + 1
              /\ ec_ref_count_map' = Refused(s, map)
              /\ UNCHANGED ecRefDevId

\* registerDevice or deregisterDevice is done.
Return(s) ==
    /\ op[s].at = "next" /\ op[s].todo = {} /\ mResourceManagerMutex = s
    /\ mResourceManagerMutex' = "none"
    /\ mActiveStreamMutex' = IF mActiveStreamMutex = s THEN "none" ELSE mActiveStreamMutex
    /\ op' = [op EXCEPT ![s] = Quiet]
    /\ UNCHANGED <<active_devices, started, ec_ref_count_map, ecRefDevId, fails>>

Register(s) == (s \in Rx /\ RxRegister(s)) \/ (s \in Tx /\ TxRegister(s))
Deregister(s) == (s \in Rx /\ RxDeregister(s)) \/ (s \in Tx /\ TxDeregister(s))
setECRef(s) == setECRefSkips(s) \/ setECRefOff(s) \/ setECRefOn(s)

Next ==
    /\ \/ \E s \in Streams :
             start(s) \/ Register(s) \/ setECRef(s) \/ Return(s) \/ stop(s) \/ Deregister(s)
       \/ \E r \in Rx : RxNext(r)
    /\ UNCHANGED deviceOf

Spec == Init /\ [][Next]_vars

-----------------------------------------------------------------------------
(* Properties *)

\* No registration is under way: what the counts say is what the sessions have.
Settled == \A s \in Streams : op[s].at \in {"idle", "register"}

\* The counts of the resource manager and the echo references of the sessions agree:
\* a device that is counted is the one the session cancels, so that the last playback
\* stream on it switches it off, and, unless the mixer refused something, a session
\* cancels only what is counted (updateECDeviceMap, setECRef).  A capture stream that
\* stopped has no count, so that the next one on that front end starts afresh.
MapMatchesSession ==
    /\ Settled => \A t \in Tx, d \in RxDevices :
          /\ ec_ref_count_map[t][d] > 0 => ecRefDevId[t] = d
          /\ fails = 0 /\ ecRefDevId[t] = d => ec_ref_count_map[t][d] > 0
    /\ \A t \in Tx : op[t].at = "idle" /\ t \notin active_devices =>
          /\ \A d \in RxDevices : ec_ref_count_map[t][d] = 0
          /\ fails = 0 => ecRefDevId[t] = None

\* As long as all playback is on one device, every running capture stream cancels it, with
\* as many counts as streams play (checkandEnableECForRXStream_l).
PlaybackCancelled ==
    Settled /\ fails = 0 =>
        \A t \in Tx \cap active_devices, d \in RxDevices :
          (\A r \in Rx : deviceOf[r] = d) =>
            /\ ec_ref_count_map[t][d] = Cardinality(PlayingOn(d))
            /\ PlayingOn(d) # {} => ecRefDevId[t] = d

=============================================================================
