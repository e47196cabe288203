------------------------------ MODULE A2dpRouting ------------------------------
(* Device switching with a Bluetooth output that can be suspended: playback     *)
(* streams on an A2DP device and the speaker, Stream::switchDevice,             *)
(* ResourceManager::streamDevSwitch and forceDeviceSwitch, a2dpSuspend and      *)
(* a2dpResume (BTUtils.cpp), the session requests of BtA2dp, and start() of a   *)
(* stream that meets a suspended device.  A step is what a thread does between  *)
(* two lock operations; mActiveStreamMutex and the mStreamMutex of a stream are *)
(* taken one by one.  The flags of the Bluetooth device are read and written    *)
(* without any lock, as in the code.                                            *)
EXTENDS Naturals, FiniteSets

CONSTANTS
    Streams,        \* playback streams; each name also stands for its client thread
    BtThreads,      \* "hal": the framework's set_param, "cb": the stack's reconfig_cb
    Routes,         \* the device sets a client may ask for
    RouteAnytime,   \* routing, suspend, resume and connection calls may overlap
    Overtakes,      \* a suspension may begin within a start(), a start() within it, and
                    \* one may end without a resumption within the start() it sent away
    MaxFaults       \* bound: connects, Bluetooth starts and sessions that fail

Devices == {"a2dp", "spk"}
Threads == Streams \cup BtThreads

ASSUME RoutingAssumption ==
    /\ IsFiniteSet(Streams) /\ BtThreads \subseteq {"hal", "cb"}
    /\ Streams \cap {"hal", "cb", "none"} = {}
    /\ Routes \subseteq ((SUBSET Devices) \ {{}}) /\ MaxFaults \in Nat
    /\ RouteAnytime \in BOOLEAN /\ Overtakes \in BOOLEAN

VARIABLES
    currentState, mDevices, suspendedOutDevIds, a2dpMuted,  \* per stream
    deviceCount,            \* per device: opens
    bt,                     \* the BtA2dp object and its place in avail_devices_
    mActiveStreamMutex, mStreamMutex,   \* who holds them
    pc, loc,                \* per thread: where it is, and its local variables
    want,                   \* history: what the client of a stream last asked for
    ignored,                \* history: streams whose route the code put off, or whose
                            \* mute on the speaker was lost with a failing session
    stranded,               \* history: streams a suspension that ended left behind
    leaked,                 \* history: requests of Bluetooth starts that failed too late
    faults

vars == <<currentState, mDevices, suspendedOutDevIds, a2dpMuted, deviceCount, bt,
          mActiveStreamMutex, mStreamMutex, pc, loc, want, ignored, stranded,
          leaked, faults>>
told == <<want, ignored, stranded>>
locks == <<mActiveStreamMutex, mStreamMutex>>
streamVars == <<currentState, mDevices, suspendedOutDevIds, a2dpMuted>>

Nothing == [todo |-> {}, disc |-> {}, conn |-> {}, devs |-> {}, ready |-> FALSE,
            then |-> "idle", status |-> "ok"]

TypeOK ==
    /\ currentState \in [Streams -> {"IDLE", "INIT", "STARTED", "STOPPED"}]
    /\ mDevices \in [Streams -> SUBSET Devices]
    /\ suspendedOutDevIds \in [Streams -> SUBSET Devices]
    /\ a2dpMuted \in [Streams -> BOOLEAN]
    /\ deviceCount \in [Devices -> 0..Cardinality(Streams)]
    /\ bt \in [suspended : BOOLEAN, setparam : BOOLEAN, available : BOOLEAN,
               state : {"DISCONNECTED", "CONNECTED", "STARTED", "STOPPED"},
               requests : 0..(Cardinality(Streams) + MaxFaults)]
    /\ mActiveStreamMutex \in Threads \cup {"none"}
    /\ mStreamMutex \in [Streams -> Threads \cup {"none"}]
    /\ pc \in [Threads -> {"idle", "route", "devices", "stop", "plan", "devSwitch",
                           "lockAll", "done", "set", "clear", "a2dpSuspend", "mark",
                           "force", "forced", "forcedAgain", "a2dpResume", "collect",
                           "restored", "unmute", "openSource", "closeSource"}]
    /\ \A t \in Threads : /\ loc[t].todo \subseteq Streams
                          /\ loc[t].disc \subseteq Streams \X Devices
                          /\ loc[t].conn \subseteq Streams \X Devices
    /\ want \in [Streams -> SUBSET Devices]
    /\ ignored \subseteq Streams /\ stranded \subseteq Streams
    /\ leaked \in 0..MaxFaults /\ faults \in 0..MaxFaults

Init ==
    /\ currentState = [s \in Streams |-> "IDLE"]
    /\ mDevices = [s \in Streams |-> {}]
    /\ suspendedOutDevIds = [s \in Streams |-> {}]
    /\ a2dpMuted = [s \in Streams |-> FALSE]
    /\ deviceCount = [d \in Devices |-> 0]
    /\ bt = [suspended |-> FALSE, setparam |-> FALSE, available |-> FALSE,
             state |-> "DISCONNECTED", requests |-> 0]
    /\ mActiveStreamMutex = "none"
    /\ mStreamMutex = [s \in Streams |-> "none"]
    /\ pc = [t \in Threads |-> "idle"]
    /\ loc = [t \in Threads |-> Nothing]
    /\ want = [s \in Streams |-> {}] /\ ignored = {} /\ stranded = {}
    /\ leaked = 0 /\ faults = 0

------------------------------------------------------------------------------
(* Locks and program points.                                                    *)

Goto(t, p) == pc' = [pc EXCEPT ![t] = p]
Set(t, r) == loc' = [loc EXCEPT ![t] = r]
Return(t) == Goto(t, "idle") /\ Set(t, Nothing)

Alive == {s \in Streams : currentState[s] # "IDLE"}
Runs(s) == currentState[s] = "STARTED"
Players == {s \in Streams : Runs(s) /\ "a2dp" \in mDevices[s]}

(* Without RouteAnytime one thread of the framework does all routing.           *)
Calm ==
    RouteAnytime \/ \A s \in Streams : pc[s] \notin {"plan", "devSwitch", "lockAll", "done"}
BtIdle == RouteAnytime \/ \A t \in BtThreads : pc[t] = "idle"

(* A new stream is at an address no list under way still holds.                 *)
Fresh(s) == \A t \in Threads : \A x \in loc[t].disc \cup loc[t].conn : x[1] # s
Starting == \E s \in Streams : pc[s] = "route"
A2dpStarting == \E s \in Streams : pc[s] = "devices" /\ "a2dp" \in mDevices[s]
Detouring(s) == pc[s] = "route" \/ (pc[s] = "devices" /\ loc[s].then = "mute")

(* mActiveStreamMutex is free; without Overtakes, a start that is about to take *)
(* it goes first.                                                               *)
ActiveFree == mActiveStreamMutex = "none" /\ (Overtakes \/ ~Starting)
LockActive(t) == ActiveFree /\ mActiveStreamMutex' = t
Unlocked == mActiveStreamMutex' = "none"
StreamFree(s) == mStreamMutex[s] = "none"

------------------------------------------------------------------------------
(* The Bluetooth device.                                                        *)

isDeviceReady(d) ==
    d = "a2dp" => bt.available /\ ~bt.suspended /\ bt.state # "DISCONNECTED"

(* startPlayback() may go on: not suspended, and connected or available to be   *)
(* opened again.                                                                *)
MayStart(b) == ~b.suspended /\ (b.state # "DISCONNECTED" \/ b.available)
startPlayback(b) == [b EXCEPT !.requests = @ + 1, !.state = "STARTED"]
stopPlayback(b) ==
    LET left == IF b.requests > 0 THEN b.requests - 1 ELSE 0
    IN  [b EXCEPT !.requests = left,
                  !.state = IF @ = "STARTED" /\ left = 0 THEN "STOPPED" ELSE @]

stopOn(b, ds) == IF "a2dp" \in ds THEN stopPlayback(b) ELSE b
closedUnchecked(n) == n - 1
closed(n) == IF n > 0 THEN n - 1 ELSE 0

(* Calls of the Bluetooth stack or of the session that fail.                    *)
Fails(n) == faults' = faults + n /\ faults' <= MaxFaults
One(b) == IF b THEN 1 ELSE 0

------------------------------------------------------------------------------
(* open(), close(), start(), stop() of a stream.                                *)

open(s, ds) ==
    /\ pc[s] = "idle" /\ currentState[s] = "IDLE" /\ ActiveFree /\ Fresh(s)
    /\ "a2dp" \in ds => bt.available /\ (isDeviceReady("a2dp") \/ ds # {"a2dp"})
    /\ currentState' = [currentState EXCEPT ![s] = "INIT"]
    /\ mDevices' = [mDevices EXCEPT ![s] = ds]
    /\ suspendedOutDevIds' = [suspendedOutDevIds EXCEPT ![s] = {}]
    /\ a2dpMuted' = [a2dpMuted EXCEPT ![s] = FALSE]
    /\ deviceCount' = [d \in Devices |-> deviceCount[d] + (IF d \in ds THEN 1 ELSE 0)]
    /\ want' = [want EXCEPT ![s] = ds]
    /\ ignored' = ignored \ {s} /\ stranded' = stranded \ {s}
    /\ UNCHANGED <<bt, locks, pc, loc, leaked, faults>>

close(s) ==
    /\ pc[s] = "idle" /\ currentState[s] \in {"INIT", "STOPPED"}
    /\ StreamFree(s) /\ ActiveFree
    /\ currentState' = [currentState EXCEPT ![s] = "IDLE"]
    /\ deviceCount' = [d \in Devices |-> IF d \in mDevices[s] THEN closed(deviceCount[d])
                                                              ELSE deviceCount[d]]
    /\ mDevices' = [mDevices EXCEPT ![s] = {}]
    /\ want' = [want EXCEPT ![s] = {}]
    /\ ignored' = ignored \ {s} /\ stranded' = stranded \ {s}
    /\ UNCHANGED <<suspendedOutDevIds, a2dpMuted, bt, locks, pc, loc, leaked, faults>>

CanBegin(s) ==
    /\ pc[s] = "idle" /\ currentState[s] \in {"INIT", "STOPPED"} /\ StreamFree(s)
    /\ "a2dp" \in mDevices[s] => bt.available

Suspended(s) == "a2dp" \in mDevices[s] /\ bt.suspended

(* BTUtilsDeviceNotReady finds nothing to do.                                   *)
startReady(s) ==
    /\ CanBegin(s) /\ ~Suspended(s)
    /\ mStreamMutex' = [mStreamMutex EXCEPT ![s] = s]
    /\ Goto(s, "devices")
    /\ UNCHANGED <<streamVars, deviceCount, bt, mActiveStreamMutex, loc, told, leaked,
                   faults>>

(* The combo of A2DP and speaker goes on with the speaker.                      *)
startComboLeavesOpen(s) ==
    /\ CanBegin(s) /\ Suspended(s) /\ "spk" \in mDevices[s]
    /\ mStreamMutex' = [mStreamMutex EXCEPT ![s] = s]
    /\ suspendedOutDevIds' = [suspendedOutDevIds EXCEPT ![s] = Devices]
    /\ mDevices' = [mDevices EXCEPT ![s] = {"spk"}]
    /\ Goto(s, "devices")
    /\ UNCHANGED <<currentState, a2dpMuted, deviceCount, bt, mActiveStreamMutex, loc,
                   told, leaked, faults>>

startCombo(s) ==
    /\ CanBegin(s) /\ Suspended(s) /\ "spk" \in mDevices[s]
    /\ mStreamMutex' = [mStreamMutex EXCEPT ![s] = s]
    /\ suspendedOutDevIds' = [suspendedOutDevIds EXCEPT ![s] = Devices]
    /\ deviceCount' = [deviceCount EXCEPT !["a2dp"] = closed(@)]
    /\ mDevices' = [mDevices EXCEPT ![s] = {"spk"}]
    /\ Goto(s, "devices")
    /\ UNCHANGED <<currentState, a2dpMuted, bt, mActiveStreamMutex, loc, told, leaked,
                   faults>>

(* A2DP alone: the stream is marked, the device closed, and mActiveStreamMutex  *)
(* is wanted with mStreamMutex held.  Only a local copy of mDevices is cleared. *)
startAlone(s) ==
    /\ CanBegin(s) /\ Suspended(s) /\ "spk" \notin mDevices[s]
    /\ Overtakes \/ mActiveStreamMutex = "none"
    /\ mStreamMutex' = [mStreamMutex EXCEPT ![s] = s]
    /\ suspendedOutDevIds' = [suspendedOutDevIds EXCEPT ![s] = {"a2dp"}]
    /\ deviceCount' = [deviceCount EXCEPT !["a2dp"] = closed(@)]
    /\ Goto(s, "route")
    /\ UNCHANGED <<currentState, mDevices, a2dpMuted, bt, mActiveStreamMutex, loc,
                   told, leaked, faults>>

startRouteUnmuted(s) ==
    /\ pc[s] = "route" /\ mActiveStreamMutex = "none"
    /\ mDevices' = [mDevices EXCEPT ![s] = @ \cup {"spk"}]
    /\ deviceCount' = [deviceCount EXCEPT !["spk"] = @ + 1]
    /\ Goto(s, "devices") /\ Set(s, Nothing)
    /\ UNCHANGED <<currentState, suspendedOutDevIds, a2dpMuted, bt, locks, told, leaked,
                   faults>>

startRoute(s) ==
    /\ pc[s] = "route" /\ mActiveStreamMutex = "none"
    /\ mDevices' = [mDevices EXCEPT ![s] = @ \cup {"spk"}]
    /\ deviceCount' = [deviceCount EXCEPT !["spk"] = @ + 1]
    /\ Goto(s, "devices") /\ Set(s, [Nothing EXCEPT !.then = "mute"])
    /\ UNCHANGED <<currentState, suspendedOutDevIds, a2dpMuted, bt, locks, told, leaked,
                   faults>>

(* The devices are started one by one; one that fails is closed and dropped.    *)
(* BtA2dp::start fails early, or, for the first that starts the device, after   *)
(* startPlayback has counted it.  A session that fails has the devices stopped  *)
(* and the start given up, whatever a2dpSuspend asked for.                      *)
startDevices(s) ==
    \E bad \in {"no", "early", "late"}, lost \in BOOLEAN :
        LET first == bt.state # "STARTED" /\ bt.requests = 0
            plays == "a2dp" \in mDevices[s] /\ MayStart(bt) /\ bad = "no"
            on == mDevices[s] \ (IF plays THEN {} ELSE {"a2dp"})
            counted == IF plays \/ bad = "late" THEN startPlayback(bt) ELSE bt
            plain == on # {} /\ ~lost
            mutes == loc[s].then = "mute"
        IN  /\ pc[s] = "devices"
            /\ bad # "no" => "a2dp" \in mDevices[s] /\ MayStart(bt)
            /\ bad = "early" => first
            /\ bad = "late" => Players = {}
            /\ lost => on # {}
            /\ Fails(One(bad # "no") + One(lost))
            /\ bt' = IF lost THEN stopOn(counted, on) ELSE counted
            /\ leaked' = leaked + One(bad = "late")
            /\ deviceCount' = [deviceCount EXCEPT
                   !["a2dp"] = IF on = mDevices[s] THEN @ ELSE closed(@)]
            /\ mDevices' = [mDevices EXCEPT ![s] = on]
            /\ currentState' = [currentState EXCEPT ![s] = IF plain THEN "STARTED" ELSE @]
            /\ a2dpMuted' = [a2dpMuted EXCEPT ![s] = @ \/ (plain /\ mutes)]
            /\ ignored' = IF lost /\ mutes THEN ignored \cup {s} ELSE ignored
            /\ mStreamMutex' = [mStreamMutex EXCEPT ![s] = "none"]
            /\ Return(s)
            /\ UNCHANGED <<suspendedOutDevIds, mActiveStreamMutex, want, stranded>>

stopLock(s) ==
    /\ pc[s] = "idle" /\ currentState[s] = "STARTED" /\ StreamFree(s)
    /\ LockActive(s) /\ Goto(s, "stop")
    /\ UNCHANGED <<streamVars, deviceCount, bt, mStreamMutex, loc, told, leaked, faults>>

stop(s) ==
    /\ pc[s] = "stop" /\ StreamFree(s)
    /\ currentState' = [currentState EXCEPT ![s] = "STOPPED"]
    /\ bt' = stopOn(bt, mDevices[s])
    /\ Unlocked /\ Return(s)
    /\ UNCHANGED <<mDevices, suspendedOutDevIds, a2dpMuted, deviceCount, mStreamMutex,
                   told, leaked, faults>>

------------------------------------------------------------------------------
(* switchDevice().                                                              *)

switchDevice(s, ds) ==
    /\ pc[s] = "idle" /\ s \in Alive /\ Calm /\ BtIdle
    /\ "a2dp" \in ds => bt.available
    /\ LockActive(s) /\ Goto(s, "plan") /\ Set(s, [Nothing EXCEPT !.devs = ds])
    /\ want' = [want EXCEPT ![s] = ds]
    /\ ignored' = ignored \ {s} /\ stranded' = stranded \ {s}
    /\ UNCHANGED <<streamVars, deviceCount, bt, mStreamMutex, leaked, faults>>

(* The lists of what to disconnect and connect; a backend whose attributes      *)
(* change is also reattached for the other streams on it.                       *)
Lists(s, ds, ready, again) ==
    LET others == {x \in Alive \X again : x[2] \in mDevices[x[1]]}
    IN  [Nothing EXCEPT !.disc = ({s} \X (mDevices[s] \ ds)) \cup others,
                        !.conn = ({s} \X ready) \cup others,
                        !.devs = ds, !.ready = isDeviceReady("a2dp"), !.then = "done"]

(* An A2DP device that is not ready is remembered for a2dpResume.               *)
plan(s) ==
    LET ds == loc[s].devs
        ready == {d \in ds : isDeviceReady(d)}
    IN  /\ pc[s] = "plan" /\ StreamFree(s) /\ Unlocked
        /\ suspendedOutDevIds' = [suspendedOutDevIds EXCEPT
               ![s] = IF ready = {} THEN {"a2dp"} ELSE @]
        /\ ignored' = IF ready = {} /\ ~a2dpMuted[s] THEN ignored \cup {s} ELSE ignored
        /\ \/ ready = {} /\ Return(s)
           \/ /\ ready # {} /\ Goto(s, "devSwitch")
              /\ \E again \in SUBSET ready : Set(s, Lists(s, ds, ready, again))
        /\ UNCHANGED <<currentState, mDevices, a2dpMuted, deviceCount, bt, mStreamMutex,
                       want, stranded, leaked, faults>>

(* The end of switchDevice: unmute, and forget or renew the suspended device.   *)
switchDone(s) ==
    LET l == loc[s]
    IN  /\ pc[s] = "done" /\ StreamFree(s)
        /\ a2dpMuted' = [a2dpMuted EXCEPT ![s] = FALSE]
        /\ suspendedOutDevIds' = [suspendedOutDevIds EXCEPT
               ![s] = IF l.devs = Devices /\ ~l.ready THEN Devices ELSE {}]
        /\ Return(s)
        /\ UNCHANGED <<currentState, mDevices, deviceCount, bt, locks, told, leaked, faults>>

------------------------------------------------------------------------------
(* streamDevSwitch(): under mActiveStreamMutex, lock every stream of the lists, *)
(* disconnect all, connect all.                                                 *)

devSwitchLock(t) ==
    LET l == loc[t]
        conn == {x \in l.conn : x[1] \in Alive}
        disc == {x \in l.disc : x[1] \in Alive}
        refused == {x[2] : x \in conn} = {"a2dp"} /\ ~isDeviceReady("a2dp")
    IN  /\ pc[t] = "devSwitch" /\ ActiveFree
        /\ \/ /\ refused /\ Goto(t, l.then) /\ Set(t, [l EXCEPT !.status = "ENODEV"])
              /\ UNCHANGED mActiveStreamMutex
           \/ /\ ~refused /\ LockActive(t) /\ Goto(t, "lockAll")
              /\ Set(t, [l EXCEPT !.conn = conn, !.disc = disc,
                                  !.todo = {x[1] : x \in conn \cup disc}])
        /\ UNCHANGED <<streamVars, deviceCount, bt, mStreamMutex, told, leaked, faults>>

lockOne(t, s) ==
    /\ pc[t] = "lockAll" /\ s \in loc[t].todo /\ StreamFree(s)
    /\ mStreamMutex' = [mStreamMutex EXCEPT ![s] = t]
    /\ Set(t, [loc[t] EXCEPT !.todo = @ \ {s}])
    /\ UNCHANGED <<streamVars, deviceCount, bt, mActiveStreamMutex, pc, told, leaked, faults>>

(* disconnectStreamDevice_l and connectStreamDevice_l of all pairs; a connect   *)
(* that fails leaves the stream without the device, and, when the Bluetooth     *)
(* start failed too late, its request behind.                                   *)
Left(disc) == [s \in Streams |-> {d \in mDevices[s] : <<s, d>> \notin disc}]
Joined(conn, left) == {x \in conn : x[2] \notin left[x[1]]}
Playing(pairs) == Cardinality({x \in pairs : x[2] = "a2dp" /\ Runs(x[1])})

devSwitch(t) ==
    LET l == loc[t]
        left == Left(l.disc)
        gone == {x \in l.disc : x[2] \in mDevices[x[1]]}
        new == Joined(l.conn, left)
        b1 == [bt EXCEPT !.requests = IF @ > Playing(gone) THEN @ - Playing(gone) ELSE 0,
                         !.state = IF @ = "STARTED" /\ bt.requests <= Playing(gone)
                                      /\ Playing(gone) > 0
                                   THEN "STOPPED" ELSE @]
        unfit == {x \in new : x[2] = "a2dp" /\ Runs(x[1]) /\ ~MayStart(b1)}
    IN  /\ pc[t] = "lockAll" /\ l.todo = {}
        /\ \E bad \in SUBSET (new \ unfit), status \in {"ok", "error"} :
           \E late \in SUBSET {x \in bad : x[2] = "a2dp" /\ Runs(x[1])} :
              LET made == new \ (unfit \cup bad)
              IN  /\ Fails(Cardinality(bad))
                  /\ late # {} => Players \X {"a2dp"} \subseteq gone
                  /\ leaked' = leaked + Cardinality(late)
                  /\ made = new => status = "ok"
                  /\ (made = {} /\ new = l.conn /\ new # {}) => status = "error"
                  /\ mDevices' = [s \in Streams |->
                         left[s] \cup {d \in Devices : <<s, d>> \in made}]
                  /\ deviceCount' = [d \in Devices |->
                         LET out == Cardinality({x \in gone : x[2] = d})
                             in == Cardinality({x \in made : x[2] = d})
                         IN  in + (IF deviceCount[d] > out
                                     THEN deviceCount[d] - out ELSE 0)]
                  /\ bt' = IF Playing(made) + Cardinality(late) = 0 THEN b1
                           ELSE [b1 EXCEPT !.requests = @ + Playing(made) + Cardinality(late),
                                           !.state = "STARTED"]
                  /\ Set(t, [l EXCEPT !.status = status])
        /\ mStreamMutex' = [s \in Streams |-> IF mStreamMutex[s] = t THEN "none"
                                              ELSE mStreamMutex[s]]
        /\ Unlocked /\ Goto(t, l.then)
        /\ UNCHANGED <<currentState, suspendedOutDevIds, a2dpMuted, told>>

------------------------------------------------------------------------------
(* A2DP_SUSPENDED: a request of the framework or of the Bluetooth stack.  While *)
(* the framework has the device suspended, the stack's requests are ignored.    *)

setBTParameter(t, suspend) ==
    /\ pc[t] = "idle" /\ Calm /\ BtIdle
    /\ ~(bt.suspended /\ bt.setparam /\ t = "cb")
    /\ bt.suspended # suspend
    /\ Goto(t, IF suspend THEN "set" ELSE "clear")
    /\ UNCHANGED <<streamVars, deviceCount, bt, locks, loc, told, leaked, faults>>

(* setDeviceParameter(): the flag first, then the streams.                      *)
suspendSet(t) ==
    /\ pc[t] = "set" /\ (Overtakes \/ ~A2dpStarting)
    /\ bt' = [bt EXCEPT !.suspended = TRUE, !.setparam = (t = "hal")]
    /\ Goto(t, IF bt.suspended \/ bt.state = "DISCONNECTED" THEN "idle" ELSE "a2dpSuspend")
    /\ UNCHANGED <<streamVars, deviceCount, locks, loc, told, leaked, faults>>

(* The resumption is skipped when the stack refuses to start, and when the      *)
(* framework ends the suspension with a call up.                                *)
suspendClear(t) ==
    \E refused, is_in_call \in BOOLEAN :
        LET up == bt.suspended /\ bt.state # "DISCONNECTED"
            skip_switch == up /\ (refused \/ is_in_call)
        IN  /\ pc[t] = "clear"
            /\ refused => up /\ bt.requests > 0
            /\ is_in_call => t = "hal"
            /\ skip_switch => Overtakes \/ \A s \in Streams : ~Detouring(s)
            /\ Fails(One(refused))
            /\ bt' = [bt EXCEPT !.suspended = FALSE, !.setparam = (t = "hal")]
            /\ stranded' = IF skip_switch
                            THEN stranded \cup {s \in Alive : suspendedOutDevIds[s] # {}}
                            ELSE stranded
            /\ Goto(t, IF up /\ ~skip_switch THEN "a2dpResume" ELSE "idle")
            /\ UNCHANGED <<streamVars, deviceCount, locks, loc, want, ignored, leaked>>

(* a2dpSuspend(): mark and mute every stream on the device, then move them.     *)
a2dpSuspend(t) ==
    LET on == {s \in Alive : "a2dp" \in mDevices[s]}
    IN  /\ pc[t] = "a2dpSuspend"
        /\ \/ on = {} /\ ActiveFree /\ Return(t) /\ UNCHANGED mActiveStreamMutex
           \/ /\ on # {} /\ LockActive(t) /\ Goto(t, "mark")
              /\ Set(t, [Nothing EXCEPT !.todo = on, !.disc = on \X {"a2dp"},
                                        !.conn = on \X {"spk"}, !.then = "forced"])
        /\ UNCHANGED <<streamVars, deviceCount, bt, mStreamMutex, told, leaked, faults>>

MarkedAlone(s) == {"a2dp"}
Marked(s) == IF "spk" \in mDevices[s] THEN Devices ELSE {"a2dp"}
markOneUnmuted(t, s) ==
    LET applies == "a2dp" \in mDevices[s] /\ ("spk" \in mDevices[s] \/ ~a2dpMuted[s])
    IN  /\ pc[t] = "mark" /\ s \in loc[t].todo /\ StreamFree(s)
        /\ suspendedOutDevIds' = [suspendedOutDevIds EXCEPT
               ![s] = IF applies THEN Marked(s) ELSE @]
        /\ Set(t, [loc[t] EXCEPT !.todo = @ \ {s}])
        /\ UNCHANGED <<currentState, mDevices, a2dpMuted, deviceCount, bt, locks, pc,
                       told, leaked, faults>>

markOne(t, s) ==
    LET applies == "a2dp" \in mDevices[s] /\ ("spk" \in mDevices[s] \/ ~a2dpMuted[s])
    IN  /\ pc[t] = "mark" /\ s \in loc[t].todo /\ StreamFree(s)
        /\ suspendedOutDevIds' = [suspendedOutDevIds EXCEPT
               ![s] = IF applies THEN Marked(s) ELSE @]
        /\ a2dpMuted' = [a2dpMuted EXCEPT ![s] = @ \/ (applies /\ "spk" \notin mDevices[s])]
        /\ Set(t, [loc[t] EXCEPT !.todo = @ \ {s}])
        /\ UNCHANGED <<currentState, mDevices, deviceCount, bt, locks, pc, told, leaked, faults>>

markedAll(t) ==
    /\ pc[t] = "mark" /\ loc[t].todo = {}
    /\ Unlocked /\ Goto(t, "force")
    /\ UNCHANGED <<streamVars, deviceCount, bt, mStreamMutex, loc, told, leaked, faults>>

(* forceDeviceSwitch(): a failed switch is tried once more, together with the   *)
(* streams that are on the new device already.                                  *)
forceDeviceSwitch(t) ==
    LET alive(pairs) == {x \in pairs : x[1] \in Alive}
    IN  /\ pc[t] = "force" /\ ActiveFree
        /\ Goto(t, "devSwitch")
        /\ Set(t, [loc[t] EXCEPT !.disc = alive(@), !.conn = alive(@)])
        /\ UNCHANGED <<streamVars, deviceCount, bt, locks, told, leaked, faults>>

forced(t) ==
    LET shared == {s \in Alive : "spk" \in mDevices[s]} \X {"spk"}
    IN  /\ pc[t] = "forced" /\ ActiveFree
        /\ \/ loc[t].status = "ok" /\ Return(t)
           \/ /\ loc[t].status # "ok" /\ Goto(t, "devSwitch")
              /\ Set(t, [loc[t] EXCEPT !.disc = @ \cup shared, !.conn = @ \cup shared,
                                       !.then = "forcedAgain"])
        /\ UNCHANGED <<streamVars, deviceCount, bt, locks, told, leaked, faults>>

forcedAgain(t) ==
    /\ pc[t] = "forcedAgain" /\ ActiveFree /\ Return(t)
    /\ UNCHANGED <<streamVars, deviceCount, bt, locks, told, leaked, faults>>

(* a2dpResume(): collect the marked streams among those on the speaker, those   *)
(* with no device and those with a mark; move them back; unmute them.           *)
Candidates ==
    {s \in Alive : "spk" \in mDevices[s] \/ mDevices[s] = {} \/ suspendedOutDevIds[s] # {}}

a2dpResume(t) ==
    /\ pc[t] = "a2dpResume"
    /\ \/ Candidates = {} /\ ActiveFree /\ Return(t) /\ UNCHANGED mActiveStreamMutex
       \/ /\ Candidates # {} /\ LockActive(t) /\ Goto(t, "collect")
          /\ Set(t, [Nothing EXCEPT !.todo = Candidates, !.then = "restored"])
    /\ UNCHANGED <<streamVars, deviceCount, bt, mStreamMutex, told, leaked, faults>>

collectOne(t, s) ==
    LET marks == suspendedOutDevIds[s]
        back == IF "a2dp" \in marks THEN {s} ELSE {}
        from == IF Cardinality(marks) = 1 THEN mDevices[s] ELSE {}
    IN  /\ pc[t] = "collect" /\ s \in loc[t].todo /\ StreamFree(s)
        /\ Set(t, [loc[t] EXCEPT !.todo = @ \ {s}, !.conn = @ \cup (back \X {"a2dp"}),
                                 !.disc = @ \cup (back \X from)])
        /\ UNCHANGED <<streamVars, deviceCount, bt, locks, pc, told, leaked, faults>>

collectedAll(t) ==
    /\ pc[t] = "collect" /\ loc[t].todo = {} /\ Unlocked
    /\ IF loc[t].conn = {} THEN Return(t) ELSE Goto(t, "devSwitch") /\ UNCHANGED loc
    /\ UNCHANGED <<streamVars, deviceCount, bt, mStreamMutex, told, leaked, faults>>

restored(t) ==
    /\ pc[t] = "restored"
    /\ \/ loc[t].status # "ok" /\ Return(t) /\ UNCHANGED mActiveStreamMutex
       \/ /\ loc[t].status = "ok" /\ LockActive(t) /\ Goto(t, "unmute")
          /\ Set(t, [loc[t] EXCEPT !.todo = {x[1] : x \in loc[t].conn} \cap Alive])
    /\ UNCHANGED <<streamVars, deviceCount, bt, mStreamMutex, told, leaked, faults>>

unmuteOne(t, s) ==
    /\ pc[t] = "unmute" /\ s \in loc[t].todo /\ StreamFree(s)
    /\ suspendedOutDevIds' = [suspendedOutDevIds EXCEPT ![s] = {}]
    /\ a2dpMuted' = [a2dpMuted EXCEPT ![s] = FALSE]
    /\ stranded' = stranded \ {s}
    /\ Set(t, [loc[t] EXCEPT !.todo = @ \ {s}])
    /\ UNCHANGED <<currentState, mDevices, deviceCount, bt, locks, pc, want, ignored,
                   leaked, faults>>

unmutedAll(t) ==
    /\ pc[t] = "unmute" /\ loc[t].todo = {} /\ Unlocked /\ Return(t)
    /\ UNCHANGED <<streamVars, deviceCount, bt, mStreamMutex, told, leaked, faults>>

------------------------------------------------------------------------------
(* DEVICE_CONNECTION: the list of available devices, then the device object.    *)
(* The policy moves every stream off a device that is gone before the device    *)
(* comes back.                                                                  *)

Unused == \A s \in Streams : "a2dp" \notin (mDevices[s] \cup want[s])

deviceConnection(t, connect) ==
    /\ pc[t] = "idle" /\ t = "hal" /\ bt.available # connect /\ Calm /\ BtIdle
    /\ connect => Unused
    /\ bt' = [bt EXCEPT !.available = connect]
    /\ Goto(t, IF connect THEN "openSource" ELSE "closeSource")
    /\ UNCHANGED <<streamVars, deviceCount, locks, loc, told, leaked, faults>>

open_a2dp_source(t) ==
    /\ pc[t] = "openSource"
    /\ bt' = [bt EXCEPT !.state = IF @ = "DISCONNECTED" THEN "CONNECTED" ELSE @]
    /\ Goto(t, "idle")
    /\ UNCHANGED <<streamVars, deviceCount, locks, loc, told, leaked, faults>>

close_audio_source(t) ==
    /\ pc[t] = "closeSource"
    /\ bt' = [bt EXCEPT !.state = "DISCONNECTED", !.requests = 0]
    /\ leaked' = 0
    /\ Goto(t, "idle")
    /\ UNCHANGED <<streamVars, deviceCount, locks, loc, told, faults>>

------------------------------------------------------------------------------
(* Calls that a thread may begin, and the steps of a call under way.            *)

Begin(t) ==
    \/ /\ t \in Streams
       /\ \/ close(t) \/ startReady(t) \/ startCombo(t) \/ startAlone(t) \/ stopLock(t)
          \/ \E ds \in Routes : open(t, ds) \/ switchDevice(t, ds)
    \/ /\ t \in BtThreads
       /\ \E on \in BOOLEAN : setBTParameter(t, on) \/ deviceConnection(t, on)

Continue(t) ==
    \/ /\ t \in Streams
       /\ startRoute(t) \/ startDevices(t) \/ stop(t) \/ plan(t) \/ switchDone(t)
    \/ devSwitchLock(t) \/ devSwitch(t)
    \/ \E s \in Streams : lockOne(t, s)
    \/ /\ t \in BtThreads
       /\ \/ suspendSet(t) \/ suspendClear(t) \/ a2dpSuspend(t) \/ markedAll(t)
          \/ forceDeviceSwitch(t) \/ forced(t) \/ forcedAgain(t)
          \/ a2dpResume(t) \/ collectedAll(t) \/ restored(t) \/ unmutedAll(t)
          \/ open_a2dp_source(t) \/ close_audio_source(t)
          \/ \E s \in Streams : markOne(t, s) \/ collectOne(t, s) \/ unmuteOne(t, s)

Next == \E t \in Threads : Begin(t) \/ Continue(t)

Spec == Init /\ [][Next]_vars

------------------------------------------------------------------------------
Quiet == \A t \in Threads : pc[t] = "idle"

(* The counts agree with the streams.  The requests that keep the Bluetooth     *)
(* stack streaming are the started streams on the device: a lost one stops the  *)
(* headset under another stream, a leaked one keeps it awake.  The only leaked  *)
(* ones are those of a start that failed after it was counted, until the device *)
(* is disconnected.  Between calls no device is open that no stream has, and    *)
(* the speaker is open as often as streams have it (BtA2dp::start and stop,     *)
(* Device::open and close).  The A2DP device may have fewer: start() that meets *)
(* the suspension closes it twice.                                              *)
CountsMatch ==
    /\ bt.state # "DISCONNECTED" /\ bt.available =>
           bt.requests = Cardinality(Players) + leaked
    /\ Quiet => \A d \in Devices :
           LET users == Cardinality({s \in Streams : d \in mDevices[s]})
           IN  deviceCount[d] <= users /\ (d = "spk" => deviceCount[d] = users)

(* When the device is back and no call is under way, no stream is left behind:  *)
(* unless a call failed, what plays is on the devices its client asked for      *)
(* last, neither muted nor marked (a2dpSuspend and a2dpResume, switchDevice).   *)
(* The streams of a suspension that ended with a call up are left behind on     *)
(* purpose, until the next resumption or a route of their client's.             *)
Heard ==
    (Quiet /\ isDeviceReady("a2dp") /\ faults = 0) =>
        \A s \in Streams \ stranded : Runs(s) =>
            /\ ~a2dpMuted[s] /\ suspendedOutDevIds[s] = {} /\ want[s] \subseteq mDevices[s]

(* Music meant for the headset alone is not heard from the speaker while the    *)
(* headset is suspended: whoever moves a stream there mutes it first, start()   *)
(* too, and nothing unmutes it before it is back.  (A route to A2DP asked for   *)
(* during a suspension is put off and leaves the stream where it was; a start() *)
(* whose session fails does not come to the mute, nor does the next one.)       *)
NoLeak ==
    \A s \in Streams :
        (/\ bt.suspended /\ Runs(s) /\ pc[s] = "idle" /\ s \notin ignored
         /\ want[s] = {"a2dp"} /\ "spk" \in mDevices[s]) => a2dpMuted[s]

(* What BTUtilsDeviceNotReady says of a start() on a suspended headset: "mute   *)
(* the stream and route to speaker or handset".  Where clients only open, start *)
(* and stop, nothing else brings a stream meant for the headset to the speaker. *)
MutedOnSpeaker ==
    \A s \in Streams :
        (/\ bt.suspended /\ Runs(s) /\ pc[s] = "idle"
         /\ want[s] = {"a2dp"} /\ "spk" \in mDevices[s]) => a2dpMuted[s]

(* mStreamMutex and mActiveStreamMutex are never wanted in both orders: no      *)
(* start() waits for mActiveStreamMutex with the mStreamMutex that its holder   *)
(* waits for (BTUtilsDeviceNotReady against a2dpSuspend and streamDevSwitch).   *)
NoLockCycle ==
    \A s \in Streams :
        ~ (/\ pc[s] = "route"
           /\ mActiveStreamMutex # "none"
           /\ s \in loc[mActiveStreamMutex].todo)
==============================================================================
