----------------------------- MODULE StreamPCM -----------------------------
(***************************************************************************)
(* A PCM stream (StreamPCM.cpp) between its clients and the subsystem      *)
(* restart (SSR) machinery of the resource manager: the API calls that     *)
(* change the stream's state, the worker of ssrHandlingLoop with its       *)
(* message queue, the sound card monitor and the sound card itself.        *)
(*                                                                         *)
(* A step of a thread is what it does under one hold of mStreamMutex.      *)
(* todo[t] is the rest of thread t's program: calls such as stop() made by *)
(* close() or by an SSR handler are pushed on it.  The only other lock     *)
(* that matters is mActiveStreamMutex, which the worker keeps through a    *)
(* round except where its handlers release it.                             *)
(*                                                                         *)
(* The client respects the preconditions that PalApi.h states.  What the   *)
(* session and the devices do below these calls is a choice of success or  *)
(* failure; their reference counts are kept.  Mmap, A2DP suspend, volume   *)
(* and mute are left out.                                                  *)
(***************************************************************************)
EXTENDS Integers, Sequences, FiniteSets

CONSTANTS
    RxDevice, TxDevice, \* output and input devices
    Attributes,         \* the kinds of stream that are opened
    Client,             \* client threads
    Calls,              \* Calls[c]: the API calls thread c makes
    Ssr,                \* the thread running ssrHandlingLoop
    Faults,             \* the calls below the stream that may fail
    CardFaults,         \* the ways the sound card goes down
    Overlap,            \* the calls made at any time, SSR rounds included
    Between,            \* the calls made between rounds, the card down or up
    Settles,            \* the card changes only after its last change is handled
    Others,             \* references that other streams hold on each device
    MaxCount,           \* bound on a device's counters
    MaxMsgs,            \* bound on the length of msgQ
    MaxChanges          \* bound on the changes of the card's state

Dev    == RxDevice \cup TxDevice
Thread == Client \cup {Ssr}

CallName  == {"open", "start", "stop", "close", "pause", "resume", "write", "read"}
FaultName == {"device open", "session open", "device start", "session prepare",
              "session start", "session pause", "session io"}
Down      == {"OFFLINE", "STANDBY"}
Card      == Down \cup {"ONLINE"}
State     == {"IDLE", "INIT", "STARTED", "PAUSED", "STOPPED"}

ASSUME StreamAssumption ==
    /\ RxDevice \cap TxDevice = {} /\ IsFiniteSet(Dev) /\ Dev # {}
    /\ Attributes \subseteq [direction : {"out", "in", "loop"}, devices : SUBSET Dev,
                             standby : BOOLEAN]
    /\ Ssr \notin Client
    /\ Calls \in [Client -> SUBSET CallName]
    /\ Faults \subseteq FaultName
    /\ CardFaults \subseteq Down
    /\ Settles \in BOOLEAN
    /\ Overlap \subseteq CallName /\ Between \subseteq CallName
    /\ Others \in Nat /\ MaxCount \in Nat /\ MaxMsgs \in Nat /\ MaxChanges \in Nat

VARIABLES
    mStreamAttr,    \* the stream's direction, its devices, and whether its
                    \* type is one that keeps running in standby
    currentState, cachedState, isPaused, skipSSRHandling,
    mDevices,       \* the devices the stream still has
    session,        \* the session is "closed", "open", "started" or "paused"
    deviceCount, deviceStartStopCount,  \* of each device, all streams together
    registered,     \* the stream's devices in active_devices
    cardState, prevState, msgQ,         \* of the resource manager
    ssrHolds,       \* the worker holds mActiveStreamMutex
    card,           \* what the sound card really is
    event,          \* a change of it that the monitor has not read
    monitor,        \* the monitor is at "poll" or about to "discard" a read
    changes,        \* how often it has changed
    call,           \* the API call each client is in, or "none"
    todo, status,   \* what each thread still does; what its last method returned
    view            \* what the client has been told of the stream

streamVars == <<currentState, cachedState, isPaused, skipSSRHandling>>
lowerVars  == <<mDevices, session, deviceCount, deviceStartStopCount, registered>>
rmVars     == <<cardState, prevState, msgQ, ssrHolds>>
cardVars   == <<card, event, monitor, changes>>
clientVars == <<mStreamAttr, call, view>>
vars == <<streamVars, lowerVars, rmVars, cardVars, clientVars, todo, status>>

isDown(s) == s \in Down     \* PAL_CARD_STATUS_DOWN

Init ==
    /\ mStreamAttr \in Attributes
    /\ currentState = "IDLE" /\ cachedState = "IDLE"
    /\ isPaused = FALSE /\ skipSSRHandling = FALSE
    /\ mDevices = mStreamAttr.devices
    /\ session = "closed"
    /\ deviceCount = [d \in Dev |-> Others]
    /\ deviceStartStopCount = [d \in Dev |-> Others]
    /\ registered = {}
    /\ cardState = "ONLINE" /\ prevState = "ONLINE" /\ msgQ = <<>>
    /\ ssrHolds = FALSE
    /\ card = "ONLINE" /\ event = FALSE /\ monitor = "discard" /\ changes = 0
    /\ call = [c \in Client |-> "none"]
    /\ todo = [t \in Thread |-> <<>>]
    /\ status = [t \in Thread |-> 0]
    /\ view = "none"

-----------------------------------------------------------------------------
(* Thread programs *)

At(t, label) == todo[t] # <<>> /\ Head(todo[t]) = label

(* Replace the head of t's program by the labels of seq.                   *)
Then(t, seq) == todo' = [todo EXCEPT ![t] = seq \o Tail(@)]
Return(t, s) == Then(t, <<>>) /\ status' = [status EXCEPT ![t] = s]

(* mActiveStreamMutex is free for a thread that is about to lock it: the   *)
(* worker itself must not hold it either, it is not recursive.             *)
CanLockActive == ~ssrHolds

-----------------------------------------------------------------------------
(* Device reference counts (Device.cpp), for a set of devices.             *)

Raise(f, D) == [d \in Dev |-> IF d \in D THEN f[d] + 1 ELSE f[d]]
LowerUnchecked(f, D) ==     \* faulty variant: a count of 0 is lowered too
    [d \in Dev |-> IF d \in D THEN f[d] - 1 ELSE f[d]]

Lower(f, D) == [d \in Dev |-> IF d \in D /\ f[d] > 0 THEN f[d] - 1 ELSE f[d]]

(* Device::close on each of D: the last close also forgets the starts.     *)
closeDevices(D) ==
    /\ deviceCount' = Lower(deviceCount, D)
    /\ deviceStartStopCount' =
          [d \in Dev |-> IF d \in D /\ deviceCount[d] = 1 THEN 0
                         ELSE deviceStartStopCount[d]]

(* Some part of the set D, not all of it, that a loop got through before   *)
(* the device that failed.                                                 *)
ProperPart(D) == (SUBSET D) \ {D}

(* ResourceManager::ssrHandler *)
ssrHandler(s) == Len(msgQ) < MaxMsgs /\ msgQ' = Append(msgQ, s)

-----------------------------------------------------------------------------
(* StreamPCM::open *)

OpenRefused(t) ==
    /\ At(t, "open")
    /\ \/ isDown(cardState) /\ Return(t, -1)
       \/ ~isDown(cardState) /\ currentState = "INIT" /\ Return(t, 0)
       \/ ~isDown(cardState) /\ currentState \notin {"IDLE", "INIT"} /\ Return(t, -1)
    /\ UNCHANGED <<streamVars, lowerVars, rmVars, cardVars, clientVars>>

OpenRun(t) ==
    /\ At(t, "open") /\ ~isDown(cardState) /\ currentState = "IDLE"
    /\ deviceCount' = Raise(deviceCount, mDevices)
    /\ session' = "open"
    /\ currentState' = "INIT"
    /\ Return(t, 0)
    /\ UNCHANGED <<cachedState, isPaused, skipSSRHandling, mDevices,
                   deviceStartStopCount, registered, rmVars, cardVars, clientVars>>

(* A device fails to open: those before it stay open.                      *)
OpenDeviceFails(t) ==
    /\ At(t, "open") /\ ~isDown(cardState) /\ currentState = "IDLE"
    /\ "device open" \in Faults
    /\ \E D \in ProperPart(mDevices) : deviceCount' = Raise(deviceCount, D)
    /\ Return(t, -1)
    /\ UNCHANGED <<streamVars, mDevices, session, deviceStartStopCount,
                   registered, rmVars, cardVars, clientVars>>

(* The session fails to open: the devices are closed again, and the result *)
(* of the last close replaces that of the session.                         *)
OpenSessionFails(t) ==
    /\ At(t, "open") /\ ~isDown(cardState) /\ currentState = "IDLE"
    /\ "session open" \in Faults
    /\ Return(t, IF mDevices = {} THEN -1 ELSE 0)
    /\ UNCHANGED <<streamVars, lowerVars, rmVars, cardVars, clientVars>>

Open(t) == OpenRefused(t) \/ OpenRun(t) \/ OpenDeviceFails(t) \/ OpenSessionFails(t)

-----------------------------------------------------------------------------
(* StreamPCM::start *)

StartRefused(t) ==
    /\ At(t, "start") /\ ~isDown(cardState)
    /\ currentState \notin {"INIT", "STOPPED"}
    /\ Return(t, IF currentState = "STARTED" THEN 0 ELSE -1)
    /\ UNCHANGED <<streamVars, lowerVars, rmVars, cardVars, clientVars>>

StartNotCached(t) ==        \* faulty variant: the start is not remembered
    /\ At(t, "start") /\ isDown(cardState)
    /\ Return(t, 0)
    /\ UNCHANGED <<streamVars, lowerVars, rmVars, cardVars, clientVars>>

(* The card is known to be down: the SSR up handler will start the stream. *)
StartCached(t) ==
    /\ At(t, "start") /\ isDown(cardState)
    /\ cachedState' = "STARTED"
    /\ Return(t, 0)
    /\ UNCHANGED <<currentState, isPaused, skipSSRHandling, lowerVars, rmVars,
                   cardVars, clientVars>>

Starting(t) == /\ At(t, "start") /\ ~isDown(cardState)
               /\ currentState \in {"INIT", "STOPPED"}
               /\ \A d \in mDevices : deviceStartStopCount[d] < MaxCount

StartFailedDevicesKept(t) ==    \* faulty variant: closed devices are not dropped
    /\ Starting(t) /\ "device start" \in Faults
    /\ closeDevices(mDevices)
    /\ Return(t, -1)
    /\ UNCHANGED <<streamVars, mDevices, session, registered, rmVars, cardVars,
                   clientVars>>

(* The start gives up on the devices.  An output stream closes and drops   *)
(* every device that fails, and gives up when none is left; an input       *)
(* stream keeps those started before the one that fails; a loopback stops  *)
(* its outputs again when an input fails.                                  *)
StartDevicesFail(t) ==
    /\ Starting(t)
    /\ \/ /\ mStreamAttr.direction = "out"
          /\ "device start" \in Faults \/ mDevices = {}
          /\ closeDevices(mDevices)
          /\ mDevices' = {}
       \/ /\ mStreamAttr.direction = "in" /\ "device start" \in Faults
          /\ \E D \in ProperPart(mDevices) :
                deviceStartStopCount' = Raise(deviceStartStopCount, D)
          /\ UNCHANGED <<mDevices, deviceCount>>
       \/ /\ mStreamAttr.direction = "loop" /\ "device start" \in Faults
          /\ \E D \in ProperPart(mDevices \cap RxDevice)
                    \cup ProperPart(mDevices \cap TxDevice) :
                deviceStartStopCount' = Raise(deviceStartStopCount, D)
          /\ UNCHANGED <<mDevices, deviceCount>>
    /\ Return(t, -1)
    /\ UNCHANGED <<streamVars, session, registered, rmVars, cardVars, clientVars>>

(* The devices a start can lose on the way and still go on.                *)
Losses == IF mStreamAttr.direction = "out" /\ "device start" \in Faults
             THEN ProperPart(mDevices) ELSE {{}} \ {mDevices}

StartFailsUnstopped(t) ==   \* faulty variant: the started devices stay started
    /\ Starting(t)
    /\ {"session prepare", "session start"} \cap Faults # {}
    /\ deviceStartStopCount' = Raise(deviceStartStopCount, mDevices)
    /\ Return(t, -1)
    /\ UNCHANGED <<streamVars, mDevices, deviceCount, session, registered, rmVars,
                   cardVars, clientVars>>

(* session_fail: the session is not prepared or not started and the        *)
(* devices are stopped again.                                              *)
StartSessionFails(t) ==
    /\ Starting(t)
    /\ {"session prepare", "session start"} \cap Faults # {}
    /\ \E F \in Losses : closeDevices(F) /\ mDevices' = mDevices \ F
    /\ Return(t, -1)
    /\ UNCHANGED <<streamVars, session, registered, rmVars, cardVars, clientVars>>

(* The session start fails with ENETRESET, the card is going down: the     *)
(* resource manager is told if it does not know, and the start is cached.  *)
StartNetReset(t) ==
    /\ Starting(t) /\ isDown(card)
    /\ ssrHandler("OFFLINE")
    /\ cachedState' = "STARTED"
    /\ \E F \in Losses : closeDevices(F) /\ mDevices' = mDevices \ F
    /\ Return(t, 0)
    /\ UNCHANGED <<currentState, isPaused, skipSSRHandling, session, registered,
                   cardState, prevState, ssrHolds, cardVars, clientVars>>

StartRun(t) ==
    /\ Starting(t) /\ ~isDown(card)
    /\ \E F \in Losses :
          /\ mDevices' = mDevices \ F
          /\ deviceCount' = Lower(deviceCount, F)
          /\ deviceStartStopCount' =
                [d \in Dev |-> IF d \in F /\ deviceCount[d] = 1 THEN 0
                               ELSE Raise(deviceStartStopCount, mDevices \ F)[d]]
    /\ session' = "started"
    /\ currentState' = "STARTED"
    /\ Then(t, <<"start_register">>)
    /\ UNCHANGED <<cachedState, isPaused, skipSSRHandling, registered, rmVars,
                   cardVars, status, clientVars>>

(* Both mutexes are taken, in the order that stop() and write() use.       *)
StartRegister(t) ==
    /\ At(t, "start_register") /\ CanLockActive
    /\ registered' = registered \cup mDevices
    /\ Return(t, 0)
    /\ UNCHANGED <<streamVars, mDevices, session, deviceCount,
                   deviceStartStopCount, rmVars, cardVars, clientVars>>

Start(t) ==
    \/ StartRefused(t) \/ StartCached(t) \/ StartDevicesFail(t)
    \/ StartSessionFails(t) \/ StartNetReset(t) \/ StartRun(t) \/ StartRegister(t)

-----------------------------------------------------------------------------
(* StreamPCM::stop.  The state is read, mStreamMutex given up to take      *)
(* mActiveStreamMutex first, and not read again.                           *)

StopCheck(t) ==
    /\ At(t, "stop")
    /\ IF currentState \in {"STARTED", "PAUSED"}
          THEN Then(t, <<"stop_locked">>) /\ UNCHANGED status
          ELSE Return(t, IF currentState = "INIT" THEN -1 ELSE 0)
    /\ UNCHANGED <<streamVars, lowerVars, rmVars, cardVars, clientVars>>

StopKeepsRegistered(t) ==   \* faulty variant: the devices stay registered
    /\ At(t, "stop_locked") /\ CanLockActive
    /\ currentState' = "STOPPED"
    /\ session' = IF session \in {"started", "paused"} THEN "open" ELSE session
    /\ deviceStartStopCount' = Lower(deviceStartStopCount, mDevices)
    /\ Return(t, 0)
    /\ UNCHANGED <<cachedState, isPaused, skipSSRHandling, mDevices, deviceCount,
                   registered, rmVars, cardVars, clientVars>>

StopRun(t) ==
    /\ At(t, "stop_locked") /\ CanLockActive
    /\ currentState' = "STOPPED"
    /\ registered' = registered \ mDevices
    /\ session' = IF session \in {"started", "paused"} THEN "open" ELSE session
    /\ deviceStartStopCount' = Lower(deviceStartStopCount, mDevices)
    /\ Return(t, 0)
    /\ UNCHANGED <<cachedState, isPaused, skipSSRHandling, mDevices, deviceCount,
                   rmVars, cardVars, clientVars>>

(* StreamPCM::close, which stops a running stream first; the state is not  *)
(* read again after that.                                                  *)
CloseCheck(t) ==
    /\ At(t, "close") /\ currentState \in {"IDLE", "STARTED", "PAUSED"}
    /\ IF currentState = "IDLE"
          THEN Return(t, 0)
          ELSE Then(t, <<"stop", "close_locked">>) /\ UNCHANGED status
    /\ UNCHANGED <<streamVars, lowerVars, rmVars, cardVars, clientVars>>

CloseRun(t) ==
    /\ \/ At(t, "close_locked")
       \/ At(t, "close") /\ currentState \in {"INIT", "STOPPED"}
    /\ session' = "closed"
    /\ closeDevices(mDevices)
    /\ currentState' = "IDLE"
    /\ Return(t, 0)
    /\ UNCHANGED <<cachedState, isPaused, skipSSRHandling, mDevices, registered,
                   rmVars, cardVars, clientVars>>

-----------------------------------------------------------------------------
(* StreamPCM::pause and resume *)

(* Neither looks at currentState.  The session is not asked to pause when  *)
(* isPaused says that it has been.                                         *)
Pause(t) ==
    /\ At(t, "pause")
    /\ \/ /\ ~isDown(cardState) /\ ~isPaused /\ "session pause" \in Faults
          /\ Return(t, -1)
          /\ UNCHANGED <<streamVars, session>>
       \/ /\ cachedState' = IF isDown(cardState) THEN "PAUSED" ELSE cachedState
          /\ session' = IF ~isDown(cardState) /\ ~isPaused /\ session = "started"
                           THEN "paused" ELSE session
          /\ isPaused' = TRUE
          /\ currentState' = "PAUSED"
          /\ Return(t, 0)
          /\ UNCHANGED skipSSRHandling
    /\ UNCHANGED <<mDevices, deviceCount, deviceStartStopCount, registered, rmVars,
                   cardVars, clientVars>>

Resume(t) ==
    /\ At(t, "resume")
    /\ \/ /\ isDown(cardState)
          /\ cachedState' = "STARTED"
          /\ Return(t, 0)
          /\ UNCHANGED <<isPaused, session>>
       \/ /\ ~isDown(cardState) /\ "session pause" \in Faults
          /\ Return(t, -1)
          /\ UNCHANGED <<cachedState, isPaused, session>>
       \/ /\ ~isDown(cardState)
          /\ session' = IF session = "paused" THEN "started" ELSE session
          /\ isPaused' = FALSE
          /\ Return(t, 0)
          /\ UNCHANGED cachedState
    /\ UNCHANGED <<currentState, skipSSRHandling, mDevices, deviceCount,
                   deviceStartStopCount, registered, rmVars, cardVars, clientVars>>

-----------------------------------------------------------------------------
(* StreamPCM::write and read *)

(* While the card is down, or an SSR is taken to be in progress, the       *)
(* buffer is dropped and reported as written.                              *)
Dropping == isDown(cardState) \/ cachedState # "IDLE"

(* The session's write is over when mStreamMutex is released; what follows *)
(* runs without it.                                                        *)
Write(t) ==
    /\ At(t, "write")
    /\ \/ Dropping /\ Return(t, 0)
       \/ ~Dropping /\ currentState \notin {"STARTED", "PAUSED"} /\ Return(t, -1)
       \/ /\ ~Dropping /\ currentState \in {"STARTED", "PAUSED"}
          /\ ~isDown(card)
          /\ Then(t, <<"write_resumed">>) /\ UNCHANGED status
       \/ /\ ~Dropping /\ currentState \in {"STARTED", "PAUSED"}
          /\ isDown(card)
          /\ Then(t, <<"write_netreset">>) /\ UNCHANGED status
       \/ /\ ~Dropping /\ currentState \in {"STARTED", "PAUSED"}
          /\ "session io" \in Faults
          /\ Return(t, -1)
    /\ UNCHANGED <<streamVars, lowerVars, rmVars, cardVars, clientVars>>

(* ENETRESET: the resource manager is told if it believes the card is up.  *)
WriteNetReset(t) ==
    /\ At(t, "write_netreset")
    /\ IF isDown(cardState) THEN UNCHANGED msgQ ELSE ssrHandler("OFFLINE")
    /\ Return(t, 0)
    /\ UNCHANGED <<streamVars, lowerVars, cardState, prevState, ssrHolds,
                   cardVars, clientVars>>

(* The first write after a resume makes the stream STARTED again.          *)
WriteResumed(t) ==
    /\ At(t, "write_resumed")
    /\ IF currentState = "PAUSED" /\ ~isPaused
          THEN Then(t, <<"write_register", "write_started">>) /\ UNCHANGED status
          ELSE Return(t, 0)
    /\ UNCHANGED <<streamVars, lowerVars, rmVars, cardVars, clientVars>>

WriteRegister(t) ==
    /\ At(t, "write_register") /\ CanLockActive
    /\ registered' = registered \cup mDevices
    /\ Then(t, <<>>)
    /\ UNCHANGED <<streamVars, mDevices, session, deviceCount,
                   deviceStartStopCount, rmVars, cardVars, status, clientVars>>

WriteStarted(t) ==
    /\ At(t, "write_started")
    /\ currentState' = "STARTED"
    /\ Return(t, 0)
    /\ UNCHANGED <<cachedState, isPaused, skipSSRHandling, lowerVars, rmVars,
                   cardVars, clientVars>>

(* A read holds mStreamMutex to the end, the report to the resource        *)
(* manager included.                                                       *)
Read(t) ==
    /\ At(t, "read")
    /\ \/ Dropping /\ Return(t, 0) /\ UNCHANGED msgQ
       \/ /\ ~Dropping /\ currentState # "STARTED"
          /\ Return(t, -1) /\ UNCHANGED msgQ
       \/ /\ ~Dropping /\ currentState = "STARTED" /\ ~isDown(card)
          /\ Return(t, 0) /\ UNCHANGED msgQ
       \/ /\ ~Dropping /\ currentState = "STARTED" /\ isDown(card)
          /\ ssrHandler("OFFLINE") /\ Return(t, 0)
       \/ /\ ~Dropping /\ currentState = "STARTED" /\ "session io" \in Faults
          /\ Return(t, -1) /\ UNCHANGED msgQ
    /\ UNCHANGED <<streamVars, lowerVars, cardState, prevState, ssrHolds,
                   cardVars, clientVars>>

-----------------------------------------------------------------------------
(* The API calls (Pal.cpp), as programs over the methods above.            *)

Program(op) ==
    CASE op = "stop"  -> <<"set_stopped", "stop", "return">>
      [] op = "close" -> <<"set_idle", "close", "destroy">>
      [] OTHER        -> <<op, "return">>

(* The preconditions of PalApi.h, on what the client knows; a stream is    *)
(* closed when no other call is under way.                                 *)
Allowed(c, op) ==
    CASE op = "open"   -> view = "none"
      [] op = "start"  -> view \in {"opened", "stopped"}
      [] op = "stop"   -> view \in {"started", "paused"}
      [] op = "pause"  -> view = "started"
      [] op = "resume" -> view = "paused"
      [] op = "write"  -> view \in {"started", "paused"} /\ mStreamAttr.direction = "out"
      [] op = "read"   -> view = "started" /\ mStreamAttr.direction = "in"
      [] op = "close"  -> /\ view \in {"opened", "started", "paused", "stopped"}
                          /\ \A d \in Client \ {c} : call[d] = "none"

(* Nothing of an SSR is under way.                                         *)
Calm ==
    /\ card = "ONLINE" /\ ~event /\ monitor = "poll"
    /\ cardState = "ONLINE" /\ msgQ = <<>> /\ todo[Ssr] = <<>>

(* A client takes its calls one at a time.                                 *)
Call(c) ==
    /\ call[c] = "none"
    /\ \E op \in Calls[c] :
          /\ Allowed(c, op)
          /\ op \in Overlap \/ (op \in Between /\ todo[Ssr] = <<>>) \/ Calm
          /\ call' = [call EXCEPT ![c] = op]
          /\ todo' = [todo EXCEPT ![c] = Program(op)]
          /\ view' = IF op = "close" THEN "closing" ELSE view
    /\ UNCHANGED <<mStreamAttr, streamVars, lowerVars, rmVars, cardVars, status>>

(* Stream::setCachedState, which pal_stream_stop and pal_stream_close call *)
(* before the method itself.                                               *)
SetCachedState(c) ==
    /\ \/ At(c, "set_stopped") /\ cachedState' = "STOPPED"
       \/ At(c, "set_idle") /\ cachedState' = "IDLE"
    /\ Then(c, <<>>)
    /\ UNCHANGED <<currentState, isPaused, skipSSRHandling, lowerVars, rmVars,
                   cardVars, status, clientVars>>

(* The call returns and the client draws its conclusion: what it now takes *)
(* the stream to be.  pal_stream_open closes and destroys a stream that it *)
(* could not open.                                                         *)
Outcome(op) ==
    CASE op = "open" -> "opened"
      [] op \in {"start", "resume"} -> "started"
      [] op = "stop" -> "stopped"
      [] op = "pause" -> "paused"
      [] op \in {"write", "read"} -> view

CallDone(c) ==
    /\ At(c, "return")
    /\ IF call[c] = "open" /\ status[c] # 0
          THEN view' = "failed" /\ Then(c, <<"close", "destroy">>) /\ UNCHANGED call
          ELSE /\ view' = IF status[c] = 0 THEN Outcome(call[c]) ELSE view
               /\ Then(c, <<>>)
               /\ call' = [call EXCEPT ![c] = "none"]
    /\ status' = [status EXCEPT ![c] = 0]
    /\ UNCHANGED <<mStreamAttr, streamVars, lowerVars, rmVars, cardVars>>

(* deactivateStreamUserCounter waits for the SSR handler, then the object  *)
(* is destroyed (module StreamHandle).                                     *)
CloseDone(c) ==
    /\ At(c, "destroy") /\ todo[Ssr] = <<>>
    /\ view' = "dead"
    /\ Then(c, <<>>)
    /\ call' = [call EXCEPT ![c] = "none"]
    /\ cachedState' = "IDLE"
    /\ UNCHANGED <<mStreamAttr, currentState, isPaused, skipSSRHandling, lowerVars,
                   rmVars, cardVars, status>>

-----------------------------------------------------------------------------
(* ssrHandlingLoop, with the stream as the only one in mActiveStreams.     *)

(* A stream has a user counter from the end of pal_stream_open to          *)
(* pal_stream_close; the worker skips it before and after.                 *)
Counted == view \notin {"none", "failed", "dead"}

(* The worker takes a message, publishes it as cardState and starts a      *)
(* round unless it has handled that state already.                         *)
SsrTake ==
    /\ todo[Ssr] = <<>> /\ msgQ # <<>>
    /\ \A c \in Client : call[c] \in Overlap \cup {"none"}
    /\ LET s == Head(msgQ) IN
          /\ cardState' = s
          /\ IF s = prevState \/ ~Counted
                THEN prevState' = s /\ UNCHANGED <<todo, ssrHolds>>
                ELSE /\ todo' = [todo EXCEPT ![Ssr] =
                                    IF isDown(s) THEN <<"down">> ELSE <<"up">>]
                     /\ ssrHolds' = TRUE
                     /\ UNCHANGED prevState
    /\ msgQ' = Tail(msgQ)
    /\ UNCHANGED <<streamVars, lowerVars, cardVars, status, clientVars>>

(* The end of a round.                                                     *)
RoundEnd ==
    /\ Then(Ssr, <<>>)
    /\ prevState' = cardState
    /\ ssrHolds' = FALSE
    /\ status' = [status EXCEPT ![Ssr] = 0]

(* Faulty variant: mActiveStreamMutex is kept while the stream is stopped. *)
SsrDownLocked ==
    /\ At(Ssr, "down")
    /\ cachedState' = IF cachedState = "IDLE" THEN currentState ELSE cachedState
    /\ Then(Ssr, CASE currentState \in {"INIT", "STOPPED"} -> <<"close", "down_exit">>
                    [] currentState = "IDLE" -> <<"down_exit">>
                    [] OTHER -> <<"stop", "close", "down_exit">>)
    /\ UNCHANGED <<currentState, isPaused, skipSSRHandling, lowerVars, rmVars, cardVars,
                   clientVars, status>>

(* Faulty variant: a running stream is stopped but not closed.             *)
SsrDownNoClose ==
    /\ At(Ssr, "down")
    /\ cachedState' = IF cachedState = "IDLE" THEN currentState ELSE cachedState
    /\ Then(Ssr, IF currentState \in {"STARTED", "PAUSED"} THEN <<"stop", "down_exit">>
                                                          ELSE <<"close", "down_exit">>)
    /\ ssrHolds' = FALSE
    /\ UNCHANGED <<currentState, isPaused, skipSSRHandling, lowerVars, cardState,
                   prevState, msgQ, cardVars, clientVars, status>>

(* ssrDownHandler, up to the release of mStreamMutex.  A type that runs in *)
(* standby skips this round and the next up.                               *)
SsrDown ==
    /\ At(Ssr, "down")
    /\ IF cardState = "STANDBY" /\ mStreamAttr.standby
          THEN /\ skipSSRHandling' = TRUE
               /\ RoundEnd
               /\ UNCHANGED cachedState
          ELSE /\ cachedState' = IF cachedState = "IDLE" THEN currentState
                                                         ELSE cachedState
               /\ \/ /\ currentState \in {"INIT", "STOPPED"}
                     /\ Then(Ssr, <<"close", "down_exit">>)
                     /\ UNCHANGED ssrHolds
                  \/ /\ currentState \in {"STARTED", "PAUSED"}
                     /\ Then(Ssr, <<"stop", "close", "down_exit">>)
                     /\ ssrHolds' = FALSE
                  \/ /\ currentState = "IDLE"
                     /\ Then(Ssr, <<"down_exit">>)
                     /\ UNCHANGED ssrHolds
               /\ UNCHANGED <<prevState, status, skipSSRHandling>>
    /\ UNCHANGED <<currentState, isPaused, lowerVars, cardState, msgQ, cardVars,
                   clientVars>>

(* The state is set to IDLE once more, without mStreamMutex.               *)
SsrDownExit ==
    /\ At(Ssr, "down_exit")
    /\ currentState' = "IDLE"
    /\ RoundEnd
    /\ UNCHANGED <<cachedState, isPaused, skipSSRHandling, lowerVars, cardState,
                   msgQ, cardVars, clientVars>>

SsrUpForgetsPause ==        \* faulty variant: a paused stream is just started
    /\ At(Ssr, "up")
    /\ CASE cachedState = "INIT" -> Then(Ssr, <<"open", "up_exit">>)
         [] cachedState \in {"STARTED", "PAUSED"} -> Then(Ssr, <<"open", "up_start">>)
         [] OTHER -> Then(Ssr, <<"up_exit">>)
    /\ UNCHANGED <<streamVars, lowerVars, rmVars, cardVars, clientVars, status>>

(* ssrUpHandler, up to the release of mStreamMutex.                        *)
SsrUp ==
    /\ At(Ssr, "up")
    /\ IF skipSSRHandling
          THEN RoundEnd /\ skipSSRHandling' = FALSE
          ELSE /\ CASE cachedState = "INIT"    -> Then(Ssr, <<"open", "up_exit">>)
                    [] cachedState = "STARTED" -> Then(Ssr, <<"open", "up_start">>)
                    [] cachedState = "PAUSED"  -> Then(Ssr, <<"open", "up_start_paused">>)
                    [] OTHER                   -> Then(Ssr, <<"up_exit">>)
               /\ UNCHANGED <<prevState, ssrHolds, status, skipSSRHandling>>
    /\ UNCHANGED <<currentState, cachedState, isPaused, lowerVars, cardState,
                   msgQ, cardVars, clientVars>>

(* Unless the open failed, mActiveStreamMutex is released for start().     *)
SsrUpStart ==
    /\ At(Ssr, "up_start") \/ At(Ssr, "up_start_paused")
    /\ IF status[Ssr] # 0
          THEN Then(Ssr, <<"up_exit">>) /\ UNCHANGED ssrHolds
          ELSE /\ Then(Ssr, <<"start", IF At(Ssr, "up_start") THEN "up_exit"
                                                          ELSE "up_pause">>)
               /\ ssrHolds' = FALSE
    /\ UNCHANGED <<streamVars, lowerVars, cardState, prevState, msgQ, cardVars,
                   clientVars, status>>

(* A stream that was paused is paused again, if it did start.              *)
SsrUpPause ==
    /\ At(Ssr, "up_pause")
    /\ ssrHolds' = TRUE
    /\ IF status[Ssr] = 0 /\ currentState = "STARTED"
          THEN Then(Ssr, <<"pause", "up_exit">>)
          ELSE Then(Ssr, <<"up_exit">>)
    /\ UNCHANGED <<streamVars, lowerVars, cardState, prevState, msgQ, cardVars,
                   status, clientVars>>

(* On every path the cached state is dropped.                              *)
SsrUpExit ==
    /\ At(Ssr, "up_exit")
    /\ cachedState' = "IDLE"
    /\ RoundEnd
    /\ UNCHANGED <<currentState, isPaused, skipSSRHandling, lowerVars, cardState,
                   msgQ, cardVars, clientVars>>

-----------------------------------------------------------------------------
(* The sound card and SndCardMonitor *)

Handled ==
    /\ ~event /\ monitor = "poll" /\ msgQ = <<>> /\ todo[Ssr] = <<>>
    /\ cardState = card
    /\ \A c \in Client : ~At(c, "write_netreset")

CardChange ==
    /\ changes < MaxChanges
    /\ Settles => Handled
    /\ \E s \in CardFaults \cup {"ONLINE"} : s # card /\ card' = s
    /\ event' = TRUE
    /\ changes' = changes + 1
    /\ UNCHANGED <<streamVars, lowerVars, rmVars, monitor, clientVars, todo, status>>

(* poll() returns: the state is read and reported.                         *)
MonitorPost ==
    /\ monitor = "poll" /\ event
    /\ ssrHandler(card)
    /\ event' = FALSE
    /\ monitor' = "discard"
    /\ UNCHANGED <<streamVars, lowerVars, cardState, prevState, ssrHolds, card,
                   changes, clientVars, todo, status>>

(* The loop starts with a read whose result is dropped: a change that was  *)
(* notified before it is not reported.                                     *)
MonitorDiscard ==
    /\ monitor = "discard"
    /\ event' = FALSE
    /\ monitor' = "poll"
    /\ UNCHANGED <<streamVars, lowerVars, rmVars, card, changes, clientVars, todo,
                   status>>

-----------------------------------------------------------------------------
Method(t) ==
    \/ Open(t) \/ Start(t) \/ StopCheck(t) \/ StopRun(t) \/ CloseCheck(t) \/ CloseRun(t)
    \/ Pause(t)

ClientStep(c) ==
    \/ Method(c) \/ Resume(c)
    \/ Write(c) \/ WriteNetReset(c) \/ WriteResumed(c) \/ WriteRegister(c)
    \/ WriteStarted(c) \/ Read(c)
    \/ SetCachedState(c) \/ CallDone(c) \/ CloseDone(c)

SsrStep ==
    \/ SsrTake \/ Method(Ssr)
    \/ SsrDown \/ SsrDownExit \/ SsrUp \/ SsrUpStart \/ SsrUpPause \/ SsrUpExit

Next ==
    \/ \E c \in Client : Call(c) \/ ClientStep(c)
    \/ SsrStep
    \/ CardChange
    \/ MonitorPost
    \/ MonitorDiscard

Spec == Init /\ [][Next]_vars

(* Threads in a call, the worker and the monitor go on; nobody has to make *)
(* a call and the card never has to change.                                *)
FairSpec ==
    /\ Spec
    /\ \A c \in Client : WF_vars(ClientStep(c))
    /\ WF_vars(SsrStep)
    /\ WF_vars(MonitorPost \/ MonitorDiscard)

-----------------------------------------------------------------------------
(* Properties *)

(* The counters of Device.cpp never go below 0, a method returns 0 or an   *)
(* error, and no thread nests its calls deeper than ssrDownHandler, close  *)
(* and stop do.                                                            *)
TypeOK ==
    /\ mStreamAttr \in Attributes
    /\ currentState \in State /\ cachedState \in State
    /\ isPaused \in BOOLEAN /\ skipSSRHandling \in BOOLEAN
    /\ mDevices \subseteq Dev /\ registered \subseteq Dev
    /\ session \in {"closed", "open", "started", "paused"}
    /\ deviceCount \in [Dev -> Nat] /\ deviceStartStopCount \in [Dev -> Nat]
    /\ cardState \in Card /\ prevState \in Card /\ msgQ \in Seq(Card)
    /\ ssrHolds \in BOOLEAN
    /\ card \in Card /\ event \in BOOLEAN /\ monitor \in {"poll", "discard"}
    /\ changes \in 0..MaxChanges
    /\ call \in [Client -> CallName \cup {"none"}]
    /\ \A t \in Thread : Len(todo[t]) <= 5
    /\ status \in [Thread -> {-1, 0}]
    /\ view \in {"none", "opened", "started", "paused", "stopped", "closing",
                "failed", "dead"}

Quiet  == \A t \in Thread : todo[t] = <<>>
Stable == Quiet /\ Handled /\ card = "ONLINE"

(* What a thread left half done in open, start, stop or close, or undid    *)
(* twice, shows when nothing runs: the session, the references on the      *)
(* devices and the registration in active_devices then all agree with      *)
(* currentState.  A destroyed stream leaves nothing behind, whichever      *)
(* steps of its life failed.                                               *)
Coherent ==
    /\ Quiet =>
         /\ currentState = "IDLE" <=> session = "closed"
         /\ currentState \in {"STARTED", "PAUSED"} <=> session \in {"started", "paused"}
         /\ \A d \in mDevices :
               /\ deviceCount[d] = Others + (IF session = "closed" THEN 0 ELSE 1)
               /\ deviceStartStopCount[d] =
                     Others + (IF session \in {"started", "paused"} THEN 1 ELSE 0)
         /\ registered = IF session \in {"started", "paused"} THEN mDevices ELSE {}
    /\ view = "dead" =>
         /\ session = "closed" /\ registered = {}
         /\ \A d \in Dev : deviceCount[d] = Others /\ deviceStartStopCount[d] = Others

(* The device reference counts are shared (Device.cpp): whatever this      *)
(* stream does, it never gives up a reference that another stream holds.   *)
OthersUnharmed ==
    \A d \in Dev : deviceCount[d] >= Others /\ deviceStartStopCount[d] >= Others

(* The worker never waits for mActiveStreamMutex while it holds it: stop() *)
(* and start() lock it, and close() may call stop() when a client changed  *)
(* the state since ssrDownHandler read it.                                 *)
NoSelfDeadlock ==
    ssrHolds => ~At(Ssr, "stop_locked") /\ ~At(Ssr, "start_register")

(* However client calls fall between its steps, ssrDownHandler leaves no   *)
(* session open on a DSP that is gone, and no reference on the devices.    *)
DownRoundCloses ==
    At(Ssr, "down_exit") =>
       session = "closed" /\ \A d \in mDevices : deviceCount[d] <= Others

(* A stream that plays: its writes reach a session that runs.  The first   *)
(* write after a resume completes it.                                      *)
Playing ==
    /\ session = "started" /\ ~Dropping
    /\ currentState = "STARTED" \/ (currentState = "PAUSED" /\ ~isPaused)

(* Once the card is back and that has been handled, a stream whose client  *)
(* was told that it is started plays, and one that was opened is open      *)
(* (ssrUpHandler, the cached state).                                       *)
Recovered ==
    Stable => /\ view = "started" => Playing
              /\ view = "opened"  => currentState = "INIT"

(* A paused stream comes back from an SSR started and PAUSED, so that the  *)
(* client's resume finds it as it left it.                                 *)
PausedComesBack ==
    Stable /\ view = "paused" =>
       currentState = "PAUSED" /\ isPaused /\ session \in {"started", "paused"}

(* While the card stays up, a started stream gets to play or its client    *)
(* does something else with it.                                            *)
Recovers ==
    (view = "started" /\ card = "ONLINE")
       ~> (Playing \/ view # "started" \/ card # "ONLINE")

(* No call and no SSR round hangs: not on mActiveStreamMutex, and not on   *)
(* the other's end.                                                        *)
CallsReturn ==
    /\ \A c \in Client : (call[c] # "none") ~> (call[c] = "none")
    /\ []<>(todo[Ssr] = <<>>)

-----------------------------------------------------------------------------
(* What comments and documentation say, and the code does not do.          *)

(* write(): "If cached state is not STREAM_IDLE, we are still processing   *)
(* SSR up": with no SSR in sight, no write is dropped.                     *)
DropsOnlyInSsr == Calm => \A c \in Client : At(c, "write") => ~Dropping

=============================================================================
