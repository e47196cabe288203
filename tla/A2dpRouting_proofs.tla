------------------------ MODULE A2dpRouting_proofs ------------------------
(* Proofs about A2dpRouting for any number of streams and any routes: first   *)
(* what holds in any interleaving of the threads (RouteAnytime and Overtakes  *)
(* may be TRUE), then, from Orderly on, what one routing thread keeps.        *)
EXTENDS A2dpRouting, FiniteSetTheorems, TLAPS

Users(d) == {s \in Streams : d \in mDevices[s]}

(* Program points at which a thread holds mActiveStreamMutex, and where a     *)
(* device switch comes back to.                                               *)
Holding == {"stop", "plan", "lockAll", "mark", "collect", "unmute"}
Thens == {"done", "forced", "forcedAgain", "restored"}
Points == {"idle", "route", "devices", "stop", "plan", "devSwitch",
           "lockAll", "done", "set", "clear", "a2dpSuspend", "mark",
           "force", "forced", "forcedAgain", "a2dpResume", "collect",
           "restored", "unmute", "openSource", "closeSource"}
Loc == [todo : SUBSET Streams, disc : SUBSET (Streams \X Devices),
        conn : SUBSET (Streams \X Devices), devs : SUBSET Devices, ready : BOOLEAN,
        then : Thens \cup {"idle", "mute"}, status : {"ok", "error", "ENODEV"}]
Bt == [suspended : BOOLEAN, setparam : BOOLEAN, available : BOOLEAN,
       state : {"DISCONNECTED", "CONNECTED", "STARTED", "STOPPED"}, requests : Nat]

Types ==
    /\ currentState \in [Streams -> {"IDLE", "INIT", "STARTED", "STOPPED"}]
    /\ mDevices \in [Streams -> SUBSET Devices]
    /\ suspendedOutDevIds \in [Streams -> SUBSET Devices]
    /\ a2dpMuted \in [Streams -> BOOLEAN]
    /\ deviceCount \in [Devices -> Nat]
    /\ bt \in Bt
    /\ mActiveStreamMutex \in Threads \cup {"none"}
    /\ mStreamMutex \in [Streams -> Threads \cup {"none"}]
    /\ pc \in [Threads -> Points]
    /\ loc \in [Threads -> Loc]
    /\ want \in [Streams -> SUBSET Devices]
    /\ ignored \subseteq Streams /\ stranded \subseteq Streams
    /\ faults \in 0..MaxFaults /\ leaked \in Nat /\ leaked <= faults

(* Who holds the locks; a device switch has locked what it is about to move,  *)
(* and none of it was closed since it looked.                                 *)
Locked ==
    /\ \A t \in Threads : pc[t] \in Holding => mActiveStreamMutex = t
    /\ \A s \in Streams : pc[s] \in {"route", "devices"} => mStreamMutex[s] = s
    /\ \A t \in Threads : pc[t] = "lockAll" =>
          \A x \in loc[t].conn \cup loc[t].disc :
             /\ currentState[x[1]] # "IDLE"
             /\ x[1] \in loc[t].todo \/ mStreamMutex[x[1]] = t

(* Where a thread is, and what its stream or the device object then is.       *)
Placed ==
    /\ \A s \in Streams :
         /\ pc[s] \in {"route", "devices"} => currentState[s] \in {"INIT", "STOPPED"}
         /\ pc[s] = "route" => "spk" \notin mDevices[s]
         /\ pc[s] = "stop" => currentState[s] = "STARTED"
         /\ currentState[s] = "IDLE" => mDevices[s] = {}
    /\ \A t \in Threads :
         /\ pc[t] \in {"devSwitch", "lockAll", "mark", "force", "collect"}
               => loc[t].then \in Thens
         /\ pc[t] = "closeSource" => t = "hal" /\ ~bt.available
         /\ pc[t] = "openSource" => t = "hal" /\ bt.available

(* The requests of the Bluetooth device are the streams that play on it and   *)
(* those that late failures left, from the connection until the source is     *)
(* closed.                                                                    *)
Connected == bt.available \/ \E t \in BtThreads : pc[t] = "closeSource"
Requests ==
    IF Connected THEN bt.requests = Cardinality(Players) + leaked
                 ELSE bt.state = "DISCONNECTED" /\ bt.requests = 0 /\ leaked = 0

(* The speaker is open as often as streams have it, at every step; the A2DP   *)
(* device may have been closed twice.                                         *)
Opens ==
    /\ deviceCount["spk"] = Cardinality(Users("spk"))
    /\ deviceCount["a2dp"] <= Cardinality(Users("a2dp"))

Inv == Types /\ Locked /\ Placed /\ Requests /\ Opens

-----------------------------------------------------------------------------
(* Counting.                                                                  *)

(* Sets of streams are finite.                                                *)
LEMMA StreamSets ==
    ASSUME NEW S \in SUBSET Streams
    PROVE  /\ IsFiniteSet(S) /\ Cardinality(S) \in Nat
           /\ Cardinality(S) <= Cardinality(Streams)
BY RoutingAssumption, FS_Subset, FS_CardinalityType

(* A stream comes to a device.                                                *)
LEMMA OneMore ==
    ASSUME NEW S \in SUBSET Streams, NEW s \in Streams, s \notin S
    PROVE  Cardinality(S \cup {s}) = Cardinality(S) + 1
BY StreamSets, FS_AddElement

(* A stream leaves a device.                                                  *)
LEMMA OneLess ==
    ASSUME NEW S \in SUBSET Streams, NEW s \in S
    PROVE  /\ Cardinality(S \ {s}) = Cardinality(S) - 1
           /\ Cardinality(S) > 0
<1>1. IsFiniteSet(S) /\ Cardinality(S) \in Nat /\ S # {}
    BY StreamSets
<1>2. Cardinality(S) # 0
    BY <1>1, FS_EmptySet
<1>3. Cardinality(S \ {s}) = Cardinality(S) - 1
    BY <1>1, FS_RemoveElement
<1> QED BY <1>1, <1>2, <1>3

(* Some streams leave a device and others come to it.                         *)
LEMMA Swapped ==
    ASSUME NEW S \in SUBSET Streams, NEW G \in SUBSET S, NEW M \in SUBSET Streams,
           M \cap (S \ G) = {}
    PROVE  /\ Cardinality((S \ G) \cup M)
                = (Cardinality(S) - Cardinality(G)) + Cardinality(M)
           /\ Cardinality(G) <= Cardinality(S)
<1>1. IsFiniteSet(S) /\ IsFiniteSet(G) /\ IsFiniteSet(M) /\ IsFiniteSet(S \ G)
    BY StreamSets
<1>2. /\ Cardinality(S) \in Nat /\ Cardinality(G) \in Nat /\ Cardinality(M) \in Nat
      /\ Cardinality(S \ G) \in Nat /\ Cardinality(G) <= Cardinality(S)
    BY <1>1, FS_CardinalityType, FS_Subset
<1>3. Cardinality((S \ G) \cup M) = Cardinality(S \ G) + Cardinality(M)
    BY <1>1, <1>2, FS_Union, FS_EmptySet
<1>4. Cardinality(S \ G) = Cardinality(S) - Cardinality(S \cap G)
    BY <1>1, FS_Difference
<1>5. S \cap G = G
    OBVIOUS
<1> QED BY <1>2, <1>3, <1>4, <1>5

(* Pairs on one device are as many as their streams.                          *)
LEMMA PairsAreStreams ==
    ASSUME NEW d, NEW P, P \subseteq Streams \X {d}
    PROVE  Cardinality(P) = Cardinality({s \in Streams : <<s, d>> \in P})
<1> DEFINE S == {s \in Streams : <<s, d>> \in P}
           f == [s \in S |-> <<s, d>>]
<1>1. IsFiniteSet(S)
    BY StreamSets
<1>2. f \in Bijection(S, P)
  <2>1. f \in [S -> P]
      OBVIOUS
  <2>2. \A a, b \in S : f[a] = f[b] => a = b
      OBVIOUS
  <2>3. ASSUME NEW x \in P PROVE \E s \in S : f[s] = x
    <3>1. x \in Streams \X {d}
        OBVIOUS
    <3>2. PICK s \in Streams, e \in {d} : x = <<s, e>>
        BY <3>1
    <3> QED BY <3>2
  <2> HIDE DEF f, S
  <2> QED BY <2>1, <2>2, <2>3 DEF Bijection, Injection, Surjection, IsInjective
<1>3. ExistsBijection(S, P)
    BY <1>2 DEF ExistsBijection
<1> QED BY <1>1, <1>3, FS_Bijection

(* A step that moves no stream and leaves the requests alone.                 *)
LEMMA CountsStay ==
    ASSUME Inv, UNCHANGED <<currentState, mDevices, deviceCount, leaked>>,
           Connected' <=> Connected, bt'.requests = bt.requests,
           ~Connected => bt'.state = bt.state
    PROVE  Requests' /\ Opens'
BY DEF Inv, Requests, Opens, Players, Users, Runs

-----------------------------------------------------------------------------
(* The local variables of the calls keep their type: the lists of streams and *)
(* devices as streamDevSwitch, forceDeviceSwitch and a2dpResume change them.  *)
LEMMA Locals ==
    ASSUME NEW l \in Loc, NEW todo \in SUBSET Streams,
           NEW disc \in SUBSET (Streams \X Devices),
           NEW conn \in SUBSET (Streams \X Devices)
    PROVE  /\ [l EXCEPT !.todo = todo] \in Loc
           /\ [l EXCEPT !.disc = disc, !.conn = conn] \in Loc
           /\ [l EXCEPT !.conn = conn, !.disc = disc, !.todo = todo] \in Loc
           /\ [l EXCEPT !.todo = todo, !.conn = conn, !.disc = disc] \in Loc
           /\ [l EXCEPT !.disc = disc, !.conn = conn, !.then = "forcedAgain"] \in Loc
BY DEF Loc, Thens

(* A call begins and ends with none.                                         *)
LEMMA NothingIsLocal == Nothing \in Loc
BY DEF Loc, Nothing

(* What streamDevSwitch returned.                                             *)
LEMMA LocalStatus ==
    ASSUME NEW l \in Loc, NEW st \in {"ok", "error", "ENODEV"}
    PROVE  [l EXCEPT !.status = st] \in Loc
BY DEF Loc

(* What start() on a suspended A2DP device begins with ...                   *)
LEMMA MuteLocals == [Nothing EXCEPT !.then = "mute"] \in Loc
BY DEF Loc, Thens, Nothing

(* ... and switchDevice ...                                                   *)
LEMMA SwitchLocals ==
    ASSUME NEW devs \in SUBSET Devices
    PROVE  [Nothing EXCEPT !.devs = devs] \in Loc
BY DEF Loc, Nothing

(* ... and a2dpResume, which collects the streams to restore ...              *)
LEMMA ResumeLocals ==
    ASSUME NEW todo \in SUBSET Streams
    PROVE  [Nothing EXCEPT !.todo = todo, !.then = "restored"] \in Loc
BY DEF Loc, Thens, Nothing

(* ... and a2dpSuspend, which forces streams to the speaker.                  *)
LEMMA SuspendLocals ==
    ASSUME NEW todo \in SUBSET Streams, NEW disc \in SUBSET (Streams \X Devices),
           NEW conn \in SUBSET (Streams \X Devices)
    PROVE  [Nothing EXCEPT !.todo = todo, !.disc = disc, !.conn = conn,
                           !.then = "forced"] \in Loc
BY DEF Loc, Thens, Nothing

(* The lists of switchDevice.                                                 *)
LEMMA ListLocals ==
    ASSUME NEW disc \in SUBSET (Streams \X Devices),
           NEW conn \in SUBSET (Streams \X Devices), NEW devs \in SUBSET Devices,
           NEW ready \in BOOLEAN
    PROVE  [Nothing EXCEPT !.disc = disc, !.conn = conn, !.devs = devs,
                           !.ready = ready, !.then = "done"] \in Loc
BY DEF Loc, Thens, Nothing

(* A step of one thread that moves no stream and leaves the requests alone.   *)
LEMMA QuietStep ==
    ASSUME Inv, NEW t \in Threads, NEW r \in Loc,
           NEW p \in Points \ {"route", "devices", "stop", "lockAll", "openSource",
                               "closeSource"},
           pc[t] # "closeSource",
           pc' = [pc EXCEPT ![t] = p], loc' = [loc EXCEPT ![t] = r],
           p \in {"devSwitch", "mark", "force", "collect"} => r.then \in Thens,
           \/ UNCHANGED mActiveStreamMutex /\ (p \in Holding => pc[t] \in Holding)
           \/ mActiveStreamMutex = "none" /\ mActiveStreamMutex' = t
           \/ pc[t] \in Holding /\ p \notin Holding /\ mActiveStreamMutex' = "none",
           UNCHANGED <<currentState, mDevices, deviceCount, mStreamMutex, leaked>>,
           bt' \in Bt, bt'.state = bt.state, bt'.requests = bt.requests,
           bt'.available = bt.available,
           suspendedOutDevIds' \in [Streams -> SUBSET Devices],
           a2dpMuted' \in [Streams -> BOOLEAN],
           want' \in [Streams -> SUBSET Devices], ignored' \subseteq Streams,
           stranded' \subseteq Streams, faults' \in 0..MaxFaults, faults' >= faults
    PROVE  Inv'
<1> USE RoutingAssumption DEF Inv
<1>1. Types'
    BY DEF Types
<1>2. Locked'
    BY DEF Types, Locked, Holding, Threads
<1>3. Placed'
    BY DEF Types, Placed, Threads
<1>4. Connected' <=> Connected
    BY DEF Types, Connected, Threads
<1>5. Requests' /\ Opens'
    BY <1>4, CountsStay
<1> QED BY <1>1, <1>2, <1>3, <1>5

-----------------------------------------------------------------------------
(* The steps that move no stream.                                             *)

(* setBTParameter, suspendSet and suspendClear change the flags only.         *)
LEMMA FlagsKeep ==
    ASSUME Inv, NEW t \in BtThreads,
           \/ \E on \in BOOLEAN : setBTParameter(t, on)
           \/ suspendSet(t) \/ suspendClear(t)
    PROVE  Inv'
<1> USE DEF Inv
<1>1. t \in Threads /\ loc[t] \in Loc /\ loc' = [loc EXCEPT ![t] = loc[t]]
    BY DEF Threads, Types, setBTParameter, suspendSet, suspendClear
<1>2. PICK p \in {"idle", "set", "clear", "a2dpSuspend", "a2dpResume"} :
          pc' = [pc EXCEPT ![t] = p]
    BY DEF setBTParameter, suspendSet, suspendClear, Goto
<1>3. pc[t] \in {"idle", "set", "clear"}
    BY DEF setBTParameter, suspendSet, suspendClear
<1>4. /\ bt' \in Bt /\ bt'.state = bt.state /\ bt'.requests = bt.requests
      /\ bt'.available = bt.available
    BY DEF setBTParameter, suspendSet, suspendClear, Types, Bt
<1>5. faults' \in 0..MaxFaults /\ faults' >= faults
    BY RoutingAssumption DEF setBTParameter, suspendSet, suspendClear, Fails, One, Types
<1>6. /\ UNCHANGED <<streamVars, deviceCount, locks, want, ignored, leaked>>
      /\ stranded' \subseteq Streams
    BY DEF setBTParameter, suspendSet, suspendClear, told, Types, Alive
<1>7. /\ p \in Points \ {"route", "devices", "stop", "lockAll", "openSource",
                         "closeSource"}
      /\ p \notin {"devSwitch", "mark", "force", "collect"} /\ p \notin Holding
    BY <1>2 DEF Points, Holding
<1> QED BY <1>1, <1>2, <1>3, <1>4, <1>5, <1>6, <1>7, QuietStep
        DEF Types, streamVars, locks, told

(* The steps of a2dpSuspend and a2dpResume around the device switch: the      *)
(* marks, the mutes and the lists.                                            *)
LEMMA BtCallsKeep ==
    ASSUME Inv, NEW t \in BtThreads,
           \/ a2dpSuspend(t) \/ markedAll(t) \/ forceDeviceSwitch(t)
           \/ forced(t) \/ forcedAgain(t) \/ a2dpResume(t) \/ collectedAll(t)
           \/ restored(t) \/ unmutedAll(t)
           \/ \E s \in Streams : markOne(t, s) \/ collectOne(t, s) \/ unmuteOne(t, s)
    PROVE  Inv'
<1> USE DEF Inv
<1> DEFINE Goes(p, r) ==
        /\ r \in Loc /\ pc' = [pc EXCEPT ![t] = p] /\ loc' = [loc EXCEPT ![t] = r]
        /\ p \in {"idle", "mark", "force", "devSwitch", "collect", "unmute"}
        /\ p \in {"devSwitch", "mark", "force", "collect"} => r.then \in Thens
        /\ \/ UNCHANGED mActiveStreamMutex /\ (p \in Holding => pc[t] \in Holding)
           \/ mActiveStreamMutex = "none" /\ mActiveStreamMutex' = t
           \/ pc[t] \in Holding /\ p \notin Holding /\ mActiveStreamMutex' = "none"
<1>0. t \in Threads /\ loc[t] \in Loc /\ Alive \subseteq Streams
    BY DEF Threads, Types, Alive
<1>1. ASSUME a2dpSuspend(t) PROVE \E p, r : Goes(p, r)
  <2> DEFINE on == {s \in Alive : "a2dp" \in mDevices[s]}
             r == [Nothing EXCEPT !.todo = on, !.disc = on \X {"a2dp"},
                                  !.conn = on \X {"spk"}, !.then = "forced"]
  <2>1. Nothing \in Loc /\ r \in Loc
    <3>1. /\ on \in SUBSET Streams /\ on \X {"a2dp"} \in SUBSET (Streams \X Devices)
          /\ on \X {"spk"} \in SUBSET (Streams \X Devices)
        BY <1>0 DEF Devices
    <3> HIDE DEF on
    <3>2. r \in Loc
        BY <3>1, SuspendLocals
    <3> QED BY <3>2, NothingIsLocal
  <2>2. r.then = "forced"
      BY DEF Nothing
  <2>3. Goes("idle", Nothing) \/ Goes("mark", r)
      BY <1>1, <2>1, <2>2
         DEF a2dpSuspend, LockActive, ActiveFree, Goto, Set, Return, Holding, Thens
  <2> QED BY <2>3
<1>2. ASSUME a2dpResume(t) PROVE \E p, r : Goes(p, r)
  <2> DEFINE r == [Nothing EXCEPT !.todo = Candidates, !.then = "restored"]
  <2>1. Nothing \in Loc /\ r \in Loc
    <3>1. Candidates \in SUBSET Streams
        BY <1>0 DEF Candidates
    <3>2. r \in Loc
        BY <3>1, ResumeLocals
    <3> QED BY <3>2, NothingIsLocal
  <2>2. r.then = "restored"
      BY DEF Nothing
  <2>3. Goes("idle", Nothing) \/ Goes("collect", r)
      BY <1>2, <2>1, <2>2
         DEF a2dpResume, LockActive, ActiveFree, Goto, Set, Return, Holding, Thens
  <2> QED BY <2>3
<1>3. ASSUME markedAll(t) PROVE \E p, r : Goes(p, r)
  <2>1. Goes("force", loc[t])
      BY <1>0, <1>3 DEF markedAll, Types, Unlocked, Goto, Holding, Placed
  <2> QED BY <2>1
<1>4. ASSUME forceDeviceSwitch(t) PROVE \E p, r : Goes(p, r)
  <2> DEFINE disc == {x \in loc[t].disc : x[1] \in Alive}
             conn == {x \in loc[t].conn : x[1] \in Alive}
             r == [loc[t] EXCEPT !.disc = disc, !.conn = conn]
  <2>1. r \in Loc /\ r.then = loc[t].then
    <3>1. disc \in SUBSET (Streams \X Devices) /\ conn \in SUBSET (Streams \X Devices)
        BY <1>0 DEF Loc
    <3> HIDE DEF disc, conn
    <3>2. r.then = loc[t].then
        BY <1>0 DEF Loc
    <3> QED BY <1>0, <3>1, <3>2, Locals
  <2>2. Goes("devSwitch", r)
      BY <1>0, <1>4, <2>1 DEF forceDeviceSwitch, Types, locks, Goto, Set, Holding, Placed
  <2> QED BY <2>2
<1>5. ASSUME forced(t) PROVE \E p, r : Goes(p, r)
  <2> DEFINE shared == {s \in Alive : "spk" \in mDevices[s]} \X {"spk"}
             r == [loc[t] EXCEPT !.disc = loc[t].disc \cup shared,
                                 !.conn = loc[t].conn \cup shared,
                                 !.then = "forcedAgain"]
  <2>1. r \in Loc /\ r.then = "forcedAgain" /\ Nothing \in Loc
    <3>1. /\ loc[t].disc \cup shared \in SUBSET (Streams \X Devices)
          /\ loc[t].conn \cup shared \in SUBSET (Streams \X Devices)
        BY <1>0 DEF Loc, Devices
    <3> HIDE DEF shared
    <3>2. r.then = "forcedAgain"
        BY <1>0 DEF Loc
    <3> QED BY <1>0, <3>1, <3>2, Locals, NothingIsLocal
  <2>2. Goes("idle", Nothing) \/ Goes("devSwitch", r)
      BY <1>0, <1>5, <2>1 DEF forced, Types, locks, Goto, Set, Return, Holding, Thens
  <2> QED BY <2>2
<1>6. ASSUME forcedAgain(t) \/ unmutedAll(t) PROVE \E p, r : Goes(p, r)
  <2>1. Goes("idle", Nothing)
      BY <1>6, NothingIsLocal
         DEF forcedAgain, unmutedAll, locks, Unlocked, Goto, Set, Return, Holding
  <2> QED BY <2>1
<1>7. ASSUME collectedAll(t) PROVE \E p, r : Goes(p, r)
  <2>1. Nothing \in Loc /\ loc[t].then \in Thens
    <3>1. loc[t].then \in Thens
        BY <1>0, <1>7 DEF collectedAll, Placed
    <3> QED BY <3>1, NothingIsLocal
  <2>2. ASSUME Return(t) PROVE Goes("idle", Nothing)
      BY <1>7, <2>1, <2>2 DEF collectedAll, Unlocked, Goto, Set, Return, Holding
  <2>3. ASSUME Goto(t, "devSwitch"), UNCHANGED loc PROVE Goes("devSwitch", loc[t])
      BY <1>0, <1>7, <2>1, <2>3 DEF collectedAll, Types, Unlocked, Goto, Holding
  <2> QED BY <1>7, <2>2, <2>3 DEF collectedAll
<1>8. ASSUME restored(t) PROVE \E p, r : Goes(p, r)
  <2> DEFINE todo == {x[1] : x \in loc[t].conn} \cap Alive
             r == [loc[t] EXCEPT !.todo = todo]
  <2>1. r \in Loc /\ Nothing \in Loc
    <3>1. todo \in SUBSET Streams
        BY <1>0
    <3> HIDE DEF todo
    <3> QED BY <1>0, <3>1, Locals, NothingIsLocal
  <2>2. Goes("idle", Nothing) \/ Goes("unmute", r)
      BY <1>0, <1>8, <2>1
         DEF restored, Types, LockActive, ActiveFree, Goto, Set, Return, Holding
  <2> QED BY <2>2
<1>9. ASSUME NEW s \in Streams, markOne(t, s) \/ collectOne(t, s) \/ unmuteOne(t, s)
      PROVE  \E p, r : Goes(p, r)
  <2> DEFINE todo == loc[t].todo \ {s}
  <2>1. ASSUME markOne(t, s) \/ unmuteOne(t, s) PROVE \E p, r : Goes(p, r)
    <3> DEFINE r == [loc[t] EXCEPT !.todo = todo]
    <3>1. todo \in SUBSET Streams
        BY <1>0 DEF Loc
    <3>2. r \in Loc /\ r.then = loc[t].then
      <4> HIDE DEF todo
      <4>1. r \in Loc
          BY <1>0, <3>1, Locals
      <4>2. r.then = loc[t].then
          BY <1>0 DEF Loc
      <4> QED BY <4>1, <4>2
    <3>3. Goes(pc[t], r)
        BY <1>0, <2>1, <3>2 DEF markOne, unmuteOne, Types, locks, Set, Placed, Holding
    <3> QED BY <3>3
  <2>2. ASSUME collectOne(t, s) PROVE \E p, r : Goes(p, r)
    <3> DEFINE marks == suspendedOutDevIds[s]
               back == IF "a2dp" \in marks THEN {s} ELSE {}
               from == IF Cardinality(marks) = 1 THEN mDevices[s] ELSE {}
               conn == loc[t].conn \cup (back \X {"a2dp"})
               disc == loc[t].disc \cup (back \X from)
               r == [loc[t] EXCEPT !.todo = todo, !.conn = conn, !.disc = disc]
    <3>1. /\ todo \in SUBSET Streams /\ conn \in SUBSET (Streams \X Devices)
          /\ disc \in SUBSET (Streams \X Devices)
        BY <1>0 DEF Loc, Types, Devices
    <3>2. r \in Loc /\ r.then = loc[t].then
      <4> HIDE DEF todo, conn, disc
      <4>1. r \in Loc
          BY <1>0, <3>1, Locals
      <4>2. r.then = loc[t].then
          BY <1>0 DEF Loc
      <4> QED BY <4>1, <4>2
    <3>3. Goes(pc[t], r)
        BY <1>0, <2>2, <3>2 DEF collectOne, Types, locks, Set, Placed, Holding
    <3> QED BY <3>3
  <2> QED BY <1>9, <2>1, <2>2
<1>10. PICK p, r : Goes(p, r)
    BY <1>1, <1>2, <1>3, <1>4, <1>5, <1>6, <1>7, <1>8, <1>9
<1>11. /\ pc[t] # "closeSource"
       /\ UNCHANGED <<currentState, mDevices, deviceCount, bt, mStreamMutex, leaked, faults>>
       /\ UNCHANGED <<want, ignored>> /\ stranded' \subseteq Streams
    BY DEF Types, told, a2dpSuspend, markedAll, forceDeviceSwitch, forced, forcedAgain, a2dpResume,
           collectedAll, restored, unmutedAll, markOne, collectOne, unmuteOne,
           streamVars, locks
<1>13. /\ suspendedOutDevIds' \in [Streams -> SUBSET Devices]
       /\ a2dpMuted' \in [Streams -> BOOLEAN]
  <2>1. CASE UNCHANGED <<suspendedOutDevIds, a2dpMuted>>
      BY <2>1 DEF Types
  <2>2. CASE \E s \in Streams : markOne(t, s) \/ unmuteOne(t, s)
    <3> PICK s \in Streams : markOne(t, s) \/ unmuteOne(t, s)
        BY <2>2
    <3>1. Marked(s) \subseteq Devices
        BY DEF Marked, Devices
    <3>2. suspendedOutDevIds' \in [Streams -> SUBSET Devices]
        BY <3>1 DEF markOne, unmuteOne, Types
    <3>3. a2dpMuted' \in [Streams -> BOOLEAN]
      <4>1. \E b \in BOOLEAN : a2dpMuted' = [a2dpMuted EXCEPT ![s] = b]
          BY Zenon DEF markOne, unmuteOne
      <4> QED BY <4>1 DEF Types
    <3> QED BY <3>2, <3>3
  <2> QED BY <2>1, <2>2
      DEF a2dpSuspend, markedAll, forceDeviceSwitch, forced, forcedAgain, a2dpResume,
          collectedAll, restored, unmutedAll, collectOne, streamVars
<1>12. p \in Points \ {"route", "devices", "stop", "lockAll", "openSource", "closeSource"}
    BY <1>10 DEF Points
<1>14. /\ faults' \in 0..MaxFaults /\ faults' >= faults
       /\ want' \in [Streams -> SUBSET Devices] /\ ignored' \subseteq Streams
       /\ bt' \in Bt
    BY <1>11, RoutingAssumption DEF Types
<1> QED BY <1>0, <1>10, <1>11, <1>12, <1>13, <1>14, QuietStep

(* switchDevice, plan and the end of a device switch.                         *)
LEMMA SwitchCallsKeep ==
    ASSUME Inv, NEW s \in Streams,
           (\E ds \in Routes : switchDevice(s, ds)) \/ plan(s) \/ switchDone(s)
    PROVE  Inv'
<1> USE DEF Inv
<1> DEFINE Goes(p, r) ==
        /\ r \in Loc /\ pc' = [pc EXCEPT ![s] = p] /\ loc' = [loc EXCEPT ![s] = r]
        /\ p \in {"idle", "plan", "devSwitch"}
        /\ p = "devSwitch" => r.then \in Thens
        /\ \/ UNCHANGED mActiveStreamMutex /\ p \notin Holding
           \/ mActiveStreamMutex = "none" /\ mActiveStreamMutex' = s
           \/ pc[s] \in Holding /\ p \notin Holding /\ mActiveStreamMutex' = "none"
<1>0. s \in Threads /\ loc[s] \in Loc /\ Alive \subseteq Streams
    BY DEF Threads, Types, Alive
<1>1. ASSUME NEW ds \in Routes, switchDevice(s, ds) PROVE \E p, r : Goes(p, r)
  <2>1. [Nothing EXCEPT !.devs = ds] \in Loc
      BY RoutingAssumption, SwitchLocals
  <2>2. Goes("plan", [Nothing EXCEPT !.devs = ds])
      BY <1>1, <2>1 DEF switchDevice, LockActive, ActiveFree, Goto, Set, Holding
  <2> QED BY <2>2
<1>2. ASSUME switchDone(s) PROVE \E p, r : Goes(p, r)
  <2>1. Goes("idle", Nothing)
      BY <1>2, NothingIsLocal DEF switchDone, locks, Goto, Set, Return, Holding
  <2> QED BY <2>1
<1>3. ASSUME plan(s) PROVE \E p, r : Goes(p, r)
  <2> DEFINE ds == loc[s].devs
             ready == {d \in ds : isDeviceReady(d)}
  <2>1. \/ Return(s)
        \/ /\ Goto(s, "devSwitch")
           /\ \E again \in SUBSET ready : Set(s, Lists(s, ds, ready, again))
      BY <1>3 DEF plan
  <2>2. ASSUME NEW again \in SUBSET ready
        PROVE  Lists(s, ds, ready, again) \in Loc
                 /\ Lists(s, ds, ready, again).then = "done"
    <3> DEFINE others == {x \in Alive \X again : x[2] \in mDevices[x[1]]}
               disc == ({s} \X (mDevices[s] \ ds)) \cup others
               conn == ({s} \X ready) \cup others
    <3>1. ds \in SUBSET Devices
        BY <1>0 DEF Loc
    <3>2. ready \in SUBSET Devices /\ again \in SUBSET Devices
        BY <3>1
    <3>3. others \in SUBSET (Streams \X Devices)
        BY <1>0, <3>2
    <3>4. disc \in SUBSET (Streams \X Devices) /\ conn \in SUBSET (Streams \X Devices)
      <4> HIDE DEF others, ready
      <4> QED BY <3>2, <3>3 DEF Types
    <3>5. isDeviceReady("a2dp") \in BOOLEAN
        BY DEF isDeviceReady
    <3>6. Lists(s, ds, ready, again)
            = [Nothing EXCEPT !.disc = disc, !.conn = conn, !.devs = ds,
                              !.ready = isDeviceReady("a2dp"), !.then = "done"]
        BY DEF Lists
    <3> HIDE DEF disc, conn, ready, ds
    <3>7. Lists(s, ds, ready, again) \in Loc
      <4>1. [Nothing EXCEPT !.disc = disc, !.conn = conn, !.devs = ds,
                            !.ready = isDeviceReady("a2dp"), !.then = "done"] \in Loc
          BY <3>1, <3>4, <3>5, ListLocals, Zenon
      <4> QED BY <3>6, <4>1
    <3>8. Lists(s, ds, ready, again).then = "done"
        BY <3>6 DEF Nothing
    <3> QED BY <3>7, <3>8
  <2>3. pc[s] \in Holding /\ mActiveStreamMutex' = "none"
      BY <1>3 DEF plan, Unlocked, Holding
  <2> HIDE DEF ds, ready
  <2>4. ASSUME Return(s) PROVE Goes("idle", Nothing)
      BY <2>3, <2>4, NothingIsLocal DEF Return, Goto, Set, Holding
  <2>5. ASSUME NEW again \in SUBSET ready, Goto(s, "devSwitch"),
               Set(s, Lists(s, ds, ready, again))
        PROVE  Goes("devSwitch", Lists(s, ds, ready, again))
      BY <2>2, <2>3, <2>5 DEF Goto, Set, Holding, Thens
  <2> HIDE DEF Goes
  <2> QED BY <2>1, <2>4, <2>5
<1>4. PICK p, r : Goes(p, r)
    BY <1>1, <1>2, <1>3
<1>5. /\ pc[s] # "closeSource"
      /\ UNCHANGED <<currentState, mDevices, deviceCount, bt, mStreamMutex, leaked, faults>>
    BY DEF switchDevice, plan, switchDone, streamVars, locks
<1>6. suspendedOutDevIds' \in [Streams -> SUBSET Devices]
  <2>1. CASE \E ds \in Routes : switchDevice(s, ds)
      BY <2>1 DEF switchDevice, streamVars, Types
  <2>2. CASE plan(s)
      BY <2>2 DEF plan, Types, Devices
  <2>3. CASE switchDone(s)
      BY <2>3 DEF switchDone, Types, Devices
  <2> QED BY <2>1, <2>2, <2>3
<1>7. a2dpMuted' \in [Streams -> BOOLEAN]
    BY DEF switchDevice, plan, switchDone, streamVars, Types
<1>8. /\ want' \in [Streams -> SUBSET Devices]
      /\ ignored' \subseteq Streams /\ stranded' \subseteq Streams
  <2>1. CASE \E ds \in Routes : switchDevice(s, ds)
      BY <2>1, RoutingAssumption DEF switchDevice, Types
  <2>2. CASE plan(s)
      BY <2>2 DEF plan, Types
  <2>3. CASE switchDone(s)
      BY <2>3 DEF switchDone, told, Types
  <2> QED BY <2>1, <2>2, <2>3
<1>9. p \in Points \ {"route", "devices", "stop", "lockAll", "openSource", "closeSource"}
    BY <1>4 DEF Points
<1>10. faults' \in 0..MaxFaults /\ faults' >= faults /\ bt' \in Bt
    BY <1>5, RoutingAssumption DEF Types
<1> QED BY <1>0, <1>4, <1>5, <1>6, <1>7, <1>8, <1>9, <1>10, QuietStep

-----------------------------------------------------------------------------
(* The steps of the client's calls that take or release a lock.               *)

(* A start that meets no suspension takes mStreamMutex.                       *)
LEMMA startReadyKeeps ==
    ASSUME Inv, NEW s \in Streams, startReady(s)
    PROVE  Inv'
<1> USE RoutingAssumption DEF Inv, startReady, Goto, StreamFree, streamVars, told, Threads
<1>1. Types'
    BY DEF Types, Points
<1>2. Locked'
    BY DEF CanBegin, Types, Locked, Holding
<1>3. Placed'
    BY DEF CanBegin, Types, Placed, Thens
<1>4. Requests' /\ Opens'
  <2>1. Connected' <=> Connected
      BY DEF CanBegin, Connected, Types
  <2> QED BY <2>1, CountsStay
<1> QED BY <1>1, <1>2, <1>3, <1>4

(* stop() takes mActiveStreamMutex first.                                     *)
LEMMA stopLockKeeps ==
    ASSUME Inv, NEW s \in Streams, stopLock(s)
    PROVE  Inv'
<1> USE RoutingAssumption
    DEF Inv, stopLock, Goto, LockActive, ActiveFree, streamVars, told, Threads
<1>1. Types'
    BY DEF Types, Points
<1>2. Locked'
    BY DEF Types, Locked, Holding
<1>3. Placed'
    BY DEF Types, Placed, Thens
<1>4. Requests' /\ Opens'
  <2>1. Connected' <=> Connected
      BY DEF Connected, Types
  <2> QED BY <2>1, CountsStay
<1> QED BY <1>1, <1>2, <1>3, <1>4

(* A device switch locks one more of its streams.                             *)
LEMMA lockOneKeeps ==
    ASSUME Inv, NEW t \in Threads, NEW s \in Streams, lockOne(t, s)
    PROVE  Inv'
<1> DEFINE r == [loc[t] EXCEPT !.todo = loc[t].todo \ {s}]
<1> USE DEF Inv
<1>1. /\ pc[t] = "lockAll" /\ mStreamMutex[s] = "none"
      /\ mStreamMutex' = [mStreamMutex EXCEPT ![s] = t]
      /\ UNCHANGED <<streamVars, deviceCount, bt, mActiveStreamMutex, pc, told, leaked, faults>>
    BY DEF lockOne, StreamFree
<1>2. loc[t] \in Loc /\ loc[t].todo \ {s} \in SUBSET Streams
    BY DEF Types, Loc
<1>3. r \in Loc
    BY <1>2, Locals
<1>4. loc' = [loc EXCEPT ![t] = r]
    BY DEF lockOne, Set, Types
<1>5. r.conn = loc[t].conn /\ r.disc = loc[t].disc /\ r.then = loc[t].then
    BY <1>2 DEF Loc
<1>6. r.todo = loc[t].todo \ {s}
    BY <1>2 DEF Loc
<1> HIDE DEF r
<1> USE DEF streamVars, told
<1>7. Types'
    BY <1>1, <1>3, <1>4 DEF Types
<1>8. Locked'
    BY RoutingAssumption, <1>1, <1>4, <1>5, <1>6 DEF Types, Locked, Threads
<1>9. Placed'
    BY <1>1, <1>4, <1>5 DEF Types, Placed
<1>10. Requests' /\ Opens'
  <2>1. Connected' <=> Connected
      BY <1>1 DEF Connected
  <2> QED BY <1>1, <2>1, CountsStay
<1> QED BY <1>7, <1>8, <1>9, <1>10

(* streamDevSwitch gives up, or takes mActiveStreamMutex and goes through the *)
(* streams of its lists that are still open.                                  *)
LEMMA devSwitchLockKeeps ==
    ASSUME Inv, NEW t \in Threads, devSwitchLock(t)
    PROVE  Inv'
<1> USE DEF Inv
<1> DEFINE conn == {x \in loc[t].conn : x[1] \in Alive}
           disc == {x \in loc[t].disc : x[1] \in Alive}
           todo == {x[1] : x \in conn \cup disc}
           r == [loc[t] EXCEPT !.conn = conn, !.disc = disc, !.todo = todo]
           e == [loc[t] EXCEPT !.status = "ENODEV"]
<1>1. /\ pc[t] = "devSwitch" /\ mActiveStreamMutex = "none"
      /\ UNCHANGED <<streamVars, deviceCount, bt, mStreamMutex, told, leaked, faults>>
    BY DEF devSwitchLock, ActiveFree
<1>2. loc[t] \in Loc /\ loc[t].then \in Thens
    BY <1>1 DEF Types, Placed
<1>3. \/ /\ pc' = [pc EXCEPT ![t] = loc[t].then] /\ loc' = [loc EXCEPT ![t] = e]
         /\ UNCHANGED mActiveStreamMutex
      \/ /\ pc' = [pc EXCEPT ![t] = "lockAll"] /\ loc' = [loc EXCEPT ![t] = r]
         /\ mActiveStreamMutex' = t
    BY DEF devSwitchLock, LockActive, Goto, Set
<1>4. /\ conn \in SUBSET (Streams \X Devices) /\ disc \in SUBSET (Streams \X Devices)
      /\ todo \in SUBSET Streams
    BY <1>2 DEF Loc, Alive
<1>5. /\ \A x \in conn \cup disc : currentState[x[1]] # "IDLE" /\ x[1] \in todo
    BY DEF Alive
<1> HIDE DEF conn, disc, todo
<1>6. e \in Loc
    BY <1>2, LocalStatus
<1>7. r \in Loc
    BY <1>2, <1>4, Locals
<1>8. /\ r.conn = conn /\ r.disc = disc /\ r.todo = todo /\ r.then = loc[t].then
    BY <1>2 DEF Loc
<1> HIDE DEF r, e
<1>9. CASE UNCHANGED mActiveStreamMutex /\ pc' = [pc EXCEPT ![t] = loc[t].then]
             /\ loc' = [loc EXCEPT ![t] = e]
  <2>1. PICK p \in Thens : p = loc[t].then
      BY <1>2
  <2>2. p \in Points \ {"route", "devices", "stop", "lockAll", "openSource",
                        "closeSource"}
          /\ p \notin {"devSwitch", "mark", "force", "collect"} /\ p \notin Holding
      BY DEF Thens, Points, Holding
  <2>3. /\ faults' \in 0..MaxFaults /\ faults' >= faults /\ bt' \in Bt
        /\ suspendedOutDevIds' \in [Streams -> SUBSET Devices]
        /\ a2dpMuted' \in [Streams -> BOOLEAN]
        /\ want' \in [Streams -> SUBSET Devices] /\ ignored' \subseteq Streams
        /\ stranded' \subseteq Streams
      BY <1>1, RoutingAssumption DEF Types, streamVars, told
  <2> QED BY <1>1, <1>6, <1>9, <2>1, <2>2, <2>3, QuietStep DEF streamVars
<1>10. CASE /\ pc' = [pc EXCEPT ![t] = "lockAll"] /\ loc' = [loc EXCEPT ![t] = r]
            /\ mActiveStreamMutex' = t
  <2> USE DEF streamVars, told
  <2>1. Types'
      BY <1>1, <1>7, <1>10 DEF Types, Points
  <2>2. Locked'
    <3>1. \A q \in Threads : pc'[q] \in Holding => mActiveStreamMutex' = q
        BY RoutingAssumption, <1>1, <1>10 DEF Types, Locked, Holding, Threads
    <3>2. \A q \in Streams : pc'[q] \in {"route", "devices"} => mStreamMutex'[q] = q
        BY <1>1, <1>10 DEF Types, Locked, Threads
    <3>3. \A q \in Threads : pc'[q] = "lockAll" =>
             \A x \in loc'[q].conn \cup loc'[q].disc :
                /\ currentState'[x[1]] # "IDLE"
                /\ x[1] \in loc'[q].todo \/ mStreamMutex'[x[1]] = q
        BY <1>1, <1>5, <1>8, <1>10 DEF Types, Locked
    <3> QED BY <3>1, <3>2, <3>3 DEF Locked
  <2>3. Placed'
      BY <1>1, <1>2, <1>8, <1>10 DEF Types, Placed, Threads
  <2>4. Requests' /\ Opens'
    <3>1. Connected' <=> Connected
        BY <1>1, <1>10 DEF Connected, Types, Threads
    <3> QED BY <1>1, <3>1, CountsStay
  <2> QED BY <2>1, <2>2, <2>3, <2>4
<1> QED BY <1>3, <1>9, <1>10

-----------------------------------------------------------------------------
(* DEVICE_CONNECTION.                                                         *)

(* While the device is away nothing is requested of it; it comes back when no *)
(* stream has it.                                                             *)
LEMMA deviceConnectionKeeps ==
    ASSUME Inv, NEW t \in BtThreads, NEW on \in BOOLEAN, deviceConnection(t, on)
    PROVE  Inv'
<1> USE RoutingAssumption DEF Inv, deviceConnection, Goto, locks, streamVars, told, Threads
<1>1. Types'
    BY DEF Types, Points, Bt
<1>2. Locked'
    BY DEF Types, Locked, Holding
<1>3. Placed'
    BY DEF Types, Placed, Thens, Bt
<1>4. Requests'
  <2>1. bt'.requests = bt.requests /\ bt'.state = bt.state /\ bt'.available = on
      BY DEF Types, Bt
  <2>2. Players' = Players
      BY DEF Players, Runs
  <2>3. CASE on
    <3>1. ~Connected
        BY <2>3 DEF Connected, Placed
    <3>2. Players = {}
        BY <2>3 DEF Players, Unused
    <3> QED BY <2>1, <2>2, <2>3, <3>1, <3>2, FS_EmptySet DEF Requests, Connected
  <2>4. CASE ~on
    <3>1. Connected
        BY <2>4 DEF Connected, Types, Bt
    <3>2. Connected'
        BY <2>4 DEF Connected, Types
    <3> QED BY <2>1, <2>2, <3>1, <3>2 DEF Requests
  <2> QED BY <2>3, <2>4
<1>5. Opens'
    BY DEF Opens, Users
<1> QED BY <1>1, <1>2, <1>3, <1>4, <1>5

(* open_a2dp_source.                                                          *)
LEMMA openSourceKeeps ==
    ASSUME Inv, NEW t \in BtThreads, open_a2dp_source(t)
    PROVE  Inv'
<1> USE RoutingAssumption DEF Inv, open_a2dp_source, Goto, locks, streamVars, told, Threads
<1>1. Types'
    BY DEF Types, Points, Bt
<1>2. Locked'
    BY DEF Types, Locked, Holding
<1>3. Placed'
    BY DEF Types, Placed, Thens, Bt
<1>4. Requests' /\ Opens'
  <2>1. bt'.requests = bt.requests /\ bt'.available = bt.available /\ bt.available
      BY DEF Types, Bt, Placed
  <2>2. Connected' /\ Connected
      BY <2>1 DEF Connected
  <2> QED BY <2>1, <2>2, CountsStay
<1> QED BY <1>1, <1>2, <1>3, <1>4

(* close_audio_source forgets all requests.                                   *)
LEMMA closeSourceKeeps ==
    ASSUME Inv, NEW t \in BtThreads, close_audio_source(t)
    PROVE  Inv'
<1> USE RoutingAssumption
    DEF Inv, close_audio_source, Goto, locks, streamVars, told, Threads
<1>1. Types'
  <2>1. leaked' \in Nat /\ leaked' <= faults'
      BY DEF Types
  <2>2. bt' \in Bt
      BY DEF Types, Bt
  <2> QED BY <2>1, <2>2 DEF Types, Points
<1>2. Locked'
    BY DEF Types, Locked, Holding
<1>3. Placed'
    BY DEF Types, Placed, Thens, Bt
<1>4. Requests'
  <2>1. ~Connected'
      BY DEF Connected, Placed, Types, Bt
  <2> QED BY <2>1 DEF Requests, Types, Bt
<1>5. Opens'
    BY DEF Opens, Users
<1> QED BY <1>1, <1>2, <1>3, <1>4, <1>5

-----------------------------------------------------------------------------
(* The steps that move streams between devices.                               *)

(* open() takes the devices of a new stream; it does not play yet.            *)
LEMMA openKeeps ==
    ASSUME Inv, NEW s \in Streams, NEW ds \in Routes, open(s, ds)
    PROVE  Inv'
<1> USE RoutingAssumption DEF Inv, open, locks, ActiveFree, Threads
<1>0. ds \subseteq Devices /\ mDevices[s] = {} /\ currentState[s] = "IDLE"
    BY DEF Placed
<1>1. Types'
    BY <1>0 DEF Types
<1>2. Locked'
    BY DEF Types, Locked, Holding
<1>3. Placed'
    BY DEF Types, Placed
<1>4. Requests'
  <2>1. Players' = Players
      BY <1>0 DEF Types, Players, Runs
  <2> QED BY <2>1 DEF Requests, Connected
<1>5. \A d \in Devices : Users(d)' = IF d \in ds THEN Users(d) \cup {s} ELSE Users(d)
    BY <1>0 DEF Types, Users
<1>6. \A d \in Devices : Users(d) \subseteq Streams /\ s \notin Users(d)
    BY <1>0 DEF Users
<1>7. \A d \in Devices :
         /\ Cardinality(Users(d)) \in Nat
         /\ Cardinality(Users(d)') = Cardinality(Users(d)) + (IF d \in ds THEN 1 ELSE 0)
    BY <1>5, <1>6, OneMore, StreamSets
<1>8. Opens'
    BY <1>7 DEF Types, Opens, Devices
<1> QED BY <1>1, <1>2, <1>3, <1>4, <1>8

(* close() of a stream that does not play gives its devices back.             *)
LEMMA closeKeeps ==
    ASSUME Inv, NEW s \in Streams, close(s)
    PROVE  Inv'
<1> USE RoutingAssumption DEF Inv, close, locks, ActiveFree, Threads
<1>1. Types'
    BY DEF Types, closed, Devices
<1>2. Locked'
    BY DEF Types, Locked, Holding
<1>3. Placed'
    BY DEF Types, Placed
<1>4. Requests'
  <2>1. Players' = Players
      BY DEF Types, Players, Runs
  <2> QED BY <2>1 DEF Requests, Connected
<1>5. \A d \in Devices : Users(d)' = Users(d) \ {s}
    BY DEF Types, Users
<1>6. \A d \in Devices :
         Users(d) \subseteq Streams /\ (s \in Users(d) <=> d \in mDevices[s])
    BY DEF Users
<1>7. \A d \in Devices :
         /\ Cardinality(Users(d)) \in Nat
         /\ Cardinality(Users(d)') =
               Cardinality(Users(d)) - (IF d \in mDevices[s] THEN 1 ELSE 0)
         /\ d \in mDevices[s] => Cardinality(Users(d)) > 0
  <2> SUFFICES ASSUME NEW d \in Devices
               PROVE  /\ Cardinality(Users(d)) \in Nat
                      /\ Cardinality(Users(d)') =
                            Cardinality(Users(d)) - (IF d \in mDevices[s] THEN 1 ELSE 0)
                      /\ d \in mDevices[s] => Cardinality(Users(d)) > 0
      OBVIOUS
  <2>1. Users(d) \in SUBSET Streams /\ Cardinality(Users(d)) \in Nat
      BY <1>6, StreamSets
  <2>2. CASE d \in mDevices[s]
      BY <1>5, <1>6, <2>1, <2>2, OneLess
  <2>3. CASE d \notin mDevices[s]
    <3>1. Users(d) \ {s} = Users(d)
        BY <1>6, <2>3
    <3>2. Users(d)' = Users(d)
        BY <1>5, <3>1
    <3> QED BY <2>1, <2>3, <3>2
  <2> QED BY <2>2, <2>3
<1>8. Opens'
    BY <1>7 DEF Types, Opens, Devices, closed
<1> QED BY <1>1, <1>2, <1>3, <1>4, <1>8

(* A start on A2DP and the speaker that meets the suspension drops A2DP.      *)
LEMMA startComboKeeps ==
    ASSUME Inv, NEW s \in Streams, startCombo(s)
    PROVE  Inv'
<1> USE RoutingAssumption
    DEF Inv, startCombo, CanBegin, Suspended, Goto, StreamFree, told, Threads
<1>1. Types'
    BY DEF Types, closed, Devices, Points
<1>2. Locked'
    BY DEF Types, Locked, Holding
<1>3. Placed'
    BY DEF Types, Placed, Thens
<1>4. Requests'
  <2>1. Players' = Players
      BY DEF Types, Players, Runs
  <2>2. Connected' <=> Connected
      BY DEF Types, Connected
  <2> QED BY <2>1, <2>2 DEF Requests
<1>5. Opens'
  <2>1. Users("spk")' = Users("spk") /\ Users("a2dp")' = Users("a2dp") \ {s}
      BY DEF Types, Users
  <2>2. Users("a2dp") \in SUBSET Streams /\ s \in Users("a2dp")
      BY DEF Users
  <2>3. /\ Cardinality(Users("a2dp")') = Cardinality(Users("a2dp")) - 1
        /\ Cardinality(Users("a2dp")) > 0 /\ Cardinality(Users("a2dp")) \in Nat
      BY <2>1, <2>2, OneLess, StreamSets
  <2> QED BY <2>1, <2>3 DEF Types, Opens, Devices, closed
<1> QED BY <1>1, <1>2, <1>3, <1>4, <1>5

(* A start on A2DP alone closes the device and keeps it in mDevices.          *)
LEMMA startAloneKeeps ==
    ASSUME Inv, NEW s \in Streams, startAlone(s)
    PROVE  Inv'
<1> USE RoutingAssumption
    DEF Inv, startAlone, CanBegin, Suspended, Goto, StreamFree, told, Threads
<1>1. Types'
    BY DEF Types, closed, Devices, Points
<1>2. Locked'
    BY DEF Types, Locked, Holding
<1>3. Placed'
    BY DEF Types, Placed, Thens
<1>4. Requests'
  <2>1. Players' = Players
      BY DEF Players, Runs
  <2>2. Connected' <=> Connected
      BY DEF Types, Connected
  <2> QED BY <2>1, <2>2 DEF Requests
<1>5. Opens'
  <2>1. Users("spk")' = Users("spk") /\ Users("a2dp")' = Users("a2dp")
      BY DEF Users
  <2>2. Users("a2dp") \in SUBSET Streams
      BY DEF Users
  <2>3. Cardinality(Users("a2dp")) \in Nat
      BY <2>2, StreamSets
  <2> QED BY <2>1, <2>3 DEF Types, Opens, Devices, closed
<1> QED BY <1>1, <1>2, <1>3, <1>4, <1>5

(* ... and is routed to the speaker, which it did not have.                   *)
LEMMA startRouteKeeps ==
    ASSUME Inv, NEW s \in Streams, startRoute(s)
    PROVE  Inv'
<1> DEFINE r == [Nothing EXCEPT !.then = "mute"]
<1> USE RoutingAssumption DEF Inv, startRoute, Goto, Set, locks, told, Threads
<1>0. r \in Loc
    BY MuteLocals
<1>1. Types'
  <2> HIDE DEF r
  <2>1. loc' \in [Threads -> Loc]
      BY <1>0 DEF Types, r
  <2> QED BY <2>1 DEF Types, Devices, Points
<1>2. Locked'
    BY DEF Types, Locked, Holding
<1>3. Placed'
    BY DEF Types, Placed, Thens
<1>4. Requests'
  <2>1. Players' = Players
      BY DEF Types, Players, Runs, Placed
  <2>2. Connected' <=> Connected
      BY DEF Types, Connected
  <2> QED BY <2>1, <2>2 DEF Requests
<1>5. Opens'
  <2>1. /\ Users("spk")' = Users("spk") \cup {s} /\ Users("a2dp")' = Users("a2dp")
        /\ s \notin Users("spk")
      BY DEF Types, Users, Placed
  <2>2. Users("spk") \in SUBSET Streams
      BY DEF Users
  <2>3. /\ Cardinality(Users("spk")') = Cardinality(Users("spk")) + 1
      BY <2>1, <2>2, OneMore
  <2> QED BY <2>1, <2>3 DEF Types, Opens, Devices
<1> QED BY <1>1, <1>2, <1>3, <1>4, <1>5

(* The devices of a stream start; the A2DP device that does not is closed and *)
(* leaves mDevices, one that does has one request more; a late failure leaves *)
(* its request, and a session that fails takes the other back.                *)
LEMMA startDevicesKeeps ==
    ASSUME Inv, NEW s \in Streams, startDevices(s)
    PROVE  Inv'
<1> USE DEF Inv
<1>1. PICK bad \in {"no", "early", "late"}, lost \in BOOLEAN :
        LET first == bt.state # "STARTED" /\ bt.requests = 0
            plays == "a2dp" \in mDevices[s] /\ MayStart(bt) /\ bad = "no"
            on == mDevices[s] \ (IF plays THEN {} ELSE {"a2dp"})
            counted == IF plays \/ bad = "late" THEN startPlayback(bt) ELSE bt
            plain == on # {} /\ ~lost
            mutes == loc[s].then = "mute"
        IN  /\ pc[s] = "devices"
            /\ bad # "no" => "a2dp" \in mDevices[s] /\ MayStart(bt)
            /\ bad = "early" => first
            /\ bad = "late" => Players = {}
            /\ lost => on # {}
            /\ Fails(One(bad # "no") + One(lost))
            /\ bt' = IF lost THEN stopOn(counted, on) ELSE counted
            /\ leaked' = leaked + One(bad = "late")
            /\ deviceCount' = [deviceCount EXCEPT
                   !["a2dp"] = IF on = mDevices[s] THEN @ ELSE closed(@)]
            /\ mDevices' = [mDevices EXCEPT ![s] = on]
            /\ currentState' = [currentState EXCEPT ![s] = IF plain THEN "STARTED" ELSE @]
            /\ a2dpMuted' = [a2dpMuted EXCEPT ![s] = @ \/ (plain /\ mutes)]
            /\ ignored' = IF lost /\ mutes THEN ignored \cup {s} ELSE ignored
            /\ mStreamMutex' = [mStreamMutex EXCEPT ![s] = "none"]
            /\ Return(s)
            /\ UNCHANGED <<suspendedOutDevIds, mActiveStreamMutex, want, stranded>>
    BY Zenon DEF startDevices
<1>2. /\ pc[s] = "devices" /\ mStreamMutex' = [mStreamMutex EXCEPT ![s] = "none"]
      /\ pc' = [pc EXCEPT ![s] = "idle"] /\ loc' = [loc EXCEPT ![s] = Nothing]
      /\ UNCHANGED <<suspendedOutDevIds, mActiveStreamMutex, want, stranded>>
    BY DEF startDevices, Return, Goto, Set
<1> DEFINE plays == "a2dp" \in mDevices[s] /\ MayStart(bt) /\ bad = "no"
           on == mDevices[s] \ (IF plays THEN {} ELSE {"a2dp"})
           counted == IF plays \/ bad = "late" THEN startPlayback(bt) ELSE bt
           plain == on # {} /\ ~lost
           n == IF plays \/ bad = "late" THEN 1 ELSE 0
           out == plays /\ lost
<1>3. /\ on \subseteq mDevices[s] /\ ("a2dp" \in on <=> plays)
      /\ ("spk" \in on <=> "spk" \in mDevices[s])
      /\ (on = mDevices[s] <=> (plays \/ "a2dp" \notin mDevices[s]))
    OBVIOUS
<1>4. /\ mDevices' = [mDevices EXCEPT ![s] = on]
      /\ currentState' = [currentState EXCEPT ![s] = IF plain THEN "STARTED" ELSE @]
      /\ bt' = IF lost THEN stopOn(counted, on) ELSE counted
      /\ deviceCount' = [deviceCount EXCEPT
             !["a2dp"] = IF on = mDevices[s] THEN @ ELSE closed(@)]
      /\ leaked' = leaked + One(bad = "late")
      /\ ~(plays /\ bad = "late")
    BY <1>1
<1>5. /\ plays \/ bad = "late" => Connected
      /\ s \in Threads /\ currentState[s] \in {"INIT", "STOPPED"}
  <2>1. plays \/ bad = "late" => MayStart(bt)
      BY <1>1
  <2>2. MayStart(bt) => Connected
      BY DEF Requests, MayStart, Connected
  <2>3. currentState[s] \in {"INIT", "STOPPED"}
      BY <1>2 DEF Placed
  <2> QED BY <2>1, <2>2, <2>3 DEF Threads
<1>6. /\ faults' \in 0..MaxFaults /\ leaked' \in Nat /\ leaked' <= faults'
      /\ leaked' = leaked + (IF bad = "late" THEN 1 ELSE 0)
    BY <1>1, RoutingAssumption DEF Fails, One, Types
<1>7. a2dpMuted' \in [Streams -> BOOLEAN] /\ ignored' \subseteq Streams
  <2>1. \E b \in BOOLEAN : a2dpMuted' = [a2dpMuted EXCEPT ![s] = b]
      BY <1>1, Zenon
  <2>2. ignored' \subseteq Streams
      BY <1>1 DEF Types
  <2> QED BY <2>1, <2>2 DEF Types
<1>o. lost => (bt' = IF plays THEN stopPlayback(counted) ELSE counted)
    BY <1>3, <1>4 DEF stopOn
<1>l. ~lost => bt' = counted
    BY <1>4
<1>c. /\ counted \in Bt /\ counted.available = bt.available
      /\ counted.requests = bt.requests + n
      /\ n = 0 => counted.state = bt.state
  <2>1. CASE n = 0
      BY <2>1 DEF Types, Bt
  <2>2. CASE n = 1
    <3>0. PICK k \in Nat : k = bt.requests + 1
        BY DEF Types, Bt
    <3>1. counted = [bt EXCEPT !.requests = k, !.state = "STARTED"]
        BY <2>2, <3>0 DEF startPlayback, Types, Bt
    <3>2. counted \in Bt
        BY <3>1 DEF Types, Bt
    <3>3. counted.available = bt.available /\ counted.requests = bt.requests + 1
        BY <3>0, <3>1 DEF Types, Bt
    <3> QED BY <2>2, <3>2, <3>3
  <2> QED BY <2>1, <2>2
<1> HIDE DEF on, counted
<1>8. /\ bt' \in Bt /\ bt'.available = bt.available
      /\ bt'.requests = IF out THEN bt.requests ELSE bt.requests + n
      /\ n = 0 => bt'.state = bt.state
  <2>1. CASE ~out
      BY <1>o, <1>l, <1>c, <2>1
  <2>2. CASE out
    <3>1. bt' = stopPlayback(counted) /\ n = 1 /\ counted.requests = bt.requests + 1
        BY <1>o, <1>c, <2>2
    <3>2. PICK k \in Nat : k = bt.requests
        BY DEF Types, Bt
    <3>3. PICK st \in {"DISCONNECTED", "CONNECTED", "STARTED", "STOPPED"} :
             st = IF counted.state = "STARTED" /\ k = 0 THEN "STOPPED" ELSE counted.state
        BY <1>c DEF Bt
    <3>4. bt' = [counted EXCEPT !.requests = k, !.state = st]
      <4>1. counted.requests > 0 /\ counted.requests - 1 = k
          BY <3>1, <3>2
      <4> QED BY <1>c, <3>1, <3>3, <4>1 DEF stopPlayback, Bt
    <3>5. bt' \in Bt
        BY <1>c, <3>4 DEF Bt
    <3>6. bt'.available = counted.available /\ bt'.requests = k
        BY <1>c, <3>4 DEF Bt
    <3> QED BY <1>c, <2>2, <3>1, <3>2, <3>5, <3>6
  <2> QED BY <2>1, <2>2
<1> HIDE DEF plays
<1>9. Types'
  <2>1. loc' \in [Threads -> Loc]
      BY <1>2, <1>5, NothingIsLocal DEF Types
  <2>2. mDevices' \in [Streams -> SUBSET Devices]
      BY <1>3, <1>4 DEF Types
  <2>3. currentState' \in [Streams -> {"IDLE", "INIT", "STARTED", "STOPPED"}]
      BY <1>4 DEF Types
  <2>4. deviceCount' \in [Devices -> Nat]
      BY <1>4 DEF Types, closed, Devices
  <2> QED BY <1>2, <1>5, <1>6, <1>7, <1>8, <2>1, <2>2, <2>3, <2>4 DEF Types, Points
<1>10. Locked'
    BY <1>2, <1>4, <1>5, RoutingAssumption DEF Types, Locked, Holding, Threads
<1>11. Placed'
    BY <1>2, <1>3, <1>4, <1>5, <1>8 DEF Types, Placed, Threads
<1>12. Requests'
  <2>1. Connected' <=> Connected
      BY <1>2, <1>5, <1>8 DEF Connected, Types, Threads
  <2>2. Players' = (IF plays /\ ~lost THEN Players \cup {s} ELSE Players) /\ s \notin Players
    <3>1. \A x \in Streams : x # s => (Runs(x)' <=> Runs(x)) /\ mDevices'[x] = mDevices[x]
        BY <1>4 DEF Runs, Types
    <3>2. s \notin Players
        BY <1>5 DEF Players, Runs
    <3>3. s \in Players' <=> plays /\ ~lost
        BY <1>3, <1>4, <1>5 DEF Players, Runs, Types
    <3> QED BY <3>1, <3>2, <3>3 DEF Players
  <2>3. Players \in SUBSET Streams
      BY DEF Players
  <2>4. /\ Cardinality(Players') = Cardinality(Players) + (IF plays /\ ~lost THEN 1 ELSE 0)
        /\ Cardinality(Players) \in Nat
      BY <2>2, <2>3, OneMore, StreamSets
  <2>5. CASE Connected
      BY <1>4, <1>6, <1>8, <2>1, <2>4, <2>5 DEF Requests, Types, Bt
  <2>6. CASE ~Connected
    <3>1. n = 0 /\ bad # "late" /\ ~plays
        BY <1>5, <2>6
    <3> QED BY <1>6, <1>8, <2>1, <2>6, <3>1 DEF Requests, Types, Bt
  <2> QED BY <2>5, <2>6
<1>13. Opens'
  <2>1. Users("spk")' = Users("spk")
      BY <1>3, <1>4 DEF Types, Users
  <2>2. Users("a2dp")' = IF on = mDevices[s] THEN Users("a2dp") ELSE Users("a2dp") \ {s}
      BY <1>3, <1>4 DEF Types, Users
  <2>3. Users("a2dp") \in SUBSET Streams /\ Cardinality(Users("a2dp")) \in Nat
      BY StreamSets DEF Users
  <2>4. on # mDevices[s] => s \in Users("a2dp")
      BY <1>3 DEF Users
  <2>5. on # mDevices[s] => /\ Cardinality(Users("a2dp")') = Cardinality(Users("a2dp")) - 1
                            /\ Cardinality(Users("a2dp")) > 0
      BY <2>2, <2>3, <2>4, OneLess
  <2> QED BY <1>4, <2>1, <2>2, <2>3, <2>5 DEF Types, Opens, closed, Devices
<1> QED BY <1>9, <1>10, <1>11, <1>12, <1>13

(* stop() takes the request of the stream back.                               *)
LEMMA stopKeeps ==
    ASSUME Inv, NEW s \in Streams, stop(s)
    PROVE  Inv'
<1> USE DEF Inv
<1> DEFINE plays == "a2dp" \in mDevices[s]
<1>1. /\ pc[s] = "stop" /\ mActiveStreamMutex' = "none"
      /\ currentState' = [currentState EXCEPT ![s] = "STOPPED"]
      /\ bt' = IF plays THEN stopPlayback(bt) ELSE bt
      /\ pc' = [pc EXCEPT ![s] = "idle"] /\ loc' = [loc EXCEPT ![s] = Nothing]
      /\ UNCHANGED <<mDevices, suspendedOutDevIds, a2dpMuted, deviceCount, mStreamMutex,
                     told, leaked, faults>>
    BY DEF stop, stopOn, Unlocked, Return, Goto, Set
<1>2. s \in Threads /\ currentState[s] = "STARTED"
    BY <1>1 DEF Placed, Threads
<1>3. /\ bt' \in Bt /\ bt'.available = bt.available
      /\ bt'.requests = IF plays /\ bt.requests > 0 THEN bt.requests - 1 ELSE bt.requests
      /\ bt.state = "DISCONNECTED" => bt'.state = "DISCONNECTED"
  <2>1. CASE ~plays
      BY <1>1, <2>1 DEF Types
  <2>2. CASE plays
    <3>1. PICK n \in Nat : n = IF bt.requests > 0 THEN bt.requests - 1 ELSE 0
        BY DEF Types, Bt
    <3>2. PICK st \in {"DISCONNECTED", "CONNECTED", "STARTED", "STOPPED"} :
             st = IF bt.state = "STARTED" /\ n = 0 THEN "STOPPED" ELSE bt.state
        BY DEF Types, Bt
    <3>3. bt' = [bt EXCEPT !.requests = n, !.state = st]
        BY <1>1, <2>2, <3>1, <3>2 DEF stopPlayback, Types, Bt
    <3>4. bt' \in Bt
        BY <3>3 DEF Types, Bt
    <3>5. bt'.available = bt.available /\ bt'.requests = n /\ bt'.state = st
        BY <3>3 DEF Types, Bt
    <3>6. bt.requests \in Nat
        BY DEF Types, Bt
    <3> QED BY <2>2, <3>1, <3>2, <3>4, <3>5, <3>6
  <2> QED BY <2>1, <2>2
<1>4. Types'
  <2>1. loc' \in [Threads -> Loc]
      BY <1>1, <1>2, NothingIsLocal DEF Types
  <2> QED BY <1>1, <1>2, <1>3, <2>1 DEF Types, told, Points
<1>5. Locked'
    BY <1>1, <1>2, RoutingAssumption DEF Types, Locked, Holding, Threads
<1>6. Placed'
    BY <1>1, <1>2, <1>3 DEF Types, Placed, Threads
<1>7. Requests'
  <2>1. Connected' <=> Connected
      BY <1>1, <1>2, <1>3 DEF Connected, Types, Threads
  <2>2. Players' = Players \ {s} /\ (s \in Players <=> plays) /\ Players \in SUBSET Streams
      BY <1>1, <1>2 DEF Players, Runs, Types
  <2>3. CASE plays
    <3>1. /\ Cardinality(Players') = Cardinality(Players) - 1
          /\ Cardinality(Players) > 0
        BY <2>2, <2>3, OneLess
    <3>2. leaked' = leaked /\ leaked \in Nat /\ Cardinality(Players) \in Nat
        BY <1>1, <2>2, StreamSets DEF Types
    <3> QED BY <1>3, <2>1, <2>3, <3>1, <3>2 DEF Requests
  <2>4. CASE ~plays
    <3>1. Players' = Players
        BY <2>2, <2>4
    <3>2. leaked' = leaked
        BY <1>1
    <3> QED BY <1>3, <2>1, <2>4, <3>1, <3>2 DEF Requests
  <2> QED BY <2>3, <2>4
<1>8. Opens'
    BY <1>1 DEF Opens, Users
<1> QED BY <1>4, <1>5, <1>6, <1>7, <1>8

-----------------------------------------------------------------------------
(* The device switch itself.                                                  *)

(* The pairs of a set that are on device d.                                   *)
On(P, d) == {s \in Streams : <<s, d>> \in P}
OnPlaying(P) == {s \in Streams : <<s, "a2dp">> \in P /\ Runs(s)}

(* What the counts of streamDevSwitch count.                                  *)
LEMMA PairCounts ==
    ASSUME NEW P \in SUBSET (Streams \X Devices)
    PROVE  /\ \A d \in Devices : Cardinality({x \in P : x[2] = d}) = Cardinality(On(P, d))
           /\ Playing(P) = Cardinality(OnPlaying(P))
<1>1. ASSUME NEW d \in Devices
      PROVE  Cardinality({x \in P : x[2] = d}) = Cardinality(On(P, d))
  <2> DEFINE Q == {x \in P : x[2] = d}
  <2>1. Q \subseteq Streams \X {d}
      OBVIOUS
  <2>2. On(P, d) = {s \in Streams : <<s, d>> \in Q}
      BY DEF On
  <2> HIDE DEF Q
  <2>3. Cardinality(Q) = Cardinality({s \in Streams : <<s, d>> \in Q})
      BY <2>1, PairsAreStreams
  <2> QED BY <2>2, <2>3 DEF Q
<1>2. Playing(P) = Cardinality(OnPlaying(P))
  <2> DEFINE Q == {x \in P : x[2] = "a2dp" /\ Runs(x[1])}
  <2>1. Q \subseteq Streams \X {"a2dp"}
      OBVIOUS
  <2>2. OnPlaying(P) = {s \in Streams : <<s, "a2dp">> \in Q}
      BY DEF OnPlaying
  <2>3. Playing(P) = Cardinality(Q)
      BY DEF Playing
  <2> HIDE DEF Q
  <2> QED BY <2>1, <2>2, <2>3, PairsAreStreams
<1> QED BY <1>1, <1>2

(* Every stream that leaves a device was on it, every one that comes was not  *)
(* or left before: the counts follow the streams.                             *)
LEMMA devSwitchKeeps ==
    ASSUME Inv, NEW t \in Threads, devSwitch(t)
    PROVE  Inv'
<1> USE DEF Inv
<1> DEFINE l == loc[t]
           left == Left(l.disc)
           gone == {x \in l.disc : x[2] \in mDevices[x[1]]}
           new == Joined(l.conn, left)
           b1 == [bt EXCEPT !.requests = IF @ > Playing(gone) THEN @ - Playing(gone) ELSE 0,
                            !.state = IF @ = "STARTED" /\ bt.requests <= Playing(gone)
                                         /\ Playing(gone) > 0
                                      THEN "STOPPED" ELSE @]
           unfit == {x \in new : x[2] = "a2dp" /\ Runs(x[1]) /\ ~MayStart(b1)}
<1>0. PICK bad \in SUBSET (new \ unfit), status \in {"ok", "error"} :
        \E late \in SUBSET {x \in bad : x[2] = "a2dp" /\ Runs(x[1])} :
        LET made == new \ (unfit \cup bad)
        IN  /\ Fails(Cardinality(bad))
            /\ leaked' = leaked + Cardinality(late)
            /\ mDevices' = [s \in Streams |->
                   left[s] \cup {d \in Devices : <<s, d>> \in made}]
            /\ deviceCount' = [d \in Devices |->
                   LET out == Cardinality({x \in gone : x[2] = d})
                       in == Cardinality({x \in made : x[2] = d})
                   IN  in + (IF deviceCount[d] > out
                               THEN deviceCount[d] - out ELSE 0)]
            /\ bt' = IF Playing(made) + Cardinality(late) = 0 THEN b1
                     ELSE [b1 EXCEPT !.requests = @ + Playing(made) + Cardinality(late),
                                     !.state = "STARTED"]
            /\ loc' = [loc EXCEPT ![t] = [l EXCEPT !.status = status]]
    BY Zenon DEF devSwitch, Set
<1>1. PICK late \in SUBSET {x \in bad : x[2] = "a2dp" /\ Runs(x[1])} :
        LET made == new \ (unfit \cup bad)
        IN  /\ Fails(Cardinality(bad))
            /\ leaked' = leaked + Cardinality(late)
            /\ mDevices' = [s \in Streams |->
                   left[s] \cup {d \in Devices : <<s, d>> \in made}]
            /\ deviceCount' = [d \in Devices |->
                   LET out == Cardinality({x \in gone : x[2] = d})
                       in == Cardinality({x \in made : x[2] = d})
                   IN  in + (IF deviceCount[d] > out
                               THEN deviceCount[d] - out ELSE 0)]
            /\ bt' = IF Playing(made) + Cardinality(late) = 0 THEN b1
                     ELSE [b1 EXCEPT !.requests = @ + Playing(made) + Cardinality(late),
                                     !.state = "STARTED"]
            /\ loc' = [loc EXCEPT ![t] = [l EXCEPT !.status = status]]
    BY <1>0
<1>2. /\ pc[t] = "lockAll" /\ l.todo = {} /\ mActiveStreamMutex' = "none"
      /\ mStreamMutex' = [s \in Streams |-> IF mStreamMutex[s] = t THEN "none"
                                            ELSE mStreamMutex[s]]
      /\ pc' = [pc EXCEPT ![t] = l.then]
      /\ UNCHANGED <<currentState, suspendedOutDevIds, a2dpMuted, told>>
    BY DEF devSwitch, Unlocked, Goto
<1> DEFINE made == new \ (unfit \cup bad)
<1>3. l \in Loc /\ l.then \in Thens
    BY <1>2 DEF Types, Placed
<1>4. /\ gone \in SUBSET (Streams \X Devices) /\ new \in SUBSET (Streams \X Devices)
      /\ made \in SUBSET (Streams \X Devices)
    BY <1>3 DEF Loc, Joined
<1>5. \A s \in Streams : left[s] = {d \in mDevices[s] : <<s, d>> \notin l.disc}
    BY DEF Left
<1>6. \A s \in Streams, d \in Devices :
         /\ <<s, d>> \in gone <=> <<s, d>> \in l.disc /\ d \in mDevices[s]
         /\ <<s, d>> \in new => <<s, d>> \in l.conn /\ d \notin left[s]
    BY DEF Joined
<1>7. /\ \A s \in Streams, d \in Devices : <<s, d>> \in made => <<s, d>> \in new
      /\ ~MayStart(b1) =>
            \A s \in Streams : Runs(s) => <<s, "a2dp">> \notin made
    OBVIOUS
<1>8. \A s \in Streams : mDevices'[s] = left[s] \cup {d \in Devices : <<s, d>> \in made}
    BY <1>1
<1>9. loc' = [loc EXCEPT ![t] = [l EXCEPT !.status = status]]
    BY <1>1
<1>10. /\ deviceCount' = [d \in Devices |->
              LET out == Cardinality({x \in gone : x[2] = d})
                  in == Cardinality({x \in made : x[2] = d})
              IN  in + (IF deviceCount[d] > out THEN deviceCount[d] - out ELSE 0)]
       /\ bt' = IF Playing(made) + Cardinality(late) = 0 THEN b1
                ELSE [b1 EXCEPT !.requests = @ + Playing(made) + Cardinality(late),
                                !.state = "STARTED"]
       /\ faults' = faults + Cardinality(bad) /\ faults' <= MaxFaults
       /\ leaked' = leaked + Cardinality(late)
    BY <1>1 DEF Fails
<1>11. \A x \in new : x \in l.conn
    BY DEF Joined
<1> HIDE DEF gone, left, new, unfit
<1>12. PICK g \in Nat, m \in Nat :
          /\ g = Playing(gone) /\ g = Cardinality(OnPlaying(gone))
          /\ m = Playing(made) /\ m = Cardinality(OnPlaying(made))
  <2> HIDE DEF made
  <2>1. OnPlaying(gone) \in SUBSET Streams /\ OnPlaying(made) \in SUBSET Streams
      BY DEF OnPlaying
  <2> QED BY <1>4, <2>1, PairCounts, StreamSets
<1>f. /\ Cardinality(bad) \in Nat /\ Cardinality(late) \in Nat
      /\ Cardinality(late) <= Cardinality(bad)
      /\ ~MayStart(b1) => late = {}
  <2>1. IsFiniteSet(Streams \X Devices)
    <3>1. Devices = {"a2dp"} \cup {"spk"}
        BY DEF Devices
    <3>2. IsFiniteSet(Devices)
        BY <3>1, FS_AddElement, FS_Singleton
    <3> QED BY RoutingAssumption, <3>2, FS_Product
  <2>2. bad \in SUBSET (Streams \X Devices) /\ late \subseteq bad
      BY <1>4
  <2>3. IsFiniteSet(bad)
      BY <2>1, <2>2, FS_Subset
  <2>4. ~MayStart(b1) => late = {}
      BY DEF unfit
  <2> QED BY <2>2, <2>3, <2>4, FS_Subset, FS_CardinalityType
<1>e. PICK e \in Nat : e = Cardinality(late)
    BY <1>f
<1>13. PICK n \in Nat : n = IF bt.requests > g THEN bt.requests - g ELSE 0
    BY DEF Types, Bt
<1>14. PICK st \in {"DISCONNECTED", "CONNECTED", "STARTED", "STOPPED"} :
          st = IF bt.state = "STARTED" /\ bt.requests <= g /\ g > 0
               THEN "STOPPED" ELSE bt.state
    BY DEF Types, Bt
<1>15. b1 = [bt EXCEPT !.requests = n, !.state = st]
    BY <1>12, <1>13, <1>14 DEF Types, Bt
<1> HIDE DEF b1
<1>16. b1 \in Bt
    BY <1>15 DEF Types, Bt
<1>17. b1.requests = n /\ b1.state = st /\ b1.available = bt.available
    BY <1>15 DEF Types, Bt
<1>18. /\ bt' \in Bt /\ bt'.available = bt.available /\ bt'.requests = n + m + e
       /\ m + e = 0 => bt'.state = st
  <2>1. CASE m + e = 0
      BY <1>10, <1>12, <1>16, <1>17, <1>e, <2>1
  <2>2. CASE m + e # 0
    <3>1. PICK k \in Nat : k = n + m + e
        OBVIOUS
    <3>2. bt' = [b1 EXCEPT !.requests = k, !.state = "STARTED"]
        BY <1>10, <1>12, <1>17, <1>e, <2>2, <3>1
    <3>3. bt' \in Bt
        BY <1>16, <3>2 DEF Bt
    <3>4. bt'.available = b1.available /\ bt'.requests = k
        BY <1>16, <3>2 DEF Bt
    <3> QED BY <1>17, <2>2, <3>1, <3>3, <3>4
  <2> QED BY <2>1, <2>2
<1>19. Types'
  <2>1. loc' \in [Threads -> Loc]
    <3>1. [l EXCEPT !.status = status] \in Loc
        BY <1>3, LocalStatus
    <3> QED BY <1>9, <3>1 DEF Types
  <2>2. mDevices' \in [Streams -> SUBSET Devices]
    <3>1. mDevices' = [s \in Streams |-> left[s] \cup {d \in Devices : <<s, d>> \in made}]
        BY <1>1
    <3>2. \A s \in Streams :
             left[s] \cup {d \in Devices : <<s, d>> \in made} \subseteq Devices
        BY <1>5 DEF Types
    <3> QED BY <3>1, <3>2
  <2>3. deviceCount' \in [Devices -> Nat]
    <3> SUFFICES ASSUME NEW d \in Devices PROVE deviceCount'[d] \in Nat
        BY <1>10
    <3>1. On(gone, d) \in SUBSET Streams /\ On(made, d) \in SUBSET Streams
        BY DEF On
    <3> HIDE DEF made
    <3>2. /\ Cardinality({x \in gone : x[2] = d}) \in Nat
          /\ Cardinality({x \in made : x[2] = d}) \in Nat
        BY <1>4, <3>1, PairCounts, StreamSets
    <3> QED BY <1>10, <3>2 DEF Types
  <2>4. faults' \in 0..MaxFaults /\ leaked' \in Nat /\ leaked' <= faults'
      BY RoutingAssumption, <1>10, <1>f DEF Types
  <2>5. pc' \in [Threads -> Points]
      BY <1>2, <1>3 DEF Types, Thens, Points
  <2>6. mStreamMutex' \in [Streams -> Threads \cup {"none"}]
      BY <1>2 DEF Types
  <2> QED BY <1>2, <1>18, <2>1, <2>2, <2>3, <2>4, <2>5, <2>6 DEF Types, told
<1>20. \A q \in Threads : q # t => pc'[q] = pc[q] /\ loc'[q] = loc[q]
    BY <1>2, <1>9 DEF Types
<1>21. pc'[t] = l.then /\ pc'[t] \notin Holding /\ pc'[t] \in Thens
    BY <1>2, <1>3 DEF Types, Thens, Holding
<1>22. Locked'
  <2>1. \A q \in Threads : pc'[q] \in Holding => mActiveStreamMutex' = q
      BY RoutingAssumption, <1>2, <1>20, <1>21 DEF Locked, Holding, Threads
  <2>2. \A q \in Streams : pc'[q] \in {"route", "devices"} => mStreamMutex'[q] = q
      BY <1>2, <1>20, <1>21 DEF Locked, Thens, Threads
  <2>3. \A q \in Threads : pc'[q] # "lockAll"
      BY <1>2, <1>20, <1>21 DEF Locked, Holding, Thens
  <2> QED BY <2>1, <2>2, <2>3 DEF Locked
<1>23. \A x \in l.conn \cup l.disc : currentState[x[1]] # "IDLE" /\ mStreamMutex[x[1]] = t
    BY <1>2 DEF Locked
<1>24. Placed'
  <2>1. ASSUME NEW s \in Streams, currentState[s] = "IDLE" PROVE mDevices'[s] = {}
    <3>1. \A d \in Devices : <<s, d>> \notin made
      <4>1. \A d \in Devices : <<s, d>> \notin new
          BY <1>6, <1>23, <2>1
      <4> QED BY <1>7, <4>1
    <3>2. mDevices[s] = {}
        BY <2>1 DEF Placed
    <3> QED BY <1>5, <1>8, <3>1, <3>2
  <2>2. ASSUME NEW s \in Streams, pc'[s] = "route" PROVE "spk" \notin mDevices'[s]
    <3>1. s \in Threads /\ s # t /\ pc[s] = "route"
        BY <1>20, <1>21, <2>2 DEF Threads, Thens
    <3>2. mStreamMutex[s] = s /\ "spk" \notin mDevices[s]
        BY <3>1 DEF Locked, Placed
    <3>3. <<s, "spk">> \notin made
      <4>1. <<s, "spk">> \notin l.conn
          BY <1>23, <3>1, <3>2
      <4> QED BY <1>6, <1>7, <4>1 DEF Devices
    <3> QED BY <1>5, <1>8, <3>2, <3>3
  <2>3. \A s \in Streams :
           /\ pc'[s] \in {"route", "devices"} => currentState[s] \in {"INIT", "STOPPED"}
           /\ pc'[s] = "stop" => currentState[s] = "STARTED"
      BY <1>20, <1>21 DEF Placed, Thens, Threads
  <2>4. \A q \in Threads :
           /\ pc'[q] \in {"devSwitch", "lockAll", "mark", "force", "collect"}
                 => loc'[q].then \in Thens
           /\ pc'[q] = "closeSource" => q = "hal" /\ ~bt'.available
           /\ pc'[q] = "openSource" => q = "hal" /\ bt'.available
      BY <1>18, <1>20, <1>21 DEF Placed, Thens
  <2> QED BY <1>2, <2>1, <2>2, <2>3, <2>4 DEF Placed
<1>25. Requests'
  <2>1. Connected' <=> Connected
      BY <1>2, <1>18, <1>20, <1>21 DEF Connected, Thens, Threads
  <2>2. Players \in SUBSET Streams /\ OnPlaying(gone) \in SUBSET Players
        /\ OnPlaying(made) \in SUBSET Streams
      BY <1>6 DEF Players, OnPlaying, Devices
  <2>3. Players' = (Players \ OnPlaying(gone)) \cup OnPlaying(made)
    <3>1. ASSUME NEW s \in Streams
          PROVE  "a2dp" \in mDevices'[s] <=>
                    \/ "a2dp" \in mDevices[s] /\ <<s, "a2dp">> \notin gone
                    \/ <<s, "a2dp">> \in made
      <4> HIDE DEF made
      <4> QED BY <1>5, <1>6, <1>8 DEF Devices
    <3> HIDE DEF made
    <3>2. Players' = {s \in Streams : Runs(s) /\ "a2dp" \in mDevices'[s]}
        BY <1>2 DEF Players, Runs
    <3> QED BY <3>1, <3>2 DEF Players, OnPlaying
  <2>4. OnPlaying(made) \cap (Players \ OnPlaying(gone)) = {}
    <3>1. \A s \in Streams : <<s, "a2dp">> \in made => "a2dp" \notin left[s]
        BY <1>6, <1>7 DEF Devices
    <3> QED BY <1>5, <1>6, <3>1 DEF Players, OnPlaying, Devices
  <2>5. /\ Cardinality(Players') = (Cardinality(Players) - g) + m
        /\ g <= Cardinality(Players) /\ Cardinality(Players) \in Nat
    <3> HIDE DEF made
    <3> QED BY <1>12, <2>2, <2>3, <2>4, Swapped, StreamSets
  <2>6. CASE Connected
    <3>1. bt.requests = Cardinality(Players) + leaked /\ leaked \in Nat /\ leaked' = leaked + e
        BY <1>10, <1>e, <2>6 DEF Requests, Types
    <3> QED BY <1>13, <1>18, <2>1, <2>5, <2>6, <3>1 DEF Requests
  <2>7. CASE ~Connected
    <3>1. bt.state = "DISCONNECTED" /\ bt.requests = 0 /\ ~bt.available /\ leaked = 0
        BY <2>7 DEF Requests, Connected
    <3>2. n = 0 /\ st = "DISCONNECTED"
        BY <1>13, <1>14, <3>1
    <3>3. ~MayStart(b1)
        BY <1>17, <3>1, <3>2 DEF MayStart
    <3>4. OnPlaying(made) = {}
        BY <1>7, <3>3 DEF OnPlaying
    <3>6. late = {}
        BY <1>f, <3>3
    <3>7. m = 0
        BY <1>12, <3>4, FS_EmptySet
    <3>8. e = 0
        BY <1>e, <3>6, FS_EmptySet
    <3>5. m = 0 /\ e = 0 /\ leaked' = 0
        BY <1>10, <1>e, <3>1, <3>7, <3>8
    <3> QED BY <1>18, <2>1, <2>7, <3>2, <3>5 DEF Requests
  <2> QED BY <2>6, <2>7
<1>26. ASSUME NEW d \in Devices
       PROVE  /\ Cardinality(Users(d)) \in Nat /\ Cardinality(Users(d)') \in Nat
              /\ deviceCount[d] <= Cardinality(Users(d))
                   => deviceCount'[d] <= Cardinality(Users(d)')
              /\ deviceCount[d] = Cardinality(Users(d))
                   => deviceCount'[d] = Cardinality(Users(d)')
  <2>1. Users(d) \in SUBSET Streams /\ On(gone, d) \in SUBSET Users(d)
        /\ On(made, d) \in SUBSET Streams
      BY <1>6 DEF Users, On
  <2>2. Users(d)' = (Users(d) \ On(gone, d)) \cup On(made, d)
    <3> HIDE DEF made
    <3> QED BY <1>5, <1>6, <1>8 DEF Users, On
  <2>3. On(made, d) \cap (Users(d) \ On(gone, d)) = {}
    <3>1. \A s \in Streams : <<s, d>> \in made => d \notin left[s]
        BY <1>6, <1>7
    <3> QED BY <1>5, <1>6, <3>1 DEF Users, On
  <2> HIDE DEF made
  <2>4. PICK out \in Nat, in \in Nat, k \in Nat :
          /\ out = Cardinality(On(gone, d)) /\ in = Cardinality(On(made, d))
          /\ k = Cardinality(Users(d))
      BY <2>1, StreamSets
  <2>5. Cardinality(Users(d)') = (k - out) + in /\ out <= k
      BY <2>1, <2>2, <2>3, <2>4, Swapped
  <2>6. /\ Cardinality({x \in gone : x[2] = d}) = out
        /\ Cardinality({x \in made : x[2] = d}) = in
      BY <1>4, <2>4, PairCounts
  <2>7. deviceCount'[d] = in + (IF deviceCount[d] > out THEN deviceCount[d] - out ELSE 0)
      BY <1>10, <2>6
  <2>8. deviceCount[d] \in Nat
      BY DEF Types
  <2> QED BY <2>4, <2>5, <2>7, <2>8
<1>27. Opens'
    BY <1>26 DEF Opens, Devices
<1> QED BY <1>19, <1>22, <1>24, <1>25, <1>27

-----------------------------------------------------------------------------
(* No stream is open and no device is in use at first.                        *)
LEMMA InvInit ==
    ASSUME Init
    PROVE  Inv
<1> USE RoutingAssumption DEF Init
<1>0. bt.available = FALSE /\ bt.state = "DISCONNECTED" /\ bt.requests = 0
    OBVIOUS
<1>1. Types
  <2>1. loc \in [Threads -> Loc]
      BY NothingIsLocal
  <2>2. bt \in Bt
      BY DEF Bt
  <2> QED BY <2>1, <2>2 DEF Types, Points, Devices
<1>2. Locked
    BY DEF Locked, Holding, Threads
<1>3. Placed
    BY DEF Placed, Threads
<1>4. Requests
    BY <1>0 DEF Requests, Connected, Threads
<1>5. Opens
  <2>1. Users("spk") = {} /\ Users("a2dp") = {}
      BY DEF Users
  <2>2. deviceCount["spk"] = 0 /\ deviceCount["a2dp"] = 0
      BY DEF Devices
  <2>3. Cardinality(Users("spk")) = 0 /\ Cardinality(Users("a2dp")) = 0
      BY <2>1, FS_EmptySet
  <2> QED BY <2>2, <2>3 DEF Opens
<1> QED BY <1>1, <1>2, <1>3, <1>4, <1>5 DEF Inv

(* Every step of the specification keeps the invariant.                       *)
LEMMA InvNext ==
    ASSUME Inv, [Next]_vars
    PROVE  Inv'
<1>1. CASE Next
  <2>1. PICK t \in Threads : Begin(t) \/ Continue(t)
      BY <1>1 DEF Next
  <2>2. CASE Begin(t) /\ t \in Streams /\ t \notin BtThreads
      BY <2>2, closeKeeps, startReadyKeeps, startComboKeeps, startAloneKeeps,
         stopLockKeeps, openKeeps, SwitchCallsKeep DEF Begin
  <2>3. CASE Begin(t) /\ t \in BtThreads /\ t \notin Streams
      BY <2>3, FlagsKeep, deviceConnectionKeeps DEF Begin
  <2>4. CASE devSwitchLock(t) \/ devSwitch(t) \/ \E s \in Streams : lockOne(t, s)
      BY <2>4, devSwitchLockKeeps, devSwitchKeeps, lockOneKeeps
  <2>5. CASE /\ t \in Streams
             /\ startRoute(t) \/ startDevices(t) \/ stop(t) \/ plan(t) \/ switchDone(t)
      BY <2>5, startRouteKeeps, startDevicesKeeps, stopKeeps, SwitchCallsKeep
  <2>6. ASSUME t \in BtThreads,
               \/ suspendSet(t) \/ suspendClear(t)
               \/ open_a2dp_source(t) \/ close_audio_source(t)
        PROVE  Inv'
      BY <2>6, FlagsKeep, openSourceKeeps, closeSourceKeeps
  <2>7. t \in Streams \/ t \in BtThreads
      BY DEF Threads
  <2>8. ~(t \in Streams /\ t \in BtThreads)
      BY RoutingAssumption
  <2>9. CASE Continue(t)
      BY <2>4, <2>5, <2>6, <2>9, BtCallsKeep DEF Continue
  <2> QED BY <2>1, <2>2, <2>3, <2>7, <2>8, <2>9
<1>2. CASE UNCHANGED vars
  <2> USE <1>2 DEF vars, Inv
  <2>1. Types' /\ Locked' /\ Placed'
      BY DEF Types, Locked, Placed
  <2>2. Connected' <=> Connected
      BY DEF Connected
  <2>3. Requests' /\ Opens'
      BY <2>2, CountsStay
  <2> QED BY <2>1, <2>3
<1> QED BY <1>1, <1>2

(* Every reachable state satisfies the invariant, whatever streams are        *)
(* opened, started, routed and closed while the headset is suspended,         *)
(* resumed, disconnected and connected (switchDevice, streamDevSwitch,        *)
(* a2dpSuspend, a2dpResume, BTUtilsDeviceNotReady).                           *)
THEOREM Invariant == Spec => []Inv
BY InvInit, InvNext, PTL DEF Spec

(* Every variable has its type; in particular the opens of a device never     *)
(* exceed the number of streams, nor the requests of the Bluetooth device by  *)
(* more than the failures (BtA2dp::start and stop, Device::open and close).   *)
THEOREM TypeCorrect == Spec => []TypeOK
<1>1. ASSUME Inv PROVE TypeOK
  <2> USE DEF Inv
  <2>1. /\ Players \in SUBSET Streams /\ Users("spk") \in SUBSET Streams
        /\ Users("a2dp") \in SUBSET Streams /\ Streams \in SUBSET Streams
      BY DEF Players, Users
  <2>2. /\ Cardinality(Players) <= Cardinality(Streams) /\ Cardinality(Players) \in Nat
        /\ Cardinality(Users("spk")) <= Cardinality(Streams)
        /\ Cardinality(Users("a2dp")) <= Cardinality(Streams)
        /\ Cardinality(Users("spk")) \in Nat /\ Cardinality(Users("a2dp")) \in Nat
        /\ Cardinality(Streams) \in Nat
      BY <2>1, StreamSets
  <2>3. deviceCount \in [Devices -> 0..Cardinality(Streams)]
      BY <1>1, <2>2 DEF Types, Opens, Devices
  <2>4. bt.requests \in 0..(Cardinality(Streams) + MaxFaults) /\ leaked \in 0..MaxFaults
      BY <1>1, <2>2, RoutingAssumption DEF Requests, Types
  <2>5. bt \in [suspended : BOOLEAN, setparam : BOOLEAN, available : BOOLEAN,
                state : {"DISCONNECTED", "CONNECTED", "STARTED", "STOPPED"},
                requests : 0..(Cardinality(Streams) + MaxFaults)]
      BY <1>1, <2>4 DEF Types, Bt
  <2>6. \A t \in Threads : /\ loc[t].todo \subseteq Streams
                           /\ loc[t].disc \subseteq Streams \X Devices
                           /\ loc[t].conn \subseteq Streams \X Devices
      BY <1>1 DEF Types, Loc
  <2> QED BY <1>1, <2>3, <2>4, <2>5, <2>6 DEF Types, TypeOK, Points
<1> QED BY <1>1, Invariant, PTL

(* The requests that keep the Bluetooth stack streaming are the started       *)
(* streams on the device and those that late failures left, and the opens of  *)
(* a device match the streams that have it, for any number of streams and     *)
(* failures and in every interleaving: also those in which routing,           *)
(* suspension and start() overlap.                                            *)
THEOREM CountsAlwaysMatch == Spec => []CountsMatch
<1>1. ASSUME Inv PROVE CountsMatch
  <2> USE DEF Inv
  <2>1. bt.available =>
           bt.requests = Cardinality(Players) + leaked
      BY <1>1 DEF Requests, Connected
  <2>2. \A d \in Devices :
           LET users == Cardinality({s \in Streams : d \in mDevices[s]})
           IN  deviceCount[d] <= users /\ (d = "spk" => deviceCount[d] = users)
    <3>1. deviceCount["spk"] = Cardinality({s \in Streams : "spk" \in mDevices[s]})
        BY <1>1 DEF Opens, Users
    <3>2. deviceCount["a2dp"] <= Cardinality({s \in Streams : "a2dp" \in mDevices[s]})
        BY <1>1 DEF Opens, Users
    <3>3. deviceCount["spk"] <= deviceCount["spk"]
        BY <1>1 DEF Types, Devices
    <3> QED BY <3>1, <3>2, <3>3 DEF Devices
  <2> QED BY <2>1, <2>2 DEF CountsMatch
<1> QED BY <1>1, Invariant, PTL

-----------------------------------------------------------------------------
(* The rest of the module is about the system the runs check: one framework   *)
(* thread does all routing, and a suspension does not begin within a start()  *)
(* on A2DP nor a start() within the suspension.                               *)
Orderly == RouteAnytime = FALSE /\ Overtakes = FALSE

(* What a thread is in the middle of.                                         *)
PhaseAt(p, l) ==
    IF p \in {"idle", "route", "devices", "stop"} THEN "none"
    ELSE IF p \in {"devSwitch", "lockAll"}
         THEN IF l.then = "done" THEN "switch" ELSE IF l.then = "restored" THEN "up" ELSE "down"
    ELSE IF p \in {"plan", "done"} THEN "switch"
    ELSE IF p \in {"a2dpSuspend", "mark", "force", "forced", "forcedAgain"} THEN "down"
    ELSE IF p \in {"a2dpResume", "collect", "restored", "unmute"} THEN "up"
    ELSE p
Phase(t) == PhaseAt(pc[t], loc[t])
Phases == {"none", "switch", "set", "clear", "down", "up", "openSource", "closeSource"}

(* The points at which a thread has a list of what to disconnect and connect. *)
Listing == {"mark", "force", "forced", "forcedAgain", "devSwitch", "lockAll", "done",
            "collect", "restored", "unmute"}

KindAt(t, p, l) ==
    /\ t \in Streams => PhaseAt(p, l) \in {"none", "switch"}
    /\ t \in BtThreads => PhaseAt(p, l) # "switch" /\ (PhaseAt(p, l) = "none" => p = "idle")
    /\ p \in {"mark", "force", "forced"} => l.then = "forced"
    /\ p = "forcedAgain" => l.then = "forcedAgain"
    /\ p \in {"collect", "restored", "unmute"} => l.then = "restored"
    /\ p = "done" => l.then = "done"
    /\ l.then = "mute" => p = "devices"
    /\ p \notin Listing => l.conn = {} /\ l.disc = {}
    /\ l.then \in {"forced", "forcedAgain"} => l.conn \subseteq Streams \X {"spk"}
    /\ l.then = "restored" => l.conn \subseteq Streams \X {"a2dp"}

Kinds == \A t \in Threads : KindAt(t, pc[t], loc[t])

(* One thread at a time routes, suspends, resumes, connects or disconnects.   *)
OneAtATime == \A t, u \in Threads : Phase(t) # "none" /\ Phase(u) # "none" => t = u
Nobody == \A t \in Threads : Phase(t) = "none"

Ready == isDeviceReady("a2dp")
Connecting == \E t \in Threads : Phase(t) \in {"openSource", "closeSource"}

FlagsAt(f) ==
    /\ f = "down" => bt.suspended /\ bt.available /\ bt.state # "DISCONNECTED"
    /\ f = "up" => Ready
    /\ f = "set" => ~bt.suspended
    /\ f = "clear" => bt.suspended
Flags ==
    /\ \A t \in Threads : FlagsAt(Phase(t))
    /\ ~Connecting => (bt.available <=> bt.state # "DISCONNECTED")

Gone(b) == ~b.available /\ b.state = "DISCONNECTED"

Order == Kinds /\ OneAtATime /\ Flags

(* A step that leaves the connection and the suspension of the device alone.  *)
Steady ==
    /\ bt'.suspended = bt.suspended /\ bt'.available = bt.available
    /\ \/ bt'.state # "DISCONNECTED" <=> bt.state # "DISCONNECTED"
       \/ bt.available /\ bt'.state # "DISCONNECTED"

(* A step of one thread, which knows after it again what it is doing.         *)
Only(t) ==
    /\ \A u \in Threads : u # t => pc'[u] = pc[u] /\ loc'[u] = loc[u]
    /\ KindAt(t, pc[t], loc[t])'

LEMMA OnlyKinds ==
    ASSUME Kinds, NEW t \in Threads, Only(t)
    PROVE  Kinds' /\ \A u \in Threads : u # t => Phase(u)' = Phase(u)
<1>1. ASSUME NEW u \in Threads, u # t
      PROVE  KindAt(u, pc[u], loc[u])' /\ Phase(u)' = Phase(u)
  <2>1. pc'[u] = pc[u] /\ loc'[u] = loc[u] /\ KindAt(u, pc[u], loc[u])
      BY <1>1 DEF Only, Kinds
  <2>. QED
      BY <2>1, Zenon DEF KindAt, PhaseAt, Phase
<1>2. KindAt(t, pc[t], loc[t])'
    BY DEF Only
<1>. QED
    BY <1>1, <1>2, Zenon DEF Kinds

(* A thread goes on with what it is in the middle of, or is through with it.  *)
LEMMA OrderStep ==
    ASSUME Order, NEW t \in Threads, Only(t), Steady,
           Phase(t)' \in {"none", Phase(t)},
           Phase(t)' = "none" => Phase(t) \notin {"openSource", "closeSource"}
    PROVE  Order'
<1> USE DEF Order
<1>1. Kinds' /\ \A u \in Threads : u # t => Phase(u)' = Phase(u)
    BY OnlyKinds
<1>2. \A u \in Threads : Phase(u)' \in {"none", Phase(u)}
    BY <1>1
<1>3. OneAtATime'
    BY <1>2 DEF OneAtATime
<1>4. (Ready => Ready') /\ (bt'.state = "DISCONNECTED" => bt.state = "DISCONNECTED")
    BY DEF Steady, Ready, isDeviceReady
<1>5. ASSUME NEW u \in Threads PROVE FlagsAt(Phase(u))'
    BY <1>2, <1>4, SMT DEF Flags, FlagsAt, Steady
<1>6. Connecting' <=> Connecting
    BY <1>1 DEF Connecting
<1>7. ~Connecting' => (bt'.available <=> bt'.state # "DISCONNECTED")
    BY <1>6 DEF Flags, Steady
<1>. QED
    BY <1>1, <1>3, <1>5, <1>7 DEF Flags

(* A thread begins when nobody is in the middle of anything.                  *)
LEMMA OrderEnter ==
    ASSUME Order, Nobody, NEW t \in Threads, Only(t), UNCHANGED bt,
           Phase(t)' \in {"none", "switch", "set", "clear"},
           Phase(t)' = "set" => ~bt.suspended, Phase(t)' = "clear" => bt.suspended
    PROVE  Order'
<1> USE DEF Order
<1>1. Kinds' /\ \A u \in Threads : u # t => Phase(u)' = "none"
    BY OnlyKinds DEF Nobody
<1>3. OneAtATime'
    BY <1>1 DEF OneAtATime
<1>5. ASSUME NEW u \in Threads PROVE FlagsAt(Phase(u))'
    BY <1>1 DEF FlagsAt
<1>6. ~Connecting
    BY DEF Connecting, Nobody
<1>. QED
    BY <1>1, <1>3, <1>5, <1>6 DEF Flags

(* The calls of a stream that are no routing.                                 *)
Calls(s) ==
    \/ (\E ds \in Routes : open(s, ds)) \/ close(s) \/ startReady(s) \/ startCombo(s)
    \/ startAlone(s) \/ startRoute(s) \/ startDevices(s) \/ stopLock(s) \/ stop(s)

LEMMA Kin ==
    /\ \A s \in Streams : s \in Threads /\ s \notin BtThreads
    /\ \A t \in BtThreads : t \in Threads /\ t \notin Streams
BY RoutingAssumption DEF Threads

LEMMA Playback ==
    ASSUME NEW b \in Bt
    PROVE  /\ startPlayback(b) \in Bt /\ stopPlayback(b) \in Bt
           /\ startPlayback(b).suspended = b.suspended /\ stopPlayback(b).suspended = b.suspended
           /\ startPlayback(b).available = b.available /\ stopPlayback(b).available = b.available
           /\ startPlayback(b).state = "STARTED"
           /\ stopPlayback(b).state = "DISCONNECTED" <=> b.state = "DISCONNECTED"
<1>1. PICK n \in Nat : n = IF b.requests > 0 THEN b.requests - 1 ELSE 0
    BY DEF Bt
<1>2. PICK st \in {"DISCONNECTED", "CONNECTED", "STARTED", "STOPPED"} :
          st = IF b.state = "STARTED" /\ n = 0 THEN "STOPPED" ELSE b.state
    BY DEF Bt
<1>3. stopPlayback(b) = [b EXCEPT !.requests = n, !.state = st]
    BY <1>1, <1>2 DEF stopPlayback, Bt
<1>4. stopPlayback(b) \in Bt /\ stopPlayback(b).suspended = b.suspended
    BY <1>3 DEF Bt
<1>5. stopPlayback(b).available = b.available /\ stopPlayback(b).state = st
    BY <1>3 DEF Bt
<1>6. PICK k \in Nat : k = b.requests + 1
    BY DEF Bt
<1>7. startPlayback(b) = [b EXCEPT !.requests = k, !.state = "STARTED"]
    BY <1>6 DEF startPlayback
<1>. QED
    BY <1>2, <1>4, <1>5, <1>7 DEF Bt

(* What the start of the devices does to a stream and to the Bluetooth        *)
(* device.                                                                    *)
LEMMA StartEffect ==
    ASSUME Types, NEW s \in Streams, startDevices(s)
    PROVE  /\ pc[s] = "devices" /\ UNCHANGED <<suspendedOutDevIds, want, stranded>>
           /\ \A y \in Streams : y # s =>
                 /\ mDevices'[y] = mDevices[y] /\ currentState'[y] = currentState[y]
                 /\ a2dpMuted'[y] = a2dpMuted[y] /\ ((y \in ignored)' <=> y \in ignored)
           /\ mDevices'[s] \subseteq mDevices[s]
           /\ "spk" \in mDevices[s] => "spk" \in mDevices'[s]
           /\ "a2dp" \in mDevices'[s] => MayStart(bt)
           /\ currentState'[s] \in {currentState[s], "STARTED"}
           /\ loc[s].then # "mute" => a2dpMuted'[s] = a2dpMuted[s] /\ ignored' = ignored
           /\ loc[s].then = "mute" /\ "spk" \in mDevices[s] => a2dpMuted'[s] \/ s \in ignored'
           /\ s \in ignored => s \in ignored'
           /\ a2dpMuted[s] => a2dpMuted'[s]
           /\ \/ UNCHANGED bt
              \/ /\ MayStart(bt)
                 /\ bt' = startPlayback(bt) \/ bt' = stopPlayback(startPlayback(bt))
           /\ faults <= faults'
           /\ faults' = faults =>
                 /\ ignored' = ignored
                 /\ mDevices'[s] = mDevices[s] \/ ("a2dp" \in mDevices[s] /\ ~MayStart(bt))
<1>1. PICK bad \in {"no", "early", "late"}, lost \in BOOLEAN :
        LET first == bt.state # "STARTED" /\ bt.requests = 0
            plays == "a2dp" \in mDevices[s] /\ MayStart(bt) /\ bad = "no"
            on == mDevices[s] \ (IF plays THEN {} ELSE {"a2dp"})
            counted == IF plays \/ bad = "late" THEN startPlayback(bt) ELSE bt
            plain == on # {} /\ ~lost
            mutes == loc[s].then = "mute"
        IN  /\ pc[s] = "devices"
            /\ bad # "no" => "a2dp" \in mDevices[s] /\ MayStart(bt)
            /\ bad = "early" => first
            /\ bad = "late" => Players = {}
            /\ lost => on # {}
            /\ Fails(One(bad # "no") + One(lost))
            /\ bt' = IF lost THEN stopOn(counted, on) ELSE counted
            /\ leaked' = leaked + One(bad = "late")
            /\ deviceCount' = [deviceCount EXCEPT
                   !["a2dp"] = IF on = mDevices[s] THEN @ ELSE closed(@)]
            /\ mDevices' = [mDevices EXCEPT ![s] = on]
            /\ currentState' = [currentState EXCEPT ![s] = IF plain THEN "STARTED" ELSE @]
            /\ a2dpMuted' = [a2dpMuted EXCEPT ![s] = @ \/ (plain /\ mutes)]
            /\ ignored' = IF lost /\ mutes THEN ignored \cup {s} ELSE ignored
            /\ mStreamMutex' = [mStreamMutex EXCEPT ![s] = "none"]
            /\ Return(s)
            /\ UNCHANGED <<suspendedOutDevIds, mActiveStreamMutex, want, stranded>>
    BY Zenon DEF startDevices
<1> DEFINE plays == "a2dp" \in mDevices[s] /\ MayStart(bt) /\ bad = "no"
           on == mDevices[s] \ (IF plays THEN {} ELSE {"a2dp"})
           counted == IF plays \/ bad = "late" THEN startPlayback(bt) ELSE bt
           plain == on # {} /\ ~lost
           mutes == loc[s].then = "mute"
<1>2. /\ pc[s] = "devices" /\ UNCHANGED <<suspendedOutDevIds, want, stranded>>
      /\ bad # "no" => "a2dp" \in mDevices[s] /\ MayStart(bt)
      /\ bt' = IF lost THEN stopOn(counted, on) ELSE counted
      /\ mDevices' = [mDevices EXCEPT ![s] = on]
      /\ currentState' = [currentState EXCEPT ![s] = IF plain THEN "STARTED" ELSE @]
      /\ ignored' = IF lost /\ mutes THEN ignored \cup {s} ELSE ignored
    BY <1>1
<1>3. a2dpMuted' = [a2dpMuted EXCEPT ![s] = @ \/ (plain /\ mutes)]
    BY <1>1, Zenon
<1>4. faults <= faults' /\ (faults' = faults => bad = "no" /\ ~lost)
  <2>1. faults \in Nat /\ faults' = faults + (One(bad # "no") + One(lost))
      BY <1>1, RoutingAssumption DEF Fails, Types
  <2>. QED
      BY <2>1 DEF One
<1>5. a2dpMuted'[s] = (a2dpMuted[s] \/ (plain /\ mutes))
    BY <1>3, Zenon DEF Types
<1>6. \A y \in Streams : y # s => a2dpMuted'[y] = a2dpMuted[y]
    BY <1>3, Zenon DEF Types
<1>7. mDevices'[s] = on /\ currentState'[s] = IF plain THEN "STARTED" ELSE currentState[s]
    BY <1>2 DEF Types
<1>8. \A y \in Streams : y # s => /\ mDevices'[y] = mDevices[y] /\ currentState'[y] = currentState[y]
                                 /\ ((y \in ignored)' <=> y \in ignored)
    BY <1>2 DEF Types
<1>9. /\ on \subseteq mDevices[s] /\ ("spk" \in mDevices[s] => "spk" \in on)
      /\ ("a2dp" \in on <=> plays)
      /\ on = mDevices[s] \/ ("a2dp" \in mDevices[s] /\ ~plays)
    OBVIOUS
<1>10. \/ UNCHANGED bt
       \/ /\ MayStart(bt)
          /\ bt' = startPlayback(bt) \/ bt' = stopPlayback(startPlayback(bt))
  <2>1. CASE plays \/ bad = "late"
    <3>1. counted = startPlayback(bt) /\ MayStart(bt)
        BY <1>2, <2>1
    <3>. QED
        BY <1>2, <3>1 DEF stopOn
  <2>2. CASE ~(plays \/ bad = "late")
    <3>1. counted = bt /\ "a2dp" \notin on
        BY <2>2
    <3>. QED
        BY <1>2, <3>1 DEF stopOn
  <2>. QED
      BY <2>1, <2>2
<1>11. a2dpMuted[s] \in BOOLEAN
    BY DEF Types
<1> HIDE DEF on, counted
<1>12. /\ ~mutes => a2dpMuted'[s] = a2dpMuted[s] /\ ignored' = ignored
       /\ mutes /\ "spk" \in mDevices[s] => a2dpMuted'[s] \/ s \in ignored'
       /\ s \in ignored => s \in ignored'
       /\ a2dpMuted[s] => a2dpMuted'[s]
    BY <1>2, <1>5, <1>9, <1>11
<1>13. faults' = faults =>
          /\ ignored' = ignored
          /\ mDevices'[s] = mDevices[s] \/ ("a2dp" \in mDevices[s] /\ ~MayStart(bt))
    BY <1>2, <1>4, <1>7, <1>9
<1>14. /\ mDevices'[s] \subseteq mDevices[s]
       /\ "spk" \in mDevices[s] => "spk" \in mDevices'[s]
       /\ "a2dp" \in mDevices'[s] => MayStart(bt)
       /\ currentState'[s] \in {currentState[s], "STARTED"}
    BY <1>7, <1>9
<1>. QED
    BY <1>2, <1>4, <1>6, <1>8, <1>10, <1>12, <1>13, <1>14

(* Where a call of a stream goes, and what it does to the Bluetooth device.   *)
LEMMA CallsGo ==
    ASSUME Types, Types', Kinds, NEW s \in Streams, Calls(s)
    PROVE  /\ Only(s) /\ Phase(s) = "none" /\ Phase(s)' = "none" /\ Steady
           /\ bt'.state # bt.state => bt'.state # "DISCONNECTED"
           /\ Gone(bt) => Gone(bt')
<1>0. /\ bt \in Bt /\ s \in Threads /\ s \notin BtThreads /\ KindAt(s, pc[s], loc[s])
      /\ DOMAIN pc = Threads /\ DOMAIN loc = Threads
    BY Kin DEF Types, Kinds
<1>1. ASSUME NEW p \in {"idle", "route", "devices", "stop"},
             pc[s] \in {"idle", "route", "devices", "stop"}, p # "idle" => pc[s] = "idle",
             pc' = [pc EXCEPT ![s] = p],
             \/ UNCHANGED loc /\ pc[s] # "devices"
             \/ loc' = [loc EXCEPT ![s] = Nothing]
      PROVE  Only(s) /\ Phase(s) = "none" /\ Phase(s)' = "none"
  <2>1. KindAt(s, p, Nothing) /\ (pc[s] # "devices" => KindAt(s, p, loc[s]))
      BY <1>0, <1>1 DEF KindAt, PhaseAt, Nothing, Listing
  <2>2. pc'[s] = p /\ loc'[s] \in {loc[s], Nothing} /\ (pc[s] = "devices" => loc'[s] = Nothing)
      BY <1>0, <1>1
  <2>3. KindAt(s, pc[s], loc[s])'
      BY <2>1, <2>2, Zenon DEF KindAt, PhaseAt
  <2>4. \A u \in Threads : u # s => pc'[u] = pc[u] /\ loc'[u] = loc[u]
      BY <1>0, <1>1
  <2>. QED
      BY <1>1, <2>2, <2>3, <2>4 DEF Only, Phase, PhaseAt
<1>2. CASE (\E ds \in Routes : open(s, ds)) \/ close(s)
  <2>1. pc[s] = "idle" /\ UNCHANGED <<pc, loc, bt>>
      BY <1>2 DEF open, close
  <2>2. KindAt(s, pc[s], loc[s])'
      BY <1>0, <2>1, Zenon DEF KindAt, PhaseAt
  <2>. QED
      BY <2>1, <2>2 DEF Only, Phase, PhaseAt, Steady
<1>3. CASE startReady(s) \/ startCombo(s) \/ startAlone(s) \/ stopLock(s)
  <2>1. PICK p \in {"route", "devices", "stop"} : pc' = [pc EXCEPT ![s] = p]
      BY <1>3 DEF startReady, startCombo, startAlone, stopLock, Goto
  <2>2. UNCHANGED <<loc, bt>> /\ pc[s] = "idle"
      BY <1>3 DEF startReady, startCombo, startAlone, stopLock, CanBegin
  <2>. QED
      BY <1>1, <2>1, <2>2 DEF Steady
<1>4. CASE startRoute(s)
  <2>1. /\ pc' = [pc EXCEPT ![s] = "devices"]
        /\ loc' = [loc EXCEPT ![s] = [Nothing EXCEPT !.then = "mute"]]
        /\ UNCHANGED bt /\ pc[s] = "route"
      BY <1>4 DEF startRoute, Goto, Set
  <2>2. pc'[s] = "devices" /\ loc'[s] = [Nothing EXCEPT !.then = "mute"]
      BY <1>0, <2>1
  <2>3. KindAt(s, "devices", [Nothing EXCEPT !.then = "mute"])
      BY <1>0 DEF KindAt, PhaseAt, Nothing
  <2>4. KindAt(s, pc[s], loc[s])'
      BY <2>2, <2>3, Zenon DEF KindAt, PhaseAt
  <2>5. \A u \in Threads : u # s => pc'[u] = pc[u] /\ loc'[u] = loc[u]
      BY <1>0, <2>1
  <2>. QED
      BY <2>1, <2>2, <2>4, <2>5 DEF Only, Steady, Phase, PhaseAt
<1>5. CASE startDevices(s)
  <2>1. pc' = [pc EXCEPT ![s] = "idle"] /\ loc' = [loc EXCEPT ![s] = Nothing]
      BY <1>5 DEF startDevices, Return, Goto, Set
  <2>2. /\ pc[s] = "devices"
        /\ \/ UNCHANGED bt
           \/ /\ MayStart(bt)
              /\ bt' = startPlayback(bt) \/ bt' = stopPlayback(startPlayback(bt))
      BY <1>5, StartEffect
  <2>4. /\ Steady /\ (bt'.state # bt.state => bt'.state # "DISCONNECTED")
        /\ Gone(bt) => Gone(bt')
      BY <1>0, <2>2, Playback DEF Steady, MayStart, Gone
  <2>. QED
      BY <1>1, <2>1, <2>2, <2>4
<1>6. CASE stop(s)
  <2>1. pc' = [pc EXCEPT ![s] = "idle"] /\ loc' = [loc EXCEPT ![s] = Nothing]
      BY <1>6 DEF stop, Return, Goto, Set
  <2>2. pc[s] = "stop" /\ (UNCHANGED bt \/ bt' = stopPlayback(bt))
      BY <1>6 DEF stop, stopOn
  <2>4. /\ Steady /\ (bt'.state # bt.state => bt'.state # "DISCONNECTED")
        /\ Gone(bt) => Gone(bt')
      BY <1>0, <2>2, Playback DEF Steady, Gone
  <2>. QED
      BY <1>1, <2>1, <2>2, <2>4
<1>. QED
    BY <1>2, <1>3, <1>4, <1>5, <1>6 DEF Calls

LEMMA CallsInOrder ==
    ASSUME Types, Types', Order, NEW s \in Streams, Calls(s)
    PROVE  Order'
BY CallsGo, OrderStep, Kin DEF Order

LEMMA NobodyBegins == ASSUME Types, Kinds, Orderly, Calm, BtIdle PROVE Nobody
<1>1. ASSUME NEW s \in Streams PROVE Phase(s) = "none"
  <2>1. Phase(s) \in {"none", "switch"} /\ pc[s] \notin {"plan", "devSwitch", "lockAll", "done"}
      BY <1>1, Kin DEF Kinds, KindAt, Phase, Calm, Orderly
  <2>2. pc[s] \in Points
      BY Kin DEF Types
  <2>. QED
      BY <2>1, <2>2 DEF Phase, PhaseAt, Points
<1>2. ASSUME NEW t \in BtThreads PROVE Phase(t) = "none"
    BY <1>2 DEF BtIdle, Orderly, Phase, PhaseAt
<1>. QED
    BY <1>1, <1>2 DEF Nobody, Threads

(* A device switch, of a stream or of the Bluetooth device.                   *)
Routing(t) ==
    \/ t \in Streams /\ (plan(t) \/ switchDone(t))
    \/ devSwitchLock(t) \/ devSwitch(t) \/ \E s \in Streams : lockOne(t, s)

LEMMA ThenKind ==
    ASSUME NEW t \in Threads, NEW l, NEW r, NEW p \in {"devSwitch", "lockAll"}, KindAt(t, p, l),
           l.then \in Thens, r.then = l.then, r.conn \subseteq l.conn
    PROVE  KindAt(t, l.then, r) /\ PhaseAt(l.then, r) = PhaseAt(p, l)
BY DEF KindAt, PhaseAt, Thens, Listing

LEMMA SwitchKind ==
    ASSUME NEW t \in Threads, NEW l, NEW r, NEW p \in {"devSwitch", "lockAll"},
           NEW q \in {"devSwitch", "lockAll"}, KindAt(t, p, l),
           l.then \in Thens, r.then = l.then, r.conn \subseteq l.conn
    PROVE  KindAt(t, q, r) /\ PhaseAt(q, r) = PhaseAt(p, l)
BY DEF KindAt, PhaseAt, Thens, Listing

LEMMA RoutingGoes ==
    ASSUME Inv, Kinds, NEW t \in Threads, Routing(t)
    PROVE  Only(t) /\ Phase(t) \in {"switch", "up", "down"} /\ Phase(t)' \in {"none", Phase(t)}
<1> USE DEF Inv
<1>0. /\ DOMAIN pc = Threads /\ DOMAIN loc = Threads /\ KindAt(t, pc[t], loc[t])
      /\ loc[t] \in Loc
    BY DEF Types, Kinds
<1>1. ASSUME NEW p, NEW r, pc' = [pc EXCEPT ![t] = p], loc' = [loc EXCEPT ![t] = r],
             KindAt(t, p, r), PhaseAt(p, r) \in {"none", Phase(t)}
      PROVE  Only(t) /\ Phase(t)' \in {"none", Phase(t)}
  <2>1. pc'[t] = p /\ loc'[t] = r
      BY <1>0, <1>1
  <2>2. KindAt(t, pc[t], loc[t])' /\ Phase(t)' = PhaseAt(p, r)
      BY <1>1, <2>1, Zenon DEF KindAt, PhaseAt, Phase
  <2>3. \A u \in Threads : u # t => pc'[u] = pc[u] /\ loc'[u] = loc[u]
      BY <1>0, <1>1
  <2>. QED
      BY <1>1, <2>2, <2>3 DEF Only
<1>2. KindAt(t, "idle", Nothing) /\ PhaseAt("idle", Nothing) = "none"
    BY DEF KindAt, PhaseAt, Nothing
<1>3. CASE t \in Streams /\ plan(t)
  <2>1. Phase(t) = "switch"
      BY <1>3 DEF plan, Phase, PhaseAt
  <2>2. CASE Return(t)
      BY <1>1, <1>2, <2>1, <2>2 DEF Return, Goto, Set
  <2>3. CASE Goto(t, "devSwitch") /\ \E ready, again : Set(t, Lists(t, loc[t].devs, ready, again))
    <3>1. PICK ready, again : Set(t, Lists(t, loc[t].devs, ready, again))
        BY <2>3
    <3>2. PICK r : r = Lists(t, loc[t].devs, ready, again)
        OBVIOUS
    <3>3. r.then = "done"
        BY <3>2 DEF Lists, Nothing
    <3>4. KindAt(t, "devSwitch", r) /\ PhaseAt("devSwitch", r) = "switch"
        BY <1>3, <3>3, Kin DEF KindAt, PhaseAt, Listing
    <3>. QED
        BY <1>1, <2>1, <2>3, <3>1, <3>2, <3>4 DEF Goto, Set
  <2>. QED
      BY <1>3, <2>1, <2>2, <2>3 DEF plan
<1>4. CASE t \in Streams /\ switchDone(t)
  <2>1. Phase(t) = "switch" /\ Return(t)
      BY <1>4 DEF switchDone, Phase, PhaseAt
  <2>. QED
      BY <1>1, <1>2, <2>1 DEF Return, Goto, Set
<1>5. ASSUME pc[t] \in {"devSwitch", "lockAll"}
      PROVE  loc[t].then \in Thens /\ Phase(t) \in {"switch", "up", "down"}
    BY <1>5 DEF Placed, Phase, PhaseAt
<1>6. CASE devSwitchLock(t)
  <2>0. pc[t] = "devSwitch"
      BY <1>6 DEF devSwitchLock
  <2>1. CASE /\ Goto(t, loc[t].then) /\ Set(t, [loc[t] EXCEPT !.status = "ENODEV"])
    <3>1. PICK r : r = [loc[t] EXCEPT !.status = "ENODEV"]
        OBVIOUS
    <3>2. r.then = loc[t].then /\ r.conn \subseteq loc[t].conn
        BY <1>0, <3>1 DEF Loc
    <3>3. KindAt(t, loc[t].then, r) /\ PhaseAt(loc[t].then, r) = Phase(t)
        BY <1>0, <1>5, <2>0, <3>2, ThenKind DEF Phase
    <3>. QED
        BY <1>1, <1>5, <2>0, <2>1, <3>1, <3>3 DEF Goto, Set
  <2>2. CASE /\ Goto(t, "lockAll")
             /\ \E todo, conn, disc : /\ conn \subseteq loc[t].conn
                  /\ Set(t, [loc[t] EXCEPT !.conn = conn, !.disc = disc, !.todo = todo])
    <3>0. PICK todo, conn, disc : /\ conn \subseteq loc[t].conn
                /\ Set(t, [loc[t] EXCEPT !.conn = conn, !.disc = disc, !.todo = todo])
        BY <2>2
    <3>1. PICK r : r = [loc[t] EXCEPT !.conn = conn, !.disc = disc, !.todo = todo]
        OBVIOUS
    <3>2. r.then = loc[t].then /\ r.conn = conn
        BY <1>0, <3>1 DEF Loc
    <3>3. KindAt(t, "lockAll", r) /\ PhaseAt("lockAll", r) = Phase(t)
        BY <1>0, <1>5, <2>0, <3>0, <3>2, SwitchKind DEF Phase
    <3>. QED
        BY <1>1, <1>5, <2>0, <2>2, <3>0, <3>1, <3>3 DEF Goto, Set
  <2>. QED
    <3>1. {x \in loc[t].conn : x[1] \in Alive} \subseteq loc[t].conn
        OBVIOUS
    <3>. QED
        BY <1>6, <2>1, <2>2, <3>1 DEF devSwitchLock
<1>7. CASE \E s \in Streams : lockOne(t, s)
  <2>1. PICK todo : /\ pc[t] = "lockAll" /\ UNCHANGED pc
                    /\ Set(t, [loc[t] EXCEPT !.todo = todo])
      BY <1>7 DEF lockOne
  <2>2. PICK r : r = [loc[t] EXCEPT !.todo = todo]
      OBVIOUS
  <2>3. r.then = loc[t].then /\ r.conn = loc[t].conn
      BY <1>0, <2>2 DEF Loc
  <2>4. KindAt(t, "lockAll", r) /\ PhaseAt("lockAll", r) = Phase(t)
      BY <1>0, <1>5, <2>1, <2>3, SwitchKind DEF Phase
  <2>5. pc' = [pc EXCEPT ![t] = "lockAll"]
      BY <2>1, <1>0 DEF Types
  <2>. QED
      BY <1>1, <1>5, <2>1, <2>2, <2>4, <2>5 DEF Set
<1>8. CASE devSwitch(t)
  <2>1. PICK status : Set(t, [loc[t] EXCEPT !.status = status])
      BY <1>8, Zenon DEF devSwitch
  <2>2. pc[t] = "lockAll" /\ Goto(t, loc[t].then)
      BY <1>8, Zenon DEF devSwitch
  <2>3. PICK r : r = [loc[t] EXCEPT !.status = status]
      OBVIOUS
  <2>4. r.then = loc[t].then /\ r.conn \subseteq loc[t].conn
      BY <1>0, <2>3 DEF Loc
  <2>5. KindAt(t, loc[t].then, r) /\ PhaseAt(loc[t].then, r) = Phase(t)
      BY <1>0, <1>5, <2>2, <2>4, ThenKind DEF Phase
  <2>. QED
      BY <1>1, <1>5, <2>1, <2>2, <2>3, <2>5 DEF Goto, Set
<1>. QED
    BY <1>3, <1>4, <1>6, <1>7, <1>8 DEF Routing

(* The calls of a2dpSuspend and a2dpResume outside the device switch.         *)
BtCalls(t) ==
    \/ a2dpSuspend(t) \/ markedAll(t) \/ forceDeviceSwitch(t) \/ forced(t) \/ forcedAgain(t)
    \/ a2dpResume(t) \/ collectedAll(t) \/ restored(t) \/ unmutedAll(t)
    \/ \E s \in Streams : markOne(t, s) \/ collectOne(t, s) \/ unmuteOne(t, s)

LEMMA BtCallsGo ==
    ASSUME Inv, Kinds, NEW t \in BtThreads, BtCalls(t)
    PROVE  Only(t) /\ Phase(t) \in {"up", "down"} /\ Phase(t)' \in {"none", Phase(t)}
<1> USE DEF Inv
<1>0. /\ DOMAIN pc = Threads /\ DOMAIN loc = Threads /\ KindAt(t, pc[t], loc[t])
      /\ loc[t] \in Loc /\ t \in Threads /\ t \notin Streams
    BY Kin DEF Types, Kinds
<1>1. ASSUME NEW p, NEW r, pc' = [pc EXCEPT ![t] = p], loc' = [loc EXCEPT ![t] = r],
             KindAt(t, p, r), PhaseAt(p, r) \in {"none", Phase(t)}, Phase(t) \in {"up", "down"}
      PROVE  Only(t) /\ Phase(t) \in {"up", "down"} /\ Phase(t)' \in {"none", Phase(t)}
  <2>1. pc'[t] = p /\ loc'[t] = r
      BY <1>0, <1>1
  <2>2. KindAt(t, pc[t], loc[t])' /\ Phase(t)' = PhaseAt(p, r)
      BY <1>1, <2>1, Zenon DEF KindAt, PhaseAt, Phase
  <2>3. \A u \in Threads : u # t => pc'[u] = pc[u] /\ loc'[u] = loc[u]
      BY <1>0, <1>1
  <2>. QED
      BY <1>1, <2>2, <2>3 DEF Only
<1>2. KindAt(t, "idle", Nothing) /\ PhaseAt("idle", Nothing) = "none"
    BY <1>0 DEF KindAt, PhaseAt, Nothing
<1>3. ASSUME Return(t), Phase(t) \in {"up", "down"}
      PROVE  Only(t) /\ Phase(t) \in {"up", "down"} /\ Phase(t)' \in {"none", Phase(t)}
    BY <1>1, <1>2, <1>3 DEF Return, Goto, Set
<1>4. CASE a2dpSuspend(t)
  <2>1. Phase(t) = "down"
      BY <1>4 DEF a2dpSuspend, Phase, PhaseAt
  <2>2. ASSUME ~Return(t) PROVE \E S \in SUBSET Streams : Goto(t, "mark")
           /\ Set(t, [Nothing EXCEPT !.todo = S, !.disc = S \X {"a2dp"}, !.conn = S \X {"spk"},
                                     !.then = "forced"])
      BY <1>4, <2>2 DEF a2dpSuspend, Alive
  <2>3. ASSUME NEW S \in SUBSET Streams, Goto(t, "mark"),
           Set(t, [Nothing EXCEPT !.todo = S, !.disc = S \X {"a2dp"}, !.conn = S \X {"spk"},
                                     !.then = "forced"])
        PROVE  Only(t) /\ Phase(t)' \in {"none", Phase(t)}
    <3>1. PICK r : r = [Nothing EXCEPT !.todo = S, !.disc = S \X {"a2dp"},
                                       !.conn = S \X {"spk"}, !.then = "forced"]
        OBVIOUS
    <3>2. r.then = "forced" /\ r.conn = S \X {"spk"}
        BY <3>1 DEF Nothing
    <3>3. KindAt(t, "mark", r) /\ PhaseAt("mark", r) = "down"
        BY <1>0, <3>2 DEF KindAt, PhaseAt, Listing
    <3>. QED
        BY <1>1, <2>1, <2>3, <3>1, <3>3 DEF Goto, Set
  <2>. QED
      BY <1>3, <2>1, <2>2, <2>3
<1>5. CASE a2dpResume(t)
  <2>1. Phase(t) = "up"
      BY <1>5 DEF a2dpResume, Phase, PhaseAt
  <2>2. ASSUME ~Return(t)
        PROVE  /\ Goto(t, "collect")
               /\ Set(t, [Nothing EXCEPT !.todo = Candidates, !.then = "restored"])
      BY <1>5, <2>2 DEF a2dpResume
  <2>3. PICK r : r = [Nothing EXCEPT !.todo = Candidates, !.then = "restored"]
      OBVIOUS
  <2>4. r.then = "restored" /\ r.conn = {}
      BY <2>3 DEF Nothing
  <2>5. KindAt(t, "collect", r) /\ PhaseAt("collect", r) = "up"
      BY <1>0, <2>4 DEF KindAt, PhaseAt, Listing
  <2>. QED
      BY <1>1, <1>3, <2>1, <2>2, <2>3, <2>5 DEF Goto, Set
<1>6. CASE markedAll(t)
  <2>1. Phase(t) = "down" /\ pc[t] = "mark" /\ Goto(t, "force") /\ UNCHANGED loc
      BY <1>6 DEF markedAll, Phase, PhaseAt
  <2>2. KindAt(t, "force", loc[t]) /\ PhaseAt("force", loc[t]) = "down"
      BY <1>0, <2>1 DEF KindAt, PhaseAt, Listing
  <2>3. loc' = [loc EXCEPT ![t] = loc[t]]
      BY <1>0, <2>1 DEF Types
  <2>. QED
      BY <1>1, <2>1, <2>2, <2>3 DEF Goto
<1>7. CASE forceDeviceSwitch(t)
  <2> DEFINE disc == {x \in loc[t].disc : x[1] \in Alive}
             conn == {x \in loc[t].conn : x[1] \in Alive}
  <2>1. /\ Phase(t) = "down" /\ pc[t] = "force" /\ Goto(t, "devSwitch")
        /\ Set(t, [loc[t] EXCEPT !.disc = disc, !.conn = conn])
      BY <1>7 DEF forceDeviceSwitch, Phase, PhaseAt
  <2>2. PICK r : r = [loc[t] EXCEPT !.disc = disc, !.conn = conn]
      OBVIOUS
  <2>3. r.then = loc[t].then /\ r.conn \subseteq loc[t].conn
      BY <1>0, <2>2 DEF Loc
  <2>4. KindAt(t, "devSwitch", r) /\ PhaseAt("devSwitch", r) = "down"
      BY <1>0, <2>1, <2>3 DEF KindAt, PhaseAt, Listing
  <2>. QED
      BY <1>1, <2>1, <2>2, <2>4 DEF Goto, Set
<1>8. CASE forced(t)
  <2> DEFINE shared == {s \in Alive : "spk" \in mDevices[s]} \X {"spk"}
  <2>1. /\ Phase(t) = "down" /\ pc[t] = "forced"
        /\ \/ Return(t)
           \/ /\ Goto(t, "devSwitch")
              /\ Set(t, [loc[t] EXCEPT !.disc = loc[t].disc \cup shared,
                             !.conn = loc[t].conn \cup shared, !.then = "forcedAgain"])
      BY <1>0, <1>8 DEF forced, Phase, PhaseAt
  <2>2. PICK r : r = [loc[t] EXCEPT !.disc = loc[t].disc \cup shared,
                             !.conn = loc[t].conn \cup shared, !.then = "forcedAgain"]
      OBVIOUS
  <2>3. r.then = "forcedAgain" /\ r.conn = loc[t].conn \cup shared
      BY <1>0, <2>2 DEF Loc
  <2>4. shared \subseteq Streams \X {"spk"}
      BY DEF Alive
  <2>5. loc[t].conn \subseteq Streams \X {"spk"}
      BY <1>0, <2>1 DEF KindAt
  <2> HIDE DEF shared
  <2>6. KindAt(t, "devSwitch", r) /\ PhaseAt("devSwitch", r) = "down"
      BY <1>0, <2>3, <2>4, <2>5 DEF KindAt, PhaseAt, Listing
  <2>. QED
      BY <1>1, <1>3, <2>1, <2>2, <2>6 DEF Goto, Set
<1>9. CASE forcedAgain(t) \/ unmutedAll(t)
  <2>1. Return(t) /\ Phase(t) \in {"up", "down"}
      BY <1>9 DEF forcedAgain, unmutedAll, Phase, PhaseAt
  <2>. QED
      BY <1>3, <2>1
<1>10. CASE collectedAll(t)
  <2>1. /\ Phase(t) = "up" /\ pc[t] = "collect"
        /\ Return(t) \/ (Goto(t, "devSwitch") /\ UNCHANGED loc)
      BY <1>10 DEF collectedAll, Phase, PhaseAt
  <2>2. KindAt(t, "devSwitch", loc[t]) /\ PhaseAt("devSwitch", loc[t]) = "up"
      BY <1>0, <2>1 DEF KindAt, PhaseAt, Listing
  <2>3. UNCHANGED loc => loc' = [loc EXCEPT ![t] = loc[t]]
      BY <1>0 DEF Types
  <2>. QED
      BY <1>1, <1>3, <2>1, <2>2, <2>3 DEF Goto
<1>11. CASE restored(t)
  <2>1. /\ Phase(t) = "up" /\ pc[t] = "restored"
        /\ \/ Return(t)
           \/ \E todo : Goto(t, "unmute") /\ Set(t, [loc[t] EXCEPT !.todo = todo])
      BY <1>11 DEF restored, Phase, PhaseAt
  <2>2. ASSUME NEW todo, Goto(t, "unmute"), Set(t, [loc[t] EXCEPT !.todo = todo])
        PROVE  Only(t) /\ Phase(t)' \in {"none", Phase(t)}
    <3>1. PICK r : r = [loc[t] EXCEPT !.todo = todo]
        OBVIOUS
    <3>2. r.then = loc[t].then /\ r.conn = loc[t].conn
        BY <1>0, <3>1 DEF Loc
    <3>3. KindAt(t, "unmute", r) /\ PhaseAt("unmute", r) = "up"
        BY <1>0, <2>1, <3>2 DEF KindAt, PhaseAt, Listing
    <3>. QED
        BY <1>1, <2>1, <2>2, <3>1, <3>3 DEF Goto, Set
  <2>. QED
      BY <1>3, <2>1, <2>2
<1>12. CASE \E s \in Streams : markOne(t, s) \/ collectOne(t, s) \/ unmuteOne(t, s)
  <2>1. Phase(t) \in {"up", "down"} /\ pc[t] \in {"mark", "collect", "unmute"} /\ UNCHANGED pc
      BY <1>12 DEF markOne, collectOne, unmuteOne, Phase, PhaseAt
  <2>2. \E r : r.then = loc[t].then /\ Set(t, r) /\ (pc[t] = "collect" \/ r.conn = loc[t].conn)
               /\ (pc[t] = "collect" => r.conn \subseteq loc[t].conn \cup (Streams \X {"a2dp"}))
    <3>1. ASSUME NEW s \in Streams, markOne(t, s) \/ unmuteOne(t, s)
          PROVE  \E r : /\ r.then = loc[t].then /\ Set(t, r) /\ r.conn = loc[t].conn
      <4>1. PICK r : r = [loc[t] EXCEPT !.todo = @ \ {s}]
          OBVIOUS
      <4>2. r.then = loc[t].then /\ r.conn = loc[t].conn
          BY <1>0, <4>1 DEF Loc
      <4>. QED
          BY <3>1, <4>1, <4>2 DEF markOne, unmuteOne
    <3>2. ASSUME NEW s \in Streams, collectOne(t, s)
          PROVE  \E r : /\ r.then = loc[t].then /\ Set(t, r)
                        /\ r.conn \subseteq loc[t].conn \cup (Streams \X {"a2dp"})
      <4> DEFINE back == IF "a2dp" \in suspendedOutDevIds[s] THEN {s} ELSE {}
                 from == IF Cardinality(suspendedOutDevIds[s]) = 1 THEN mDevices[s] ELSE {}
      <4>1. PICK r : r = [loc[t] EXCEPT !.todo = @ \ {s}, !.conn = @ \cup (back \X {"a2dp"}),
                                        !.disc = @ \cup (back \X from)]
          OBVIOUS
      <4>2. r.then = loc[t].then /\ r.conn = loc[t].conn \cup (back \X {"a2dp"})
          BY <1>0, <4>1 DEF Loc
      <4>3. Set(t, r)
          BY <3>2, <4>1 DEF collectOne
      <4>4. back \X {"a2dp"} \subseteq Streams \X {"a2dp"}
          OBVIOUS
      <4> HIDE DEF back
      <4>. QED
          BY <4>2, <4>3, <4>4
    <3>3. \A s \in Streams : /\ markOne(t, s) \/ unmuteOne(t, s) => pc[t] # "collect"
                             /\ collectOne(t, s) => pc[t] = "collect"
        BY DEF markOne, collectOne, unmuteOne
    <3>. QED
        BY <1>12, <3>1, <3>2, <3>3
  <2>3. PICK r : /\ r.then = loc[t].then /\ Set(t, r) /\ (pc[t] = "collect" \/ r.conn = loc[t].conn)
                 /\ (pc[t] = "collect" => r.conn \subseteq loc[t].conn \cup (Streams \X {"a2dp"}))
      BY <2>2
  <2>4. KindAt(t, pc[t], r) /\ PhaseAt(pc[t], r) = Phase(t)
      BY <1>0, <2>1, <2>3 DEF KindAt, PhaseAt, Phase, Listing
  <2>5. pc' = [pc EXCEPT ![t] = pc[t]]
      BY <1>0, <2>1 DEF Types
  <2>. QED
      BY <1>1, <2>1, <2>3, <2>4, <2>5 DEF Set
<1>. QED
    BY <1>4, <1>5, <1>6, <1>7, <1>8, <1>9, <1>10, <1>11, <1>12 DEF BtCalls

(* The flags and the connection of the Bluetooth device.                      *)
LEMMA FlagsInOrder ==
    ASSUME Inv, Inv', Orderly, Order, NEW t \in BtThreads,
           \/ \E on \in BOOLEAN : setBTParameter(t, on) \/ deviceConnection(t, on)
           \/ suspendSet(t) \/ suspendClear(t) \/ open_a2dp_source(t) \/ close_audio_source(t)
    PROVE  Order'
<1> USE DEF Inv, Order
<1>0. /\ DOMAIN pc = Threads /\ DOMAIN loc = Threads /\ KindAt(t, pc[t], loc[t])
      /\ t \in Threads /\ t \notin Streams /\ bt \in Bt /\ FlagsAt(Phase(t))
    BY Kin DEF Types, Kinds, Flags
<1>1. ASSUME NEW p, pc' = [pc EXCEPT ![t] = p], UNCHANGED loc,
             p \in {"idle", "set", "clear", "a2dpSuspend", "a2dpResume", "openSource",
                    "closeSource"},
             pc[t] \in {"idle", "set", "clear", "openSource", "closeSource"}
      PROVE  /\ Only(t) /\ Phase(t)' = PhaseAt(p, loc[t])
             /\ Phase(t) = IF pc[t] = "idle" THEN "none" ELSE pc[t]
  <2>1. pc'[t] = p /\ loc'[t] = loc[t]
      BY <1>0, <1>1
  <2>2. KindAt(t, p, loc[t])
      BY <1>0, <1>1 DEF KindAt, PhaseAt, Listing
  <2>3. KindAt(t, pc[t], loc[t])' /\ Phase(t)' = PhaseAt(p, loc[t])
      BY <2>1, <2>2, Zenon DEF KindAt, PhaseAt, Phase
  <2>4. \A u \in Threads : u # t => pc'[u] = pc[u] /\ loc'[u] = loc[u]
      BY <1>0, <1>1
  <2>5. Phase(t) = IF pc[t] = "idle" THEN "none" ELSE pc[t]
      BY <1>1 DEF Phase, PhaseAt
  <2>. QED
      BY <2>3, <2>4, <2>5 DEF Only
<1>2. ASSUME Only(t), FlagsAt(Phase(t))', Nobody \/ Phase(t) # "none",
             ~Connecting' => (bt'.available <=> bt'.state # "DISCONNECTED")
      PROVE  Order'
  <2>1. Kinds' /\ \A u \in Threads : u # t => Phase(u)' = Phase(u)
      BY <1>0, <1>2, OnlyKinds
  <2>2. \A u \in Threads : u # t => Phase(u)' = "none"
      BY <1>0, <1>2, <2>1 DEF OneAtATime, Nobody
  <2>3. OneAtATime'
      BY <1>0, <2>2 DEF OneAtATime
  <2>4. \A u \in Threads : u # t => FlagsAt(Phase(u))'
      BY <2>2 DEF FlagsAt
  <2>. QED
      BY <1>2, <2>1, <2>3, <2>4 DEF Flags
<1>3. CASE \E on \in BOOLEAN : setBTParameter(t, on)
  <2>1. PICK on \in BOOLEAN : setBTParameter(t, on)
      BY <1>3
  <2>2. PICK p \in {"set", "clear"} : pc' = [pc EXCEPT ![t] = p] /\ (p = "set" <=> ~bt.suspended)
      BY <1>0, <2>1 DEF setBTParameter, Goto, Bt
  <2>3. pc[t] = "idle" /\ UNCHANGED <<bt, loc>> /\ Calm /\ BtIdle
      BY <2>1 DEF setBTParameter
  <2>4. Only(t) /\ Phase(t)' = p
      BY <1>1, <2>2, <2>3 DEF PhaseAt
  <2>. QED
      BY <1>0, <2>2, <2>3, <2>4, NobodyBegins, OrderEnter
<1>4. CASE \E on \in BOOLEAN : deviceConnection(t, on)
  <2>1. PICK on \in BOOLEAN : deviceConnection(t, on)
      BY <1>4
  <2>2. PICK p \in {"openSource", "closeSource"} : pc' = [pc EXCEPT ![t] = p]
      BY <2>1 DEF deviceConnection, Goto
  <2>3. pc[t] = "idle" /\ UNCHANGED loc /\ Calm /\ BtIdle
      BY <2>1 DEF deviceConnection
  <2>4. Only(t) /\ Phase(t)' = p
      BY <1>1, <2>2, <2>3 DEF PhaseAt
  <2>5. Connecting' /\ FlagsAt(Phase(t))'
      BY <1>0, <2>4 DEF Connecting, FlagsAt
  <2>. QED
      BY <1>2, <2>3, <2>4, <2>5, NobodyBegins
<1>5. CASE suspendSet(t)
  <2>1. PICK p \in {"idle", "a2dpSuspend"} :
            /\ pc' = [pc EXCEPT ![t] = p]
            /\ p = "a2dpSuspend" => bt.state # "DISCONNECTED"
      BY <1>5 DEF suspendSet, Goto
  <2>2. /\ pc[t] = "set" /\ UNCHANGED loc
        /\ bt' = [bt EXCEPT !.suspended = TRUE, !.setparam = (t = "hal")]
      BY <1>5 DEF suspendSet
  <2>3. bt'.suspended = TRUE /\ bt'.available = bt.available /\ bt'.state = bt.state
      BY <1>0, <2>2 DEF Bt
  <2>4. Only(t) /\ Phase(t)' = PhaseAt(p, loc[t]) /\ Phase(t) = "set"
      BY <1>1, <2>1, <2>2
  <2>5. ~Connecting
      BY <1>0, <2>4 DEF Connecting, OneAtATime
  <2>6. FlagsAt(Phase(t))'
      BY <2>1, <2>3, <2>4, <2>5 DEF FlagsAt, Flags, PhaseAt
  <2>. QED
      BY <1>2, <2>3, <2>4, <2>5, <2>6 DEF Flags
<1>6. CASE suspendClear(t)
  <2>1. PICK p \in {"idle", "a2dpResume"} :
            /\ pc' = [pc EXCEPT ![t] = p]
            /\ p = "a2dpResume" => bt.state # "DISCONNECTED"
      BY <1>6 DEF suspendClear, Goto
  <2>2. /\ pc[t] = "clear" /\ UNCHANGED loc
        /\ bt' = [bt EXCEPT !.suspended = FALSE, !.setparam = (t = "hal")]
      BY <1>6 DEF suspendClear
  <2>3. bt'.suspended = FALSE /\ bt'.available = bt.available /\ bt'.state = bt.state
      BY <1>0, <2>2 DEF Bt
  <2>4. Only(t) /\ Phase(t)' = PhaseAt(p, loc[t]) /\ Phase(t) = "clear"
      BY <1>1, <2>1, <2>2
  <2>5. ~Connecting
      BY <1>0, <2>4 DEF Connecting, OneAtATime
  <2>6. FlagsAt(Phase(t))'
      BY <2>1, <2>3, <2>4, <2>5 DEF FlagsAt, Flags, PhaseAt, Ready, isDeviceReady
  <2>. QED
      BY <1>2, <2>3, <2>4, <2>5, <2>6 DEF Flags
<1>7. CASE open_a2dp_source(t) \/ close_audio_source(t)
  <2>1. /\ pc' = [pc EXCEPT ![t] = "idle"] /\ UNCHANGED loc
        /\ pc[t] \in {"openSource", "closeSource"}
      BY <1>7 DEF open_a2dp_source, close_audio_source, Goto
  <2>2. Only(t) /\ Phase(t)' = "none" /\ Phase(t) # "none"
      BY <1>1, <2>1 DEF PhaseAt
  <2>3. FlagsAt(Phase(t))'
      BY <2>2 DEF FlagsAt
  <2>4. bt'.available <=> bt'.state # "DISCONNECTED"
      BY <1>0, <1>7 DEF open_a2dp_source, close_audio_source, Placed, Bt
  <2>. QED
      BY <1>2, <2>2, <2>3, <2>4
<1>. QED
    BY <1>3, <1>4, <1>5, <1>6, <1>7

(* switchDevice begins.                                                       *)
LEMMA SwitchInOrder ==
    ASSUME Inv, Orderly, Order, NEW s \in Streams, \E ds \in Routes : switchDevice(s, ds)
    PROVE  Order' /\ Only(s) /\ Nobody
<1> USE DEF Inv, Order
<1>0. DOMAIN pc = Threads /\ DOMAIN loc = Threads /\ s \in Threads /\ s \notin BtThreads
    BY Kin DEF Types
<1>1. PICK ds \in Routes : switchDevice(s, ds)
    OBVIOUS
<1>2. /\ pc' = [pc EXCEPT ![s] = "plan"] /\ loc' = [loc EXCEPT ![s] = [Nothing EXCEPT !.devs = ds]]
      /\ UNCHANGED bt /\ Nobody
    BY <1>1, NobodyBegins DEF switchDevice, Goto, Set
<1>3. pc'[s] = "plan" /\ loc'[s] = [Nothing EXCEPT !.devs = ds]
    BY <1>0, <1>2
<1>4. KindAt(s, "plan", [Nothing EXCEPT !.devs = ds])
    BY <1>0 DEF KindAt, PhaseAt, Nothing, Listing
<1>5. KindAt(s, pc[s], loc[s])' /\ Phase(s)' = "switch"
    BY <1>3, <1>4, Zenon DEF KindAt, PhaseAt, Phase
<1>6. Only(s)
    BY <1>0, <1>2, <1>5 DEF Only
<1>. QED
    BY <1>0, <1>2, <1>5, <1>6, OrderEnter

-----------------------------------------------------------------------------
(* What streamDevSwitch does.                                                 *)

(* The devices of a stream after the switch that is planned in l.             *)
After(l, s) == {d \in Devices : \/ <<s, d>> \in l.conn
                                \/ d \in mDevices[s] /\ <<s, d>> \notin l.disc}

LEMMA NoneBad ==
    ASSUME NEW bad \in SUBSET (Streams \X Devices)
    PROVE  Cardinality(bad) \in Nat /\ (Cardinality(bad) = 0 => bad = {})
<1>1. Devices = ({} \cup {"a2dp"}) \cup {"spk"}
    BY DEF Devices
<1>2. IsFiniteSet(Devices)
    BY <1>1, FS_EmptySet, FS_AddElement
<1>3. IsFiniteSet(Streams \X Devices)
    BY <1>2, RoutingAssumption, FS_Product
<1>4. IsFiniteSet(bad)
    BY <1>3, FS_Subset
<1>. QED
    BY <1>4, FS_CardinalityType, FS_EmptySet

LEMMA SwitchEffect ==
    ASSUME Inv, NEW t \in Threads, devSwitch(t)
    PROVE  /\ pc[t] = "lockAll" /\ loc[t].todo = {} /\ pc'[t] = loc[t].then
           /\ loc[t] \in Loc /\ loc'[t].status \in {"ok", "error"}
           /\ loc'[t] = [loc[t] EXCEPT !.status = loc'[t].status]
           /\ UNCHANGED <<currentState, suspendedOutDevIds, a2dpMuted, told>>
           /\ \A s \in Streams : /\ mDevices'[s] \subseteq After(loc[t], s)
                                 /\ \A d \in mDevices[s] \ mDevices'[s] : <<s, d>> \in loc[t].disc
           /\ \A s \in Streams : /\ Runs(s) /\ "a2dp" \in mDevices'[s]
                                 /\ "a2dp" \in mDevices[s] => <<s, "a2dp">> \in loc[t].disc
                                 => ~bt.suspended
           /\ Steady /\ (Gone(bt) => Gone(bt'))
           /\ faults <= faults'
           /\ faults' = 0 /\ ((\E x \in Streams : <<x, "a2dp">> \in loc[t].conn) => Ready)
                 => loc'[t].status = "ok" /\ \A s \in Streams : mDevices'[s] = After(loc[t], s)
<1> USE DEF Inv
<1>4. loc[t] \in Loc /\ bt \in Bt /\ faults \in Nat
  <2>1. MaxFaults \in Nat
      BY RoutingAssumption
  <2>. QED
      BY <2>1 DEF Types
<1> DEFINE l == loc[t]
           left == Left(l.disc)
           gone == {x \in l.disc : x[2] \in mDevices[x[1]]}
           new == Joined(l.conn, left)
           b1 == [bt EXCEPT !.requests = IF @ > Playing(gone) THEN @ - Playing(gone) ELSE 0,
                            !.state = IF @ = "STARTED" /\ bt.requests <= Playing(gone)
                                         /\ Playing(gone) > 0
                                      THEN "STOPPED" ELSE @]
           unfit == {x \in new : x[2] = "a2dp" /\ Runs(x[1]) /\ ~MayStart(b1)}
<1>0. PICK bad \in SUBSET (new \ unfit), status \in {"ok", "error"} :
        \E late \in SUBSET {x \in bad : x[2] = "a2dp" /\ Runs(x[1])} :
        LET made == new \ (unfit \cup bad)
        IN  /\ Fails(Cardinality(bad))
            /\ made = new => status = "ok"
            /\ mDevices' = [s \in Streams |->
                   left[s] \cup {d \in Devices : <<s, d>> \in made}]
            /\ bt' = IF Playing(made) + Cardinality(late) = 0 THEN b1
                     ELSE [b1 EXCEPT !.requests = @ + Playing(made) + Cardinality(late),
                                     !.state = "STARTED"]
            /\ loc' = [loc EXCEPT ![t] = [l EXCEPT !.status = status]]
    BY Zenon DEF devSwitch, Set
<1>1. PICK late \in SUBSET {x \in bad : x[2] = "a2dp" /\ Runs(x[1])} :
        LET made == new \ (unfit \cup bad)
        IN  /\ Fails(Cardinality(bad))
            /\ made = new => status = "ok"
            /\ mDevices' = [s \in Streams |->
                   left[s] \cup {d \in Devices : <<s, d>> \in made}]
            /\ bt' = IF Playing(made) + Cardinality(late) = 0 THEN b1
                     ELSE [b1 EXCEPT !.requests = @ + Playing(made) + Cardinality(late),
                                     !.state = "STARTED"]
            /\ loc' = [loc EXCEPT ![t] = [l EXCEPT !.status = status]]
    BY <1>0
<1>2. /\ pc[t] = "lockAll" /\ l.todo = {} /\ pc' = [pc EXCEPT ![t] = l.then]
      /\ UNCHANGED <<currentState, suspendedOutDevIds, a2dpMuted, told>>
    BY DEF devSwitch, Goto
<1> DEFINE made == new \ (unfit \cup bad)
           plus == Playing(made) + Cardinality(late)
<1>3. /\ faults' = faults + Cardinality(bad) /\ (made = new => status = "ok")
      /\ mDevices' = [s \in Streams |-> left[s] \cup {d \in Devices : <<s, d>> \in made}]
      /\ bt' = IF plus = 0 THEN b1
               ELSE [b1 EXCEPT !.requests = @ + Playing(made) + Cardinality(late),
                               !.state = "STARTED"]
      /\ loc' = [loc EXCEPT ![t] = [l EXCEPT !.status = status]]
  <2>1. faults' = faults + Cardinality(bad)
      BY <1>1 DEF Fails
  <2>. QED
      BY <1>1, <2>1
<1>5. loc'[t] = [l EXCEPT !.status = status] /\ pc'[t] = l.then
    BY <1>2, <1>3 DEF Types
<1>6. loc'[t].status = status
    BY <1>4, <1>5 DEF Loc
<1>7. /\ \A s \in Streams : left[s] = {d \in mDevices[s] : <<s, d>> \notin l.disc}
      /\ \A s \in Streams, d \in Devices : 
            <<s, d>> \in new <=> <<s, d>> \in l.conn /\ d \notin left[s]
      /\ \A x \in new : x \in l.conn
    BY DEF Joined, Left
<1>8. /\ bad \subseteq new /\ bad \in SUBSET (Streams \X Devices)
      /\ \A s \in Streams, d \in Devices : <<s, d>> \in made => <<s, d>> \in new
      /\ ~MayStart(b1) => \A s \in Streams : Runs(s) => <<s, "a2dp">> \notin made
      /\ MayStart(b1) => unfit = {}
      /\ (\A x \in new : x[2] # "a2dp") => unfit = {}
      /\ unfit = {} /\ bad = {} => made = new
    BY <1>4, <1>7 DEF Loc
<1>9. \A x \in made : x \in new /\ (x[2] = "a2dp" /\ Runs(x[1]) => MayStart(b1))
    OBVIOUS
<1>10. /\ b1.suspended = bt.suspended /\ b1.available = bt.available
       /\ b1.state = "DISCONNECTED" <=> bt.state = "DISCONNECTED"
    BY <1>4 DEF Bt
<1>11. plus # 0 => MayStart(b1)
  <2>1. ASSUME ~MayStart(b1) PROVE {x \in made : x[2] = "a2dp" /\ Runs(x[1])} = {}
      BY <1>9, <2>1
  <2>2. ASSUME ~MayStart(b1) PROVE late = {}
      BY <2>2
  <2>3. Cardinality({}) = 0
      BY FS_EmptySet
  <2>4. ~MayStart(b1) => Playing(made) = 0 /\ Cardinality(late) = 0
      BY <2>1, <2>2, <2>3 DEF Playing
  <2>5. plus = Playing(made) + Cardinality(late)
      OBVIOUS
  <2> HIDE DEF b1, plus, made
  <2>. QED
      BY <2>4, <2>5
<1>12. /\ plus = 0 => bt' = b1
       /\ plus # 0 => bt'.state = "STARTED" /\ bt'.suspended = bt.suspended
                               /\ bt'.available = bt.available
    BY <1>3, <1>4 DEF Bt
<1> HIDE DEF b1, gone, left, new, unfit, made, plus
<1>13. Steady /\ (Gone(bt) => Gone(bt'))
    BY <1>10, <1>11, <1>12 DEF Steady, Gone, MayStart
<1>14. \A s \in Streams : mDevices'[s] = left[s] \cup {d \in Devices : <<s, d>> \in made}
    BY <1>3
<1>15. ASSUME NEW s \in Streams
       PROVE  /\ mDevices'[s] \subseteq After(l, s)
              /\ \A d \in mDevices[s] \ mDevices'[s] : <<s, d>> \in l.disc
    BY <1>7, <1>8, <1>14 DEF After, Types
<1>16. ASSUME NEW s \in Streams, Runs(s), "a2dp" \in mDevices'[s],
              "a2dp" \in mDevices[s] => <<s, "a2dp">> \in l.disc
       PROVE  ~bt.suspended
    BY <1>7, <1>8, <1>10, <1>14, <1>16 DEF MayStart
<1>17. faults <= faults'
    BY <1>3, <1>4, <1>8, NoneBad
<1>18. ASSUME faults' = 0, (\E x \in Streams : <<x, "a2dp">> \in l.conn) => Ready
       PROVE  status = "ok" /\ \A s \in Streams : mDevices'[s] = After(l, s)
  <2>1. bad = {}
      BY <1>3, <1>4, <1>8, <1>18, NoneBad
  <2>2. unfit = {}
    <3>1. CASE Ready
        BY <1>8, <1>10, <3>1 DEF Ready, isDeviceReady, MayStart
    <3>2. CASE ~Ready
      <4>1. \A x \in l.conn : x[2] # "a2dp"
          BY <1>4, <1>18, <3>2 DEF Loc
      <4>. QED
          BY <1>7, <1>8, <4>1
    <3>. QED
        BY <3>1, <3>2
  <2>3. made = new
      BY <1>8, <2>1, <2>2
  <2>4. ASSUME NEW s \in Streams PROVE mDevices'[s] = After(l, s)
      BY <1>7, <1>14, <2>3 DEF After, Types
  <2>. QED
      BY <1>3, <2>3, <2>4
<1>. QED
    BY <1>2, <1>4, <1>5, <1>6, <1>13, <1>15, <1>16, <1>17, <1>18 DEF told

-----------------------------------------------------------------------------
(* The steps by kind, and that all of them keep the order.                    *)

BtFlags(t) ==
    \/ \E on \in BOOLEAN : setBTParameter(t, on) \/ deviceConnection(t, on)
    \/ suspendSet(t) \/ suspendClear(t) \/ open_a2dp_source(t) \/ close_audio_source(t)

LEMMA StepKinds ==
    ASSUME Next
    PROVE  \/ \E s \in Streams : Calls(s) \/ \E ds \in Routes : switchDevice(s, ds)
           \/ \E t \in Threads : Routing(t)
           \/ \E t \in BtThreads : BtFlags(t) \/ BtCalls(t)
<1>1. PICK t \in Threads : Begin(t) \/ Continue(t)
    BY DEF Next
<1>2. CASE Begin(t)
  <2>1. CASE /\ t \in Streams
             /\ \/ close(t) \/ startReady(t) \/ startCombo(t) \/ startAlone(t) \/ stopLock(t)
                \/ \E ds \in Routes : open(t, ds) \/ switchDevice(t, ds)
      BY <2>1 DEF Calls
  <2>2. CASE /\ t \in BtThreads
             /\ \E on \in BOOLEAN : setBTParameter(t, on) \/ deviceConnection(t, on)
      BY <2>2 DEF BtFlags
  <2>. QED
      BY <1>2, <2>1, <2>2 DEF Begin
<1>3. CASE Continue(t)
  <2>1. CASE /\ t \in Streams
             /\ startRoute(t) \/ startDevices(t) \/ stop(t) \/ plan(t) \/ switchDone(t)
      BY <2>1 DEF Calls, Routing
  <2>2. CASE devSwitchLock(t) \/ devSwitch(t) \/ \E s \in Streams : lockOne(t, s)
      BY <2>2 DEF Routing
  <2>3. CASE /\ t \in BtThreads
             /\ \/ suspendSet(t) \/ suspendClear(t) \/ a2dpSuspend(t) \/ markedAll(t)
                \/ forceDeviceSwitch(t) \/ forced(t) \/ forcedAgain(t)
                \/ a2dpResume(t) \/ collectedAll(t) \/ restored(t) \/ unmutedAll(t)
                \/ open_a2dp_source(t) \/ close_audio_source(t)
                \/ \E s \in Streams : markOne(t, s) \/ collectOne(t, s) \/ unmuteOne(t, s)
      BY <2>3 DEF BtFlags, BtCalls
  <2>. QED
      BY <1>3, <2>1, <2>2, <2>3 DEF Continue
<1>. QED
    BY <1>1, <1>2, <1>3

LEMMA RoutingSteady ==
    ASSUME Inv, NEW t \in Threads, Routing(t)
    PROVE  Steady /\ (Gone(bt) => Gone(bt')) /\ UNCHANGED <<currentState, want>>
<1>1. CASE devSwitch(t)
    BY <1>1, SwitchEffect DEF told
<1>2. CASE plan(t) \/ switchDone(t) \/ devSwitchLock(t) \/ \E s \in Streams : lockOne(t, s)
  <2>1. UNCHANGED <<bt, currentState, want>>
      BY <1>2 DEF plan, switchDone, devSwitchLock, lockOne, streamVars, told
  <2>. QED
      BY <2>1 DEF Steady
<1>. QED
    BY <1>1, <1>2 DEF Routing

LEMMA BtCallsStill ==
    ASSUME NEW t \in BtThreads, BtCalls(t)
    PROVE  /\ UNCHANGED <<currentState, mDevices, deviceCount, bt, mStreamMutex, want, ignored,
                         leaked, faults>>
           /\ \/ UNCHANGED stranded
              \/ \E s \in Streams : unmuteOne(t, s) /\ stranded' = stranded \ {s}
BY DEF BtCalls, a2dpSuspend, markedAll, forceDeviceSwitch, forced, forcedAgain, a2dpResume,
       collectedAll, restored, unmutedAll, markOne, collectOne, unmuteOne, streamVars, locks, told

LEMMA OrderInit == ASSUME Init PROVE Order
<1>1. \A t \in Threads : pc[t] = "idle" /\ loc[t] = Nothing
    BY DEF Init
<1>2. Kinds
    BY <1>1 DEF Kinds, KindAt, PhaseAt, Nothing
<1>3. \A t \in Threads : Phase(t) = "none"
    BY <1>1 DEF Phase, PhaseAt
<1>4. OneAtATime /\ Flags
    BY <1>3 DEF OneAtATime, Flags, FlagsAt, Init
<1>. QED
    BY <1>2, <1>4 DEF Order

LEMMA OrderNext ==
    ASSUME Orderly, Inv, Inv', Order, [Next]_vars
    PROVE  Order'
<1>1. CASE Next
  <2>1. CASE \E s \in Streams : Calls(s)
      BY <2>1, CallsInOrder DEF Inv
  <2>2. CASE \E s \in Streams : \E ds \in Routes : switchDevice(s, ds)
      BY <2>2, SwitchInOrder
  <2>3. CASE \E t \in Threads : Routing(t)
      BY <2>3, RoutingGoes, RoutingSteady, OrderStep DEF Order
  <2>4. CASE \E t \in BtThreads : BtFlags(t)
      BY <2>4, FlagsInOrder DEF BtFlags
  <2>5. CASE \E t \in BtThreads : BtCalls(t)
    <3>1. PICK t \in BtThreads : BtCalls(t)
        BY <2>5
    <3>2. UNCHANGED bt
        BY <3>1, BtCallsStill
    <3>3. Steady
        BY <3>2 DEF Steady
    <3>. QED
        BY <3>1, <3>3, Kin, BtCallsGo, OrderStep DEF Order
  <2>. QED
      BY <1>1, <2>1, <2>2, <2>3, <2>4, <2>5, StepKinds
<1>2. CASE UNCHANGED vars
  <2>1. UNCHANGED <<pc, loc, bt>>
      BY <1>2 DEF vars
  <2>2. ASSUME NEW t \in Threads
        PROVE  Phase(t)' = Phase(t) /\ (KindAt(t, pc[t], loc[t]) => KindAt(t, pc[t], loc[t])')
    <3>1. pc'[t] = pc[t] /\ loc'[t] = loc[t]
        BY <2>1
    <3>. QED
        BY <3>1, Zenon DEF Phase, PhaseAt, KindAt
  <2>3. Kinds'
      BY <2>2 DEF Order, Kinds
  <2>4. Connecting' <=> Connecting
      BY <2>2 DEF Connecting
  <2>5. \A t \in Threads : FlagsAt(Phase(t)) => FlagsAt(Phase(t))'
      BY <2>1, <2>2 DEF FlagsAt, Ready, isDeviceReady
  <2>6. Flags'
      BY <2>1, <2>4, <2>5 DEF Order, Flags
  <2>. QED
      BY <2>2, <2>3, <2>6 DEF Order, OneAtATime
<1>. QED
    BY <1>1, <1>2

-----------------------------------------------------------------------------
(* What the calls do to the lists of their thread.                            *)
Becomes(t, p, todo, disc, conn, then) ==
    /\ pc'[t] = p /\ loc'[t].todo = todo /\ loc'[t].disc = disc /\ loc'[t].conn = conn
    /\ loc'[t].then = then

LEMMA Fields ==
    ASSUME Types, NEW t \in Threads, NEW todo, NEW disc, NEW conn, NEW then, NEW p,
           pc' = [pc EXCEPT ![t] = p], NEW l \in Loc,
           loc' = [loc EXCEPT ![t] = [l EXCEPT !.todo = todo, !.disc = disc, !.conn = conn,
                                               !.then = then]]
    PROVE  Becomes(t, p, todo, disc, conn, then) /\ loc'[t].status = l.status
<1>1. /\ pc'[t] = p
      /\ loc'[t] = [l EXCEPT !.todo = todo, !.disc = disc, !.conn = conn, !.then = then]
    BY DEF Types
<1>2. PICK r : r = [l EXCEPT !.todo = todo, !.disc = disc, !.conn = conn, !.then = then]
    OBVIOUS
<1>3. r.todo = todo /\ r.disc = disc /\ r.conn = conn /\ r.then = then /\ r.status = l.status
    BY <1>2 DEF Loc
<1>. QED
    BY <1>1, <1>2, <1>3, Zenon DEF Becomes

Sharing == {s \in Alive : "a2dp" \in mDevices[s]}
OnSpeaker == {s \in Alive : "spk" \in mDevices[s]} \X {"spk"}
Living(pairs) == {x \in pairs : x[1] \in Alive}

LEMMA DownEffects ==
    ASSUME Inv, NEW t \in BtThreads
    PROVE  /\ a2dpSuspend(t) => /\ pc[t] = "a2dpSuspend"
                                /\ \/ pc'[t] = "idle"
                                   \/ Becomes(t, "mark", Sharing, Sharing \X {"a2dp"},
                                              Sharing \X {"spk"}, "forced")
           /\ markedAll(t) => /\ pc[t] = "mark" /\ loc[t].todo = {} /\ UNCHANGED loc
                              /\ pc'[t] = "force"
           /\ forceDeviceSwitch(t) =>
                 /\ pc[t] = "force"
                 /\ Becomes(t, "devSwitch", loc[t].todo, Living(loc[t].disc),
                            Living(loc[t].conn), loc[t].then)
           /\ forced(t) => /\ pc[t] = "forced"
                           /\ \/ pc'[t] = "idle"
                              \/ /\ loc[t].status # "ok"
                                 /\ Becomes(t, "devSwitch", loc[t].todo,
                                            loc[t].disc \cup OnSpeaker,
                                            loc[t].conn \cup OnSpeaker, "forcedAgain")
           /\ forcedAgain(t) => pc[t] = "forcedAgain" /\ pc'[t] = "idle"
           /\ a2dpSuspend(t) \/ markedAll(t) \/ forceDeviceSwitch(t) \/ forced(t) \/ forcedAgain(t)
                 => UNCHANGED <<suspendedOutDevIds, a2dpMuted>>
<1> USE DEF Inv
<1>0. /\ t \in Threads /\ DOMAIN pc = Threads /\ DOMAIN loc = Threads /\ loc[t] \in Loc
      /\ Nothing \in Loc /\ Types
    BY Kin, NothingIsLocal DEF Types
<1>1. ASSUME a2dpSuspend(t), pc'[t] # "idle"
      PROVE  Becomes(t, "mark", Sharing, Sharing \X {"a2dp"}, Sharing \X {"spk"}, "forced")
  <2>1. /\ pc' = [pc EXCEPT ![t] = "mark"]
        /\ loc' = [loc EXCEPT ![t] = [Nothing EXCEPT !.todo = Sharing, !.disc = Sharing \X {"a2dp"},
                       !.conn = Sharing \X {"spk"}, !.then = "forced"]]
      BY <1>0, <1>1 DEF a2dpSuspend, Goto, Set, Return, Sharing
  <2>. QED
      BY <1>0, <2>1, Fields
<1>2. ASSUME forceDeviceSwitch(t)
      PROVE  Becomes(t, "devSwitch", loc[t].todo, Living(loc[t].disc),
                     Living(loc[t].conn), loc[t].then)
  <2>1. /\ pc' = [pc EXCEPT ![t] = "devSwitch"]
        /\ loc' = [loc EXCEPT ![t] = [loc[t] EXCEPT !.disc = Living(loc[t].disc),
                                                    !.conn = Living(loc[t].conn)]]
      BY <1>2 DEF forceDeviceSwitch, Goto, Set, Living
  <2>2. /\ pc'[t] = "devSwitch"
        /\ loc'[t] = [loc[t] EXCEPT !.disc = Living(loc[t].disc), !.conn = Living(loc[t].conn)]
      BY <1>0, <2>1
  <2>. QED
      BY <1>0, <2>2 DEF Becomes, Loc
<1>3. ASSUME forced(t), pc'[t] # "idle"
      PROVE  /\ loc[t].status # "ok"
             /\ Becomes(t, "devSwitch", loc[t].todo, loc[t].disc \cup OnSpeaker,
                        loc[t].conn \cup OnSpeaker, "forcedAgain")
  <2>1. /\ pc' = [pc EXCEPT ![t] = "devSwitch"] /\ loc[t].status # "ok"
        /\ loc' = [loc EXCEPT ![t] = [loc[t] EXCEPT !.disc = loc[t].disc \cup OnSpeaker,
                                          !.conn = loc[t].conn \cup OnSpeaker,
                                          !.then = "forcedAgain"]]
      BY <1>0, <1>3 DEF forced, Goto, Set, Return, OnSpeaker
  <2>2. /\ pc'[t] = "devSwitch"
        /\ loc'[t] = [loc[t] EXCEPT !.disc = loc[t].disc \cup OnSpeaker,
                                    !.conn = loc[t].conn \cup OnSpeaker, !.then = "forcedAgain"]
      BY <1>0, <2>1
  <2>. QED
      BY <1>0, <2>1, <2>2 DEF Becomes, Loc
<1>4. /\ markedAll(t) => /\ pc[t] = "mark" /\ loc[t].todo = {} /\ UNCHANGED loc
                         /\ pc'[t] = "force"
      /\ forcedAgain(t) => pc[t] = "forcedAgain" /\ pc'[t] = "idle"
    BY <1>0 DEF markedAll, forcedAgain, Return, Goto
<1>. QED
    BY <1>1, <1>2, <1>3, <1>4 DEF a2dpSuspend, markedAll, forceDeviceSwitch, forced, forcedAgain,
       streamVars

LEMMA UpEffects ==
    ASSUME Inv, NEW t \in BtThreads
    PROVE  /\ a2dpResume(t) => /\ pc[t] = "a2dpResume"
                               /\ \/ pc'[t] = "idle" /\ Candidates = {}
                                  \/ Becomes(t, "collect", Candidates, {}, {}, "restored")
           /\ collectedAll(t) => /\ pc[t] = "collect" /\ loc[t].todo = {}
                                 /\ \/ pc'[t] = "idle" /\ loc[t].conn = {}
                                    \/ pc'[t] = "devSwitch" /\ UNCHANGED loc
           /\ restored(t) => /\ pc[t] = "restored"
                             /\ \/ pc'[t] = "idle" /\ loc[t].status # "ok"
                                \/ /\ loc[t].status = "ok"
                                   /\ Becomes(t, "unmute", {x[1] : x \in loc[t].conn} \cap Alive,
                                              loc[t].disc, loc[t].conn, loc[t].then)
           /\ unmutedAll(t) => /\ pc[t] = "unmute" /\ pc'[t] = "idle" /\ loc[t].todo = {}
           /\ a2dpResume(t) \/ collectedAll(t) \/ restored(t) \/ unmutedAll(t)
                 => UNCHANGED <<suspendedOutDevIds, a2dpMuted>>
<1> USE DEF Inv
<1>0. /\ t \in Threads /\ DOMAIN pc = Threads /\ DOMAIN loc = Threads /\ loc[t] \in Loc
      /\ Nothing \in Loc /\ Types
    BY Kin, NothingIsLocal DEF Types
<1>1. ASSUME a2dpResume(t), pc'[t] # "idle" \/ Candidates # {}
      PROVE  Becomes(t, "collect", Candidates, {}, {}, "restored")
  <2>1. /\ pc' = [pc EXCEPT ![t] = "collect"]
        /\ loc' = [loc EXCEPT ![t] = [Nothing EXCEPT !.todo = Candidates, !.then = "restored"]]
      BY <1>0, <1>1 DEF a2dpResume, Goto, Set, Return
  <2>2. /\ pc'[t] = "collect"
        /\ loc'[t] = [Nothing EXCEPT !.todo = Candidates, !.then = "restored"]
      BY <1>0, <2>1
  <2>. QED
      BY <1>0, <2>2 DEF Becomes, Nothing
<1>2. ASSUME restored(t), loc[t].status = "ok"
      PROVE  Becomes(t, "unmute", {x[1] : x \in loc[t].conn} \cap Alive, loc[t].disc, loc[t].conn,
                     loc[t].then)
  <2>1. /\ pc' = [pc EXCEPT ![t] = "unmute"]
        /\ loc' = [loc EXCEPT ![t] = [loc[t] EXCEPT !.todo = {x[1] : x \in loc[t].conn} \cap Alive]]
      BY <1>2 DEF restored, Goto, Set
  <2>2. /\ pc'[t] = "unmute"
        /\ loc'[t] = [loc[t] EXCEPT !.todo = {x[1] : x \in loc[t].conn} \cap Alive]
      BY <1>0, <2>1
  <2>. QED
      BY <1>0, <2>2 DEF Becomes, Loc
<1>3. /\ collectedAll(t) => /\ pc[t] = "collect" /\ loc[t].todo = {}
                            /\ \/ pc'[t] = "idle" /\ loc[t].conn = {}
                               \/ pc'[t] = "devSwitch" /\ UNCHANGED loc
      /\ unmutedAll(t) => pc[t] = "unmute" /\ pc'[t] = "idle" /\ loc[t].todo = {}
    BY <1>0 DEF collectedAll, unmutedAll, Return, Goto
<1>4. restored(t) /\ loc[t].status # "ok" => pc'[t] = "idle"
    BY <1>0 DEF restored, Return, Goto
<1>. QED
    BY <1>1, <1>2, <1>3, <1>4 DEF a2dpResume, collectedAll, restored, unmutedAll, streamVars

LEMMA OneEffects ==
    ASSUME Inv, NEW t \in BtThreads, NEW s \in Streams
    PROVE  /\ markOne(t, s) =>
                 /\ pc[t] = "mark" /\ s \in loc[t].todo
                 /\ Becomes(t, "mark", loc[t].todo \ {s}, loc[t].disc, loc[t].conn, loc[t].then)
                 /\ \A x \in Streams : x # s =>
                       /\ suspendedOutDevIds'[x] = suspendedOutDevIds[x]
                       /\ a2dpMuted'[x] = a2dpMuted[x]
                 /\ LET applies == "a2dp" \in mDevices[s]
                                   /\ ("spk" \in mDevices[s] \/ ~a2dpMuted[s])
                    IN  /\ suspendedOutDevIds'[s] = IF applies THEN Marked(s)
                                                    ELSE suspendedOutDevIds[s]
                        /\ a2dpMuted'[s] <=> a2dpMuted[s] \/ (applies /\ "spk" \notin mDevices[s])
           /\ collectOne(t, s) =>
                 /\ pc[t] = "collect" /\ s \in loc[t].todo
                 /\ LET back == IF "a2dp" \in suspendedOutDevIds[s] THEN {s} ELSE {}
                        from == IF Cardinality(suspendedOutDevIds[s]) = 1 THEN mDevices[s] ELSE {}
                    IN  Becomes(t, "collect", loc[t].todo \ {s}, loc[t].disc \cup (back \X from),
                                loc[t].conn \cup (back \X {"a2dp"}), loc[t].then)
                 /\ UNCHANGED <<suspendedOutDevIds, a2dpMuted>>
           /\ unmuteOne(t, s) =>
                 /\ pc[t] = "unmute" /\ s \in loc[t].todo
                 /\ Becomes(t, "unmute", loc[t].todo \ {s}, loc[t].disc, loc[t].conn, loc[t].then)
                 /\ \A x \in Streams : x # s =>
                       /\ suspendedOutDevIds'[x] = suspendedOutDevIds[x]
                       /\ a2dpMuted'[x] = a2dpMuted[x]
                 /\ suspendedOutDevIds'[s] = {} /\ ~a2dpMuted'[s]
<1> USE DEF Inv
<1>0. /\ t \in Threads /\ DOMAIN pc = Threads /\ DOMAIN loc = Threads /\ loc[t] \in Loc
      /\ DOMAIN suspendedOutDevIds = Streams /\ a2dpMuted \in [Streams -> BOOLEAN] /\ Types
    BY Kin DEF Types
<1>1. ASSUME loc' = [loc EXCEPT ![t] = [loc[t] EXCEPT !.todo = @ \ {s}]], UNCHANGED pc
      PROVE  Becomes(t, pc[t], loc[t].todo \ {s}, loc[t].disc, loc[t].conn, loc[t].then)
  <2>1. loc'[t] = [loc[t] EXCEPT !.todo = loc[t].todo \ {s}]
      BY <1>0, <1>1
  <2>. QED
      BY <1>0, <1>1, <2>1 DEF Becomes, Loc
<1>2. ASSUME markOne(t, s)
      PROVE  /\ pc[t] = "mark" /\ s \in loc[t].todo
             /\ Becomes(t, "mark", loc[t].todo \ {s}, loc[t].disc, loc[t].conn, loc[t].then)
             /\ \A x \in Streams : x # s =>
                   /\ suspendedOutDevIds'[x] = suspendedOutDevIds[x]
                   /\ a2dpMuted'[x] = a2dpMuted[x]
  <2>1. /\ loc' = [loc EXCEPT ![t] = [loc[t] EXCEPT !.todo = @ \ {s}]]
        /\ UNCHANGED pc /\ pc[t] = "mark" /\ s \in loc[t].todo
      BY <1>2 DEF markOne, Set
  <2>2. \A x \in Streams : x # s =>
            /\ suspendedOutDevIds'[x] = suspendedOutDevIds[x] /\ a2dpMuted'[x] = a2dpMuted[x]
      BY <1>0, <1>2 DEF markOne
  <2>. QED
      BY <1>1, <2>1, <2>2
<1>3. ASSUME markOne(t, s)
      PROVE  LET applies == "a2dp" \in mDevices[s] /\ ("spk" \in mDevices[s] \/ ~a2dpMuted[s])
             IN  /\ suspendedOutDevIds'[s] = IF applies THEN Marked(s) ELSE suspendedOutDevIds[s]
                 /\ a2dpMuted'[s] <=> a2dpMuted[s] \/ (applies /\ "spk" \notin mDevices[s])
  <2> DEFINE applies == "a2dp" \in mDevices[s] /\ ("spk" \in mDevices[s] \/ ~a2dpMuted[s])
  <2>1. suspendedOutDevIds'[s] = IF applies THEN Marked(s) ELSE suspendedOutDevIds[s]
      BY <1>0, <1>3 DEF markOne
  <2>2. a2dpMuted'[s] = (a2dpMuted[s] \/ (applies /\ "spk" \notin mDevices[s]))
    <3>1. a2dpMuted' = [a2dpMuted EXCEPT
              ![s] = a2dpMuted[s] \/ (applies /\ "spk" \notin mDevices[s])]
        BY <1>3, Zenon DEF markOne
    <3>. QED
        BY <1>0, <3>1, Zenon
  <2>. QED
      BY <2>1, <2>2
<1>4. ASSUME collectOne(t, s)
      PROVE  /\ pc[t] = "collect" /\ s \in loc[t].todo
             /\ LET back == IF "a2dp" \in suspendedOutDevIds[s] THEN {s} ELSE {}
                    from == IF Cardinality(suspendedOutDevIds[s]) = 1 THEN mDevices[s] ELSE {}
                IN  Becomes(t, "collect", loc[t].todo \ {s}, loc[t].disc \cup (back \X from),
                            loc[t].conn \cup (back \X {"a2dp"}), loc[t].then)
             /\ UNCHANGED <<suspendedOutDevIds, a2dpMuted>>
  <2> DEFINE back == IF "a2dp" \in suspendedOutDevIds[s] THEN {s} ELSE {}
             from == IF Cardinality(suspendedOutDevIds[s]) = 1 THEN mDevices[s] ELSE {}
             conn == loc[t].conn \cup (back \X {"a2dp"})
             disc == loc[t].disc \cup (back \X from)
  <2>1. /\ loc' = [loc EXCEPT ![t] = [loc[t] EXCEPT !.todo = loc[t].todo \ {s},
                                                    !.conn = conn, !.disc = disc]]
        /\ UNCHANGED pc /\ pc[t] = "collect" /\ s \in loc[t].todo
        /\ UNCHANGED <<suspendedOutDevIds, a2dpMuted>>
      BY <1>4 DEF collectOne, Set, streamVars
  <2> HIDE DEF conn, disc
  <2>2. loc'[t] = [loc[t] EXCEPT !.todo = loc[t].todo \ {s}, !.conn = conn, !.disc = disc]
      BY <1>0, <2>1
  <2>3. Becomes(t, "collect", loc[t].todo \ {s}, disc, conn, loc[t].then)
      BY <1>0, <2>1, <2>2 DEF Becomes, Loc
  <2>. QED
      BY <2>1, <2>3 DEF conn, disc
<1>5. ASSUME unmuteOne(t, s)
      PROVE  /\ pc[t] = "unmute" /\ s \in loc[t].todo
             /\ Becomes(t, "unmute", loc[t].todo \ {s}, loc[t].disc, loc[t].conn, loc[t].then)
             /\ \A x \in Streams : x # s =>
                   /\ suspendedOutDevIds'[x] = suspendedOutDevIds[x]
                   /\ a2dpMuted'[x] = a2dpMuted[x]
             /\ suspendedOutDevIds'[s] = {} /\ ~a2dpMuted'[s]
  <2>1. /\ loc' = [loc EXCEPT ![t] = [loc[t] EXCEPT !.todo = @ \ {s}]]
        /\ UNCHANGED pc /\ pc[t] = "unmute" /\ s \in loc[t].todo
      BY <1>5 DEF unmuteOne, Set
  <2>2. /\ \A x \in Streams : x # s =>
            /\ suspendedOutDevIds'[x] = suspendedOutDevIds[x] /\ a2dpMuted'[x] = a2dpMuted[x]
        /\ suspendedOutDevIds'[s] = {} /\ ~a2dpMuted'[s]
      BY <1>0, <1>5 DEF unmuteOne
  <2>. QED
      BY <1>1, <2>1, <2>2
<1>. QED
    BY <1>2, <1>3, <1>4, <1>5, Zenon

LEMMA SwitchSteps ==
    ASSUME Inv, NEW t \in Threads
    PROVE  /\ devSwitchLock(t) =>
                 /\ pc[t] = "devSwitch" /\ UNCHANGED <<streamVars, bt, mStreamMutex, told>>
                 /\ \/ /\ {x[2] : x \in Living(loc[t].conn)} = {"a2dp"} /\ ~Ready
                       /\ loc'[t].status = "ENODEV"
                       /\ Becomes(t, loc[t].then, loc[t].todo, loc[t].disc, loc[t].conn,
                                  loc[t].then)
                    \/ /\ loc'[t].status = loc[t].status
                       /\ Becomes(t, "lockAll",
                                  {x[1] : x \in Living(loc[t].conn) \cup Living(loc[t].disc)},
                                  Living(loc[t].disc), Living(loc[t].conn), loc[t].then)
           /\ \A s \in Streams : lockOne(t, s) =>
                 /\ pc[t] = "lockAll" /\ s \in loc[t].todo
                 /\ Becomes(t, "lockAll", loc[t].todo \ {s}, loc[t].disc, loc[t].conn, loc[t].then)
                 /\ UNCHANGED <<streamVars, bt, told>>
           /\ devSwitchLock(t) \/ (\E s \in Streams : lockOne(t, s)) =>
                 loc'[t].devs = loc[t].devs /\ loc'[t].ready = loc[t].ready
<1> USE DEF Inv
<1>0. DOMAIN pc = Threads /\ DOMAIN loc = Threads /\ loc[t] \in Loc /\ Types
    BY DEF Types
<1>1. ASSUME devSwitchLock(t), mActiveStreamMutex' = mActiveStreamMutex
      PROVE  /\ {x[2] : x \in Living(loc[t].conn)} = {"a2dp"} /\ ~Ready
             /\ loc'[t].status = "ENODEV"
             /\ loc'[t].devs = loc[t].devs /\ loc'[t].ready = loc[t].ready
             /\ Becomes(t, loc[t].then, loc[t].todo, loc[t].disc, loc[t].conn, loc[t].then)
  <2>1. /\ pc' = [pc EXCEPT ![t] = loc[t].then]
        /\ loc' = [loc EXCEPT ![t] = [loc[t] EXCEPT !.status = "ENODEV"]]
        /\ {x[2] : x \in Living(loc[t].conn)} = {"a2dp"} /\ ~Ready
    <3>1. t # "none"
        BY RoutingAssumption DEF Threads
    <3>. QED
        BY <1>1, <3>1 DEF devSwitchLock, Goto, Set, Living, Ready, LockActive, ActiveFree
  <2>2. pc'[t] = loc[t].then /\ loc'[t] = [loc[t] EXCEPT !.status = "ENODEV"]
      BY <1>0, <2>1
  <2>3. PICK r : r = [loc[t] EXCEPT !.status = "ENODEV"]
      OBVIOUS
  <2>4. /\ r.todo = loc[t].todo /\ r.disc = loc[t].disc /\ r.conn = loc[t].conn
        /\ r.then = loc[t].then /\ r.status = "ENODEV" /\ r.devs = loc[t].devs
        /\ r.ready = loc[t].ready
      BY <1>0, <2>3 DEF Loc
  <2>. QED
      BY <2>1, <2>2, <2>3, <2>4, Zenon DEF Becomes
<1>2. ASSUME devSwitchLock(t), mActiveStreamMutex' # mActiveStreamMutex
      PROVE  /\ loc'[t].devs = loc[t].devs /\ loc'[t].ready = loc[t].ready
             /\ loc'[t].status = loc[t].status
             /\ Becomes(t, "lockAll", {x[1] : x \in Living(loc[t].conn) \cup Living(loc[t].disc)},
                        Living(loc[t].disc), Living(loc[t].conn), loc[t].then)
  <2> DEFINE conn == Living(loc[t].conn)
             disc == Living(loc[t].disc)
             todo == {x[1] : x \in conn \cup disc}
  <2>1. /\ pc' = [pc EXCEPT ![t] = "lockAll"]
        /\ loc' = [loc EXCEPT ![t] = [loc[t] EXCEPT !.conn = conn, !.disc = disc, !.todo = todo]]
      BY <1>2 DEF devSwitchLock, Goto, Set, Living
  <2> HIDE DEF conn, disc, todo
  <2>2. /\ pc'[t] = "lockAll"
        /\ loc'[t] = [loc[t] EXCEPT !.conn = conn, !.disc = disc, !.todo = todo]
      BY <1>0, <2>1
  <2>3. PICK r : r = [loc[t] EXCEPT !.conn = conn, !.disc = disc, !.todo = todo]
      OBVIOUS
  <2>4. /\ r.todo = todo /\ r.disc = disc /\ r.conn = conn /\ r.status = loc[t].status
        /\ r.then = loc[t].then /\ r.devs = loc[t].devs /\ r.ready = loc[t].ready
      BY <1>0, <2>3 DEF Loc
  <2>5. /\ Becomes(t, "lockAll", todo, disc, conn, loc[t].then)
        /\ loc'[t].devs = loc[t].devs /\ loc'[t].ready = loc[t].ready
        /\ loc'[t].status = loc[t].status
      BY <2>2, <2>3, <2>4, Zenon DEF Becomes
  <2>. QED
      BY <2>5 DEF conn, disc, todo
<1>3. ASSUME NEW s \in Streams, lockOne(t, s)
      PROVE  /\ pc[t] = "lockAll" /\ s \in loc[t].todo
             /\ Becomes(t, "lockAll", loc[t].todo \ {s}, loc[t].disc, loc[t].conn, loc[t].then)
             /\ UNCHANGED <<streamVars, bt, told>>
             /\ loc'[t].devs = loc[t].devs /\ loc'[t].ready = loc[t].ready
  <2>1. /\ UNCHANGED pc /\ pc[t] = "lockAll" /\ s \in loc[t].todo
        /\ loc' = [loc EXCEPT ![t] = [loc[t] EXCEPT !.todo = loc[t].todo \ {s}]]
        /\ UNCHANGED <<streamVars, bt, told>>
      BY <1>3 DEF lockOne, Set
  <2>2. loc'[t] = [loc[t] EXCEPT !.todo = loc[t].todo \ {s}]
      BY <1>0, <2>1
  <2>. QED
      BY <1>0, <2>1, <2>2 DEF Becomes, Loc
<1>4. devSwitchLock(t) => pc[t] = "devSwitch" /\ UNCHANGED <<streamVars, bt, mStreamMutex, told>>
    BY DEF devSwitchLock
<1>. QED
    BY <1>1, <1>2, <1>3, <1>4

LEMMA PlanEffect ==
    ASSUME Inv, NEW s \in Streams, plan(s)
    PROVE  LET ds == loc[s].devs
               ready == {d \in ds : isDeviceReady(d)}
           IN  /\ pc[s] = "plan" /\ mStreamMutex[s] = "none"
               /\ UNCHANGED <<currentState, mDevices, a2dpMuted, deviceCount, bt, mStreamMutex,
                              want, stranded, faults>>
               /\ \A x \in Streams : x # s => suspendedOutDevIds'[x] = suspendedOutDevIds[x]
               /\ suspendedOutDevIds'[s] = IF ready = {} THEN {"a2dp"} ELSE suspendedOutDevIds[s]
               /\ ignored' = IF ready = {} /\ ~a2dpMuted[s] THEN ignored \cup {s} ELSE ignored
               /\ ready = {} => pc'[s] = "idle"
               /\ ready # {} =>
                     /\ loc'[s].devs = ds /\ (loc'[s].ready <=> Ready) /\ pc'[s] = "devSwitch"
                     /\ loc'[s].then = "done"
                     /\ \E again \in SUBSET ready :
                          LET others == {x \in Alive \X again : x[2] \in mDevices[x[1]]}
                          IN  /\ loc'[s].disc = ({s} \X (mDevices[s] \ ds)) \cup others
                              /\ loc'[s].conn = ({s} \X ready) \cup others
<1> USE DEF Inv
<1>0. s \in Threads /\ DOMAIN pc = Threads /\ DOMAIN loc = Threads /\ loc[s] \in Loc
    BY Kin DEF Types
<1> DEFINE ds == loc[s].devs
           ready == {d \in ds : isDeviceReady(d)}
<1>1. /\ pc[s] = "plan" /\ mStreamMutex[s] = "none"
      /\ UNCHANGED <<currentState, mDevices, a2dpMuted, deviceCount, bt, mStreamMutex,
                     want, stranded, faults>>
      /\ \A x \in Streams : x # s => suspendedOutDevIds'[x] = suspendedOutDevIds[x]
      /\ suspendedOutDevIds'[s] = IF ready = {} THEN {"a2dp"} ELSE suspendedOutDevIds[s]
      /\ ignored' = IF ready = {} /\ ~a2dpMuted[s] THEN ignored \cup {s} ELSE ignored
    BY DEF plan, StreamFree, Types
<1>2. /\ ready = {} => pc' = [pc EXCEPT ![s] = "idle"]
      /\ ready # {} => /\ pc' = [pc EXCEPT ![s] = "devSwitch"]
                       /\ \E again \in SUBSET ready :
                             loc' = [loc EXCEPT ![s] = Lists(s, ds, ready, again)]
    BY DEF plan, Return, Goto, Set
<1>3. ready = {} => pc'[s] = "idle"
    BY <1>0, <1>2
<1>4. ASSUME ready # {}
      PROVE  /\ loc'[s].devs = ds /\ (loc'[s].ready <=> Ready) /\ pc'[s] = "devSwitch"
             /\ loc'[s].then = "done"
             /\ \E again \in SUBSET ready :
                  LET others == {x \in Alive \X again : x[2] \in mDevices[x[1]]}
                  IN  /\ loc'[s].disc = ({s} \X (mDevices[s] \ ds)) \cup others
                      /\ loc'[s].conn = ({s} \X ready) \cup others
  <2>1. PICK again \in SUBSET ready : loc' = [loc EXCEPT ![s] = Lists(s, ds, ready, again)]
      BY <1>2, <1>4
  <2> DEFINE others == {x \in Alive \X again : x[2] \in mDevices[x[1]]}
             disc == ({s} \X (mDevices[s] \ ds)) \cup others
             conn == ({s} \X ready) \cup others
  <2>2. loc'[s] = Lists(s, ds, ready, again)
      BY <1>0, <2>1
  <2>3. Lists(s, ds, ready, again) = [Nothing EXCEPT !.disc = disc, !.conn = conn,
                        !.devs = ds, !.ready = isDeviceReady("a2dp"), !.then = "done"]
      BY DEF Lists
  <2> HIDE DEF disc, conn, ready, ds
  <2>4. PICK r : r = [Nothing EXCEPT !.disc = disc, !.conn = conn,
                        !.devs = ds, !.ready = isDeviceReady("a2dp"), !.then = "done"]
      OBVIOUS
  <2>5. /\ r.disc = disc /\ r.conn = conn /\ r.devs = ds /\ r.ready = isDeviceReady("a2dp")
        /\ r.then = "done"
      BY <2>4 DEF Nothing
  <2>6. /\ loc'[s].disc = disc /\ loc'[s].conn = conn /\ loc'[s].devs = ds
        /\ loc'[s].ready = isDeviceReady("a2dp") /\ loc'[s].then = "done"
      BY <2>2, <2>3, <2>4, <2>5, Zenon
  <2>7. pc'[s] = "devSwitch"
      BY <1>0, <1>2, <1>4
  <2>8. loc'[s].ready <=> Ready
      BY <2>6 DEF Ready
  <2>. QED
      BY <2>6, <2>7, <2>8 DEF disc, conn
<1>. QED
    BY <1>1, <1>3, <1>4

LEMMA DoneEffect ==
    ASSUME Inv, NEW s \in Streams, switchDone(s)
    PROVE  /\ pc[s] = "done" /\ pc'[s] = "idle"
           /\ UNCHANGED <<currentState, mDevices, deviceCount, bt, locks, told, leaked, faults>>
           /\ ~a2dpMuted'[s]
           /\ suspendedOutDevIds'[s] =
                 IF loc[s].devs = Devices /\ ~loc[s].ready THEN Devices ELSE {}
           /\ \A x \in Streams : x # s => /\ suspendedOutDevIds'[x] = suspendedOutDevIds[x]
                                          /\ a2dpMuted'[x] = a2dpMuted[x]
BY Kin DEF switchDone, Return, Goto, Set, Types, Inv

-----------------------------------------------------------------------------
(* A start() that met the suspension is on its way to the speaker with a mark *)
(* on it, and a resumption will still look at it; while the device is         *)
(* suspended no stream plays on it but those the suspension is about to move. *)

Muting(s) == pc[s] = "devices" /\ loc[s].then = "mute"
Collecting(t, s) == pc[t] = "a2dpResume" \/ (pc[t] = "collect" /\ s \in loc[t].todo)
Collectable(s) == \E t \in Threads : Collecting(t, s)
Waits(s) == bt.suspended \/ Gone(bt) \/ Collectable(s)

AwaitAt(s) ==
    /\ pc[s] = "route" => mDevices[s] = {"a2dp"}
    /\ Muting(s) => mDevices[s] = Devices
    /\ pc[s] = "route" \/ Muting(s) => suspendedOutDevIds[s] = {"a2dp"} /\ Waits(s)
    /\ pc[s] = "devices" /\ "a2dp" \in mDevices[s] /\ bt.suspended => Muting(s)

Leaving(t, s) ==
    \/ pc[t] = "a2dpSuspend"
    \/ /\ pc[t] \in {"mark", "force", "devSwitch", "lockAll"} /\ loc[t].then = "forced"
       /\ <<s, "a2dp">> \in loc[t].disc
NoPlayer(s) ==
    bt.suspended /\ bt.available /\ Runs(s) /\ "a2dp" \in mDevices[s] =>
        \E t \in Threads : Leaving(t, s)

Await == \A s \in Streams : AwaitAt(s) /\ NoPlayer(s)

(* Who is at these points is in the middle of something.                      *)
LEMMA CollectingPhase ==
    ASSUME NEW t \in Threads, NEW s
    PROVE  /\ Collecting(t, s) => Phase(t) = "up" /\ pc[t] \in {"a2dpResume", "collect"}
           /\ Leaving(t, s) => Phase(t) = "down"
BY DEF Collecting, Leaving, Phase, PhaseAt

(* The suspension ends: with a resumption, with the device gone, or with the  *)
(* streams left behind and no start() on its way to the speaker.              *)
LEMMA Clearing ==
    ASSUME Orderly, Inv, Order, NEW t \in BtThreads, suspendClear(t)
    PROVE  /\ UNCHANGED <<streamVars, loc, mStreamMutex, want, ignored>> /\ pc[t] = "clear"
           /\ stranded \subseteq stranded' /\ Only(t)
           /\ bt.suspended /\ ~bt'.suspended /\ bt'.available = bt.available /\ bt'.state = bt.state
           /\ \/ pc'[t] = "a2dpResume" \/ Gone(bt)
              \/ /\ pc'[t] = "idle" /\ \A s \in Streams : ~Detouring(s)
                 /\ \A s \in Alive : suspendedOutDevIds[s] # {} => s \in stranded'
<1> USE DEF Inv, Order
<1>0. t \in Threads /\ t \notin Streams /\ bt \in Bt /\ DOMAIN pc = Threads
    BY Kin DEF Types
<1>1. PICK skip \in BOOLEAN :
          LET up == bt.suspended /\ bt.state # "DISCONNECTED"
          IN  /\ skip => up /\ (Overtakes \/ \A s \in Streams : ~Detouring(s))
              /\ stranded' = IF skip
                              THEN stranded \cup {s \in Alive : suspendedOutDevIds[s] # {}}
                              ELSE stranded
              /\ Goto(t, IF up /\ ~skip THEN "a2dpResume" ELSE "idle")
    BY DEF suspendClear
<1>2. /\ pc[t] = "clear" /\ UNCHANGED <<streamVars, loc, locks, want, ignored>>
      /\ bt' = [bt EXCEPT !.suspended = FALSE, !.setparam = (t = "hal")]
    BY DEF suspendClear
<1>3. /\ Phase(t) = "clear" /\ \A u \in Threads : Phase(u) # "none" => u = t
    BY <1>0, <1>2 DEF Phase, PhaseAt, OneAtATime
<1>4. ~Connecting /\ bt.suspended /\ KindAt(t, pc[t], loc[t])
    BY <1>0, <1>3 DEF Connecting, Flags, FlagsAt, Kinds
<1>6. PICK p \in {"idle", "a2dpResume"} :
          /\ pc' = [pc EXCEPT ![t] = p]
          /\ p = "a2dpResume" <=> bt.state # "DISCONNECTED" /\ ~skip
    BY <1>1, <1>4 DEF Goto
<1>7. pc'[t] = p /\ \A u \in Threads : u # t => pc'[u] = pc[u]
    BY <1>0, <1>6
<1>8. ~bt'.suspended /\ bt'.available = bt.available /\ bt'.state = bt.state
    BY <1>0, <1>2 DEF Bt
<1>9. KindAt(t, p, loc[t])
    BY <1>0, <1>2, <1>4 DEF KindAt, PhaseAt, Listing
<1>10. KindAt(t, pc[t], loc[t])'
    BY <1>2, <1>7, <1>9, Zenon DEF KindAt, PhaseAt
<1>11. Only(t)
    BY <1>2, <1>7, <1>10 DEF Only
<1>12. \/ pc'[t] = "a2dpResume" \/ Gone(bt)
       \/ /\ pc'[t] = "idle" /\ \A s \in Streams : ~Detouring(s)
          /\ \A s \in Alive : suspendedOutDevIds[s] # {} => s \in stranded'
  <2>1. CASE skip
      BY <1>1, <1>6, <1>7, <2>1 DEF Orderly
  <2>2. CASE ~skip
      BY <1>4, <1>6, <1>7, <2>2 DEF Flags, Gone
  <2>. QED
      BY <2>1, <2>2
<1>13. stranded \subseteq stranded'
    BY <1>1
<1>. QED
    BY <1>2, <1>4, <1>8, <1>11, <1>12, <1>13 DEF locks


(* What is the same of a stream after a step.                                 *)
Untouched(s) ==
    /\ mDevices'[s] = mDevices[s] /\ suspendedOutDevIds'[s] = suspendedOutDevIds[s]
    /\ a2dpMuted'[s] = a2dpMuted[s] /\ currentState'[s] = currentState[s]
    /\ want'[s] = want[s] /\ ((s \in ignored)' <=> s \in ignored)
Stays(s) == s \in stranded => (s \in stranded)'

LEMMA CallsFrame ==
    ASSUME Types, NEW x \in Streams, Calls(x), NEW s \in Streams, s # x
    PROVE  Untouched(s) /\ Stays(s)
<1>1. CASE \E ds \in Routes : open(x, ds)
  <2>1. PICK ds \in Routes : open(x, ds)
      BY <1>1
  <2>2. /\ currentState' = [currentState EXCEPT ![x] = "INIT"]
        /\ mDevices' = [mDevices EXCEPT ![x] = ds]
        /\ suspendedOutDevIds' = [suspendedOutDevIds EXCEPT ![x] = {}]
        /\ a2dpMuted' = [a2dpMuted EXCEPT ![x] = FALSE]
        /\ want' = [want EXCEPT ![x] = ds] /\ ignored' = ignored \ {x}
        /\ stranded' = stranded \ {x}
      BY <2>1 DEF open
  <2>. QED
      BY <2>2 DEF Types, Untouched, Stays
<1>2. CASE close(x)
    BY <1>2 DEF close, Types, Untouched, Stays
<1>3. CASE startReady(x) \/ startCombo(x) \/ startAlone(x) \/ startRoute(x)
           \/ stopLock(x) \/ stop(x)
    BY <1>3 DEF startReady, startCombo, startAlone, startRoute, stopLock, stop,
                Types, streamVars, told, Untouched, Stays
<1>4. CASE startDevices(x)
    BY <1>4, StartEffect DEF Untouched, Stays
<1>. QED
    BY <1>1, <1>2, <1>3, <1>4 DEF Calls

LEMMA SwitchDeviceEffect ==
    ASSUME Inv, NEW x \in Streams, NEW ds \in Routes, switchDevice(x, ds)
    PROVE  /\ pc[x] = "idle" /\ pc'[x] = "plan" /\ loc'[x] = [Nothing EXCEPT !.devs = ds]
           /\ x \in Alive /\ UNCHANGED <<streamVars, bt>>
           /\ loc'[x].devs = ds /\ want'[x] = ds /\ x \notin ignored'
           /\ \A s \in Streams : s # x => Untouched(s) /\ Stays(s)
BY Kin DEF switchDevice, Goto, Set, Inv, Types, Nothing, streamVars, Untouched, Stays

LEMMA RoutingStays ==
    ASSUME Inv, NEW t \in Threads, plan(t) \/ switchDone(t), t \in Streams
    PROVE  \A s \in Streams : s # t => Untouched(s) /\ Stays(s)
BY PlanEffect, DoneEffect DEF Untouched, Stays, told

(* A stream in the middle of start() has its mStreamMutex: nobody else moves  *)
(* it or changes its marks.                                                   *)
LEMMA StartAlone ==
    ASSUME Inv, Inv', Order, Next, NEW s \in Streams, pc[s] \in {"route", "devices"}, ~Calls(s)
    PROVE  /\ pc'[s] = pc[s] /\ loc'[s] = loc[s] /\ mDevices'[s] = mDevices[s]
           /\ suspendedOutDevIds'[s] = suspendedOutDevIds[s] /\ a2dpMuted'[s] = a2dpMuted[s]
           /\ currentState'[s] = currentState[s] /\ want'[s] = want[s]
           /\ (s \in ignored)' <=> s \in ignored
<1> USE DEF Inv, Order
<1>0. s \in Threads /\ mStreamMutex[s] = s /\ s # "none" /\ Phase(s) = "none"
    BY Kin, RoutingAssumption DEF Locked, Phase, PhaseAt
<1>1. CASE \E x \in Streams : Calls(x)
  <2>1. PICK x \in Streams : Calls(x)
      BY <1>1
  <2>2. x # s
      BY <2>1
  <2>3. pc'[s] = pc[s] /\ loc'[s] = loc[s]
      BY <1>0, <2>1, <2>2, CallsGo DEF Only
  <2>. QED
      BY <2>1, <2>2, <2>3, CallsFrame DEF Untouched
<1>2. CASE \E x \in Streams : \E ds \in Routes : switchDevice(x, ds)
  <2>1. PICK x \in Streams, ds \in Routes : switchDevice(x, ds)
      BY <1>2
  <2>2. x # s /\ x \in Threads
      BY <2>1, Kin DEF switchDevice
  <2>. QED
      BY <2>1, <2>2, <1>0 DEF switchDevice, Goto, Set, Types, streamVars
<1>3. CASE \E t \in Threads : Routing(t)
  <2>1. PICK t \in Threads : Routing(t)
      BY <1>3
  <2>2. t # s
      BY <1>0, <2>1, RoutingGoes
  <2>3. pc'[s] = pc[s] /\ loc'[s] = loc[s]
      BY <1>0, <2>1, <2>2, RoutingGoes DEF Only
  <2>4. CASE devSwitch(t)
    <3>1. loc[t].todo = {} /\ pc[t] = "lockAll"
        BY <2>4, SwitchEffect
    <3>2. \A d \in Devices : <<s, d>> \notin loc[t].conn \cup loc[t].disc
        BY <1>0, <2>2, <3>1 DEF Locked
    <3>3. mDevices'[s] = mDevices[s]
      <4>1. /\ mDevices'[s] \subseteq After(loc[t], s)
            /\ \A d \in mDevices[s] \ mDevices'[s] : <<s, d>> \in loc[t].disc
          BY <2>4, SwitchEffect
      <4>2. mDevices[s] \subseteq Devices
          BY DEF Types
      <4>. QED
          BY <3>2, <4>1, <4>2 DEF After
    <3>. QED
        BY <2>3, <2>4, <3>3, SwitchEffect DEF told
  <2>5. CASE plan(t) \/ switchDone(t)
      BY <1>0, <2>2, <2>3, <2>5 DEF plan, switchDone, Types, told
  <2>6. CASE devSwitchLock(t) \/ \E x \in Streams : lockOne(t, x)
      BY <2>3, <2>6 DEF devSwitchLock, lockOne, streamVars, told
  <2>. QED
      BY <2>1, <2>4, <2>5, <2>6 DEF Routing
<1>4. CASE \E t \in BtThreads : BtFlags(t)
  <2>1. PICK t \in BtThreads : BtFlags(t)
      BY <1>4
  <2>2. t # s /\ t \in Threads
      BY <2>1, Kin
  <2>. QED
      BY <1>0, <2>1, <2>2 DEF BtFlags, setBTParameter, deviceConnection, suspendSet, suspendClear,
         open_a2dp_source, close_audio_source, Goto, streamVars, told, Types
<1>5. CASE \E t \in BtThreads : BtCalls(t)
  <2>1. PICK t \in BtThreads : BtCalls(t)
      BY <1>5
  <2>2. t # s /\ t \in Threads
      BY <2>1, Kin
  <2>3. pc'[s] = pc[s] /\ loc'[s] = loc[s]
      BY <1>0, <2>1, <2>2, BtCallsGo DEF Only
  <2>4. UNCHANGED <<currentState, mDevices, want, ignored>>
      BY <2>1, BtCallsStill
  <2>5. suspendedOutDevIds'[s] = suspendedOutDevIds[s] /\ a2dpMuted'[s] = a2dpMuted[s]
    <3>1. CASE UNCHANGED <<suspendedOutDevIds, a2dpMuted>>
        BY <3>1
    <3>2. CASE \E x \in Streams : markOne(t, x) \/ unmuteOne(t, x)
      <4>1. PICK x \in Streams : markOne(t, x) \/ unmuteOne(t, x)
          BY <3>2
      <4>2. x # s
          BY <1>0, <4>1 DEF markOne, unmuteOne, StreamFree
      <4>. QED
          BY <4>1, <4>2 DEF markOne, unmuteOne, Types
    <3>. QED
        BY <2>1, <3>1, <3>2 DEF BtCalls, a2dpSuspend, markedAll, forceDeviceSwitch, forced,
           forcedAgain, a2dpResume, collectedAll, restored, unmutedAll, collectOne, streamVars
  <2>. QED
      BY <2>3, <2>4, <2>5 DEF told
<1>. QED
    BY <1>1, <1>2, <1>3, <1>4, <1>5, StepKinds

(* What a stream that start() marked waits for: the suspension, or the        *)
(* resumption that collects it; a device that is gone does not come back      *)
(* before the stream is routed elsewhere.                                     *)
LEMMA WaitsKeep ==
    ASSUME Orderly, Inv, Inv', Order, Await, Next, NEW s \in Streams,
           pc[s] \in {"route", "devices"}, "a2dp" \in mDevices[s],
           suspendedOutDevIds[s] = {"a2dp"}, pc[s] = "route" \/ Muting(s), Waits(s)
    PROVE  Waits(s)'
<1> USE DEF Inv, Order
<1>0. s \in Threads /\ mStreamMutex[s] = s /\ s # "none" /\ s \in Alive
    BY Kin, RoutingAssumption DEF Locked, Placed, Alive
<1>1. ASSUME Steady, Gone(bt) => Gone(bt'), Collectable(s) => Waits(s)'
      PROVE  Waits(s)'
  <2>1. bt.suspended => bt'.suspended
      BY <1>1 DEF Steady
  <2>. QED
      BY <1>1, <2>1 DEF Waits
<1>2. ASSUME NEW t \in Threads, Only(t), pc[t] \notin {"a2dpResume", "collect"}, Collectable(s)
      PROVE  Waits(s)'
  <2>1. PICK u \in Threads : Collecting(u, s)
      BY <1>2 DEF Collectable
  <2>2. u # t
      BY <1>2, <2>1 DEF Collecting
  <2>3. pc'[u] = pc[u] /\ loc'[u] = loc[u]
      BY <1>2, <2>2 DEF Only
  <2>. QED
      BY <2>1, <2>3 DEF Collecting, Collectable, Waits
<1>3. CASE \E x \in Streams : Calls(x)
  <2>1. PICK x \in Streams : Calls(x)
      BY <1>3
  <2>2. Only(x) /\ Phase(x) = "none" /\ Steady /\ (Gone(bt) => Gone(bt')) /\ x \in Threads
      BY <2>1, CallsGo, Kin
  <2>3. pc[x] \notin {"a2dpResume", "collect"}
      BY <2>2 DEF Phase, PhaseAt
  <2>. QED
      BY <1>1, <1>2, <2>2, <2>3
<1>4. CASE \E x \in Streams : \E ds \in Routes : switchDevice(x, ds)
  <2>1. PICK x \in Streams, ds \in Routes : switchDevice(x, ds)
      BY <1>4
  <2>2. Only(x) /\ UNCHANGED bt /\ pc[x] = "idle" /\ x \in Threads
      BY <2>1, SwitchInOrder, Kin DEF switchDevice
  <2>. QED
      BY <1>1, <1>2, <2>2 DEF Steady
<1>5. CASE \E t \in Threads : Routing(t)
  <2>1. PICK t \in Threads : Routing(t)
      BY <1>5
  <2>2. Only(t) /\ Steady /\ (Gone(bt) => Gone(bt'))
      BY <2>1, RoutingGoes, RoutingSteady
  <2>3. pc[t] \notin {"a2dpResume", "collect"}
      BY <2>1 DEF Routing, plan, switchDone, devSwitchLock, devSwitch, lockOne
  <2>. QED
      BY <1>1, <1>2, <2>2, <2>3
<1>6. CASE \E t \in BtThreads : BtFlags(t)
  <2>1. PICK t \in BtThreads : BtFlags(t)
      BY <1>6
  <2>2. t \in Threads /\ DOMAIN pc = Threads /\ bt \in Bt
      BY <2>1, Kin DEF Types
  <2>3. CASE suspendClear(t)
    <3>1. /\ bt'.available = bt.available /\ bt'.state = bt.state
          /\ pc'[t] = "a2dpResume" \/ Gone(bt)
        BY <2>1, <2>3, Clearing DEF Detouring, Muting
    <3>2. Gone(bt) => Gone(bt')
        BY <3>1 DEF Gone
    <3>. QED
        BY <2>2, <3>1, <3>2 DEF Waits, Collectable, Collecting
  <2>4. CASE suspendSet(t)
    <3>1. bt'.suspended = TRUE
        BY <2>2, <2>4 DEF suspendSet, Bt
    <3>. QED
        BY <3>1 DEF Waits
  <2>5. CASE \E on \in BOOLEAN : setBTParameter(t, on)
    <3>1. Nobody /\ UNCHANGED bt
        BY <2>5, NobodyBegins DEF setBTParameter
    <3>2. ~Collectable(s)
        BY <3>1, CollectingPhase DEF Collectable, Nobody
    <3>. QED
        BY <3>1, <3>2 DEF Waits
  <2>6. CASE \E on \in BOOLEAN : deviceConnection(t, on)
    <3>1. PICK on \in BOOLEAN : deviceConnection(t, on)
        BY <2>6
    <3>2. Nobody /\ (on => Unused) /\ bt.available # on /\ bt' = [bt EXCEPT !.available = on]
        BY <3>1, NobodyBegins DEF deviceConnection
    <3>3. ~on /\ bt.available
        BY <2>2, <3>2 DEF Unused, Bt
    <3>4. ~Collectable(s) /\ ~Gone(bt)
        BY <3>2, <3>3, CollectingPhase DEF Collectable, Nobody, Gone
    <3>5. bt.suspended /\ bt'.suspended = bt.suspended
        BY <2>2, <3>2, <3>4 DEF Waits, Bt
    <3>. QED
        BY <3>5 DEF Waits
  <2>7. CASE open_a2dp_source(t) \/ close_audio_source(t)
    <3>1. pc[t] \in {"openSource", "closeSource"}
        BY <2>7 DEF open_a2dp_source, close_audio_source
    <3>2. ~Collectable(s)
        BY <2>2, <3>1, CollectingPhase DEF Collectable, OneAtATime, Phase, PhaseAt
    <3>3. bt'.suspended = bt.suspended /\ (Gone(bt) => Gone(bt'))
        BY <2>2, <2>7, <3>1 DEF open_a2dp_source, close_audio_source, Placed, Gone, Bt
    <3>. QED
        BY <3>2, <3>3 DEF Waits
  <2>. QED
      BY <2>1, <2>3, <2>4, <2>5, <2>6, <2>7 DEF BtFlags
<1>7. CASE \E t \in BtThreads : BtCalls(t)
  <2>1. PICK t \in BtThreads : BtCalls(t)
      BY <1>7
  <2>2. t \in Threads /\ Only(t) /\ UNCHANGED bt /\ DOMAIN loc = Threads /\ DOMAIN pc = Threads
        /\ loc[t] \in Loc /\ Phase(t) # "none"
      BY <2>1, Kin, BtCallsGo, BtCallsStill DEF Types
  <2>3. ASSUME Collectable(s) PROVE Waits(s)'
    <3>1. CASE pc[t] \notin {"a2dpResume", "collect"}
        BY <1>2, <2>2, <2>3, <3>1
    <3>2. CASE pc[t] \in {"a2dpResume", "collect"}
      <4>1. Collecting(t, s)
          BY <2>2, <2>3, CollectingPhase DEF Collectable, OneAtATime
      <4>2. CASE a2dpResume(t)
        <5>1. s \in Candidates
            BY <1>0 DEF Candidates
        <5>2. /\ pc' = [pc EXCEPT ![t] = "collect"]
              /\ loc' = [loc EXCEPT
                    ![t] = [Nothing EXCEPT !.todo = Candidates, !.then = "restored"]]
            BY <4>2, <5>1 DEF a2dpResume, Goto, Set
        <5>3. loc'[t] = [Nothing EXCEPT !.todo = Candidates, !.then = "restored"]
            BY <2>2, <5>2
        <5>4. pc'[t] = "collect" /\ loc'[t].todo = Candidates
            BY <2>2, <5>2, <5>3 DEF Nothing
        <5>. QED
            BY <2>2, <5>1, <5>4 DEF Waits, Collectable, Collecting
      <4>3. CASE \E x \in Streams : collectOne(t, x)
        <5>1. PICK x \in Streams : collectOne(t, x)
            BY <4>3
        <5>2. x # s /\ pc[t] = "collect" /\ UNCHANGED pc
            BY <1>0, <5>1 DEF collectOne, StreamFree
        <5>3. \E conn, disc : loc' = [loc EXCEPT ![t] =
                 [loc[t] EXCEPT !.todo = loc[t].todo \ {x}, !.conn = conn, !.disc = disc]]
            BY <5>1 DEF collectOne, Set
        <5>4. PICK conn, disc : loc'[t] =
                 [loc[t] EXCEPT !.todo = loc[t].todo \ {x}, !.conn = conn, !.disc = disc]
            BY <2>2, <5>3
        <5>5. loc'[t].todo = loc[t].todo \ {x}
            BY <2>2, <5>4 DEF Loc
        <5>6. s \in loc'[t].todo /\ pc'[t] = "collect"
            BY <4>1, <5>2, <5>5 DEF Collecting
        <5>. QED
            BY <2>2, <5>6 DEF Waits, Collectable, Collecting
      <4>4. CASE collectedAll(t)
          BY <4>1, <4>4 DEF collectedAll, Collecting
      <4>. QED
          BY <2>1, <3>2, <4>2, <4>3, <4>4 DEF BtCalls, a2dpSuspend, markedAll, forceDeviceSwitch,
             forced, forcedAgain, restored, unmutedAll, markOne, unmuteOne
    <3>. QED
        BY <3>1, <3>2
  <2>. QED
      BY <1>1, <2>2, <2>3 DEF Steady
<1>. QED
    BY <1>3, <1>4, <1>5, <1>6, <1>7, StepKinds

(* The suspension begins with setDeviceParameter() alone.                     *)
LEMMA WhoSuspends ==
    ASSUME Inv, Inv', Order, Next, ~bt.suspended, bt'.suspended
    PROVE  \E t \in BtThreads : suspendSet(t)
<1> USE DEF Inv, Order
<1>0. bt \in Bt
    BY DEF Types
<1>1. CASE \E s \in Streams : Calls(s)
    BY <1>1, CallsGo DEF Steady
<1>2. CASE \E s \in Streams : \E ds \in Routes : switchDevice(s, ds)
    BY <1>2, SwitchDeviceEffect
<1>3. CASE \E t \in Threads : Routing(t)
    BY <1>3, RoutingSteady DEF Steady
<1>4. CASE \E t \in BtThreads : BtCalls(t)
    BY <1>4, BtCallsStill
<1>5. CASE \E t \in BtThreads : BtFlags(t)
  <2>1. PICK t \in BtThreads : BtFlags(t)
      BY <1>5
  <2>2. CASE \E on \in BOOLEAN : setBTParameter(t, on)
      BY <2>2 DEF setBTParameter
  <2>3. CASE \/ \E on \in BOOLEAN : deviceConnection(t, on)
             \/ open_a2dp_source(t) \/ close_audio_source(t)
      BY <1>0, <2>3 DEF deviceConnection, open_a2dp_source, close_audio_source, Bt
  <2>4. CASE suspendClear(t)
      BY <1>0, <2>4 DEF suspendClear, Bt
  <2>. QED
      BY <2>1, <2>2, <2>3, <2>4 DEF BtFlags
<1>. QED
    BY <1>1, <1>2, <1>3, <1>4, <1>5, StepKinds

(* Only start() comes to the points of start().                               *)
LEMMA WhoStarts ==
    ASSUME Inv, Inv', Order, Next, NEW s \in Streams, ~Calls(s), pc[s] \notin {"route", "devices"}
    PROVE  pc'[s] \notin {"route", "devices"}
<1> USE DEF Inv, Order
<1>0. s \in Threads /\ s \notin BtThreads
    BY Kin
<1>1. CASE \E x \in Streams : Calls(x)
    BY <1>0, <1>1, CallsGo, Kin DEF Only
<1>2. CASE \E x \in Streams : \E ds \in Routes : switchDevice(x, ds)
  <2>1. PICK x \in Streams, ds \in Routes : switchDevice(x, ds)
      BY <1>2
  <2>. QED
      BY <1>0, <2>1 DEF switchDevice, Goto, Types
<1>3. CASE \E t \in Threads : Routing(t)
  <2>1. PICK t \in Threads : Routing(t)
      BY <1>3
  <2>2. CASE t # s
      BY <1>0, <2>1, <2>2, RoutingGoes DEF Only
  <2>3. CASE t = s
    <3>1. CASE devSwitchLock(t) \/ devSwitch(t)
      <4>1. pc'[t] \in {loc[t].then, "lockAll"}
          BY <3>1, SwitchEffect, SwitchSteps DEF Becomes
      <4>2. loc[t].then \in Thens
          BY <3>1 DEF devSwitchLock, devSwitch, Placed
      <4>. QED
          BY <2>3, <4>1, <4>2 DEF Thens
    <3>2. CASE \E x \in Streams : lockOne(t, x)
        BY <2>3, <3>2, SwitchSteps DEF Becomes
    <3>3. CASE plan(t) \/ switchDone(t)
        BY <2>3, <3>3, PlanEffect, DoneEffect
    <3>. QED
        BY <2>1, <2>3, <3>1, <3>2, <3>3 DEF Routing
  <2>. QED
      BY <2>2, <2>3
<1>4. CASE \E t \in BtThreads : BtCalls(t)
    BY <1>0, <1>4, BtCallsGo, Kin DEF Only
<1>5. CASE \E t \in BtThreads : BtFlags(t)
  <2>1. PICK t \in BtThreads : BtFlags(t)
      BY <1>5
  <2>. QED
      BY <1>0, <2>1 DEF BtFlags, setBTParameter, deviceConnection, suspendSet, suspendClear,
         open_a2dp_source, close_audio_source, Goto, Types
<1>. QED
    BY <1>1, <1>2, <1>3, <1>4, <1>5, StepKinds

LEMMA AwaitAtKeeps ==
    ASSUME Orderly, Inv, Inv', Order, Order', Await, Next, NEW s \in Streams
    PROVE  AwaitAt(s)'
<1> USE DEF Inv, Order
<1>0. /\ s \in Threads /\ AwaitAt(s) /\ KindAt(s, pc[s], loc[s]) /\ bt \in Bt
      /\ DOMAIN pc = Threads /\ DOMAIN loc = Threads /\ mDevices[s] \subseteq Devices
    BY Kin DEF Await, Kinds, Types
<1>1. CASE Calls(s)
  <2>1. CASE (\E ds \in Routes : open(s, ds)) \/ close(s) \/ stopLock(s) \/ stop(s)
             \/ startDevices(s)
    <3>1. pc'[s] \in {"idle", "stop"}
        BY <1>0, <2>1 DEF open, close, stopLock, stop, startDevices, Return, Goto
    <3>. QED
        BY <3>1 DEF AwaitAt, Muting
  <2>2. CASE startReady(s) \/ startCombo(s)
    <3>1. pc'[s] = "devices" /\ loc'[s] = loc[s] /\ pc[s] = "idle" /\ UNCHANGED bt
        BY <1>0, <2>2 DEF startReady, startCombo, Goto, CanBegin
    <3>2. ~Muting(s)'
        BY <1>0, <3>1 DEF KindAt, Muting
    <3>3. "a2dp" \in mDevices'[s] => ~bt.suspended
        BY <1>0, <2>2 DEF startReady, startCombo, Suspended, streamVars, Types
    <3>. QED
        BY <3>1, <3>2, <3>3 DEF AwaitAt
  <2>3. CASE startAlone(s)
    <3>1. /\ pc'[s] = "route" /\ UNCHANGED <<bt, mDevices>> /\ bt.suspended
          /\ "a2dp" \in mDevices[s] /\ "spk" \notin mDevices[s] /\ suspendedOutDevIds'[s] = {"a2dp"}
        BY <1>0, <2>3 DEF startAlone, Goto, Suspended, Types
    <3>2. mDevices'[s] = {"a2dp"} /\ Waits(s)'
        BY <1>0, <3>1 DEF Devices, Waits
    <3>. QED
        BY <3>1, <3>2 DEF AwaitAt, Muting
  <2>4. CASE startRoute(s)
    <3>1. /\ pc[s] = "route" /\ pc'[s] = "devices" /\ loc'[s].then = "mute"
          /\ UNCHANGED suspendedOutDevIds /\ mDevices'[s] = mDevices[s] \cup {"spk"}
        BY <1>0, <2>4 DEF startRoute, Goto, Set, Nothing, Types
    <3>2. mDevices[s] = {"a2dp"} /\ suspendedOutDevIds[s] = {"a2dp"} /\ Waits(s)
        BY <1>0, <3>1 DEF AwaitAt
    <3>3. Waits(s)'
        BY <3>1, <3>2, WaitsKeep
    <3>4. mDevices'[s] = Devices
        BY <3>1, <3>2 DEF Devices
    <3>. QED
        BY <3>1, <3>2, <3>3, <3>4 DEF AwaitAt, Muting
  <2>. QED
      BY <1>1, <2>1, <2>2, <2>3, <2>4 DEF Calls
<1>2. CASE ~Calls(s) /\ pc[s] \in {"route", "devices"}
  <2>1. /\ pc'[s] = pc[s] /\ loc'[s] = loc[s] /\ mDevices'[s] = mDevices[s]
        /\ suspendedOutDevIds'[s] = suspendedOutDevIds[s]
      BY <1>2, StartAlone
  <2>2. Muting(s)' <=> Muting(s)
      BY <2>1 DEF Muting
  <2>3. pc[s] = "route" \/ Muting(s) => Waits(s)'
      BY <1>0, <1>2, WaitsKeep DEF AwaitAt, Devices
  <2>4. ASSUME pc[s] = "devices", "a2dp" \in mDevices[s], bt'.suspended PROVE bt.suspended
      BY <2>4, WhoSuspends DEF suspendSet, A2dpStarting, Orderly
  <2>. QED
      BY <1>0, <2>1, <2>2, <2>3, <2>4 DEF AwaitAt
<1>3. CASE ~Calls(s) /\ pc[s] \notin {"route", "devices"}
  <2>1. pc'[s] \notin {"route", "devices"}
      BY <1>3, WhoStarts
  <2>. QED
      BY <2>1 DEF AwaitAt, Muting
<1>. QED
    BY <1>1, <1>2, <1>3

LEMMA NoPlayerKeeps ==
    ASSUME Orderly, Inv, Inv', Order, Order', Await, Next, NEW s \in Streams
    PROVE  NoPlayer(s)'
<1> USE DEF Inv, Order
<1>0. s \in Threads /\ NoPlayer(s) /\ bt \in Bt /\ s \notin BtThreads
    BY Kin DEF Await, Types
<1>1. SUFFICES ASSUME bt'.suspended, bt'.available, Runs(s)', "a2dp" \in mDevices'[s]
               PROVE  \E t \in Threads : Leaving(t, s)'
    BY DEF NoPlayer
<1>2. ASSUME NEW t \in Threads, Only(t), ~Leaving(t, s), NoPlayer(s), bt.suspended, bt.available,
             Runs(s), "a2dp" \in mDevices[s]
      PROVE  \E u \in Threads : Leaving(u, s)'
  <2>1. PICK u \in Threads : Leaving(u, s)
      BY <1>2 DEF NoPlayer
  <2>2. pc'[u] = pc[u] /\ loc'[u] = loc[u]
      BY <1>2, <2>1 DEF Only
  <2>. QED
      BY <2>1, <2>2 DEF Leaving
<1>3. CASE \E x \in Streams : Calls(x)
  <2>1. PICK x \in Streams : Calls(x)
      BY <1>3
  <2>2. x \in Threads /\ Only(x) /\ ~Leaving(x, s) /\ bt.suspended /\ bt.available
      BY <1>1, <2>1, CallsGo, CollectingPhase, Kin DEF Steady
  <2>3. CASE x # s
    <3>1. Runs(s) /\ "a2dp" \in mDevices[s]
        BY <1>1, <2>1, <2>3, CallsFrame DEF Untouched, Runs
    <3>. QED
        BY <1>0, <1>2, <2>2, <3>1
  <2>4. CASE x = s
    <3>1. CASE (\E ds \in Routes : open(s, ds)) \/ close(s) \/ stop(s)
        BY <1>1, <3>1 DEF open, close, stop, Runs, Types
    <3>2. CASE startReady(s) \/ startCombo(s) \/ startAlone(s) \/ startRoute(s)
        BY <1>1, <3>2 DEF startReady, startCombo, startAlone, startRoute, CanBegin, Runs, Placed,
           streamVars
    <3>3. CASE stopLock(s)
        BY <1>0, <1>1, <1>2, <2>2, <2>4, <3>3 DEF stopLock, streamVars, Runs
    <3>4. CASE startDevices(s)
      <4>1. ~MayStart(bt)
          BY <2>2 DEF MayStart
      <4>. QED
          BY <1>1, <3>4, <4>1, StartEffect
    <3>. QED
        BY <2>1, <2>4, <3>1, <3>2, <3>3, <3>4 DEF Calls
  <2>. QED
      BY <2>3, <2>4
<1>4. CASE \E x \in Streams : \E ds \in Routes : switchDevice(x, ds)
  <2>1. PICK x \in Streams, ds \in Routes : switchDevice(x, ds)
      BY <1>4
  <2>2. /\ x \in Threads /\ Only(x) /\ pc[x] = "idle" /\ UNCHANGED <<streamVars, bt>>
      BY <2>1, SwitchInOrder, SwitchDeviceEffect, Kin
  <2>3. ~Leaving(x, s) /\ Runs(s) /\ "a2dp" \in mDevices[s]
      BY <1>1, <2>2 DEF Leaving, Runs, streamVars
  <2>. QED
      BY <1>0, <1>1, <1>2, <2>2, <2>3
<1>5. CASE \E t \in Threads : Routing(t)
  <2>1. PICK t \in Threads : Routing(t)
      BY <1>5
  <2>2. /\ Only(t) /\ bt.suspended /\ bt.available /\ Runs(s) /\ Phase(t) # "none"
        /\ KindAt(t, pc[t], loc[t])
      BY <1>1, <2>1, RoutingGoes, RoutingSteady DEF Steady, Runs, Kinds
  <2>3. CASE devSwitch(t)
    <3>1. "a2dp" \in mDevices[s] /\ <<s, "a2dp">> \notin loc[t].disc /\ pc[t] = "lockAll"
        BY <1>1, <2>2, <2>3, SwitchEffect
    <3>2. ~Leaving(t, s)
        BY <3>1 DEF Leaving
    <3>. QED
        BY <1>0, <1>2, <2>2, <3>1, <3>2
  <2>4. CASE plan(t) \/ switchDone(t)
    <3>1. "a2dp" \in mDevices[s] /\ ~Leaving(t, s)
        BY <1>1, <2>4 DEF plan, switchDone, Leaving
    <3>. QED
        BY <1>0, <1>2, <2>2, <3>1
  <2>5. CASE devSwitchLock(t) \/ \E x \in Streams : lockOne(t, x)
    <3>1. "a2dp" \in mDevices[s]
        BY <1>1, <2>5 DEF devSwitchLock, lockOne, streamVars
    <3>2. ASSUME Leaving(t, s) PROVE Leaving(t, s)'
      <4>1. /\ pc[t] \in {"devSwitch", "lockAll"} /\ loc[t].then = "forced"
            /\ <<s, "a2dp">> \in loc[t].disc /\ s \in Alive
          BY <2>2, <2>5, <3>2 DEF Leaving, devSwitchLock, lockOne, Runs, Alive
      <4>2. CASE \E x \in Streams : lockOne(t, x)
          BY <4>1, <4>2, SwitchSteps DEF Becomes, Leaving
      <4>3. CASE devSwitchLock(t)
        <5>1. {x[2] : x \in Living(loc[t].conn)} # {"a2dp"}
          <6>1. \A x \in Living(loc[t].conn) : x[2] # "a2dp"
              BY <2>2, <4>1 DEF KindAt, Living
          <6>. QED
              BY <6>1
        <5>2. /\ pc'[t] = "lockAll" /\ loc'[t].disc = Living(loc[t].disc)
              /\ loc'[t].then = loc[t].then
            BY <4>3, <5>1, SwitchSteps DEF Becomes
        <5>3. <<s, "a2dp">> \in Living(loc[t].disc)
            BY <4>1 DEF Living
        <5>. QED
            BY <4>1, <5>2, <5>3 DEF Leaving
      <4>. QED
          BY <2>5, <4>2, <4>3
    <3>. QED
        BY <1>0, <1>2, <2>2, <3>1, <3>2
  <2>. QED
      BY <2>1, <2>3, <2>4, <2>5 DEF Routing
<1>6. CASE \E t \in BtThreads : BtFlags(t)
  <2>1. PICK t \in BtThreads : BtFlags(t)
      BY <1>6
  <2>2. t \in Threads /\ DOMAIN pc = Threads
      BY <2>1, Kin DEF Types
  <2>3. Runs(s) /\ "a2dp" \in mDevices[s]
      BY <1>1, <2>1 DEF BtFlags, setBTParameter, deviceConnection, suspendSet, suspendClear,
         open_a2dp_source, close_audio_source, streamVars, Runs
  <2>4. ASSUME bt.suspended, bt.available, UNCHANGED loc, NEW p, pc' = [pc EXCEPT ![t] = p],
               ~Leaving(t, s)
        PROVE  \E u \in Threads : Leaving(u, s)'
    <3>1. PICK u \in Threads : Leaving(u, s)
        BY <1>0, <2>3, <2>4 DEF NoPlayer
    <3>2. pc'[u] = pc[u]
        BY <2>2, <2>4, <3>1
    <3>. QED
        BY <2>4, <3>1, <3>2 DEF Leaving
  <2>5. CASE suspendClear(t)
      BY <1>1, <2>1, <2>5, Clearing
  <2>6. CASE suspendSet(t)
    <3>1. Phase(t) = "set" /\ ~Connecting
        BY <2>2, <2>6 DEF suspendSet, Phase, PhaseAt, Connecting, OneAtATime
    <3>2. ~bt.suspended /\ (bt.available <=> bt.state # "DISCONNECTED")
        BY <2>2, <3>1 DEF Flags, FlagsAt
    <3>3. bt'.available = bt.available
        BY <1>0, <2>6 DEF suspendSet, Bt
    <3>4. pc'[t] = "a2dpSuspend"
        BY <1>1, <2>2, <2>6, <3>2, <3>3 DEF suspendSet, Goto
    <3>. QED
        BY <2>2, <3>4 DEF Leaving
  <2>7. CASE \E on \in BOOLEAN : setBTParameter(t, on)
    <3>1. /\ UNCHANGED <<bt, loc>> /\ pc[t] = "idle"
          /\ \E p : pc' = [pc EXCEPT ![t] = p]
        BY <2>7 DEF setBTParameter, Goto
    <3>. QED
        BY <1>1, <2>4, <3>1 DEF Leaving
  <2>8. CASE \E on \in BOOLEAN : deviceConnection(t, on)
    <3>1. PICK on \in BOOLEAN : deviceConnection(t, on)
        BY <2>8
    <3>2. on
        BY <1>0, <1>1, <3>1 DEF deviceConnection, Bt
    <3>. QED
        BY <2>3, <3>1, <3>2 DEF deviceConnection, Unused
  <2>9. CASE open_a2dp_source(t) \/ close_audio_source(t)
    <3>1. /\ UNCHANGED loc /\ pc[t] \in {"openSource", "closeSource"}
          /\ \E p : pc' = [pc EXCEPT ![t] = p]
        BY <2>9 DEF open_a2dp_source, close_audio_source, Goto
    <3>2. bt.suspended /\ bt.available
        BY <1>0, <1>1, <2>9 DEF open_a2dp_source, close_audio_source, Bt
    <3>. QED
        BY <2>4, <3>1, <3>2 DEF Leaving
  <2>. QED
      BY <2>1, <2>5, <2>6, <2>7, <2>8, <2>9 DEF BtFlags
<1>7. CASE \E t \in BtThreads : BtCalls(t)
  <2>1. PICK t \in BtThreads : BtCalls(t)
      BY <1>7
  <2>2. /\ t \in Threads /\ Only(t) /\ UNCHANGED <<currentState, mDevices, bt>>
        /\ KindAt(t, pc[t], loc[t])
      BY <2>1, Kin, BtCallsGo, BtCallsStill DEF Kinds
  <2>3. Runs(s) /\ "a2dp" \in mDevices[s] /\ bt.suspended /\ bt.available /\ s \in Alive
      BY <1>1, <2>2 DEF Runs, Alive
  <2>4. ASSUME Leaving(t, s) PROVE \E u \in Threads : Leaving(u, s)'
    <3>1. CASE a2dpSuspend(t)
      <4>1. s \in Sharing
          BY <2>3 DEF Sharing
      <4>2. pc'[t] # "idle"
          BY <2>2, <3>1, <4>1 DEF a2dpSuspend, Sharing, Goto, Types
      <4>3. Becomes(t, "mark", Sharing, Sharing \X {"a2dp"}, Sharing \X {"spk"}, "forced")
          BY <2>1, <3>1, <4>2, DownEffects
      <4>. QED
          BY <2>2, <4>1, <4>3 DEF Becomes, Leaving
    <3>2. CASE markedAll(t)
        BY <2>1, <2>2, <2>4, <3>2, DownEffects DEF Leaving
    <3>3. CASE \E x \in Streams : markOne(t, x)
        BY <2>1, <2>2, <2>4, <3>3, OneEffects DEF Leaving, Becomes
    <3>4. CASE forceDeviceSwitch(t)
      <4>1. <<s, "a2dp">> \in Living(loc[t].disc)
          BY <2>3, <2>4, <3>4 DEF Leaving, forceDeviceSwitch, Living
      <4>. QED
          BY <2>1, <2>2, <2>4, <3>4, <4>1, DownEffects DEF Leaving, Becomes
    <3>5. pc[t] \in {"a2dpSuspend", "mark", "force", "devSwitch", "lockAll"}
        BY <2>4 DEF Leaving
    <3>. QED
        BY <2>1, <3>1, <3>2, <3>3, <3>4, <3>5 DEF BtCalls, forced, forcedAgain, a2dpResume,
           collectedAll, restored, unmutedAll, collectOne, unmuteOne
  <2>. QED
      BY <1>0, <1>2, <2>2, <2>3, <2>4
<1>. QED
    BY <1>3, <1>4, <1>5, <1>6, <1>7, StepKinds

LEMMA AwaitInit == ASSUME Init PROVE Await
<1>1. \A s \in Streams : pc[s] = "idle" /\ ~Runs(s)
    BY DEF Init, Threads, Runs
<1>. QED
    BY <1>1 DEF Await, AwaitAt, NoPlayer, Muting

LEMMA AwaitNext ==
    ASSUME Orderly, Inv, Inv', Order, Order', Await, [Next]_vars
    PROVE  Await'
<1>1. CASE Next
    BY <1>1, AwaitAtKeeps, NoPlayerKeeps DEF Await
<1>2. CASE UNCHANGED vars
  <2>1. UNCHANGED <<pc, loc, bt, mDevices, suspendedOutDevIds, currentState>>
      BY <1>2 DEF vars
  <2>. QED
      BY <2>1 DEF Await, AwaitAt, NoPlayer, Muting, Waits, Gone, Collectable, Collecting, Leaving,
         Runs
<1>. QED
    BY <1>1, <1>2

-----------------------------------------------------------------------------
(* What keeps music for the headset from the speaker.  A stream is settled    *)
(* while it is not in the middle of a route of its own; it is private while   *)
(* it is meant for the headset alone, and hidden while it is private or       *)
(* muted.  A hidden stream is never on both devices but for the moment at     *)
(* which start() has brought the speaker and the resumption has yet to take   *)
(* it away; a private one is muted wherever it is on the speaker, or is about *)
(* to be brought there.                                                       *)
Switching == {"plan", "devSwitch", "lockAll", "done"}
Settled(s) == s \in Alive /\ pc[s] \notin Switching
Private(s) == Settled(s) /\ want[s] = {"a2dp"} /\ s \notin ignored
Hidden(s) == Private(s) \/ (Settled(s) /\ a2dpMuted[s])

(* The points at which a list of moves is in use.                             *)
Pending == {"mark", "force", "forced", "devSwitch", "lockAll", "collect"}

(* A resumption has a stream on its list: to the headset, off the speaker.    *)
Fetching(t, s) ==
    /\ pc[t] \in {"collect", "devSwitch", "lockAll"} /\ loc[t].then = "restored"
    /\ <<s, "a2dp">> \in loc[t].conn /\ <<s, "spk">> \in loc[t].disc
Fetched(s) == \E t \in Threads : Fetching(t, s)

(* A route of its own ends on nothing but the devices asked for.              *)
Own(s) ==
    /\ pc[s] \in Switching => want[s] = loc[s].devs
    /\ pc[s] = "plan" /\ a2dpMuted[s] => mDevices[s] # Devices
    /\ pc[s] \in {"devSwitch", "lockAll"} => After(loc[s], s) \subseteq want[s]
    /\ pc[s] = "done" => mDevices[s] \subseteq want[s]
    /\ pc[s] \in {"devSwitch", "lockAll", "done"} =>
          /\ loc[s].ready <=> Ready
          /\ \A x \in Streams : <<x, "a2dp">> \in loc[s].conn => Ready

LeakAt(s) ==
    /\ Hidden(s) => suspendedOutDevIds[s] \subseteq {"a2dp"}
    /\ Hidden(s) /\ mDevices[s] = Devices =>
          suspendedOutDevIds[s] = {"a2dp"} /\ (Muting(s) \/ Collectable(s) \/ Fetched(s))
    /\ Private(s) /\ "spk" \in mDevices[s] => a2dpMuted[s] \/ Muting(s)

LeakIn(t, s) ==
    /\ pc[t] \in Pending /\ Hidden(s) /\ After(loc[t], s) = Devices => Muting(s) \/ Collectable(s)
    /\ pc[t] \in Pending /\ Private(s) /\ <<s, "spk">> \in loc[t].conn =>
          a2dpMuted[s] \/ Muting(s) \/ (pc[t] = "mark" /\ s \in loc[t].todo)
    /\ pc[t] = "mark" /\ s \in loc[t].todo => mDevices[s] # {} /\ <<s, "a2dp">> \in loc[t].disc
    /\ pc[t] = "collect" /\ s \in loc[t].todo => <<s, "a2dp">> \notin loc[t].conn
    /\ pc[t] = "restored" /\ loc[t].status = "ok" /\ Private(s) /\ <<s, "a2dp">> \in loc[t].conn =>
          "spk" \notin mDevices[s]
    /\ pc[t] = "unmute" /\ s \in loc[t].todo /\ Private(s) => "spk" \notin mDevices[s]

Leak == \A s \in Streams : LeakAt(s) /\ Own(s) /\ \A t \in Threads : LeakIn(t, s)

(* A stream that a step leaves alone.                                         *)
LEMMA FrameAt ==
    ASSUME NEW s \in Streams, LeakAt(s), Own(s), Untouched(s), pc'[s] = pc[s], loc'[s] = loc[s],
           pc[s] \in {"devSwitch", "lockAll", "done"} => (Ready' <=> Ready),
           s \in Alive /\ mDevices[s] = Devices /\ (Collectable(s) \/ Fetched(s))
              => (Collectable(s) \/ Fetched(s))'
    PROVE  LeakAt(s)' /\ Own(s)'
<1>1. /\ (s \in Alive)' <=> s \in Alive
      /\ Settled(s)' <=> Settled(s)
      /\ Muting(s)' <=> Muting(s)
    BY DEF Alive, Settled, Untouched, Muting
<1>2. /\ Private(s)' <=> Private(s)
      /\ Hidden(s)' <=> Hidden(s)
    BY <1>1 DEF Private, Hidden, Untouched
<1>3. After(loc[s], s)' = After(loc[s], s)
    BY DEF After, Untouched
<1>4. LeakAt(s)'
  <2>1. Hidden(s) => s \in Alive
      BY DEF Hidden, Private, Settled
  <2>. QED
      BY <1>1, <1>2, <2>1 DEF LeakAt, Untouched
<1>5. Own(s)'
    BY <1>3 DEF Own, Untouched
<1>. QED
    BY <1>4, <1>5

LEMMA FrameIn ==
    ASSUME NEW s \in Streams, NEW u \in Threads, LeakIn(u, s), Untouched(s),
           pc'[s] = pc[s], loc'[s] = loc[s], pc'[u] = pc[u], loc'[u] = loc[u],
           Collectable(s) => Collectable(s)'
    PROVE  LeakIn(u, s)'
<1>1. /\ Settled(s)' <=> Settled(s)
      /\ Muting(s)' <=> Muting(s)
    BY DEF Alive, Settled, Untouched, Muting
<1>2. /\ Private(s)' <=> Private(s)
      /\ Hidden(s)' <=> Hidden(s)
    BY <1>1 DEF Private, Hidden, Untouched
<1>3. After(loc[u], s)' = After(loc[u], s)
    BY DEF After, Untouched
<1>. QED
    BY <1>1, <1>2, <1>3 DEF LeakIn, Untouched

(* A thread that is in the middle of nothing has no list.                     *)
LEMMA Bystander ==
    ASSUME NEW s, NEW u, Phase(u) = "none" PROVE LeakIn(u, s)
<1>1. pc[u] \notin Pending \cup {"restored", "unmute"}
    BY DEF Phase, PhaseAt, Pending
<1>. QED
    BY <1>1 DEF LeakIn, Pending

LEMMA StillComing ==
    ASSUME NEW a \in Threads, Only(a), NEW s \in Streams
    PROVE  /\ ~Collecting(a, s) => (Collectable(s) => Collectable(s)')
           /\ ~Fetching(a, s) => (Fetched(s) => Fetched(s)')
<1>1. ASSUME Collectable(s), ~Collecting(a, s) PROVE Collectable(s)'
  <2>1. PICK u \in Threads : Collecting(u, s)
      BY <1>1 DEF Collectable
  <2>2. pc'[u] = pc[u] /\ loc'[u] = loc[u]
      BY <1>1, <2>1 DEF Only
  <2>. QED
      BY <2>1, <2>2 DEF Collectable, Collecting
<1>2. ASSUME Fetched(s), ~Fetching(a, s) PROVE Fetched(s)'
  <2>1. PICK u \in Threads : Fetching(u, s)
      BY <1>2 DEF Fetched
  <2>2. pc'[u] = pc[u] /\ loc'[u] = loc[u]
      BY <1>2, <2>1 DEF Only
  <2>. QED
      BY <2>1, <2>2 DEF Fetched, Fetching
<1>. QED
    BY <1>1, <1>2

LEMMA ComingPhase ==
    ASSUME NEW t, NEW s
    PROVE  (Collecting(t, s) \/ Fetching(t, s) => Phase(t) = "up")
BY DEF Collecting, Fetching, Phase, PhaseAt

(* While a stream routes itself, nothing becomes of the device.               *)
LEMMA SwitchingPhase ==
    ASSUME Kinds, NEW s \in Streams, pc[s] \in Switching
    PROVE  Phase(s) = "switch"
BY Kin DEF Kinds, KindAt, Phase, PhaseAt, Switching

LEMMA ReadyStays ==
    ASSUME Order, Order', Steady, NEW t \in Threads, Phase(t) \in {"switch", "up", "down"},
           Phase(t)' \in {"none", Phase(t)}, \A u \in Threads : u # t => Phase(u)' = Phase(u)
    PROVE  Ready' <=> Ready
<1>1. ~Connecting /\ ~Connecting'
    BY DEF Order, OneAtATime, Connecting
<1>2. /\ bt.available <=> bt.state # "DISCONNECTED"
      /\ bt'.available <=> bt'.state # "DISCONNECTED"
    BY <1>1 DEF Order, Flags
<1>. QED
    BY <1>2 DEF Ready, isDeviceReady, Steady

(* A headset that is asked for by a list of moves is ready.                   *)
LEMMA AskedIsReady ==
    ASSUME Inv, Order, Leak, NEW t \in Threads, NEW s \in Streams, <<s, "a2dp">> \in loc[t].conn,
           pc[t] \in Pending \cup {"restored", "unmute", "done"}
    PROVE  Ready
<1>1. KindAt(t, pc[t], loc[t]) /\ FlagsAt(Phase(t))
    BY DEF Order, Kinds, Flags
<1>2. CASE t \in Streams
  <2>1. pc[t] \in {"devSwitch", "lockAll", "done"}
      BY <1>1, <1>2 DEF KindAt, PhaseAt, Pending
  <2>. QED
      BY <1>2, <2>1 DEF Leak, Own
<1>3. CASE t \in BtThreads
  <2>1. loc[t].then \notin {"forced", "forcedAgain"}
      BY <1>1 DEF KindAt
  <2>2. Phase(t) # "switch"
      BY <1>1, <1>3 DEF KindAt, Phase
  <2>3. pc[t] \notin {"mark", "force", "forced", "done"}
      BY <1>1, <2>1, <2>2 DEF KindAt, Phase, PhaseAt
  <2>4. CASE pc[t] \in {"collect", "restored", "unmute"}
      BY <1>1, <2>4 DEF Phase, PhaseAt, FlagsAt
  <2>5. CASE pc[t] \in {"devSwitch", "lockAll"} /\ loc[t].then \in Thens
      BY <1>1, <2>1, <2>2, <2>5 DEF Phase, PhaseAt, FlagsAt, Thens
  <2>. QED
      BY <2>3, <2>4, <2>5 DEF Pending, Inv, Placed
<1>. QED
    BY <1>2, <1>3 DEF Threads

LEMMA BystanderNext ==
    ASSUME NEW s, NEW u, Phase(u)' = "none" PROVE LeakIn(u, s)'
<1>1. pc'[u] \notin Pending \cup {"restored", "unmute"}
    BY DEF Phase, PhaseAt, Pending
<1>. QED
    BY <1>1 DEF LeakIn, Pending

(* The calls of a stream leave nothing to hear: open, close, start and stop.  *)
LEMMA CallsHide ==
    ASSUME Orderly, Inv, Inv', Order, Order', Await, Leak, NEW x \in Streams, Calls(x),
           NEW s \in Streams
    PROVE  LeakAt(s)' /\ Own(s)' /\ \A t \in Threads : LeakIn(t, s)'
<1> USE DEF Inv
<1>0. /\ s \in Threads /\ x \in Threads /\ Only(x) /\ Phase(x) = "none" /\ Phase(x)' = "none"
      /\ Steady /\ LeakAt(s) /\ Own(s) /\ AwaitAt(s) /\ \A t \in Threads : LeakIn(t, s)
    BY Kin, CallsGo DEF Order, Leak, Await
<1>1. /\ Collectable(s) => Collectable(s)'
      /\ Fetched(s) => Fetched(s)'
    BY <1>0, StillComing, ComingPhase
<1>2. LeakIn(x, s)'
    BY <1>0, BystanderNext
<1>3. \A t \in Threads : t # x => pc'[t] = pc[t] /\ loc'[t] = loc[t]
    BY <1>0 DEF Only
<1>4. CASE x # s
  <2>1. Untouched(s) /\ pc'[s] = pc[s] /\ loc'[s] = loc[s]
      BY <1>0, <1>3, <1>4, CallsFrame
  <2>2. ASSUME pc[s] \in Switching PROVE Ready' <=> Ready
    <3>1. Phase(s) = "switch"
        BY <2>2, SwitchingPhase DEF Order
    <3>2. \A u \in Threads : Phase(u)' = Phase(u)
        BY <1>0, OnlyKinds DEF Order
    <3>. QED
        BY <1>0, <3>1, <3>2, ReadyStays
  <2>3. LeakAt(s)' /\ Own(s)'
      BY <1>0, <1>1, <2>1, <2>2, FrameAt DEF Switching
  <2>4. \A t \in Threads : LeakIn(t, s)'
      BY <1>0, <1>1, <1>2, <1>3, <2>1, FrameIn
  <2>. QED
      BY <2>3, <2>4
<1>5. CASE x = s
  <2>0. /\ pc[s] \in {"idle", "route", "devices", "stop"}
        /\ pc'[s] \in {"idle", "route", "devices", "stop"}
      BY <1>0, <1>5, Kin DEF Phase, PhaseAt, Types, Points
  <2>1. Own(s)' /\ pc[s] \notin Switching /\ pc'[s] \notin Switching
      BY <2>0 DEF Own, Switching
  <2>2. Settled(s) <=> s \in Alive
      BY <2>1 DEF Settled
  <2>3. Settled(s)' <=> currentState'[s] # "IDLE"
      BY <2>1 DEF Settled, Alive
  <2>4. ASSUME Hidden(s)' => Hidden(s), Private(s)' => Private(s),
               mDevices'[s] \subseteq mDevices[s],
               mDevices'[s] = {} => mDevices[s] = {} \/ \A t \in Threads : pc[t] # "mark",
               a2dpMuted[s] => a2dpMuted'[s], ~Muting(s),
               suspendedOutDevIds'[s] \in {suspendedOutDevIds[s], {"a2dp"}}
        PROVE  LeakAt(s)' /\ \A t \in Threads : LeakIn(t, s)'
    <3>0. mDevices[s] \subseteq Devices
        BY DEF Types
    <3>1. LeakAt(s)'
        BY <1>0, <1>1, <2>4, <3>0 DEF LeakAt
    <3>2. ASSUME NEW t \in Threads, t # s PROVE LeakIn(t, s)'
      <4>1. pc'[t] = pc[t] /\ loc'[t] = loc[t] /\ LeakIn(t, s)
          BY <1>0, <1>3, <1>5, <3>2
      <4>2. After(loc[t], s)' \subseteq After(loc[t], s) /\ After(loc[t], s) \subseteq Devices
          BY <2>4, <4>1 DEF After
      <4>. QED
          BY <1>1, <2>4, <4>1, <4>2 DEF LeakIn
    <3>. QED
        BY <1>2, <1>5, <3>1, <3>2
  <2>5. CASE \E ds \in Routes : open(s, ds)
    <3>1. PICK ds \in Routes : open(s, ds)
        BY <2>5
    <3>2. /\ pc[s] = "idle" /\ UNCHANGED <<pc, loc>> /\ ActiveFree /\ Fresh(s)
          /\ mDevices'[s] = ds /\ suspendedOutDevIds'[s] = {} /\ ~a2dpMuted'[s] /\ want'[s] = ds
        BY <3>1 DEF open, Types
    <3>3. Private(s)' => ds = {"a2dp"}
        BY <3>2 DEF Private
    <3>4. Hidden(s)' => Private(s)'
        BY <3>2 DEF Hidden
    <3>5. LeakAt(s)'
        BY <3>2, <3>3, <3>4 DEF LeakAt, Devices
    <3>6. ASSUME NEW t \in Threads PROVE LeakIn(t, s)'
      <4>1. \A d : <<s, d>> \notin loc[t].conn /\ <<s, d>> \notin loc[t].disc
          BY <3>2 DEF Fresh
      <4>2. After(loc[t], s)' \subseteq ds
          BY <3>2, <4>1 DEF After
      <4>3. pc[t] \notin {"mark", "unmute", "collect"}
          BY <3>2, RoutingAssumption DEF ActiveFree, Locked, Holding, Threads
      <4>. QED
          BY <3>2, <3>3, <3>4, <4>1, <4>2, <4>3 DEF LeakIn, Devices
    <3>. QED
        BY <2>1, <3>5, <3>6
  <2>6. CASE close(s)
    <3>1. UNCHANGED <<pc, loc>> /\ ActiveFree /\ currentState'[s] = "IDLE"
        BY <2>6 DEF close, Types
    <3>2. ~Hidden(s)' /\ ~Private(s)'
        BY <2>3, <3>1 DEF Hidden, Private
    <3>3. ASSUME NEW t \in Threads PROVE pc[t] \notin {"mark", "unmute", "collect"}
        BY <3>1, RoutingAssumption DEF ActiveFree, Locked, Holding, Threads
    <3>. QED
        BY <2>1, <3>1, <3>2, <3>3 DEF LeakAt, LeakIn
  <2>7. ASSUME UNCHANGED <<a2dpMuted, told>>,
               currentState'[s] # "IDLE" /\ currentState[s] # "IDLE"
        PROVE  (Hidden(s)' <=> Hidden(s)) /\ (Private(s)' <=> Private(s))
      BY <2>2, <2>3, <2>7 DEF Hidden, Private, Alive, told
  <2>8. CASE startReady(s) \/ stopLock(s) \/ stop(s)
    <3>1. /\ UNCHANGED <<mDevices, suspendedOutDevIds, a2dpMuted, told>>
          /\ currentState'[s] # "IDLE" /\ currentState[s] # "IDLE" /\ pc[s] \in {"idle", "stop"}
        BY <2>8 DEF startReady, stopLock, stop, CanBegin, streamVars, Types, Placed
    <3>. QED
        BY <2>1, <2>4, <2>7, <3>1 DEF Muting
  <2>9. CASE startAlone(s)
    <3>1. /\ UNCHANGED <<mDevices, a2dpMuted, told>> /\ suspendedOutDevIds'[s] = {"a2dp"}
          /\ currentState'[s] # "IDLE" /\ currentState[s] # "IDLE" /\ pc[s] = "idle"
        BY <2>9 DEF startAlone, CanBegin, Types
    <3>. QED
        BY <2>1, <2>4, <2>7, <3>1 DEF Muting
  <2>10. CASE startCombo(s)
    <3>1. /\ UNCHANGED <<a2dpMuted, told>> /\ mDevices'[s] = {"spk"} /\ bt.suspended
          /\ currentState'[s] # "IDLE" /\ currentState[s] # "IDLE" /\ pc[s] = "idle"
          /\ "a2dp" \in mDevices[s] /\ "spk" \in mDevices[s]
        BY <2>10 DEF startCombo, CanBegin, Suspended, Types
    <3>2. mDevices[s] = Devices
        BY <3>1 DEF Devices, Types
    <3>3. ~Collectable(s) /\ ~Fetched(s)
      <4>1. \A t \in Threads : Phase(t) # "up"
          BY <3>1 DEF Order, Flags, FlagsAt, Ready, isDeviceReady
      <4>. QED
          BY <4>1, ComingPhase DEF Collectable, Fetched
    <3>4. ~Hidden(s)' /\ ~Private(s)'
        BY <1>0, <2>7, <3>1, <3>2, <3>3 DEF LeakAt, Muting, Hidden
    <3>5. ASSUME NEW t \in Threads, t # s PROVE LeakIn(t, s)'
      <4>1. pc'[t] = pc[t] /\ loc'[t] = loc[t] /\ LeakIn(t, s)
          BY <1>0, <1>3, <1>5, <3>5
      <4>. QED
          BY <3>1, <3>4, <4>1 DEF LeakIn
    <3>. QED
        BY <1>2, <1>5, <2>1, <3>4, <3>5 DEF LeakAt
  <2>11. ASSUME Muting(s) \/ pc[s] = "route", ~Collectable(s)
         PROVE  /\ ~Ready
                /\ \A t \in Threads : pc[t] \notin {"restored", "unmute"}
                                      /\ (pc[t] \in Pending => <<s, "a2dp">> \notin loc[t].conn)
    <3>1. bt.suspended \/ Gone(bt)
        BY <1>0, <2>11 DEF AwaitAt, Waits
    <3>2. ~Ready
        BY <3>1 DEF Ready, isDeviceReady, Gone
    <3>3. ASSUME NEW t \in Threads, pc[t] \in {"restored", "unmute"} PROVE FALSE
      <4>1. Phase(t) = "up"
          BY <3>3 DEF Phase, PhaseAt
      <4>. QED
          BY <3>2, <4>1 DEF Order, Flags, FlagsAt
    <3>. QED
        BY <3>2, <3>3, AskedIsReady
  <2>12. ASSUME Muting(s) \/ pc[s] = "route", Collectable(s)
         PROVE  \A t \in Threads : pc[t] \notin {"restored", "unmute"}
    <3>1. PICK u \in Threads : Collecting(u, s)
        BY <2>12 DEF Collectable
    <3>2. ASSUME NEW t \in Threads, pc[t] \in {"restored", "unmute"} PROVE FALSE
      <4>1. Phase(t) = "up" /\ t # u
          BY <3>1, <3>2 DEF Phase, PhaseAt, Collecting
      <4>. QED
          BY <3>1, <4>1, ComingPhase DEF Order, OneAtATime
    <3>. QED
        BY <3>2
  <2>13. CASE startRoute(s)
    <3>1. /\ pc[s] = "route" /\ pc'[s] = "devices" /\ loc'[s].then = "mute"
          /\ UNCHANGED suspendedOutDevIds /\ mDevices'[s] = mDevices[s] \cup {"spk"}
        BY <2>13, Kin DEF startRoute, Goto, Set, Nothing, Types
    <3>2. suspendedOutDevIds'[s] = {"a2dp"} /\ Muting(s)'
        BY <1>0, <3>1 DEF AwaitAt, Muting
    <3>3. LeakAt(s)'
        BY <3>2 DEF LeakAt
    <3>4. ASSUME NEW t \in Threads, t # s PROVE LeakIn(t, s)'
      <4>1. pc'[t] = pc[t] /\ loc'[t] = loc[t] /\ LeakIn(t, s)
          BY <1>0, <1>3, <1>5, <3>4
      <4>2. pc[t] \notin {"restored", "unmute"}
          BY <2>11, <2>12, <3>1
      <4>. QED
          BY <3>1, <3>2, <4>1, <4>2 DEF LeakIn
    <3>. QED
        BY <1>2, <1>5, <2>1, <3>3, <3>4
  <2>14. CASE startDevices(s)
    <3>1. /\ pc[s] = "devices" /\ UNCHANGED <<suspendedOutDevIds, want>>
          /\ currentState[s] # "IDLE" /\ currentState'[s] # "IDLE"
          /\ mDevices'[s] \subseteq mDevices[s]
          /\ "a2dp" \in mDevices'[s] => MayStart(bt)
          /\ "spk" \in mDevices[s] => "spk" \in mDevices'[s]
          /\ s \in ignored => s \in ignored'
      <4>1. pc[s] = "devices" /\ currentState'[s] \in {currentState[s], "STARTED"}
          BY <2>14, StartEffect
      <4>2. currentState[s] # "IDLE" /\ currentState'[s] # "IDLE"
          BY <4>1 DEF Placed, Types
      <4>. QED
          BY <2>14, <4>1, <4>2, StartEffect
    <3>2. Private(s)' => Private(s)
        BY <2>2, <2>3, <3>1 DEF Private, Alive
    <3>4. CASE ~Muting(s)
      <4>1. a2dpMuted'[s] = a2dpMuted[s]
          BY <2>14, <3>1, <3>4, StartEffect DEF Muting
      <4>2. Hidden(s)' => Hidden(s)
          BY <2>2, <2>3, <3>1, <3>2, <4>1 DEF Hidden, Alive
      <4>3. ASSUME mDevices'[s] = {}, NEW t \in Threads, pc[t] = "mark"
            PROVE  mDevices[s] = {}
        <5>1. bt.suspended
            BY <4>3 DEF Order, Flags, FlagsAt, Phase, PhaseAt
        <5>2. "a2dp" \notin mDevices[s]
            BY <1>0, <3>1, <3>4, <5>1 DEF AwaitAt
        <5>. QED
            BY <3>1, <4>3, <5>2 DEF Types, Devices
      <4>. QED
          BY <2>1, <2>4, <3>1, <3>2, <3>4, <4>1, <4>2, <4>3
    <3>5. CASE Muting(s)
      <4>1. mDevices[s] = Devices /\ suspendedOutDevIds[s] = {"a2dp"} /\ Waits(s)
          BY <1>0, <3>5 DEF AwaitAt
      <4>2. /\ "spk" \in mDevices'[s] /\ suspendedOutDevIds'[s] = {"a2dp"}
            /\ Private(s)' => a2dpMuted'[s]
        <5>1. "spk" \in mDevices[s]
            BY <4>1 DEF Devices
        <5>2. a2dpMuted'[s] \/ s \in ignored'
            BY <2>14, <3>5, <5>1, StartEffect DEF Muting
        <5>. QED
            BY <3>1, <4>1, <5>1, <5>2 DEF Private
      <4>3. "a2dp" \in mDevices'[s] => Collectable(s)
          BY <3>1, <4>1 DEF Waits, MayStart, Gone
      <4>4. LeakAt(s)'
          BY <1>1, <4>2, <4>3 DEF LeakAt, Devices
      <4>5. ASSUME NEW t \in Threads, t # s PROVE LeakIn(t, s)'
        <5>1. pc'[t] = pc[t] /\ loc'[t] = loc[t] /\ LeakIn(t, s)
            BY <1>0, <1>3, <1>5, <4>5
        <5>2. pc[t] \notin {"restored", "unmute"}
            BY <2>11, <2>12, <3>5
        <5>3. ASSUME pc[t] \in Pending, After(loc[t], s)' = Devices PROVE Collectable(s)
          <6>1. "a2dp" \in mDevices'[s] \/ <<s, "a2dp">> \in loc[t].conn
              BY <5>1, <5>3 DEF After, Devices
          <6>. QED
              BY <2>11, <3>5, <4>3, <5>3, <6>1
        <5>. QED
            BY <1>1, <4>2, <5>1, <5>2, <5>3 DEF LeakIn
      <4>. QED
          BY <1>2, <1>5, <2>1, <4>4, <4>5
    <3>. QED
        BY <3>4, <3>5
  <2>. QED
      BY <1>5, <2>5, <2>6, <2>8, <2>9, <2>10, <2>13, <2>14 DEF Calls
<1>. QED
    BY <1>4, <1>5

LEMMA SwitchDeviceHides ==
    ASSUME Orderly, Inv, Order, Leak, NEW x \in Streams, NEW ds \in Routes, switchDevice(x, ds),
           NEW s \in Streams
    PROVE  LeakAt(s)' /\ Own(s)' /\ \A t \in Threads : LeakIn(t, s)'
<1> USE DEF Inv
<1>0. /\ x \in Threads /\ Only(x) /\ Nobody /\ LeakAt(s) /\ Own(s)
      /\ \A t \in Threads : t # x => Phase(t)' = "none"
    BY Kin, SwitchInOrder, OnlyKinds DEF Leak, Nobody, Order
<1>1. /\ pc[x] = "idle" /\ pc'[x] = "plan" /\ loc'[x].devs = ds /\ want'[x] = ds
      /\ x \in Alive /\ UNCHANGED <<streamVars, bt>> /\ \A y \in Streams : y # x => Untouched(y)
    BY SwitchDeviceEffect
<1>2. ~Collectable(s) /\ ~Fetched(s) /\ pc[s] \notin Switching
    BY <1>0, ComingPhase, SwitchingPhase, Kin DEF Nobody, Collectable, Fetched, Order
<1>3. ASSUME NEW t \in Threads PROVE LeakIn(t, s)'
    BY <1>0, <1>1, BystanderNext DEF LeakIn, Pending
<1>4. CASE s # x
  <2>1. Untouched(s) /\ pc'[s] = pc[s] /\ loc'[s] = loc[s]
      BY <1>0, <1>1, <1>4, Kin DEF Only
  <2>2. LeakAt(s)' /\ Own(s)'
      BY <1>0, <1>2, <2>1, FrameAt DEF Switching
  <2>. QED
      BY <1>3, <2>2
<1>5. CASE s = x
  <2>1. ~Settled(s)'
      BY <1>1, <1>5 DEF Settled, Switching
  <2>2. LeakAt(s)'
      BY <2>1 DEF LeakAt, Hidden, Private
  <2>3. ASSUME a2dpMuted[s], mDevices[s] = Devices PROVE FALSE
    <3>1. Hidden(s) /\ ~Muting(s)
        BY <1>1, <1>2, <1>5, <2>3 DEF Hidden, Settled, Muting
    <3>. QED
        BY <1>0, <1>2, <2>3, <3>1 DEF LeakAt
  <2>4. Own(s)'
      BY <1>1, <1>5, <2>3 DEF Own, streamVars
  <2>. QED
      BY <1>3, <2>2, <2>4
<1>. QED
    BY <1>4, <1>5

(* The switch is not turned down: what it connects is either the speaker or   *)
(* a headset that is ready.                                                   *)
LEMMA NotRefused ==
    ASSUME Inv, Order, Leak, NEW t \in Threads, devSwitchLock(t)
    PROVE  /\ pc[t] = "devSwitch" /\ UNCHANGED <<streamVars, bt, mStreamMutex, told>>
           /\ loc'[t].status = loc[t].status
           /\ loc'[t].devs = loc[t].devs /\ loc'[t].ready = loc[t].ready
           /\ Becomes(t, "lockAll", {x[1] : x \in Living(loc[t].conn) \cup Living(loc[t].disc)},
                      Living(loc[t].disc), Living(loc[t].conn), loc[t].then)
<1>1. pc[t] = "devSwitch" /\ loc[t] \in Loc
    BY SwitchSteps DEF Inv, Types
<1>2. ASSUME {x[2] : x \in Living(loc[t].conn)} = {"a2dp"} PROVE Ready
  <2>1. PICK x \in Living(loc[t].conn) : x[2] = "a2dp"
      BY <1>2
  <2>2. PICK s \in Streams, d \in Devices : x = <<s, d>>
      BY <1>1, <2>1 DEF Living, Loc
  <2>3. <<s, "a2dp">> \in loc[t].conn
      BY <2>1, <2>2 DEF Living
  <2>. QED
      BY <1>1, <2>3, AskedIsReady DEF Pending
<1>. QED
    BY <1>2, SwitchSteps

(* The device switch: who waits for it, and what it leaves.                   *)
LEMMA ListHides ==
    ASSUME Inv, Order, Order', Leak, NEW t \in Threads,
           devSwitchLock(t) \/ \E y \in Streams : lockOne(t, y), NEW s \in Streams
    PROVE  LeakAt(s)' /\ Own(s)' /\ \A u \in Threads : LeakIn(u, s)'
<1> USE DEF Inv
<1>0. /\ s \in Threads /\ Only(t) /\ Phase(t) \in {"switch", "up", "down"}
      /\ LeakAt(s) /\ Own(s) /\ (\A u \in Threads : LeakIn(u, s)) /\ Routing(t)
    BY Kin, RoutingGoes DEF Leak, Order, Routing
<1>1. /\ pc[t] \in {"devSwitch", "lockAll"} /\ pc'[t] = "lockAll" /\ loc'[t].then = loc[t].then
      /\ UNCHANGED <<streamVars, bt, told>>
      /\ loc'[t].devs = loc[t].devs /\ loc'[t].ready = loc[t].ready
    BY NotRefused, SwitchSteps DEF Becomes
<1>2. \/ loc'[t].conn = loc[t].conn /\ loc'[t].disc = loc[t].disc
      \/ loc'[t].conn = Living(loc[t].conn) /\ loc'[t].disc = Living(loc[t].disc)
    BY NotRefused, SwitchSteps DEF Becomes
<1>3. /\ loc'[t].conn \subseteq loc[t].conn
      /\ \A y \in Alive, d \in Devices :
            /\ <<y, d>> \in loc'[t].conn <=> <<y, d>> \in loc[t].conn
            /\ <<y, d>> \in loc'[t].disc <=> <<y, d>> \in loc[t].disc
    BY <1>2 DEF Living
<1>4. \A y \in Streams : y \notin Alive => mDevices[y] = {}
    BY DEF Alive, Placed
<1>5. /\ s \in Alive => After(loc[t], s)' = After(loc[t], s)
      /\ After(loc[t], s)' \subseteq After(loc[t], s)
    BY <1>1, <1>3, <1>4 DEF After, streamVars
<1>6. Untouched(s)
    BY <1>1 DEF Untouched, streamVars, told
<1>7. /\ Collectable(s) => Collectable(s)'
      /\ s \in Alive /\ Fetched(s) => Fetched(s)'
  <2>1. ~Collecting(t, s)
      BY <1>1 DEF Collecting
  <2>2. ASSUME s \in Alive, Fetching(t, s) PROVE Fetching(t, s)'
      BY <1>1, <1>3, <2>2 DEF Fetching, Devices
  <2>. QED
      BY <1>0, <2>1, <2>2, StillComing DEF Fetched
<1>8. Ready' <=> Ready
    BY <1>1 DEF Ready, isDeviceReady
<1>9. ASSUME NEW u \in Threads, u # t PROVE LeakIn(u, s)'
  <2>1. Phase(u)' = "none"
      BY <1>0, <1>9, OnlyKinds DEF Order, OneAtATime
  <2>. QED
      BY <2>1, BystanderNext
<1>10. CASE s # t
  <2>1. pc'[s] = pc[s] /\ loc'[s] = loc[s]
      BY <1>0, <1>10 DEF Only
  <2>2. LeakAt(s)' /\ Own(s)'
      BY <1>0, <1>6, <1>7, <1>8, <2>1, FrameAt
  <2>3. /\ Hidden(s)' => Hidden(s) /\ s \in Alive
        /\ Private(s)' => Private(s) /\ s \in Alive
        /\ Muting(s)' <=> Muting(s)
      BY <1>6, <2>1 DEF Hidden, Private, Settled, Alive, Untouched, Muting
  <2>4. LeakIn(t, s)'
      BY <1>0, <1>1, <1>3, <1>5, <1>6, <1>7, <2>3 DEF LeakIn, Untouched, Pending
  <2>. QED
      BY <1>9, <2>2, <2>4
<1>11. CASE s = t
  <2>1. ~Settled(s)'
      BY <1>1, <1>11 DEF Settled, Switching
  <2>2. LeakAt(s)' /\ LeakIn(t, s)'
      BY <1>1, <2>1 DEF LeakAt, LeakIn, Hidden, Private
  <2>3. Own(s)'
      BY <1>0, <1>1, <1>3, <1>5, <1>6, <1>8, <1>11 DEF Own, Switching, Untouched
  <2>. QED
      BY <1>9, <2>2, <2>3
<1>. QED
    BY <1>10, <1>11

LEMMA PlanHides ==
    ASSUME Inv, Order, Order', Leak, NEW t \in Streams, plan(t) \/ switchDone(t), NEW s \in Streams
    PROVE  LeakAt(s)' /\ Own(s)' /\ \A u \in Threads : LeakIn(u, s)'
<1> USE DEF Inv
<1>0. /\ s \in Threads /\ t \in Threads /\ Only(t) /\ Phase(t) = "switch"
      /\ LeakAt(s) /\ Own(s) /\ (\A u \in Threads : LeakIn(u, s)) /\ Routing(t)
      /\ UNCHANGED <<bt, mDevices, currentState, want>> /\ pc[t] \in {"plan", "done"}
  <2>1. pc[t] \in {"plan", "done"} /\ UNCHANGED <<bt, mDevices, currentState, want>>
      BY PlanEffect, DoneEffect DEF told
  <2>. QED
      BY <2>1, Kin, RoutingGoes, SwitchingPhase DEF Leak, Order, Routing, Switching
<1>1. ASSUME NEW u \in Threads, u # t PROVE Phase(u) = "none" /\ LeakIn(u, s)'
  <2>1. Phase(u) = "none" /\ Phase(u)' = "none"
      BY <1>0, <1>1, OnlyKinds DEF Order, OneAtATime
  <2>. QED
      BY <2>1, BystanderNext
<1>2. ~Collectable(s) /\ ~Fetched(s)
    BY <1>0, <1>1, ComingPhase DEF Collectable, Fetched
<1>3. Ready' <=> Ready
    BY <1>0 DEF Ready, isDeviceReady
<1>4. CASE pc'[t] = "idle"
  <2>1. LeakIn(t, s)'
      BY <1>4 DEF LeakIn, Pending
  <2>2. CASE s # t
    <3>1. Untouched(s) /\ pc'[s] = pc[s] /\ loc'[s] = loc[s]
        BY <1>0, <2>2, RoutingStays DEF Only
    <3>. QED
        BY <1>0, <1>1, <1>2, <1>3, <2>1, <3>1, FrameAt
  <2>3. CASE s = t
    <3>1. Own(s)'
        BY <1>4, <2>3 DEF Own, Switching
    <3>2. Settled(s)' <=> s \in Alive
        BY <1>0, <1>4, <2>3 DEF Settled, Switching, Alive
    <3>3. CASE plan(t)
      <4>1. {d \in loc[t].devs : isDeviceReady(d)} = {}
          BY <1>4, <3>3, PlanEffect
      <4>2. /\ suspendedOutDevIds'[s] = {"a2dp"} /\ UNCHANGED a2dpMuted /\ pc[s] = "plan"
            /\ ~a2dpMuted[s] => s \in ignored'
          BY <2>3, <3>3, <4>1, PlanEffect
      <4>3. Hidden(s)' => a2dpMuted[s] /\ mDevices[s] # Devices
          BY <1>0, <4>2 DEF Hidden, Private, Own
      <4>4. Private(s)' => a2dpMuted[s]
          BY <4>2 DEF Private
      <4>5. LeakAt(s)'
          BY <1>0, <4>2, <4>3, <4>4 DEF LeakAt
      <4>. QED
          BY <1>1, <2>1, <3>1, <4>5
    <3>4. CASE switchDone(t)
      <4>1. /\ suspendedOutDevIds'[s] =
                 (IF loc[s].devs = Devices /\ ~loc[s].ready THEN Devices ELSE {})
            /\ ~a2dpMuted'[s] /\ pc[s] = "done"
          BY <2>3, <3>4, DoneEffect
      <4>2. Hidden(s)' => want[s] = {"a2dp"}
          BY <1>0, <4>1 DEF Hidden, Private
      <4>3. want[s] = {"a2dp"} => mDevices[s] \subseteq {"a2dp"} /\ suspendedOutDevIds'[s] = {}
          BY <1>0, <4>1 DEF Own, Switching, Devices
      <4>4. Private(s)' => Hidden(s)'
          BY DEF Hidden
      <4>5. LeakAt(s)'
          BY <1>0, <4>1, <4>2, <4>3, <4>4 DEF LeakAt, Devices
      <4>. QED
          BY <1>1, <2>1, <3>1, <4>5
    <3>. QED
        BY <3>3, <3>4
  <2>. QED
      BY <2>2, <2>3
<1>5. CASE pc'[t] # "idle"
  <2> DEFINE ds == loc[t].devs
             ready == {d \in ds : isDeviceReady(d)}
  <2>1. plan(t) /\ ready # {}
      BY <1>5, PlanEffect, DoneEffect
  <2>2. PICK again \in SUBSET ready :
          LET others == {x \in Alive \X again : x[2] \in mDevices[x[1]]}
          IN  /\ loc'[t].disc = ({t} \X (mDevices[t] \ ds)) \cup others
              /\ loc'[t].conn = ({t} \X ready) \cup others
      BY <2>1, PlanEffect
  <2> DEFINE others == {x \in Alive \X again : x[2] \in mDevices[x[1]]}
  <2>3. /\ pc'[t] = "devSwitch" /\ loc'[t].devs = ds /\ (loc'[t].ready <=> Ready)
        /\ UNCHANGED a2dpMuted /\ pc[t] = "plan"
      BY <2>1, PlanEffect
  <2>4. ASSUME NEW y \in Streams, NEW d \in Devices, <<y, d>> \in loc'[t].conn
        PROVE  d \in ready /\ (y # t => d \in mDevices[y])
      BY <2>2, <2>4
  <2>5. CASE s # t
    <3>1. Untouched(s) /\ pc'[s] = pc[s] /\ loc'[s] = loc[s]
        BY <1>0, <2>1, <2>5, RoutingStays DEF Only
    <3>2. LeakAt(s)' /\ Own(s)'
        BY <1>0, <1>2, <1>3, <3>1, FrameAt
    <3>3. /\ Hidden(s)' <=> Hidden(s)
          /\ Private(s)' <=> Private(s)
          /\ Muting(s)' <=> Muting(s)
        BY <3>1 DEF Hidden, Private, Settled, Alive, Untouched, Muting
    <3>4. After(loc[t], s)' \subseteq mDevices[s] /\ mDevices[s] \subseteq Devices
        BY <2>4, <2>5, <3>1 DEF After, Untouched, Types
    <3>5. <<s, "spk">> \in loc'[t].conn => "spk" \in mDevices[s]
        BY <2>4, <2>5 DEF Devices
    <3>6. Private(s) => Hidden(s)
        BY DEF Hidden
    <3>7. LeakIn(t, s)'
        BY <1>0, <1>2, <2>3, <3>1, <3>3, <3>4, <3>5, <3>6 DEF LeakIn, LeakAt, Untouched
    <3>. QED
        BY <1>1, <3>2, <3>7
  <2>6. CASE s = t
    <3>1. ~Settled(s)'
        BY <2>3, <2>6 DEF Settled, Switching
    <3>2. LeakAt(s)' /\ LeakIn(t, s)'
        BY <2>3, <3>1 DEF LeakAt, LeakIn, Hidden, Private
    <3>3. want[t] = ds
        BY <1>0, <2>3, <2>6 DEF Own, Switching
    <3>4. ASSUME NEW d \in After(loc[t], t)' PROVE d \in ds
      <4>1. <<t, d>> \in loc'[t].conn \/ (d \in mDevices[t] /\ <<t, d>> \notin loc'[t].disc)
          BY <1>0, <3>4 DEF After
      <4>2. d \in Devices
          BY <3>4 DEF After
      <4>. QED
          BY <2>2, <2>4, <4>1, <4>2
    <3>5. \A y \in Streams : <<y, "a2dp">> \in loc'[t].conn => Ready
        BY <2>4 DEF Devices, Ready
    <3>6. Own(s)'
        BY <1>0, <1>3, <2>3, <2>6, <3>3, <3>4, <3>5 DEF Own, Switching
    <3>. QED
        BY <1>1, <2>6, <3>2, <3>6
  <2>. QED
      BY <2>5, <2>6
<1>. QED
    BY <1>4, <1>5

LEMMA SwitchHides ==
    ASSUME Inv, Order, Order', Await, Leak, NEW t \in Threads, devSwitch(t), NEW s \in Streams
    PROVE  LeakAt(s)' /\ Own(s)' /\ \A u \in Threads : LeakIn(u, s)'
<1> USE DEF Inv
<1>0. /\ s \in Threads /\ Only(t) /\ Phase(t) \in {"switch", "up", "down"}
      /\ Phase(t)' \in {"none", Phase(t)}
      /\ LeakAt(s) /\ Own(s) /\ (\A u \in Threads : LeakIn(u, s)) /\ Routing(t)
    BY Kin, RoutingGoes DEF Leak, Order, Routing
<1>1. /\ pc[t] = "lockAll" /\ loc[t].todo = {} /\ pc'[t] = loc[t].then
      /\ UNCHANGED <<currentState, suspendedOutDevIds, a2dpMuted, want, ignored>>
      /\ mDevices'[s] \subseteq After(loc[t], s) /\ Steady
    BY SwitchEffect DEF told
<1>2. /\ loc'[t].conn = loc[t].conn /\ loc'[t].disc = loc[t].disc /\ loc'[t].then = loc[t].then
      /\ loc'[t].devs = loc[t].devs /\ loc'[t].ready = loc[t].ready
  <2>1. PICK st : loc'[t] = [loc[t] EXCEPT !.status = st]
      BY SwitchEffect
  <2>2. loc[t] \in Loc
      BY DEF Types
  <2>. QED
      BY <2>1, <2>2 DEF Loc
<1>3. loc[t].then \in Thens /\ pc'[t] \notin {"mark", "collect", "unmute"}
    BY <1>1 DEF Placed, Thens
<1>4. \A u \in Threads : u # t => Phase(u) = "none" /\ Phase(u)' = "none"
    BY <1>0, OnlyKinds DEF Order, OneAtATime
<1>5. Ready' <=> Ready
    BY <1>0, <1>1, <1>4, ReadyStays
<1>6. ~Collectable(s)
    BY <1>1, <1>4, ComingPhase DEF Collectable, Collecting
<1>7. \A u \in Threads : u # t => LeakIn(u, s)'
    BY <1>4, BystanderNext
<1>8. CASE s # t
  <2>1. pc'[s] = pc[s] /\ loc'[s] = loc[s]
      BY <1>0, <1>8 DEF Only
  <2>2. /\ Hidden(s)' <=> Hidden(s)
        /\ Private(s)' <=> Private(s)
        /\ Muting(s)' <=> Muting(s)
      BY <1>1, <2>1 DEF Hidden, Private, Settled, Alive, Muting
  <2>3. pc[t] \in Pending /\ LeakIn(t, s) /\ (Private(s) => Hidden(s))
      BY <1>0, <1>1 DEF Pending, Hidden
  <2>4. Hidden(s) /\ After(loc[t], s) = Devices => Muting(s)
      BY <1>6, <2>3 DEF LeakIn
  <2>5. Private(s) /\ "spk" \in After(loc[t], s) => a2dpMuted[s] \/ Muting(s)
      BY <1>0, <1>1, <2>3 DEF LeakIn, LeakAt, After
  <2>6. After(loc[t], s) \subseteq Devices /\ After(loc[t], s)' \subseteq After(loc[t], s)
      BY <1>1, <1>2 DEF After
  <2>7. Muting(s) => suspendedOutDevIds[s] = {"a2dp"}
      BY DEF Await, AwaitAt
  <2>8. LeakAt(s)'
      BY <1>0, <1>1, <2>2, <2>4, <2>5, <2>6, <2>7 DEF LeakAt
  <2>9. ASSUME Muting(s) PROVE <<s, "a2dp">> \notin loc[t].conn
      BY <1>1, <1>8, <2>9 DEF Muting, Locked
  <2>10. ASSUME Private(s), <<s, "a2dp">> \in loc[t].conn, "spk" \in mDevices'[s] PROVE FALSE
    <3>1. After(loc[t], s) = Devices
        BY <1>1, <2>10 DEF After, Devices
    <3>. QED
        BY <2>3, <2>4, <2>9, <2>10, <3>1
  <2>11. LeakIn(t, s)'
      BY <1>1, <1>2, <1>3, <2>2, <2>3, <2>4, <2>6, <2>10 DEF LeakIn
  <2>12. Own(s)'
    <3>1. pc[s] \notin Switching
        BY <1>4, <1>8, Kin, SwitchingPhase DEF Order
    <3>. QED
        BY <2>1, <3>1 DEF Own, Switching
  <2>. QED
      BY <1>7, <2>8, <2>11, <2>12
<1>9. CASE s = t
  <2>1. loc[t].then = "done" /\ pc'[t] = "done"
      BY <1>1, <1>3, <1>9, Kin DEF Order, Kinds, KindAt, PhaseAt
  <2>2. ~Settled(s)'
      BY <1>9, <2>1 DEF Settled, Switching
  <2>3. LeakAt(s)' /\ LeakIn(t, s)'
      BY <2>1, <2>2 DEF LeakAt, LeakIn, Hidden, Private, Pending
  <2>4. Own(s)'
      BY <1>0, <1>1, <1>2, <1>5, <1>9, <2>1 DEF Own, Switching
  <2>. QED
      BY <1>7, <2>3, <2>4
<1>. QED
    BY <1>8, <1>9

LEMMA BtFlagsHide ==
    ASSUME Inv, Order, Order', Leak, NEW t \in BtThreads, BtFlags(t), NEW s \in Streams
    PROVE  LeakAt(s)' /\ Own(s)' /\ \A u \in Threads : LeakIn(u, s)'
<1> USE DEF Inv
<1>0. /\ s \in Threads /\ t \in Threads /\ s # t /\ LeakAt(s) /\ Own(s)
      /\ (\A u \in Threads : LeakIn(u, s)) /\ DOMAIN pc = Threads
    BY Kin DEF Leak, Types
<1>1. PICK p \in {"idle", "set", "clear", "a2dpSuspend", "a2dpResume",
                    "openSource", "closeSource"} :
          /\ pc' = [pc EXCEPT ![t] = p] /\ UNCHANGED <<streamVars, loc, want, ignored>>
          /\ pc[t] \in {"idle", "set", "clear", "openSource", "closeSource"}
          /\ p # "idle" \/ pc[t] # "idle"
    BY DEF BtFlags, setBTParameter, deviceConnection, suspendSet, suspendClear,
       open_a2dp_source, close_audio_source, Goto, told
<1>2. /\ pc'[t] = p /\ \A u \in Threads : u # t => pc'[u] = pc[u]
      /\ Untouched(s)
    BY <1>0, <1>1 DEF Untouched, streamVars, told
<1>3. /\ Collectable(s) => Collectable(s)'
      /\ Fetched(s) => Fetched(s)'
  <2>1. \A u \in Threads : Collecting(u, s) \/ Fetching(u, s) => u # t
      BY <1>1 DEF Collecting, Fetching
  <2>2. \A u \in Threads : u # t => /\ Collecting(u, s) => Collecting(u, s)'
                                    /\ Fetching(u, s) => Fetching(u, s)'
      BY <1>1, <1>2 DEF Collecting, Fetching
  <2>. QED
      BY <2>1, <2>2 DEF Collectable, Fetched
<1>4. pc[s] \notin Switching
  <2>1. SUFFICES ASSUME pc[s] \in Switching PROVE FALSE
      OBVIOUS
  <2>2. Phase(s) = "switch"
      BY <2>1, SwitchingPhase DEF Order
  <2>3. Phase(s)' = Phase(s)
      BY <1>0, <1>1, <1>2, Zenon DEF Phase, PhaseAt
  <2>4. Phase(t) # "none" \/ Phase(t)' # "none"
      BY <1>1, <1>2 DEF Phase, PhaseAt
  <2>. QED
      BY <1>0, <2>2, <2>3, <2>4 DEF Order, OneAtATime
<1>5. LeakAt(s)' /\ Own(s)'
    BY <1>0, <1>1, <1>2, <1>3, <1>4, FrameAt DEF Switching
<1>6. ASSUME NEW u \in Threads PROVE LeakIn(u, s)'
  <2>1. CASE u = t
      BY <1>2, <2>1 DEF LeakIn, Pending
  <2>2. CASE u # t
      BY <1>0, <1>1, <1>2, <1>3, <2>2, FrameIn
  <2>. QED
      BY <2>1, <2>2
<1>. QED
    BY <1>5, <1>6

(* a2dpSuspend mutes what it moves, and moves nothing from device to device   *)
(* that is on both.                                                           *)
LEMMA SuspendHides ==
    ASSUME Inv, Inv', Order, Order', Leak, NEW t \in BtThreads, NEW s \in Streams,
           a2dpSuspend(t) \/ markedAll(t) \/ forceDeviceSwitch(t) \/ forced(t) \/ forcedAgain(t)
           \/ \E x \in Streams : markOne(t, x)
    PROVE  LeakAt(s)' /\ Own(s)' /\ \A u \in Threads : LeakIn(u, s)'
<1> USE DEF Inv
<1>0. /\ s \in Threads /\ t \in Threads /\ s # t /\ LeakAt(s) /\ Own(s) /\ BtCalls(t)
      /\ (\A u \in Threads : LeakIn(u, s)) /\ Only(t) /\ KindAt(t, pc[t], loc[t]) /\ Kinds'
      /\ UNCHANGED <<currentState, mDevices, bt, mStreamMutex, want, ignored>>
    BY Kin, BtCallsGo, BtCallsStill DEF Leak, Order, Kinds, BtCalls
<1>1. Phase(t) = "down" /\ Phase(t)' \in {"none", Phase(t)}
  <2>1. pc[t] \in {"a2dpSuspend", "mark", "force", "forced", "forcedAgain"}
      BY DownEffects, OneEffects
  <2>. QED
      BY <1>0, <2>1, BtCallsGo DEF Phase, PhaseAt, Order
<1>2. /\ \A u \in Threads : u # t => Phase(u) = "none" /\ Phase(u)' = "none"
      /\ pc'[s] = pc[s] /\ loc'[s] = loc[s] /\ (Muting(s)' <=> Muting(s))
  <2>1. \A u \in Threads : u # t => Phase(u) = "none" /\ Phase(u)' = "none"
      BY <1>0, <1>1, OnlyKinds DEF Order, OneAtATime
  <2>2. pc'[s] = pc[s] /\ loc'[s] = loc[s]
      BY <1>0 DEF Only
  <2>. QED
      BY <2>1, <2>2 DEF Muting
<1>3. ~Collectable(s) /\ ~Fetched(s) /\ pc[s] \notin Switching
    BY <1>0, <1>1, <1>2, ComingPhase, SwitchingPhase DEF Collectable, Fetched, Order
<1>4. \A u \in Threads : u # t => LeakIn(u, s)'
    BY <1>2, BystanderNext
<1>5. /\ Private(s)' <=> Private(s)
      /\ a2dpMuted'[s] = a2dpMuted[s] => (Hidden(s)' <=> Hidden(s))
      /\ Settled(s)' <=> Settled(s)
      /\ Private(s) => Hidden(s)
      /\ Hidden(s) => s \in Alive
    BY <1>0, <1>2 DEF Private, Hidden, Settled, Alive, told
<1>6. Own(s)'
    BY <1>2, <1>3 DEF Own, Switching
<1>7. ASSUME Untouched(s) PROVE LeakAt(s)'
    BY <1>0, <1>2, <1>3, <1>7, FrameAt DEF Switching
<1>8. ASSUME pc'[t] = "idle" PROVE LeakIn(t, s)'
    BY <1>8 DEF LeakIn, Pending
<1>9. UNCHANGED <<suspendedOutDevIds, a2dpMuted>> => Untouched(s) /\ (Hidden(s)' <=> Hidden(s))
    BY <1>0, <1>5 DEF Untouched, told
<1>11. CASE a2dpSuspend(t)
  <2>1. /\ UNCHANGED <<suspendedOutDevIds, a2dpMuted>> /\ pc[t] = "a2dpSuspend"
        /\ \/ pc'[t] = "idle"
           \/ Becomes(t, "mark", Sharing, Sharing \X {"a2dp"}, Sharing \X {"spk"}, "forced")
      BY <1>11, DownEffects
  <2>2. ASSUME Becomes(t, "mark", Sharing, Sharing \X {"a2dp"}, Sharing \X {"spk"}, "forced")
        PROVE  LeakIn(t, s)'
    <3>1. /\ pc'[t] = "mark" /\ loc'[t].todo = Sharing /\ loc'[t].disc = Sharing \X {"a2dp"}
          /\ loc'[t].conn = Sharing \X {"spk"}
        BY <2>2 DEF Becomes
    <3>2. Hidden(s) => "a2dp" \notin After(loc[t], s)'
        BY <1>0, <1>5, <3>1 DEF After, Sharing
    <3>3. "a2dp" \in Devices
        BY DEF Devices
    <3>4. s \in Sharing => mDevices'[s] # {}
        BY <1>0 DEF Sharing
    <3>. QED
        BY <1>9, <2>1, <3>1, <3>2, <3>3, <3>4 DEF LeakIn, Pending
  <2>. QED
      BY <1>4, <1>6, <1>7, <1>8, <1>9, <2>1, <2>2
<1>12. CASE forcedAgain(t) \/ (forced(t) /\ pc'[t] = "idle")
    BY <1>4, <1>6, <1>7, <1>8, <1>9, <1>12, DownEffects
<1>13. CASE markedAll(t)
  <2>1. /\ UNCHANGED <<suspendedOutDevIds, a2dpMuted, loc>> /\ pc[t] = "mark" /\ pc'[t] = "force"
        /\ loc[t].todo = {}
      BY <1>13, DownEffects
  <2>2. After(loc[t], s)' = After(loc[t], s)
      BY <1>0, <2>1 DEF After
  <2>3. LeakIn(t, s)'
      BY <1>0, <1>2, <1>3, <1>5, <1>9, <2>1, <2>2 DEF LeakIn, Pending
  <2>. QED
      BY <1>4, <1>6, <1>7, <1>9, <2>1, <2>3
<1>14. CASE forceDeviceSwitch(t)
  <2>1. /\ UNCHANGED <<suspendedOutDevIds, a2dpMuted>> /\ pc[t] = "force" /\ pc'[t] = "devSwitch"
        /\ loc'[t].disc = Living(loc[t].disc) /\ loc'[t].conn = Living(loc[t].conn)
      BY <1>14, DownEffects DEF Becomes
  <2>2. Hidden(s) => After(loc[t], s)' = After(loc[t], s)
      BY <1>0, <1>5, <2>1 DEF After, Living
  <2>3. Private(s) /\ <<s, "spk">> \in loc'[t].conn => <<s, "spk">> \in loc[t].conn
      BY <2>1 DEF Living
  <2>4. LeakIn(t, s)'
      BY <1>0, <1>2, <1>3, <1>5, <1>9, <2>1, <2>2, <2>3 DEF LeakIn, Pending
  <2>. QED
      BY <1>4, <1>6, <1>7, <1>9, <2>1, <2>4
<1>15. CASE forced(t) /\ pc'[t] # "idle"
  <2>1. /\ UNCHANGED <<suspendedOutDevIds, a2dpMuted>> /\ pc[t] = "forced" /\ pc'[t] = "devSwitch"
        /\ loc'[t].disc = loc[t].disc \cup OnSpeaker /\ loc'[t].conn = loc[t].conn \cup OnSpeaker
      BY <1>15, DownEffects DEF Becomes
  <2>2. loc[t].conn \subseteq Streams \X {"spk"}
      BY <1>0, <2>1 DEF KindAt
  <2>3. ASSUME After(loc[t], s)' = Devices, Hidden(s) PROVE Muting(s)
    <3>1. "a2dp" \in mDevices[s] /\ <<s, "a2dp">> \notin loc[t].disc
        BY <1>0, <2>1, <2>2, <2>3 DEF After, OnSpeaker, Devices
    <3>2. CASE "spk" \in mDevices[s]
      <4>1. mDevices[s] = Devices
          BY <3>1, <3>2 DEF Devices, Types
      <4>. QED
          BY <1>0, <1>3, <2>3, <4>1 DEF LeakAt
    <3>3. CASE "spk" \notin mDevices[s]
      <4>1. <<s, "spk">> \in loc[t].conn
          BY <1>0, <2>1, <2>3, <3>3 DEF After, OnSpeaker, Devices
      <4>2. After(loc[t], s) = Devices
          BY <3>1, <4>1 DEF After, Devices
      <4>. QED
          BY <1>0, <1>3, <2>1, <2>3, <4>2 DEF LeakIn, Pending
    <3>. QED
        BY <3>2, <3>3
  <2>4. ASSUME <<s, "spk">> \in loc'[t].conn, Private(s) PROVE a2dpMuted[s] \/ Muting(s)
    <3>1. <<s, "spk">> \in loc[t].conn \/ "spk" \in mDevices[s]
        BY <2>1, <2>4 DEF OnSpeaker
    <3>. QED
        BY <1>0, <2>1, <2>4, <3>1 DEF LeakIn, LeakAt, Pending
  <2>5. LeakIn(t, s)'
      BY <1>2, <1>5, <1>9, <2>1, <2>3, <2>4 DEF LeakIn
  <2>. QED
      BY <1>4, <1>6, <1>7, <1>9, <2>1, <2>5
<1>16. CASE \E x \in Streams : markOne(t, x)
  <2>1. PICK x \in Streams : markOne(t, x)
      BY <1>16
  <2>2. /\ pc[t] = "mark" /\ pc'[t] = "mark" /\ x \in loc[t].todo
        /\ loc'[t].todo = loc[t].todo \ {x} /\ loc'[t].disc = loc[t].disc
        /\ loc'[t].conn = loc[t].conn
        /\ \A y \in Streams : y # x => /\ suspendedOutDevIds'[y] = suspendedOutDevIds[y]
                                       /\ a2dpMuted'[y] = a2dpMuted[y]
        /\ LET applies == "a2dp" \in mDevices[x] /\ ("spk" \in mDevices[x] \/ ~a2dpMuted[x])
           IN  /\ suspendedOutDevIds'[x] = IF applies THEN Marked(x) ELSE suspendedOutDevIds[x]
               /\ a2dpMuted'[x] <=> a2dpMuted[x] \/ (applies /\ "spk" \notin mDevices[x])
      BY <2>1, OneEffects DEF Becomes
  <2>3. After(loc[t], s)' = After(loc[t], s)
      BY <1>0, <2>2 DEF After
  <2>4. CASE s # x
    <3>1. Untouched(s) /\ (Hidden(s)' <=> Hidden(s))
        BY <1>0, <1>5, <2>2, <2>4 DEF Untouched, told
    <3>2. LeakIn(t, s)'
        BY <1>0, <1>2, <1>3, <1>5, <2>2, <2>3, <2>4, <3>1 DEF LeakIn, Pending, Untouched
    <3>. QED
        BY <1>4, <1>6, <1>7, <3>1, <3>2
  <2>5. CASE s = x
    <3>1. ~Muting(s)
        BY <2>1, <2>5, RoutingAssumption DEF markOne, StreamFree, Muting, Locked, Threads
    <3>2. /\ mDevices[s] # {} /\ <<s, "a2dp">> \in loc[t].disc /\ mDevices[s] \subseteq Devices
        BY <1>0, <2>2, <2>5 DEF LeakIn, Types
    <3>3. loc[t].conn \subseteq Streams \X {"spk"}
        BY <1>0, <2>2 DEF KindAt
    <3>4. "a2dp" \notin After(loc[t], s)
        BY <3>2, <3>3 DEF After
    <3>5. ASSUME mDevices[s] = Devices
          PROVE  /\ ~Hidden(s) /\ ~Private(s) /\ ~Hidden(s)'
      <4>1. ~Hidden(s) /\ ~Private(s)
          BY <1>0, <1>3, <1>5, <3>1, <3>5 DEF LeakAt
      <4>2. a2dpMuted'[s] <=> a2dpMuted[s]
          BY <2>2, <2>5, <3>5 DEF Devices
      <4>. QED
          BY <1>5, <4>1, <4>2 DEF Hidden
    <3>6. ASSUME mDevices[s] # Devices, Hidden(s)' PROVE suspendedOutDevIds'[s] \subseteq {"a2dp"}
      <4>1. CASE "a2dp" \in mDevices[s] /\ ~a2dpMuted[s]
        <5>1. "spk" \notin mDevices[s]
            BY <3>2, <3>6, <4>1 DEF Devices
        <5>. QED
            BY <2>2, <2>5, <4>1, <5>1 DEF Marked
      <4>2. CASE ~("a2dp" \in mDevices[s] /\ ~a2dpMuted[s])
        <5>1. ~("a2dp" \in mDevices[s] /\ ("spk" \in mDevices[s] \/ ~a2dpMuted[s]))
            BY <3>2, <3>6, <4>2 DEF Devices
        <5>2. suspendedOutDevIds'[s] = suspendedOutDevIds[s] /\ (a2dpMuted'[s] <=> a2dpMuted[s])
            BY <2>2, <2>5, <5>1
        <5>3. Hidden(s)
            BY <1>5, <3>6, <5>2 DEF Hidden
        <5>. QED
            BY <1>0, <5>2, <5>3 DEF LeakAt
      <4>. QED
          BY <4>1, <4>2
    <3>7. Private(s) /\ "spk" \in mDevices[s] => a2dpMuted'[s]
        BY <1>0, <2>2, <2>5, <3>1 DEF LeakAt
    <3>8. LeakAt(s)'
        BY <1>0, <1>5, <3>5, <3>6, <3>7 DEF LeakAt
    <3>9. Private(s) => a2dpMuted'[s]
      <4>1. "a2dp" \in mDevices[s] /\ "spk" \notin mDevices[s] => a2dpMuted'[s]
          BY <2>2, <2>5
      <4>2. "a2dp" \in mDevices[s] \/ "spk" \in mDevices[s]
          BY <3>2 DEF Devices
      <4>. QED
          BY <3>7, <4>1, <4>2
    <3>10. LeakIn(t, s)'
        BY <1>5, <2>2, <2>3, <2>5, <3>4, <3>9 DEF LeakIn, Devices
    <3>. QED
        BY <1>4, <1>6, <3>8, <3>10
  <2>. QED
      BY <2>4, <2>5
<1>. QED
    BY <1>11, <1>12, <1>13, <1>14, <1>15, <1>16

(* a2dpResume takes what it brings back off the speaker before it unmutes it. *)
LEMMA ResumeHides ==
    ASSUME Inv, Inv', Order, Order', Leak, NEW t \in BtThreads, NEW s \in Streams,
           a2dpResume(t) \/ collectedAll(t) \/ restored(t) \/ unmutedAll(t)
           \/ \E x \in Streams : collectOne(t, x) \/ unmuteOne(t, x)
    PROVE  LeakAt(s)' /\ Own(s)' /\ \A u \in Threads : LeakIn(u, s)'
<1> USE DEF Inv
<1>0. /\ s \in Threads /\ t \in Threads /\ s # t /\ LeakAt(s) /\ Own(s) /\ BtCalls(t)
      /\ (\A u \in Threads : LeakIn(u, s)) /\ Only(t) /\ KindAt(t, pc[t], loc[t]) /\ Kinds'
      /\ UNCHANGED <<currentState, mDevices, bt, mStreamMutex, want, ignored>>
    BY Kin, BtCallsGo, BtCallsStill DEF Leak, Order, Kinds, BtCalls
<1>1. Phase(t) = "up" /\ Phase(t)' \in {"none", Phase(t)}
  <2>1. pc[t] \in {"a2dpResume", "collect", "restored", "unmute"}
      BY UpEffects, OneEffects
  <2>. QED
      BY <1>0, <2>1, BtCallsGo DEF Phase, PhaseAt, Order
<1>2. /\ \A u \in Threads : u # t => Phase(u) = "none" /\ Phase(u)' = "none"
      /\ pc'[s] = pc[s] /\ loc'[s] = loc[s] /\ (Muting(s)' <=> Muting(s))
  <2>1. \A u \in Threads : u # t => Phase(u) = "none" /\ Phase(u)' = "none"
      BY <1>0, <1>1, OnlyKinds DEF Order, OneAtATime
  <2>2. pc'[s] = pc[s] /\ loc'[s] = loc[s]
      BY <1>0 DEF Only
  <2>. QED
      BY <2>1, <2>2 DEF Muting
<1>3. /\ Collectable(s) <=> Collecting(t, s)
      /\ Fetched(s) <=> Fetching(t, s)
      /\ pc[s] \notin Switching
    BY <1>0, <1>2, ComingPhase, SwitchingPhase DEF Collectable, Fetched, Order
<1>4. \A u \in Threads : u # t => LeakIn(u, s)'
    BY <1>2, BystanderNext
<1>5. /\ Private(s)' <=> Private(s)
      /\ a2dpMuted'[s] = a2dpMuted[s] => (Hidden(s)' <=> Hidden(s))
      /\ Settled(s)' <=> Settled(s)
      /\ Private(s) => Hidden(s)
      /\ Hidden(s) => s \in Alive
    BY <1>0, <1>2 DEF Private, Hidden, Settled, Alive, told
<1>6. Own(s)'
    BY <1>2, <1>3 DEF Own, Switching
<1>7. ASSUME Untouched(s),
             s \in Alive /\ mDevices[s] = Devices /\ (Collecting(t, s) \/ Fetching(t, s))
                => (Collecting(t, s) \/ Fetching(t, s))'
      PROVE  LeakAt(s)'
  <2>1. (Collecting(t, s) \/ Fetching(t, s))' => (Collectable(s) \/ Fetched(s))'
      BY <1>0 DEF Collectable, Fetched
  <2>. QED
      BY <1>0, <1>2, <1>3, <1>7, <2>1, FrameAt DEF Switching
<1>8. ASSUME pc'[t] = "idle" PROVE LeakIn(t, s)'
    BY <1>8 DEF LeakIn, Pending
<1>9. UNCHANGED <<suspendedOutDevIds, a2dpMuted>> => Untouched(s) /\ (Hidden(s)' <=> Hidden(s))
    BY <1>0, <1>5 DEF Untouched, told
<1>10. CASE a2dpResume(t)
  <2>1. /\ UNCHANGED <<suspendedOutDevIds, a2dpMuted>> /\ pc[t] = "a2dpResume"
        /\ \/ pc'[t] = "idle" /\ Candidates = {}
           \/ Becomes(t, "collect", Candidates, {}, {}, "restored")
      BY <1>10, UpEffects
  <2>2. s \in Alive /\ mDevices[s] = Devices => s \in Candidates
      BY DEF Candidates, Devices
  <2>3. CASE pc'[t] = "idle" /\ Candidates = {}
      BY <1>4, <1>6, <1>7, <1>8, <1>9, <2>1, <2>2, <2>3
  <2>4. CASE Becomes(t, "collect", Candidates, {}, {}, "restored")
    <3>1. pc'[t] = "collect" /\ loc'[t].todo = Candidates /\ loc'[t].conn = {} /\ loc'[t].disc = {}
        BY <2>4 DEF Becomes
    <3>2. s \in Candidates => Collecting(t, s)'
        BY <3>1 DEF Collecting
    <3>3. After(loc[t], s)' \subseteq mDevices[s] /\ mDevices[s] \subseteq Devices
        BY <1>0, <3>1 DEF After, Types
    <3>4. LeakIn(t, s)'
      <4>1. Collecting(t, s)' => Collectable(s)'
          BY <1>0 DEF Collectable
      <4>. QED
          BY <1>5, <1>9, <2>1, <2>2, <3>1, <3>2, <3>3, <4>1 DEF LeakIn
    <3>. QED
        BY <1>4, <1>6, <1>7, <1>9, <2>1, <2>2, <3>2, <3>4
  <2>. QED
      BY <2>1, <2>3, <2>4
<1>11. CASE collectedAll(t)
  <2>1. /\ UNCHANGED <<suspendedOutDevIds, a2dpMuted>> /\ pc[t] = "collect" /\ loc[t].todo = {}
        /\ \/ pc'[t] = "idle" /\ loc[t].conn = {}
           \/ pc'[t] = "devSwitch" /\ UNCHANGED loc
      BY <1>11, UpEffects
  <2>2. ~Collecting(t, s)
      BY <2>1 DEF Collecting
  <2>3. CASE pc'[t] = "idle" /\ loc[t].conn = {}
    <3>1. ~Fetching(t, s)
        BY <2>3 DEF Fetching
    <3>. QED
        BY <1>4, <1>6, <1>7, <1>8, <1>9, <2>1, <2>2, <2>3, <3>1
  <2>4. CASE pc'[t] = "devSwitch" /\ UNCHANGED loc
    <3>1. Fetching(t, s) => Fetching(t, s)'
        BY <2>4 DEF Fetching
    <3>2. After(loc[t], s)' = After(loc[t], s)
        BY <1>0, <2>4 DEF After
    <3>3. LeakIn(t, s)'
        BY <1>0, <1>2, <1>3, <1>5, <1>9, <2>1, <2>2, <2>4, <3>2 DEF LeakIn, Pending
    <3>. QED
        BY <1>4, <1>6, <1>7, <1>9, <2>1, <2>2, <3>1, <3>3
  <2>. QED
      BY <2>1, <2>3, <2>4
<1>12. CASE restored(t)
  <2>1. /\ UNCHANGED <<suspendedOutDevIds, a2dpMuted>> /\ pc[t] = "restored"
        /\ \/ pc'[t] = "idle"
           \/ /\ loc[t].status = "ok"
              /\ Becomes(t, "unmute", {x[1] : x \in loc[t].conn} \cap Alive,
                         loc[t].disc, loc[t].conn, loc[t].then)
      BY <1>12, UpEffects
  <2>2. ~Collecting(t, s) /\ ~Fetching(t, s)
      BY <2>1 DEF Collecting, Fetching
  <2>3. ASSUME loc[t].status = "ok",
               Becomes(t, "unmute", {x[1] : x \in loc[t].conn} \cap Alive,
                         loc[t].disc, loc[t].conn, loc[t].then)
        PROVE  LeakIn(t, s)'
    <3>1. pc'[t] = "unmute" /\ loc'[t].todo = {x[1] : x \in loc[t].conn} \cap Alive
        BY <2>3 DEF Becomes
    <3>2. ASSUME s \in loc'[t].todo PROVE <<s, "a2dp">> \in loc[t].conn
      <4>1. loc[t].conn \subseteq Streams \X {"a2dp"}
          BY <1>0, <2>1 DEF KindAt
      <4>2. PICK x \in loc[t].conn : x[1] = s
          BY <3>1, <3>2
      <4>. QED
          BY <4>1, <4>2
    <3>3. s \in loc'[t].todo /\ Private(s) => "spk" \notin mDevices[s]
        BY <1>0, <2>1, <2>3, <3>2 DEF LeakIn
    <3>. QED
        BY <1>0, <1>5, <3>1, <3>3 DEF LeakIn, Pending
  <2>. QED
      BY <1>4, <1>6, <1>7, <1>8, <1>9, <2>1, <2>2, <2>3
<1>13. CASE unmutedAll(t)
  <2>1. /\ UNCHANGED <<suspendedOutDevIds, a2dpMuted>> /\ pc[t] = "unmute" /\ pc'[t] = "idle"
      BY <1>13, UpEffects
  <2>2. ~Collecting(t, s) /\ ~Fetching(t, s)
      BY <2>1 DEF Collecting, Fetching
  <2>. QED
      BY <1>4, <1>6, <1>7, <1>8, <1>9, <2>1, <2>2
<1>14. CASE \E x \in Streams : collectOne(t, x)
  <2>1. PICK x \in Streams : collectOne(t, x)
      BY <1>14
  <2> DEFINE back == IF "a2dp" \in suspendedOutDevIds[x] THEN {x} ELSE {}
             from == IF Cardinality(suspendedOutDevIds[x]) = 1 THEN mDevices[x] ELSE {}
  <2>2. /\ pc[t] = "collect" /\ pc'[t] = "collect" /\ x \in loc[t].todo
        /\ loc'[t].todo = loc[t].todo \ {x} /\ loc'[t].disc = loc[t].disc \cup (back \X from)
        /\ loc'[t].conn = loc[t].conn \cup (back \X {"a2dp"}) /\ loc'[t].then = loc[t].then
        /\ UNCHANGED <<suspendedOutDevIds, a2dpMuted>>
      BY <2>1, OneEffects DEF Becomes
  <2>3. loc[t].then = "restored" /\ loc[t].conn \subseteq Streams \X {"a2dp"}
      BY <1>0, <2>2 DEF KindAt
  <2>4. CASE s # x
    <3>1. \A d : /\ <<s, d>> \in loc'[t].conn <=> <<s, d>> \in loc[t].conn
                 /\ <<s, d>> \in loc'[t].disc <=> <<s, d>> \in loc[t].disc
        BY <2>2, <2>4
    <3>2. /\ Collecting(t, s) => Collecting(t, s)'
          /\ Fetching(t, s) => Fetching(t, s)'
        BY <2>2, <2>4, <3>1 DEF Collecting, Fetching
    <3>3. After(loc[t], s)' = After(loc[t], s)
        BY <1>0, <3>1 DEF After
    <3>4. Collectable(s) => Collectable(s)'
        BY <1>0, <1>3, <3>2 DEF Collectable
    <3>5. LeakIn(t, s)'
        BY <1>0, <1>2, <1>5, <1>9, <2>2, <3>1, <3>3, <3>4 DEF LeakIn, Pending
    <3>. QED
        BY <1>4, <1>6, <1>7, <1>9, <2>2, <3>2, <3>5
  <2>5. CASE s = x
    <3>1. ~Muting(s)
        BY <2>1, <2>5, RoutingAssumption DEF collectOne, StreamFree, Muting, Locked, Threads
    <3>2. <<s, "a2dp">> \notin loc[t].conn /\ <<s, "spk">> \notin loc[t].conn
        BY <1>0, <2>2, <2>3, <2>5 DEF LeakIn
    <3>3. ASSUME Hidden(s), mDevices[s] = Devices PROVE Fetching(t, s)'
      <4>1. suspendedOutDevIds[s] = {"a2dp"}
          BY <1>0, <3>3 DEF LeakAt
      <4>2. back = {s} /\ from = Devices
          BY <2>5, <3>3, <4>1, FS_Singleton
      <4>. QED
          BY <2>2, <2>3, <4>2 DEF Fetching, Devices
    <3>4. LeakAt(s)'
      <4>1. Fetching(t, s)' => Fetched(s)'
          BY <1>0 DEF Fetched
      <4>. QED
          BY <1>0, <1>2, <1>5, <1>9, <2>2, <3>3, <4>1 DEF LeakAt
    <3>5. ASSUME Hidden(s) PROVE After(loc[t], s)' # Devices
      <4>1. SUFFICES ASSUME After(loc[t], s)' = Devices PROVE FALSE
          OBVIOUS
      <4>2. <<s, "spk">> \notin loc'[t].conn
          BY <2>2, <3>2
      <4>3. "spk" \in mDevices[s] /\ <<s, "spk">> \notin loc'[t].disc
          BY <1>0, <4>1, <4>2 DEF After, Devices
      <4>4. CASE "a2dp" \in suspendedOutDevIds[s]
        <5>1. suspendedOutDevIds[s] = {"a2dp"}
            BY <1>0, <3>5, <4>4 DEF LeakAt
        <5>2. back = {s} /\ from = mDevices[s]
            BY <2>5, <5>1, FS_Singleton
        <5>. QED
            BY <2>2, <4>3, <5>2
      <4>5. CASE "a2dp" \notin suspendedOutDevIds[s]
        <5>1. <<s, "a2dp">> \notin loc'[t].conn
            BY <2>2, <2>5, <3>2, <4>5
        <5>2. "a2dp" \in mDevices[s]
            BY <1>0, <4>1, <5>1 DEF After, Devices
        <5>3. mDevices[s] = Devices
            BY <4>3, <5>2 DEF Devices, Types
        <5>. QED
            BY <1>0, <3>5, <4>5, <5>3 DEF LeakAt
      <4>. QED
          BY <4>4, <4>5
    <3>6. LeakIn(t, s)'
        BY <1>5, <1>9, <2>2, <2>5, <3>2, <3>5 DEF LeakIn
    <3>. QED
        BY <1>4, <1>6, <3>4, <3>6
  <2>. QED
      BY <2>4, <2>5
<1>15. CASE \E x \in Streams : unmuteOne(t, x)
  <2>1. PICK x \in Streams : unmuteOne(t, x)
      BY <1>15
  <2>2. /\ pc[t] = "unmute" /\ pc'[t] = "unmute" /\ x \in loc[t].todo
        /\ loc'[t].todo = loc[t].todo \ {x}
        /\ \A y \in Streams : y # x => /\ suspendedOutDevIds'[y] = suspendedOutDevIds[y]
                                       /\ a2dpMuted'[y] = a2dpMuted[y]
        /\ suspendedOutDevIds'[x] = {} /\ ~a2dpMuted'[x]
      BY <2>1, OneEffects DEF Becomes
  <2>3. ~Collecting(t, s) /\ ~Fetching(t, s)
      BY <2>2 DEF Collecting, Fetching
  <2>4. LeakIn(t, s)'
      BY <1>0, <1>5, <2>2 DEF LeakIn, Pending
  <2>5. CASE s # x
    <3>1. Untouched(s)
        BY <1>0, <2>2, <2>5 DEF Untouched, told
    <3>. QED
        BY <1>4, <1>6, <1>7, <2>3, <2>4, <3>1
  <2>6. CASE s = x
    <3>1. Hidden(s)' => Private(s) /\ "spk" \notin mDevices[s]
        BY <1>0, <1>5, <2>2, <2>6 DEF Hidden, LeakIn
    <3>2. Private(s) => "spk" \notin mDevices[s]
        BY <1>0, <2>2, <2>6 DEF LeakIn
    <3>3. LeakAt(s)'
        BY <1>0, <1>5, <2>2, <2>6, <3>1, <3>2 DEF LeakAt, Devices
    <3>. QED
        BY <1>4, <1>6, <2>4, <3>3
  <2>. QED
      BY <2>5, <2>6
<1>. QED
    BY <1>10, <1>11, <1>12, <1>13, <1>14, <1>15

LEMMA LeakInit == ASSUME Init PROVE Leak
<1>1. \A t \in Threads : pc[t] = "idle"
    BY DEF Init
<1>2. \A s \in Streams : pc[s] = "idle" /\ s \notin Alive
    BY DEF Init, Threads, Alive
<1>3. ASSUME NEW s \in Streams PROVE LeakAt(s) /\ Own(s)
    BY <1>2 DEF LeakAt, Own, Hidden, Private, Settled, Switching
<1>4. ASSUME NEW s \in Streams, NEW t \in Threads PROVE LeakIn(t, s)
    BY <1>1 DEF LeakIn, Pending
<1>. QED
    BY <1>3, <1>4 DEF Leak

LEMMA LeakNext ==
    ASSUME Orderly, Inv, Inv', Order, Order', Await, Leak, [Next]_vars
    PROVE  Leak'
<1>1. SUFFICES ASSUME NEW s \in Streams
               PROVE  LeakAt(s)' /\ Own(s)' /\ \A u \in Threads : LeakIn(u, s)'
    BY DEF Leak
<1>2. CASE Next
  <2>1. CASE \E x \in Streams : Calls(x)
      BY <2>1, CallsHide
  <2>2. CASE \E x \in Streams : \E ds \in Routes : switchDevice(x, ds)
      BY <2>2, SwitchDeviceHides
  <2>3. CASE \E t \in Threads : Routing(t)
      BY <2>3, PlanHides, ListHides, SwitchHides DEF Routing
  <2>4. CASE \E t \in BtThreads : BtFlags(t)
      BY <2>4, BtFlagsHide
  <2>5. CASE \E t \in BtThreads : BtCalls(t)
      BY <2>5, SuspendHides, ResumeHides DEF BtCalls
  <2>. QED
      BY <1>2, <2>1, <2>2, <2>3, <2>4, <2>5, StepKinds
<1>3. CASE UNCHANGED vars
  <2>1. /\ UNCHANGED <<pc, loc, bt>> /\ Untouched(s)
        /\ LeakAt(s) /\ Own(s) /\ \A u \in Threads : LeakIn(u, s)
      BY <1>3 DEF vars, Untouched, Leak
  <2>2. /\ Collectable(s)' <=> Collectable(s)
        /\ Fetched(s)' <=> Fetched(s)
        /\ Ready' <=> Ready
      BY <2>1 DEF Collectable, Collecting, Fetched, Fetching, Ready, isDeviceReady
  <2>. QED
      BY <2>1, <2>2, FrameAt, FrameIn
<1>. QED
    BY <1>2, <1>3

(* Music meant for the headset alone is not heard from the speaker while the  *)
(* headset is suspended, whichever calls of the Bluetooth stack or of the     *)
(* session fail: a2dpSuspend (BTUtils.cpp) and start() mute what they bring   *)
(* to the speaker, and the resumption takes it off before it unmutes it.  Not *)
(* so a stream whose start() lost its session and with it the mute.           *)
THEOREM NeverLeaks == ASSUME Orderly PROVE Spec => []NoLeak
<1> DEFINE IInv == Inv /\ Order /\ Await /\ Leak
<1>1. Init => IInv
    BY InvInit, OrderInit, AwaitInit, LeakInit
<1>2. IInv /\ [Next]_vars => IInv'
    BY InvNext, OrderNext, AwaitNext, LeakNext
<1>3. IInv => NoLeak
  <2>1. SUFFICES ASSUME IInv, NEW s \in Streams, Runs(s), pc[s] = "idle", s \notin ignored,
                        want[s] = {"a2dp"}, "spk" \in mDevices[s]
                 PROVE  a2dpMuted[s]
      BY DEF NoLeak
  <2>2. Private(s)
      BY <2>1 DEF Private, Settled, Switching, Alive, Runs
  <2>. QED
      BY <2>1, <2>2 DEF Leak, LeakAt, Muting
<1>. QED
    BY <1>1, <1>2, <1>3, PTL DEF Spec

-----------------------------------------------------------------------------
(* Nothing is left behind.  Unless a call failed, a stream that is not in the *)
(* middle of a route of its own is either whole, on what its client asked     *)
(* for, or has a mark with which the resumption brings it back; and once the  *)
(* suspension is over that resumption is on its way to it, or the suspension  *)
(* ended without one and the stream was stranded.                             *)
Whole(s) == ~a2dpMuted[s] /\ suspendedOutDevIds[s] = {} /\ want[s] \subseteq mDevices[s]
Back(s) == \/ suspendedOutDevIds[s] = {"a2dp"} /\ want[s] = {"a2dp"}
           \/ suspendedOutDevIds[s] = Devices /\ "spk" \in mDevices[s]

Returning(t, s) ==
    /\ pc[t] \in {"collect", "devSwitch", "lockAll"} /\ loc[t].then = "restored"
    /\ <<s, "a2dp">> \in loc[t].conn
    /\ suspendedOutDevIds[s] = {"a2dp"} => \A d \in mDevices[s] : <<s, d>> \in loc[t].disc
    /\ suspendedOutDevIds[s] # {"a2dp"} => <<s, "spk">> \notin loc[t].disc
Unmuting(t, s) ==
    /\ want[s] \subseteq mDevices[s]
    /\ \/ pc[t] = "restored" /\ loc[t].status = "ok" /\ <<s, "a2dp">> \in loc[t].conn
       \/ pc[t] = "unmute" /\ s \in loc[t].todo
Due(t, s) == Collecting(t, s) \/ Returning(t, s) \/ Unmuting(t, s)

Stray(s) == s \in stranded /\ \A t \in Threads : Phase(t) # "up"
Comes(s) == bt.suspended \/ (\E t \in Threads : Due(t, s)) \/ Stray(s)

Kept(s) ==
    Settled(s) =>
      /\ "a2dp" \notin want[s] => Whole(s) /\ "a2dp" \notin mDevices[s]
      /\ "a2dp" \in want[s] /\ bt.available => Whole(s) \/ (Back(s) /\ Comes(s))

(* A route of its own ends on every device asked for that is ready.           *)
Asked(s) ==
    /\ pc[s] \in Switching => s \in Alive /\ want[s] # {}
    /\ pc[s] \in {"devSwitch", "lockAll"} =>
          \A d \in want[s] : isDeviceReady(d) => d \in After(loc[s], s)
    /\ pc[s] = "done" => \A d \in want[s] : isDeviceReady(d) => d \in mDevices[s]
    /\ pc[s] \in {"devSwitch", "lockAll", "done"} /\ want[s] = {"a2dp"} => Ready

(* What a list of moves does to a stream: a suspension takes it off the       *)
(* headset only, and only with a mark; a resumption moves only what has one;  *)
(* the route of another stream reattaches what it detaches.                   *)
KeptIn(t, s) ==
    /\ Settled(s) /\ "a2dp" \notin want[s] => <<s, "a2dp">> \notin loc[t].conn
    /\ pc[t] \in {"mark", "force", "devSwitch", "lockAll"} /\ loc[t].then = "forced" =>
          /\ <<s, "spk">> \notin loc[t].disc
          /\ <<s, "a2dp">> \in loc[t].disc /\ s \in Alive =>
                Back(s) \/ (pc[t] = "mark" /\ s \in loc[t].todo /\ "a2dp" \in mDevices[s])
    /\ pc[t] = "forced" => loc[t].status = "ok"
    /\ pc[t] \in Listing => loc[t].then # "forcedAgain"
    /\ pc[t] \in {"collect", "devSwitch", "lockAll"} /\ loc[t].then = "restored" =>
          /\ \A d \in Devices : <<s, d>> \in loc[t].disc => <<s, "a2dp">> \in loc[t].conn
          /\ <<s, "a2dp">> \in loc[t].conn /\ s \in Alive => "a2dp" \in suspendedOutDevIds[s]
    /\ pc[t] \in {"devSwitch", "lockAll"} /\ loc[t].then = "done" /\ s # t =>
          \A d \in Devices : <<s, d>> \in loc[t].disc => <<s, d>> \in loc[t].conn

Keeps == \A s \in Streams : Kept(s) /\ Asked(s) /\ \A t \in Threads : KeptIn(t, s)
Found == faults = 0 => Keeps

(* A stream that a step does not move, mark, mute, route or close.            *)
Same(s) ==
    /\ mDevices'[s] = mDevices[s] /\ suspendedOutDevIds'[s] = suspendedOutDevIds[s]
    /\ a2dpMuted'[s] = a2dpMuted[s] /\ want'[s] = want[s]
    /\ (s \in Alive)' <=> s \in Alive
    /\ Settled(s)' <=> Settled(s)

LEMMA UntouchedSame ==
    ASSUME NEW s, Untouched(s), pc'[s] = pc[s] \/ {pc[s], pc'[s]} \cap Switching = {},
           s \in Streams
    PROVE  Same(s)
BY DEF Untouched, Same, Settled, Alive

LEMMA SameKept ==
    ASSUME NEW s \in Streams, Kept(s), Same(s), bt'.available = bt.available,
           Settled(s) /\ Back(s) /\ bt.available /\ Comes(s) => Comes(s)'
    PROVE  Kept(s)'
<1>1. /\ Whole(s) => Whole(s)'
      /\ Back(s) => Back(s)'
    BY DEF Same, Whole, Back
<1>. QED
    BY <1>1 DEF Same, Kept

LEMMA SameKeptIn ==
    ASSUME NEW s \in Streams, NEW u \in Threads, KeptIn(u, s), Same(s),
           pc'[u] = pc[u], loc'[u] = loc[u]
    PROVE  KeptIn(u, s)'
<1>1. Back(s) => Back(s)'
    BY DEF Same, Back
<1>. QED
    BY <1>1 DEF Same, KeptIn

LEMMA SameAsked ==
    ASSUME NEW s \in Streams, Asked(s), Untouched(s), pc'[s] = pc[s], loc'[s] = loc[s],
           pc[s] \in Switching => (Ready' <=> Ready)
    PROVE  Asked(s)'
<1>1. After(loc[s], s)' = After(loc[s], s)
    BY DEF After, Untouched
<1>2. (s \in Alive)' <=> s \in Alive
    BY DEF Alive, Untouched
<1>3. pc[s] \in Switching => \A d : isDeviceReady(d)' <=> isDeviceReady(d)
    BY DEF Ready, isDeviceReady
<1>. QED
    BY <1>1, <1>2, <1>3 DEF Asked, Untouched, Switching

(* A thread that is in the middle of nothing.                                 *)
LEMMA BystanderKept ==
    ASSUME NEW s, NEW u \in Threads, Phase(u)' = "none", Order'
    PROVE  KeptIn(u, s)'
<1>1. pc'[u] \notin Listing
  <2>1. KindAt(u, pc[u], loc[u])'
      BY DEF Order, Kinds
  <2>. QED
      BY <2>1 DEF Phase, PhaseAt, Listing
<1>2. loc'[u].conn = {}
    BY <1>1, Zenon DEF Order, Kinds, KindAt
<1>. QED
    BY <1>1, <1>2 DEF KeptIn, Listing

LEMMA DuePhase ==
    ASSUME NEW t, NEW s PROVE Due(t, s) => Phase(t) = "up"
BY DEF Due, Collecting, Returning, Unmuting, Phase, PhaseAt

(* What another thread is to do for a stream.                                 *)
LEMMA StillDue ==
    ASSUME NEW a \in Threads, Only(a), NEW s \in Streams, Same(s), ~Due(a, s)
    PROVE  (\E t \in Threads : Due(t, s)) => \E t \in Threads : Due(t, s)'
<1>1. SUFFICES ASSUME NEW t \in Threads, Due(t, s) PROVE Due(t, s)'
    OBVIOUS
<1>2. pc'[t] = pc[t] /\ loc'[t] = loc[t]
    BY <1>1 DEF Only
<1>. QED
    BY <1>1, <1>2 DEF Due, Collecting, Returning, Unmuting, Same

(* A stream that was stranded stays so until a resumption begins.             *)
LEMMA StillStray ==
    ASSUME Kinds, NEW a \in Threads, Only(a), Phase(a)' # "up" \/ Phase(a) = "up",
           NEW s, Stays(s)
    PROVE  Stray(s) => Stray(s)'
BY OnlyKinds DEF Stray, Stays

(* While the device is connected and nothing becomes of it, it is ready but   *)
(* for a suspension.                                                          *)
LEMMA NotReady ==
    ASSUME Order, ~Connecting, bt.available, ~Ready PROVE bt.suspended
BY DEF Order, Flags, Ready, isDeviceReady

(* The faults of a run are counted.                                           *)
LEMMA FaultsGrow ==
    ASSUME Inv, Next, faults' = 0 PROVE faults = 0
<1>0. faults \in Nat
    BY RoutingAssumption DEF Inv, Types
<1>1. CASE \E s \in Streams : Calls(s)
  <2>1. CASE \E s \in Streams : startDevices(s)
    <3>1. faults <= faults'
        BY <2>1, StartEffect DEF Inv
    <3>. QED
        BY <1>0, <3>1
  <2>2. CASE ~\E s \in Streams : startDevices(s)
    <3>1. UNCHANGED faults
        BY <1>1, <2>2 DEF Calls, open, close, startReady, startCombo, startAlone, startRoute,
           stopLock, stop
    <3>. QED
        BY <3>1
  <2>. QED
      BY <2>1, <2>2
<1>2. CASE \E s \in Streams : \E ds \in Routes : switchDevice(s, ds)
    BY <1>2 DEF switchDevice
<1>3. CASE \E t \in Threads : Routing(t)
  <2>1. PICK t \in Threads : Routing(t)
      BY <1>3
  <2>2. CASE devSwitch(t)
    <3>1. faults <= faults'
        BY <2>2, SwitchEffect
    <3>. QED
        BY <1>0, <3>1
  <2>3. CASE plan(t) \/ switchDone(t) \/ devSwitchLock(t) \/ \E s \in Streams : lockOne(t, s)
      BY <2>3 DEF plan, switchDone, devSwitchLock, lockOne
  <2>. QED
      BY <2>1, <2>2, <2>3 DEF Routing
<1>4. CASE \E t \in BtThreads : BtFlags(t)
  <2>1. PICK t \in BtThreads : BtFlags(t)
      BY <1>4
  <2>2. CASE suspendClear(t)
    <3>1. \E r \in BOOLEAN : Fails(One(r))
        BY <2>2, Zenon DEF suspendClear
    <3>. QED
        BY <1>0, <3>1 DEF Fails, One
  <2>3. CASE ~suspendClear(t)
      BY <2>1, <2>3 DEF BtFlags, setBTParameter, deviceConnection, suspendSet, open_a2dp_source,
         close_audio_source
  <2>. QED
      BY <2>2, <2>3
<1>5. CASE \E t \in BtThreads : BtCalls(t)
    BY <1>5, BtCallsStill
<1>. QED
    BY <1>1, <1>2, <1>3, <1>4, <1>5, StepKinds

(* open, close, start and stop: start() leaves a mark for what it does not    *)
(* play on the headset.                                                       *)
LEMMA CallsKeep ==
    ASSUME Orderly, Inv, Inv', Order, Order', Await, Leak, Keeps, faults = 0, faults' = 0,
           NEW x \in Streams, Calls(x), NEW s \in Streams
    PROVE  Kept(s)' /\ Asked(s)' /\ \A t \in Threads : KeptIn(t, s)'
<1> USE DEF Inv
<1>0. /\ s \in Threads /\ x \in Threads /\ Only(x) /\ Phase(x) = "none" /\ Phase(x)' = "none"
      /\ Steady /\ Kept(s) /\ Asked(s) /\ (\A t \in Threads : KeptIn(t, s)) /\ AwaitAt(s)
    BY Kin, CallsGo DEF Order, Keeps, Await
<1>1. /\ ~Due(x, s) /\ bt'.available = bt.available /\ bt'.suspended = bt.suspended
      /\ Collectable(s) => Collectable(s)'
    BY <1>0, DuePhase, StillComing, ComingPhase DEF Steady
<1>2. KeptIn(x, s)'
    BY <1>0, BystanderKept
<1>3. \A t \in Threads : t # x => pc'[t] = pc[t] /\ loc'[t] = loc[t] /\ KeptIn(t, s)
    BY <1>0 DEF Only
<1>4. ASSUME Same(s), Stays(s) PROVE Kept(s)' /\ \A t \in Threads : KeptIn(t, s)'
  <2>1. (\E t \in Threads : Due(t, s)) => \E t \in Threads : Due(t, s)'
      BY <1>0, <1>1, <1>4, StillDue
  <2>3. Stray(s) => Stray(s)'
      BY <1>0, <1>4, StillStray DEF Order
  <2>2. Kept(s)'
      BY <1>0, <1>1, <1>4, <2>1, <2>3, SameKept DEF Comes
  <2>. QED
      BY <1>2, <1>3, <1>4, <2>2, SameKeptIn
<1>5. CASE x # s
  <2>1. Untouched(s) /\ Stays(s) /\ pc'[s] = pc[s] /\ loc'[s] = loc[s]
      BY <1>0, <1>3, <1>5, CallsFrame
  <2>2. ASSUME pc[s] \in Switching PROVE Ready' <=> Ready
    <3>1. Phase(s) = "switch"
        BY <2>2, SwitchingPhase DEF Order
    <3>2. \A u \in Threads : Phase(u)' = Phase(u)
        BY <1>0, OnlyKinds DEF Order
    <3>. QED
        BY <1>0, <3>1, <3>2, ReadyStays
  <2>3. Asked(s)'
      BY <1>0, <2>1, <2>2, SameAsked
  <2>4. Same(s)
      BY <2>1, UntouchedSame
  <2>. QED
      BY <1>4, <2>1, <2>3, <2>4
<1>6. CASE x = s
  <2>0. /\ pc[s] \in {"idle", "route", "devices", "stop"}
        /\ pc'[s] \in {"idle", "route", "devices", "stop"}
      BY <1>0, <1>6, Kin DEF Phase, PhaseAt, Types, Points
  <2>1. Asked(s)' /\ pc[s] \notin Switching /\ pc'[s] \notin Switching
      BY <2>0 DEF Asked, Switching
  <2>2. /\ Settled(s) <=> s \in Alive
        /\ Settled(s)' <=> (s \in Alive)'
      BY <2>1 DEF Settled
  <2>3. CASE \E ds \in Routes : open(s, ds)
    <3>1. PICK ds \in Routes : open(s, ds)
        BY <2>3
    <3>2. /\ mDevices'[s] = ds /\ suspendedOutDevIds'[s] = {} /\ ~a2dpMuted'[s] /\ want'[s] = ds
          /\ Fresh(s) /\ UNCHANGED <<pc, loc>>
        BY <3>1 DEF open, Types
    <3>3. Kept(s)'
        BY <3>2 DEF Kept, Whole
    <3>4. ASSUME NEW t \in Threads PROVE KeptIn(t, s)'
      <4>1. \A d : <<s, d>> \notin loc[t].conn /\ <<s, d>> \notin loc[t].disc
          BY <3>2 DEF Fresh
      <4>. QED
          BY <1>0, <3>2, <4>1 DEF KeptIn
    <3>. QED
        BY <2>1, <3>3, <3>4
  <2>4. CASE close(s)
    <3>1. UNCHANGED <<pc, loc, suspendedOutDevIds>> /\ currentState'[s] = "IDLE"
        BY <2>4 DEF close, Types
    <3>2. (s \notin Alive)' /\ ~Settled(s)'
        BY <3>1 DEF Alive, Settled
    <3>. QED
        BY <1>0, <2>1, <3>1, <3>2 DEF Kept, KeptIn
  <2>5. CASE startReady(s) \/ stopLock(s) \/ stop(s)
    <3>1. /\ UNCHANGED <<mDevices, suspendedOutDevIds, a2dpMuted, told>>
          /\ currentState'[s] # "IDLE" /\ currentState[s] # "IDLE"
        BY <2>5 DEF startReady, stopLock, stop, CanBegin, streamVars, Types, Placed
    <3>2. Same(s) /\ Stays(s)
        BY <2>2, <3>1 DEF Same, Alive, told, Stays
    <3>. QED
        BY <1>4, <2>1, <3>2
  <2>6. ASSUME UNCHANGED want, currentState'[s] # "IDLE", currentState[s] # "IDLE",
               "a2dp" \in want[s], bt.available => Back(s)' /\ (bt.suspended \/ Collectable(s)),
               \A t \in Threads : pc[t] = "mark" /\ Back(s) => Back(s)',
               "a2dp" \in suspendedOutDevIds'[s] \/ UNCHANGED suspendedOutDevIds
        PROVE  Kept(s)' /\ \A t \in Threads : KeptIn(t, s)'
    <3>1. bt'.available = bt.available /\ want'[s] = want[s]
        BY <1>1, <2>6
    <3>2. Collectable(s)' => \E t \in Threads : Due(t, s)'
        BY DEF Collectable, Due
    <3>3. Kept(s)'
        BY <1>1, <2>6, <3>1, <3>2 DEF Kept, Comes
    <3>4. ASSUME NEW t \in Threads, t # s PROVE KeptIn(t, s)'
      <4>1. pc'[t] = pc[t] /\ loc'[t] = loc[t] /\ KeptIn(t, s) /\ "a2dp" \in want'[s]
          BY <1>0, <1>3, <1>6, <2>6, <3>1, <3>4
      <4>2. ASSUME pc[t] \in {"mark", "force", "devSwitch", "lockAll"}, loc[t].then = "forced"
            PROVE  Back(s)'
        <5>1. Phase(t) = "down"
            BY <4>2 DEF Phase, PhaseAt
        <5>. QED
            BY <2>6, <5>1 DEF Order, Flags, FlagsAt
      <4>3. s \in Alive
          BY <2>6 DEF Alive
      <4>. QED
          BY <2>6, <4>1, <4>2, <4>3 DEF KeptIn
    <3>. QED
        BY <1>2, <1>6, <3>3, <3>4
  <2>7. "a2dp" \in mDevices[s] /\ s \in Alive => "a2dp" \in want[s]
      BY <1>0, <2>2 DEF Kept
  <2>8. CASE startCombo(s)
    <3>1. /\ UNCHANGED <<a2dpMuted, told>> /\ mDevices'[s] = {"spk"} /\ bt.suspended
          /\ currentState'[s] # "IDLE" /\ currentState[s] # "IDLE"
          /\ "a2dp" \in mDevices[s] /\ suspendedOutDevIds'[s] = Devices
        BY <2>8 DEF startCombo, CanBegin, Suspended, Types
    <3>2. Back(s)' /\ "a2dp" \in want[s] /\ "a2dp" \in suspendedOutDevIds'[s]
        BY <2>7, <3>1 DEF Back, Alive, Devices
    <3>. QED
        BY <2>1, <2>6, <3>1, <3>2 DEF told
  <2>9. CASE startAlone(s)
    <3>1. /\ UNCHANGED <<mDevices, a2dpMuted, told>> /\ bt.suspended /\ bt.available
          /\ currentState'[s] # "IDLE" /\ currentState[s] # "IDLE"
          /\ "a2dp" \in mDevices[s] /\ "spk" \notin mDevices[s]
          /\ suspendedOutDevIds'[s] = {"a2dp"}
        BY <2>9 DEF startAlone, CanBegin, Suspended, Types
    <3>2. "a2dp" \in want[s] /\ s \in Alive /\ want[s] \subseteq Devices
        BY <2>7, <3>1 DEF Alive, Types
    <3>3. want[s] = {"a2dp"}
        BY <1>0, <2>2, <3>1, <3>2 DEF Kept, Whole, Back, Devices
    <3>4. Back(s)'
        BY <3>1, <3>3 DEF Back, told
    <3>. QED
        BY <2>1, <2>6, <3>1, <3>2, <3>4 DEF told
  <2>10. ASSUME pc[s] = "route" \/ Muting(s)
         PROVE  /\ currentState[s] # "IDLE" /\ "a2dp" \in want[s]
                /\ suspendedOutDevIds[s] = {"a2dp"}
                /\ bt.available => want[s] = {"a2dp"} /\ (bt.suspended \/ Collectable(s))
    <3>1. /\ "a2dp" \in mDevices[s] /\ suspendedOutDevIds[s] = {"a2dp"} /\ Waits(s)
          /\ currentState[s] # "IDLE"
        BY <1>0, <2>10 DEF AwaitAt, Muting, Placed, Devices
    <3>2. "a2dp" \in want[s] /\ s \in Alive
        BY <2>7, <3>1 DEF Alive
    <3>3. bt.available => want[s] = {"a2dp"}
        BY <1>0, <2>2, <3>1, <3>2 DEF Kept, Whole, Back, Devices
    <3>. QED
        BY <3>1, <3>2, <3>3 DEF Waits, Gone
  <2>11. ASSUME UNCHANGED <<want, suspendedOutDevIds>>, currentState'[s] # "IDLE",
                pc[s] = "route" \/ Muting(s), "spk" \in mDevices[s] => "spk" \in mDevices'[s]
         PROVE  Kept(s)' /\ \A t \in Threads : KeptIn(t, s)'
    <3>1. /\ bt.available => Back(s)'
          /\ Back(s) => Back(s)'
        BY <2>10, <2>11 DEF Back
    <3>. QED
        BY <2>6, <2>10, <2>11, <3>1
  <2>12. CASE startRoute(s)
    <3>1. /\ pc[s] = "route" /\ UNCHANGED <<suspendedOutDevIds, currentState, told>>
          /\ mDevices'[s] = mDevices[s] \cup {"spk"}
        BY <2>12 DEF startRoute, Types
    <3>2. currentState'[s] # "IDLE"
        BY <2>10, <3>1
    <3>. QED
        BY <2>1, <2>11, <3>1, <3>2 DEF told
  <2>13. CASE startDevices(s)
    <3>1. /\ pc[s] = "devices" /\ UNCHANGED <<suspendedOutDevIds, want, stranded>>
          /\ currentState[s] # "IDLE" /\ currentState'[s] # "IDLE"
          /\ "spk" \in mDevices[s] => "spk" \in mDevices'[s]
          /\ mDevices'[s] = mDevices[s] \/ ("a2dp" \in mDevices[s] /\ ~MayStart(bt))
      <4>1. pc[s] = "devices" /\ currentState'[s] \in {currentState[s], "STARTED"}
          BY <2>13, StartEffect
      <4>2. currentState[s] # "IDLE" /\ currentState'[s] # "IDLE"
          BY <4>1 DEF Placed, Types
      <4>. QED
          BY <2>13, <4>1, <4>2, StartEffect
    <3>5. CASE Muting(s)
        BY <2>1, <2>11, <3>1, <3>5
    <3>6. CASE ~Muting(s) /\ mDevices'[s] = mDevices[s]
      <4>1. a2dpMuted'[s] = a2dpMuted[s]
          BY <2>13, <3>1, <3>6, StartEffect DEF Muting
      <4>2. Same(s) /\ Stays(s)
          BY <2>2, <3>1, <3>6, <4>1 DEF Same, Alive, Stays
      <4>. QED
          BY <1>4, <2>1, <4>2
    <3>7. CASE ~Muting(s) /\ "a2dp" \in mDevices[s] /\ ~MayStart(bt)
      <4>1. ~bt.suspended
          BY <1>0, <3>1, <3>7 DEF AwaitAt
      <4>2. ~bt.available /\ "a2dp" \in want[s]
          BY <2>7, <3>1, <3>7, <4>1 DEF MayStart, Alive
      <4>3. ASSUME NEW t \in Threads PROVE pc[t] # "mark"
        <5>1. pc[t] = "mark" => Phase(t) = "down"
            BY DEF Phase, PhaseAt
        <5>. QED
            BY <4>1, <5>1 DEF Order, Flags, FlagsAt
      <4>. QED
          BY <2>1, <2>6, <3>1, <4>2, <4>3
    <3>. QED
        BY <3>1, <3>5, <3>6, <3>7
  <2>. QED
      BY <1>6, <2>3, <2>4, <2>5, <2>8, <2>9, <2>12, <2>13 DEF Calls
<1>. QED
    BY <1>5, <1>6

LEMMA SwitchDeviceKeeps ==
    ASSUME Orderly, Inv, Order, Order', Keeps, NEW x \in Streams, NEW ds \in Routes,
           switchDevice(x, ds), NEW s \in Streams
    PROVE  Kept(s)' /\ Asked(s)' /\ \A t \in Threads : KeptIn(t, s)'
<1> USE DEF Inv
<1>0. /\ x \in Threads /\ Only(x) /\ Nobody /\ Kept(s) /\ Asked(s)
      /\ (\A t \in Threads : KeptIn(t, s)) /\ \A t \in Threads : t # x => Phase(t)' = "none"
    BY Kin, SwitchInOrder, OnlyKinds DEF Keeps, Nobody, Order
<1>1. /\ pc[x] = "idle" /\ pc'[x] = "plan" /\ loc'[x] = [Nothing EXCEPT !.devs = ds]
      /\ want'[x] = ds /\ x \in Alive /\ UNCHANGED <<streamVars, bt>>
      /\ \A y \in Streams : y # x => Untouched(y) /\ Stays(y)
    BY SwitchDeviceEffect
<1>2. \A t \in Threads : ~Due(t, s)
    BY <1>0, DuePhase DEF Nobody
<1>3. ASSUME NEW t \in Threads PROVE KeptIn(t, s)'
  <2>1. CASE t # x
      BY <1>0, <2>1, BystanderKept
  <2>2. CASE t = x
    <3>1. loc'[t].conn = {}
        BY <1>1, <2>2 DEF Nothing
    <3>. QED
        BY <1>1, <2>2, <3>1 DEF KeptIn, Listing
  <2>. QED
      BY <2>1, <2>2
<1>4. CASE s # x
  <2>1. Untouched(s) /\ Stays(s) /\ pc'[s] = pc[s] /\ loc'[s] = loc[s]
      BY <1>0, <1>1, <1>4, Kin DEF Only
  <2>4. Stray(s) => Stray(s)'
    <3>1. Phase(x)' = "switch"
        BY <1>1 DEF Phase, PhaseAt
    <3>. QED
        BY <1>0, <2>1, <3>1, StillStray DEF Order
  <2>2. pc[s] \notin Switching
      BY <1>0, SwitchingPhase, Kin DEF Nobody, Order
  <2>3. Kept(s)' /\ Asked(s)'
      BY <1>0, <1>1, <1>2, <2>1, <2>2, <2>4, UntouchedSame, SameKept, SameAsked DEF Comes
  <2>. QED
      BY <1>3, <2>3
<1>5. CASE s = x
  <2>1. ~Settled(s)' /\ s \in Alive'
      BY <1>1, <1>5 DEF Settled, Switching, Alive, streamVars
  <2>2. ds # {}
      BY RoutingAssumption
  <2>. QED
      BY <1>1, <1>3, <1>5, <2>1, <2>2 DEF Kept, Asked, Switching
<1>. QED
    BY <1>4, <1>5

(* switchDevice puts off a route to a headset that is suspended, with a mark; *)
(* any other ends on what was asked for, and renews the mark of a headset     *)
(* that is asked for together with the speaker and is not ready.              *)
LEMMA PlanKeeps ==
    ASSUME Inv, Order, Order', Leak, Keeps, NEW t \in Streams, plan(t) \/ switchDone(t),
           NEW s \in Streams
    PROVE  Kept(s)' /\ Asked(s)' /\ \A u \in Threads : KeptIn(u, s)'
<1> USE DEF Inv
<1>0. /\ s \in Threads /\ t \in Threads /\ Only(t) /\ Phase(t) = "switch"
      /\ Kept(s) /\ Asked(s) /\ (\A u \in Threads : KeptIn(u, s)) /\ Routing(t) /\ Own(s)
      /\ UNCHANGED <<bt, mDevices, currentState, want>> /\ pc[t] \in {"plan", "done"}
  <2>1. pc[t] \in {"plan", "done"} /\ UNCHANGED <<bt, mDevices, currentState, want>>
      BY PlanEffect, DoneEffect DEF told
  <2>. QED
      BY <2>1, Kin, RoutingGoes, SwitchingPhase DEF Leak, Keeps, Order, Routing, Switching
<1>1. /\ \A u \in Threads : u # t => Phase(u) = "none" /\ KeptIn(u, s)'
      /\ \A u \in Threads : ~Due(u, s)
      /\ ~Connecting
  <2>1. \A u \in Threads : u # t => Phase(u) = "none" /\ Phase(u)' = "none"
      BY <1>0, OnlyKinds DEF Order, OneAtATime
  <2>. QED
      BY <1>0, <2>1, BystanderKept, DuePhase DEF Connecting
<1>2. Ready' <=> Ready
    BY <1>0 DEF Ready, isDeviceReady
<1>3. ASSUME s # t PROVE Kept(s)' /\ Asked(s)' /\ Untouched(s) /\ Same(s) /\ pc'[s] = pc[s]
  <2>1. Untouched(s) /\ Stays(s) /\ pc'[s] = pc[s] /\ loc'[s] = loc[s]
      BY <1>0, <1>3, RoutingStays DEF Only
  <2>3. Stray(s) => Stray(s)'
    <3>1. Phase(t)' # "up"
        BY <1>0, RoutingGoes DEF Order
    <3>. QED
        BY <1>0, <2>1, <3>1, StillStray DEF Order
  <2>2. Same(s)
      BY <2>1, UntouchedSame
  <2>. QED
      BY <1>0, <1>1, <1>2, <2>1, <2>2, <2>3, SameKept, SameAsked DEF Comes
<1>4. want[s] \subseteq Devices
    BY DEF Types
<1>5. CASE pc'[t] = "idle"
  <2>1. KeptIn(t, s)'
      BY <1>0, <1>5, BystanderKept DEF Phase, PhaseAt
  <2>2. CASE s = t
    <3>1. /\ Asked(s)' /\ s \in Alive /\ want[s] # {} /\ want[s] = loc[s].devs
          /\ Settled(s)'
        BY <1>0, <1>5, <2>2 DEF Asked, Own, Switching, Settled, Alive
    <3>2. CASE plan(t)
      <4>1. {d \in loc[t].devs : isDeviceReady(d)} = {}
          BY <1>5, <3>2, PlanEffect
      <4>2. want[s] = {"a2dp"} /\ ~Ready
          BY <1>4, <2>2, <3>1, <4>1 DEF isDeviceReady, Ready, Devices
      <4>3. suspendedOutDevIds'[s] = {"a2dp"}
          BY <2>2, <3>2, <4>1, PlanEffect
      <4>4. Back(s)'
          BY <1>0, <4>2, <4>3 DEF Back
      <4>5. bt.available => bt.suspended
          BY <1>1, <4>2, NotReady
      <4>6. Kept(s)'
          BY <1>0, <4>2, <4>4, <4>5 DEF Kept, Comes
      <4>. QED
          BY <1>1, <2>1, <3>1, <4>6
    <3>3. CASE switchDone(t)
      <4>1. /\ suspendedOutDevIds'[s] =
                 (IF loc[s].devs = Devices /\ ~loc[s].ready THEN Devices ELSE {})
            /\ ~a2dpMuted'[s] /\ pc[s] = "done"
          BY <2>2, <3>3, DoneEffect
      <4>2. /\ mDevices[s] \subseteq want[s] /\ (loc[s].ready <=> Ready)
            /\ \A d \in want[s] : isDeviceReady(d) => d \in mDevices[s]
            /\ want[s] = {"a2dp"} => Ready
          BY <1>0, <4>1 DEF Own, Asked
      <4>3. "spk" \in want[s] => "spk" \in mDevices[s]
          BY <4>2 DEF isDeviceReady
      <4>4. CASE "a2dp" \notin want[s] \/ Ready
        <5>1. want[s] \subseteq mDevices[s]
            BY <1>4, <4>2, <4>3, <4>4 DEF Devices, Ready
        <5>2. suspendedOutDevIds'[s] = {}
            BY <3>1, <4>1, <4>2, <4>4 DEF Devices
        <5>. QED
            BY <1>0, <1>1, <2>1, <3>1, <4>1, <4>2, <5>1, <5>2 DEF Kept, Whole
      <4>5. CASE "a2dp" \in want[s] /\ ~Ready
        <5>1. want[s] = Devices
            BY <1>4, <4>2, <4>5 DEF Devices
        <5>2. suspendedOutDevIds'[s] = Devices /\ "spk" \in mDevices[s]
            BY <3>1, <4>1, <4>2, <4>3, <4>5, <5>1 DEF Devices
        <5>3. bt.available => bt.suspended
            BY <1>1, <4>5, NotReady
        <5>. QED
            BY <1>0, <1>1, <2>1, <3>1, <4>5, <5>2, <5>3 DEF Kept, Back, Comes
      <4>. QED
          BY <4>4, <4>5
    <3>. QED
        BY <3>2, <3>3
  <2>. QED
      BY <1>1, <1>3, <2>1, <2>2
<1>6. CASE pc'[t] # "idle"
  <2> DEFINE ds == loc[t].devs
             ready == {d \in ds : isDeviceReady(d)}
             others(again) == {x \in Alive \X again : x[2] \in mDevices[x[1]]}
  <2>1. plan(t) /\ ready # {} /\ pc[t] = "plan" /\ pc'[t] = "devSwitch" /\ loc'[t].then = "done"
      BY <1>6, PlanEffect, DoneEffect
  <2>2. PICK again \in SUBSET ready :
          /\ loc'[t].disc = ({t} \X (mDevices[t] \ ds)) \cup others(again)
          /\ loc'[t].conn = ({t} \X ready) \cup others(again)
      BY <2>1, PlanEffect
  <2>3. CASE s # t
    <3>1. \A d : <<s, d>> \in loc'[t].conn => d \in mDevices[s]
        BY <2>2, <2>3
    <3>2. \A d : <<s, d>> \in loc'[t].disc => <<s, d>> \in loc'[t].conn
        BY <2>2, <2>3
    <3>3. Settled(s)' /\ "a2dp" \notin want'[s] => "a2dp" \notin mDevices[s]
        BY <1>0, <1>3, <2>3 DEF Same, Kept
    <3>4. KeptIn(t, s)'
        BY <2>1, <3>1, <3>2, <3>3 DEF KeptIn
    <3>. QED
        BY <1>1, <1>3, <2>3, <3>4
  <2>4. CASE s = t
    <3>1. ~Settled(s)'
        BY <2>1, <2>4 DEF Settled, Switching
    <3>2. KeptIn(t, s)' /\ Kept(s)'
        BY <2>1, <2>4, <3>1 DEF Kept, KeptIn
    <3>3. s \in Alive' /\ want'[s] = want[s] /\ want[s] # {} /\ want[s] = ds
        BY <1>0, <2>1, <2>4 DEF Asked, Own, Switching, Alive
    <3>4. \A d : isDeviceReady(d)' <=> isDeviceReady(d)
        BY <1>0 DEF isDeviceReady
    <3>5. ASSUME NEW d \in want[s], isDeviceReady(d) PROVE d \in After(loc[s], s)'
      <4>1. <<s, d>> \in loc'[s].conn
          BY <2>2, <2>4, <3>3, <3>5
      <4>. QED
          BY <1>4, <4>1 DEF After
    <3>6. want[s] = {"a2dp"} => Ready
        BY <2>1, <3>3 DEF Ready
    <3>7. Asked(s)'
        BY <1>2, <2>1, <2>4, <3>3, <3>4, <3>5, <3>6 DEF Asked, Switching
    <3>. QED
        BY <1>1, <2>4, <3>2, <3>7
  <2>. QED
      BY <2>3, <2>4
<1>. QED
    BY <1>5, <1>6

LEMMA ListKeeps ==
    ASSUME Inv, Order, Order', Leak, Keeps, NEW t \in Threads,
           devSwitchLock(t) \/ \E y \in Streams : lockOne(t, y), NEW s \in Streams
    PROVE  Kept(s)' /\ Asked(s)' /\ \A u \in Threads : KeptIn(u, s)'
<1> USE DEF Inv
<1>0. /\ s \in Threads /\ Only(t) /\ Phase(t) \in {"switch", "up", "down"}
      /\ Kept(s) /\ Asked(s) /\ (\A u \in Threads : KeptIn(u, s)) /\ Routing(t)
      /\ KindAt(t, pc[t], loc[t])
    BY Kin, RoutingGoes DEF Keeps, Order, Routing, Kinds
<1>1. /\ pc[t] \in {"devSwitch", "lockAll"} /\ pc'[t] = "lockAll" /\ loc'[t].then = loc[t].then
      /\ UNCHANGED <<streamVars, bt, told>>
    BY NotRefused, SwitchSteps DEF Becomes
<1>2. \/ loc'[t].conn = loc[t].conn /\ loc'[t].disc = loc[t].disc
      \/ loc'[t].conn = Living(loc[t].conn) /\ loc'[t].disc = Living(loc[t].disc)
    BY NotRefused, SwitchSteps DEF Becomes
<1>3. /\ loc'[t].conn \subseteq loc[t].conn /\ loc'[t].disc \subseteq loc[t].disc
      /\ s \in Alive => \A d \in Devices :
            /\ <<s, d>> \in loc'[t].conn <=> <<s, d>> \in loc[t].conn
            /\ <<s, d>> \in loc'[t].disc <=> <<s, d>> \in loc[t].disc
      /\ \A d, e \in Devices : <<s, d>> \in loc'[t].disc /\ <<s, e>> \in loc[t].conn
            => <<s, e>> \in loc'[t].conn
    BY <1>2 DEF Living
<1>4. Untouched(s) /\ ((s \in Alive)' <=> s \in Alive) /\ mDevices[s] \subseteq Devices
    BY <1>1 DEF Untouched, Alive, streamVars, told, Types
<1>5. Ready' <=> Ready
    BY <1>1 DEF Ready, isDeviceReady
<1>6. \A u \in Threads : u # t => KeptIn(u, s)'
  <2>1. \A u \in Threads : u # t => Phase(u)' = "none"
      BY <1>0, OnlyKinds DEF Order, OneAtATime
  <2>. QED
      BY <2>1, BystanderKept
<1>7. (Settled(s)' => Settled(s)) /\ (Back(s) => Back(s)')
  <2>1. s = t => ~Settled(s)'
      BY <1>1 DEF Settled, Switching
  <2>2. s # t => pc'[s] = pc[s]
      BY <1>0 DEF Only
  <2>. QED
      BY <1>4, <2>1, <2>2 DEF Settled, Back, Untouched
<1>8. KeptIn(t, s)'
  <2>1. KeptIn(t, s)
      BY <1>0
  <2>. QED
      BY <1>1, <1>3, <1>4, <1>7, <2>1 DEF KeptIn, Untouched, Devices, Listing
<1>9. CASE s # t
  <2>1. pc'[s] = pc[s] /\ loc'[s] = loc[s]
      BY <1>0, <1>9 DEF Only
  <2>2. Same(s) /\ Asked(s)'
      BY <1>0, <1>4, <1>5, <2>1, UntouchedSame, SameAsked
  <2>3. s \in Alive /\ Due(t, s) => Due(t, s)'
      BY <1>1, <1>3, <1>4 DEF Due, Collecting, Returning, Unmuting, Untouched, Devices
  <2>4. ASSUME s \in Alive, \E u \in Threads : Due(u, s) PROVE \E u \in Threads : Due(u, s)'
      BY <1>0, <2>2, <2>3, <2>4, StillDue
  <2>6. Stray(s) => Stray(s)'
    <3>1. Phase(t)' \in {"none", Phase(t)}
        BY <1>0, RoutingGoes DEF Order
    <3>. QED
        BY <1>0, <1>1, <3>1, StillStray DEF Order, Stays, told
  <2>5. Kept(s)'
      BY <1>0, <1>1, <2>2, <2>4, <2>6, SameKept DEF Settled, Comes
  <2>. QED
      BY <1>6, <1>8, <2>2, <2>5
<1>10. CASE s = t
  <2>1. ~Settled(s)' /\ pc'[s] = "lockAll"
      BY <1>1, <1>10 DEF Settled, Switching
  <2>2. \A d : isDeviceReady(d)' <=> isDeviceReady(d)
      BY <1>1 DEF isDeviceReady
  <2>3. s \in Alive
      BY <1>0, <1>1, <1>10 DEF Asked, Switching
  <2>4. After(loc[s], s)' = After(loc[s], s)
      BY <1>3, <1>4, <1>10, <2>3 DEF After, Untouched
  <2>5. Asked(s)'
      BY <1>0, <1>1, <1>4, <1>5, <1>10, <2>1, <2>2, <2>4 DEF Asked, Switching, Untouched
  <2>. QED
      BY <1>6, <1>8, <2>1, <2>5 DEF Kept
<1>. QED
    BY <1>9, <1>10

(* streamDevSwitch: everything on the lists is moved, and a switch does to a  *)
(* stream only what its list said.                                            *)
LEMMA SwitchKeeps ==
    ASSUME Inv, Order, Order', Leak, Keeps, faults' = 0, NEW t \in Threads, devSwitch(t),
           NEW s \in Streams
    PROVE  Kept(s)' /\ Asked(s)' /\ \A u \in Threads : KeptIn(u, s)'
<1> USE DEF Inv
<1>0. /\ s \in Threads /\ Only(t) /\ Phase(t) \in {"switch", "up", "down"}
      /\ Phase(t)' \in {"none", Phase(t)} /\ Own(s)
      /\ Kept(s) /\ Asked(s) /\ (\A u \in Threads : KeptIn(u, s)) /\ Routing(t)
      /\ KindAt(t, pc[t], loc[t]) /\ FlagsAt(Phase(t))
    BY Kin, RoutingGoes DEF Leak, Keeps, Order, Routing, Kinds, Flags
<1>1. /\ pc[t] = "lockAll" /\ pc'[t] = loc[t].then /\ loc[t] \in Loc
      /\ UNCHANGED <<currentState, suspendedOutDevIds, a2dpMuted, want, ignored>> /\ Steady
      /\ Stays(s)
    BY SwitchEffect DEF told, Stays
<1>2. loc'[t].status = "ok" /\ mDevices'[s] = After(loc[t], s)
  <2>1. ASSUME NEW x \in Streams, <<x, "a2dp">> \in loc[t].conn PROVE Ready
      BY <1>1, <2>1, AskedIsReady DEF Pending
  <2>. QED
      BY <2>1, SwitchEffect
<1>3. loc'[t].conn = loc[t].conn /\ loc'[t].disc = loc[t].disc /\ loc'[t].then = loc[t].then
  <2>1. PICK st : loc'[t] = [loc[t] EXCEPT !.status = st]
      BY SwitchEffect
  <2>. QED
      BY <1>1, <2>1 DEF Loc
<1>4. /\ \A u \in Threads : u # t => Phase(u) = "none" /\ Phase(u)' = "none" /\ ~Due(u, s)
      /\ \A u \in Threads : u # t => KeptIn(u, s)'
  <2>1. \A u \in Threads : u # t => Phase(u) = "none" /\ Phase(u)' = "none"
      BY <1>0, OnlyKinds DEF Order, OneAtATime
  <2>. QED
      BY <2>1, DuePhase, BystanderKept
<1>5. /\ Ready' <=> Ready
      /\ bt'.available = bt.available /\ bt'.suspended = bt.suspended
    BY <1>0, <1>1, <1>4, ReadyStays DEF Steady
<1>6. loc[t].then \in {"done", "forced", "restored"}
    BY <1>0, <1>1 DEF Placed, Thens, KeptIn, Listing
<1>7. want[s] \subseteq Devices /\ mDevices[s] \subseteq Devices
    BY DEF Types
<1>8. CASE s = t
  <2>1. loc[t].then = "done" /\ pc'[t] = "done"
      BY <1>0, <1>1, <1>6, <1>8, Kin DEF KindAt, PhaseAt
  <2>2. ~Settled(s)'
      BY <1>8, <2>1 DEF Settled, Switching
  <2>3. s \in Alive' /\ want'[s] # {}
      BY <1>0, <1>1, <1>8 DEF Asked, Switching, Alive
  <2>4. \A d \in want[s] : isDeviceReady(d)' => isDeviceReady(d)
      BY <1>5 DEF isDeviceReady, Ready
  <2>5. Asked(s)'
      BY <1>0, <1>1, <1>2, <1>5, <1>8, <2>1, <2>3, <2>4 DEF Asked, Switching
  <2>6. KeptIn(t, s)'
      BY <1>3, <1>8, <2>1, <2>2 DEF KeptIn
  <2>. QED
      BY <1>4, <2>2, <2>5, <2>6 DEF Kept
<1>9. CASE s # t
  <2>1. pc'[s] = pc[s] /\ pc[s] \notin Switching /\ (Settled(s)' <=> Settled(s))
    <3>1. pc[s] \notin Switching
        BY <1>0, <1>4, <1>9, SwitchingPhase DEF Order
    <3>. QED
        BY <1>0, <1>1, <1>9, <3>1 DEF Only, Settled, Alive
  <2>2. Asked(s)'
      BY <2>1 DEF Asked, Switching
  <2>3. KeptIn(t, s)'
    <3>1. KeptIn(t, s)
        BY <1>0
    <3>. QED
        BY <1>1, <1>2, <1>3, <1>6, <2>1, <3>1 DEF KeptIn
  <2>4. SUFFICES ASSUME Settled(s) PROVE Kept(s)'
      BY <1>4, <2>1, <2>2, <2>3 DEF Kept
  <2>5. s \in Alive /\ KeptIn(t, s)
      BY <1>0, <2>4 DEF Settled
  <2>6. CASE loc[t].then = "done"
    <3>1. ~\E u \in Threads : Due(u, s)
      <4>1. ~Due(t, s)
          BY <1>1, <2>6 DEF Due, Collecting, Returning, Unmuting
      <4>. QED
          BY <1>4, <4>1
    <3>2. mDevices[s] \subseteq mDevices'[s]
        BY <1>1, <1>2, <1>7, <1>9, <2>5, <2>6 DEF KeptIn, After
    <3>3. "a2dp" \notin want[s] /\ "a2dp" \notin mDevices[s] => "a2dp" \notin mDevices'[s]
        BY <1>2, <2>4, <2>5 DEF KeptIn, After
    <3>4. /\ Whole(s) => Whole(s)'
          /\ Back(s) => Back(s)'
        BY <1>1, <3>2 DEF Whole, Back
    <3>5. Stray(s) => Stray(s)'
        BY <1>0, <1>1, StillStray DEF Order
    <3>. QED
        BY <1>0, <1>1, <1>5, <2>4, <3>1, <3>3, <3>4, <3>5 DEF Kept, Comes
  <2>7. CASE loc[t].then = "forced"
    <3>1. bt.suspended /\ bt.available
        BY <1>0, <1>1, <2>7 DEF Phase, PhaseAt, FlagsAt
    <3>2. /\ <<s, "a2dp">> \notin loc[t].conn /\ <<s, "spk">> \notin loc[t].disc
          /\ <<s, "a2dp">> \in loc[t].disc => Back(s)
        BY <1>0, <1>1, <2>5, <2>7 DEF KindAt, KeptIn
    <3>3. "spk" \in mDevices[s] => "spk" \in mDevices'[s]
        BY <1>2, <3>2 DEF After, Devices
    <3>4. "a2dp" \in mDevices'[s] <=> "a2dp" \in mDevices[s] /\ <<s, "a2dp">> \notin loc[t].disc
        BY <1>2, <3>2 DEF After, Devices
    <3>5. Back(s) => Back(s)'
        BY <1>1, <3>3 DEF Back
    <3>6. ASSUME Whole(s) PROVE Whole(s)'
      <4>1. ~Back(s)
          BY <3>6 DEF Whole, Back, Devices
      <4>2. mDevices[s] \subseteq mDevices'[s]
          BY <1>7, <3>2, <3>3, <3>4, <4>1 DEF Devices
      <4>. QED
          BY <1>1, <3>6, <4>2 DEF Whole
    <3>. QED
        BY <1>0, <1>1, <1>5, <2>4, <3>1, <3>4, <3>5, <3>6 DEF Kept, Comes
  <2>8. CASE loc[t].then = "restored"
    <3>1. ~bt.suspended
        BY <1>0, <1>1, <2>8 DEF Phase, PhaseAt, FlagsAt, Ready, isDeviceReady
    <3>2. <<s, "spk">> \notin loc[t].conn
        BY <1>0, <1>1, <2>8 DEF KindAt
    <3>3. ASSUME Whole(s) PROVE Whole(s)' /\ mDevices'[s] = mDevices[s]
      <4>1. <<s, "a2dp">> \notin loc[t].conn
          BY <1>1, <2>5, <2>8, <3>3 DEF KeptIn, Whole
      <4>2. \A d \in Devices : <<s, d>> \notin loc[t].disc
          BY <1>1, <2>5, <2>8, <4>1 DEF KeptIn
      <4>3. mDevices'[s] = mDevices[s]
          BY <1>2, <1>7, <3>2, <4>1, <4>2 DEF After, Devices
      <4>. QED
          BY <1>1, <3>3, <4>3 DEF Whole
    <3>4. ASSUME Back(s), \E u \in Threads : Due(u, s)
          PROVE  Back(s)' /\ \E u \in Threads : Due(u, s)'
      <4>1. Returning(t, s)
          BY <1>1, <1>4, <3>4 DEF Due, Collecting, Unmuting
      <4>2. "a2dp" \in mDevices'[s]
          BY <1>2, <4>1 DEF Returning, After, Devices
      <4>3. want[s] \subseteq mDevices'[s] /\ Back(s)'
        <5>1. CASE suspendedOutDevIds[s] = {"a2dp"}
          <6>1. want[s] = {"a2dp"}
              BY <3>4, <5>1 DEF Back, Devices
          <6>. QED
              BY <1>1, <4>2, <5>1, <6>1 DEF Back
        <5>2. CASE suspendedOutDevIds[s] # {"a2dp"}
          <6>1. suspendedOutDevIds[s] = Devices /\ "spk" \in mDevices[s]
              BY <3>4, <5>2 DEF Back
          <6>2. "spk" \in mDevices'[s]
              BY <1>2, <4>1, <5>2, <6>1 DEF Returning, After, Devices
          <6>. QED
              BY <1>1, <1>7, <4>2, <6>1, <6>2 DEF Back, Devices
        <5>. QED
            BY <5>1, <5>2
      <4>4. Unmuting(t, s)'
          BY <1>1, <1>2, <1>3, <2>8, <4>1, <4>3 DEF Unmuting, Returning
      <4>. QED
          BY <4>3, <4>4 DEF Due
    <3>5. ~Stray(s)
        BY <1>1, <2>8 DEF Stray, Phase, PhaseAt
    <3>. QED
        BY <1>0, <1>1, <1>5, <2>4, <3>1, <3>3, <3>4, <3>5 DEF Kept, Comes
  <2>. QED
      BY <1>6, <2>6, <2>7, <2>8
<1>. QED
    BY <1>8, <1>9

(* The flag is cleared by the thread that then resumes, or that strands the   *)
(* marked streams; a device that is connected is one that nobody has or wants *)
(* yet.                                                                       *)
LEMMA BtFlagsKeep ==
    ASSUME Orderly, Inv, Order, Order', Keeps, NEW t \in BtThreads, BtFlags(t), NEW s \in Streams
    PROVE  Kept(s)' /\ Asked(s)' /\ \A u \in Threads : KeptIn(u, s)'
<1> USE DEF Inv
<1>0. /\ s \in Threads /\ t \in Threads /\ s # t /\ Kept(s) /\ Asked(s)
      /\ (\A u \in Threads : KeptIn(u, s)) /\ DOMAIN pc = Threads /\ bt \in Bt
    BY Kin DEF Keeps, Types
<1>1. PICK p \in {"idle", "set", "clear", "a2dpSuspend", "a2dpResume",
                    "openSource", "closeSource"} :
          /\ pc' = [pc EXCEPT ![t] = p] /\ UNCHANGED <<streamVars, loc, want, ignored>>
          /\ UNCHANGED stranded \/ suspendClear(t)
          /\ pc[t] \in {"idle", "set", "clear", "openSource", "closeSource"}
          /\ p # "idle" \/ pc[t] # "idle"
    BY DEF BtFlags, setBTParameter, deviceConnection, suspendSet, suspendClear,
       open_a2dp_source, close_audio_source, Goto, told
<1>2. /\ pc'[t] = p /\ \A u \in Threads : u # t => pc'[u] = pc[u]
      /\ Untouched(s)
    BY <1>0, <1>1 DEF Untouched, streamVars, told
<1>3. pc[s] \notin Switching /\ pc'[s] = pc[s]
  <2>1. SUFFICES ASSUME pc[s] \in Switching PROVE FALSE
      BY <1>0, <1>2
  <2>2. Phase(s) = "switch"
      BY <2>1, SwitchingPhase DEF Order
  <2>3. Phase(s)' = Phase(s)
      BY <1>0, <1>1, <1>2, Zenon DEF Phase, PhaseAt
  <2>4. Phase(t) # "none" \/ Phase(t)' # "none"
      BY <1>1, <1>2 DEF Phase, PhaseAt
  <2>. QED
      BY <1>0, <2>2, <2>3, <2>4 DEF Order, OneAtATime
<1>4. Same(s) /\ Asked(s)'
    BY <1>0, <1>1, <1>2, <1>3, UntouchedSame DEF Asked, Switching
<1>5. ASSUME NEW u \in Threads PROVE KeptIn(u, s)'
  <2>1. CASE u = t
    <3>1. KeptIn(t, s)
        BY <1>0
    <3>. QED
        BY <1>1, <1>2, <1>4, <2>1, <3>1 DEF KeptIn, Listing, Same
  <2>2. CASE u # t
      BY <1>0, <1>1, <1>2, <1>4, <2>2, SameKeptIn
  <2>. QED
      BY <2>1, <2>2
<1>6. (\E u \in Threads : Due(u, s)) => \E u \in Threads : Due(u, s)'
  <2>1. \A u \in Threads : Due(u, s) => u # t
      BY <1>1 DEF Due, Collecting, Returning, Unmuting
  <2>2. \A u \in Threads : u # t => (Due(u, s) => Due(u, s)')
      BY <1>1, <1>2, <1>4 DEF Due, Collecting, Returning, Unmuting, Same
  <2>. QED
      BY <2>1, <2>2
<1>7. CASE suspendClear(t)
  <2>1. /\ bt'.available = bt.available /\ pc[t] = "clear" /\ Only(t)
        /\ \/ pc'[t] = "a2dpResume" \/ Gone(bt)
           \/ /\ pc'[t] = "idle"
              /\ \A x \in Alive : suspendedOutDevIds[x] # {} => x \in stranded'
      BY <1>7, Clearing
  <2>2. ASSUME bt.available, pc'[t] = "a2dpResume" \/ Gone(bt) PROVE Due(t, s)'
      BY <2>2 DEF Gone, Due, Collecting
  <2>3. ASSUME Settled(s), Back(s), pc'[t] = "idle",
               \A x \in Alive : suspendedOutDevIds[x] # {} => x \in stranded'
        PROVE  Stray(s)'
    <3>1. s \in stranded'
        BY <2>3 DEF Settled, Back, Devices
    <3>2. \A u \in Threads : u # t => Phase(u) = "none" /\ Phase(u)' = "none"
      <4>1. Phase(t) = "clear"
          BY <2>1 DEF Phase, PhaseAt
      <4>. QED
          BY <1>0, <2>1, <4>1, OnlyKinds DEF Order, OneAtATime
    <3>3. Phase(t)' = "none"
        BY <2>3 DEF Phase, PhaseAt
    <3>. QED
        BY <3>1, <3>2, <3>3 DEF Stray
  <2>. QED
      BY <1>0, <1>4, <1>5, <2>1, <2>2, <2>3, SameKept DEF Comes
<1>8. CASE \E on \in BOOLEAN : deviceConnection(t, on)
  <2>1. PICK on \in BOOLEAN : deviceConnection(t, on)
      BY <1>8
  <2>2. bt'.available = on /\ (on => "a2dp" \notin want[s])
      BY <1>0, <2>1 DEF deviceConnection, Bt, Unused
  <2>3. Whole(s) => Whole(s)'
      BY <1>4 DEF Same, Whole
  <2>4. Kept(s)'
      BY <1>0, <1>4, <2>2, <2>3 DEF Kept, Same
  <2>. QED
      BY <1>4, <1>5, <2>4
<1>9. CASE ~suspendClear(t) /\ ~\E on \in BOOLEAN : deviceConnection(t, on)
  <2>1. bt'.available = bt.available /\ (bt.suspended => bt'.suspended)
    <3>1. CASE \E on \in BOOLEAN : setBTParameter(t, on)
        BY <3>1 DEF setBTParameter
    <3>2. CASE suspendSet(t)
        BY <1>0, <3>2 DEF suspendSet, Bt
    <3>3. CASE open_a2dp_source(t)
      <4>1. PICK st : bt' = [bt EXCEPT !.state = st]
          BY <3>3 DEF open_a2dp_source
      <4>. QED
          BY <1>0, <4>1 DEF Bt
    <3>4. CASE close_audio_source(t)
        BY <1>0, <3>4 DEF close_audio_source, Bt
    <3>. QED
        BY <1>9, <3>1, <3>2, <3>3, <3>4 DEF BtFlags
  <2>2. Stray(s) => Stray(s)'
    <3>1. pc'[t] # "a2dpResume"
        BY <1>0, <1>9 DEF BtFlags, setBTParameter, suspendSet, open_a2dp_source,
           close_audio_source, Goto
    <3>2. Phase(t)' # "up"
        BY <1>1, <1>2, <3>1 DEF Phase, PhaseAt
    <3>3. \A u \in Threads : u # t => Phase(u)' = Phase(u)
        BY <1>1, <1>2, Zenon DEF Phase, PhaseAt
    <3>. QED
        BY <1>1, <1>9, <3>2, <3>3 DEF Stray
  <2>. QED
      BY <1>0, <1>4, <1>5, <1>6, <2>1, <2>2, SameKept DEF Comes
<1>. QED
    BY <1>7, <1>8, <1>9

(* a2dpSuspend leaves a mark on everything it moves.                          *)
LEMMA SuspendKeeps ==
    ASSUME Inv, Inv', Order, Order', Leak, Keeps, NEW t \in BtThreads, NEW s \in Streams,
           a2dpSuspend(t) \/ markedAll(t) \/ forceDeviceSwitch(t) \/ forced(t) \/ forcedAgain(t)
           \/ \E x \in Streams : markOne(t, x)
    PROVE  Kept(s)' /\ Asked(s)' /\ \A u \in Threads : KeptIn(u, s)'
<1> USE DEF Inv
<1>0. /\ s \in Threads /\ t \in Threads /\ s # t /\ Kept(s) /\ Asked(s) /\ BtCalls(t)
      /\ KeptIn(t, s) /\ Only(t) /\ KindAt(t, pc[t], loc[t]) /\ Kinds' /\ LeakIn(t, s)
      /\ UNCHANGED <<currentState, mDevices, bt, mStreamMutex, want, ignored>>
    BY Kin, BtCallsGo, BtCallsStill DEF Leak, Keeps, Order, Kinds, BtCalls
<1>1. Phase(t) = "down" /\ Phase(t)' \in {"none", Phase(t)} /\ bt.suspended /\ bt.available
  <2>1. pc[t] \in {"a2dpSuspend", "mark", "force", "forced", "forcedAgain"}
      BY DownEffects, OneEffects
  <2>2. Phase(t) = "down"
      BY <1>0, <2>1 DEF Phase, PhaseAt
  <2>. QED
      BY <1>0, <2>2, BtCallsGo DEF Order, Flags, FlagsAt
<1>2. /\ \A u \in Threads : u # t => Phase(u) = "none" /\ KeptIn(u, s)'
      /\ pc'[s] = pc[s] /\ loc'[s] = loc[s]
  <2>1. \A u \in Threads : u # t => Phase(u) = "none" /\ Phase(u)' = "none"
      BY <1>0, <1>1, OnlyKinds DEF Order, OneAtATime
  <2>. QED
      BY <1>0, <2>1, BystanderKept DEF Only
<1>3. pc[s] \notin Switching
    BY <1>0, <1>2, SwitchingPhase DEF Order
<1>4. /\ Asked(s)' /\ (Settled(s)' <=> Settled(s)) /\ ((s \in Alive)' <=> s \in Alive)
      /\ want'[s] = want[s] /\ mDevices'[s] = mDevices[s]
    BY <1>0, <1>2, <1>3 DEF Asked, Switching, Settled, Alive
<1>5. UNCHANGED <<suspendedOutDevIds, a2dpMuted>> => Same(s)
    BY <1>0, <1>4 DEF Same
<1>6. Same(s) => Kept(s)' /\ (Back(s) => Back(s)')
    BY <1>0, <1>1, SameKept DEF Same, Back, Comes
<1>7. ASSUME pc'[t] = "idle" PROVE KeptIn(t, s)'
    BY <1>0, <1>7, BystanderKept DEF Phase, PhaseAt
<1>8. CASE a2dpSuspend(t)
  <2>1. /\ UNCHANGED <<suspendedOutDevIds, a2dpMuted>>
        /\ \/ pc'[t] = "idle"
           \/ Becomes(t, "mark", Sharing, Sharing \X {"a2dp"}, Sharing \X {"spk"}, "forced")
      BY <1>8, DownEffects
  <2>2. ASSUME Becomes(t, "mark", Sharing, Sharing \X {"a2dp"}, Sharing \X {"spk"}, "forced")
        PROVE  KeptIn(t, s)'
    <3>1. /\ pc'[t] = "mark" /\ loc'[t].todo = Sharing /\ loc'[t].disc = Sharing \X {"a2dp"}
          /\ loc'[t].conn = Sharing \X {"spk"} /\ loc'[t].then = "forced"
        BY <2>2 DEF Becomes
    <3>2. s \in Sharing => "a2dp" \in mDevices'[s]
        BY <1>4 DEF Sharing
    <3>. QED
        BY <3>1, <3>2 DEF KeptIn
  <2>. QED
      BY <1>2, <1>4, <1>5, <1>6, <1>7, <2>1, <2>2
<1>9. CASE forced(t) \/ forcedAgain(t)
  <2>1. UNCHANGED <<suspendedOutDevIds, a2dpMuted>> /\ pc'[t] = "idle"
      BY <1>0, <1>9, DownEffects DEF KeptIn
  <2>. QED
      BY <1>2, <1>4, <1>5, <1>6, <1>7, <2>1
<1>10. CASE markedAll(t)
  <2>1. /\ UNCHANGED <<suspendedOutDevIds, a2dpMuted, loc>> /\ pc[t] = "mark" /\ pc'[t] = "force"
        /\ loc[t].todo = {}
      BY <1>10, DownEffects
  <2>2. KeptIn(t, s)'
      BY <1>0, <1>4, <1>5, <1>6, <2>1 DEF KeptIn, Listing
  <2>. QED
      BY <1>2, <1>4, <1>5, <1>6, <2>1, <2>2
<1>11. CASE forceDeviceSwitch(t)
  <2>1. /\ UNCHANGED <<suspendedOutDevIds, a2dpMuted>> /\ pc[t] = "force" /\ pc'[t] = "devSwitch"
        /\ loc'[t].disc = Living(loc[t].disc) /\ loc'[t].conn = Living(loc[t].conn)
        /\ loc'[t].then = loc[t].then
      BY <1>11, DownEffects DEF Becomes
  <2>2. loc'[t].conn \subseteq loc[t].conn /\ loc'[t].disc \subseteq loc[t].disc
      BY <2>1 DEF Living
  <2>3. loc[t].then = "forced"
      BY <1>0, <2>1 DEF KindAt
  <2>4. KeptIn(t, s)'
      BY <1>0, <1>4, <1>5, <1>6, <2>1, <2>2, <2>3 DEF KeptIn
  <2>. QED
      BY <1>2, <1>4, <1>5, <1>6, <2>1, <2>4
<1>12. CASE \E x \in Streams : markOne(t, x)
  <2>1. PICK x \in Streams : markOne(t, x)
      BY <1>12
  <2>2. /\ pc[t] = "mark" /\ pc'[t] = "mark" /\ x \in loc[t].todo
        /\ loc'[t].todo = loc[t].todo \ {x} /\ loc'[t].disc = loc[t].disc
        /\ loc'[t].conn = loc[t].conn /\ loc'[t].then = loc[t].then
        /\ \A y \in Streams : y # x => /\ suspendedOutDevIds'[y] = suspendedOutDevIds[y]
                                       /\ a2dpMuted'[y] = a2dpMuted[y]
        /\ LET applies == "a2dp" \in mDevices[x] /\ ("spk" \in mDevices[x] \/ ~a2dpMuted[x])
           IN  suspendedOutDevIds'[x] = IF applies THEN Marked(x) ELSE suspendedOutDevIds[x]
      BY <2>1, OneEffects DEF Becomes
  <2>3. loc[t].then = "forced"
      BY <1>0, <2>2 DEF KindAt
  <2>4. CASE s # x
    <3>1. Same(s)
        BY <1>4, <2>2, <2>4 DEF Same
    <3>2. KeptIn(t, s)'
        BY <1>0, <1>4, <1>6, <2>2, <2>3, <2>4, <3>1 DEF KeptIn
    <3>. QED
        BY <1>2, <1>4, <1>6, <3>1, <3>2
  <2>5. CASE s = x
    <3>1. /\ mDevices[s] # {} /\ <<s, "a2dp">> \in loc[t].disc /\ mDevices[s] \subseteq Devices
          /\ want[s] \subseteq Devices
        BY <1>0, <2>2, <2>5 DEF LeakIn, Types
    <3>2. s \in Alive /\ Settled(s)
        BY <1>3, <3>1 DEF Placed, Alive, Settled
    <3>3. Back(s) \/ "a2dp" \in mDevices[s]
        BY <1>0, <2>2, <2>3, <3>1, <3>2 DEF KeptIn
    <3>4. "a2dp" \in want[s] /\ (Whole(s) \/ Back(s))
      <4>1. "a2dp" \notin want[s] => Whole(s) /\ "a2dp" \notin mDevices[s]
          BY <1>0, <3>2 DEF Kept
      <4>2. ~(Whole(s) /\ Back(s))
          BY DEF Whole, Back, Devices
      <4>. QED
          BY <1>0, <1>1, <3>2, <3>3, <4>1, <4>2 DEF Kept
    <3>5. Back(s)'
      <4>1. CASE "a2dp" \in mDevices[s] /\ "spk" \in mDevices[s]
          BY <1>4, <2>2, <2>5, <4>1 DEF Back, Marked
      <4>2. CASE "a2dp" \in mDevices[s] /\ "spk" \notin mDevices[s] /\ ~a2dpMuted[s]
        <5>1. want[s] = {"a2dp"}
            BY <3>1, <3>4, <4>2 DEF Whole, Back, Devices
        <5>2. suspendedOutDevIds'[s] = {"a2dp"}
            BY <2>2, <2>5, <4>2 DEF Marked
        <5>. QED
            BY <1>4, <5>1, <5>2 DEF Back
      <4>3. CASE "a2dp" \notin mDevices[s] \/ ("spk" \notin mDevices[s] /\ a2dpMuted[s])
        <5>1. Back(s)
            BY <3>3, <3>4, <4>3 DEF Whole
        <5>2. suspendedOutDevIds'[s] = suspendedOutDevIds[s]
            BY <2>2, <2>5, <4>3
        <5>. QED
            BY <1>4, <5>1, <5>2 DEF Back
      <4>. QED
          BY <4>1, <4>2, <4>3
    <3>6. Kept(s)'
        BY <1>0, <1>1, <1>4, <3>4, <3>5 DEF Kept, Comes
    <3>7. KeptIn(t, s)'
        BY <1>0, <1>4, <2>2, <2>3, <3>4, <3>5 DEF KeptIn
    <3>. QED
        BY <1>2, <1>4, <3>6, <3>7
  <2>. QED
      BY <2>4, <2>5
<1>. QED
    BY <1>8, <1>9, <1>10, <1>11, <1>12

(* a2dpResume finds every stream with a mark, and unmutes what it moved back. *)
LEMMA ResumeKeeps ==
    ASSUME Inv, Inv', Order, Order', Leak, Keeps, NEW t \in BtThreads, NEW s \in Streams,
           a2dpResume(t) \/ collectedAll(t) \/ restored(t) \/ unmutedAll(t)
           \/ \E x \in Streams : collectOne(t, x) \/ unmuteOne(t, x)
    PROVE  Kept(s)' /\ Asked(s)' /\ \A u \in Threads : KeptIn(u, s)'
<1> USE DEF Inv
<1>0. /\ s \in Threads /\ t \in Threads /\ s # t /\ Kept(s) /\ Asked(s) /\ BtCalls(t)
      /\ KeptIn(t, s) /\ Only(t) /\ KindAt(t, pc[t], loc[t]) /\ Kinds' /\ LeakIn(t, s)
      /\ UNCHANGED <<currentState, mDevices, bt, mStreamMutex, want, ignored>>
    BY Kin, BtCallsGo, BtCallsStill DEF Leak, Keeps, Order, Kinds, BtCalls
<1>1. Phase(t) = "up" /\ Phase(t)' \in {"none", Phase(t)}
  <2>1. pc[t] \in {"a2dpResume", "collect", "restored", "unmute"}
      BY UpEffects, OneEffects
  <2>. QED
      BY <1>0, <2>1, BtCallsGo DEF Phase, PhaseAt, Order
<1>2. /\ \A u \in Threads : u # t => Phase(u) = "none" /\ KeptIn(u, s)' /\ ~Due(u, s)
      /\ pc'[s] = pc[s] /\ loc'[s] = loc[s] /\ ~bt.suspended /\ ~Stray(s)
  <2>1. \A u \in Threads : u # t => Phase(u) = "none" /\ Phase(u)' = "none"
      BY <1>0, <1>1, OnlyKinds DEF Order, OneAtATime
  <2>2. ~bt.suspended
      BY <1>0, <1>1 DEF Order, Flags, FlagsAt, Ready, isDeviceReady
  <2>. QED
      BY <1>0, <1>1, <2>1, <2>2, BystanderKept, DuePhase DEF Only, Stray
<1>3. pc[s] \notin Switching
    BY <1>0, <1>2, SwitchingPhase DEF Order
<1>4. /\ Asked(s)' /\ (Settled(s)' <=> Settled(s)) /\ ((s \in Alive)' <=> s \in Alive)
      /\ want'[s] = want[s] /\ mDevices'[s] = mDevices[s]
    BY <1>0, <1>2, <1>3 DEF Asked, Switching, Settled, Alive
<1>5. UNCHANGED <<suspendedOutDevIds, a2dpMuted>> => Same(s)
    BY <1>0, <1>4 DEF Same
<1>6. ASSUME Same(s), s \in Alive /\ Back(s) /\ Due(t, s) => Due(t, s)' PROVE Kept(s)'
  <2>1. s \in Alive /\ Back(s) /\ (\E u \in Threads : Due(u, s)) => \E u \in Threads : Due(u, s)'
      BY <1>0, <1>2, <1>6
  <2>. QED
      BY <1>0, <1>2, <1>6, <2>1, SameKept DEF Settled, Comes
<1>7. ASSUME pc'[t] = "idle" PROVE KeptIn(t, s)'
    BY <1>0, <1>7, BystanderKept DEF Phase, PhaseAt
<1>8. CASE a2dpResume(t)
  <2>1. /\ UNCHANGED <<suspendedOutDevIds, a2dpMuted>>
        /\ \/ pc'[t] = "idle" /\ Candidates = {}
           \/ Becomes(t, "collect", Candidates, {}, {}, "restored")
      BY <1>8, UpEffects
  <2>2. s \in Alive /\ Back(s) => s \in Candidates
      BY DEF Candidates, Back, Devices
  <2>3. CASE pc'[t] = "idle" /\ Candidates = {}
      BY <1>2, <1>4, <1>5, <1>6, <1>7, <2>1, <2>2, <2>3
  <2>4. CASE Becomes(t, "collect", Candidates, {}, {}, "restored")
    <3>1. /\ pc'[t] = "collect" /\ loc'[t].todo = Candidates /\ loc'[t].conn = {}
          /\ loc'[t].disc = {} /\ loc'[t].then = "restored"
        BY <2>4 DEF Becomes
    <3>2. s \in Candidates => Due(t, s)'
        BY <3>1 DEF Due, Collecting
    <3>3. KeptIn(t, s)'
        BY <3>1 DEF KeptIn
    <3>. QED
        BY <1>2, <1>4, <1>5, <1>6, <2>1, <2>2, <3>2, <3>3
  <2>. QED
      BY <2>1, <2>3, <2>4
<1>9. CASE collectedAll(t)
  <2>1. /\ UNCHANGED <<suspendedOutDevIds, a2dpMuted>> /\ pc[t] = "collect" /\ loc[t].todo = {}
        /\ \/ pc'[t] = "idle" /\ loc[t].conn = {}
           \/ pc'[t] = "devSwitch" /\ UNCHANGED loc
      BY <1>9, UpEffects
  <2>2. Due(t, s) => Returning(t, s)
      BY <2>1 DEF Due, Collecting, Unmuting
  <2>3. CASE pc'[t] = "idle" /\ loc[t].conn = {}
    <3>1. ~Due(t, s)
        BY <2>2, <2>3 DEF Returning
    <3>. QED
        BY <1>2, <1>4, <1>5, <1>6, <1>7, <2>1, <2>3, <3>1
  <2>4. CASE pc'[t] = "devSwitch" /\ UNCHANGED loc
    <3>1. Returning(t, s) => Due(t, s)'
        BY <1>4, <2>1, <2>4 DEF Returning, Due
    <3>2. loc[t].then = "restored"
        BY <1>0, <2>1 DEF KindAt
    <3>3. KeptIn(t, s)'
        BY <1>0, <1>4, <2>1, <2>4, <3>2 DEF KeptIn
    <3>. QED
        BY <1>2, <1>4, <1>5, <1>6, <2>1, <2>2, <3>1, <3>3
  <2>. QED
      BY <2>1, <2>3, <2>4
<1>10. CASE restored(t)
  <2>1. /\ UNCHANGED <<suspendedOutDevIds, a2dpMuted>> /\ pc[t] = "restored"
        /\ \/ pc'[t] = "idle" /\ loc[t].status # "ok"
           \/ Becomes(t, "unmute", {x[1] : x \in loc[t].conn} \cap Alive,
                      loc[t].disc, loc[t].conn, loc[t].then)
      BY <1>10, UpEffects
  <2>2. Due(t, s) => Unmuting(t, s)
      BY <2>1 DEF Due, Collecting, Returning
  <2>3. CASE pc'[t] = "idle" /\ loc[t].status # "ok"
    <3>1. ~Due(t, s)
        BY <2>1, <2>2, <2>3 DEF Unmuting
    <3>. QED
        BY <1>2, <1>4, <1>5, <1>6, <1>7, <2>1, <2>3, <3>1
  <2>4. CASE Becomes(t, "unmute", {x[1] : x \in loc[t].conn} \cap Alive,
                     loc[t].disc, loc[t].conn, loc[t].then)
    <3>1. /\ pc'[t] = "unmute" /\ loc'[t].todo = {x[1] : x \in loc[t].conn} \cap Alive
          /\ loc'[t].conn = loc[t].conn /\ loc'[t].then = loc[t].then
        BY <2>4 DEF Becomes
    <3>2. s \in Alive /\ Unmuting(t, s) => Due(t, s)'
      <4>1. ASSUME s \in Alive, <<s, "a2dp">> \in loc[t].conn PROVE s \in loc'[t].todo
          BY <3>1, <4>1
      <4>. QED
          BY <1>4, <2>1, <3>1, <4>1 DEF Unmuting, Due
    <3>3. KeptIn(t, s)'
        BY <1>0, <1>4, <2>1, <3>1 DEF KeptIn, Listing
    <3>. QED
        BY <1>2, <1>4, <1>5, <1>6, <2>1, <2>2, <3>2, <3>3
  <2>. QED
      BY <2>1, <2>3, <2>4
<1>11. CASE unmutedAll(t)
  <2>1. /\ UNCHANGED <<suspendedOutDevIds, a2dpMuted>> /\ pc[t] = "unmute" /\ pc'[t] = "idle"
        /\ loc[t].todo = {}
      BY <1>11, UpEffects
  <2>2. ~Due(t, s)
      BY <2>1 DEF Due, Collecting, Returning, Unmuting
  <2>. QED
      BY <1>2, <1>4, <1>5, <1>6, <1>7, <2>1, <2>2
<1>12. CASE \E x \in Streams : collectOne(t, x)
  <2>1. PICK x \in Streams : collectOne(t, x)
      BY <1>12
  <2> DEFINE back == IF "a2dp" \in suspendedOutDevIds[x] THEN {x} ELSE {}
             from == IF Cardinality(suspendedOutDevIds[x]) = 1 THEN mDevices[x] ELSE {}
  <2>2. /\ pc[t] = "collect" /\ pc'[t] = "collect" /\ x \in loc[t].todo
        /\ loc'[t].todo = loc[t].todo \ {x} /\ loc'[t].disc = loc[t].disc \cup (back \X from)
        /\ loc'[t].conn = loc[t].conn \cup (back \X {"a2dp"}) /\ loc'[t].then = loc[t].then
        /\ UNCHANGED <<suspendedOutDevIds, a2dpMuted>>
      BY <2>1, OneEffects DEF Becomes
  <2>3. loc[t].then = "restored" /\ Same(s)
      BY <1>0, <1>5, <2>2 DEF KindAt
  <2>4. CASE s # x
    <3>1. \A d : /\ <<s, d>> \in loc'[t].conn <=> <<s, d>> \in loc[t].conn
                 /\ <<s, d>> \in loc'[t].disc <=> <<s, d>> \in loc[t].disc
        BY <2>2, <2>4
    <3>2. Due(t, s) => Due(t, s)'
        BY <1>4, <2>2, <2>4, <3>1 DEF Due, Collecting, Returning, Unmuting
    <3>3. KeptIn(t, s)'
        BY <1>0, <1>4, <2>2, <2>3, <3>1 DEF KeptIn
    <3>. QED
        BY <1>2, <1>4, <1>6, <2>3, <3>2, <3>3
  <2>5. CASE s = x
    <3>1. <<s, "a2dp">> \notin loc[t].conn /\ \A d \in Devices : <<s, d>> \notin loc[t].disc
        BY <1>0, <2>2, <2>3, <2>5 DEF LeakIn, KeptIn
    <3>2. ASSUME "a2dp" \in suspendedOutDevIds[s]
          PROVE  <<s, "a2dp">> \in loc'[t].conn
        BY <2>2, <2>5, <3>2
    <3>3. ASSUME "a2dp" \notin suspendedOutDevIds[s]
          PROVE  /\ <<s, "a2dp">> \notin loc'[t].conn
                 /\ \A d \in Devices : <<s, d>> \notin loc'[t].disc
        BY <2>2, <2>5, <3>1, <3>3
    <3>4. suspendedOutDevIds[s] = {"a2dp"} => \A d \in mDevices[s] : <<s, d>> \in loc'[t].disc
      <4>1. ASSUME suspendedOutDevIds[s] = {"a2dp"} PROVE back = {s} /\ from = mDevices[s]
          BY <2>5, <4>1, FS_Singleton
      <4>. QED
          BY <2>2, <4>1
    <3>5. suspendedOutDevIds[s] = Devices => \A d \in Devices : <<s, d>> \notin loc'[t].disc
      <4>1. ASSUME suspendedOutDevIds[s] = Devices PROVE from = {}
        <5>1. IsFiniteSet(Devices)
          <6>1. Devices = ({} \cup {"a2dp"}) \cup {"spk"}
              BY DEF Devices
          <6>. QED
              BY <6>1, FS_EmptySet, FS_AddElement
        <5>2. \A e : Devices # {e}
            BY DEF Devices
        <5>3. Cardinality(Devices) # 1
            BY <5>1, <5>2, FS_Singleton
        <5>. QED
            BY <2>5, <4>1, <5>3
      <4>. QED
          BY <2>2, <3>1, <4>1
    <3>6. Back(s) => Due(t, s)'
      <4>1. SUFFICES ASSUME Back(s) PROVE Returning(t, s)'
          BY DEF Due
      <4>2. "a2dp" \in suspendedOutDevIds[s]
          BY <4>1 DEF Back, Devices
      <4>3. suspendedOutDevIds[s] # {"a2dp"} => suspendedOutDevIds[s] = Devices
          BY <4>1 DEF Back
      <4>4. "spk" \in Devices
          BY DEF Devices
      <4>. QED
          BY <1>4, <2>2, <2>3, <3>2, <3>4, <3>5, <4>2, <4>3, <4>4 DEF Returning
    <3>7. KeptIn(t, s)'
      <4>1. Settled(s) /\ "a2dp" \notin want[s] => "a2dp" \notin suspendedOutDevIds[s]
          BY <1>0 DEF Kept, Whole
      <4>. QED
          BY <1>4, <2>2, <2>3, <3>2, <3>3, <4>1 DEF KeptIn
    <3>. QED
        BY <1>2, <1>4, <1>6, <2>3, <3>6, <3>7
  <2>. QED
      BY <2>4, <2>5
<1>13. CASE \E x \in Streams : unmuteOne(t, x)
  <2>1. PICK x \in Streams : unmuteOne(t, x)
      BY <1>13
  <2>2. /\ pc[t] = "unmute" /\ pc'[t] = "unmute" /\ x \in loc[t].todo
        /\ loc'[t].todo = loc[t].todo \ {x} /\ loc'[t].conn = loc[t].conn
        /\ loc'[t].then = loc[t].then
        /\ \A y \in Streams : y # x => /\ suspendedOutDevIds'[y] = suspendedOutDevIds[y]
                                       /\ a2dpMuted'[y] = a2dpMuted[y]
        /\ suspendedOutDevIds'[x] = {} /\ ~a2dpMuted'[x]
      BY <2>1, OneEffects DEF Becomes
  <2>3. KeptIn(t, s)'
      BY <1>0, <1>4, <2>2 DEF KeptIn, Listing
  <2>4. CASE s # x
    <3>1. Same(s)
        BY <1>4, <2>2, <2>4 DEF Same
    <3>2. Due(t, s) => Due(t, s)'
        BY <1>4, <2>2, <2>4 DEF Due, Collecting, Returning, Unmuting
    <3>. QED
        BY <1>2, <1>4, <1>6, <2>3, <3>1, <3>2
  <2>5. CASE s = x
    <3>1. (\E u \in Threads : Due(u, s)) => want[s] \subseteq mDevices[s]
      <4>1. Due(t, s) => want[s] \subseteq mDevices[s]
          BY <2>2 DEF Due, Collecting, Returning, Unmuting
      <4>. QED
          BY <1>2, <4>1
    <3>2. want[s] \subseteq mDevices[s] => Whole(s)'
        BY <1>4, <2>2, <2>5 DEF Whole
    <3>3. Whole(s) => want[s] \subseteq mDevices[s]
        BY DEF Whole
    <3>4. Kept(s)'
        BY <1>0, <1>2, <1>4, <3>1, <3>2, <3>3 DEF Kept, Comes
    <3>. QED
        BY <1>2, <1>4, <2>3, <3>4
  <2>. QED
      BY <2>4, <2>5
<1>. QED
    BY <1>8, <1>9, <1>10, <1>11, <1>12, <1>13

LEMMA FoundInit == ASSUME Init PROVE Found
<1>1. \A t \in Threads : pc[t] = "idle" /\ loc[t] = Nothing
    BY DEF Init
<1>2. \A s \in Streams : pc[s] = "idle" /\ s \notin Alive
    BY DEF Init, Threads, Alive
<1>3. ASSUME NEW s \in Streams PROVE Kept(s) /\ Asked(s)
    BY <1>2 DEF Kept, Asked, Settled, Switching
<1>4. ASSUME NEW s \in Streams, NEW t \in Threads PROVE KeptIn(t, s)
    BY <1>1 DEF KeptIn, Nothing, Listing
<1>. QED
    BY <1>3, <1>4 DEF Found, Keeps

LEMMA FoundNext ==
    ASSUME Orderly, Inv, Inv', Order, Order', Await, Leak, Found, [Next]_vars
    PROVE  Found'
<1>1. SUFFICES ASSUME faults' = 0, NEW s \in Streams
               PROVE  Kept(s)' /\ Asked(s)' /\ \A u \in Threads : KeptIn(u, s)'
    BY DEF Found, Keeps
<1>2. CASE Next
  <2>0. faults = 0 /\ Keeps
      BY <1>1, <1>2, FaultsGrow DEF Found
  <2>1. CASE \E x \in Streams : Calls(x)
      BY <1>1, <2>0, <2>1, CallsKeep
  <2>2. CASE \E x \in Streams : \E ds \in Routes : switchDevice(x, ds)
      BY <2>0, <2>2, SwitchDeviceKeeps
  <2>3. CASE \E t \in Threads : Routing(t)
      BY <1>1, <2>0, <2>3, PlanKeeps, ListKeeps, SwitchKeeps DEF Routing
  <2>4. CASE \E t \in BtThreads : BtFlags(t)
      BY <2>0, <2>4, BtFlagsKeep
  <2>5. CASE \E t \in BtThreads : BtCalls(t)
      BY <2>0, <2>5, SuspendKeeps, ResumeKeeps DEF BtCalls
  <2>. QED
      BY <1>2, <2>1, <2>2, <2>3, <2>4, <2>5, StepKinds
<1>3. CASE UNCHANGED vars
  <2>1. /\ UNCHANGED <<pc, loc, bt>> /\ Untouched(s) /\ Stays(s) /\ faults = 0
        /\ Kept(s) /\ Asked(s) /\ \A u \in Threads : KeptIn(u, s)
      BY <1>1, <1>3 DEF vars, Untouched, Stays, Found, Keeps
  <2>2. Same(s) /\ (Ready' <=> Ready)
      BY <2>1, UntouchedSame DEF Ready, isDeviceReady
  <2>3. \A u \in Threads : Due(u, s) => Due(u, s)'
      BY <2>1, <2>2 DEF Due, Collecting, Returning, Unmuting, Same
  <2>4. Stray(s) => Stray(s)'
      BY <2>1 DEF Stray, Stays, Phase
  <2>. QED
      BY <2>1, <2>2, <2>3, <2>4, SameKept, SameKeptIn, SameAsked DEF Comes
<1>. QED
    BY <1>2, <1>3

(* When the headset is back and no call is under way, every stream that plays *)
(* is on what its client asked for last, neither muted nor marked, if no call *)
(* failed and the last suspension did not end with a call up and the stream   *)
(* left behind: whoever takes a stream off the headset (a2dpSuspend and       *)
(* BTUtilsDeviceNotReady in BTUtils.cpp, switchDevice in Stream.cpp) leaves a *)
(* mark that the next a2dpResume finds.                                       *)
THEOREM AlwaysHeard == ASSUME Orderly PROVE Spec => []Heard
<1> DEFINE IInv == Inv /\ Order /\ Await /\ Leak /\ Found
<1>1. Init => IInv
    BY InvInit, OrderInit, AwaitInit, LeakInit, FoundInit
<1>2. IInv /\ [Next]_vars => IInv'
    BY InvNext, OrderNext, AwaitNext, LeakNext, FoundNext
<1>3. IInv => Heard
  <2>1. SUFFICES ASSUME IInv, Quiet, Ready, faults = 0, NEW s \in Streams \ stranded, Runs(s)
                 PROVE  Whole(s)
      BY DEF Heard, Ready, Whole
  <2>2. Settled(s) /\ Kept(s)
      BY <2>1, Kin DEF Quiet, Settled, Switching, Alive, Runs, Found, Keeps
  <2>3. \A t \in Threads : ~Due(t, s)
      BY <2>1 DEF Quiet, Due, Collecting, Returning, Unmuting
  <2>4. bt.available /\ ~bt.suspended
      BY <2>1 DEF Ready, isDeviceReady
  <2>5. ~Comes(s)
      BY <2>1, <2>3, <2>4 DEF Comes, Stray
  <2>. QED
      BY <2>2, <2>4, <2>5 DEF Kept
<1>. QED
    BY <1>1, <1>2, <1>3, PTL DEF Spec
=============================================================================
