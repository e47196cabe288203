------------------------ MODULE EchoReference_proofs ------------------------
(* Proofs about EchoReference for any streams and devices, where every stream *)
(* registers with mActiveStreamMutex held: the detection and sensor streams   *)
(* that do not are the ones the code leaves exposed.                          *)
EXTENDS EchoReference, FiniteSetTheorems, TLAPS

AllGuarded == Unguarded = {}

(* One registration at a time is past its lock.                               *)
Busy == {"deregister", "next", "set"}
Exclusive ==
    /\ \A s \in Streams : op[s].at \in Busy <=> mActiveStreamMutex = s
    /\ \A s \in Streams : op[s].at = "next" <=> mResourceManagerMutex = s

(* What a registration remembers at each of its steps: the capture streams    *)
(* still to tell run, and the one being told is not among them.               *)
Remembers(s) ==
    /\ op[s].at = "register" => op[s].on
    /\ op[s].at = "deregister" => ~op[s].on /\ op[s].rx = None
    /\ op[s].todo \subseteq Tx \cap active_devices
    /\ s \in Tx \/ op[s].at \in {"idle", "register", "deregister"} => op[s].todo = {}
    /\ op[s].at = "set" =>
          IF s \in Rx
          THEN /\ op[s].tx \in (Tx \cap active_devices) \ op[s].todo
               /\ op[s].rx = deviceOf[s]
          ELSE /\ op[s].tx = s
               /\ IF op[s].on THEN op[s].rx \in RxDevices ELSE op[s].rx = None

(* Where a stream is on the way into active_devices and out of it.            *)
Placed(s) ==
    /\ op[s].at = "register" => s \notin active_devices
    /\ op[s].at = "deregister" => s \in active_devices
    /\ op[s].at \in {"next", "set"} => (s \in active_devices <=> op[s].on)
Playing(r) ==
    r \in started <=> CASE op[r].at = "idle" -> r \in active_devices
                        [] OTHER -> op[r].on

(* The playback streams capture stream t has been told of.                    *)
Told(t, r) ==
    CASE op[r].at = "idle" -> r \in active_devices
      [] op[r].at = "register" -> FALSE
      [] op[r].at = "deregister" -> TRUE
      [] OTHER -> IF op[r].on THEN t \notin op[r].todo ELSE t \in op[r].todo
Known(t, d) == {r \in Rx : deviceOf[r] = d /\ Told(t, r)}
OneDevice(d) == \A r \in Rx : deviceOf[r] = d

(* A count never exceeds the streams it was told of; with one device and no   *)
(* refusal it is their number.  A capture stream that is off has no counts.   *)
Counts ==
    \A t \in Tx, d \in RxDevices :
        /\ ec_ref_count_map[t][d] \in Nat
        /\ ec_ref_count_map[t][d] <= Cardinality(Known(t, d))
        /\ fails = 0 /\ OneDevice(d) /\ t \in active_devices
              => ec_ref_count_map[t][d] = Cardinality(Known(t, d))
        /\ t \notin active_devices => ec_ref_count_map[t][d] = 0

(* The call into the session of t that is under way.                          *)
TurnsOn(s, t, d) == op[s].at = "set" /\ op[s].on /\ op[s].tx = t /\ op[s].rx = d
TurnsOff(s, t, d) ==
    op[s].at = "set" /\ ~op[s].on /\ op[s].tx = t /\ op[s].rx \in {d, None}

(* The counts and the sessions agree but for that call.                       *)
Agree ==
    \A t \in Tx, d \in RxDevices :
        /\ ec_ref_count_map[t][d] > 0
              => ecRefDevId[t] = d \/ \E s \in Streams : TurnsOn(s, t, d)
        /\ fails = 0 /\ ecRefDevId[t] = d
              => ec_ref_count_map[t][d] > 0 \/ \E s \in Streams : TurnsOff(s, t, d)
        /\ \A s \in Streams :
              /\ TurnsOn(s, t, d) => ec_ref_count_map[t][d] > 0
              /\ TurnsOn(s, t, d) /\ s \in Rx => ec_ref_count_map[t][d] = 1
              /\ TurnsOff(s, t, d) => ec_ref_count_map[t][d] = 0

Op == [at : {"idle", "register", "deregister", "next", "set"}, on : BOOLEAN,
       todo : SUBSET Tx, tx : Tx \cup {"none"}, rx : RxDevices \cup {None}]
Types ==
    /\ active_devices \subseteq Streams /\ started \subseteq Rx
    /\ ec_ref_count_map \in [Tx -> [RxDevices -> Nat]]
    /\ ecRefDevId \in [Tx -> RxDevices \cup {None}]
    /\ op \in [Streams -> Op]
    /\ mActiveStreamMutex \in Streams \cup {"none"}
    /\ mResourceManagerMutex \in Streams \cup {"none"}
    /\ fails \in 0..MaxFails /\ deviceOf \in [Rx -> RxDevices]

Inv ==
    /\ Types /\ Exclusive
    /\ \A s \in Streams : Remembers(s) /\ Placed(s)
    /\ \A r \in Rx : Playing(r)
    /\ Counts /\ Agree

-----------------------------------------------------------------------------
(* The effect of the steps that change both the counts and a registration.    *)

(* The registration of s goes to a step; the other registrations stay.        *)
Moves(s, at, todo, tx, rx) ==
    /\ op' \in [Streams -> Op]
    /\ op'[s].at = at /\ op'[s].on = op[s].on /\ op'[s].todo = todo
    /\ op'[s].tx = tx /\ op'[s].rx = rx
    /\ \A q \in Streams \ {s} : op'[q] = op[q]

(* Capture stream t has n counts of device d; the other counts stay.          *)
SetsCount(t, d, n) ==
    /\ ec_ref_count_map' \in [Tx -> [RxDevices -> Nat]]
    /\ ec_ref_count_map'[t][d] = n
    /\ \A u \in Tx, e \in RxDevices :
          u # t \/ e # d => ec_ref_count_map'[u][e] = ec_ref_count_map[u][e]

Less(n) == IF n > 0 THEN n - 1 ELSE 0

(* A registration with new fields is a registration.                          *)
LEMMA OpUpdate ==
    ASSUME NEW o \in Op, NEW at \in {"next", "set"}, NEW todo \in SUBSET Tx,
           NEW tx \in Tx \cup {"none"}, NEW rx \in RxDevices \cup {None}
    PROVE  [o EXCEPT !.todo = todo, !.at = at, !.tx = tx, !.rx = rx] \in Op
BY DEF Op

(* So is one that enters the list or leaves it (RxRegister, RxDeregister).    *)
LEMMA OpEnters ==
    ASSUME NEW o \in Op, NEW todo \in SUBSET Tx
    PROVE  [o EXCEPT !.at = "next", !.todo = todo] \in Op
BY DEF Op

(* The update of a registration in RxNext, field by field.                    *)
LEMMA MovesUpdate ==
    ASSUME Types, NEW s \in Streams, NEW at \in {"next", "set"}, NEW todo \in SUBSET Tx,
           NEW tx \in Tx \cup {"none"}, NEW rx \in RxDevices \cup {None},
           op' = [op EXCEPT ![s].todo = todo, ![s].at = at, ![s].tx = tx, ![s].rx = rx]
    PROVE  Moves(s, at, todo, tx, rx)
<1>1. op' \in [Streams -> Op]
  <2>1. op'[s] = [op[s] EXCEPT !.todo = todo, !.at = at, !.tx = tx, !.rx = rx]
      BY DEF Types
  <2>2. op[s] \in Op
      BY DEF Types
  <2>3. [op[s] EXCEPT !.todo = todo, !.at = at, !.tx = tx, !.rx = rx] \in Op
      BY <2>2, OpUpdate, Zenon
  <2> HIDE DEF Op
  <2>4. op' = [q \in Streams |-> IF q = s THEN op'[s] ELSE op[q]]
      BY DEF Types
  <2> QED BY <2>1, <2>3, <2>4 DEF Types
<1>2. op'[s].at = at /\ op'[s].on = op[s].on /\ op'[s].todo = todo
    BY DEF Types, Op
<1>3. op'[s].tx = tx /\ op'[s].rx = rx
    BY DEF Types, Op
<1>4. \A q \in Streams \ {s} : op'[q] = op[q]
    BY DEF Types
<1> QED BY <1>1, <1>2, <1>3, <1>4 DEF Moves

(* RxNext tells one of the capture streams that are left.                     *)
LEMMA RxNextDoes ==
    ASSUME Types, NEW s \in Rx, RxNext(s)
    PROVE  \E t \in op[s].todo :
             LET n == ec_ref_count_map[t][deviceOf[s]]
                 call == IF op[s].on THEN n = 0 ELSE n = 1
             IN  /\ t \in Tx
                 /\ SetsCount(t, deviceOf[s], IF op[s].on THEN n + 1 ELSE Less(n))
                 /\ Moves(s, IF call THEN "set" ELSE "next", op[s].todo \ {t}, t,
                          deviceOf[s])
                 /\ mResourceManagerMutex' = IF call THEN "none" ELSE s
<1>0. s \in Streams /\ deviceOf[s] \in RxDevices /\ op[s].todo \subseteq Tx
    BY DEF Streams, Types, Op
<1> PICK t \in op[s].todo :
          LET d == deviceOf[s]
              n == ec_ref_count_map[t][d]
              map == IF op[s].on THEN Added(t, d, 1) ELSE RemovedOne(t, d)
              call == IF op[s].on THEN n = 0 ELSE n = 1
          IN  /\ ec_ref_count_map' = map
              /\ op' = [op EXCEPT ![s].todo = @ \ {t},
                                  ![s].at = IF call THEN "set" ELSE "next",
                                  ![s].tx = t, ![s].rx = d]
              /\ mResourceManagerMutex' = IF call THEN "none" ELSE s
    BY DEF RxNext
<1> DEFINE d == deviceOf[s]
           n == ec_ref_count_map[t][d]
           call == IF op[s].on THEN n = 0 ELSE n = 1
<1>1. SetsCount(t, d, IF op[s].on THEN n + 1 ELSE Less(n))
    BY <1>0 DEF Added, RemovedOne, Types, SetsCount, Less
<1>2. Moves(s, IF call THEN "set" ELSE "next", op[s].todo \ {t}, t, d)
  <2>1. op' = [op EXCEPT ![s].todo = op[s].todo \ {t},
                         ![s].at = IF call THEN "set" ELSE "next",
                         ![s].tx = t, ![s].rx = d]
      BY <1>0 DEF Types, Op
  <2>2. (IF call THEN "set" ELSE "next") \in {"next", "set"}
      OBVIOUS
  <2> HIDE DEF call, n
  <2> QED BY <1>0, <2>1, <2>2, MovesUpdate
<1> QED BY <1>0, <1>1, <1>2

(* TxRegister finds no playback, or counts it on one device that has some.    *)
LEMMA TxRegisterDoes ==
    ASSUME Types, NEW s \in Tx, TxRegister(s)
    PROVE  \/ /\ \A d \in RxDevices : PlayingOn(d) = {}
              /\ Moves(s, "next", op[s].todo, op[s].tx, op[s].rx)
              /\ mResourceManagerMutex' = s /\ UNCHANGED ec_ref_count_map
           \/ \E d \in RxDevices :
                /\ PlayingOn(d) # {}
                /\ Cardinality(PlayingOn(d)) \in Nat \ {0}
                /\ SetsCount(s, d, ec_ref_count_map[s][d] + Cardinality(PlayingOn(d)))
                /\ Moves(s, "set", op[s].todo, s, d)
                /\ UNCHANGED mResourceManagerMutex
<1>0. s \in Streams
    BY DEF Streams
<1>1. ASSUME op' = [op EXCEPT ![s].at = "next"]
      PROVE  Moves(s, "next", op[s].todo, op[s].tx, op[s].rx)
    BY <1>0, <1>1 DEF Types, Op, Moves
<1>2. ASSUME NEW d \in RxDevices,
             op' = [op EXCEPT ![s].at = "set", ![s].tx = s, ![s].rx = d]
      PROVE  Moves(s, "set", op[s].todo, s, d)
    BY <1>0, <1>2 DEF Types, Op, Moves
<1>3. ASSUME NEW d \in RxDevices, PlayingOn(d) # {}
      PROVE  Cardinality(PlayingOn(d)) \in Nat \ {0}
  <2>1. PlayingOn(d) \in SUBSET Rx
      BY DEF PlayingOn
  <2> QED BY <1>3, <2>1, EchoAssumption, FS_Subset, FS_CardinalityType, FS_EmptySet
<1>4. ASSUME NEW d \in RxDevices, NEW n \in Nat, ec_ref_count_map' = Added(s, d, n)
      PROVE  SetsCount(s, d, ec_ref_count_map[s][d] + n)
    BY <1>4 DEF Added, Types, SetsCount
<1> QED BY <1>1, <1>2, <1>3, <1>4 DEF TxRegister

(* TxDeregister leaves no count.                                              *)
LEMMA TxDeregisterDoes ==
    ASSUME Types, NEW s \in Tx, TxDeregister(s)
    PROVE  /\ Moves(s, "set", op[s].todo, s, op[s].rx)
           /\ ec_ref_count_map' \in [Tx -> [RxDevices -> Nat]]
           /\ \A u \in Tx, e \in RxDevices : ec_ref_count_map'[u][e] =
                  IF u = s THEN 0 ELSE ec_ref_count_map[u][e]
<1>0. s \in Streams
    BY DEF Streams
<1>1. Moves(s, "set", op[s].todo, s, op[s].rx)
    BY <1>0 DEF TxDeregister, Types, Op, Moves
<1> QED BY <1>1 DEF TxDeregister, Erased, Types

(* setECRefOn takes the count of the device it replaces away, and, when the   *)
(* mixer refuses, what was counted for the new one.                           *)
LEMMA SetOnDoes ==
    ASSUME Types, NEW s \in Streams, setECRefOn(s), op[s].tx \in Tx, op[s].rx \in RxDevices
    PROVE  LET t == op[s].tx
               d == op[s].rx
               n == ec_ref_count_map[t][d]
               Kept(m) == \A u \in Tx, e \in RxDevices : ec_ref_count_map'[u][e] =
                             CASE u = t /\ e = ecRefDevId[t] -> 0
                               [] u = t /\ e = d -> m
                               [] OTHER -> ec_ref_count_map[u][e]
           IN  /\ Moves(s, "next", op[s].todo, "none", None)
               /\ ec_ref_count_map' \in [Tx -> [RxDevices -> Nat]]
               /\ ecRefDevId[t] # d
               /\ \/ /\ ecRefDevId' = [ecRefDevId EXCEPT ![t] = d]
                     /\ fails' = fails /\ Kept(n)
                  \/ /\ ecRefDevId' = ecRefDevId
                     /\ fails < MaxFails /\ fails' = fails + 1
                     /\ Kept(IF s \in Rx THEN Less(n) ELSE 0)
<1> DEFINE t == op[s].tx
           d == op[s].rx
           n == ec_ref_count_map[t][d]
           map == IF ecRefDevId[t] = None THEN ec_ref_count_map
                  ELSE Erased(t, {ecRefDevId[t]})
<1>1. Moves(s, "next", op[s].todo, "none", None)
    BY DEF setECRefOn, Answered, Types, Op, Moves
<1>2. /\ map \in [Tx -> [RxDevices -> Nat]]
      /\ \A u \in Tx, e \in RxDevices : map[u][e] =
            IF u = t /\ e = ecRefDevId[t] THEN 0 ELSE ec_ref_count_map[u][e]
    BY EchoAssumption DEF Erased, Types
<1>3. /\ Refused(s, map) \in [Tx -> [RxDevices -> Nat]]
      /\ \A u \in Tx, e \in RxDevices : Refused(s, map)[u][e] =
            IF u = t /\ e = d THEN (IF s \in Rx THEN Less(map[t][d]) ELSE 0) ELSE map[u][e]
  <2>1. op[s].on
      BY DEF setECRefOn
  <2> HIDE DEF map
  <2> QED BY <1>2, <2>1 DEF Refused, Less
<1>4. ecRefDevId[t] # d /\ map[t][d] = n
    BY <1>2 DEF setECRefOn
<1>5. \/ /\ ecRefDevId' = [ecRefDevId EXCEPT ![t] = d]
         /\ ec_ref_count_map' = map /\ fails' = fails
      \/ /\ fails < MaxFails /\ fails' = fails + 1
         /\ ec_ref_count_map' = Refused(s, map)
         /\ ecRefDevId' = ecRefDevId
    BY DEF setECRefOn
<1> HIDE DEF map
<1> QED BY <1>1, <1>2, <1>3, <1>4, <1>5

-----------------------------------------------------------------------------
(* A set of playback streams is finite and no larger than all of them.        *)
LEMMA RxSets ==
    ASSUME NEW S \in SUBSET Rx
    PROVE  IsFiniteSet(S) /\ Cardinality(S) \in Nat /\ Cardinality(S) <= Cardinality(Rx)
BY EchoAssumption, FS_Subset, FS_CardinalityType

(* A step that tells the running capture streams of nothing, and changes no   *)
(* count, keeps the counts right.                                             *)
LEMMA CountsSame ==
    ASSUME Counts, UNCHANGED <<deviceOf, ec_ref_count_map>>, fails' = 0 => fails = 0,
           Tx \cap active_devices' = Tx \cap active_devices,
           \A t \in Tx \cap active_devices, r \in Rx : Told(t, r)' <=> Told(t, r)
    PROVE  Counts'
<1> SUFFICES ASSUME NEW t \in Tx, NEW d \in RxDevices
             PROVE  /\ ec_ref_count_map[t][d] \in Nat
                    /\ ec_ref_count_map[t][d] <= Cardinality(Known(t, d)')
                    /\ fails' = 0 /\ OneDevice(d) /\ t \in active_devices
                         => ec_ref_count_map[t][d] = Cardinality(Known(t, d)')
                    /\ t \notin active_devices => ec_ref_count_map[t][d] = 0
    BY DEF Counts, OneDevice
<1>1. CASE t \in active_devices
  <2>1. Known(t, d)' = Known(t, d)
      BY <1>1 DEF Known
  <2> QED BY <1>1, <2>1 DEF Counts
<1>2. CASE t \notin active_devices
  <2>1. Known(t, d)' \in SUBSET Rx
      BY DEF Known
  <2>2. Cardinality(Known(t, d)') \in Nat
      BY <2>1, RxSets
  <2> QED BY <1>2, <2>2 DEF Counts
<1> QED BY <1>1, <1>2

(* While no registration is under way, what a capture stream is told of is    *)
(* what plays.                                                                *)
LEMMA KnownPlays ==
    ASSUME Types, \A s \in Streams : op[s].at \in {"idle", "register"},
           \A s \in Streams : Placed(s), \A r \in Rx : Playing(r),
           NEW t \in Tx, NEW d \in RxDevices
    PROVE  Known(t, d) = PlayingOn(d)
BY DEF Types, Op, Streams, Placed, Playing, Known, Told, PlayingOn

-----------------------------------------------------------------------------
(* Every step keeps the invariant.                                            *)

(* A stream that starts is STARTED before its device is registered.           *)
LEMMA startKeeps ==
    ASSUME AllGuarded, Inv, NEW s \in Streams, start(s), UNCHANGED deviceOf
    PROVE  Inv'
<1> USE EchoAssumption DEF AllGuarded, Inv, start, Quiet, Types, Op, Streams,
        Exclusive, Busy
<1>1. Types'
    BY DEF Remembers
<1>2. Exclusive'
    OBVIOUS
<1>3. \A q \in Streams : Remembers(q)'
    BY DEF Remembers, Placed
<1>4. \A q \in Streams : Placed(q)'
    BY DEF Remembers, Placed
<1>5. \A r \in Rx : Playing(r)'
    BY DEF Playing, Remembers, Placed
<1>6. Agree'
    BY DEF Agree, Remembers, Placed, Counts, TurnsOn, TurnsOff
<1>7. \A t \in Tx \cap active_devices, r \in Rx : Told(t, r)' <=> Told(t, r)
    BY DEF Told, Remembers, Placed
<1>8. Counts'
    BY <1>7, CountsSame
<1> QED BY <1>1, <1>2, <1>3, <1>4, <1>5, <1>6, <1>8

(* A stream that stops takes mActiveStreamMutex before it deregisters.        *)
LEMMA stopKeeps ==
    ASSUME AllGuarded, Inv, NEW s \in Streams, stop(s), UNCHANGED deviceOf
    PROVE  Inv'
<1> USE EchoAssumption DEF AllGuarded, Inv, stop, Quiet, Types, Op, Streams,
        Exclusive, Busy
<1>1. Types'
    BY DEF Remembers
<1>2. Exclusive'
    OBVIOUS
<1>3. \A q \in Streams : Remembers(q)'
    BY DEF Remembers, Placed
<1>4. \A q \in Streams : Placed(q)'
    BY DEF Remembers, Placed
<1>5. \A r \in Rx : Playing(r)'
    BY DEF Playing, Remembers, Placed
<1>6. Agree'
    BY DEF Agree, Remembers, Placed, Counts, TurnsOn, TurnsOff
<1>7. \A t \in Tx \cap active_devices, r \in Rx : Told(t, r)' <=> Told(t, r)
    BY DEF Told, Remembers, Placed
<1>8. Counts'
    BY <1>7, CountsSame
<1> QED BY <1>1, <1>2, <1>3, <1>4, <1>5, <1>6, <1>8

(* registerDevice of a playback stream looks up the capture streams to tell.  *)
LEMMA RxRegisterKeeps ==
    ASSUME AllGuarded, Inv, NEW s \in Rx, RxRegister(s), UNCHANGED deviceOf
    PROVE  Inv'
<1> USE EchoAssumption DEF AllGuarded, Inv, RxRegister, Enter, MayEnter, Types, Op, Streams,
        Exclusive, Busy
<1>1. Types'
  <2> HIDE DEF Op
  <2>1. op'[s] = [op[s] EXCEPT !.at = "next", !.todo = Tx \cap active_devices]
      OBVIOUS
  <2>2. op[s] \in Op /\ Tx \cap active_devices \in SUBSET Tx
      OBVIOUS
  <2>3. op'[s] \in Op
      BY <2>1, <2>2, OpEnters
  <2>4. op' = [q \in Streams |-> IF q = s THEN op'[s] ELSE op[q]]
      OBVIOUS
  <2>5. op' \in [Streams -> Op]
      BY <2>3, <2>4
  <2> QED BY <2>5
<1>2. Exclusive'
    OBVIOUS
<1>3. \A q \in Streams : Remembers(q)'
    BY DEF Remembers, Placed
<1>4. \A q \in Streams : Placed(q)'
    BY DEF Remembers, Placed
<1>5. \A r \in Rx : Playing(r)'
    BY DEF Playing, Remembers, Placed
<1>6. Agree'
    BY DEF Agree, Remembers, Placed, Counts, TurnsOn, TurnsOff
<1>7. \A t \in Tx \cap active_devices, r \in Rx : Told(t, r)' <=> Told(t, r)
    BY DEF Told, Remembers, Placed
<1>8. Counts'
    BY <1>7, CountsSame
<1> QED BY <1>1, <1>2, <1>3, <1>4, <1>5, <1>6, <1>8

(* deregisterDevice of a playback stream looks up the capture streams to tell. *)
LEMMA RxDeregisterKeeps ==
    ASSUME AllGuarded, Inv, NEW s \in Rx, RxDeregister(s), UNCHANGED deviceOf
    PROVE  Inv'
<1> USE EchoAssumption DEF AllGuarded, Inv, RxDeregister, Types, Op, Streams,
        Exclusive, Busy
<1>1. Types'
  <2> HIDE DEF Op
  <2>1. op'[s] = [op[s] EXCEPT !.at = "next", !.todo = Tx \cap active_devices]
      OBVIOUS
  <2>2. op[s] \in Op /\ Tx \cap active_devices \in SUBSET Tx
      OBVIOUS
  <2>3. op'[s] \in Op
      BY <2>1, <2>2, OpEnters
  <2>4. op' = [q \in Streams |-> IF q = s THEN op'[s] ELSE op[q]]
      OBVIOUS
  <2>5. op' \in [Streams -> Op]
      BY <2>3, <2>4
  <2> QED BY <2>5
<1>2. Exclusive'
    OBVIOUS
<1>3. \A q \in Streams : Remembers(q)'
    BY DEF Remembers, Placed
<1>4. \A q \in Streams : Placed(q)'
    BY DEF Remembers, Placed
<1>5. \A r \in Rx : Playing(r)'
    BY DEF Playing, Remembers, Placed
<1>6. Agree'
    BY DEF Agree, Remembers, Placed, Counts, TurnsOn, TurnsOff
<1>7. \A t \in Tx \cap active_devices, r \in Rx : Told(t, r)' <=> Told(t, r)
    BY DEF Told, Remembers, Placed
<1>8. Counts'
    BY <1>7, CountsSame
<1> QED BY <1>1, <1>2, <1>3, <1>4, <1>5, <1>6, <1>8

(* checkandEnableECForRXStream_l counts the stream for one capture stream.    *)
LEMMA RxNextKeeps ==
    ASSUME AllGuarded, Inv, NEW s \in Rx, RxNext(s), UNCHANGED deviceOf
    PROVE  Inv'
<1>0. PICK d \in RxDevices : d = deviceOf[s]
    BY DEF Inv, Types
<1>1. PICK t \in op[s].todo :
         LET n == ec_ref_count_map[t][d]
             call == IF op[s].on THEN n = 0 ELSE n = 1
         IN  /\ t \in Tx
             /\ SetsCount(t, d, IF op[s].on THEN n + 1 ELSE Less(n))
             /\ Moves(s, IF call THEN "set" ELSE "next", op[s].todo \ {t}, t, d)
             /\ mResourceManagerMutex' = IF call THEN "none" ELSE s
    BY <1>0, RxNextDoes DEF Inv
<1> DEFINE n == ec_ref_count_map[t][d]
           call == IF op[s].on THEN n = 0 ELSE n = 1
<1>2. /\ op[s].at = "next" /\ mResourceManagerMutex = s /\ s \in Streams /\ s \notin Tx
      /\ UNCHANGED <<active_devices, started, ecRefDevId, mActiveStreamMutex, fails>>
    BY EchoAssumption DEF RxNext, Streams
<1>3. /\ t \in Tx /\ t \in active_devices /\ d \in RxDevices /\ n \in Nat
      /\ op[s].on \in BOOLEAN
    BY <1>1, <1>2 DEF Inv, Types, Op, Remembers
<1>4. Moves(s, IF call THEN "set" ELSE "next", op[s].todo \ {t}, t, d)
    BY <1>1
<1>5. SetsCount(t, d, IF op[s].on THEN n + 1 ELSE Less(n))
    BY <1>1
<1>6. Types'
    BY <1>1, <1>2, EchoAssumption DEF Inv, Streams, Moves, SetsCount, Types, Op
<1>7. Exclusive'
    BY <1>1, <1>2, EchoAssumption DEF Inv, Streams, Moves, Exclusive, Busy, Types, Op
<1>8. \A q \in Streams : Remembers(q)'
  <2>1. \A q \in Streams \ {s} : Remembers(q)'
      BY <1>2, <1>4 DEF Inv, Moves, Remembers
  <2>2. Remembers(s)'
    <3> HIDE DEF call, n
    <3> QED BY <1>0, <1>2, <1>3, <1>4 DEF Inv, Moves, Remembers
  <2> QED BY <2>1, <2>2
<1>9. (\A q \in Streams : Placed(q)') /\ \A r \in Rx : Playing(r)'
  <2> HIDE DEF call, n
  <2> QED BY <1>2, <1>3, <1>4 DEF Inv, Moves, Placed, Playing, Streams
<1>10. Counts'
  <2>1. \A u \in Tx, r \in Rx : u # t \/ r # s => (Told(u, r)' <=> Told(u, r))
    <3> HIDE DEF call, n
    <3> QED BY <1>2, <1>3, <1>4 DEF Moves, Told, Streams
  <2>2. IF op[s].on THEN Told(t, s)' /\ ~Told(t, s) ELSE Told(t, s) /\ ~Told(t, s)'
    <3> HIDE DEF call, n
    <3> QED BY <1>2, <1>3, <1>4 DEF Moves, Told
  <2>3. \A u \in Tx, e \in RxDevices : u # t \/ e # d => Known(u, e)' = Known(u, e)
      BY <1>0, <2>1 DEF Known
  <2>4. Known(t, d)' = IF op[s].on THEN Known(t, d) \cup {s} ELSE Known(t, d) \ {s}
      BY <1>0, <1>3, <2>1, <2>2 DEF Known
  <2>5. Known(t, d) \in SUBSET Rx /\ (s \in Known(t, d) <=> ~op[s].on)
      BY <1>0, <2>2 DEF Known
  <2>6. /\ IsFiniteSet(Known(t, d)) /\ Cardinality(Known(t, d)) \in Nat
        /\ s \in Known(t, d) => Cardinality(Known(t, d)) # 0
      BY <2>5, RxSets, FS_EmptySet
  <2>7. Cardinality(Known(t, d)') =
           IF op[s].on THEN Cardinality(Known(t, d)) + 1 ELSE Cardinality(Known(t, d)) - 1
    <3>1. CASE op[s].on
        BY <2>4, <2>5, <2>6, <3>1, FS_AddElement
    <3>2. CASE ~op[s].on
      <4>1. Known(t, d)' = Known(t, d) \ {s} /\ s \in Known(t, d)
          BY <2>4, <2>5, <3>2
      <4> QED BY <2>6, <3>2, <4>1, FS_RemoveElement
    <3> QED BY <3>1, <3>2
  <2>8. /\ n <= Cardinality(Known(t, d))
        /\ fails = 0 /\ OneDevice(d) => n = Cardinality(Known(t, d))
      BY <1>3 DEF Inv, Counts
  <2> DEFINE m == IF op[s].on THEN n + 1 ELSE Less(n)
  <2>9. /\ m \in Nat /\ m <= Cardinality(Known(t, d)')
        /\ fails = 0 /\ OneDevice(d) => m = Cardinality(Known(t, d)')
    <3> HIDE DEF n
    <3> QED BY <1>3, <2>5, <2>6, <2>7, <2>8 DEF Less
  <2> HIDE DEF m
  <2>10. SetsCount(t, d, m)
      BY <1>5 DEF m
  <2> SUFFICES ASSUME NEW u \in Tx, NEW e \in RxDevices
               PROVE  /\ ec_ref_count_map'[u][e] \in Nat
                      /\ ec_ref_count_map'[u][e] <= Cardinality(Known(u, e)')
                      /\ fails = 0 /\ OneDevice(e) /\ u \in active_devices
                            => ec_ref_count_map'[u][e] = Cardinality(Known(u, e)')
                      /\ u \notin active_devices => ec_ref_count_map'[u][e] = 0
      BY <1>2 DEF Counts, OneDevice
  <2> HIDE DEF n
  <2>11. CASE u = t /\ e = d
    <3>1. ec_ref_count_map'[u][e] = m /\ Known(u, e)' = Known(t, d)' /\ u \in active_devices
        BY <1>3, <2>10, <2>11 DEF SetsCount
    <3> QED BY <2>9, <2>11, <3>1
  <2>12. CASE u # t \/ e # d
      BY <2>3, <2>10, <2>12 DEF Inv, Counts, SetsCount
  <2> QED BY <2>11, <2>12
<1>11. Agree'
  <2>1. \A q \in Streams \ {s}, u \in Tx, e \in RxDevices :
           /\ ~TurnsOn(q, u, e)' /\ ~TurnsOff(q, u, e)'
           /\ ~TurnsOn(q, u, e) /\ ~TurnsOff(q, u, e)
      BY <1>2, <1>4 DEF Inv, Exclusive, Busy, Moves, TurnsOn, TurnsOff, Types
  <2>2. \A u \in Tx, e \in RxDevices : ~TurnsOn(s, u, e) /\ ~TurnsOff(s, u, e)
      BY <1>2 DEF TurnsOn, TurnsOff
  <2>3. \A u \in Tx, e \in RxDevices :
           /\ TurnsOn(s, u, e)' <=> op[s].on /\ n = 0 /\ u = t /\ e = d
           /\ TurnsOff(s, u, e)' <=> ~op[s].on /\ n = 1 /\ u = t /\ e = d
      BY <1>3, <1>4, EchoAssumption DEF Moves, TurnsOn, TurnsOff
  <2>4. \A u \in Tx, e \in RxDevices :
           /\ ec_ref_count_map[u][e] \in Nat
           /\ ec_ref_count_map[u][e] > 0 => ecRefDevId[u] = e
           /\ fails = 0 /\ ecRefDevId[u] = e => ec_ref_count_map[u][e] > 0
    <3>1. \A u \in Tx, e \in RxDevices : ec_ref_count_map[u][e] \in Nat
        BY DEF Inv, Counts
    <3> QED BY <2>1, <2>2, <3>1 DEF Inv, Agree
  <2> SUFFICES ASSUME NEW u \in Tx, NEW e \in RxDevices
               PROVE  /\ ec_ref_count_map'[u][e] > 0
                            => ecRefDevId[u] = e \/ TurnsOn(s, u, e)'
                      /\ fails = 0 /\ ecRefDevId[u] = e
                            => ec_ref_count_map'[u][e] > 0 \/ TurnsOff(s, u, e)'
                      /\ TurnsOn(s, u, e)' => ec_ref_count_map'[u][e] = 1
                      /\ TurnsOff(s, u, e)' => ec_ref_count_map'[u][e] = 0
    <3> HIDE DEF n
    <3> QED BY <1>2, <2>1 DEF Agree
  <2> QED BY <1>3, <1>5, <2>3, <2>4 DEF SetsCount, Less
<1> QED BY <1>6, <1>7, <1>8, <1>9, <1>10, <1>11 DEF Inv

(* checkandEnableECForTXStream_l counts the streams that play on one device.  *)
LEMMA TxRegisterKeeps ==
    ASSUME AllGuarded, Inv, NEW s \in Tx, TxRegister(s), UNCHANGED deviceOf
    PROVE  Inv'
<1>1. \/ /\ \A d \in RxDevices : PlayingOn(d) = {}
         /\ Moves(s, "next", op[s].todo, op[s].tx, op[s].rx)
         /\ mResourceManagerMutex' = s /\ UNCHANGED ec_ref_count_map
      \/ \E d \in RxDevices :
           /\ PlayingOn(d) # {}
           /\ Cardinality(PlayingOn(d)) \in Nat \ {0}
           /\ SetsCount(s, d, ec_ref_count_map[s][d] + Cardinality(PlayingOn(d)))
           /\ Moves(s, "set", op[s].todo, s, d)
           /\ UNCHANGED mResourceManagerMutex
    BY TxRegisterDoes DEF Inv
<1>2. /\ op[s].at = "register" /\ mResourceManagerMutex = "none"
      /\ mActiveStreamMutex = "none" /\ mActiveStreamMutex' = s
      /\ active_devices' = active_devices \cup {s} /\ s \in Streams /\ s \notin Rx
      /\ UNCHANGED <<started, ecRefDevId, fails>>
    BY EchoAssumption DEF TxRegister, MayEnter, AllGuarded, Streams
<1>3. Types'
    BY <1>1, <1>2 DEF Inv, Moves, SetsCount, Types
<1>4. Exclusive'
    BY <1>1, <1>2, EchoAssumption DEF Inv, Streams, Moves, Exclusive, Busy, Types
<1>5. \A q \in Streams : Remembers(q)'
    BY <1>1, <1>2 DEF Inv, Moves, Remembers, Types, Op, Streams
<1>6. (\A q \in Streams : Placed(q)') /\ \A r \in Rx : Playing(r)'
    BY <1>1, <1>2 DEF Inv, Streams, Moves, Placed, Playing, Remembers, Types, Op
<1>7. Counts'
  <2>0. /\ s \notin active_devices /\ \A d \in RxDevices : ec_ref_count_map[s][d] = 0
        /\ \A q \in Streams : op[q].at \in {"idle", "register"}
      BY <1>2, EchoAssumption DEF Inv, Placed, Counts, Exclusive, Busy, Types, Op, Streams
  <2>1. \A t \in Tx, r \in Rx : Told(t, r)' <=> Told(t, r)
      BY <1>1, <1>2 DEF Told, Moves, Streams
  <2>2. \A t \in Tx, d \in RxDevices : Known(t, d)' = Known(t, d)
      BY <2>1 DEF Known
  <2>3. \A d \in RxDevices : Known(s, d) = PlayingOn(d)
      BY <2>0, KnownPlays DEF Inv
  <2>4. \A d \in RxDevices : Cardinality(PlayingOn(d)) \in Nat
    <3>1. \A d \in RxDevices : PlayingOn(d) \in SUBSET Rx
        BY DEF PlayingOn
    <3> QED BY <3>1, RxSets
  <2> SUFFICES ASSUME NEW t \in Tx, NEW e \in RxDevices
               PROVE  /\ ec_ref_count_map'[t][e] \in Nat
                      /\ ec_ref_count_map'[t][e] <= Cardinality(Known(t, e))
                      /\ fails = 0 /\ OneDevice(e) /\ t \in active_devices'
                            => ec_ref_count_map'[t][e] = Cardinality(Known(t, e))
                      /\ t \notin active_devices' => ec_ref_count_map'[t][e] = 0
      BY <1>2, <2>2 DEF Counts, OneDevice
  <2>5. CASE t # s
      BY <1>1, <1>2, <2>5 DEF Inv, Counts, SetsCount
  <2>6. CASE t = s /\ \A d \in RxDevices : PlayingOn(d) = {}
      BY <1>1, <1>2, <2>0, <2>3, <2>6, FS_EmptySet
  <2>7. CASE t = s /\ ~\A d \in RxDevices : PlayingOn(d) = {}
    <3>1. PICK d \in RxDevices :
              /\ PlayingOn(d) # {}
              /\ SetsCount(s, d, ec_ref_count_map[s][d] + Cardinality(PlayingOn(d)))
        BY <1>1, <2>7
    <3>2. OneDevice(e) => e = d
        BY <3>1 DEF OneDevice, PlayingOn
    <3>3. ec_ref_count_map'[t][e] = IF e = d THEN Cardinality(PlayingOn(d)) ELSE 0
        BY <2>0, <2>4, <2>7, <3>1 DEF SetsCount
    <3> QED BY <1>2, <2>3, <2>4, <2>7, <3>2, <3>3
  <2> QED BY <2>5, <2>6, <2>7
<1>8. Agree'
    BY <1>1, <1>2, EchoAssumption DEF Inv, Streams, Moves, SetsCount, Agree, Remembers,
       Placed, Counts, TurnsOn, TurnsOff, Types, Op, Exclusive, Busy
<1> QED BY <1>3, <1>4, <1>5, <1>6, <1>7, <1>8 DEF Inv

(* A capture stream that leaves erases its counts.                            *)
LEMMA TxDeregisterKeeps ==
    ASSUME AllGuarded, Inv, NEW s \in Tx, TxDeregister(s), UNCHANGED deviceOf
    PROVE  Inv'
<1>1. /\ Moves(s, "set", op[s].todo, s, op[s].rx)
      /\ ec_ref_count_map' \in [Tx -> [RxDevices -> Nat]]
      /\ \A u \in Tx, e \in RxDevices : ec_ref_count_map'[u][e] =
             IF u = s THEN 0 ELSE ec_ref_count_map[u][e]
    BY TxDeregisterDoes DEF Inv
<1>2. /\ op[s].at = "deregister" /\ mResourceManagerMutex = "none"
      /\ active_devices' = active_devices \ {s} /\ s \in Streams /\ s \notin Rx
      /\ UNCHANGED <<started, ecRefDevId, mActiveStreamMutex, mResourceManagerMutex, fails>>
    BY EchoAssumption DEF TxDeregister, Streams
<1>3. Types'
    BY <1>1, <1>2 DEF Inv, Moves, Types
<1>4. Exclusive'
    BY <1>1, <1>2, EchoAssumption DEF Inv, Streams, Moves, Exclusive, Busy, Types
<1>5. \A q \in Streams : Remembers(q)'
    BY <1>1, <1>2 DEF Inv, Moves, Remembers, Types, Op, Exclusive, Busy, Streams
<1>6. (\A q \in Streams : Placed(q)') /\ \A r \in Rx : Playing(r)'
    BY <1>1, <1>2 DEF Inv, Streams, Moves, Placed, Playing, Remembers, Types, Op
<1>7. Counts'
  <2>1. \A t \in Tx, r \in Rx : Told(t, r)' <=> Told(t, r)
      BY <1>1, <1>2 DEF Told, Moves, Streams
  <2>2. \A t \in Tx, d \in RxDevices :
           Known(t, d)' = Known(t, d) /\ Cardinality(Known(t, d)) \in Nat
    <3>1. \A t \in Tx, d \in RxDevices :
             Known(t, d)' = Known(t, d) /\ Known(t, d) \in SUBSET Rx
        BY <2>1 DEF Known
    <3> QED BY <3>1, RxSets
  <2> QED BY <1>1, <1>2, <2>2 DEF Inv, Counts, OneDevice
<1>8. Agree'
    BY <1>1, <1>2, EchoAssumption DEF Inv, Streams, Moves, Agree, Remembers, Counts,
       TurnsOn, TurnsOff, Types, Op, Exclusive, Busy
<1> QED BY <1>3, <1>4, <1>5, <1>6, <1>7, <1>8 DEF Inv

(* setECRef of a session that has nothing to do.                              *)
LEMMA setECRefSkipsKeeps ==
    ASSUME AllGuarded, Inv, NEW s \in Streams, setECRefSkips(s), UNCHANGED deviceOf
    PROVE  Inv'
<1> USE EchoAssumption DEF AllGuarded, Inv, setECRefSkips, Answered, Types, Op, Streams,
        Exclusive, Busy
<1>1. Types'
    BY DEF Remembers
<1>2. Exclusive'
    OBVIOUS
<1>3. \A q \in Streams : Remembers(q)'
    BY DEF Remembers, Placed
<1>4. \A q \in Streams : Placed(q)'
    BY DEF Remembers, Placed
<1>5. \A r \in Rx : Playing(r)'
    BY DEF Playing, Remembers, Placed
<1>6. Agree'
    BY DEF Agree, Remembers, Placed, Counts, TurnsOn, TurnsOff
<1>7. \A t \in Tx \cap active_devices, r \in Rx : Told(t, r)' <=> Told(t, r)
    BY DEF Told, Remembers, Placed
<1>8. Counts'
    BY <1>7, CountsSame
<1> QED BY <1>1, <1>2, <1>3, <1>4, <1>5, <1>6, <1>8

(* setECRef takes the reference away, or the mixer refuses.                   *)
LEMMA setECRefOffKeeps ==
    ASSUME AllGuarded, Inv, NEW s \in Streams, setECRefOff(s), UNCHANGED deviceOf
    PROVE  Inv'
<1> USE EchoAssumption DEF AllGuarded, Inv, setECRefOff, Answered, Types, Op, Streams,
        Exclusive, Busy
<1>1. Types'
    BY DEF Remembers
<1>2. Exclusive'
    OBVIOUS
<1>3. \A q \in Streams : Remembers(q)'
    BY DEF Remembers, Placed
<1>4. \A q \in Streams : Placed(q)'
    BY DEF Remembers, Placed
<1>5. \A r \in Rx : Playing(r)'
    BY DEF Playing, Remembers, Placed
<1>6. Agree'
    BY DEF Agree, Remembers, Placed, Counts, TurnsOn, TurnsOff
<1>7. \A t \in Tx \cap active_devices, r \in Rx : Told(t, r)' <=> Told(t, r)
    BY DEF Told, Remembers, Placed
<1>8. Counts'
    BY <1>7, CountsSame
<1> QED BY <1>1, <1>2, <1>3, <1>4, <1>5, <1>6, <1>8

(* setECRef replaces the reference, or the mixer refuses.                     *)
LEMMA setECRefOnKeeps ==
    ASSUME AllGuarded, Inv, NEW s \in Streams, setECRefOn(s), UNCHANGED deviceOf
    PROVE  Inv'
<1> DEFINE t == op[s].tx
           d == op[s].rx
           n == ec_ref_count_map[t][d]
           Kept(m) == \A u \in Tx, e \in RxDevices : ec_ref_count_map'[u][e] =
                         CASE u = t /\ e = ecRefDevId[t] -> 0
                           [] u = t /\ e = d -> m
                           [] OTHER -> ec_ref_count_map[u][e]
<1>0. /\ op[s].at = "set" /\ op[s].on /\ t \in Tx /\ d \in RxDevices
      /\ s \in Rx => d = deviceOf[s]
    BY DEF setECRefOn, Inv, Types, Op, Remembers, Streams
<1>1. /\ Moves(s, "next", op[s].todo, "none", None)
      /\ ec_ref_count_map' \in [Tx -> [RxDevices -> Nat]]
      /\ ecRefDevId[t] # d
      /\ \/ /\ ecRefDevId' = [ecRefDevId EXCEPT ![t] = d]
            /\ fails' = fails /\ Kept(n)
         \/ /\ ecRefDevId' = ecRefDevId
            /\ fails < MaxFails /\ fails' = fails + 1
            /\ Kept(IF s \in Rx THEN Less(n) ELSE 0)
    BY <1>0, SetOnDoes DEF Inv
<1>2. /\ mResourceManagerMutex = "none" /\ mResourceManagerMutex' = s
      /\ UNCHANGED <<active_devices, started, mActiveStreamMutex>>
    BY DEF setECRefOn, Answered
<1>3. TurnsOn(s, t, d)
    BY <1>0 DEF TurnsOn
<1>4. n > 0 /\ n \in Nat /\ (s \in Rx => n = 1)
    BY <1>0, <1>3 DEF Inv, Agree, Counts
<1> HIDE DEF t, d, n
<1>5. Types'
  <2>1. /\ op' \in [Streams -> Op] /\ ecRefDevId' \in [Tx -> RxDevices \cup {None}]
        /\ ec_ref_count_map' \in [Tx -> [RxDevices -> Nat]]
      BY <1>0, <1>1 DEF Moves, Inv, Types
  <2>2. fails' \in 0..MaxFails
      BY <1>1, EchoAssumption DEF Inv, Types
  <2> QED BY <1>2, <2>1, <2>2 DEF Inv, Types
<1>6. Moves(s, "next", op[s].todo, "none", None)
    BY <1>1
<1>7. Exclusive'
    BY <1>0, <1>2, <1>6, EchoAssumption DEF Inv, Streams, Moves, Exclusive, Busy, Types
<1>8. \A q \in Streams : Remembers(q)'
    BY <1>0, <1>2, <1>6 DEF Inv, Streams, Moves, Remembers
<1>9. (\A q \in Streams : Placed(q)') /\ \A r \in Rx : Playing(r)'
  <2>1. /\ op'[s].at = "next" /\ op'[s].on = op[s].on
        /\ \A q \in Streams \ {s} : op'[q] = op[q]
      BY <1>6 DEF Moves
  <2>2. \A q \in Streams : Placed(q)'
      BY <1>0, <1>2, <2>1 DEF Inv, Placed
  <2>3. \A r \in Rx : r \in Streams
      BY DEF Streams
  <2>4. \A r \in Rx : Playing(r)'
      BY <1>0, <1>2, <2>1, <2>3 DEF Inv, Playing
  <2> QED BY <2>2, <2>4
<1>10. Counts'
  <2>1. \A u \in Tx, r \in Rx : Told(u, r)' <=> Told(u, r)
      BY <1>0, <1>2, <1>6 DEF Told, Moves, Streams
  <2>2. \A u \in Tx, e \in RxDevices : Known(u, e)' = Known(u, e)
      BY <2>1 DEF Known
  <2>3. \A u \in Tx, e \in RxDevices : Cardinality(Known(u, e)) \in Nat
    <3>1. \A u \in Tx, e \in RxDevices : Known(u, e) \in SUBSET Rx
        BY DEF Known
    <3> QED BY <3>1, RxSets
  <2>4. \A e \in RxDevices : OneDevice(e) => e = d
    <3>1. n <= Cardinality(Known(t, d))
        BY <1>0 DEF Inv, Counts, n
    <3>2. Known(t, d) # {}
        BY <1>4, <3>1, FS_EmptySet
    <3> QED BY <3>2 DEF OneDevice, Known
  <2>5. \A u \in Tx, e \in RxDevices :
           /\ ec_ref_count_map'[u][e] \in Nat
           /\ ec_ref_count_map'[u][e] <= ec_ref_count_map[u][e]
           /\ fails' = 0 /\ OneDevice(e) => ec_ref_count_map'[u][e] = ec_ref_count_map[u][e]
    <3>1. \A u \in Tx, e \in RxDevices : ec_ref_count_map[u][e] \in Nat
        BY DEF Inv, Counts
    <3>2. CASE fails' = fails /\ Kept(n)
        BY <1>1, <2>4, <3>1, <3>2 DEF n
    <3>3. CASE fails' = fails + 1 /\ Kept(IF s \in Rx THEN Less(n) ELSE 0)
      <4>1. fails' # 0
          BY <3>3 DEF Inv, Types
      <4>2. (IF s \in Rx THEN Less(n) ELSE 0) = 0
          BY <1>4 DEF Less
      <4> QED BY <3>1, <3>3, <4>1, <4>2
    <3> QED BY <1>1, <3>2, <3>3
  <2>6. fails' = 0 => fails = 0
      BY <1>1 DEF Inv, Types
  <2> QED BY <1>2, <2>2, <2>3, <2>5, <2>6 DEF Inv, Counts, OneDevice
<1>11. Agree'
  <2>1. \A q \in Streams, u \in Tx, e \in RxDevices :
           ~TurnsOn(q, u, e)' /\ ~TurnsOff(q, u, e)'
      BY <1>0, <1>6 DEF Inv, Exclusive, Busy, Moves, TurnsOn, TurnsOff, Types
  <2>2. \A q \in Streams, u \in Tx, e \in RxDevices :
           ~TurnsOff(q, u, e) /\ (TurnsOn(q, u, e) => q = s /\ u = t /\ e = d)
      BY <1>0 DEF Inv, Exclusive, Busy, TurnsOn, TurnsOff, t, d
  <2>3. \A u \in Tx, e \in RxDevices :
           /\ ec_ref_count_map[u][e] \in Nat
           /\ ec_ref_count_map[u][e] > 0 => ecRefDevId[u] = e \/ (u = t /\ e = d)
           /\ fails = 0 /\ ecRefDevId[u] = e => ec_ref_count_map[u][e] > 0
    <3>1. \A u \in Tx, e \in RxDevices : ec_ref_count_map[u][e] \in Nat
        BY DEF Inv, Counts
    <3> QED BY <2>2, <3>1 DEF Inv, Agree
  <2> SUFFICES ASSUME NEW u \in Tx, NEW e \in RxDevices
               PROVE  /\ ec_ref_count_map'[u][e] > 0 => ecRefDevId'[u] = e
                      /\ fails' = 0 /\ ecRefDevId'[u] = e => ec_ref_count_map'[u][e] > 0
      BY <2>1 DEF Agree
  <2>4. CASE fails' = fails /\ Kept(n) /\ ecRefDevId' = [ecRefDevId EXCEPT ![t] = d]
    <3>1. ecRefDevId'[u] = IF u = t THEN d ELSE ecRefDevId[u]
        BY <1>0, <2>4 DEF Inv, Types
    <3> QED BY <1>0, <1>1, <1>4, <2>3, <2>4, <3>1
  <2>5. CASE /\ fails' = fails + 1 /\ Kept(IF s \in Rx THEN Less(n) ELSE 0)
             /\ ecRefDevId' = ecRefDevId
    <3>1. (IF s \in Rx THEN Less(n) ELSE 0) = 0
        BY <1>4 DEF Less
    <3>2. fails' # 0
        BY <2>5 DEF Inv, Types
    <3> QED BY <1>1, <2>3, <2>5, <3>1, <3>2
  <2> QED BY <1>1, <2>4, <2>5
<1> QED BY <1>5, <1>7, <1>8, <1>9, <1>10, <1>11 DEF Inv

(* The registration is done and lets both locks go.                           *)
LEMMA ReturnKeeps ==
    ASSUME AllGuarded, Inv, NEW s \in Streams, Return(s), UNCHANGED deviceOf
    PROVE  Inv'
<1> USE EchoAssumption DEF AllGuarded, Inv, Return, Quiet, Types, Op, Streams,
        Exclusive, Busy
<1>1. Types'
    BY DEF Remembers
<1>2. Exclusive'
    OBVIOUS
<1>3. \A q \in Streams : Remembers(q)'
    BY DEF Remembers, Placed
<1>4. \A q \in Streams : Placed(q)'
    BY DEF Remembers, Placed
<1>5. \A r \in Rx : Playing(r)'
    BY DEF Playing, Remembers, Placed
<1>6. Agree'
    BY DEF Agree, Remembers, Placed, Counts, TurnsOn, TurnsOff
<1>7. \A t \in Tx \cap active_devices, r \in Rx : Told(t, r)' <=> Told(t, r)
    BY DEF Told, Remembers, Placed
<1>8. Counts'
    BY <1>7, CountsSame
<1> QED BY <1>1, <1>2, <1>3, <1>4, <1>5, <1>6, <1>8

-----------------------------------------------------------------------------
(* Before anything starts nothing is counted and no session has a reference.  *)
LEMMA InvInit ==
    ASSUME Init
    PROVE  Inv
<1> USE EchoAssumption DEF Init, Quiet
<1>1. Types
    BY DEF Types, Op
<1>2. Exclusive
    BY DEF Exclusive, Busy
<1>3. \A s \in Streams : Remembers(s) /\ Placed(s)
    BY DEF Remembers, Placed
<1>4. \A r \in Rx : Playing(r)
    BY DEF Playing, Streams
<1>5. Counts
  <2> SUFFICES ASSUME NEW t \in Tx, NEW d \in RxDevices
               PROVE  0 <= Cardinality(Known(t, d))
      BY DEF Counts
  <2>1. Known(t, d) \in SUBSET Rx
      BY DEF Known
  <2> QED BY <2>1, RxSets
<1>6. Agree
    BY DEF Agree, TurnsOn, TurnsOff
<1> QED BY <1>1, <1>2, <1>3, <1>4, <1>5, <1>6 DEF Inv

(* A step that changes nothing.                                               *)
LEMMA StutterKeeps ==
    ASSUME Inv, UNCHANGED vars
    PROVE  Inv'
<1>1. Types' /\ Exclusive' /\ \A s \in Streams : Remembers(s)' /\ Placed(s)'
    BY DEF vars, Inv, Types, Exclusive, Remembers, Placed
<1>2. \A r \in Rx : Playing(r)'
    BY DEF vars, Inv, Playing
<1>3. Counts'
  <2>1. \A t \in Tx \cap active_devices, r \in Rx : Told(t, r)' <=> Told(t, r)
      BY DEF vars, Told
  <2> QED BY <2>1, CountsSame DEF vars, Inv
<1>4. Agree'
    BY DEF vars, Inv, Agree, TurnsOn, TurnsOff
<1> QED BY <1>1, <1>2, <1>3, <1>4 DEF Inv

(* Every step of the specification keeps the invariant.                       *)
LEMMA InvNext ==
    ASSUME AllGuarded, Inv, [Next]_vars
    PROVE  Inv'
<1>1. CASE Next
  <2>1. UNCHANGED deviceOf
      BY <1>1 DEF Next
  <2>2. ASSUME NEW s \in Streams, start(s) \/ stop(s) \/ Return(s) PROVE Inv'
      BY <2>1, <2>2, startKeeps, stopKeeps, ReturnKeeps
  <2>3. ASSUME NEW s \in Streams, Register(s) PROVE Inv'
      BY <2>1, <2>3, RxRegisterKeeps, TxRegisterKeeps DEF Register
  <2>4. ASSUME NEW s \in Streams, Deregister(s) PROVE Inv'
      BY <2>1, <2>4, RxDeregisterKeeps, TxDeregisterKeeps DEF Deregister
  <2>5. ASSUME NEW s \in Streams, setECRef(s) PROVE Inv'
      BY <2>1, <2>5, setECRefSkipsKeeps, setECRefOffKeeps, setECRefOnKeeps DEF setECRef
  <2>6. ASSUME NEW r \in Rx, RxNext(r) PROVE Inv'
      BY <2>1, <2>6, RxNextKeeps
  <2> QED BY <1>1, <2>2, <2>3, <2>4, <2>5, <2>6 DEF Next
<1>2. CASE UNCHANGED vars
    BY <1>2, StutterKeeps
<1> QED BY <1>1, <1>2

(* Every state of a system in which all streams register under                *)
(* mActiveStreamMutex satisfies the invariant (registerDevice,                *)
(* deregisterDevice, setECRef).                                               *)
THEOREM Invariant ==
    ASSUME AllGuarded
    PROVE  Spec => []Inv
BY InvInit, InvNext, PTL DEF Spec

(* Every value the echo reference bookkeeping keeps has its type; in          *)
(* particular no count of ec_ref_count_map ever exceeds the number of         *)
(* playback streams (updateECDeviceMap adds and takes away in steps of its    *)
(* own).                                                                      *)
THEOREM TypeCorrect ==
    ASSUME AllGuarded
    PROVE  Spec => []TypeOK
<1>1. ASSUME Inv PROVE TypeOK
  <2>1. ASSUME NEW t \in Tx, NEW d \in RxDevices
        PROVE  ec_ref_count_map[t][d] \in 0..Cardinality(Rx)
    <3>1. Known(t, d) \in SUBSET Rx
        BY DEF Known
    <3>2. /\ Cardinality(Known(t, d)) \in Nat
          /\ Cardinality(Known(t, d)) <= Cardinality(Rx)
        BY <3>1, RxSets
    <3>3. Cardinality(Rx) \in Nat
        BY RxSets
    <3> QED BY <1>1, <3>2, <3>3 DEF Inv, Counts
  <2>2. ec_ref_count_map \in [Tx -> [RxDevices -> 0..Cardinality(Rx)]]
      BY <1>1, <2>1 DEF Inv, Types
  <2> QED BY <1>1, <2>2 DEF Inv, Types, Op, TypeOK
<1> QED BY <1>1, Invariant, PTL

(* Once no registration is under way the counts of the resource manager and   *)
(* the references of the sessions say the same: a device that is counted is   *)
(* the one the session cancels, and a capture stream that stopped leaves      *)
(* neither a count nor a reference behind.                                    *)
THEOREM CountsMatchSessions ==
    ASSUME AllGuarded
    PROVE  Spec => []MapMatchesSession
<1>1. ASSUME Inv PROVE MapMatchesSession
  <2>1. ASSUME Settled, NEW t \in Tx, NEW d \in RxDevices
        PROVE  /\ ec_ref_count_map[t][d] > 0 => ecRefDevId[t] = d
               /\ fails = 0 /\ ecRefDevId[t] = d => ec_ref_count_map[t][d] > 0
    <3>1. \A s \in Streams : ~TurnsOn(s, t, d) /\ ~TurnsOff(s, t, d)
        BY <2>1 DEF Settled, TurnsOn, TurnsOff
    <3> QED BY <1>1, <3>1 DEF Inv, Agree
  <2>2. ASSUME NEW t \in Tx, op[t].at = "idle", t \notin active_devices
        PROVE  /\ \A d \in RxDevices : ec_ref_count_map[t][d] = 0
               /\ fails = 0 => ecRefDevId[t] = None
    <3>1. \A d \in RxDevices : ec_ref_count_map[t][d] = 0
        BY <1>1, <2>2 DEF Inv, Counts
    <3>2. \A s \in Streams : op[s].at = "set" => op[s].tx # t
        BY <1>1, <2>2 DEF Inv, Remembers, Streams
    <3>3. \A d \in RxDevices, s \in Streams : ~TurnsOff(s, t, d)
        BY <3>2 DEF TurnsOff
    <3>4. ASSUME fails = 0, NEW d \in RxDevices PROVE ecRefDevId[t] # d
      <4>1. fails = 0 /\ ecRefDevId[t] = d
              => ec_ref_count_map[t][d] > 0 \/ \E s \in Streams : TurnsOff(s, t, d)
          BY <1>1 DEF Inv, Agree
      <4> QED BY <3>1, <3>3, <3>4, <4>1
    <3>5. ecRefDevId[t] \in RxDevices \cup {None}
        BY <1>1 DEF Inv, Types
    <3> QED BY <3>1, <3>4, <3>5
  <2> QED BY <2>1, <2>2 DEF MapMatchesSession
<1> QED BY <1>1, Invariant, PTL

(* While all playback is on one device and the mixer refuses nothing, every   *)
(* running capture stream cancels that device and counts every stream that    *)
(* plays on it, whichever of them registered first.                           *)
THEOREM PlaybackIsCancelled ==
    ASSUME AllGuarded
    PROVE  Spec => []PlaybackCancelled
<1>1. ASSUME Inv PROVE PlaybackCancelled
  <2> SUFFICES ASSUME Settled, fails = 0, NEW t \in Tx \cap active_devices,
                      NEW d \in RxDevices, OneDevice(d)
               PROVE  /\ ec_ref_count_map[t][d] = Cardinality(PlayingOn(d))
                      /\ PlayingOn(d) # {} => ecRefDevId[t] = d
      BY DEF PlaybackCancelled, OneDevice
  <2>1. Known(t, d) = PlayingOn(d)
      BY <1>1, KnownPlays DEF Inv, Settled
  <2>2. ec_ref_count_map[t][d] = Cardinality(PlayingOn(d))
      BY <1>1, <2>1 DEF Inv, Counts
  <2>3. ASSUME PlayingOn(d) # {} PROVE ecRefDevId[t] = d
    <3>1. PlayingOn(d) \in SUBSET Rx
        BY DEF PlayingOn
    <3>2. Cardinality(PlayingOn(d)) \in Nat \ {0}
        BY <2>3, <3>1, RxSets, FS_EmptySet
    <3>3. \A s \in Streams : ~TurnsOn(s, t, d)
        BY DEF Settled, TurnsOn
    <3>4. ec_ref_count_map[t][d] > 0
              => ecRefDevId[t] = d \/ \E s \in Streams : TurnsOn(s, t, d)
        BY <1>1 DEF Inv, Agree
    <3> QED BY <2>2, <3>2, <3>3, <3>4
  <2> QED BY <2>2, <2>3
<1> QED BY <1>1, Invariant, PTL

=============================================================================
