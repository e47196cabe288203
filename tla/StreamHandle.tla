---------------------------- MODULE StreamHandle ----------------------------
(***************************************************************************)
(* The life of a stream handle: pal_stream_open, pal_stream_close, every   *)
(* API call that counts itself in the stream's user counter                *)
(* (pal_stream_start, _stop, _set_volume, _drain, the mixer event          *)
(* callback, ...) and the SSR worker that walks mActiveStreams, all        *)
(* synchronised by mActiveStreamMutex, mActiveStreamUserCounter and the    *)
(* per-stream semaphore mInUse.                                            *)
(*                                                                         *)
(* A handle is the address of a Stream object: it can be handed out again  *)
(* once the object is deleted, and a caller may still hold a stale one.    *)
(* What a call does to the stream is left out here (see StreamPCM).        *)
(* mActiveStreams is kept as a set, so the SSR worker may visit it in any  *)
(* order; a constructor registers its object and a destructor deregisters  *)
(* it, so membership also says that the object exists.                     *)
(***************************************************************************)
EXTENDS Naturals, FiniteSets

CONSTANTS
    Handle,     \* addresses of Stream objects
    Client,     \* threads calling the PAL API, and the mixer event thread
    Ssr,        \* the thread running ssrHandlingLoop
    None        \* "no thread" and "no handle"

ASSUME ClientAssumption == /\ IsFiniteSet(Client)
                           /\ Ssr \notin Client
                           /\ None \notin Client \cup {Ssr}
                           /\ None \notin Handle

Thread == Client \cup {Ssr}

VARIABLES
    activeStreams,  \* mActiveStreams
    entry,          \* the keys of mActiveStreamUserCounter
    count,          \* count[h]: pair.first of that entry
    active,         \* active[h]: pair.second of that entry
    mInUse,         \* mInUse[h]: value of the semaphore of the stream
    mutex,          \* holder of mActiveStreamMutex
    pc,             \* pc[t]: what thread t does next
    arg,            \* arg[t]: the handle it does it to
    unvisited       \* the streams the SSR round has still to visit

vars == <<activeStreams, entry, count, active, mInUse, mutex, pc, arg,
          unvisited>>
counterVars == <<entry, count, active, mInUse>>

ClientPC == {"idle", "open", "increase", "inside", "close", "semwait",
             "erase", "destroy"}
SsrPC    == {"idle", "walk", "handler", "unlocked", "handled"}

(* A thread that is inside a call of Pal.cpp, or inside a handler of the   *)
(* SSR round, always has a handle to work on.                              *)
TypeOK ==
    /\ activeStreams \in SUBSET Handle
    /\ entry \in SUBSET Handle
    /\ count \in [Handle -> Nat]
    /\ active \in [Handle -> BOOLEAN]
    /\ mInUse \in [Handle -> Nat]
    /\ mutex \in Thread \cup {None}
    /\ pc \in [Thread -> ClientPC \cup SsrPC]
    /\ \A c \in Client : pc[c] \in ClientPC
    /\ pc[Ssr] \in SsrPC
    /\ arg \in [Thread -> Handle \cup {None}]
    /\ \A c \in Client : pc[c] # "idle" => arg[c] \in Handle
    /\ pc[Ssr] \notin {"idle", "walk"} => arg[Ssr] \in Handle
    /\ unvisited \in SUBSET Handle

Init ==
    /\ activeStreams = {}
    /\ entry = {}
    /\ count = [h \in Handle |-> 0]
    /\ active = [h \in Handle |-> FALSE]
    /\ mInUse = [h \in Handle |-> 0]
    /\ mutex = None
    /\ pc = [t \in Thread |-> "idle"]
    /\ arg = [t \in Thread |-> None]
    /\ unvisited = {}

-----------------------------------------------------------------------------
(* Moving a thread from one point of its code to the next.                 *)

Goto(t, from, to, h) ==
    /\ pc[t] = from
    /\ pc' = [pc EXCEPT ![t] = to]
    /\ arg' = [arg EXCEPT ![t] = h]

isActiveStream(h) == h \in activeStreams

(* increaseStreamUserCounter, called with mActiveStreamMutex held: the     *)
(* first user takes the semaphore, and waits for it with the mutex held.   *)
CanUse(h) == h \in entry /\ active[h]

increaseOnlyFirst(h) ==     \* faulty variant: later users are not counted
    /\ CanUse(h)
    /\ IF count[h] = 0
          THEN /\ mInUse[h] > 0
               /\ mInUse' = [mInUse EXCEPT ![h] = @ - 1]
          ELSE UNCHANGED mInUse
    /\ count' = [count EXCEPT ![h] = 1]
    /\ UNCHANGED <<entry, active>>

increaseStreamUserCounter(h) ==
    /\ CanUse(h)
    /\ IF count[h] = 0
          THEN /\ mInUse[h] > 0
               /\ mInUse' = [mInUse EXCEPT ![h] = @ - 1]
          ELSE UNCHANGED mInUse
    /\ count' = [count EXCEPT ![h] = @ + 1]
    /\ UNCHANGED <<entry, active>>

(* decreaseStreamUserCounter: the last user posts the semaphore; an entry  *)
(* that is gone, or a counter that is 0 already, is only logged.           *)
decreaseNoPost(h) ==        \* faulty variant: the last user does not post
    IF h \in entry /\ count[h] > 0
       THEN /\ count' = [count EXCEPT ![h] = @ - 1]
            /\ UNCHANGED <<entry, active, mInUse>>
       ELSE UNCHANGED counterVars

decreaseStreamUserCounter(h) ==
    IF h \in entry /\ count[h] > 0
       THEN /\ count' = [count EXCEPT ![h] = @ - 1]
            /\ mInUse' = IF count[h] = 1
                            THEN [mInUse EXCEPT ![h] = @ + 1]
                            ELSE mInUse
            /\ UNCHANGED <<entry, active>>
       ELSE UNCHANGED counterVars

-----------------------------------------------------------------------------
(* pal_stream_open *)

(* Stream::create: the constructor registers the new object.               *)
OpenCreate(c, h) ==
    /\ mutex = None
    /\ ~isActiveStream(h)
    /\ Goto(c, "idle", "open", h)
    /\ activeStreams' = activeStreams \cup {h}
    \* the round under way comes to an element that is appended
    /\ unvisited' = IF pc[Ssr] = "idle" THEN unvisited ELSE unvisited \cup {h}
    /\ UNCHANGED <<counterVars, mutex>>

(* s->open() succeeded: initStreamUserCounter, and the handle is returned.  *)
(* map::insert leaves an entry alone that is there already.                *)
OpenDone(c) ==
    LET h == arg[c] IN
    /\ mutex = None
    /\ Goto(c, "open", "idle", None)
    /\ entry' = entry \cup {h}
    /\ count' = IF h \in entry THEN count ELSE [count EXCEPT ![h] = 0]
    /\ active' = IF h \in entry THEN active ELSE [active EXCEPT ![h] = TRUE]
    /\ mInUse' = [mInUse EXCEPT ![h] = 1]
    /\ UNCHANGED <<activeStreams, mutex, unvisited>>

(* s->open() failed: the stream is closed and destroyed, with no entry.    *)
OpenFail(c) ==
    LET h == arg[c] IN
    /\ mutex = None
    /\ Goto(c, "open", "idle", None)
    /\ activeStreams' = activeStreams \ {h}
    /\ unvisited' = unvisited \ {h}
    /\ UNCHANGED <<counterVars, mutex>>

-----------------------------------------------------------------------------
(* Every API call that counts itself as a user of the stream, and          *)
(* Stream::mixerEventCallbackEntry.                                        *)

UserLock(c, h) ==
    /\ mutex = None
    /\ isActiveStream(h)
    /\ Goto(c, "idle", "increase", h)
    /\ mutex' = c
    /\ UNCHANGED <<activeStreams, counterVars, unvisited>>

(* The handle is not active: -EINVAL with no effect is a stutter, so only  *)
(* the counter can still turn the caller away.                             *)
UserRefusedNoUnlock(c) ==   \* faulty variant: early return with the mutex held
    /\ Goto(c, "increase", "idle", None)
    /\ ~CanUse(arg[c])
    /\ UNCHANGED <<activeStreams, counterVars, mutex, unvisited>>

UserRefused(c) ==
    /\ Goto(c, "increase", "idle", None)
    /\ ~CanUse(arg[c])
    /\ mutex' = None
    /\ UNCHANGED <<activeStreams, counterVars, unvisited>>

UserEnter(c) ==
    /\ Goto(c, "increase", "inside", arg[c])
    /\ increaseStreamUserCounter(arg[c])
    /\ mutex' = None
    /\ UNCHANGED <<activeStreams, unvisited>>

UserLeave(c) ==
    /\ mutex = None
    /\ Goto(c, "inside", "idle", None)
    /\ decreaseStreamUserCounter(arg[c])
    /\ UNCHANGED <<activeStreams, mutex, unvisited>>

-----------------------------------------------------------------------------
(* pal_stream_close *)

(* The handle is checked under the mutex; setCachedState and s->close()    *)
(* then run without being counted.                                         *)
CloseCheckLost(c, h) ==     \* faulty variant: the handle is never assigned to s
    /\ mutex = None
    /\ isActiveStream(h)
    /\ Goto(c, "idle", "close", None)
    /\ UNCHANGED <<activeStreams, counterVars, mutex, unvisited>>

CloseCheck(c, h) ==
    /\ mutex = None
    /\ isActiveStream(h)
    /\ Goto(c, "idle", "close", h)
    /\ UNCHANGED <<activeStreams, counterVars, mutex, unvisited>>

(* deactivateStreamUserCounter, up to the unlock.                          *)
CloseDeactivateKeep(c) ==   \* faulty variant: the entry stays active
    LET h == arg[c] IN
    /\ mutex = None
    /\ pc[c] = "close"
    /\ IF CanUse(h) THEN Goto(c, "close", "semwait", h)
                    ELSE Goto(c, "close", "idle", None)
    /\ UNCHANGED <<activeStreams, counterVars, mutex, unvisited>>

CloseDeactivate(c) ==
    LET h == arg[c] IN
    /\ mutex = None
    /\ pc[c] = "close"
    /\ IF CanUse(h)
          THEN /\ Goto(c, "close", "semwait", h)
               /\ active' = [active EXCEPT ![h] = FALSE]
          ELSE /\ Goto(c, "close", "idle", None)
               /\ UNCHANGED active
    /\ UNCHANGED <<activeStreams, entry, count, mInUse, mutex, unvisited>>

(* ... and waitStreamSmph, deinitStreamSmph, without the mutex.            *)
CloseNoWait(c) ==           \* faulty variant: the users are not waited for
    /\ Goto(c, "semwait", "erase", arg[c])
    /\ UNCHANGED <<activeStreams, counterVars, mutex, unvisited>>

CloseWait(c) ==
    LET h == arg[c] IN
    /\ Goto(c, "semwait", "erase", h)
    /\ mInUse[h] > 0
    /\ mInUse' = [mInUse EXCEPT ![h] = @ - 1]
    /\ UNCHANGED <<activeStreams, entry, count, active, mutex, unvisited>>

(* eraseStreamUserCounter *)
CloseErase(c) ==
    LET h == arg[c] IN
    /\ mutex = None
    /\ entry' = entry \ {h}
    /\ Goto(c, "erase", "destroy", h)
    /\ UNCHANGED <<activeStreams, count, active, mInUse, mutex, unvisited>>

(* Stream::destroy: the destructor deregisters the stream.                 *)
CloseDestroy(c) ==
    LET h == arg[c] IN
    /\ mutex = None
    /\ activeStreams' = activeStreams \ {h}
    /\ unvisited' = unvisited \ {h}
    /\ Goto(c, "destroy", "idle", None)
    /\ UNCHANGED <<counterVars, mutex>>

-----------------------------------------------------------------------------
(* ssrHandlingLoop: one round over mActiveStreams for a card state change. *)
(* The loop's iterator stands on arg[Ssr].                                 *)

SsrBegin ==
    /\ mutex = None
    /\ activeStreams # {}
    /\ Goto(Ssr, "idle", "walk", None)
    /\ mutex' = Ssr
    /\ unvisited' = activeStreams
    /\ UNCHANGED <<activeStreams, counterVars>>

(* A stream that no entry, or an inactive one, describes is skipped.       *)
SsrSkip(h) ==
    /\ h \in unvisited
    /\ ~CanUse(h)
    /\ Goto(Ssr, "walk", "walk", None)
    /\ unvisited' = unvisited \ {h}
    /\ UNCHANGED <<activeStreams, counterVars, mutex>>

SsrVisitUncounted(h) ==     \* faulty variant: the worker does not count itself
    /\ h \in unvisited
    /\ CanUse(h)
    /\ Goto(Ssr, "walk", "handler", h)
    /\ unvisited' = unvisited \ {h}
    /\ UNCHANGED <<activeStreams, counterVars, mutex>>

SsrVisit(h) ==
    /\ h \in unvisited
    /\ increaseStreamUserCounter(h)
    /\ Goto(Ssr, "walk", "handler", h)
    /\ unvisited' = unvisited \ {h}
    /\ UNCHANGED <<activeStreams, mutex>>

(* The handlers of a started stream give the mutex up while they stop or   *)
(* start it.                                                               *)
SsrUnlock ==
    /\ Goto(Ssr, "handler", "unlocked", arg[Ssr])
    /\ mutex' = None
    /\ UNCHANGED <<activeStreams, counterVars, unvisited>>

SsrRelock ==
    /\ mutex = None
    /\ Goto(Ssr, "unlocked", "handled", arg[Ssr])
    /\ mutex' = Ssr
    /\ UNCHANGED <<activeStreams, counterVars, unvisited>>

SsrLeave ==
    /\ \/ Goto(Ssr, "handler", "walk", None)
       \/ Goto(Ssr, "handled", "walk", None)
    /\ decreaseStreamUserCounter(arg[Ssr])
    /\ UNCHANGED <<activeStreams, mutex, unvisited>>

SsrEnd ==
    /\ unvisited = {}
    /\ Goto(Ssr, "walk", "idle", None)
    /\ mutex' = None
    /\ UNCHANGED <<activeStreams, counterVars, unvisited>>

-----------------------------------------------------------------------------
(* What a thread does once it is in a call, and what it may start.         *)
ClientStep(c) ==
    \/ OpenDone(c) \/ OpenFail(c)
    \/ UserRefused(c) \/ UserEnter(c) \/ UserLeave(c)
    \/ CloseDeactivate(c) \/ CloseWait(c) \/ CloseErase(c) \/ CloseDestroy(c)

ClientCall(c) ==
    \E h \in Handle : OpenCreate(c, h) \/ UserLock(c, h) \/ CloseCheck(c, h)

SsrStep ==
    \/ \E h \in Handle : SsrSkip(h) \/ SsrVisit(h)
    \/ SsrUnlock \/ SsrRelock \/ SsrLeave \/ SsrEnd

Next ==
    \/ \E c \in Client : ClientCall(c) \/ ClientStep(c)
    \/ SsrBegin
    \/ SsrStep

Spec == Init /\ [][Next]_vars

(* A call that was started goes on: operations return, a thread that waits *)
(* for the mutex gets it in the end, whoever else takes it in between.     *)
FairSpec == Spec /\ (\A c \in Client : SF_vars(ClientStep(c))) /\ SF_vars(SsrStep)

-----------------------------------------------------------------------------
(* Properties *)

UsingPC == {"inside", "handler", "unlocked", "handled"}
ClosingPC == {"semwait", "erase", "destroy"}

(* The threads between their increase and their decrease.                  *)
UsersOf(h) == {t \in Thread : pc[t] \in UsingPC /\ arg[t] = h}

(* No call that counted itself ever runs on a stream that pal_stream_close *)
(* has deleted, or that is past waiting for its users: whatever threads    *)
(* open, use, close and walk the same address.                             *)
NoUseAfterDestroy ==
    \A h \in Handle : UsersOf(h) # {} =>
        /\ h \in activeStreams
        /\ \A c \in Client : arg[c] = h => pc[c] \notin {"erase", "destroy"}

(* The counter of mActiveStreamUserCounter is the number of threads inside *)
(* a counted call, also after the address was freed and given out again.   *)
CounterExact ==
    \A h \in entry : count[h] = Cardinality(UsersOf(h))

(* waitStreamSmph is called with mActiveStreamMutex held when the counter  *)
(* is 0; the post that would wake it needs that mutex, so it must never    *)
(* have to wait.                                                           *)
HolderNeverBlocks ==
    \A h \in Handle : CanUse(h) /\ count[h] = 0 => mInUse[h] > 0

(* Of several pal_stream_close on one handle, at most one goes on to       *)
(* destroy the object.                                                     *)
OneDestroyer ==
    \A c, d \in Client :
        pc[c] \in ClosingPC /\ pc[d] \in ClosingPC /\ arg[c] = arg[d] => c = d

(* The element the SSR loop's iterator stands on is not erased from        *)
(* mActiveStreams while the handler has given the mutex up.                *)
IteratorValid ==
    pc[Ssr] \in UsingPC => arg[Ssr] \in activeStreams

(* A pal_stream_close that waits for the users of the stream returns.      *)
CloseReturns ==
    \A c \in Client : pc[c] = "semwait" ~> pc[c] = "idle"

(* The counter as the abstract contract of a handle.                       *)
Phase(h) ==
    IF h \notin activeStreams THEN "absent"
    ELSE IF CanUse(h) THEN "open"
    ELSE IF \E c \in Client : pc[c] = "open" /\ arg[c] = h THEN "opening"
    ELSE "closing"

Lifetime == INSTANCE HandleLifetime
                WITH phase <- [h \in Handle |-> Phase(h)],
                     users <- [h \in Handle |-> UsersOf(h)]

(* Every step of the counter, the semaphore and the SSR walk is a step of  *)
(* HandleLifetime or changes nothing that it can see.                      *)
ImplementsLifetime == Lifetime!Spec
=============================================================================
