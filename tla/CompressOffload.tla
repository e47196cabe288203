---------------------------- MODULE CompressOffload ----------------------------
(* A compressed playback stream (StreamCompress.cpp) with its session           *)
(* (SessionAlsaCompress.cpp): the client's threads, the thread of the session   *)
(* that waits for the driver and calls the client back (offloadThreadLoop), the *)
(* message queue between them, and the tear down of the stream by the SSR       *)
(* worker.  A step of a client or of the SSR worker is what runs under          *)
(* mStreamMutex; a step of the offload thread is what runs between two accesses *)
(* to what it shares.  The compress driver and the DSP are external.            *)
EXTENDS Naturals, Sequences, SequencesExt

CONSTANTS
    Clients,    \* threads of the client
    Gapless,    \* isGaplessFormat(audio_fmt)
    MaxWrites, MaxDrains,
    MaxControls,    \* calls of pause, resume, flush and stop
    MaxFaults   \* crashes of the DSP and failures of start

ASSUME CompressAssumption ==
    /\ "ssr" \notin Clients /\ "none" \notin Clients
    /\ Gapless \in BOOLEAN
    /\ {MaxWrites, MaxDrains, MaxControls, MaxFaults} \subseteq Nat

Threads == Clients \cup {"ssr"}
Lock == Threads \cup {"none"}

VARIABLES
    str,    \* StreamCompress: currentState, isPaused, mStreamMutex, registered
    pc,     \* where each thread is
    after,  \* where a thread goes on when stop() returns
    ses,    \* SessionAlsaCompress: compress, playback_started, command
    queue,  \* msg_queue_
    wk,     \* offloadThreadLoop: at, msg, ret, event_id, is_drain_called
    drv,    \* the compress driver: running, stopped, paused, full, broken by a crash,
            \* and the call the offload thread is in
    card,   \* ResourceManager: cardState, prevState, msgQ, mActiveStreamMutex; the DSP
    seen,   \* history: what the client is owed and what it was told
    used    \* calls and faults so far

vars == <<str, pc, after, ses, queue, wk, drv, card, seen, used>>

Commands == {"EXIT", "DRAIN", "PARTIAL_DRAIN", "WAIT_FOR_BUFFER", "ERROR"}
Events == {"WRITE_READY", "DRAIN_READY", "PARTIAL_DRAIN_READY", "ERROR"}

TypeOK ==
    /\ str \in [st : {"IDLE", "INIT", "OPENED", "STARTED", "PAUSED", "STOPPED"},
                isPaused : BOOLEAN, mutex : Lock, registered : BOOLEAN]
    /\ pc \in [Threads -> {"idle", "register", "stop", "stopping", "close",
                           "closing", "join", "down", "relock", "closed"}]
    /\ after \in [Threads -> {"idle", "close", "closing"}]
    /\ ses \in [compress : BOOLEAN, playback_started : BOOLEAN,
                command : Commands]
    /\ queue \in Seq(Commands)
    /\ wk \in [at : {"none", "idle", "popped", "call", "callback", "exited"},
               msg : Commands, ret : {"ok", "cancel", "error"}, event : Events,
               is_drain_called : BOOLEAN]
    /\ drv \in [running : BOOLEAN, stopped : BOOLEAN, paused : BOOLEAN,
                full : BOOLEAN, broken : BOOLEAN,
                call : {"none", "blocked", "ok", "cancel", "error"}]
    /\ card \in [state : {"ONLINE", "OFFLINE"}, prev : {"ONLINE", "OFFLINE"},
                 msgQ : Seq({"ONLINE", "OFFLINE"}), active : Lock, dsp : BOOLEAN]
    /\ seen \in [waiting : BOOLEAN, drain : BOOLEAN, opened : BOOLEAN, started : BOOLEAN,
                 hurt : BOOLEAN, error : BOOLEAN,
                 closing : BOOLEAN, terminated : BOOLEAN]
    /\ used \in [writes : 0..MaxWrites, drains : 0..MaxDrains,
                 controls : 0..MaxControls, faults : 0..MaxFaults]

Init ==
    /\ str = [st |-> "IDLE", isPaused |-> FALSE, mutex |-> "none", registered |-> FALSE]
    /\ pc = [t \in Threads |-> "idle"] /\ after = [t \in Threads |-> "idle"]
    /\ ses = [compress |-> FALSE, playback_started |-> FALSE, command |-> "EXIT"]
    /\ queue = <<>>
    /\ wk = [at |-> "none", msg |-> "EXIT", ret |-> "ok", event |-> "WRITE_READY",
             is_drain_called |-> FALSE]
    /\ drv = [running |-> FALSE, stopped |-> FALSE, paused |-> FALSE, full |-> FALSE,
              broken |-> FALSE, call |-> "none"]
    /\ card = [state |-> "ONLINE", prev |-> "ONLINE", msgQ |-> <<>>,
               active |-> "none", dsp |-> TRUE]
    /\ seen = [waiting |-> FALSE, drain |-> FALSE, opened |-> FALSE,
               started |-> FALSE, hurt |-> FALSE, error |-> FALSE, closing |-> FALSE, terminated |-> FALSE]
    /\ used = [writes |-> 0, drains |-> 0, controls |-> 0, faults |-> 0]

Down == card.state = "OFFLINE"                         \* PAL_CARD_STATUS_DOWN
Free == str.mutex = "none"                             \* mStreamMutex can be taken
Goto(t, l) == pc' = [pc EXCEPT ![t] = l]

\* A thread of the client calls: the stream was opened and is not yet closed.
MayCall(t) ==
    /\ t \in Clients /\ pc[t] = "idle"
    /\ seen.opened /\ \A c \in Clients : pc[c] # "closed"
Count(kind, max) ==
    /\ used[kind] < max
    /\ used' = [used EXCEPT ![kind] = @ + 1]

-----------------------------------------------------------------------------
(* The compress driver. *)

\* What the blocked call of the offload thread returns when the driver ends it.
Ended(result) == IF drv.call = "blocked" THEN result ELSE drv.call

\* compress_stop: the blocked call returns.
compress_stop == [drv EXCEPT !.running = FALSE, !.stopped = TRUE, !.full = FALSE,
                             !.call = Ended("cancel")]

\* The call of the offload thread when it begins: refused when the DSP crashed since the
\* session opened, and by a stream that does not run; compress_wait returns at once when there is room.
CallResult(cmd) ==
    IF drv.broken THEN "cancel"
    ELSE IF cmd = "WAIT_FOR_BUFFER"
         THEN IF drv.stopped THEN "error" ELSE IF drv.full THEN "blocked" ELSE "ok"
         ELSE IF drv.running THEN "blocked" ELSE "error"

\* The DSP plays what is buffered: there is room, and the drain is over.
Play ==
    /\ drv.running /\ ~drv.paused
    /\ drv.full \/ drv.call = "blocked"
    /\ drv' = [drv EXCEPT !.full = FALSE, !.call = Ended("ok")]
    /\ UNCHANGED <<str, pc, after, ses, queue, wk, card, seen, used>>

\* A crash of the DSP, and the end of it: the sound card monitor queues the state.
Crash ==
    /\ card.dsp /\ used.faults < MaxFaults
    /\ used' = [used EXCEPT !.faults = @ + 1]
    /\ card' = [card EXCEPT !.dsp = FALSE, !.msgQ = Append(@, "OFFLINE")]
    /\ drv' = [drv EXCEPT !.running = FALSE, !.broken = str.st # "IDLE",
                          !.call = Ended("cancel")]
    /\ seen' = [seen EXCEPT !.waiting = FALSE, !.drain = FALSE, !.hurt = ses.compress]
    /\ UNCHANGED <<str, pc, after, ses, queue, wk>>

Recover ==
    /\ ~card.dsp
    /\ card' = [card EXCEPT !.dsp = TRUE, !.msgQ = Append(@, "ONLINE")]
    /\ UNCHANGED <<str, pc, after, ses, queue, wk, drv, seen, used>>

-----------------------------------------------------------------------------
(* offloadThreadLoop, the thread of the session. *)

\* The thread takes the next message.  OFFLOAD_CMD_EXIT is 0, so command keeps what
\* it was; the thread ends.
Pop ==
    /\ wk.at = "idle" /\ queue # <<>>
    /\ queue' = Tail(queue)
    /\ IF Head(queue) = "EXIT"
       THEN wk' = [wk EXCEPT !.at = "exited", !.msg = "EXIT"] /\ UNCHANGED ses
       ELSE /\ wk' = [wk EXCEPT !.at = "popped", !.msg = Head(queue)]
            /\ ses' = [ses EXCEPT !.command = Head(queue)]
    /\ UNCHANGED <<str, pc, after, drv, card, seen, used>>

\* No callback "during SSR or internal unblock"; ret may be the one of an earlier
\* message.
Silent(ret) == ret = "cancel"

\* Whether the message makes the thread call the driver: the card must be online, and
\* a drain that a partial drain did already is not done again.
Calls(msg) ==
    /\ ~Down
    /\ msg # "ERROR"
    /\ msg = "DRAIN" => ~wk.is_drain_called

\* command is reset once compress_wait is over.
ResetCommandNever(msg, called) == ses
ResetCommand(msg, called) ==
    IF msg = "WAIT_FOR_BUFFER" /\ called THEN [ses EXCEPT !.command = "EXIT"] ELSE ses

\* After the call, or without one: the event, and whether the client gets it.
Report(msg, ret, called) ==
    LET silent == msg # "ERROR" /\ Silent(ret)
        event == CASE msg = "ERROR" -> "ERROR"
                   [] msg = "DRAIN" /\ ~silent -> "DRAIN_READY"
                   [] msg = "WAIT_FOR_BUFFER" /\ called -> "WRITE_READY"
                   [] msg = "PARTIAL_DRAIN" /\ called ->
                        IF Gapless THEN "PARTIAL_DRAIN_READY" ELSE "DRAIN_READY"
                   [] OTHER -> wk.event
        drained == CASE msg = "DRAIN" -> silent /\ wk.is_drain_called
                     [] msg = "PARTIAL_DRAIN" /\ called ->
                          wk.is_drain_called \/ ~Gapless
                     [] OTHER -> wk.is_drain_called
    IN  /\ wk' = [wk EXCEPT !.at = IF silent THEN "idle" ELSE "callback",
                            !.ret = ret, !.event = event, !.is_drain_called = drained]
        /\ ses' = ResetCommand(msg, called)

\* The thread calls compress_wait, compress_drain, or compress_next_track with
\* compress_partial_drain.
Call ==
    /\ wk.at = "popped"
    /\ IF Calls(wk.msg)
       THEN /\ wk' = [wk EXCEPT !.at = "call"]
            /\ drv' = [drv EXCEPT !.call = CallResult(wk.msg)]
            /\ UNCHANGED ses
       ELSE Report(wk.msg, wk.ret, FALSE) /\ UNCHANGED drv
    /\ UNCHANGED <<str, pc, after, queue, card, seen, used>>

ReturnEarly ==
    /\ wk.at = "call"
    /\ Report(wk.msg, drv.call, TRUE)
    /\ drv' = [drv EXCEPT !.call = "none"]
    /\ UNCHANGED <<str, pc, after, queue, card, seen, used>>

Return ==
    /\ wk.at = "call" /\ drv.call # "blocked"
    /\ Report(wk.msg, drv.call, TRUE)
    /\ drv' = [drv EXCEPT !.call = "none"]
    /\ UNCHANGED <<str, pc, after, queue, card, seen, used>>

\* sessionCb: the client hears the event.
Callback ==
    /\ wk.at = "callback"
    /\ wk' = [wk EXCEPT !.at = "idle"]
    /\ seen' = CASE wk.event = "WRITE_READY" -> [seen EXCEPT !.waiting = FALSE]
                 [] wk.event = "DRAIN_READY" -> [seen EXCEPT !.drain = FALSE]
                 [] wk.event = "ERROR" -> [seen EXCEPT !.error = TRUE]
                 [] OTHER -> seen
    /\ UNCHANGED <<str, pc, after, ses, queue, drv, card, used>>

-----------------------------------------------------------------------------
(* The client's calls. *)

\* open, once, by pal_stream_open: the card must be up.  When the session does not
\* open, the devices are closed and the status of that is returned: the client gets a
\* handle of a stream that is not open.
open(t) ==
    /\ t \in Clients /\ ~seen.opened /\ ~Down
    /\ seen' = [seen EXCEPT !.opened = TRUE]
    /\ \/ str' = [str EXCEPT !.st = "INIT"] /\ drv' = [drv EXCEPT !.broken = ~card.dsp]
          /\ UNCHANGED used
       \/ Count("faults", MaxFaults) /\ UNCHANGED <<str, drv>>
    /\ UNCHANGED <<pc, after, ses, queue, wk, card>>

\* start of a stream that can start, and that no other thread closes.  A std::thread that is still joinable is
\* destroyed when the session creates the next one: std::terminate.
start(t) ==
    /\ MayCall(t) /\ ~seen.closing /\ Free /\ ~Down /\ str.st \in {"INIT", "STOPPED"}
    /\ IF wk.at # "none"
       THEN seen' = [seen EXCEPT !.terminated = TRUE] /\ UNCHANGED <<str, ses, wk, drv>>
       ELSE \/ /\ ~drv.broken
               /\ wk' = [wk EXCEPT !.at = "idle"]
               /\ ses' = [ses EXCEPT !.compress = TRUE]
               /\ drv' = [drv EXCEPT !.stopped = FALSE]
               /\ str' = [str EXCEPT !.st = "OPENED"]
               /\ seen' = [seen EXCEPT !.started = TRUE]
            \/ drv.broken /\ UNCHANGED <<str, ses, wk, drv, seen>>
    /\ UNCHANGED <<pc, after, queue, card, used>>

\* start fails: a device does not start, or compress_open_by_name fails and the thread
\* is joined; or the driver is not ready, which leaves the thread and the handle.
startFails(t) ==
    /\ MayCall(t) /\ ~seen.closing /\ Free /\ ~Down
    /\ str.st = "INIT" /\ wk.at = "none"
    /\ Count("faults", MaxFaults)
    /\ \/ UNCHANGED <<ses, wk>>
       \/ wk' = [wk EXCEPT !.at = "idle"] /\ ses' = [ses EXCEPT !.compress = TRUE]
    /\ UNCHANGED <<str, pc, after, queue, drv, card, seen>>

\* start fails on the crashed DSP, and the resource manager is told of the crash once more.
startReports(t) ==
    /\ MayCall(t) /\ ~seen.closing /\ Free /\ ~Down /\ str.st \in {"INIT", "STOPPED"}
    /\ wk.at = "none" /\ drv.broken /\ ~card.dsp
    /\ Count("controls", MaxControls)
    /\ card' = [card EXCEPT !.msgQ = Append(@, "OFFLINE")]
    /\ UNCHANGED <<str, pc, after, ses, queue, wk, drv, seen>>

\* Posts a message and wakes the thread.
Posted(msg) == Append(queue, msg)

\* SessionAlsaCompress::write when the driver takes all, some or none of the bytes: the
\* first bytes start the playback; a short write is followed by a message, unless the
\* thread already waits.
SessionWrites(bytes) ==
    /\ bytes = "none" <=> drv.full
    /\ drv' = [drv EXCEPT !.full = bytes # "all",
                          !.running = @ \/ bytes # "none",
                          !.stopped = @ /\ bytes = "none"]
    /\ ses' = [ses EXCEPT !.playback_started = @ \/ bytes # "none"]
    /\ queue' = IF bytes # "all" /\ ses.command # "WAIT_FOR_BUFFER"
                THEN Posted("WAIT_FOR_BUFFER") ELSE queue
    /\ seen' = [seen EXCEPT !.waiting = bytes # "all" /\ ~seen.closing]

\* The state after a write that the session accepted, which it also does when the
\* driver returns an error: STARTED unless paused; then the device is registered,
\* without mStreamMutex in between.
Started(t) ==
    IF str.st # "STARTED" /\ ~(str.st = "PAUSED" /\ str.isPaused)
    THEN str' = [str EXCEPT !.st = "STARTED"] /\ Goto(t, "register")
    ELSE UNCHANGED <<str, pc>>

writeAlways(t) ==
    /\ MayCall(t) /\ Free /\ str.st \in {"OPENED", "STARTED", "PAUSED"}
    /\ ses.compress
    /\ Count("writes", MaxWrites)
    /\ \/ /\ ~drv.broken
          /\ \E bytes \in {"all", "some", "none"} : SessionWrites(bytes)
       \/ drv.broken /\ UNCHANGED <<drv, ses, queue, seen>>
    /\ Started(t)
    /\ UNCHANGED <<after, wk, card>>

write(t) == ~Down /\ writeAlways(t)

\* compress_start fails after the crash: the resource manager is told once more.
writeFails(t) ==
    /\ MayCall(t) /\ Free /\ ~Down /\ str.st \in {"OPENED", "STARTED", "PAUSED"}
    /\ ses.compress /\ drv.broken /\ ~ses.playback_started /\ ~card.dsp
    /\ Count("writes", MaxWrites)
    /\ card' = [card EXCEPT !.msgQ = Append(@, "OFFLINE")]
    /\ UNCHANGED <<str, pc, after, ses, queue, wk, drv, seen>>

\* The second half of write: mActiveStreamMutex, mStreamMutex, registerDevice.
Register(t) ==
    /\ pc[t] = "register" /\ card.active = "none" /\ Free
    /\ str' = [str EXCEPT !.registered = TRUE]
    /\ Goto(t, "idle")
    /\ UNCHANGED <<after, ses, queue, wk, drv, card, seen, used>>

\* drain takes no lock of the stream.
drain(t) ==
    /\ MayCall(t) /\ ~Down /\ ses.compress
    /\ Count("drains", MaxDrains)
    /\ \/ queue' = Posted("DRAIN") /\ seen' = [seen EXCEPT !.drain = ~drv.broken /\ seen.started]
       \/ queue' = Posted("PARTIAL_DRAIN") /\ UNCHANGED seen
    /\ UNCHANGED <<str, pc, after, ses, wk, drv, card>>

\* pause, which the client may call only after start and before stop; the SSR worker
\* may have closed the stream since.  The state becomes PAUSED whatever it was and
\* whatever the session says.
pause(t) ==
    /\ MayCall(t) /\ Free /\ seen.started
    /\ Count("controls", MaxControls)
    /\ IF Down THEN str' = [str EXCEPT !.isPaused = TRUE] /\ UNCHANGED drv
       ELSE /\ str' = [str EXCEPT !.isPaused = TRUE, !.st = "PAUSED"]
            /\ drv' = [drv EXCEPT !.paused = @ \/ ~(str.isPaused \/ str.st = "IDLE")]
    /\ UNCHANGED <<pc, after, ses, queue, wk, card, seen>>

\* resume: the state stays PAUSED until the next write.
resume(t) ==
    /\ MayCall(t) /\ Free /\ ~Down /\ str.st # "IDLE" /\ ~drv.broken
    /\ Count("controls", MaxControls)
    /\ str' = [str EXCEPT !.isPaused = FALSE]
    /\ drv' = [drv EXCEPT !.paused = FALSE]
    /\ UNCHANGED <<pc, after, ses, queue, wk, card, seen>>

\* flush: of a paused stream; the drain in progress returns.
flush(t) ==
    /\ MayCall(t) /\ Free /\ str.isPaused /\ str.st \notin {"STOPPED", "IDLE"}
    /\ ses.playback_started
    /\ Count("controls", MaxControls)
    /\ drv' = [drv EXCEPT !.full = FALSE,
                  !.call = Ended(IF wk.msg = "WAIT_FOR_BUFFER" THEN "ok" ELSE "cancel")]
    /\ seen' = [seen EXCEPT !.waiting = FALSE, !.drain = FALSE]
    /\ UNCHANGED <<str, pc, after, ses, queue, wk, card>>


-----------------------------------------------------------------------------
(* stop and close, of a client or of the SSR worker. *)

\* A client may stop only a stream it started.
pal_stream_stop(t) ==
    /\ MayCall(t) /\ seen.started /\ Count("controls", MaxControls)
    /\ seen' = [seen EXCEPT !.started = FALSE]
    /\ Goto(t, "stop") /\ after' = [after EXCEPT ![t] = "idle"]
    /\ UNCHANGED <<str, ses, queue, wk, drv, card>>

\* One thread of the client closes the stream.
pal_stream_close(t) ==
    /\ MayCall(t) /\ ~seen.closing
    /\ seen' = [seen EXCEPT !.closing = TRUE, !.started = FALSE]
    /\ Goto(t, "close")
    /\ UNCHANGED <<str, after, ses, queue, wk, drv, card, used>>

\* stop, up to the release of mStreamMutex.
stop(t) ==
    /\ pc[t] = "stop" /\ Free
    /\ Goto(t, IF str.st \in {"STARTED", "PAUSED", "OPENED"} THEN "stopping" ELSE after[t])
    /\ UNCHANGED <<str, after, ses, queue, wk, drv, card, seen, used>>

\* SessionAlsaCompress::stop
SessionStopsNothing == UNCHANGED <<drv, ses>>
SessionStops ==
    IF ses.compress /\ ses.playback_started
    THEN drv' = compress_stop /\ ses' = [ses EXCEPT !.playback_started = FALSE]
    ELSE UNCHANGED <<drv, ses>>

\* stop, with mActiveStreamMutex and mStreamMutex: the state is not looked at again.
Stopping(t) ==
    /\ pc[t] = "stopping" /\ card.active = "none" /\ Free
    /\ str' = [str EXCEPT !.st = "STOPPED", !.registered = FALSE]
    /\ SessionStops
    /\ seen' = [seen EXCEPT !.waiting = FALSE, !.drain = FALSE]
    /\ Goto(t, after[t])
    /\ UNCHANGED <<after, queue, wk, card, used>>

\* Where a thread goes when close() returns.
CloseReturned(t) == IF t = "ssr" THEN "relock" ELSE "closed"

\* The messages that end the thread: with the card down the client is told first.
LastMessagesExitFirst == IF Down THEN <<"EXIT", "ERROR">> ELSE <<"EXIT">>
LastMessages == IF Down THEN <<"ERROR", "EXIT">> ELSE <<"EXIT">>

\* session->close with mStreamMutex held, up to the join of the thread.
CloseSession(t) ==
    /\ Goto(t, "join")
    /\ str' = [str EXCEPT !.mutex = t]
    /\ queue' = IF ses.compress THEN queue \o LastMessages ELSE queue
    /\ seen' = [seen EXCEPT !.waiting = FALSE, !.drain = FALSE]
    /\ UNCHANGED after

\* close: a stream that plays is stopped without mStreamMutex, and the session is then
\* closed without another look at the state.
close(t) ==
    /\ pc[t] = "close" /\ Free
    /\ CASE str.st = "IDLE" -> Goto(t, CloseReturned(t)) /\ UNCHANGED <<str, after, queue, seen>>
         [] str.st \in {"STARTED", "PAUSED"} ->
               /\ Goto(t, "stop") /\ after' = [after EXCEPT ![t] = "closing"]
               /\ UNCHANGED <<str, queue, seen>>
         [] OTHER -> CloseSession(t)
    /\ UNCHANGED <<ses, wk, drv, card, used>>

Closing(t) ==
    /\ pc[t] = "closing" /\ Free
    /\ CloseSession(t)
    /\ UNCHANGED <<ses, wk, drv, card, used>>

\* The thread is joined, the queue emptied, the driver and the devices closed.
Join(t) ==
    /\ pc[t] = "join"
    /\ ses.compress => wk.at = "exited"
    /\ Goto(t, CloseReturned(t))
    /\ str' = [str EXCEPT !.mutex = "none", !.st = "IDLE"]
    /\ ses' = [ses EXCEPT !.compress = FALSE]
    /\ IF ses.compress
       THEN queue' = <<>> /\ wk' = [wk EXCEPT !.at = "none"]
       ELSE UNCHANGED <<queue, wk>>
    /\ UNCHANGED <<after, drv, card, seen, used>>

-----------------------------------------------------------------------------
(* The SSR worker (ssrHandlingLoop) and ssrDownHandler; ssrUpHandler does nothing. *)

\* The next state of the sound card; a new OFFLINE goes through the streams with
\* mActiveStreamMutex held.
HandleCardState ==
    /\ pc["ssr"] = "idle" /\ card.active = "none" /\ card.msgQ # <<>>
    /\ LET new == Head(card.msgQ)
           down == new = "OFFLINE" /\ card.prev # new
               /\ seen.opened /\ \A c \in Clients : pc[c] # "closed"
       IN  /\ card' = [card EXCEPT !.msgQ = Tail(@), !.state = new, !.prev = new,
                                   !.active = IF down THEN "ssr" ELSE "none"]
           /\ Goto("ssr", IF down THEN "down" ELSE "idle")
    /\ UNCHANGED <<str, after, ses, queue, wk, drv, seen, used>>

\* ssrDownHandler: a stream that plays is stopped without mActiveStreamMutex.
ssrDownHandler ==
    /\ pc["ssr"] = "down" /\ Free
    /\ CASE str.st \in {"INIT", "STOPPED", "OPENED"} ->
               Goto("ssr", "close") /\ UNCHANGED <<after, card>>
         [] str.st \in {"STARTED", "PAUSED"} ->
               /\ Goto("ssr", "stop") /\ after' = [after EXCEPT !["ssr"] = "close"]
               /\ card' = [card EXCEPT !.active = "none"]
         [] OTHER -> Goto("ssr", "relock") /\ UNCHANGED <<after, card>>
    /\ UNCHANGED <<str, ses, queue, wk, drv, seen, used>>

\* mActiveStreamMutex again, and the state IDLE, without mStreamMutex.
Relock ==
    /\ pc["ssr"] = "relock" /\ card.active \in {"none", "ssr"}
    /\ Goto("ssr", "idle")
    /\ str' = [str EXCEPT !.st = "IDLE"]
    /\ card' = [card EXCEPT !.active = "none"]
    /\ UNCHANGED <<after, ses, queue, wk, drv, seen, used>>

-----------------------------------------------------------------------------
Worker == Pop \/ Call \/ Return \/ Callback
Ssr == HandleCardState \/ ssrDownHandler \/ Relock

\* The steps of a thread that is in a call.
Continue(t) == Register(t) \/ stop(t) \/ Stopping(t) \/ close(t) \/ Closing(t) \/ Join(t)

Calling(t) ==
    \/ open(t) \/ start(t) \/ startFails(t) \/ startReports(t)
    \/ write(t) \/ writeFails(t) \/ drain(t)
    \/ pause(t) \/ resume(t) \/ flush(t) \/ pal_stream_stop(t) \/ pal_stream_close(t)

Next ==
    /\ ~seen.terminated
    /\ \/ \E t \in Clients : Calling(t)
       \/ \E t \in Threads : Continue(t)
       \/ Worker \/ Ssr \/ Play \/ Crash \/ Recover

Spec == Init /\ [][Next]_vars

-----------------------------------------------------------------------------
(* Properties. *)

\* A client whose write was short hears of the room: the message is queued, or the
\* offload thread is on it.  The writer looks at command without a lock, so it may
\* see it just before or just after the thread sets or resets it.
WriterIsTold ==
    seen.waiting /\ ~Down =>
        \/ Contains(queue, "WAIT_FOR_BUFFER")
        \/ wk.msg = "WAIT_FOR_BUFFER" /\ wk.at \in {"popped", "call", "callback"}

\* Nobody waits for ever.  The SSR worker is never in stop() for mActiveStreamMutex while
\* it holds it: a stream it found not playing must not start to play before it closes it.
\* And whoever closes the session is not left in join: the offload thread ends, or has
\* OFFLOAD_CMD_EXIT before it and is not blocked in a driver that no longer plays.
NobodyHangs ==
    /\ ~(pc["ssr"] = "stopping" /\ card.active = "ssr")
    /\ \A t \in Threads :
           pc[t] = "join" /\ ses.compress =>
               \/ wk.at = "exited"
               \/ /\ Contains(queue, "EXIT")
                  /\ drv.call = "blocked" => drv.running /\ ~drv.paused

\* A client that holds a session when the DSP crashes has heard of the error when the
\* SSR worker is done with the crash, unless it closes the stream itself.
CrashIsReported ==
    seen.hurt /\ Down /\ pc["ssr"] = "idle" => seen.error \/ seen.closing

\* A drain the client asked for, and that nothing cancelled, is answered.  The code does
\* not keep this promise: a partial drain that a flush cancels leaves ret and errno of
\* the offload thread behind, and the next drain is neither done nor answered.
DrainIsAnswered ==
    seen.drain => \/ Contains(queue, "DRAIN")
                  \/ wk.msg = "DRAIN" /\ wk.at \in {"popped", "call", "callback"}
                  \/ wk.event = "DRAIN_READY" /\ wk.at = "callback"

=============================================================================
