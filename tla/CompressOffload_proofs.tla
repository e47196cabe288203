------------------------ MODULE CompressOffload_proofs ------------------------
(* Proofs about CompressOffload: for every number of client threads and every    *)
(* bound, a writer that waits for room is told (WriterIsTold), nobody is left    *)
(* waiting (NobodyHangs), and a crash is reported (CrashIsReported).  The        *)
(* properties follow from one inductive invariant: which threads may be in which *)
(* call (CallsOK), who holds the two mutexes (LocksOK), in which state a stream  *)
(* is stopped and closed (StateOK), when the driver plays (DriverOK), what the   *)
(* offload thread has before it (ThreadOK), and what command, read by the writer *)
(* without a lock, says about that thread (WriterOK).                            *)
EXTENDS CompressOffload, SequenceTheorems, TLAPS

-----------------------------------------------------------------------------
(* The invariant. *)

Strs == [st : {"IDLE", "INIT", "OPENED", "STARTED", "PAUSED", "STOPPED"},
         isPaused : BOOLEAN, mutex : Lock, registered : BOOLEAN]
Places == {"idle", "register", "stop", "stopping", "close", "closing", "join", "down",
           "relock", "closed"}
Sess == [compress : BOOLEAN, playback_started : BOOLEAN, command : Commands]
Wks == [at : {"none", "idle", "popped", "call", "callback", "exited"},
        msg : Commands, ret : {"ok", "cancel", "error"}, event : Events,
        is_drain_called : BOOLEAN]
Drvs == [running : BOOLEAN, stopped : BOOLEAN, paused : BOOLEAN, full : BOOLEAN,
         broken : BOOLEAN, call : {"none", "blocked", "ok", "cancel", "error"}]
Cards == [state : {"ONLINE", "OFFLINE"}, prev : {"ONLINE", "OFFLINE"},
          msgQ : Seq({"ONLINE", "OFFLINE"}), active : Lock, dsp : BOOLEAN]
Seens == [waiting : BOOLEAN, drain : BOOLEAN, opened : BOOLEAN, started : BOOLEAN,
          hurt : BOOLEAN, error : BOOLEAN, closing : BOOLEAN, terminated : BOOLEAN]
Useds == [writes : 0..MaxWrites, drains : 0..MaxDrains,
          controls : 0..MaxControls, faults : 0..MaxFaults]
Types ==
    /\ str \in Strs
    /\ pc \in [Threads -> Places]
    /\ after \in [Threads -> {"idle", "close", "closing"}]
    /\ ses \in Sess
    /\ queue \in Seq(Commands)
    /\ wk \in Wks
    /\ drv \in Drvs
    /\ card \in Cards
    /\ seen \in Seens
    /\ used \in Useds

(* Where the threads are, and what the client has called.                     *)
Stop == {"stop", "stopping"}
Plays == str.st \in {"STARTED", "PAUSED"}
CallsOK ==
    /\ seen.closing => ~seen.started
    /\ ~seen.opened => /\ str.st = "IDLE" /\ ~ses.compress /\ ~seen.started
                       /\ ~seen.closing /\ \A t \in Threads : pc[t] = "idle"
    /\ \A c \in Clients :
          /\ pc[c] \in {"close", "closing", "join", "closed"} => seen.closing
          /\ pc[c] \in {"idle", "register", "stop", "stopping", "close", "closing",
                        "join", "closed"}
          /\ after[c] \in {"idle", "closing"} /\ (after[c] = "closing" => seen.closing)
          /\ pc[c] \in Stop => ~seen.started
    /\ \A c, d \in Clients : pc[c] \in Stop /\ pc[d] \in Stop => c = d \/ seen.closing
    /\ pc["ssr"] \notin {"register", "closed"}
    /\ pc["ssr"] \in Stop => after["ssr"] \in {"close", "closing"}

(* The locks: mStreamMutex is held by whoever joins the thread, and the SSR   *)
(* worker works while the card is down.                                       *)
LocksOK ==
    /\ \A t \in Threads : pc[t] = "join" <=> str.mutex = t
    /\ card.prev = card.state
    /\ pc["ssr"] # "idle" => Down
    /\ card.active \in {"none", "ssr"}
    /\ card.active = "ssr" => pc["ssr"] \in {"down", "close", "join", "relock"}
    /\ card.active = "ssr" /\ pc["ssr"] = "close" => ~Plays

(* Where the stream is when someone closes it.                                *)
StateOK ==
    /\ \A t \in Threads :
          /\ pc[t] = "closing" => str.st \in {"IDLE", "INIT", "STOPPED"}
          /\ pc[t] = "join" => ~Plays
          /\ pc[t] = "closed" => ~ses.compress
    /\ pc["ssr"] = "relock" => ~Plays /\ ~ses.compress
    /\ str.st = "IDLE" => ~ses.compress
    /\ Down /\ pc["ssr"] = "idle" => ~ses.compress
    /\ ~seen.closing /\ (~Down \/ pc["ssr"] = "idle")
         /\ (seen.started \/ \E c \in Clients : pc[c] \in Stop)
       => ses.compress \/ str.st \notin {"INIT", "STOPPED"}

(* The driver plays only for a stream that does.                              *)
DriverOK ==
    /\ wk.at = "call" <=> drv.call # "none"
    /\ drv.call = "blocked" => drv.running
    /\ drv.running \/ drv.full => ses.playback_started
    /\ ses.playback_started => ses.compress /\ Plays
    /\ drv.full => drv.running \/ drv.broken

(* The thread of the session and its queue.                                   *)
ErrorTold ==
    /\ wk.msg = "ERROR" /\ ses.command = "ERROR"
    /\ wk.at \in {"popped", "callback", "idle"} /\ (wk.at = "idle" => seen.error)
Warned(q) == \A i \in 2..Len(q) : q[i] = "EXIT" => q[i - 1] = "ERROR"
ThreadOK ==
    /\ ses.compress <=> wk.at # "none"
    /\ ~ses.compress => queue = <<>>
    /\ \A t \in Threads : pc[t] = "join" /\ ses.compress =>
          wk.at = "exited" \/ Contains(queue, "EXIT")
    /\ \/ seen.closing
       \/ /\ Warned(queue)
          /\ queue # << >> /\ Head(queue) = "EXIT" => ErrorTold
    /\ wk.at = "exited" => seen.closing \/ (seen.error /\ ses.command = "ERROR")
    /\ wk.msg = "ERROR" => wk.at # "call"
    /\ wk.at = "callback" /\ wk.msg = "ERROR" => wk.event = "ERROR"
    /\ seen.hurt => ses.compress \/ seen.error \/ seen.closing

(* The writer that waits.                                                     *)
OnIt(P) == wk.msg = "WAIT_FOR_BUFFER" /\ wk.at \in P
WriterOK ==
    /\ WriterIsTold
    /\ ses.command = "WAIT_FOR_BUFFER" /\ ~Down /\ ses.compress /\ ~seen.closing
         => OnIt({"popped", "call"})
    /\ ses.command = "WAIT_FOR_BUFFER" => ses.compress \/ seen.closing
    /\ drv.broken => ~seen.waiting
    /\ seen.waiting => ses.compress /\ Plays
    /\ OnIt({"call"}) /\ drv.call = "cancel" =>
          drv.broken \/ Down \/ (str.st \in {"IDLE", "INIT", "STOPPED"} /\ ~seen.started)
    /\ OnIt({"callback"}) /\ ~Down => wk.event = "WRITE_READY"

Inv == Types /\ CallsOK /\ LocksOK /\ StateOK /\ DriverOK /\ ThreadOK /\ WriterOK

-----------------------------------------------------------------------------
(* Types. *)

\* The named types are those of the type invariant.
LEMMA TypesAre == Types <=> TypeOK
BY DEF Types, TypeOK, Strs, Places, Sess, Wks, Drvs, Cards, Seens, Useds

\* What the thread decides after a driver call, or without one (offloadThreadLoop): silent
\* after a cancelled call, else a callback; an error is reported as an error, and a wait
\* that is over as room to write.
Reported(msg, ret, called) ==
    \E event \in Events, d \in BOOLEAN :
       /\ wk' = [wk EXCEPT !.at = IF msg # "ERROR" /\ ret = "cancel"
                                  THEN "idle" ELSE "callback",
                           !.ret = ret, !.event = event, !.is_drain_called = d]
       /\ msg = "ERROR" => event = "ERROR"
       /\ msg = "WAIT_FOR_BUFFER" /\ called => event = "WRITE_READY"

\* The end of the thread's switch leaves the thread idle or in its callback, with an event
\* that fits the message.
LEMMA ReportIs ==
    ASSUME Types, NEW msg \in Commands, NEW ret, NEW called, Report(msg, ret, called)
    PROVE  Reported(msg, ret, called)
<1> DEFINE silent == msg # "ERROR" /\ ret = "cancel"
           event == CASE msg = "ERROR" -> "ERROR"
                   [] msg = "DRAIN" /\ ~silent -> "DRAIN_READY"
                   [] msg = "WAIT_FOR_BUFFER" /\ called -> "WRITE_READY"
                   [] msg = "PARTIAL_DRAIN" /\ called ->
                        IF Gapless THEN "PARTIAL_DRAIN_READY" ELSE "DRAIN_READY"
                   [] OTHER -> wk.event
           d == CASE msg = "DRAIN" -> silent /\ wk.is_drain_called
                  [] msg = "PARTIAL_DRAIN" /\ called -> wk.is_drain_called \/ ~Gapless
                  [] OTHER -> wk.is_drain_called
<1>1. wk' = [wk EXCEPT !.at = IF silent THEN "idle" ELSE "callback",
                       !.ret = ret, !.event = event, !.is_drain_called = d]
    BY Zenon DEF Report, Silent
<1>2. wk.event \in Events /\ wk.is_drain_called \in BOOLEAN
    BY DEF Types, Wks
<1>3. event \in Events
    BY <1>2 DEF Events
<1>4. d \in BOOLEAN
  <2>1. CASE msg = "DRAIN"
    BY <2>1, Zenon
  <2>2. CASE msg = "PARTIAL_DRAIN" /\ called
    BY <2>2, Zenon
  <2>3. CASE msg # "DRAIN" /\ ~(msg = "PARTIAL_DRAIN" /\ called)
    <3>1. d = wk.is_drain_called
      BY <2>3
    <3> QED BY <3>1, <1>2
  <2> QED BY <2>1, <2>2, <2>3
<1>5. msg = "ERROR" => event = "ERROR"
    OBVIOUS
<1>6. msg = "WAIT_FOR_BUFFER" /\ called => event = "WRITE_READY"
    OBVIOUS
<1> HIDE DEF event, d
<1> QED BY <1>1, <1>3, <1>4, <1>5, <1>6 DEF Reported

\* The messages that SessionAlsaCompress::close posts are commands of the thread.
LEMMA LastTyped == LastMessages \in Seq(Commands)
<1>1. CASE Down
  <2>1. LastMessages = <<"ERROR", "EXIT">>
      BY <1>1 DEF LastMessages
  <2> QED BY <2>1 DEF Commands
<1>2. CASE ~Down
  <2>1. LastMessages = <<"EXIT">>
      BY <1>2 DEF LastMessages
  <2> QED BY <2>1 DEF Commands
<1> QED BY <1>1, <1>2

\* Every step of a client, the offload thread, the SSR worker or the driver keeps the types.
LEMMA TypesStep == ASSUME Types, DriverOK, Next PROVE Types'
<1>1. CASE Play
  <2>1. drv' \in Drvs BY <1>1 DEF Play, Ended, Types, Drvs
  <2> QED BY <2>1, <1>1 DEF Types, Play
<1>2. CASE Crash
  <2>1. used' \in Useds
    <3>1. PICK n \in 0..MaxFaults : n = used.faults + 1
        BY <1>2, CompressAssumption DEF Crash, Types, Useds
    <3>2. used' = [used EXCEPT !.faults = n]
        BY <1>2, <3>1 DEF Crash
    <3> QED BY <3>2 DEF Types, Useds
  <2>2. card' \in Cards
    <3> DEFINE Q == {"ONLINE", "OFFLINE"}
    <3>0. card.msgQ \in Seq(Q)
        BY DEF Types, Cards
    <3>1. PICK q \in Seq(Q) : q = Append(card.msgQ, "OFFLINE")
        BY <3>0, AppendProperties
    <3>2. card' = [card EXCEPT !.dsp = FALSE, !.msgQ = q]
        BY <1>2, <3>1 DEF Crash
    <3> QED BY <3>2 DEF Types, Cards, Lock, Threads
  <2>3. drv' \in Drvs BY <1>2 DEF Crash, Ended, Types, Drvs
  <2>4. seen' \in Seens BY <1>2 DEF Crash, Types, Seens, Sess
  <2> QED BY <2>1, <2>2, <2>3, <2>4, <1>2 DEF Types, Crash
<1>3. CASE Recover
  <2>1. card' \in Cards
    <3> DEFINE Q == {"ONLINE", "OFFLINE"}
    <3>0. card.msgQ \in Seq(Q)
        BY DEF Types, Cards
    <3>1. PICK q \in Seq(Q) : q = Append(card.msgQ, "ONLINE")
        BY <3>0, AppendProperties
    <3>2. card' = [card EXCEPT !.dsp = TRUE, !.msgQ = q]
        BY <1>3, <3>1 DEF Recover
    <3> QED BY <3>2 DEF Types, Cards, Lock, Threads
  <2> QED BY <2>1, <1>3 DEF Types, Recover
<1>4. CASE Pop
  <2>1. queue' \in Seq(Commands) BY <1>4 DEF Pop, Types, Commands
  <2>2. wk' \in Wks
    <3>1. PICK m \in Commands : m = Head(queue)
        BY <1>4 DEF Pop, Types
    <3>2. PICK at \in {"exited", "popped"} : wk' = [wk EXCEPT !.at = at, !.msg = m]
        BY <1>4, <3>1 DEF Pop
    <3> QED BY <3>1, <3>2 DEF Types, Wks
  <2>3. ses' \in Sess BY <1>4 DEF Pop, Types, Sess, Commands
  <2> QED BY <2>1, <2>2, <2>3, <1>4 DEF Types, Pop
<1>5. CASE Call
  <2>1. wk' \in Wks
    <3>1. CASE Calls(wk.msg)
        BY <1>5, <3>1 DEF Types, Wks, Call
    <3>2. CASE ~Calls(wk.msg)
      <4>0. PICK m, r :
               m \in Commands /\ m = wk.msg /\ r = wk.ret /\ Report(m, r, FALSE)
          BY <1>5, <3>2 DEF Types, Wks, Call
      <4>1. PICK event \in Events, d \in BOOLEAN :
              /\ wk' = [wk EXCEPT !.at = IF m # "ERROR" /\ r = "cancel"
                                         THEN "idle" ELSE "callback",
                                  !.ret = r, !.event = event, !.is_drain_called = d]
              /\ m = "ERROR" => event = "ERROR"
              /\ m = "WAIT_FOR_BUFFER" /\ FALSE => event = "WRITE_READY"
        <5>1. Reported(m, r, FALSE)
            BY <4>0, ReportIs
        <5> QED BY <5>1 DEF Reported
      <4>2. PICK at \in {"idle", "callback"} :
              at = IF m # "ERROR" /\ r = "cancel" THEN "idle" ELSE "callback"
          OBVIOUS
      <4>3. r \in {"ok", "cancel", "error"}
          BY <1>5, <4>0 DEF Types, Wks, Drvs, DriverOK, Call
      <4> QED BY <4>1, <4>2, <4>3 DEF Types, Wks
    <3> QED BY <3>1, <3>2
  <2>2. drv' \in Drvs
    <3>1. CallResult(wk.msg) \in {"blocked", "ok", "cancel", "error"}
        BY DEF CallResult
    <3> QED BY <1>5, <3>1 DEF Call, Types, Drvs
  <2>3. ses' \in Sess BY <1>5 DEF Call, Report, ResetCommand, Types, Sess, Commands
  <2> QED BY <2>1, <2>2, <2>3, <1>5 DEF Types, Call
<1>6. CASE Return
  <2>1. wk' \in Wks
    <3>0. PICK m, r :
             m \in Commands /\ m = wk.msg /\ r = drv.call /\ Report(m, r, TRUE)
        BY <1>6 DEF Types, Wks, Return
    <3>1. PICK event \in Events, d \in BOOLEAN :
            /\ wk' = [wk EXCEPT !.at = IF m # "ERROR" /\ r = "cancel"
                                       THEN "idle" ELSE "callback",
                                !.ret = r, !.event = event, !.is_drain_called = d]
            /\ m = "ERROR" => event = "ERROR"
            /\ m = "WAIT_FOR_BUFFER" /\ TRUE => event = "WRITE_READY"
      <4>1. Reported(m, r, TRUE)
          BY <3>0, ReportIs
      <4> QED BY <4>1 DEF Reported
    <3>2. PICK at \in {"idle", "callback"} :
            at = IF m # "ERROR" /\ r = "cancel" THEN "idle" ELSE "callback"
        OBVIOUS
    <3>3. r \in {"ok", "cancel", "error"}
        BY <1>6, <3>0 DEF Types, Wks, Drvs, DriverOK, Return
    <3> QED BY <3>1, <3>2, <3>3 DEF Types, Wks
  <2>2. ses' \in Sess
      BY <1>6 DEF Return, Report, ResetCommand, Types, Sess, Commands
  <2>3. drv' \in Drvs BY <1>6 DEF Return, Types, Drvs
  <2> QED BY <2>1, <2>2, <2>3, <1>6 DEF Types, Return
<1>7. CASE Callback
  <2>1. wk' \in Wks BY <1>7 DEF Callback, Types, Wks, Commands, Events, Sess, Drvs
  <2>2. seen' \in Seens BY <1>7 DEF Callback, Types, Seens
  <2> QED BY <2>1, <2>2, <1>7 DEF Types, Callback
<1>8. ASSUME NEW t \in Clients, open(t) PROVE Types'
  <2>1. seen' \in Seens BY <1>8 DEF open, Types, Seens
  <2>2. str' \in Strs BY <1>8 DEF open, Types, Strs, Lock, Threads
  <2>3. drv' \in Drvs BY <1>8 DEF open, Types, Drvs
  <2>4. used' \in Useds BY <1>8, CompressAssumption DEF open, Count, Types, Useds
  <2> QED BY <2>1, <2>2, <2>3, <2>4, <1>8 DEF Types, open
<1>9. ASSUME NEW t \in Clients, start(t) PROVE Types'
  <2>1. wk' \in Wks BY <1>9 DEF start, Types, Wks, Commands, Events, Sess, Drvs
  <2>2. ses' \in Sess BY <1>9 DEF start, Types, Sess, Commands
  <2>3. drv' \in Drvs BY <1>9 DEF start, Types, Drvs
  <2>4. str' \in Strs BY <1>9 DEF start, Types, Strs, Lock, Threads
  <2>5. seen' \in Seens BY <1>9 DEF start, Types, Seens
  <2> QED BY <2>1, <2>2, <2>3, <2>4, <2>5, <1>9 DEF Types, start
<1>10. ASSUME NEW t \in Clients, startFails(t) PROVE Types'
  <2>1. used' \in Useds
    <3>1. PICK n \in 0..MaxFaults : n = used.faults + 1
        BY <1>10, CompressAssumption DEF startFails, Count, Types, Useds
    <3>2. used' = [used EXCEPT !.faults = n]
        BY <1>10, <3>1 DEF startFails, Count
    <3> QED BY <3>2 DEF Types, Useds
  <2>2. wk' \in Wks
      BY <1>10 DEF startFails, Types, Wks, Commands, Events, Sess, Drvs
  <2>3. ses' \in Sess BY <1>10 DEF startFails, Types, Sess, Commands
  <2> QED BY <2>1, <2>2, <2>3, <1>10 DEF Types, startFails
<1>11. ASSUME NEW t \in Clients, write(t) PROVE Types'
  <2>1. drv' \in Drvs
    <3>1. CASE UNCHANGED drv
        BY <3>1 DEF Types
    <3>2. CASE \E bytes \in {"all", "some", "none"} : SessionWrites(bytes)
      <4>1. PICK bytes \in {"all", "some", "none"} : SessionWrites(bytes)
          BY <3>2
      <4>2. PICK f \in BOOLEAN, r \in BOOLEAN, s \in BOOLEAN :
               drv' = [drv EXCEPT !.full = f, !.running = r, !.stopped = s]
          BY <4>1, Zenon DEF SessionWrites
      <4> QED BY <4>2 DEF Types, Drvs
    <3> QED BY <1>11, <3>1, <3>2 DEF write, writeAlways
  <2>2. ses' \in Sess
      BY <1>11 DEF write, writeAlways, SessionWrites, Types, Sess, Commands
  <2>3. queue' \in Seq(Commands)
    <3>1. \A m \in Commands : Append(queue, m) \in Seq(Commands)
        BY DEF Types
    <3> QED BY <1>11, <3>1 DEF Types, Commands, write, writeAlways, SessionWrites,
        Posted
  <2>4. seen' \in Seens BY <1>11 DEF write, writeAlways, SessionWrites, Types, Seens
  <2>5. used' \in Useds
    <3>1. PICK n \in 0..MaxWrites : n = used.writes + 1
        BY <1>11, CompressAssumption DEF write, writeAlways, Count, Types, Useds
    <3>2. used' = [used EXCEPT !.writes = n]
        BY <1>11, <3>1 DEF write, writeAlways, Count
    <3> QED BY <3>2 DEF Types, Useds
  <2>6. str' \in Strs
      BY <1>11 DEF write, writeAlways, Started, Types, Strs, Lock, Threads
  <2>7. pc' \in [Threads -> Places]
      BY <1>11 DEF write, writeAlways, Started, Goto, Types, Places, Threads
  <2> QED BY <2>1, <2>2, <2>3, <2>4, <2>5, <2>6, <2>7, <1>11 DEF Types, write,
      writeAlways
<1>12. ASSUME NEW t \in Clients, writeFails(t) PROVE Types'
  <2>1. used' \in Useds
    <3>1. PICK n \in 0..MaxWrites : n = used.writes + 1
        BY <1>12, CompressAssumption DEF writeFails, Count, Types, Useds
    <3>2. used' = [used EXCEPT !.writes = n]
        BY <1>12, <3>1 DEF writeFails, Count
    <3> QED BY <3>2 DEF Types, Useds
  <2>2. card' \in Cards
    <3> DEFINE Q == {"ONLINE", "OFFLINE"}
    <3>0. card.msgQ \in Seq(Q)
        BY DEF Types, Cards
    <3>1. PICK q \in Seq(Q) : q = Append(card.msgQ, "OFFLINE")
        BY <3>0, AppendProperties
    <3>2. card' = [card EXCEPT !.msgQ = q]
        BY <1>12, <3>1 DEF writeFails
    <3> QED BY <3>2 DEF Types, Cards, Lock, Threads
  <2> QED BY <2>1, <2>2, <1>12 DEF Types, writeFails
<1>12a. ASSUME NEW t \in Clients, startReports(t) PROVE Types'
  <2>1. used' \in Useds
    <3>1. PICK n \in 0..MaxControls : n = used.controls + 1
        BY <1>12a, CompressAssumption DEF startReports, Count, Types, Useds
    <3>2. used' = [used EXCEPT !.controls = n]
        BY <1>12a, <3>1 DEF startReports, Count
    <3> QED BY <3>2 DEF Types, Useds
  <2>2. card' \in Cards
    <3> DEFINE Q == {"ONLINE", "OFFLINE"}
    <3>0. card.msgQ \in Seq(Q)
        BY DEF Types, Cards
    <3>1. PICK q \in Seq(Q) : q = Append(card.msgQ, "OFFLINE")
        BY <3>0, AppendProperties
    <3>2. card' = [card EXCEPT !.msgQ = q]
        BY <1>12a, <3>1 DEF startReports
    <3> QED BY <3>2 DEF Types, Cards, Lock, Threads
  <2> QED BY <2>1, <2>2, <1>12a DEF Types, startReports
<1>13. ASSUME NEW t \in Clients, drain(t) PROVE Types'
  <2>1. used' \in Useds
    <3>1. PICK n \in 0..MaxDrains : n = used.drains + 1
        BY <1>13, CompressAssumption DEF drain, Count, Types, Useds
    <3>2. used' = [used EXCEPT !.drains = n]
        BY <1>13, <3>1 DEF drain, Count
    <3> QED BY <3>2 DEF Types, Useds
  <2>2. queue' \in Seq(Commands)
    <3>1. \A m \in Commands : Append(queue, m) \in Seq(Commands)
        BY DEF Types
    <3> QED BY <1>13, <3>1 DEF Types, Commands, drain, Posted
  <2>3. seen' \in Seens BY <1>13 DEF drain, Types, Seens
  <2> QED BY <2>1, <2>2, <2>3, <1>13 DEF Types, drain
<1>14. ASSUME NEW t \in Clients, pause(t) PROVE Types'
  <2>1. used' \in Useds
    <3>1. PICK n \in 0..MaxControls : n = used.controls + 1
        BY <1>14, CompressAssumption DEF pause, Count, Types, Useds
    <3>2. used' = [used EXCEPT !.controls = n]
        BY <1>14, <3>1 DEF pause, Count
    <3> QED BY <3>2 DEF Types, Useds
  <2>2. str' \in Strs BY <1>14 DEF pause, Types, Strs, Lock, Threads
  <2>3. drv' \in Drvs BY <1>14 DEF pause, Types, Drvs
  <2> QED BY <2>1, <2>2, <2>3, <1>14 DEF Types, pause
<1>15. ASSUME NEW t \in Clients, resume(t) PROVE Types'
  <2>1. used' \in Useds
    <3>1. PICK n \in 0..MaxControls : n = used.controls + 1
        BY <1>15, CompressAssumption DEF resume, Count, Types, Useds
    <3>2. used' = [used EXCEPT !.controls = n]
        BY <1>15, <3>1 DEF resume, Count
    <3> QED BY <3>2 DEF Types, Useds
  <2>2. str' \in Strs BY <1>15 DEF resume, Types, Strs, Lock, Threads
  <2>3. drv' \in Drvs BY <1>15 DEF resume, Types, Drvs
  <2> QED BY <2>1, <2>2, <2>3, <1>15 DEF Types, resume
<1>16. ASSUME NEW t \in Clients, flush(t) PROVE Types'
  <2>1. used' \in Useds
    <3>1. PICK n \in 0..MaxControls : n = used.controls + 1
        BY <1>16, CompressAssumption DEF flush, Count, Types, Useds
    <3>2. used' = [used EXCEPT !.controls = n]
        BY <1>16, <3>1 DEF flush, Count
    <3> QED BY <3>2 DEF Types, Useds
  <2>2. drv' \in Drvs BY <1>16 DEF flush, Ended, Types, Drvs
  <2>3. seen' \in Seens BY <1>16 DEF flush, Types, Seens
  <2> QED BY <2>1, <2>2, <2>3, <1>16 DEF Types, flush
<1>17. ASSUME NEW t \in Clients, pal_stream_stop(t) PROVE Types'
  <2>1. used' \in Useds
    <3>1. PICK n \in 0..MaxControls : n = used.controls + 1
        BY <1>17, CompressAssumption DEF pal_stream_stop, Count, Types, Useds
    <3>2. used' = [used EXCEPT !.controls = n]
        BY <1>17, <3>1 DEF pal_stream_stop, Count
    <3> QED BY <3>2 DEF Types, Useds
  <2>2. seen' \in Seens BY <1>17 DEF pal_stream_stop, Types, Seens
  <2>3. pc' \in [Threads -> Places]
      BY <1>17 DEF pal_stream_stop, Goto, Types, Places, Threads
  <2>4. after' \in [Threads -> {"idle", "close", "closing"}]
      BY <1>17 DEF pal_stream_stop, Types, Threads
  <2> QED BY <2>1, <2>2, <2>3, <2>4, <1>17 DEF Types, pal_stream_stop
<1>18. ASSUME NEW t \in Clients, pal_stream_close(t) PROVE Types'
  <2>1. seen' \in Seens BY <1>18 DEF pal_stream_close, Types, Seens
  <2>2. pc' \in [Threads -> Places]
      BY <1>18 DEF pal_stream_close, Goto, Types, Places, Threads
  <2> QED BY <2>1, <2>2, <1>18 DEF Types, pal_stream_close
<1>19. ASSUME NEW t \in Threads, Register(t) PROVE Types'
  <2>1. str' \in Strs BY <1>19 DEF Register, Types, Strs, Lock, Threads
  <2>2. pc' \in [Threads -> Places]
      BY <1>19 DEF Register, Goto, Types, Places, Threads
  <2> QED BY <2>1, <2>2, <1>19 DEF Types, Register
<1>20. ASSUME NEW t \in Threads, stop(t) PROVE Types'
  <2>1. pc' \in [Threads -> Places] BY <1>20 DEF stop, Goto, Types, Places, Threads
  <2> QED BY <2>1, <1>20 DEF Types, stop
<1>21. ASSUME NEW t \in Threads, Stopping(t) PROVE Types'
  <2>1. str' \in Strs BY <1>21 DEF Stopping, Types, Strs, Lock, Threads
  <2>2. drv' \in Drvs
      BY <1>21 DEF Stopping, SessionStops, compress_stop, Ended, Types, Drvs
  <2>3. ses' \in Sess BY <1>21 DEF Stopping, SessionStops, Types, Sess, Commands
  <2>4. seen' \in Seens BY <1>21 DEF Stopping, Types, Seens
  <2>5. pc' \in [Threads -> Places]
      BY <1>21 DEF Stopping, Goto, Types, Places, Threads
  <2> QED BY <2>1, <2>2, <2>3, <2>4, <2>5, <1>21 DEF Types, Stopping
<1>22. ASSUME NEW t \in Threads, close(t) PROVE Types'
  <2>1. pc' \in [Threads -> Places]
      BY <1>22 DEF close, Goto, CloseSession, CloseReturned, Types, Places, Threads
  <2>2. str' \in Strs BY <1>22 DEF close, CloseSession, Types, Strs, Lock, Threads
  <2>3. after' \in [Threads -> {"idle", "close", "closing"}]
      BY <1>22 DEF close, CloseSession, Types, Threads
  <2>4. queue' \in Seq(Commands)
    <3>1. queue \o LastMessages \in Seq(Commands)
        BY LastTyped, ConcatProperties DEF Types
    <3> QED BY <1>22, <3>1 DEF Types, close, CloseSession
  <2>5. seen' \in Seens BY <1>22 DEF close, CloseSession, Types, Seens
  <2> QED BY <2>1, <2>2, <2>3, <2>4, <2>5, <1>22 DEF Types, close
<1>23. ASSUME NEW t \in Threads, Closing(t) PROVE Types'
  <2>1. pc' \in [Threads -> Places]
      BY <1>23 DEF Closing, Goto, CloseSession, Types, Places, Threads
  <2>2. str' \in Strs BY <1>23 DEF Closing, CloseSession, Types, Strs, Lock, Threads
  <2>3. queue' \in Seq(Commands)
    <3>1. queue \o LastMessages \in Seq(Commands)
        BY LastTyped, ConcatProperties DEF Types
    <3> QED BY <1>23, <3>1 DEF Types, Closing, CloseSession
  <2>4. seen' \in Seens BY <1>23 DEF Closing, CloseSession, Types, Seens
  <2> QED BY <2>1, <2>2, <2>3, <2>4, <1>23 DEF Types, Closing, CloseSession
<1>24. ASSUME NEW t \in Threads, Join(t) PROVE Types'
  <2>1. pc' \in [Threads -> Places]
      BY <1>24 DEF Join, Goto, CloseReturned, Types, Places, Threads
  <2>2. str' \in Strs BY <1>24 DEF Join, Types, Strs, Lock, Threads
  <2>3. ses' \in Sess BY <1>24 DEF Join, Types, Sess, Commands
  <2>4. queue' \in Seq(Commands)
    <3>1. << >> \in Seq(Commands) OBVIOUS
    <3> QED BY <1>24, <3>1 DEF Types, Join
  <2>5. wk' \in Wks BY <1>24 DEF Join, Types, Wks, Commands, Events, Sess, Drvs
  <2> QED BY <2>1, <2>2, <2>3, <2>4, <2>5, <1>24 DEF Types, Join
<1>25. CASE HandleCardState
  <2>1. card' \in Cards
    <3> DEFINE Q == {"ONLINE", "OFFLINE"}
    <3>0. card.msgQ \in Seq(Q) /\ card.msgQ # << >>
        BY <1>25 DEF Types, Cards, HandleCardState
    <3>1. PICK q \in Seq(Q), m \in Q : q = Tail(card.msgQ) /\ m = Head(card.msgQ)
      <4>1. Tail(card.msgQ) \in Seq(Q) /\ Head(card.msgQ) \in Q
          BY <3>0, HeadTailProperties
      <4> QED BY <4>1, Zenon
    <3>2. PICK l \in {"ssr", "none"} :
             card' = [card EXCEPT !.msgQ = q, !.state = m, !.prev = m, !.active = l]
        BY <1>25, <3>1 DEF HandleCardState
    <3> QED BY <3>2 DEF Types, Cards, Lock, Threads
  <2>2. pc' \in [Threads -> Places]
      BY <1>25 DEF HandleCardState, Goto, Types, Places, Threads
  <2> QED BY <2>1, <2>2, <1>25 DEF Types, HandleCardState
<1>26. CASE ssrDownHandler
  <2>1. pc' \in [Threads -> Places]
      BY <1>26 DEF ssrDownHandler, Goto, Types, Places, Threads
  <2>2. after' \in [Threads -> {"idle", "close", "closing"}]
      BY <1>26 DEF ssrDownHandler, Types, Threads
  <2>3. card' \in Cards BY <1>26 DEF ssrDownHandler, Types, Cards, Lock, Threads
  <2> QED BY <2>1, <2>2, <2>3, <1>26 DEF Types, ssrDownHandler
<1>27. CASE Relock
  <2>1. pc' \in [Threads -> Places]
      BY <1>27 DEF Relock, Goto, Types, Places, Threads
  <2>2. str' \in Strs BY <1>27 DEF Relock, Types, Strs, Lock, Threads
  <2>3. card' \in Cards BY <1>27 DEF Relock, Types, Cards, Lock, Threads
  <2> QED BY <2>1, <2>2, <2>3, <1>27 DEF Types, Relock
<1> QED BY <1>1, <1>2, <1>3, <1>4, <1>5, <1>6, <1>7, <1>8, <1>9, <1>10, <1>11,
    <1>12, <1>12a, <1>13, <1>14, <1>15, <1>16, <1>17, <1>18, <1>19, <1>20, <1>21, <1>22,
    <1>23, <1>24, <1>25, <1>26, <1>27 DEF Next, Calling, Continue, Worker, Ssr

-----------------------------------------------------------------------------
(* The message queue. *)

\* A message at the end of msg_queue_ (Posted) keeps what the queue contains; it is the
\* head only of an empty queue, and unless it is OFFLOAD_CMD_EXIT no exit comes without
\* its error.
LEMMA QueueAppend ==
    ASSUME NEW q \in Seq(Commands), NEW m \in Commands
    PROVE  /\ Contains(Append(q, m), m)
           /\ \A c : Contains(q, c) => Contains(Append(q, m), c)
           /\ m # "EXIT" /\ Warned(q) => Warned(Append(q, m))
           /\ Append(q, m) # << >>
           /\ Head(Append(q, m)) = IF q = << >> THEN m ELSE Head(q)
<1> DEFINE a == Append(q, m)
<1>1. /\ a \in Seq(Commands) /\ Len(a) = Len(q) + 1 /\ a[Len(q) + 1] = m
      /\ \A i \in 1..Len(q) : a[i] = q[i]
    BY AppendProperties
<1>2. Len(q) \in Nat /\ (q = << >> <=> Len(q) = 0)
    OBVIOUS
<1>3. a # << >> /\ Head(a) = a[1] /\ (q # << >> => Head(q) = q[1])
    BY <1>1, <1>2
<1> HIDE DEF a
<1>4. Contains(a, m) /\ \A c : Contains(q, c) => Contains(a, c)
    BY <1>1, <1>2 DEF Contains
<1>5. m # "EXIT" /\ Warned(q) => Warned(a)
    BY <1>1, <1>2 DEF Warned
<1>6. Head(a) = IF q = << >> THEN m ELSE Head(q)
    BY <1>1, <1>2, <1>3
<1> QED BY <1>3, <1>4, <1>5, <1>6 DEF a

\* Taking the first message (offloadThreadLoop) loses only that message; when the next
\* one is OFFLOAD_CMD_EXIT, the one taken was the error.
LEMMA QueueTail ==
    ASSUME NEW q \in Seq(Commands), q # << >>
    PROVE  /\ \A c : Contains(q, c) /\ c # Head(q) => Contains(Tail(q), c)
           /\ Warned(q) => Warned(Tail(q))
           /\ Warned(q) /\ Tail(q) # << >> /\ Head(Tail(q)) = "EXIT" => Head(q) = "ERROR"
<1> DEFINE a == Tail(q)
<1>1. /\ a \in Seq(Commands) /\ Len(a) = Len(q) - 1 /\ Len(q) \in Nat \ {0}
      /\ \A i \in 1..Len(a) : a[i] = q[i + 1]
      /\ Head(q) = q[1] /\ (a # << >> => Head(a) = a[1] /\ Len(a) > 0)
    BY HeadTailProperties
<1> HIDE DEF a
<1>2. ASSUME NEW c, Contains(q, c), c # Head(q) PROVE Contains(a, c)
  <2>1. PICK i \in 1..Len(q) : q[i] = c
      BY <1>2 DEF Contains
  <2>2. i - 1 \in 1..Len(a) /\ a[i - 1] = c
      BY <1>1, <1>2, <2>1
  <2> QED BY <2>2 DEF Contains
<1>3. Warned(q) => Warned(a)
  <2> SUFFICES ASSUME Warned(q), NEW i \in 2..Len(a), a[i] = "EXIT"
               PROVE  a[i - 1] = "ERROR"
      BY DEF Warned
  <2>1. i \in 1..Len(a) /\ i - 1 \in 1..Len(a) /\ i + 1 \in 2..Len(q)
      BY <1>1
  <2>2. a[i] = q[i + 1] /\ a[i - 1] = q[i]
      BY <1>1, <2>1
  <2>3. q[i + 1] = "EXIT" => q[(i + 1) - 1] = "ERROR"
      BY <2>1 DEF Warned
  <2> QED BY <2>2, <2>3
<1>4. Warned(q) /\ a # << >> /\ Head(a) = "EXIT" => Head(q) = "ERROR"
    BY <1>1 DEF Warned
<1> QED BY <1>2, <1>3, <1>4 DEF a

\* The messages of SessionAlsaCompress::close end the thread; with the card down the error
\* comes just before the exit.
LEMMA QueueEnds ==
    ASSUME NEW q \in Seq(Commands)
    PROVE  /\ Contains(q \o LastMessages, "EXIT") /\ q \o LastMessages # << >>
           /\ Down /\ Warned(q) => Warned(q \o LastMessages)
           /\ Down => Head(q \o LastMessages) = IF q = << >> THEN "ERROR" ELSE Head(q)
<1> DEFINE l == LastMessages
<1>1. /\ l \in Seq(Commands) /\ Len(l) \in {1, 2} /\ l[Len(l)] = "EXIT"
      /\ Down => Len(l) = 2 /\ l[1] = "ERROR"
  <2>1. CASE Down
    <3>1. l = <<"ERROR", "EXIT">>
        BY <2>1 DEF LastMessages
    <3>2. /\ <<"ERROR", "EXIT">> \in Seq(Commands)
          /\ Len(<<"ERROR", "EXIT">>) = 2
          /\ <<"ERROR", "EXIT">>[1] = "ERROR" /\ <<"ERROR", "EXIT">>[2] = "EXIT"
        BY DEF Commands
    <3> HIDE DEF l
    <3> QED BY <3>1, <3>2
  <2>2. CASE ~Down
    <3>1. l = <<"EXIT">>
        BY <2>2 DEF LastMessages
    <3>2. /\ <<"EXIT">> \in Seq(Commands)
          /\ Len(<<"EXIT">>) = 1 /\ <<"EXIT">>[1] = "EXIT"
        BY DEF Commands
    <3> HIDE DEF l
    <3> QED BY <2>2, <3>1, <3>2
  <2> QED BY <2>1, <2>2
<1> HIDE DEF l
<1> DEFINE a == q \o l
<1>2. /\ a \in Seq(Commands) /\ Len(a) = Len(q) + Len(l) /\ Len(q) \in Nat
      /\ \A i \in 1..Len(q) + Len(l) : a[i] = IF i <= Len(q) THEN q[i] ELSE l[i - Len(q)]
      /\ (q = << >> <=> Len(q) = 0)
    BY <1>1, ConcatProperties
<1> HIDE DEF a
<1>0. Len(a) \in Nat \ {0} /\ Len(a) <= Len(q) + 2
    BY <1>1, <1>2
<1>3. a # << >> /\ Head(a) = a[1] /\ (q # << >> => Head(q) = q[1])
    BY <1>0, <1>2
<1>4. a[Len(a)] = "EXIT" /\ Len(a) \in 1..Len(a)
  <2>1. Len(a) \in 1..Len(q) + Len(l) /\ ~(Len(a) <= Len(q)) /\ Len(a) - Len(q) = Len(l)
    <3>1. PICK n \in Nat, k \in {1, 2} : n = Len(q) /\ k = Len(l) /\ Len(a) = n + k
        BY <1>1, <1>2
    <3>2. n + k \in 1..n + k /\ ~(n + k <= n) /\ n + k - n = k
        OBVIOUS
    <3> QED BY <3>1, <3>2
  <2>2. a[Len(a)] = l[Len(a) - Len(q)]
      BY <1>2, <2>1
  <2> QED BY <1>0, <1>1, <2>1, <2>2
<1>5. Contains(a, "EXIT")
    BY <1>4 DEF Contains
<1>6. Down /\ Warned(q) => Warned(a)
  <2> SUFFICES ASSUME Down, Warned(q), NEW i \in 2..Len(a), a[i] = "EXIT"
               PROVE  a[i - 1] = "ERROR"
      BY DEF Warned
  <2>1. CASE i <= Len(q)
      BY <1>2, <2>1 DEF Warned
  <2>2. CASE i = Len(q) + 1
      BY <1>1, <1>2, <2>2
  <2>3. CASE i = Len(q) + 2
      BY <1>1, <1>2, <2>3
  <2>4. i <= Len(q) \/ i = Len(q) + 1 \/ i = Len(q) + 2
    <3>1. PICK n \in Nat, k \in Nat : n = Len(q) /\ k = Len(a) /\ k <= n + 2
        BY <1>0, <1>2
    <3> QED BY <3>1
  <2> QED BY <2>1, <2>2, <2>3, <2>4
<1>7. Down => Head(a) = IF q = << >> THEN "ERROR" ELSE Head(q)
    BY <1>1, <1>2, <1>3
<1> QED BY <1>3, <1>5, <1>6, <1>7 DEF a, l

-----------------------------------------------------------------------------
(* What the longer actions change. *)

\* What taking a message changes: the thread ends on OFFLOAD_CMD_EXIT and leaves command
\* alone, otherwise both remember the message.
LEMMA PopDoes ==
    ASSUME Types, Pop
    PROVE  /\ UNCHANGED <<str, pc, after, drv, card, seen, used>>
           /\ wk.at = "idle" /\ queue # << >> /\ queue' = Tail(queue)
           /\ wk'.msg = Head(queue) /\ wk'.event = wk.event
           /\ wk'.at = IF Head(queue) = "EXIT" THEN "exited" ELSE "popped"
           /\ ses'.compress = ses.compress
           /\ ses'.playback_started = ses.playback_started
           /\ ses'.command = IF Head(queue) = "EXIT" THEN ses.command ELSE Head(queue)
<1>1. PICK m : m = Head(queue)
    OBVIOUS
<1>2. CASE m = "EXIT"
    BY <1>1, <1>2 DEF Pop, Types, Wks
<1>3. CASE m # "EXIT"
    BY <1>1, <1>3 DEF Pop, Types, Wks, Sess
<1> QED BY <1>2, <1>3

\* What the thread does with a message: a call of the driver with the card up, or the
\* callback or nothing; a message about the room is dropped only with the card down.
LEMMA CallDoes ==
    ASSUME Types, Call
    PROVE  /\ UNCHANGED <<str, pc, after, queue, card, seen, used>>
           /\ wk.at = "popped" /\ wk'.msg = wk.msg /\ ses' = ses
           /\ drv'.running = drv.running /\ drv'.full = drv.full
           /\ drv'.broken = drv.broken
           /\ \/ /\ wk'.at = "call" /\ wk.msg # "ERROR" /\ ~Down
                 /\ drv'.call \in {"blocked", "ok", "cancel", "error"}
                 /\ drv'.call = "cancel" => drv.broken
                 /\ drv'.call = "blocked" => drv.running \/ (drv.full /\ ~drv.broken)
              \/ /\ wk'.at \in {"idle", "callback"} /\ drv'.call = drv.call
                 /\ wk.msg = "ERROR" => wk'.at = "callback" /\ wk'.event = "ERROR"
                 /\ wk.msg = "WAIT_FOR_BUFFER" => Down
<1>0. wk.at = "popped" /\ UNCHANGED <<str, pc, after, queue, card, seen, used>>
    BY DEF Call
<1>1. CASE Calls(wk.msg)
  <2>1. PICK r : r = CallResult(wk.msg)
      OBVIOUS
  <2>2. /\ drv' = [drv EXCEPT !.call = r] /\ ses' = ses
        /\ wk' = [wk EXCEPT !.at = "call"]
      BY <1>1, <2>1 DEF Call
  <2>3. /\ r \in {"blocked", "ok", "cancel", "error"}
        /\ r = "cancel" => drv.broken
        /\ r = "blocked" => drv.running \/ (drv.full /\ ~drv.broken)
      BY <2>1 DEF CallResult
  <2>4. wk.msg # "ERROR" /\ ~Down
      BY <1>1 DEF Calls
  <2> QED BY <1>0, <2>2, <2>3, <2>4 DEF Types, Wks, Drvs
<1>2. CASE ~Calls(wk.msg)
  <2>1. PICK m, r :
          m \in Commands /\ m = wk.msg /\ r = wk.ret /\ Report(m, r, FALSE)
      BY <1>2 DEF Types, Wks, Call
  <2>2. PICK event \in Events, d \in BOOLEAN :
          /\ wk' = [wk EXCEPT !.at = IF m # "ERROR" /\ r = "cancel"
                                     THEN "idle" ELSE "callback",
                              !.ret = r, !.event = event, !.is_drain_called = d]
          /\ m = "ERROR" => event = "ERROR"
    <3>1. Reported(m, r, FALSE)
        BY <2>1, ReportIs
    <3> QED BY <3>1 DEF Reported
  <2>3. drv' = drv /\ ses' = ses
      BY <1>2 DEF Call, Report, ResetCommand
  <2>4. m = "WAIT_FOR_BUFFER" => Down
      BY <1>2, <2>1 DEF Calls
  <2>5. /\ wk'.at = IF m # "ERROR" /\ r = "cancel" THEN "idle" ELSE "callback"
        /\ wk'.event = event /\ wk'.msg = m
      BY <2>1, <2>2 DEF Types, Wks
  <2> QED BY <1>0, <2>1, <2>2, <2>3, <2>4, <2>5
<1> QED BY <1>1, <1>2

\* What a write of the stream changes, for every outcome of the driver: the stream plays or
\* is paused, and a writer that must wait has posted a message or seen that the thread
\* waits already.
LEMMA WriteDoes ==
    ASSUME Types, NEW t \in Clients, write(t)
    PROVE  /\ UNCHANGED <<after, wk, card>>
           /\ ~Down /\ ses.compress /\ str.mutex = "none"
           /\ pc[t] = "idle" /\ seen.opened /\ \A c \in Clients : pc[c] # "closed"
           /\ str.st \in {"OPENED", "STARTED", "PAUSED"}
           /\ str'.mutex = str.mutex
           /\ \/ str'.st = "STARTED" /\ pc' = [pc EXCEPT ![t] = "register"]
              \/ str'.st = str.st /\ pc' = pc /\ str.st \in {"STARTED", "PAUSED"}
           /\ drv'.call = drv.call /\ drv'.broken = drv.broken
           /\ ses'.compress = ses.compress /\ ses'.command = ses.command
           /\ \A f \in {"opened", "started", "hurt", "error", "closing"} :
                 seen'[f] = seen[f]
           /\ \/ /\ UNCHANGED <<drv, ses, queue, seen>> /\ drv.broken
              \/ /\ ~drv.broken
                 /\ drv.running => drv'.running
                 /\ drv'.running \/ drv'.full =>
                       ses'.playback_started \/ drv.running \/ drv.full
                 /\ ses.playback_started => ses'.playback_started
                 /\ drv'.full => drv'.running \/ drv.full
                 /\ \/ /\ queue' = Append(queue, "WAIT_FOR_BUFFER")
                       /\ ses.command # "WAIT_FOR_BUFFER"
                    \/ /\ queue' = queue
                       /\ seen'.waiting => ses.command = "WAIT_FOR_BUFFER" /\ ~seen.closing
<1>1. /\ UNCHANGED <<after, wk, card>>
      /\ ~Down /\ ses.compress /\ str.mutex = "none"
      /\ pc[t] = "idle" /\ seen.opened /\ \A c \in Clients : pc[c] # "closed"
      /\ str.st \in {"OPENED", "STARTED", "PAUSED"}
    BY DEF write, writeAlways, MayCall, Free
<1>2. /\ str'.mutex = str.mutex
      /\ \/ str'.st = "STARTED" /\ pc' = [pc EXCEPT ![t] = "register"]
         \/ str'.st = str.st /\ pc' = pc /\ str.st \in {"STARTED", "PAUSED"}
  <2>1. Started(t)
      BY DEF write, writeAlways
  <2> QED BY <2>1, <1>1 DEF Started, Goto, Types, Strs
<1>3. CASE drv.broken /\ UNCHANGED <<drv, ses, queue, seen>>
    BY <1>1, <1>2, <1>3
<1>4. CASE ~drv.broken /\ \E b \in {"all", "some", "none"} : SessionWrites(b)
  <2>1. PICK b \in {"all", "some", "none"} : SessionWrites(b)
      BY <1>4
  <2>2. /\ drv'.call = drv.call /\ drv'.broken = drv.broken
        /\ drv'.full = (b # "all")
        /\ drv'.running = (drv.running \/ b # "none")
      BY <2>1 DEF SessionWrites, Types, Drvs
  <2>3. /\ ses'.compress = ses.compress /\ ses'.command = ses.command
        /\ ses'.playback_started = (ses.playback_started \/ b # "none")
      BY <2>1 DEF SessionWrites, Types, Sess
  <2>4. /\ \A f \in {"opened", "started", "hurt", "error", "closing"} :
              seen'[f] = seen[f]
        /\ seen'.waiting = (b # "all" /\ ~seen.closing)
      BY <2>1 DEF SessionWrites, Types, Seens
  <2>5. /\ b = "none" <=> drv.full
        /\ queue' = IF b # "all" /\ ses.command # "WAIT_FOR_BUFFER"
                    THEN Append(queue, "WAIT_FOR_BUFFER") ELSE queue
      BY <2>1 DEF SessionWrites, Posted
  <2> QED BY <1>1, <1>2, <1>4, <2>2, <2>3, <2>4, <2>5
<1> QED BY <1>3, <1>4 DEF write, writeAlways

\* What StreamCompress::drain changes: one more message, and nobody waits for room more or
\* less than before.
LEMMA DrainDoes ==
    ASSUME Types, NEW t \in Clients, drain(t)
    PROVE  /\ UNCHANGED <<str, pc, after, ses, wk, drv, card>>
           /\ ~Down /\ ses.compress
           /\ \E m \in {"DRAIN", "PARTIAL_DRAIN"} : queue' = Append(queue, m)
           /\ \A f \in {"waiting", "opened", "started", "hurt", "error", "closing"} :
                 seen'[f] = seen[f]
BY DEF drain, Posted, Types, Seens, MayCall

\* What pause changes: with the card up the state becomes PAUSED, with the card down it
\* stays.
LEMMA PauseDoes ==
    ASSUME Types, NEW t \in Clients, pause(t)
    PROVE  /\ UNCHANGED <<pc, after, ses, queue, wk, card, seen>>
           /\ pc[t] = "idle" /\ str.mutex = "none" /\ seen.started /\ seen.opened
           /\ \A c \in Clients : pc[c] # "closed"
           /\ str'.mutex = str.mutex
           /\ str'.st = IF Down THEN str.st ELSE "PAUSED"
           /\ \A f \in {"running", "stopped", "full", "broken", "call"} : drv'[f] = drv[f]
<1>1. /\ UNCHANGED <<pc, after, ses, queue, wk, card, seen>>
      /\ pc[t] = "idle" /\ str.mutex = "none" /\ seen.started /\ seen.opened
      /\ \A c \in Clients : pc[c] # "closed"
    BY DEF pause, MayCall, Free
<1>2. CASE Down
    BY <1>1, <1>2 DEF pause, Types, Strs
<1>3. CASE ~Down
  <2>1. str'.mutex = str.mutex /\ str'.st = "PAUSED"
      BY <1>3 DEF pause, Types, Strs
  <2>2. \A f \in {"running", "stopped", "full", "broken", "call"} : drv'[f] = drv[f]
      BY <1>3 DEF pause, Types, Drvs
  <2> QED BY <1>1, <1>3, <2>1, <2>2
<1> QED BY <1>2, <1>3

\* What the second half of stop changes: the state is STOPPED, and a playback that began is
\* stopped, which ends the driver call the thread is blocked in.
LEMMA StoppingDoes ==
    ASSUME Types, NEW t \in Threads, Stopping(t)
    PROVE  /\ UNCHANGED <<after, queue, wk, card>>
           /\ pc[t] = "stopping" /\ card.active = "none" /\ str.mutex = "none"
           /\ str'.mutex = "none" /\ str'.st = "STOPPED"
           /\ pc' = [pc EXCEPT ![t] = after[t]]
           /\ \A f \in {"opened", "started", "hurt", "error", "closing"} :
                 seen'[f] = seen[f]
           /\ ~seen'.waiting
           /\ ses'.compress = ses.compress /\ ses'.command = ses.command
           /\ drv'.broken = drv.broken
           /\ \/ /\ ~drv'.running /\ ~drv'.full /\ ~ses'.playback_started
                 /\ drv'.call = IF drv.call = "blocked" THEN "cancel" ELSE drv.call
              \/ drv' = drv /\ ses' = ses /\ ~(ses.compress /\ ses.playback_started)
<1>1. /\ UNCHANGED <<after, queue, wk, card>>
      /\ pc[t] = "stopping" /\ card.active = "none" /\ str.mutex = "none"
      /\ pc' = [pc EXCEPT ![t] = after[t]]
    BY DEF Stopping, Free, Goto
<1>2. str'.mutex = "none" /\ str'.st = "STOPPED"
    BY <1>1 DEF Stopping, Types, Strs
<1>3. /\ \A f \in {"opened", "started", "hurt", "error", "closing"} : seen'[f] = seen[f]
      /\ ~seen'.waiting
    BY DEF Stopping, Types, Seens
<1>4. CASE ses.compress /\ ses.playback_started
  <2>1. ses'.compress = ses.compress /\ ses'.command = ses.command /\ ~ses'.playback_started
      BY <1>4 DEF Stopping, SessionStops, Types, Sess
  <2>2. /\ ~drv'.running /\ ~drv'.full /\ drv'.broken = drv.broken
        /\ drv'.call = IF drv.call = "blocked" THEN "cancel" ELSE drv.call
      BY <1>4 DEF Stopping, SessionStops, compress_stop, Ended, Types, Drvs
  <2> QED BY <1>1, <1>2, <1>3, <1>4, <2>1, <2>2
<1>5. CASE ~(ses.compress /\ ses.playback_started)
  <2>1. drv' = drv /\ ses' = ses
      BY <1>5 DEF Stopping, SessionStops
  <2> QED BY <1>1, <1>2, <1>3, <1>5, <2>1
<1> QED BY <1>4, <1>5

\* What session->close changes up to the join: mStreamMutex is held, the last messages are
\* queued if the session has a thread.
LEMMA CloseSessionDoes ==
    ASSUME Types, NEW t \in Threads, CloseSession(t)
    PROVE  /\ pc' = [pc EXCEPT ![t] = "join"] /\ after' = after
           /\ str'.mutex = t /\ str'.st = str.st
           /\ queue' = IF ses.compress THEN queue \o LastMessages ELSE queue
           /\ \A f \in {"opened", "started", "hurt", "error", "closing"} :
                 seen'[f] = seen[f]
           /\ ~seen'.waiting
<1>1. str'.mutex = t /\ str'.st = str.st
    BY DEF CloseSession, Types, Strs
<1>2. /\ \A f \in {"opened", "started", "hurt", "error", "closing"} : seen'[f] = seen[f]
      /\ ~seen'.waiting
    BY DEF CloseSession, Types, Seens
<1> QED BY <1>1, <1>2 DEF CloseSession, Goto

\* The three ways through close: nothing to close, stop first, or the session at once.
LEMMA CloseDoes ==
    ASSUME Types, NEW t \in Threads, close(t)
    PROVE  /\ UNCHANGED <<ses, wk, drv, card>> /\ pc[t] = "close" /\ str.mutex = "none"
           /\ \/ /\ str.st = "IDLE" /\ pc' = [pc EXCEPT ![t] = CloseReturned(t)]
                 /\ UNCHANGED <<str, after, queue, seen>>
              \/ /\ str.st \in {"STARTED", "PAUSED"} /\ pc' = [pc EXCEPT ![t] = "stop"]
                 /\ after' = [after EXCEPT ![t] = "closing"]
                 /\ UNCHANGED <<str, queue, seen>>
              \/ str.st \in {"INIT", "OPENED", "STOPPED"} /\ CloseSession(t)
BY DEF close, Free, Goto, Types, Strs

\* What start changes: nothing, or a thread and a handle for a session that had none.
LEMMA StartDoes ==
    ASSUME Types, NEW t \in Clients, start(t)
    PROVE  /\ UNCHANGED <<pc, after, queue, card>>
           /\ pc[t] = "idle" /\ ~seen.closing /\ seen.opened /\ str.mutex = "none" /\ ~Down
           /\ \A c \in Clients : pc[c] # "closed"
           /\ str.st \in {"INIT", "STOPPED"}
           /\ str'.mutex = "none" /\ ses'.command = ses.command
           /\ ses'.playback_started = ses.playback_started
           /\ \A f \in {"waiting", "opened", "hurt", "error", "closing"} :
                 seen'[f] = seen[f]
           /\ \A f \in {"running", "full", "broken", "call"} : drv'[f] = drv[f]
           /\ \A f \in {"msg", "event"} : wk'[f] = wk[f]
           /\ \/ /\ UNCHANGED <<str, ses, wk, drv>> /\ seen'.started = seen.started
              \/ /\ wk.at = "none" /\ wk'.at = "idle" /\ ses'.compress
                 /\ str'.st = "OPENED" /\ seen'.started /\ ~drv.broken
<1>1. /\ UNCHANGED <<pc, after, queue, card>>
      /\ pc[t] = "idle" /\ ~seen.closing /\ seen.opened /\ str.mutex = "none" /\ ~Down
      /\ \A c \in Clients : pc[c] # "closed"
      /\ str.st \in {"INIT", "STOPPED"}
    BY DEF start, MayCall, Free
<1>2. CASE UNCHANGED <<str, ses, wk, drv>>
             /\ seen' \in {seen, [seen EXCEPT !.terminated = TRUE]}
    BY <1>1, <1>2 DEF Types, Seens
<1>3. CASE /\ ~drv.broken /\ wk.at = "none"
           /\ wk' = [wk EXCEPT !.at = "idle"]
           /\ ses' = [ses EXCEPT !.compress = TRUE]
           /\ drv' = [drv EXCEPT !.stopped = FALSE]
           /\ str' = [str EXCEPT !.st = "OPENED"]
           /\ seen' = [seen EXCEPT !.started = TRUE]
  <2>1. str'.mutex = "none" /\ str'.st = "OPENED"
      BY <1>1, <1>3 DEF Types, Strs
  <2>2. ses'.command = ses.command /\ ses'.compress
        /\ ses'.playback_started = ses.playback_started
      BY <1>3 DEF Types, Sess
  <2>3. /\ \A f \in {"waiting", "opened", "hurt", "error", "closing"} :
              seen'[f] = seen[f]
        /\ seen'.started
      BY <1>3 DEF Types, Seens
  <2>4. \A f \in {"running", "full", "broken", "call"} : drv'[f] = drv[f]
      BY <1>3 DEF Types, Drvs
  <2>5. wk'.at = "idle" /\ \A f \in {"msg", "event"} : wk'[f] = wk[f]
      BY <1>3 DEF Types, Wks
  <2> QED BY <1>1, <1>3, <2>1, <2>2, <2>3, <2>4, <2>5
<1> QED BY <1>2, <1>3, Zenon DEF start

\* What the end of session->close changes: the thread has ended and the session is gone.
LEMMA JoinDoes ==
    ASSUME Types, NEW t \in Threads, Join(t)
    PROVE  /\ UNCHANGED <<after, drv, card, seen>> /\ pc[t] = "join"
           /\ pc' = [pc EXCEPT ![t] = CloseReturned(t)]
           /\ ses.compress => wk.at = "exited"
           /\ str'.mutex = "none" /\ str'.st = "IDLE"
           /\ ~ses'.compress /\ ses'.command = ses.command
           /\ \/ ses.compress /\ queue' = << >> /\ wk'.at = "none" /\ wk'.msg = wk.msg
              \/ ~ses.compress /\ queue' = queue /\ wk' = wk
<1>1. str'.mutex = "none" /\ str'.st = "IDLE"
    BY DEF Join, Types, Strs
<1>2. ~ses'.compress /\ ses'.command = ses.command
    BY DEF Join, Types, Sess
<1>3. \/ ses.compress /\ queue' = << >> /\ wk'.at = "none" /\ wk'.msg = wk.msg
      \/ ~ses.compress /\ queue' = queue /\ wk' = wk
    BY DEF Join, Types, Wks
<1> QED BY <1>1, <1>2, <1>3 DEF Join, Goto

\* What open changes: the stream is INIT, or stays closed; the driver does not play.
LEMMA OpenDoes ==
    ASSUME Types, NEW t \in Clients, open(t)
    PROVE  /\ UNCHANGED <<pc, after, ses, queue, wk, card>>
           /\ ~seen.opened /\ ~Down
           /\ str'.st \in {str.st, "INIT"}
           /\ \A f \in {"running", "full", "call"} : drv'[f] = drv[f]
<1>1. \/ drv' = drv /\ str' = str
      \/ drv' = [drv EXCEPT !.broken = ~card.dsp] /\ str' = [str EXCEPT !.st = "INIT"]
    BY DEF open
<1>2. str'.st \in {str.st, "INIT"}
    BY <1>1 DEF Types, Strs
<1>3. \A f \in {"running", "full", "call"} : drv'[f] = drv[f]
    BY <1>1 DEF Types, Drvs
<1> QED BY <1>2, <1>3 DEF open

-----------------------------------------------------------------------------
(* The parts of the invariant, action by action. *)

\* A step keeps which threads are in which call: one client closes, stop and close are only
\* called of a stream that was opened, and nobody stops while the client has a started one.
LEMMA CallsStep ==
    ASSUME Types, CallsOK, LocksOK, StateOK, ThreadOK, Next
    PROVE  CallsOK'
<1>1. CASE Play
    BY <1>1 DEF Play, Ended, Types, Drvs, CallsOK, Stop, Down
<1>2. CASE Crash
    BY <1>2 DEF Crash, Ended, Types, Cards, Drvs, Seens, CallsOK, Stop, Down
<1>3. CASE Recover
    BY <1>3 DEF Recover, Types, Cards, CallsOK, Stop, Down
<1>4. CASE Pop
    BY <1>4, PopDoes, CompressAssumption DEF Types, Threads, Places, CallsOK,
       LocksOK, Stop, Down
<1>5. CASE Call
    BY <1>5, CallDoes, CompressAssumption DEF Types, Threads, Places, CallsOK,
       LocksOK, Stop, Down
<1>6. CASE Return
    BY <1>6 DEF Return, Report, ResetCommand, Silent, Types, Wks, Sess, Drvs,
       CallsOK, Stop, Down
<1>7. CASE Callback
    BY <1>7 DEF Callback, Types, Wks, Seens, CallsOK, Stop, Down
<1>8. ASSUME NEW t \in Clients, open(t) PROVE CallsOK'
    BY <1>8 DEF open, Types, Seens, Strs, Drvs, CallsOK, Stop, Down
<1>9. ASSUME NEW t \in Clients, start(t) PROVE CallsOK'
  <2>1. CASE wk.at # "none"
      BY <1>9, <2>1, StartDoes DEF CallsOK, Threads, Stop
  <2>2. CASE wk.at = "none"
    <3>1. ~ses.compress
        BY <2>2 DEF ThreadOK
    <3>2. \A c \in Clients : pc[c] \notin Stop
        BY <1>9, <3>1, StartDoes DEF StateOK
    <3> QED BY <1>9, <3>2, StartDoes DEF CallsOK, Threads, Stop
  <2> QED BY <2>1, <2>2
<1>10. ASSUME NEW t \in Clients, startFails(t) PROVE CallsOK'
    BY <1>10 DEF startFails, Types, Wks, Sess, CallsOK, Stop, Down
<1>11. ASSUME NEW t \in Clients, write(t) PROVE CallsOK'
    BY <1>11, WriteDoes, CompressAssumption DEF Types, Threads, Places, CallsOK,
       LocksOK, Stop, Down
<1>12. ASSUME NEW t \in Clients, writeFails(t) PROVE CallsOK'
    BY <1>12 DEF writeFails, Types, Cards, CallsOK, Stop, Down
<1>12a. ASSUME NEW t \in Clients, startReports(t) PROVE CallsOK'
    BY <1>12a DEF startReports, Types, Cards, CallsOK, Stop, Down
<1>13. ASSUME NEW t \in Clients, drain(t) PROVE CallsOK'
    BY <1>13, DrainDoes, CompressAssumption DEF Types, Threads, Places, CallsOK,
       LocksOK, Stop, Down
<1>14. ASSUME NEW t \in Clients, pause(t) PROVE CallsOK'
    BY <1>14, PauseDoes, CompressAssumption DEF Types, Threads, Places, CallsOK,
       LocksOK, Stop, Down
<1>15. ASSUME NEW t \in Clients, resume(t) PROVE CallsOK'
    BY <1>15 DEF resume, Types, Strs, Drvs, CallsOK, Stop, Down
<1>16. ASSUME NEW t \in Clients, flush(t) PROVE CallsOK'
    BY <1>16 DEF flush, Ended, Types, Drvs, Seens, CallsOK, Stop, Down
<1>17. ASSUME NEW t \in Clients, pal_stream_stop(t) PROVE CallsOK'
    BY <1>17, CompressAssumption DEF pal_stream_stop, MayCall, Goto, Types, Seens,
       Threads, CallsOK, LocksOK, Stop, Down
<1>18. ASSUME NEW t \in Clients, pal_stream_close(t) PROVE CallsOK'
    BY <1>18, CompressAssumption DEF pal_stream_close, MayCall, Goto, Types, Seens,
       Threads, CallsOK, LocksOK, Stop, Down
<1>19. ASSUME NEW t \in Threads, Register(t) PROVE CallsOK'
    BY <1>19, CompressAssumption DEF Register, Goto, Types, Strs, Threads, CallsOK,
       Stop, Down
<1>20. ASSUME NEW t \in Threads, stop(t) PROVE CallsOK'
    BY <1>20, CompressAssumption DEF stop, Goto, Types, Threads, CallsOK, Stop, Down
<1>21. ASSUME NEW t \in Threads, Stopping(t) PROVE CallsOK'
  <2>1. /\ pc' = [pc EXCEPT ![t] = after[t]] /\ after' = after /\ pc[t] = "stopping"
        /\ \A f \in {"opened", "started", "closing"} : seen'[f] = seen[f]
        /\ ses'.compress = ses.compress
      BY <1>21, StoppingDoes
  <2>2. pc \in [Threads -> Places] /\ after \in [Threads -> {"idle", "close", "closing"}]
      BY DEF Types
  <2>3. seen.opened
      BY <2>1, CompressAssumption DEF CallsOK
  <2> QED BY <2>1, <2>2, <2>3, CompressAssumption DEF Threads, CallsOK, Stop
<1>22. ASSUME NEW t \in Threads, close(t) PROVE CallsOK'
  <2>0. /\ UNCHANGED <<ses, wk, drv, card>> /\ pc[t] = "close" /\ str.mutex = "none"
        /\ pc \in [Threads -> Places] /\ after \in [Threads -> {"idle", "close", "closing"}]
      BY <1>22, CloseDoes DEF Types
  <2>1. CASE str.st = "IDLE" /\ pc' = [pc EXCEPT ![t] = CloseReturned(t)]
             /\ UNCHANGED <<str, after, queue, seen>>
      BY <2>0, <2>1, CompressAssumption DEF CloseReturned, Threads, Places, CallsOK,
         LocksOK, Stop, Down
  <2>2. CASE /\ str.st \in {"STARTED", "PAUSED"} /\ pc' = [pc EXCEPT ![t] = "stop"]
             /\ after' = [after EXCEPT ![t] = "closing"]
             /\ UNCHANGED <<str, queue, seen>>
      BY <2>0, <2>2, CompressAssumption DEF Threads, Places, CallsOK, LocksOK, Stop,
         Down
  <2>3. CASE str.st \in {"INIT", "OPENED", "STOPPED"} /\ CloseSession(t)
    <3>1. /\ pc' = [pc EXCEPT ![t] = "join"] /\ after' = after
          /\ str'.mutex = t /\ str'.st = str.st
          /\ queue' = IF ses.compress THEN queue \o LastMessages ELSE queue
          /\ \A f \in {"opened", "started", "hurt", "error", "closing"} :
                seen'[f] = seen[f]
          /\ ~seen'.waiting
        BY <2>3, CloseSessionDoes
    <3> QED BY <2>0, <2>3, <3>1, CompressAssumption DEF Threads, Places, CallsOK,
        LocksOK, Stop, Down
  <2> QED BY <1>22, <2>1, <2>2, <2>3, CloseDoes
<1>23. ASSUME NEW t \in Threads, Closing(t) PROVE CallsOK'
    BY <1>23, CompressAssumption DEF Closing, Goto, CloseSession, LastMessages,
       Types, Strs, Seens, Threads, CallsOK, Stop, Down
<1>24. ASSUME NEW t \in Threads, Join(t) PROVE CallsOK'
    BY <1>24, CompressAssumption DEF Join, Goto, CloseReturned, Types, Strs, Sess,
       Wks, Threads, CallsOK, Stop, Down
<1>25. CASE HandleCardState
    BY <1>25, CompressAssumption DEF HandleCardState, Goto, Types, Cards, Threads,
       CallsOK, LocksOK, Stop, Down
<1>26. CASE ssrDownHandler
    BY <1>26 DEF ssrDownHandler, Goto, Types, Cards, Threads, CallsOK, Stop, Down
<1>27. CASE Relock
    BY <1>27 DEF Relock, Goto, Types, Strs, Cards, Threads, CallsOK, Stop, Down
<1> QED BY <1>1, <1>2, <1>3, <1>4, <1>5, <1>6, <1>7, <1>8, <1>9, <1>10, <1>11,
    <1>12, <1>12a, <1>13, <1>14, <1>15, <1>16, <1>17, <1>18, <1>19, <1>20, <1>21, <1>22,
    <1>23, <1>24, <1>25, <1>26, <1>27 DEF Next, Calling, Continue, Worker, Ssr

\* A step keeps who holds the mutexes: mStreamMutex whoever joins, 
\* mActiveStreamMutex the SSR worker, and only over a stream that it found not playing.
LEMMA LocksStep ==
    ASSUME Types, CallsOK, LocksOK, StateOK, Next
    PROVE  LocksOK'
<1>1. CASE Play
    BY <1>1 DEF Play, Ended, Types, Drvs, LocksOK, Stop, Down, Plays
<1>2. CASE Crash
    BY <1>2 DEF Crash, Ended, Types, Cards, Drvs, Seens, LocksOK, Stop, Down, Plays
<1>3. CASE Recover
    BY <1>3 DEF Recover, Types, Cards, LocksOK, Stop, Down, Plays
<1>4. CASE Pop
    BY <1>4 DEF Pop, Types, Wks, Sess, LocksOK, Stop, Down, Plays
<1>5. CASE Call
    BY <1>5 DEF Call, CallResult, Calls, Report, ResetCommand, Silent, Types, Wks,
       Drvs, Sess, LocksOK, Stop, Down, Plays
<1>6. CASE Return
    BY <1>6 DEF Return, Report, ResetCommand, Silent, Types, Wks, Sess, Drvs,
       LocksOK, Stop, Down, Plays
<1>7. CASE Callback
    BY <1>7 DEF Callback, Types, Wks, Seens, LocksOK, Stop, Down, Plays
<1>8. ASSUME NEW t \in Clients, open(t) PROVE LocksOK'
    BY <1>8 DEF open, Types, Seens, Strs, Drvs, LocksOK, Stop, Down, Plays
<1>9. ASSUME NEW t \in Clients, start(t) PROVE LocksOK'
    BY <1>9 DEF start, Types, Wks, Sess, Drvs, Strs, Seens, LocksOK, Stop, Down,
       Plays
<1>10. ASSUME NEW t \in Clients, startFails(t) PROVE LocksOK'
    BY <1>10 DEF startFails, Types, Wks, Sess, LocksOK, Stop, Down, Plays
<1>11. ASSUME NEW t \in Clients, write(t) PROVE LocksOK'
    BY <1>11, WriteDoes, CompressAssumption DEF Types, Threads, Places, CallsOK,
       LocksOK, StateOK, Stop, Down, Plays
<1>12. ASSUME NEW t \in Clients, writeFails(t) PROVE LocksOK'
    BY <1>12 DEF writeFails, Types, Cards, LocksOK, Stop, Down, Plays
<1>12a. ASSUME NEW t \in Clients, startReports(t) PROVE LocksOK'
    BY <1>12a DEF startReports, Types, Cards, LocksOK, Stop, Down, Plays
<1>13. ASSUME NEW t \in Clients, drain(t) PROVE LocksOK'
    BY <1>13 DEF drain, Posted, Types, Seens, LocksOK, Stop, Down, Plays
<1>14. ASSUME NEW t \in Clients, pause(t) PROVE LocksOK'
    BY <1>14, PauseDoes, CompressAssumption DEF Types, Threads, Places, CallsOK,
       LocksOK, StateOK, Stop, Down, Plays
<1>15. ASSUME NEW t \in Clients, resume(t) PROVE LocksOK'
    BY <1>15 DEF resume, Types, Strs, Drvs, LocksOK, Stop, Down, Plays
<1>16. ASSUME NEW t \in Clients, flush(t) PROVE LocksOK'
    BY <1>16 DEF flush, Ended, Types, Drvs, Seens, LocksOK, Stop, Down, Plays
<1>17. ASSUME NEW t \in Clients, pal_stream_stop(t) PROVE LocksOK'
    BY <1>17, CompressAssumption DEF pal_stream_stop, MayCall, Goto, Types, Seens,
       Threads, CallsOK, LocksOK, StateOK, Stop, Down, Plays
<1>18. ASSUME NEW t \in Clients, pal_stream_close(t) PROVE LocksOK'
    BY <1>18, CompressAssumption DEF pal_stream_close, MayCall, Goto, Types, Seens,
       Threads, CallsOK, LocksOK, StateOK, Stop, Down, Plays
<1>19. ASSUME NEW t \in Threads, Register(t) PROVE LocksOK'
    BY <1>19, CompressAssumption DEF Register, Goto, Types, Strs, Threads, LocksOK,
       Stop, Down, Plays
<1>20. ASSUME NEW t \in Threads, stop(t) PROVE LocksOK'
    BY <1>20, CompressAssumption DEF stop, Goto, Types, Threads, LocksOK, Stop,
       Down, Plays
<1>21. ASSUME NEW t \in Threads, Stopping(t) PROVE LocksOK'
    BY <1>21, StoppingDoes, CompressAssumption DEF Types, Threads, Places, CallsOK,
       LocksOK, StateOK, Stop, Down, Plays
<1>22. ASSUME NEW t \in Threads, close(t) PROVE LocksOK'
  <2>1. CASE str.st = "IDLE" /\ pc' = [pc EXCEPT ![t] = CloseReturned(t)]
             /\ UNCHANGED <<str, after, queue, seen>>
      BY <1>22, <2>1, CloseDoes, CompressAssumption DEF CloseReturned, Types,
         Threads, Places, CallsOK, LocksOK, StateOK, Stop, Down, Plays
  <2>2. CASE /\ str.st \in {"STARTED", "PAUSED"} /\ pc' = [pc EXCEPT ![t] = "stop"]
             /\ after' = [after EXCEPT ![t] = "closing"]
             /\ UNCHANGED <<str, queue, seen>>
      BY <1>22, <2>2, CloseDoes, CompressAssumption DEF Types, Threads, Places,
         CallsOK, LocksOK, StateOK, Stop, Down, Plays
  <2>3. CASE str.st \in {"INIT", "OPENED", "STOPPED"} /\ CloseSession(t)
      BY <1>22, <2>3, CloseDoes, CloseSessionDoes, QueueEnds, CompressAssumption DEF
         Types, Threads, Places, CallsOK, LocksOK, StateOK, Stop, Down, Plays
  <2> QED BY <1>22, <2>1, <2>2, <2>3, CloseDoes
<1>23. ASSUME NEW t \in Threads, Closing(t) PROVE LocksOK'
    BY <1>23, CompressAssumption DEF Closing, Free, Goto, CloseSession,
       LastMessages, Types, Strs, Seens, Threads, CallsOK, LocksOK, StateOK, Stop,
       Down, Plays
<1>24. ASSUME NEW t \in Threads, Join(t) PROVE LocksOK'
    BY <1>24, CompressAssumption DEF Join, Goto, CloseReturned, Types, Strs, Sess,
       Wks, Threads, LocksOK, Stop, Down, Plays
<1>25. CASE HandleCardState
    BY <1>25 DEF HandleCardState, Goto, Types, Cards, Threads, LocksOK, Stop, Down,
       Plays
<1>26. CASE ssrDownHandler
    BY <1>26 DEF ssrDownHandler, Goto, Types, Cards, Threads, LocksOK, Stop, Down,
       Plays
<1>27. CASE Relock
    BY <1>27 DEF Relock, Goto, Types, Strs, Cards, Threads, LocksOK, Stop, Down,
       Plays
<1> QED BY <1>1, <1>2, <1>3, <1>4, <1>5, <1>6, <1>7, <1>8, <1>9, <1>10, <1>11,
    <1>12, <1>12a, <1>13, <1>14, <1>15, <1>16, <1>17, <1>18, <1>19, <1>20, <1>21, <1>22,
    <1>23, <1>24, <1>25, <1>26, <1>27 DEF Next, Calling, Continue, Worker, Ssr

\* A step keeps the state of a stream that is being closed: it does not play while someone
\* joins its thread, and the session is gone when the SSR worker is done.
LEMMA StateStep ==
    ASSUME Types, CallsOK, LocksOK, StateOK, DriverOK, ThreadOK, Next
    PROVE  StateOK'
<1>1. CASE Play
    BY <1>1 DEF Play, Ended, Types, Drvs, StateOK, Stop, Down, Plays
<1>2. CASE Crash
    BY <1>2 DEF Crash, Ended, Types, Cards, Drvs, Seens, StateOK, Stop, Down, Plays
<1>3. CASE Recover
    BY <1>3 DEF Recover, Types, Cards, StateOK, Stop, Down, Plays
<1>4. CASE Pop
    BY <1>4, PopDoes, CompressAssumption DEF Types, Threads, Places, CallsOK,
       LocksOK, StateOK, ThreadOK, Stop, Down, Plays
<1>5. CASE Call
    BY <1>5, CallDoes, CompressAssumption DEF Types, Threads, Places, CallsOK,
       LocksOK, StateOK, ThreadOK, Stop, Down, Plays
<1>6. CASE Return
    BY <1>6 DEF Return, Report, ResetCommand, Silent, Types, Wks, Sess, Drvs,
       StateOK, Stop, Down, Plays
<1>7. CASE Callback
    BY <1>7 DEF Callback, Types, Wks, Seens, StateOK, Stop, Down, Plays
<1>8. ASSUME NEW t \in Clients, open(t) PROVE StateOK'
    BY <1>8, CompressAssumption DEF open, Count, Down, Types, Strs, Cards, Sess,
       Seens, Wks, Drvs, Threads, CallsOK, LocksOK, StateOK, ThreadOK, Stop, Plays
<1>9. ASSUME NEW t \in Clients, start(t) PROVE StateOK'
    BY <1>9, CompressAssumption DEF start, MayCall, Free, Down, Types, Strs, Cards,
       Sess, Seens, Wks, Drvs, Threads, CallsOK, LocksOK, StateOK, ThreadOK, Stop,
       Plays
<1>10. ASSUME NEW t \in Clients, startFails(t) PROVE StateOK'
    BY <1>10, CompressAssumption DEF startFails, MayCall, Free, Down, Count, Types,
       Strs, Cards, Sess, Seens, Wks, Drvs, Threads, CallsOK, LocksOK, StateOK,
       ThreadOK, Stop, Plays
<1>11. ASSUME NEW t \in Clients, write(t) PROVE StateOK'
    BY <1>11, WriteDoes, CompressAssumption DEF Types, Threads, Places, CallsOK,
       LocksOK, StateOK, ThreadOK, Stop, Down, Plays
<1>12. ASSUME NEW t \in Clients, writeFails(t) PROVE StateOK'
    BY <1>12 DEF writeFails, Types, Cards, StateOK, Stop, Down, Plays
<1>12a. ASSUME NEW t \in Clients, startReports(t) PROVE StateOK'
    BY <1>12a DEF startReports, Types, Cards, StateOK, Stop, Down, Plays
<1>13. ASSUME NEW t \in Clients, drain(t) PROVE StateOK'
    BY <1>13 DEF drain, Posted, Types, Seens, StateOK, Stop, Down, Plays
<1>14. ASSUME NEW t \in Clients, pause(t) PROVE StateOK'
    BY <1>14, PauseDoes, CompressAssumption DEF Types, Threads, Places, CallsOK,
       LocksOK, StateOK, ThreadOK, Stop, Down, Plays
<1>15. ASSUME NEW t \in Clients, resume(t) PROVE StateOK'
    BY <1>15 DEF resume, Types, Strs, Drvs, StateOK, Stop, Down, Plays
<1>16. ASSUME NEW t \in Clients, flush(t) PROVE StateOK'
    BY <1>16 DEF flush, Ended, Types, Drvs, Seens, StateOK, Stop, Down, Plays
<1>17. ASSUME NEW t \in Clients, pal_stream_stop(t) PROVE StateOK'
    BY <1>17 DEF pal_stream_stop, Goto, Types, Seens, Threads, StateOK, Stop, Down,
       Plays
<1>18. ASSUME NEW t \in Clients, pal_stream_close(t) PROVE StateOK'
    BY <1>18 DEF pal_stream_close, Goto, Types, Seens, Threads, StateOK, Stop, Down,
       Plays
<1>19. ASSUME NEW t \in Threads, Register(t) PROVE StateOK'
    BY <1>19, CompressAssumption DEF Register, Free, Goto, Types, Strs, Threads,
       CallsOK, LocksOK, StateOK, ThreadOK, Stop, Down, Plays
<1>20. ASSUME NEW t \in Threads, stop(t) PROVE StateOK'
    BY <1>20, CompressAssumption DEF stop, Free, Goto, Types, Strs, Cards, Sess,
       Seens, Wks, Drvs, Threads, CallsOK, LocksOK, StateOK, ThreadOK, Stop, Down,
       Plays
<1>21. ASSUME NEW t \in Threads, Stopping(t) PROVE StateOK'
    BY <1>21, StoppingDoes, CompressAssumption DEF Types, Threads, Places, CallsOK,
       LocksOK, StateOK, ThreadOK, Stop, Down, Plays
<1>22. ASSUME NEW t \in Threads, close(t) PROVE StateOK'
  <2>0. /\ UNCHANGED <<ses, wk, drv, card>> /\ pc[t] = "close" /\ str.mutex = "none"
        /\ pc \in [Threads -> Places] /\ after \in [Threads -> {"idle", "close", "closing"}]
      BY <1>22, CloseDoes DEF Types
  <2>1. CASE str.st = "IDLE" /\ pc' = [pc EXCEPT ![t] = CloseReturned(t)]
             /\ UNCHANGED <<str, after, queue, seen>>
      BY <2>0, <2>1, CompressAssumption DEF CloseReturned, Threads, Places, CallsOK,
         LocksOK, StateOK, ThreadOK, Stop, Down, Plays
  <2>2. CASE /\ str.st \in {"STARTED", "PAUSED"} /\ pc' = [pc EXCEPT ![t] = "stop"]
             /\ after' = [after EXCEPT ![t] = "closing"]
             /\ UNCHANGED <<str, queue, seen>>
      BY <2>0, <2>2, CompressAssumption DEF Threads, Places, CallsOK, LocksOK,
         StateOK, ThreadOK, Stop, Down, Plays
  <2>3. CASE str.st \in {"INIT", "OPENED", "STOPPED"} /\ CloseSession(t)
    <3>1. /\ pc' = [pc EXCEPT ![t] = "join"] /\ after' = after
          /\ str'.mutex = t /\ str'.st = str.st
          /\ queue' = IF ses.compress THEN queue \o LastMessages ELSE queue
          /\ \A f \in {"opened", "started", "hurt", "error", "closing"} :
                seen'[f] = seen[f]
          /\ ~seen'.waiting
        BY <2>3, CloseSessionDoes
    <3> QED BY <2>0, <2>3, <3>1, CompressAssumption DEF Threads, Places, CallsOK,
        LocksOK, StateOK, ThreadOK, Stop, Down, Plays
  <2> QED BY <1>22, <2>1, <2>2, <2>3, CloseDoes
<1>23. ASSUME NEW t \in Threads, Closing(t) PROVE StateOK'
    BY <1>23, CompressAssumption DEF Closing, Goto, CloseSession, LastMessages,
       Types, Strs, Seens, Threads, StateOK, Stop, Down, Plays
<1>24. ASSUME NEW t \in Threads, Join(t) PROVE StateOK'
    BY <1>24, CompressAssumption DEF Join, Goto, CloseReturned, Types, Strs, Sess,
       Wks, Threads, StateOK, Stop, Down, Plays
<1>25. CASE HandleCardState
    BY <1>25, CompressAssumption DEF HandleCardState, Goto, Types, Cards, Threads,
       CallsOK, LocksOK, StateOK, ThreadOK, Stop, Down, Plays
<1>26. CASE ssrDownHandler
    BY <1>26, CompressAssumption DEF ssrDownHandler, Free, Goto, Types, Strs, Cards,
       Sess, Seens, Wks, Drvs, Threads, CallsOK, LocksOK, StateOK, ThreadOK, Stop,
       Down, Plays
<1>27. CASE Relock
    BY <1>27 DEF Relock, Goto, Types, Strs, Cards, Threads, StateOK, Stop, Down,
       Plays
<1> QED BY <1>1, <1>2, <1>3, <1>4, <1>5, <1>6, <1>7, <1>8, <1>9, <1>10, <1>11,
    <1>12, <1>12a, <1>13, <1>14, <1>15, <1>16, <1>17, <1>18, <1>19, <1>20, <1>21, <1>22,
    <1>23, <1>24, <1>25, <1>26, <1>27 DEF Next, Calling, Continue, Worker, Ssr

\* A step keeps that the driver plays only for a session that plays, so a blocked call can
\* end.
LEMMA DriverStep ==
    ASSUME Types, CallsOK, LocksOK, StateOK, DriverOK, ThreadOK, Next
    PROVE  DriverOK'
<1>1. CASE Play
    BY <1>1 DEF Play, Ended, Types, Drvs, DriverOK, Plays, Down
<1>2. CASE Crash
    BY <1>2 DEF Crash, Ended, Types, Cards, Drvs, Seens, DriverOK, Plays, Down
<1>3. CASE Recover
    BY <1>3 DEF Recover, Types, Cards, DriverOK, Plays, Down
<1>4. CASE Pop
    BY <1>4, PopDoes, CompressAssumption DEF Types, Threads, Places, CallsOK,
       StateOK, DriverOK, ThreadOK, LocksOK, Plays, Down
<1>5. CASE Call
    BY <1>5, CallDoes, CompressAssumption DEF Types, Threads, Places, CallsOK,
       StateOK, DriverOK, ThreadOK, LocksOK, Plays, Down
<1>6. CASE Return
    BY <1>6 DEF Return, Report, ResetCommand, Silent, Types, Wks, Sess, Drvs,
       DriverOK, Plays, Down
<1>7. CASE Callback
    BY <1>7 DEF Callback, Types, Wks, Seens, DriverOK, Plays, Down
<1>8. ASSUME NEW t \in Clients, open(t) PROVE DriverOK'
  <2>1. pc \in [Threads -> Places]
      BY DEF Types
  <2> QED BY <1>8, <2>1, OpenDoes, CompressAssumption DEF Threads, Places, CallsOK,
      StateOK, DriverOK, ThreadOK, LocksOK, Plays, Down
<1>9. ASSUME NEW t \in Clients, start(t) PROVE DriverOK'
  <2>1. drv'.call = drv.call /\ drv'.running = drv.running /\ drv'.full = drv.full
        /\ drv'.broken = drv.broken
      BY <1>9, StartDoes
  <2> QED BY <1>9, <2>1, StartDoes DEF DriverOK, Plays
<1>10. ASSUME NEW t \in Clients, startFails(t) PROVE DriverOK'
    BY <1>10 DEF startFails, Types, Wks, Sess, DriverOK, Plays, Down
<1>11. ASSUME NEW t \in Clients, write(t) PROVE DriverOK'
    BY <1>11, WriteDoes, CompressAssumption DEF Types, Threads, Places, CallsOK,
       StateOK, DriverOK, ThreadOK, LocksOK, Plays, Down
<1>12. ASSUME NEW t \in Clients, writeFails(t) PROVE DriverOK'
    BY <1>12 DEF writeFails, Types, Cards, DriverOK, Plays, Down
<1>12a. ASSUME NEW t \in Clients, startReports(t) PROVE DriverOK'
    BY <1>12a DEF startReports, Types, Cards, DriverOK, Plays, Down
<1>13. ASSUME NEW t \in Clients, drain(t) PROVE DriverOK'
    BY <1>13 DEF drain, Posted, Types, Seens, DriverOK, Plays, Down
<1>14. ASSUME NEW t \in Clients, pause(t) PROVE DriverOK'
    BY <1>14, PauseDoes, CompressAssumption DEF Types, Threads, Places, CallsOK,
       StateOK, DriverOK, ThreadOK, LocksOK, Plays, Down
<1>15. ASSUME NEW t \in Clients, resume(t) PROVE DriverOK'
    BY <1>15 DEF resume, Types, Strs, Drvs, DriverOK, Plays, Down
<1>16. ASSUME NEW t \in Clients, flush(t) PROVE DriverOK'
    BY <1>16 DEF flush, Ended, Types, Drvs, Seens, DriverOK, Plays, Down
<1>17. ASSUME NEW t \in Clients, pal_stream_stop(t) PROVE DriverOK'
    BY <1>17 DEF pal_stream_stop, Goto, Types, Seens, Threads, DriverOK, Plays, Down
<1>18. ASSUME NEW t \in Clients, pal_stream_close(t) PROVE DriverOK'
    BY <1>18 DEF pal_stream_close, Goto, Types, Seens, Threads, DriverOK, Plays,
       Down
<1>19. ASSUME NEW t \in Threads, Register(t) PROVE DriverOK'
    BY <1>19, CompressAssumption DEF Register, Goto, Types, Strs, Threads, DriverOK,
       Plays, Down
<1>20. ASSUME NEW t \in Threads, stop(t) PROVE DriverOK'
    BY <1>20, CompressAssumption DEF stop, Goto, Types, Threads, DriverOK, Plays,
       Down
<1>21. ASSUME NEW t \in Threads, Stopping(t) PROVE DriverOK'
    BY <1>21, StoppingDoes, CompressAssumption DEF Types, Threads, Places, CallsOK,
       StateOK, DriverOK, ThreadOK, LocksOK, Plays, Down
<1>22. ASSUME NEW t \in Threads, close(t) PROVE DriverOK'
  <2>0. /\ UNCHANGED <<ses, wk, drv, card>> /\ pc[t] = "close" /\ str.mutex = "none"
        /\ pc \in [Threads -> Places] /\ after \in [Threads -> {"idle", "close", "closing"}]
      BY <1>22, CloseDoes DEF Types
  <2>1. CASE str.st = "IDLE" /\ pc' = [pc EXCEPT ![t] = CloseReturned(t)]
             /\ UNCHANGED <<str, after, queue, seen>>
      BY <2>0, <2>1, CompressAssumption DEF CloseReturned, Threads, Places, CallsOK,
         StateOK, DriverOK, ThreadOK, LocksOK, Plays, Down
  <2>2. CASE /\ str.st \in {"STARTED", "PAUSED"} /\ pc' = [pc EXCEPT ![t] = "stop"]
             /\ after' = [after EXCEPT ![t] = "closing"]
             /\ UNCHANGED <<str, queue, seen>>
      BY <2>0, <2>2, CompressAssumption DEF Threads, Places, CallsOK, StateOK,
         DriverOK, ThreadOK, LocksOK, Plays, Down
  <2>3. CASE str.st \in {"INIT", "OPENED", "STOPPED"} /\ CloseSession(t)
    <3>1. /\ pc' = [pc EXCEPT ![t] = "join"] /\ after' = after
          /\ str'.mutex = t /\ str'.st = str.st
          /\ queue' = IF ses.compress THEN queue \o LastMessages ELSE queue
          /\ \A f \in {"opened", "started", "hurt", "error", "closing"} :
                seen'[f] = seen[f]
          /\ ~seen'.waiting
        BY <2>3, CloseSessionDoes
    <3> QED BY <2>0, <2>3, <3>1, CompressAssumption DEF Threads, Places, CallsOK,
        StateOK, DriverOK, ThreadOK, LocksOK, Plays, Down
  <2> QED BY <1>22, <2>1, <2>2, <2>3, CloseDoes
<1>23. ASSUME NEW t \in Threads, Closing(t) PROVE DriverOK'
    BY <1>23, CompressAssumption DEF Closing, Goto, CloseSession, LastMessages,
       Types, Strs, Seens, Threads, DriverOK, Plays, Down
<1>24. ASSUME NEW t \in Threads, Join(t) PROVE DriverOK'
    BY <1>24, CompressAssumption DEF Join, Goto, CloseReturned, Types, Strs, Sess,
       Wks, Threads, StateOK, DriverOK, ThreadOK, LocksOK, Plays, Down
<1>25. CASE HandleCardState
    BY <1>25 DEF HandleCardState, Goto, Types, Cards, Threads, DriverOK, Plays, Down
<1>26. CASE ssrDownHandler
    BY <1>26 DEF ssrDownHandler, Goto, Types, Cards, Threads, DriverOK, Plays, Down
<1>27. CASE Relock
    BY <1>27, CompressAssumption DEF Relock, Goto, Types, Strs, Cards, Threads,
       StateOK, DriverOK, ThreadOK, LocksOK, Plays, Down
<1> QED BY <1>1, <1>2, <1>3, <1>4, <1>5, <1>6, <1>7, <1>8, <1>9, <1>10, <1>11,
    <1>12, <1>12a, <1>13, <1>14, <1>15, <1>16, <1>17, <1>18, <1>19, <1>20, <1>21, <1>22,
    <1>23, <1>24, <1>25, <1>26, <1>27 DEF Next, Calling, Continue, Worker, Ssr

\* A step keeps that the thread has its exit before it once someone joins it, and that with
\* the card down the client hears of the error first.
LEMMA ThreadStep ==
    ASSUME Types, CallsOK, LocksOK, StateOK, DriverOK, ThreadOK, Next
    PROVE  ThreadOK'
<1>1. CASE Play
    BY <1>1 DEF Play, Ended, Types, Drvs, ThreadOK, Plays, Down, ErrorTold
<1>2. CASE Crash
    BY <1>2 DEF Crash, Ended, Types, Cards, Drvs, Seens, ThreadOK, Plays, Down,
       ErrorTold
<1>3. CASE Recover
    BY <1>3 DEF Recover, Types, Cards, ThreadOK, Plays, Down, ErrorTold
<1>4. CASE Pop
  <2>1. PICK m \in Commands : m = Head(queue)
      BY <1>4, PopDoes DEF Types
  <2>2. /\ Contains(queue, "EXIT") /\ m # "EXIT" => Contains(queue', "EXIT")
        /\ Contains(queue, "WAIT_FOR_BUFFER") /\ m # "WAIT_FOR_BUFFER"
             => Contains(queue', "WAIT_FOR_BUFFER")
        /\ Warned(queue) => Warned(queue')
        /\ Warned(queue) /\ queue' # << >> /\ Head(queue') = "EXIT" => m = "ERROR"
      BY <1>4, PopDoes, QueueTail, <2>1 DEF Types
  <2>3. /\ UNCHANGED <<str, pc, after, drv, card, seen>>
        /\ wk.at = "idle" /\ queue # << >> /\ ses'.compress = ses.compress
        /\ ses'.playback_started = ses.playback_started
        /\ wk'.msg = m /\ wk'.event = wk.event
        /\ wk'.at = IF m = "EXIT" THEN "exited" ELSE "popped"
        /\ ses'.command = IF m = "EXIT" THEN ses.command ELSE m
      BY <1>4, PopDoes, <2>1
  <2> QED BY <2>1, <2>2, <2>3, CompressAssumption DEF CallsOK, StateOK, DriverOK,
      ThreadOK, LocksOK, Plays, Down, ErrorTold
<1>5. CASE Call
    BY <1>5, CallDoes, CompressAssumption DEF Types, Threads, Places, CallsOK,
       StateOK, DriverOK, ThreadOK, LocksOK, Plays, Down, ErrorTold
<1>6. CASE Return
    BY <1>6 DEF Return, Report, ResetCommand, Silent, Types, Wks, Sess, Drvs,
       ThreadOK, Plays, Down, ErrorTold
<1>7. CASE Callback
    BY <1>7 DEF Callback, Types, Wks, Seens, ThreadOK, Plays, Down, ErrorTold
<1>8. ASSUME NEW t \in Clients, open(t) PROVE ThreadOK'
    BY <1>8 DEF open, Types, Seens, Strs, Drvs, ThreadOK, Plays, Down, ErrorTold
<1>9. ASSUME NEW t \in Clients, start(t) PROVE ThreadOK'
  <2>1. pc \in [Threads -> Places]
      BY DEF Types
  <2> QED BY <1>9, <2>1, StartDoes, CompressAssumption DEF Threads, Places, CallsOK,
      StateOK, DriverOK, ThreadOK, LocksOK, Plays, Down, ErrorTold
<1>10. ASSUME NEW t \in Clients, startFails(t) PROVE ThreadOK'
    BY <1>10, CompressAssumption DEF startFails, MayCall, Free, Down, Count, Types,
       Strs, Sess, Drvs, Wks, Seens, CallsOK, StateOK, DriverOK, ThreadOK, LocksOK,
       Threads, Plays, ErrorTold, Commands
<1>11. ASSUME NEW t \in Clients, write(t) PROVE ThreadOK'
  <2>1. PICK m \in {"WAIT_FOR_BUFFER"} : queue' = queue \/ queue' = Append(queue, m)
      BY <1>11, WriteDoes
  <2>2. /\ queue' = queue \/ Contains(queue', m)
        /\ Contains(queue, "EXIT") => Contains(queue', "EXIT")
        /\ Contains(queue, "WAIT_FOR_BUFFER") => Contains(queue', "WAIT_FOR_BUFFER")
        /\ Warned(queue) => Warned(queue')
        /\ queue = << >> /\ queue' # << >> => Head(queue') = m
        /\ queue # << >> /\ queue' # << >> => Head(queue') = Head(queue)
    <3>1. CASE queue' = queue
        BY <3>1
    <3>2. CASE queue' = Append(queue, m)
        BY <3>2, QueueAppend DEF Types, Commands
    <3> QED BY <2>1, <3>1, <3>2
  <2>3. pc \in [Threads -> Places]
      BY DEF Types
  <2> QED BY <1>11, WriteDoes, <2>1, <2>2, <2>3, CompressAssumption DEF Threads,
      Places, CallsOK, StateOK, DriverOK, ThreadOK, LocksOK, Plays, Down, ErrorTold
<1>12. ASSUME NEW t \in Clients, writeFails(t) PROVE ThreadOK'
    BY <1>12 DEF writeFails, Types, Cards, ThreadOK, Plays, Down, ErrorTold
<1>12a. ASSUME NEW t \in Clients, startReports(t) PROVE ThreadOK'
    BY <1>12a DEF startReports, Types, Cards, ThreadOK, Plays, Down, ErrorTold
<1>13. ASSUME NEW t \in Clients, drain(t) PROVE ThreadOK'
  <2>1. PICK m \in {"DRAIN", "PARTIAL_DRAIN"} : queue' = queue \/ queue' = Append(queue, m)
      BY <1>13, DrainDoes
  <2>2. /\ queue' = queue \/ Contains(queue', m)
        /\ Contains(queue, "EXIT") => Contains(queue', "EXIT")
        /\ Contains(queue, "WAIT_FOR_BUFFER") => Contains(queue', "WAIT_FOR_BUFFER")
        /\ Warned(queue) => Warned(queue')
        /\ queue = << >> /\ queue' # << >> => Head(queue') = m
        /\ queue # << >> /\ queue' # << >> => Head(queue') = Head(queue)
    <3>1. CASE queue' = queue
        BY <3>1
    <3>2. CASE queue' = Append(queue, m)
        BY <3>2, QueueAppend DEF Types, Commands
    <3> QED BY <2>1, <3>1, <3>2
  <2>3. pc \in [Threads -> Places]
      BY DEF Types
  <2> QED BY <1>13, DrainDoes, <2>1, <2>2, <2>3, CompressAssumption DEF Threads,
      Places, CallsOK, StateOK, DriverOK, ThreadOK, LocksOK, Plays, Down, ErrorTold
<1>14. ASSUME NEW t \in Clients, pause(t) PROVE ThreadOK'
    BY <1>14, PauseDoes, CompressAssumption DEF Types, Threads, Places, CallsOK,
       StateOK, DriverOK, ThreadOK, LocksOK, Plays, Down, ErrorTold
<1>15. ASSUME NEW t \in Clients, resume(t) PROVE ThreadOK'
    BY <1>15 DEF resume, Types, Strs, Drvs, ThreadOK, Plays, Down, ErrorTold
<1>16. ASSUME NEW t \in Clients, flush(t) PROVE ThreadOK'
    BY <1>16 DEF flush, Ended, Types, Drvs, Seens, ThreadOK, Plays, Down, ErrorTold
<1>17. ASSUME NEW t \in Clients, pal_stream_stop(t) PROVE ThreadOK'
    BY <1>17 DEF pal_stream_stop, Goto, Types, Seens, Threads, ThreadOK, Plays,
       Down, ErrorTold
<1>18. ASSUME NEW t \in Clients, pal_stream_close(t) PROVE ThreadOK'
    BY <1>18 DEF pal_stream_close, Goto, Types, Seens, Threads, ThreadOK, Plays,
       Down, ErrorTold
<1>19. ASSUME NEW t \in Threads, Register(t) PROVE ThreadOK'
    BY <1>19, CompressAssumption DEF Register, Goto, Types, Strs, Threads, ThreadOK,
       Plays, Down, ErrorTold
<1>20. ASSUME NEW t \in Threads, stop(t) PROVE ThreadOK'
    BY <1>20, CompressAssumption DEF stop, Goto, Types, Threads, ThreadOK, Plays,
       Down, ErrorTold
<1>21. ASSUME NEW t \in Threads, Stopping(t) PROVE ThreadOK'
    BY <1>21, StoppingDoes, CompressAssumption DEF Types, Threads, Places, CallsOK,
       StateOK, DriverOK, ThreadOK, LocksOK, Plays, Down, ErrorTold
<1>22. ASSUME NEW t \in Threads, close(t) PROVE ThreadOK'
  <2>0. /\ UNCHANGED <<ses, wk, drv, card>> /\ pc[t] = "close" /\ str.mutex = "none"
        /\ pc \in [Threads -> Places] /\ after \in [Threads -> {"idle", "close", "closing"}]
      BY <1>22, CloseDoes DEF Types
  <2>1. CASE str.st = "IDLE" /\ pc' = [pc EXCEPT ![t] = CloseReturned(t)]
             /\ UNCHANGED <<str, after, queue, seen>>
      BY <2>0, <2>1, CompressAssumption DEF CloseReturned, Threads, Places, CallsOK,
         StateOK, DriverOK, ThreadOK, LocksOK, Plays, Down, ErrorTold
  <2>2. CASE /\ str.st \in {"STARTED", "PAUSED"} /\ pc' = [pc EXCEPT ![t] = "stop"]
             /\ after' = [after EXCEPT ![t] = "closing"]
             /\ UNCHANGED <<str, queue, seen>>
      BY <2>0, <2>2, CompressAssumption DEF Threads, Places, CallsOK, StateOK,
         DriverOK, ThreadOK, LocksOK, Plays, Down, ErrorTold
  <2>3. CASE str.st \in {"INIT", "OPENED", "STOPPED"} /\ CloseSession(t)
    <3>1. /\ pc' = [pc EXCEPT ![t] = "join"] /\ after' = after
          /\ str'.mutex = t /\ str'.st = str.st
          /\ queue' = IF ses.compress THEN queue \o LastMessages ELSE queue
          /\ \A f \in {"opened", "started", "hurt", "error", "closing"} :
                seen'[f] = seen[f]
          /\ ~seen'.waiting
        BY <2>3, CloseSessionDoes
    <3>2. /\ queue \in Seq(Commands)
          /\ Contains(queue \o LastMessages, "EXIT") /\ queue \o LastMessages # << >>
          /\ Down /\ Warned(queue) => Warned(queue \o LastMessages)
          /\ Down => Head(queue \o LastMessages) =
                        IF queue = << >> THEN "ERROR" ELSE Head(queue)
        BY QueueEnds DEF Types
    <3> QED BY <2>0, <2>3, <3>1, <3>2, CompressAssumption DEF Threads, Places,
        CallsOK, StateOK, DriverOK, ThreadOK, LocksOK, Plays, Down, ErrorTold
  <2> QED BY <1>22, <2>1, <2>2, <2>3, CloseDoes
<1>23. ASSUME NEW t \in Threads, Closing(t) PROVE ThreadOK'
  <2>0. /\ UNCHANGED <<ses, wk, drv, card>> /\ pc[t] = "closing" /\ str.mutex = "none"
        /\ pc \in [Threads -> Places] /\ CloseSession(t)
      BY <1>23 DEF Closing, Free, Types
  <2>1. /\ pc' = [pc EXCEPT ![t] = "join"] /\ after' = after
        /\ str'.mutex = t /\ str'.st = str.st
        /\ queue' = IF ses.compress THEN queue \o LastMessages ELSE queue
        /\ \A f \in {"opened", "started", "hurt", "error", "closing"} :
              seen'[f] = seen[f]
        /\ ~seen'.waiting
      BY <2>0, CloseSessionDoes
  <2>2. /\ queue \in Seq(Commands)
        /\ Contains(queue \o LastMessages, "EXIT") /\ queue \o LastMessages # << >>
        /\ Down /\ Warned(queue) => Warned(queue \o LastMessages)
        /\ Down => Head(queue \o LastMessages) =
                      IF queue = << >> THEN "ERROR" ELSE Head(queue)
      BY QueueEnds DEF Types
  <2> QED BY <2>0, <2>1, <2>2, CompressAssumption DEF Threads, Places, CallsOK,
      StateOK, DriverOK, ThreadOK, LocksOK, Plays, Down, ErrorTold
<1>24. ASSUME NEW t \in Threads, Join(t) PROVE ThreadOK'
  <2>1. pc \in [Threads -> Places]
      BY DEF Types
  <2>2. ~ses'.compress /\ queue' = << >> /\ wk'.at = "none"
      BY <1>24, JoinDoes DEF ThreadOK
  <2>3. seen.hurt => seen.error \/ seen.closing
      BY <1>24, JoinDoes DEF ThreadOK
  <2>4. Warned(queue')
      BY <2>2 DEF Warned
  <2>5. seen' = seen
      BY <1>24, JoinDoes
  <2> QED BY <2>2, <2>3, <2>4, <2>5 DEF ThreadOK
<1>25. CASE HandleCardState
    BY <1>25 DEF HandleCardState, Goto, Types, Cards, Threads, ThreadOK, Plays,
       Down, ErrorTold
<1>26. CASE ssrDownHandler
    BY <1>26 DEF ssrDownHandler, Goto, Types, Cards, Threads, ThreadOK, Plays, Down,
       ErrorTold
<1>27. CASE Relock
    BY <1>27 DEF Relock, Goto, Types, Strs, Cards, Threads, ThreadOK, Plays, Down,
       ErrorTold
<1> QED BY <1>1, <1>2, <1>3, <1>4, <1>5, <1>6, <1>7, <1>8, <1>9, <1>10, <1>11,
    <1>12, <1>12a, <1>13, <1>14, <1>15, <1>16, <1>17, <1>18, <1>19, <1>20, <1>21, <1>22,
    <1>23, <1>24, <1>25, <1>26, <1>27 DEF Next, Calling, Continue, Worker, Ssr

\* A step keeps that the writer that waits is told: the message is queued or in the thread's
\* hands, and command says so whenever the writer relies on it.
LEMMA WriterStep ==
    ASSUME Types, CallsOK, LocksOK, StateOK, DriverOK, ThreadOK, WriterOK, Next
    PROVE  WriterOK'
<1>1. CASE Play
    BY <1>1 DEF Play, Ended, Types, Drvs, WriterOK, Plays, Down, OnIt, WriterIsTold
<1>2. CASE Crash
    BY <1>2, CompressAssumption DEF Crash, Ended, Types, Cards, Drvs, Seens,
       CallsOK, StateOK, DriverOK, ThreadOK, LocksOK, WriterOK, Plays, Down, OnIt,
       WriterIsTold
<1>3. CASE Recover
    BY <1>3 DEF Recover, Types, Cards, WriterOK, Plays, Down, OnIt, WriterIsTold
<1>4. CASE Pop
  <2>1. PICK m \in Commands : m = Head(queue)
      BY <1>4, PopDoes DEF Types
  <2>2. /\ Contains(queue, "EXIT") /\ m # "EXIT" => Contains(queue', "EXIT")
        /\ Contains(queue, "WAIT_FOR_BUFFER") /\ m # "WAIT_FOR_BUFFER"
             => Contains(queue', "WAIT_FOR_BUFFER")
        /\ Warned(queue) => Warned(queue')
        /\ Warned(queue) /\ queue' # << >> /\ Head(queue') = "EXIT" => m = "ERROR"
      BY <1>4, PopDoes, QueueTail, <2>1 DEF Types
  <2>3. /\ UNCHANGED <<str, pc, after, drv, card, seen>>
        /\ wk.at = "idle" /\ queue # << >> /\ ses'.compress = ses.compress
        /\ ses'.playback_started = ses.playback_started
        /\ wk'.msg = m /\ wk'.event = wk.event
        /\ wk'.at = IF m = "EXIT" THEN "exited" ELSE "popped"
        /\ ses'.command = IF m = "EXIT" THEN ses.command ELSE m
      BY <1>4, PopDoes, <2>1
  <2> QED BY <2>1, <2>2, <2>3, CompressAssumption DEF CallsOK, StateOK, DriverOK,
      ThreadOK, LocksOK, WriterOK, Plays, Down, OnIt, WriterIsTold
<1>5. CASE Call
    BY <1>5, CallDoes, CompressAssumption DEF Types, Threads, Places, CallsOK,
       StateOK, DriverOK, ThreadOK, LocksOK, WriterOK, Plays, Down, OnIt,
       WriterIsTold
<1>6. CASE Return
    BY <1>6 DEF Return, Report, ResetCommand, Silent, Types, Wks, Sess, Drvs,
       WriterOK, Plays, Down, OnIt, WriterIsTold
<1>7. CASE Callback
    BY <1>7 DEF Callback, Types, Wks, Seens, WriterOK, Plays, Down, OnIt,
       WriterIsTold
<1>8. ASSUME NEW t \in Clients, open(t) PROVE WriterOK'
    BY <1>8, CompressAssumption DEF open, Types, Seens, Strs, Drvs, CallsOK,
       StateOK, DriverOK, ThreadOK, LocksOK, WriterOK, Plays, Down, OnIt,
       WriterIsTold
<1>9. ASSUME NEW t \in Clients, start(t) PROVE WriterOK'
    BY <1>9 DEF start, Types, Wks, Sess, Drvs, Strs, Seens, WriterOK, Plays, Down,
       OnIt, WriterIsTold
<1>10. ASSUME NEW t \in Clients, startFails(t) PROVE WriterOK'
    BY <1>10 DEF startFails, Types, Wks, Sess, WriterOK, Plays, Down, OnIt,
       WriterIsTold
<1>11. ASSUME NEW t \in Clients, write(t) PROVE WriterOK'
  <2>1. PICK m \in {"WAIT_FOR_BUFFER"} : queue' = queue \/ queue' = Append(queue, m)
      BY <1>11, WriteDoes
  <2>2. /\ queue' = queue \/ Contains(queue', m)
        /\ Contains(queue, "EXIT") => Contains(queue', "EXIT")
        /\ Contains(queue, "WAIT_FOR_BUFFER") => Contains(queue', "WAIT_FOR_BUFFER")
        /\ Warned(queue) => Warned(queue')
        /\ queue = << >> /\ queue' # << >> => Head(queue') = m
        /\ queue # << >> /\ queue' # << >> => Head(queue') = Head(queue)
    <3>1. CASE queue' = queue
        BY <3>1
    <3>2. CASE queue' = Append(queue, m)
        BY <3>2, QueueAppend DEF Types, Commands
    <3> QED BY <2>1, <3>1, <3>2
  <2>3. pc \in [Threads -> Places]
      BY DEF Types
  <2> QED BY <1>11, WriteDoes, <2>1, <2>2, <2>3, CompressAssumption DEF Threads,
      Places, CallsOK, StateOK, DriverOK, ThreadOK, LocksOK, WriterOK, Plays, Down,
      OnIt, WriterIsTold
<1>12. ASSUME NEW t \in Clients, writeFails(t) PROVE WriterOK'
    BY <1>12 DEF writeFails, Types, Cards, WriterOK, Plays, Down, OnIt, WriterIsTold
<1>12a. ASSUME NEW t \in Clients, startReports(t) PROVE WriterOK'
    BY <1>12a DEF startReports, Types, Cards, WriterOK, Plays, Down, OnIt, WriterIsTold
<1>13. ASSUME NEW t \in Clients, drain(t) PROVE WriterOK'
  <2>1. PICK m \in {"DRAIN", "PARTIAL_DRAIN"} : queue' = queue \/ queue' = Append(queue, m)
      BY <1>13, DrainDoes
  <2>2. /\ queue' = queue \/ Contains(queue', m)
        /\ Contains(queue, "EXIT") => Contains(queue', "EXIT")
        /\ Contains(queue, "WAIT_FOR_BUFFER") => Contains(queue', "WAIT_FOR_BUFFER")
        /\ Warned(queue) => Warned(queue')
        /\ queue = << >> /\ queue' # << >> => Head(queue') = m
        /\ queue # << >> /\ queue' # << >> => Head(queue') = Head(queue)
    <3>1. CASE queue' = queue
        BY <3>1
    <3>2. CASE queue' = Append(queue, m)
        BY <3>2, QueueAppend DEF Types, Commands
    <3> QED BY <2>1, <3>1, <3>2
  <2>3. pc \in [Threads -> Places]
      BY DEF Types
  <2> QED BY <1>13, DrainDoes, <2>1, <2>2, <2>3, CompressAssumption DEF Threads,
      Places, CallsOK, StateOK, DriverOK, ThreadOK, LocksOK, WriterOK, Plays, Down,
      OnIt, WriterIsTold
<1>14. ASSUME NEW t \in Clients, pause(t) PROVE WriterOK'
    BY <1>14, PauseDoes, CompressAssumption DEF Types, Threads, Places, CallsOK,
       StateOK, DriverOK, ThreadOK, LocksOK, WriterOK, Plays, Down, OnIt,
       WriterIsTold
<1>15. ASSUME NEW t \in Clients, resume(t) PROVE WriterOK'
    BY <1>15 DEF resume, Types, Strs, Drvs, WriterOK, Plays, Down, OnIt,
       WriterIsTold
<1>16. ASSUME NEW t \in Clients, flush(t) PROVE WriterOK'
    BY <1>16 DEF flush, Ended, Types, Drvs, Seens, WriterOK, Plays, Down, OnIt,
       WriterIsTold
<1>17. ASSUME NEW t \in Clients, pal_stream_stop(t) PROVE WriterOK'
    BY <1>17 DEF pal_stream_stop, Goto, Types, Seens, Threads, WriterOK, Plays,
       Down, OnIt, WriterIsTold
<1>18. ASSUME NEW t \in Clients, pal_stream_close(t) PROVE WriterOK'
    BY <1>18 DEF pal_stream_close, Goto, Types, Seens, Threads, WriterOK, Plays,
       Down, OnIt, WriterIsTold
<1>19. ASSUME NEW t \in Threads, Register(t) PROVE WriterOK'
    BY <1>19, CompressAssumption DEF Register, Goto, Types, Strs, Threads, WriterOK,
       Plays, Down, OnIt, WriterIsTold
<1>20. ASSUME NEW t \in Threads, stop(t) PROVE WriterOK'
    BY <1>20, CompressAssumption DEF stop, Goto, Types, Threads, WriterOK, Plays,
       Down, OnIt, WriterIsTold
<1>21. ASSUME NEW t \in Threads, Stopping(t) PROVE WriterOK'
  <2>1. t = "ssr" => Down
      BY <1>21, StoppingDoes, CompressAssumption DEF LocksOK
  <2>2. t \in Clients => ~seen.started
      BY <1>21, StoppingDoes DEF CallsOK, Stop
  <2>3. Down \/ ~seen.started
      BY <2>1, <2>2 DEF Threads
  <2> QED BY <1>21, StoppingDoes, <2>3 DEF WriterOK, WriterIsTold, OnIt, Plays, Down
<1>22. ASSUME NEW t \in Threads, close(t) PROVE WriterOK'
  <2>0. /\ UNCHANGED <<ses, wk, drv, card>> /\ pc[t] = "close" /\ str.mutex = "none"
        /\ pc \in [Threads -> Places] /\ after \in [Threads -> {"idle", "close", "closing"}]
      BY <1>22, CloseDoes DEF Types
  <2>1. CASE str.st = "IDLE" /\ pc' = [pc EXCEPT ![t] = CloseReturned(t)]
             /\ UNCHANGED <<str, after, queue, seen>>
      BY <2>0, <2>1, CompressAssumption DEF CloseReturned, Threads, Places, CallsOK,
         StateOK, DriverOK, ThreadOK, LocksOK, WriterOK, Plays, Down, OnIt,
         WriterIsTold
  <2>2. CASE /\ str.st \in {"STARTED", "PAUSED"} /\ pc' = [pc EXCEPT ![t] = "stop"]
             /\ after' = [after EXCEPT ![t] = "closing"]
             /\ UNCHANGED <<str, queue, seen>>
      BY <2>0, <2>2, CompressAssumption DEF Threads, Places, CallsOK, StateOK,
         DriverOK, ThreadOK, LocksOK, WriterOK, Plays, Down, OnIt, WriterIsTold
  <2>3. CASE str.st \in {"INIT", "OPENED", "STOPPED"} /\ CloseSession(t)
    <3>1. /\ pc' = [pc EXCEPT ![t] = "join"] /\ after' = after
          /\ str'.mutex = t /\ str'.st = str.st
          /\ queue' = IF ses.compress THEN queue \o LastMessages ELSE queue
          /\ \A f \in {"opened", "started", "hurt", "error", "closing"} :
                seen'[f] = seen[f]
          /\ ~seen'.waiting
        BY <2>3, CloseSessionDoes
    <3>2. /\ queue \in Seq(Commands)
          /\ Contains(queue \o LastMessages, "EXIT") /\ queue \o LastMessages # << >>
          /\ Down /\ Warned(queue) => Warned(queue \o LastMessages)
          /\ Down => Head(queue \o LastMessages) =
                        IF queue = << >> THEN "ERROR" ELSE Head(queue)
        BY QueueEnds DEF Types
    <3> QED BY <2>0, <2>3, <3>1, <3>2, CompressAssumption DEF Threads, Places,
        CallsOK, StateOK, DriverOK, ThreadOK, LocksOK, WriterOK, Plays, Down, OnIt,
        WriterIsTold
  <2> QED BY <1>22, <2>1, <2>2, <2>3, CloseDoes
<1>23. ASSUME NEW t \in Threads, Closing(t) PROVE WriterOK'
  <2>1. /\ pc[t] = "closing" /\ str.mutex = "none" /\ CloseSession(t)
        /\ UNCHANGED <<ses, wk, drv, card>>
      BY <1>23 DEF Closing, Free
  <2> QED BY <2>1, CloseSessionDoes, QueueEnds, CompressAssumption DEF Types,
      Threads, Places, CallsOK, StateOK, DriverOK, ThreadOK, LocksOK, WriterOK,
      Plays, Down, OnIt, WriterIsTold
<1>24. ASSUME NEW t \in Threads, Join(t) PROVE WriterOK'
    BY <1>24, CompressAssumption DEF Join, Goto, CloseReturned, Types, Strs, Sess,
       Wks, Threads, CallsOK, StateOK, DriverOK, ThreadOK, LocksOK, WriterOK, Plays,
       Down, OnIt, WriterIsTold
<1>25. CASE HandleCardState
    BY <1>25, CompressAssumption DEF HandleCardState, Goto, Types, Cards, Threads,
       CallsOK, StateOK, DriverOK, ThreadOK, LocksOK, WriterOK, Plays, Down, OnIt,
       WriterIsTold
<1>26. CASE ssrDownHandler
  <2>1. UNCHANGED <<str, ses, queue, wk, drv, seen>> /\ card'.state = card.state
      BY <1>26 DEF ssrDownHandler, Types, Cards
  <2> QED BY <2>1 DEF WriterOK, WriterIsTold, OnIt, Plays, Down
<1>27. CASE Relock
    BY <1>27, CompressAssumption DEF Relock, Goto, Types, Strs, Cards, Threads,
       CallsOK, StateOK, DriverOK, ThreadOK, LocksOK, WriterOK, Plays, Down, OnIt,
       WriterIsTold
<1> QED BY <1>1, <1>2, <1>3, <1>4, <1>5, <1>6, <1>7, <1>8, <1>9, <1>10, <1>11,
    <1>12, <1>12a, <1>13, <1>14, <1>15, <1>16, <1>17, <1>18, <1>19, <1>20, <1>21, <1>22,
    <1>23, <1>24, <1>25, <1>26, <1>27 DEF Next, Calling, Continue, Worker, Ssr

-----------------------------------------------------------------------------
(* The theorems. *)

\* The stream as pal_stream_open finds it: nothing is open, nobody waits.
LEMMA InvInit == Init => Inv
<1> SUFFICES ASSUME Init PROVE Inv
    OBVIOUS
<1>1. Types
  <2>1. str \in Strs /\ ses \in Sess /\ wk \in Wks /\ drv \in Drvs
      BY DEF Init, Strs, Sess, Wks, Drvs, Lock, Commands, Events
  <2>2. pc \in [Threads -> Places] /\ after \in [Threads -> {"idle", "close", "closing"}]
      BY DEF Init, Places
  <2>3. << >> \in Seq(Commands) /\ << >> \in Seq({"ONLINE", "OFFLINE"})
      OBVIOUS
  <2>4. queue \in Seq(Commands)
      BY <2>3 DEF Init
  <2>5. PICK q \in Seq({"ONLINE", "OFFLINE"}) : q = << >>
      BY <2>3
  <2>6. card = [state |-> "ONLINE", prev |-> "ONLINE", msgQ |-> q, active |-> "none",
                dsp |-> TRUE]
      BY <2>5 DEF Init
  <2>7. card \in Cards
      BY <2>6 DEF Cards, Lock
  <2>8. seen \in Seens
      BY DEF Init, Seens
  <2>9. used \in Useds
      BY CompressAssumption DEF Init, Useds
  <2> QED BY <2>1, <2>2, <2>4, <2>7, <2>8, <2>9 DEF Types
<1>2. CallsOK /\ LocksOK /\ StateOK
    BY CompressAssumption DEF Init, CallsOK, LocksOK, StateOK, Threads, Down, Plays,
       Stop
<1>3. DriverOK /\ WriterOK
    BY DEF Init, DriverOK, WriterOK, WriterIsTold, Plays, Down, OnIt
<1>4. ThreadOK
  <2>1. Warned(<< >>)
      BY DEF Warned
  <2> QED BY <2>1 DEF Init, ThreadOK, Threads
<1> QED BY <1>1, <1>2, <1>3, <1>4 DEF Inv

\* Every step of the program, or none, keeps the invariant.
LEMMA InvNext == Inv /\ [Next]_vars => Inv'
<1> SUFFICES ASSUME Inv, [Next]_vars PROVE Inv'
    OBVIOUS
<1>1. CASE Next
    BY <1>1, TypesStep, CallsStep, LocksStep, StateStep, DriverStep, ThreadStep,
       WriterStep DEF Inv
<1>2. CASE UNCHANGED vars
    BY <1>2 DEF vars, Inv, Types, CallsOK, LocksOK, StateOK, DriverOK, ThreadOK,
       WriterOK, WriterIsTold, OnIt, ErrorTold, Plays, Down
<1> QED BY <1>1, <1>2

\* The invariant holds in every reachable state of the stream, its session and the SSR
\* worker.
THEOREM Invariant == Spec => []Inv
BY InvInit, InvNext, PTL DEF Spec

\* Every variable of the stream, the session, the offload thread and the driver keeps its
\* type (TypeOK).
THEOREM TypeCorrect == Spec => []TypeOK
<1>1. Inv => TypeOK
    BY TypesAre DEF Inv
<1> QED BY <1>1, Invariant, PTL

\* A short write is always followed by a callback about the room (WriterIsTold), although
\* SessionAlsaCompress::write reads command without a lock: while the card is up, command
\* says WAIT_FOR_BUFFER only as long as the thread has not left compress_wait.
THEOREM WriterAlwaysTold == Spec => []WriterIsTold
<1>1. Inv => WriterIsTold
    BY DEF Inv, WriterOK
<1> QED BY <1>1, Invariant, PTL

\* Nobody waits for ever (NobodyHangs): the SSR worker that keeps mActiveStreamMutex goes
\* straight to close, since the stream it found not playing cannot start to play with the
\* card down; and who joins the offload thread has queued OFFLOAD_CMD_EXIT for a driver that
\* no longer plays, so that no call of it is blocked.
THEOREM NobodyEverHangs == Spec => []NobodyHangs
<1>1. Inv => NobodyHangs
  <2> SUFFICES ASSUME Inv PROVE NobodyHangs
      OBVIOUS
  <2>1. ~(pc["ssr"] = "stopping" /\ card.active = "ssr")
      BY DEF Inv, LocksOK
  <2>2. ASSUME NEW t \in Threads, pc[t] = "join", ses.compress, wk.at # "exited"
        PROVE  Contains(queue, "EXIT") /\ drv.call # "blocked"
    <3>1. Contains(queue, "EXIT")
        BY <2>2 DEF Inv, ThreadOK
    <3>2. ~Plays
        BY <2>2 DEF Inv, StateOK
    <3>3. drv.call # "blocked"
        BY <3>2 DEF Inv, DriverOK
    <3> QED BY <3>1, <3>3
  <2> QED BY <2>1, <2>2 DEF NobodyHangs
<1> QED BY <1>1, Invariant, PTL

\* A client that holds a session when the DSP crashes hears of the error before the SSR
\* worker is done, unless it closes the stream itself (CrashIsReported): the exit of the
\* thread is queued just behind the error, so the session cannot be joined before the
\* callback.
THEOREM CrashAlwaysReported == Spec => []CrashIsReported
<1>1. Inv => CrashIsReported
    BY DEF Inv, CrashIsReported, StateOK, ThreadOK, Down
<1> QED BY <1>1, Invariant, PTL
=============================================================================
