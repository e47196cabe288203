-------------------------- MODULE StreamPCM_proofs --------------------------
(* Proofs about StreamPCM.  What a thread still does is a short sequence of *)
(* labels; the sequences are dealt with once, in the first section, and the *)
(* rest of the module only looks at their first labels.                     *)
(*                                                                          *)
(*   TypeCorrect          TypeOK, for all constants                         *)
(*   DownRoundsClose      DownRoundCloses, when OpensClean                  *)
(*   NeverSelfDeadlocks   NoSelfDeadlock, when Undisturbed                  *)
(*   AlwaysCoherent       Coherent, when Serial and FailsClean              *)
(*   OthersAlwaysUnharmed OthersUnharmed, when Serial and FailsClean        *)
(*   PauseSurvives        PausedComesBack, when Recoverable                 *)
(*   AlwaysRecovered      Recovered, when Recoverable and NobodyPauses      *)
(*                                                                          *)
(* The hypotheses are about the constants: which calls a client may make in *)
(* the middle of a round, which calls below the stream may fail, and        *)
(* whether the card stays as it is until the worker has followed it.        *)
EXTENDS StreamPCM, SequenceTheorems, TLAPS

-----------------------------------------------------------------------------
(* Programs as sequences.                                                    *)

One(a) == <<a>>
Two(a, b) == <<a, b>>
Three(a, b, c) == <<a, b, c>>

LEMMA Sequences ==
    /\ \A a : One(a) # <<>> /\ Head(One(a)) = a /\ Tail(One(a)) = <<>>
    /\ \A a, b : Two(a, b) # <<>> /\ Head(Two(a, b)) = a /\ Tail(Two(a, b)) = One(b)
    /\ \A a, b, c : Three(a, b, c) # <<>> /\ Head(Three(a, b, c)) = a
                     /\ Tail(Three(a, b, c)) = Two(b, c)
<1>1. ASSUME NEW a PROVE One(a) # <<>> /\ Head(One(a)) = a /\ Tail(One(a)) = <<>>
    BY DEF One
<1>2. ASSUME NEW a, NEW b
      PROVE  Two(a, b) # <<>> /\ Head(Two(a, b)) = a /\ Tail(Two(a, b)) = One(b)
    BY DEF One, Two
<1>3. ASSUME NEW a, NEW b, NEW c
      PROVE Three(a, b, c) # <<>> /\ Head(Three(a, b, c)) = a
                     /\ Tail(Three(a, b, c)) = Two(b, c)
    BY DEF Three, Two
<1>. QED
    BY <1>1, <1>2, <1>3

LEMMA Lengths ==
    /\ Len(<<>>) = 0
    /\ \A a : Len(One(a)) = 1
    /\ \A a, b : Len(Two(a, b)) = 2
    /\ \A a, b, c : Len(Three(a, b, c)) = 3
BY DEF One, Two, Three

LEMMA Empty ==
    /\ <<>> \o <<>> = <<>>
    /\ \A a : <<>> \o One(a) = One(a) /\ <<a>> \o <<>> = One(a)
    /\ \A a, b : <<>> \o Two(a, b) = Two(a, b) /\ <<a, b>> \o <<>> = Two(a, b)
    /\ \A a, b, c : <<a, b, c>> \o <<>> = Three(a, b, c)
BY DEF One, Two, Three

LEMMA Joins ==
    /\ \A a, b : <<a>> \o One(b) = Two(a, b)
    /\ \A a, b, c : <<a>> \o Two(b, c) = Three(a, b, c)
    /\ \A a, b, c : <<a, b>> \o One(c) = Three(a, b, c)
<1>1. ASSUME NEW a, NEW b
      PROVE  <<a>> \o <<b>> = <<a, b>>
  <2> DEFINE S == {a, b}
  <2>1. <<a>> \in Seq(S) /\ <<b>> \in Seq(S) /\ <<a, b>> \in Seq(S)
      OBVIOUS
  <2>2. /\ <<a>> \o <<b>> \in Seq(S) /\ Len(<<a>> \o <<b>>) = 2
        /\ \A i \in 1..2 : (<<a>> \o <<b>>)[i] = <<a, b>>[i]
      BY <2>1, ConcatProperties
  <2>. QED
      BY <2>1, <2>2, SeqEqual
<1>2. ASSUME NEW a, NEW b, NEW c
      PROVE  <<a>> \o <<b, c>> = <<a, b, c>> /\ <<a, b>> \o <<c>> = <<a, b, c>>
  <2> DEFINE S == {a, b, c}
  <2>1. /\ <<a>> \in Seq(S) /\ <<b, c>> \in Seq(S) /\ <<a, b, c>> \in Seq(S)
        /\ <<a, b>> \in Seq(S) /\ <<c>> \in Seq(S)
      OBVIOUS
  <2>2. /\ <<a>> \o <<b, c>> \in Seq(S) /\ Len(<<a>> \o <<b, c>>) = 3
        /\ \A i \in 1..3 : (<<a>> \o <<b, c>>)[i] = <<a, b, c>>[i]
      BY <2>1, ConcatProperties
  <2>3. /\ <<a, b>> \o <<c>> \in Seq(S) /\ Len(<<a, b>> \o <<c>>) = 3
        /\ \A i \in 1..3 : (<<a, b>> \o <<c>>)[i] = <<a, b, c>>[i]
      BY <2>1, ConcatProperties
  <2>. QED
      BY <2>1, <2>2, <2>3, SeqEqual
<1>. QED
    BY <1>1, <1>2 DEF One, Two, Three

Rest(p) == <<>> \o Tail(p)
Push(a, p) == <<a>> \o Tail(p)
PushTwo(a, b, p) == <<a, b>> \o Tail(p)
PushThree(a, b, c, p) == <<a, b, c>> \o Tail(p)

LEMMA Rests ==
    /\ \A a : Rest(One(a)) = <<>>
    /\ \A a, b : Rest(Two(a, b)) = One(b)
    /\ \A a, b, c : Rest(Three(a, b, c)) = Two(b, c)
BY Sequences, Empty DEF Rest

LEMMA Pushes ==
    /\ \A a, x : Push(a, One(x)) = One(a)
    /\ \A a, x, y : Push(a, Two(x, y)) = Two(a, y)
    /\ \A a, x, y, z : Push(a, Three(x, y, z)) = Three(a, y, z)
    /\ \A a, b, x : PushTwo(a, b, One(x)) = Two(a, b)
    /\ \A a, b, x, y : PushTwo(a, b, Two(x, y)) = Three(a, b, y)
    /\ \A a, b, c, x : PushThree(a, b, c, One(x)) = Three(a, b, c)
<1>1. ASSUME NEW a, NEW x PROVE Push(a, One(x)) = One(a)
    BY Sequences, Empty DEF Push
<1>2. ASSUME NEW a, NEW x, NEW y PROVE Push(a, Two(x, y)) = Two(a, y)
  <2>1. Tail(Two(x, y)) = One(y)
      BY Sequences
  <2>2. <<a>> \o One(y) = Two(a, y)
      BY Joins
  <2>. QED
      BY <2>1, <2>2 DEF Push
<1>3. ASSUME NEW a, NEW x, NEW y, NEW z
      PROVE  Push(a, Three(x, y, z)) = Three(a, y, z)
  <2>1. Tail(Three(x, y, z)) = Two(y, z)
      BY Sequences
  <2>2. <<a>> \o Two(y, z) = Three(a, y, z)
      BY Joins
  <2>. QED
      BY <2>1, <2>2 DEF Push
<1>4. ASSUME NEW a, NEW b, NEW x PROVE PushTwo(a, b, One(x)) = Two(a, b)
    BY Sequences, Empty DEF PushTwo
<1>5. ASSUME NEW a, NEW b, NEW x, NEW y
      PROVE  PushTwo(a, b, Two(x, y)) = Three(a, b, y)
  <2>1. Tail(Two(x, y)) = One(y)
      BY Sequences
  <2>2. <<a, b>> \o One(y) = Three(a, b, y)
      BY Joins
  <2>. QED
      BY <2>1, <2>2 DEF PushTwo
<1>6. ASSUME NEW a, NEW b, NEW c, NEW x
      PROVE  PushThree(a, b, c, One(x)) = Three(a, b, c)
    BY Sequences, Empty DEF PushThree
<1>. QED
    BY <1>1, <1>2, <1>3, <1>4, <1>5, <1>6

First(p) == Head(p)
LEMMA Firsts ==
    /\ \A a : One(a) # <<>> /\ First(One(a)) = a
    /\ \A a, b : Two(a, b) # <<>> /\ First(Two(a, b)) = a
    /\ \A a, b, c : Three(a, b, c) # <<>> /\ First(Three(a, b, c)) = a
BY Sequences DEF First

-----------------------------------------------------------------------------
(* The programs of the threads.                                              *)

(* What a thread still does of close(), up to what follows it.             *)
Closing(last) == {Two("close", last), Three("stop", "close_locked", last),
                  Three("stop_locked", "close_locked", last), Two("close_locked", last)}

(* What is left of an API call.                                            *)
Programs(op) ==
    CASE op = "open"   -> {Two("open", "return"), One("return"), One("destroy")}
                             \cup Closing("destroy")
      [] op = "start"  -> {Two("start", "return"), Two("start_register", "return"),
                           One("return")}
      [] op = "stop"   -> {Three("set_stopped", "stop", "return"), Two("stop", "return"),
                           Two("stop_locked", "return"), One("return")}
      [] op = "close"  -> {Three("set_idle", "close", "destroy"), One("destroy")}
                             \cup Closing("destroy")
      [] op = "pause"  -> {Two("pause", "return"), One("return")}
      [] op = "resume" -> {Two("resume", "return"), One("return")}
      [] op = "write"  -> {Two("write", "return"), Two("write_netreset", "return"),
                           Two("write_resumed", "return"),
                           Three("write_register", "write_started", "return"),
                           Two("write_started", "return"), One("return")}
      [] op = "read"   -> {Two("read", "return"), One("return")}
      [] op = "none"   -> {<<>>}

(* What is left of a round, down or up.                                    *)
DownPrograms ==
    {One("down"), Three("stop", "close", "down_exit"),
     Three("stop_locked", "close", "down_exit"),
     One("down_exit")} \cup Closing("down_exit")
UpPrograms ==
    {One("up"), Two("open", "up_exit"), Two("open", "up_start"), Two("open", "up_start_paused"),
     One("up_start"), One("up_start_paused"),
     Two("start", "up_exit"), Two("start_register", "up_exit"),
     Two("start", "up_pause"), Two("start_register", "up_pause"),
     One("up_pause"), Two("pause", "up_exit"), One("up_exit")}
Rounds == {<<>>} \cup DownPrograms \cup UpPrograms


(* What thread t may still have to do.                                       *)
Left(t) == IF t = Ssr THEN Rounds ELSE Programs(call[t])

Goes(t, p) == todo' = [todo EXCEPT ![t] = p]

LEMMA AtFirst == \A t, l : At(t, l) <=> todo[t] # <<>> /\ First(todo[t]) = l
BY DEF At, First

LEMMA ThenGoes ==
    /\ \A t : Then(t, <<>>) <=> Goes(t, Rest(todo[t]))
    /\ \A t, a : Then(t, <<a>>) <=> Goes(t, Push(a, todo[t]))
    /\ \A t, a, b : Then(t, <<a, b>>) <=> Goes(t, PushTwo(a, b, todo[t]))
    /\ \A t, a, b, c : Then(t, <<a, b, c>>) <=> Goes(t, PushThree(a, b, c, todo[t]))
    /\ \A t, s : Return(t, s) <=> /\ Goes(t, Rest(todo[t]))
                                  /\ status' = [status EXCEPT ![t] = s]
BY DEF Then, Goes, Rest, Push, PushTwo, PushThree, Return

LEMMA RestOfProgram ==
    ASSUME NEW op \in CallName \cup {"none"}, NEW p \in Programs(op), p # <<>>,
           First(p) \notin {"return", "destroy"}
    PROVE  Rest(p) \in Programs(op)
BY Firsts, Rests DEF Programs, Closing, CallName

LEMMA RestOfRound ==
    ASSUME NEW p \in Rounds, p # <<>>
    PROVE  Rest(p) \in Rounds
BY Firsts, Rests DEF Rounds, UpPrograms, DownPrograms, Closing

(* The calls that methods make are pushed on what is left.                   *)
LEMMA PushedOnProgram ==
    ASSUME NEW op \in CallName \cup {"none"}, NEW p \in Programs(op), p # <<>>
    PROVE  /\ First(p) = "start" => Push("start_register", p) \in Programs(op)
           /\ First(p) = "stop" => Push("stop_locked", p) \in Programs(op)
           /\ First(p) = "close" => PushTwo("stop", "close_locked", p) \in Programs(op)
           /\ First(p) = "write" => /\ Push("write_resumed", p) \in Programs(op)
                                    /\ Push("write_netreset", p) \in Programs(op)
           /\ First(p) = "write_resumed" =>
                 PushTwo("write_register", "write_started", p) \in Programs(op)
<1>1. /\ First(p) = "start" => Push("start_register", p) \in Programs(op)
      /\ First(p) = "stop" => Push("stop_locked", p) \in Programs(op)
    BY Firsts, Pushes DEF Programs, Closing, CallName
<1>2. First(p) = "close" => PushTwo("stop", "close_locked", p) \in Programs(op)
    BY Firsts, Pushes DEF Programs, Closing, CallName
<1>3. ASSUME First(p) \in {"write", "write_resumed"}
      PROVE  op = "write" /\ p \in {Two("write", "return"), Two("write_resumed", "return")}
    BY <1>3, Firsts DEF Programs, Closing, CallName
<1>4. /\ Programs("write") = {Two("write", "return"), Two("write_netreset", "return"),
                               Two("write_resumed", "return"),
                               Three("write_register", "write_started", "return"),
                               Two("write_started", "return"), One("return")}
    BY DEF Programs
<1>5. CASE First(p) = "write"
  <2>1. p = Two("write", "return")
      BY <1>3, <1>5, Firsts
  <2>2. /\ Push("write_resumed", p) = Two("write_resumed", "return")
        /\ Push("write_netreset", p) = Two("write_netreset", "return")
      BY <2>1, Pushes
  <2>. QED
      BY <1>1, <1>2, <1>3, <1>4, <1>5, <2>2
<1>6. CASE First(p) = "write_resumed"
  <2>1. p = Two("write_resumed", "return")
      BY <1>3, <1>6, Firsts
  <2>2. PushTwo("write_register", "write_started", p) =
           Three("write_register", "write_started", "return")
      BY <2>1, Pushes
  <2>. QED
      BY <1>1, <1>2, <1>3, <1>4, <1>6, <2>2
<1>. QED
    BY <1>1, <1>2, <1>5, <1>6

LEMMA PushedOnRound ==
    ASSUME NEW p \in Rounds, p # <<>>
    PROVE  /\ First(p) = "start" => Push("start_register", p) \in Rounds
           /\ First(p) = "stop" => Push("stop_locked", p) \in Rounds
           /\ First(p) = "close" => PushTwo("stop", "close_locked", p) \in Rounds
           /\ First(p) = "down" =>
                 /\ PushTwo("close", "down_exit", p) \in Rounds
                 /\ PushThree("stop", "close", "down_exit", p) \in Rounds
                 /\ Push("down_exit", p) \in Rounds
           /\ First(p) = "up" =>
                 /\ PushTwo("open", "up_exit", p) \in Rounds
                 /\ PushTwo("open", "up_start", p) \in Rounds
                 /\ PushTwo("open", "up_start_paused", p) \in Rounds
                 /\ Push("up_exit", p) \in Rounds
           /\ First(p) \in {"up_start", "up_start_paused"} =>
                 /\ Push("up_exit", p) \in Rounds
                 /\ PushTwo("start", "up_exit", p) \in Rounds
                 /\ PushTwo("start", "up_pause", p) \in Rounds
           /\ First(p) = "up_pause" =>
                 /\ Push("up_exit", p) \in Rounds
                 /\ PushTwo("pause", "up_exit", p) \in Rounds
<1>1. /\ First(p) = "start" => Push("start_register", p) \in Rounds
      /\ First(p) = "stop" => Push("stop_locked", p) \in Rounds
      /\ First(p) = "close" => PushTwo("stop", "close_locked", p) \in Rounds
    BY Firsts, Pushes DEF Rounds, UpPrograms, DownPrograms, Closing
<1>2. First(p) = "down" =>
                 /\ PushTwo("close", "down_exit", p) \in Rounds
                 /\ PushThree("stop", "close", "down_exit", p) \in Rounds
                 /\ Push("down_exit", p) \in Rounds
    BY Firsts, Pushes DEF Rounds, UpPrograms, DownPrograms, Closing
<1>3. First(p) = "up" =>
                 /\ PushTwo("open", "up_exit", p) \in Rounds
                 /\ PushTwo("open", "up_start", p) \in Rounds
                 /\ PushTwo("open", "up_start_paused", p) \in Rounds
                 /\ Push("up_exit", p) \in Rounds
    BY Firsts, Pushes DEF Rounds, UpPrograms, DownPrograms, Closing
<1>4. First(p) \in {"up_start", "up_start_paused"} =>
                 /\ Push("up_exit", p) \in Rounds
                 /\ PushTwo("start", "up_exit", p) \in Rounds
                 /\ PushTwo("start", "up_pause", p) \in Rounds
    BY Firsts, Pushes DEF Rounds, UpPrograms, DownPrograms, Closing
<1>5. First(p) = "up_pause" =>
                 /\ Push("up_exit", p) \in Rounds
                 /\ PushTwo("pause", "up_exit", p) \in Rounds
    BY Firsts, Pushes DEF Rounds, UpPrograms, DownPrograms, Closing
<1>. QED
    BY <1>1, <1>2, <1>3, <1>4, <1>5

Short(p) == Len(p) <= 5

LEMMA ProgramLength ==
    /\ \A op \in CallName \cup {"none"} : \A p \in Programs(op) : Short(p)
    /\ \A p \in Rounds : Short(p)
<1>1. /\ Short(<<>>) /\ \A a : Short(One(a))
      /\ \A a, b : Short(Two(a, b)) /\ \A c : Short(Three(a, b, c))
  <2>1. Short(<<>>)
      BY Lengths DEF Short
  <2>2. ASSUME NEW a PROVE Short(One(a))
      BY DEF Short, One
  <2>3. ASSUME NEW a, NEW b PROVE Short(Two(a, b))
      BY DEF Short, Two
  <2>4. ASSUME NEW a, NEW b, NEW c PROVE Short(Three(a, b, c))
      BY DEF Short, Three
  <2>. QED
      BY <2>1, <2>2, <2>3, <2>4
<1>2. ASSUME NEW op \in CallName \cup {"none"}, NEW p \in Programs(op)
      PROVE  Short(p)
    BY <1>1 DEF Programs, Closing, CallName
<1>3. ASSUME NEW p \in Rounds
      PROVE  Short(p)
    BY <1>1 DEF Rounds, UpPrograms, DownPrograms, Closing
<1>. QED
    BY <1>2, <1>3

LEMMA NewProgram == \A op \in CallName : Program(op) \in Programs(op)
BY DEF Program, Programs, CallName, Two, Three

LEMMA LastOfProgram ==
    ASSUME NEW op \in CallName \cup {"none"}, NEW p \in Programs(op), p # <<>>
    PROVE  /\ op # "none"
           /\ First(p) = "return" => op # "close" /\ Rest(p) = <<>>
           /\ First(p) = "destroy" => op \in {"open", "close"} /\ Rest(p) = <<>>
           /\ op = "open" /\ First(p) = "return" =>
                 PushTwo("close", "destroy", p) \in Programs(op)
BY Firsts, Rests, Pushes DEF Programs, Closing, CallName

-----------------------------------------------------------------------------
(* Type correctness.                                                         *)

Programmed ==
    /\ todo = [t \in Thread |-> todo[t]]
    /\ \A c \in Client : todo[c] \in Programs(call[c])
    /\ todo[Ssr] \in Rounds

Fields ==
    /\ mStreamAttr \in Attributes
    /\ currentState \in State /\ cachedState \in State
    /\ isPaused \in BOOLEAN /\ skipSSRHandling \in BOOLEAN
    /\ mDevices \subseteq Dev /\ registered \subseteq Dev
    /\ session \in {"closed", "open", "started", "paused"}
    /\ deviceCount \in [Dev -> Nat] /\ deviceStartStopCount \in [Dev -> Nat]
    /\ cardState \in Card /\ prevState \in Card /\ msgQ \in Seq(Card)
    /\ ssrHolds \in BOOLEAN
    /\ card \in Card /\ event \in BOOLEAN /\ monitor \in {"poll", "discard"}
    /\ changes \in 0..MaxChanges
    /\ call \in [Client -> CallName \cup {"none"}]
    /\ status \in [Thread -> {-1, 0}]
    /\ view \in {"none", "opened", "started", "paused", "stopped", "closing",
                "failed", "dead"}

Typed == Fields /\ Programmed

LEMMA TypedIsTypeOK == Typed => TypeOK
<1>1. SUFFICES ASSUME Typed, NEW t \in Thread PROVE Len(todo[t]) <= 5
    BY DEF Typed, Fields, TypeOK
<1>2. \A c \in Client : call[c] \in CallName \cup {"none"}
    BY <1>1 DEF Typed, Fields
<1>3. Short(todo[t])
    BY <1>1, <1>2, ProgramLength DEF Typed, Programmed, Thread
<1>. QED
    BY <1>3 DEF Short

LEMMA LeftIs ==
    ASSUME Typed, NEW t \in Thread
    PROVE  /\ todo[t] \in Left(t)
           /\ t # Ssr => t \in Client /\ call[t] \in CallName \cup {"none"}
BY DEF Typed, Fields, Programmed, Thread, Left

(* A thread goes on with its program.                                        *)
LEMMA KeptPrograms ==
    ASSUME Programmed, NEW t \in Thread, NEW p \in Left(t), Goes(t, p), call' = call
    PROVE  Programmed'
BY StreamAssumption DEF Programmed, Goes, Left, Thread

LEMMA Onward ==
    ASSUME Typed, NEW t \in Thread, todo[t] # <<>>
    PROVE  /\ First(todo[t]) \notin {"return", "destroy"} => Rest(todo[t]) \in Left(t)
           /\ First(todo[t]) = "start" => Push("start_register", todo[t]) \in Left(t)
           /\ First(todo[t]) = "stop" => Push("stop_locked", todo[t]) \in Left(t)
           /\ First(todo[t]) = "close" =>
                 PushTwo("stop", "close_locked", todo[t]) \in Left(t)
BY LeftIs, RestOfProgram, RestOfRound, PushedOnProgram, PushedOnRound DEF Left

LEMMA Counting ==
    ASSUME NEW f \in [Dev -> Nat], NEW D
    PROVE  Raise(f, D) \in [Dev -> Nat] /\ Lower(f, D) \in [Dev -> Nat]
BY DEF Raise, Lower

LEMMA ClosedCounts ==
    ASSUME deviceCount \in [Dev -> Nat], deviceStartStopCount \in [Dev -> Nat], NEW D,
           closeDevices(D)
    PROVE  deviceCount' \in [Dev -> Nat] /\ deviceStartStopCount' \in [Dev -> Nat]
BY Counting DEF closeDevices

LEMMA Queue ==
    ASSUME msgQ \in Seq(Card)
    PROVE  /\ \A s \in Card : ssrHandler(s) => msgQ' \in Seq(Card)
           /\ msgQ # <<>> => Head(msgQ) \in Card /\ Tail(msgQ) \in Seq(Card)
BY DEF ssrHandler

LEMMA Typed_OpenRefused ==
    ASSUME Typed, NEW t \in Thread, OpenRefused(t)
    PROVE  Typed'
<1>1. Programmed'
    BY AtFirst, ThenGoes, KeptPrograms, Onward DEF OpenRefused, Typed, clientVars
<1>2. Fields'
    BY ZenonT(60), StreamAssumption DEF OpenRefused, Typed, Fields, Then, Return,
       streamVars,
       lowerVars, rmVars, cardVars, clientVars
<1>. QED
    BY <1>1, <1>2 DEF Typed

LEMMA Typed_OpenRun ==
    ASSUME Typed, NEW t \in Thread, OpenRun(t)
    PROVE  Typed'
<1>1. Programmed'
    BY AtFirst, ThenGoes, KeptPrograms, Onward DEF OpenRun, Typed, clientVars
<1>2. Fields'
    BY StreamAssumption, Counting DEF OpenRun, Typed, Fields, Then, Return, streamVars,
       lowerVars, rmVars, cardVars, clientVars, State
<1>. QED
    BY <1>1, <1>2 DEF Typed

LEMMA Typed_OpenDeviceFails ==
    ASSUME Typed, NEW t \in Thread, OpenDeviceFails(t)
    PROVE  Typed'
<1>1. Programmed'
    BY AtFirst, ThenGoes, KeptPrograms, Onward DEF OpenDeviceFails, Typed, clientVars
<1>2. Fields'
  <2>1. status' \in [Thread -> {-1, 0}]
      BY DEF OpenDeviceFails, Return, Typed, Fields
  <2>2. /\ deviceCount' \in [Dev -> Nat] /\ deviceStartStopCount' \in [Dev -> Nat]
        /\ mDevices' \subseteq Dev
    <3>1. PICK D \in ProperPart(mDevices) : deviceCount' = Raise(deviceCount, D)
        BY DEF OpenDeviceFails
    <3>. QED
        BY <3>1, Counting DEF OpenDeviceFails, Typed, Fields
  <2>. QED
      BY ZenonT(60), <2>1, <2>2 DEF OpenDeviceFails, Typed, Fields, streamVars,
         lowerVars, rmVars,
         cardVars, clientVars
<1>. QED
    BY <1>1, <1>2 DEF Typed

LEMMA Typed_OpenSessionFails ==
    ASSUME Typed, NEW t \in Thread, OpenSessionFails(t)
    PROVE  Typed'
<1>1. Programmed'
    BY AtFirst, ThenGoes, KeptPrograms, Onward DEF OpenSessionFails, Typed, clientVars
<1>2. Fields'
    BY ZenonT(60), StreamAssumption DEF OpenSessionFails, Typed, Fields, Then, Return,
       streamVars,
       lowerVars, rmVars, cardVars, clientVars
<1>. QED
    BY <1>1, <1>2 DEF Typed

LEMMA Typed_StartRefused ==
    ASSUME Typed, NEW t \in Thread, StartRefused(t)
    PROVE  Typed'
<1>1. Programmed'
    BY AtFirst, ThenGoes, KeptPrograms, Onward DEF StartRefused, Typed, clientVars,
       Starting
<1>2. Fields'
    BY StreamAssumption DEF StartRefused, Typed, Fields, Then, Return, streamVars,
       lowerVars, rmVars, cardVars, clientVars
<1>. QED
    BY <1>1, <1>2 DEF Typed

LEMMA Typed_StartCached ==
    ASSUME Typed, NEW t \in Thread, StartCached(t)
    PROVE  Typed'
<1>1. Programmed'
    BY AtFirst, ThenGoes, KeptPrograms, Onward DEF StartCached, Typed, clientVars,
       Starting
<1>2. Fields'
    BY StreamAssumption DEF StartCached, Typed, Fields, Then, Return, streamVars,
       lowerVars, rmVars, cardVars, clientVars, State
<1>. QED
    BY <1>1, <1>2 DEF Typed

LEMMA Typed_StartDevicesFail ==
    ASSUME Typed, NEW t \in Thread, StartDevicesFail(t)
    PROVE  Typed'
<1>1. Programmed'
    BY AtFirst, ThenGoes, KeptPrograms, Onward DEF StartDevicesFail, Typed, clientVars,
       Starting
<1>2. Fields'
  <2>1. status' \in [Thread -> {-1, 0}]
      BY DEF StartDevicesFail, Return, Typed, Fields
  <2>2. /\ deviceCount' \in [Dev -> Nat] /\ deviceStartStopCount' \in [Dev -> Nat]
        /\ mDevices' \subseteq Dev
    <3>1. \/ closeDevices(mDevices) /\ mDevices' = {}
          \/ /\ \E D : deviceStartStopCount' = Raise(deviceStartStopCount, D)
             /\ UNCHANGED <<mDevices, deviceCount>>
        BY DEF StartDevicesFail
    <3>. QED
        BY SMTT(60), <3>1, Counting, ClosedCounts DEF Typed, Fields
  <2>. QED
      BY ZenonT(60), <2>1, <2>2 DEF StartDevicesFail, Typed, Fields, streamVars,
         lowerVars, rmVars,
         cardVars, clientVars
<1>. QED
    BY <1>1, <1>2 DEF Typed

LEMMA Typed_StartSessionFails ==
    ASSUME Typed, NEW t \in Thread, StartSessionFails(t)
    PROVE  Typed'
<1>1. Programmed'
    BY AtFirst, ThenGoes, KeptPrograms, Onward DEF StartSessionFails, Typed, clientVars,
       Starting
<1>2. Fields'
  <2>1. status' \in [Thread -> {-1, 0}]
      BY DEF StartSessionFails, Return, Typed, Fields
  <2>2. /\ deviceCount' \in [Dev -> Nat] /\ deviceStartStopCount' \in [Dev -> Nat]
        /\ mDevices' \subseteq Dev
    <3>1. PICK F \in Losses : closeDevices(F) /\ mDevices' = mDevices \ F
        BY DEF StartSessionFails
    <3>. QED
        BY <3>1, ClosedCounts DEF Typed, Fields
  <2>. QED
      BY ZenonT(60), <2>1, <2>2 DEF StartSessionFails, Typed, Fields, streamVars,
         lowerVars, rmVars,
         cardVars, clientVars
<1>. QED
    BY <1>1, <1>2 DEF Typed

LEMMA Typed_StartNetReset ==
    ASSUME Typed, NEW t \in Thread, StartNetReset(t)
    PROVE  Typed'
<1>1. Programmed'
    BY AtFirst, ThenGoes, KeptPrograms, Onward DEF StartNetReset, Typed, clientVars,
       Starting
<1>2. Fields'
  <2>1. status' \in [Thread -> {-1, 0}]
      BY DEF StartNetReset, Return, Typed, Fields
  <2>2. /\ deviceCount' \in [Dev -> Nat] /\ deviceStartStopCount' \in [Dev -> Nat]
        /\ mDevices' \subseteq Dev
    <3>1. PICK F \in Losses : closeDevices(F) /\ mDevices' = mDevices \ F
        BY DEF StartNetReset
    <3>. QED
        BY <3>1, ClosedCounts DEF Typed, Fields
  <2>3. msgQ' \in Seq(Card)
      BY Queue DEF StartNetReset, Typed, Fields, Card, Down
  <2>. QED
      BY <2>1, <2>2, <2>3 DEF StartNetReset, Typed, Fields, streamVars, lowerVars,
         rmVars, cardVars, clientVars, State
<1>. QED
    BY <1>1, <1>2 DEF Typed

LEMMA Typed_StartRun ==
    ASSUME Typed, NEW t \in Thread, StartRun(t)
    PROVE  Typed'
<1>1. Programmed'
    BY AtFirst, ThenGoes, KeptPrograms, Onward DEF StartRun, Typed, clientVars, Starting
<1>2. Fields'
  <2>1. status' \in [Thread -> {-1, 0}]
      BY DEF StartRun, Return, Typed, Fields
  <2>2. /\ deviceCount' \in [Dev -> Nat] /\ deviceStartStopCount' \in [Dev -> Nat]
        /\ mDevices' \subseteq Dev
    <3>1. PICK F \in Losses :
            /\ mDevices' = mDevices \ F
            /\ deviceCount' = Lower(deviceCount, F)
            /\ deviceStartStopCount' =
                 [d \in Dev |-> IF d \in F /\ deviceCount[d] = 1 THEN 0
                                ELSE Raise(deviceStartStopCount, mDevices \ F)[d]]
        BY DEF StartRun
    <3>2. Raise(deviceStartStopCount, mDevices \ F) \in [Dev -> Nat]
        BY Counting DEF Typed, Fields
    <3>3. deviceCount' \in [Dev -> Nat]
        BY <3>1, Counting DEF Typed, Fields
    <3>. QED
        BY <3>1, <3>2, <3>3 DEF Typed, Fields
  <2>. QED
      BY ZenonT(60), <2>1, <2>2 DEF StartRun, Typed, Fields, streamVars, lowerVars,
         rmVars, cardVars,
         clientVars, State
<1>. QED
    BY <1>1, <1>2 DEF Typed

LEMMA Typed_StartRegister ==
    ASSUME Typed, NEW t \in Thread, StartRegister(t)
    PROVE  Typed'
<1>1. Programmed'
    BY AtFirst, ThenGoes, KeptPrograms, Onward DEF StartRegister, Typed, clientVars,
       Starting
<1>2. Fields'
    BY StreamAssumption DEF StartRegister, Typed, Fields, Then, Return, streamVars,
       lowerVars, rmVars, cardVars, clientVars
<1>. QED
    BY <1>1, <1>2 DEF Typed

LEMMA Typed_StopCheck ==
    ASSUME Typed, NEW t \in Thread, StopCheck(t)
    PROVE  Typed'
<1>1. Programmed'
    BY AtFirst, ThenGoes, KeptPrograms, Onward DEF StopCheck, Typed, clientVars
<1>2. Fields'
    BY SMTT(60), StreamAssumption DEF StopCheck, Typed, Fields, Then, Return, streamVars,
       lowerVars, rmVars, cardVars, clientVars
<1>. QED
    BY <1>1, <1>2 DEF Typed

LEMMA Typed_StopRun ==
    ASSUME Typed, NEW t \in Thread, StopRun(t)
    PROVE  Typed'
<1>1. Programmed'
    BY AtFirst, ThenGoes, KeptPrograms, Onward DEF StopRun, Typed, clientVars
<1>2. Fields'
    BY StreamAssumption, Counting DEF StopRun, Typed, Fields, Then, Return, streamVars,
       lowerVars, rmVars, cardVars, clientVars, State
<1>. QED
    BY <1>1, <1>2 DEF Typed

LEMMA Typed_CloseCheck ==
    ASSUME Typed, NEW t \in Thread, CloseCheck(t)
    PROVE  Typed'
<1>1. Programmed'
    BY AtFirst, ThenGoes, KeptPrograms, Onward DEF CloseCheck, Typed, clientVars
<1>2. Fields'
  <2>1. status' \in [Thread -> {-1, 0}]
      BY DEF CloseCheck, Return, Typed, Fields
  <2>. QED
      BY <2>1 DEF CloseCheck, Typed, Fields, streamVars, lowerVars, rmVars, cardVars,
         clientVars
<1>. QED
    BY <1>1, <1>2 DEF Typed

LEMMA Typed_CloseRun ==
    ASSUME Typed, NEW t \in Thread, CloseRun(t)
    PROVE  Typed'
<1>1. Programmed'
    BY AtFirst, ThenGoes, KeptPrograms, Onward DEF CloseRun, Typed, clientVars
<1>2. Fields'
    BY ZenonT(60), StreamAssumption, Counting DEF CloseRun, Typed, Fields, Then, Return,
       streamVars,
       lowerVars, rmVars, cardVars, clientVars, closeDevices, State
<1>. QED
    BY <1>1, <1>2 DEF Typed

LEMMA Typed_Pause ==
    ASSUME Typed, NEW t \in Thread, Pause(t)
    PROVE  Typed'
<1>1. Programmed'
    BY AtFirst, ThenGoes, KeptPrograms, Onward DEF Pause, Typed, clientVars
<1>2. Fields'
  <2>1. status' \in [Thread -> {-1, 0}]
      BY DEF Pause, Return, Typed, Fields
  <2>2. /\ currentState' \in State /\ cachedState' \in State /\ isPaused' \in BOOLEAN
        /\ skipSSRHandling' \in BOOLEAN /\ session' \in {"closed", "open", "started", "paused"}
      BY DEF Pause, Typed, Fields, streamVars, State
  <2>. QED
      BY <2>1, <2>2 DEF Pause, Typed, Fields, streamVars, lowerVars, rmVars, cardVars,
         clientVars
<1>. QED
    BY <1>1, <1>2 DEF Typed

LEMMA Typed_Resume ==
    ASSUME Typed, NEW c \in Client, Resume(c)
    PROVE  Typed'
<1>. c \in Thread
    BY DEF Thread
<1>1. Programmed'
    BY AtFirst, ThenGoes, KeptPrograms, Onward DEF Resume, Typed, clientVars
<1>2. Fields'
  <2>1. status' \in [Thread -> {-1, 0}]
      BY DEF Resume, Return, Typed, Fields
  <2>2. /\ currentState' \in State /\ cachedState' \in State /\ isPaused' \in BOOLEAN
        /\ skipSSRHandling' \in BOOLEAN /\ session' \in {"closed", "open", "started", "paused"}
      BY DEF Resume, Typed, Fields, streamVars, State
  <2>. QED
      BY <2>1, <2>2 DEF Resume, Typed, Fields, streamVars, lowerVars, rmVars, cardVars,
         clientVars
<1>. QED
    BY <1>1, <1>2 DEF Typed

LEMMA Typed_Write ==
    ASSUME Typed, NEW c \in Client, Write(c)
    PROVE  Typed'
<1>. c \in Thread
    BY DEF Thread
<1>1. Programmed'
  <2>1. call[c] \in CallName \cup {"none"} /\ todo[c] \in Programs(call[c]) /\ c # Ssr
      BY LeftIs, StreamAssumption DEF Left
  <2>. QED
      BY <2>1, AtFirst, ThenGoes, KeptPrograms, Onward, PushedOnProgram
         DEF Write, Typed, Left, clientVars
<1>2. Fields'
  <2>1. status' \in [Thread -> {-1, 0}]
      BY DEF Write, Return, Typed, Fields
  <2>. QED
      BY ZenonT(60), <2>1 DEF Write, Typed, Fields, streamVars, lowerVars, rmVars, cardVars,
         clientVars
<1>. QED
    BY <1>1, <1>2 DEF Typed

LEMMA Typed_WriteNetReset ==
    ASSUME Typed, NEW c \in Client, WriteNetReset(c)
    PROVE  Typed'
<1>. c \in Thread
    BY DEF Thread
<1>1. Programmed'
    BY AtFirst, ThenGoes, KeptPrograms, Onward DEF WriteNetReset, Typed, clientVars
<1>2. Fields'
    BY StreamAssumption, Queue DEF WriteNetReset, Typed, Fields, Then, Return,
       streamVars, lowerVars, rmVars, cardVars, clientVars, Card, Down
<1>. QED
    BY <1>1, <1>2 DEF Typed

LEMMA Typed_WriteResumed ==
    ASSUME Typed, NEW c \in Client, WriteResumed(c)
    PROVE  Typed'
<1>. c \in Thread
    BY DEF Thread
<1>1. Programmed'
  <2>1. call[c] \in CallName \cup {"none"} /\ todo[c] \in Programs(call[c]) /\ c # Ssr
      BY LeftIs, StreamAssumption DEF Left
  <2>. QED
      BY <2>1, AtFirst, ThenGoes, KeptPrograms, Onward, PushedOnProgram
         DEF WriteResumed, Typed, Left, clientVars
<1>2. Fields'
    BY SMTT(60), StreamAssumption DEF WriteResumed, Typed, Fields, Then, Return, streamVars,
       lowerVars, rmVars, cardVars, clientVars
<1>. QED
    BY <1>1, <1>2 DEF Typed

LEMMA Typed_WriteRegister ==
    ASSUME Typed, NEW c \in Client, WriteRegister(c)
    PROVE  Typed'
<1>. c \in Thread
    BY DEF Thread
<1>1. Programmed'
    BY AtFirst, ThenGoes, KeptPrograms, Onward DEF WriteRegister, Typed, clientVars
<1>2. Fields'
    BY StreamAssumption DEF WriteRegister, Typed, Fields, Then, Return, streamVars,
       lowerVars, rmVars, cardVars, clientVars
<1>. QED
    BY <1>1, <1>2 DEF Typed

LEMMA Typed_WriteStarted ==
    ASSUME Typed, NEW c \in Client, WriteStarted(c)
    PROVE  Typed'
<1>. c \in Thread
    BY DEF Thread
<1>1. Programmed'
    BY AtFirst, ThenGoes, KeptPrograms, Onward DEF WriteStarted, Typed, clientVars
<1>2. Fields'
    BY StreamAssumption DEF WriteStarted, Typed, Fields, Then, Return, streamVars,
       lowerVars, rmVars, cardVars, clientVars, State
<1>. QED
    BY <1>1, <1>2 DEF Typed

LEMMA Typed_Read ==
    ASSUME Typed, NEW c \in Client, Read(c)
    PROVE  Typed'
<1>. c \in Thread
    BY DEF Thread
<1>1. Programmed'
    BY AtFirst, ThenGoes, KeptPrograms, Onward DEF Read, Typed, clientVars
<1>2. Fields'
  <2>1. status' \in [Thread -> {-1, 0}]
      BY DEF Read, Return, Typed, Fields
  <2>3. msgQ' \in Seq(Card)
      BY Queue DEF Read, Typed, Fields, Card, Down
  <2>. QED
      BY ZenonT(60), <2>1, <2>3 DEF Read, Typed, Fields, streamVars, lowerVars, rmVars,
         cardVars,
         clientVars
<1>. QED
    BY <1>1, <1>2 DEF Typed

LEMMA Typed_SetCachedState ==
    ASSUME Typed, NEW c \in Client, SetCachedState(c)
    PROVE  Typed'
<1>. c \in Thread
    BY DEF Thread
<1>1. Programmed'
    BY AtFirst, ThenGoes, KeptPrograms, Onward DEF SetCachedState, Typed, clientVars
<1>2. Fields'
    BY StreamAssumption DEF SetCachedState, Typed, Fields, Then, Return, streamVars,
       lowerVars, rmVars, cardVars, clientVars, State
<1>. QED
    BY <1>1, <1>2 DEF Typed

LEMMA Typed_SsrDown ==
    ASSUME Typed, SsrDown
    PROVE  Typed'
<1>. Ssr \in Thread
    BY DEF Thread
<1>1. Programmed'
    BY AtFirst, ThenGoes, KeptPrograms, LeftIs, RestOfRound, PushedOnRound
       DEF SsrDown, Typed, Left, RoundEnd, clientVars
<1>2. Fields'
    BY ZenonT(60), StreamAssumption DEF SsrDown, Typed, Fields, Then, Return, streamVars,
       lowerVars,
       rmVars, cardVars, clientVars, RoundEnd
<1>. QED
    BY <1>1, <1>2 DEF Typed

LEMMA Typed_SsrDownExit ==
    ASSUME Typed, SsrDownExit
    PROVE  Typed'
<1>. Ssr \in Thread
    BY DEF Thread
<1>1. Programmed'
    BY AtFirst, ThenGoes, KeptPrograms, LeftIs, RestOfRound, PushedOnRound
       DEF SsrDownExit, Typed, Left, RoundEnd, clientVars
<1>2. Fields'
    BY ZenonT(60), StreamAssumption DEF SsrDownExit, Typed, Fields, Then, Return,
       streamVars,
       lowerVars, rmVars, cardVars, clientVars, RoundEnd, State
<1>. QED
    BY <1>1, <1>2 DEF Typed

LEMMA Typed_SsrUp ==
    ASSUME Typed, SsrUp
    PROVE  Typed'
<1>. Ssr \in Thread
    BY DEF Thread
<1>1. Programmed'
    BY AtFirst, ThenGoes, KeptPrograms, LeftIs, RestOfRound, PushedOnRound
       DEF SsrUp, Typed, Left, RoundEnd, clientVars
<1>2. Fields'
    BY ZenonT(60), StreamAssumption DEF SsrUp, Typed, Fields, Then, Return, streamVars,
       lowerVars,
       rmVars, cardVars, clientVars, RoundEnd
<1>. QED
    BY <1>1, <1>2 DEF Typed

LEMMA Typed_SsrUpStart ==
    ASSUME Typed, SsrUpStart
    PROVE  Typed'
<1>. Ssr \in Thread
    BY DEF Thread
<1>1. Programmed'
    BY AtFirst, ThenGoes, KeptPrograms, LeftIs, RestOfRound, PushedOnRound
       DEF SsrUpStart, Typed, Left, RoundEnd, clientVars
<1>2. Fields'
    BY ZenonT(60), StreamAssumption DEF SsrUpStart, Typed, Fields, Then, Return, streamVars,
       lowerVars, rmVars, cardVars, clientVars
<1>. QED
    BY <1>1, <1>2 DEF Typed

LEMMA Typed_SsrUpPause ==
    ASSUME Typed, SsrUpPause
    PROVE  Typed'
<1>. Ssr \in Thread
    BY DEF Thread
<1>1. Programmed'
    BY AtFirst, ThenGoes, KeptPrograms, LeftIs, RestOfRound, PushedOnRound
       DEF SsrUpPause, Typed, Left, RoundEnd, clientVars
<1>2. Fields'
    BY StreamAssumption DEF SsrUpPause, Typed, Fields, Then, Return, streamVars,
       lowerVars, rmVars, cardVars, clientVars
<1>. QED
    BY <1>1, <1>2 DEF Typed

LEMMA Typed_SsrUpExit ==
    ASSUME Typed, SsrUpExit
    PROVE  Typed'
<1>. Ssr \in Thread
    BY DEF Thread
<1>1. Programmed'
    BY AtFirst, ThenGoes, KeptPrograms, LeftIs, RestOfRound, PushedOnRound
       DEF SsrUpExit, Typed, Left, RoundEnd, clientVars
<1>2. Fields'
  <2>1. status' \in [Thread -> {-1, 0}]
      BY DEF SsrUpExit, Return, Typed, Fields, RoundEnd, Then
  <2>. QED
      BY ZenonT(60), <2>1 DEF SsrUpExit, Typed, Fields, streamVars, lowerVars, rmVars,
         cardVars,
         clientVars, State, RoundEnd
<1>. QED
    BY <1>1, <1>2 DEF Typed

LEMMA Typed_CallDone ==
    ASSUME Typed, NEW c \in Client, CallDone(c)
    PROVE  Typed'
<1>1. /\ c \in Thread /\ c # Ssr /\ todo[c] # <<>> /\ First(todo[c]) = "return"
      /\ call[c] \in CallName \cup {"none"} /\ todo[c] \in Programs(call[c])
    BY LeftIs, AtFirst, StreamAssumption DEF CallDone, Thread, Left
<1>2. /\ call[c] \in CallName /\ call[c] # "close" /\ Rest(todo[c]) = <<>>
      /\ call[c] = "open" => PushTwo("close", "destroy", todo[c]) \in Programs(call[c])
    BY <1>1, LastOfProgram
<1>3. CASE call[c] = "open" /\ status[c] # 0
  <2>1. Programmed'
      BY <1>1, <1>2, <1>3, ThenGoes, KeptPrograms DEF CallDone, Left, Typed
  <2>2. Fields'
      BY <1>3 DEF CallDone, Typed, Fields, streamVars, lowerVars, rmVars, cardVars
  <2>. QED
      BY <2>1, <2>2 DEF Typed
<1>4. CASE ~(call[c] = "open" /\ status[c] # 0)
  <2>1. /\ Goes(c, <<>>) /\ call' = [call EXCEPT ![c] = "none"]
        /\ view' = IF status[c] = 0 THEN Outcome(call[c]) ELSE view
      BY <1>2, <1>4, ThenGoes DEF CallDone
  <2>2. Outcome(call[c]) \in {"none", "opened", "started", "paused", "stopped",
                              "closing", "failed", "dead"}
      BY <1>2 DEF Outcome, CallName, Typed, Fields
  <2>3. Programmed'
    <3>1. <<>> \in Programs("none")
        BY DEF Programs
    <3>. QED
        BY <1>1, <2>1, <3>1 DEF Programmed, Goes, Typed, Fields, Thread
  <2>4. Fields'
      BY <2>1, <2>2 DEF CallDone, Typed, Fields, streamVars, lowerVars, rmVars, cardVars
  <2>. QED
      BY <2>3, <2>4 DEF Typed
<1>. QED
    BY <1>3, <1>4

LEMMA Typed_CloseDone ==
    ASSUME Typed, NEW c \in Client, CloseDone(c)
    PROVE  Typed'
<1>1. /\ c \in Thread /\ c # Ssr /\ todo[c] # <<>> /\ First(todo[c]) = "destroy"
      /\ call[c] \in CallName \cup {"none"} /\ todo[c] \in Programs(call[c])
    BY LeftIs, AtFirst, StreamAssumption DEF CloseDone, Thread, Left
<1>2. Goes(c, <<>>) /\ call' = [call EXCEPT ![c] = "none"]
    BY <1>1, LastOfProgram, ThenGoes DEF CloseDone
<1>3. Programmed'
  <2>1. <<>> \in Programs("none")
      BY DEF Programs
  <2>. QED
      BY <1>1, <1>2, <2>1 DEF Programmed, Goes, Typed, Fields, Thread
<1>4. Fields'
    BY <1>2 DEF CloseDone, Typed, Fields, State, lowerVars, rmVars, cardVars
<1>. QED
    BY <1>3, <1>4 DEF Typed

LEMMA Typed_Call ==
    ASSUME Typed, NEW c \in Client, Call(c)
    PROVE  Typed'
<1>1. PICK op \in Calls[c] :
          /\ call' = [call EXCEPT ![c] = op]
          /\ todo' = [todo EXCEPT ![c] = Program(op)]
          /\ view' = IF op = "close" THEN "closing" ELSE view
    BY DEF Call
<1>2. op \in CallName /\ Program(op) \in Programs(op)
    BY StreamAssumption, NewProgram
<1>3. Programmed'
    BY <1>1, <1>2, StreamAssumption DEF Programmed, Typed, Fields, Thread
<1>4. Fields'
    BY <1>1, <1>2 DEF Call, Typed, Fields, streamVars, lowerVars, rmVars, cardVars
<1>. QED
    BY <1>3, <1>4 DEF Typed

LEMMA Typed_SsrTake ==
    ASSUME Typed, SsrTake
    PROVE  Typed'
<1>1. Head(msgQ) \in Card /\ Tail(msgQ) \in Seq(Card)
    BY Queue DEF SsrTake, Typed, Fields
<1>2. Programmed'
  <2>1. <<"down">> \in Rounds /\ <<"up">> \in Rounds
      BY DEF Rounds, DownPrograms, UpPrograms, One
  <2>2. UNCHANGED call /\ (UNCHANGED todo \/ Goes(Ssr, <<"down">>) \/ Goes(Ssr, <<"up">>))
      BY DEF SsrTake, clientVars, Goes
  <2>3. CASE UNCHANGED todo
      BY <2>2, <2>3 DEF Programmed, Typed
  <2>4. ASSUME NEW p \in {<<"down">>, <<"up">>}, Goes(Ssr, p)
        PROVE  Programmed'
      BY <2>1, <2>2, <2>4, KeptPrograms DEF Left, Typed, Thread
  <2>. QED
      BY <2>2, <2>3, <2>4
<1>3. Fields'
    BY ZenonT(60), <1>1 DEF SsrTake, Typed, Fields, streamVars, lowerVars, cardVars,
       clientVars
<1>. QED
    BY <1>2, <1>3 DEF Typed

LEMMA Typed_Card ==
    ASSUME Typed, CardChange \/ MonitorPost \/ MonitorDiscard \/ UNCHANGED vars
    PROVE  Typed'
<1>1. Programmed'
    BY DEF CardChange, MonitorPost, MonitorDiscard, vars, Typed, Programmed, clientVars
<1>2. CASE CardChange
  <2>1. card' \in Card
      BY <1>2, StreamAssumption DEF CardChange, Card
  <2>2. changes' \in 0..MaxChanges
      BY <1>2, StreamAssumption DEF CardChange, Typed, Fields
  <2>. QED
      BY <1>1, <1>2, <2>1, <2>2
         DEF CardChange, Typed, Fields, streamVars, lowerVars, rmVars, clientVars
<1>3. CASE MonitorPost
  <2>1. msgQ' \in Seq(Card)
      BY <1>3, Queue DEF MonitorPost, Typed, Fields
  <2>. QED
      BY <1>1, <1>3, <2>1 DEF MonitorPost, Typed, Fields, streamVars, lowerVars,
         clientVars
<1>4. CASE MonitorDiscard
    BY <1>1, <1>4 DEF MonitorDiscard, Typed, Fields, streamVars, lowerVars, rmVars,
       clientVars
<1>5. CASE UNCHANGED vars
    BY <1>1, <1>5
       DEF vars, Typed, Fields, streamVars, lowerVars, rmVars, cardVars, clientVars
<1>. QED
    BY <1>2, <1>3, <1>4, <1>5

LEMMA Typed_Init == Init => Typed
<1>1. SUFFICES ASSUME Init PROVE Typed
    OBVIOUS
<1>2. Programmed
  <2>1. <<>> \in Programs("none") /\ <<>> \in Rounds
      BY DEF Programs, Rounds
  <2>. QED
      BY <1>1, <2>1 DEF Init, Programmed, Thread
<1>3. mDevices \subseteq Dev
    BY <1>1, StreamAssumption DEF Init
<1>4. /\ deviceCount \in [Dev -> Nat] /\ deviceStartStopCount \in [Dev -> Nat]
      /\ status \in [Thread -> {-1, 0}]
      /\ call \in [Client -> CallName \cup {"none"}]
      /\ msgQ \in Seq(Card) /\ changes \in 0..MaxChanges
    BY <1>1, StreamAssumption DEF Init
<1>5. Fields
    BY <1>1, <1>3, <1>4 DEF Init, Fields, State, Card, Down
<1>. QED
    BY <1>2, <1>5 DEF Typed

LEMMA Typed_Next ==
    ASSUME Typed, [Next]_vars
    PROVE  Typed'
<1>1. ASSUME NEW t \in Thread, Method(t)
      PROVE  Typed'
    BY <1>1, Typed_OpenRefused, Typed_OpenRun, Typed_OpenDeviceFails,
       Typed_OpenSessionFails, Typed_StartRefused, Typed_StartCached,
          Typed_StartDevicesFail, Typed_StartSessionFails, Typed_StartNetReset,
             Typed_StartRun, Typed_StartRegister, Typed_StopCheck, Typed_StopRun,
                Typed_CloseCheck, Typed_CloseRun, Typed_Pause
       DEF Method, Open, Start
<1>2. ASSUME NEW c \in Client, ClientStep(c)
      PROVE  Typed'
  <2>1. c \in Thread
      BY DEF Thread
  <2>. QED
      BY <1>1, <1>2, <2>1, Typed_Resume, Typed_Write, Typed_WriteNetReset,
         Typed_WriteResumed, Typed_WriteRegister, Typed_WriteStarted, Typed_Read,
            Typed_SetCachedState, Typed_CallDone, Typed_CloseDone
         DEF ClientStep
<1>3. ASSUME SsrStep
      PROVE  Typed'
  <2>1. Ssr \in Thread
      BY DEF Thread
  <2>. QED
      BY <1>1, <1>3, <2>1, Typed_SsrTake, Typed_SsrDown, Typed_SsrDownExit, Typed_SsrUp,
         Typed_SsrUpStart, Typed_SsrUpPause, Typed_SsrUpExit
         DEF SsrStep
<1>. QED
    BY <1>2, <1>3, Typed_Call, Typed_Card DEF Next

(* The state, the counts and the registrations of the stream, the message    *)
(* queue and the programs of the threads stay within their types: a counter  *)
(* of Device.cpp never goes below 0, and no thread nests its calls deeper    *)
(* than ssrDownHandler, close and stop do.                                    *)
THEOREM TypeCorrect == Spec => []TypeOK
<1>1. Typed /\ [Next]_vars => Typed'
    BY Typed_Next
<1>. QED
    BY <1>1, Typed_Init, TypedIsTypeOK, PTL DEF Spec

LEMMA TypedAlways == Spec => []Typed
<1>1. Typed /\ [Next]_vars => Typed'
    BY Typed_Next
<1>. QED
    BY <1>1, Typed_Init, PTL DEF Spec

-----------------------------------------------------------------------------
(* How the threads move.                                                     *)

LEMMA GoesTo ==
    ASSUME Typed, NEW t \in Thread, NEW p, Goes(t, p)
    PROVE  todo'[t] = p /\ \A u \in Thread : u # t => todo'[u] = todo[u]
BY DEF Typed, Programmed, Goes

MethodLabels == {"open", "start", "start_register", "stop", "stop_locked", "close",
                 "close_locked", "pause"}

(* A method returns or calls a part of itself.                               *)
Moves(t) ==
    /\ todo[t] # <<>> /\ First(todo[t]) \in MethodLabels
    /\ \/ Goes(t, Rest(todo[t]))
       \/ First(todo[t]) = "start" /\ Goes(t, Push("start_register", todo[t]))
       \/ First(todo[t]) = "stop" /\ Goes(t, Push("stop_locked", todo[t]))
       \/ First(todo[t]) = "close" /\ Goes(t, PushTwo("stop", "close_locked", todo[t]))

LEMMA MethodMoves ==
    ASSUME Typed, NEW t \in Thread, Method(t)
    PROVE  Moves(t) /\ UNCHANGED clientVars
<1>1. CASE Open(t)
    BY <1>1, AtFirst, ThenGoes
       DEF Open, OpenRefused, OpenRun, OpenDeviceFails, OpenSessionFails, Moves, MethodLabels
<1>2. CASE Start(t)
    BY <1>2, AtFirst, ThenGoes
       DEF Start, Starting, StartRefused, StartCached, StartDevicesFail,
           StartSessionFails, StartNetReset, StartRun, StartRegister, Moves, MethodLabels
<1>3. CASE StopCheck(t) \/ StopRun(t)
    BY <1>3, AtFirst, ThenGoes DEF StopCheck, StopRun, Moves, MethodLabels
<1>4. CASE CloseCheck(t) \/ CloseRun(t)
    BY <1>4, AtFirst, ThenGoes DEF CloseCheck, CloseRun, Moves, MethodLabels
<1>5. CASE Pause(t)
    BY <1>5, AtFirst, ThenGoes DEF Pause, Moves, MethodLabels
<1>. QED
    BY <1>1, <1>2, <1>3, <1>4, <1>5 DEF Method

(* The other steps of a client leave the worker where it is.                 *)
LEMMA ClientMoves ==
    ASSUME Typed, NEW c \in Client,
           \/ Resume(c) \/ Write(c) \/ WriteNetReset(c) \/ WriteResumed(c)
           \/ WriteRegister(c) \/ WriteStarted(c) \/ Read(c) \/ SetCachedState(c)
           \/ CallDone(c) \/ CloseDone(c) \/ Call(c)
    PROVE  /\ \A u \in Thread : u # c => todo'[u] = todo[u]
           /\ todo'[Ssr] = todo[Ssr]
<1>1. c \in Thread /\ Ssr \in Thread /\ c # Ssr
    BY StreamAssumption DEF Thread
<1>2. \E p : Goes(c, p)
  <2>1. CASE Resume(c) \/ WriteNetReset(c) \/ WriteRegister(c) \/ WriteStarted(c)
             \/ Read(c) \/ SetCachedState(c) \/ CloseDone(c)
      BY <2>1 DEF Resume, WriteNetReset, WriteRegister, WriteStarted, Read,
                  SetCachedState, CloseDone, Goes, Then, Return
  <2>2. CASE Write(c) \/ WriteResumed(c) \/ CallDone(c) \/ Call(c)
      BY <2>2 DEF Write, WriteResumed, CallDone, Call, Goes, Then, Return
  <2>. QED
      BY <2>1, <2>2
<1>. QED
    BY <1>1, <1>2, GoesTo

DownLabels == {"down", "stop", "stop_locked", "close", "close_locked", "down_exit"}

(* The worker handles a card that went down.                                 *)
Lowering == todo[Ssr] # <<>> /\ First(todo[Ssr]) \in DownLabels

LEMMA LabelsOfRound ==
    ASSUME NEW p \in Rounds, p # <<>>
    PROVE  /\ Rest(p) # <<>> /\ First(Rest(p)) \in DownLabels => First(p) \in DownLabels
           /\ Rest(p) # <<>> /\ First(Rest(p)) = "down_exit" =>
                 First(p) \in {"close", "close_locked"}
           /\ First(Push("start_register", p)) = "start_register"
           /\ First(Push("stop_locked", p)) = "stop_locked"
           /\ First(PushTwo("stop", "close_locked", p)) = "stop"
<1>1. /\ Rest(p) # <<>> /\ First(Rest(p)) \in DownLabels => First(p) \in DownLabels
      /\ Rest(p) # <<>> /\ First(Rest(p)) = "down_exit" =>
            First(p) \in {"close", "close_locked"}
    BY Firsts, Rests DEF Rounds, UpPrograms, DownPrograms, Closing, DownLabels
<1>2. First(Push("start_register", p)) = "start_register"
    BY Firsts, Pushes DEF Rounds, UpPrograms, DownPrograms, Closing
<1>3. First(Push("stop_locked", p)) = "stop_locked"
    BY Firsts, Pushes DEF Rounds, UpPrograms, DownPrograms, Closing
<1>4. PushTwo("stop", "close_locked", p) # <<>> /\ First(PushTwo("stop", "close_locked", p)) = "stop"
    BY DEF PushTwo, First
<1>. QED
    BY <1>1, <1>2, <1>3, <1>4

(* A method starts no round, and only a close ends in down_exit.             *)
LEMMA MethodInRound ==
    ASSUME Typed, NEW t \in Thread, Method(t)
    PROVE  /\ Lowering' => Lowering
           /\ At(Ssr, "down_exit")' =>
                 \/ t # Ssr /\ At(Ssr, "down_exit")
                 \/ t = Ssr /\ First(todo[t]) \in {"close", "close_locked"}
<1>1. Moves(t) /\ Ssr \in Thread
    BY MethodMoves DEF Thread
<1>2. CASE t # Ssr
  <2>1. todo'[Ssr] = todo[Ssr]
      BY <1>1, <1>2, GoesTo DEF Moves
  <2>. QED
      BY <1>2, <2>1 DEF Lowering, At
<1>3. CASE t = Ssr
  <2>1. todo[Ssr] \in Rounds /\ todo[Ssr] # <<>>
      BY <1>1, <1>3 DEF Moves, Typed, Programmed
  <2>2. At(Ssr, "down_exit")' => todo'[Ssr] # <<>> /\ First(todo'[Ssr]) = "down_exit"
      BY DEF At, First
  <2>3. CASE Goes(t, Rest(todo[t]))
      BY <1>1, <1>3, <2>1, <2>2, <2>3, GoesTo, LabelsOfRound DEF Lowering
  <2>4. CASE First(todo[t]) = "start" /\ Goes(t, Push("start_register", todo[t]))
      BY <1>1, <1>3, <2>1, <2>2, <2>4, GoesTo, LabelsOfRound DEF Lowering, DownLabels
  <2>5. CASE First(todo[t]) = "stop" /\ Goes(t, Push("stop_locked", todo[t]))
      BY <1>1, <1>3, <2>1, <2>2, <2>5, GoesTo, LabelsOfRound DEF Lowering, DownLabels
  <2>6. CASE First(todo[t]) = "close" /\ Goes(t, PushTwo("stop", "close_locked", todo[t]))
      BY <1>1, <1>3, <2>1, <2>2, <2>6, GoesTo, LabelsOfRound DEF Lowering, DownLabels
  <2>. QED
      BY <1>1, <2>3, <2>4, <2>5, <2>6 DEF Moves
<1>. QED
    BY <1>2, <1>3

(* Where the worker goes from the labels of the handlers themselves.         *)
LEMMA SsrAtOne ==
    ASSUME Typed, todo[Ssr] # <<>>,
           First(todo[Ssr]) \in {"down", "down_exit", "up", "up_start", "up_start_paused",
                                 "up_pause", "up_exit"}
    PROVE  todo[Ssr] = One(First(todo[Ssr]))
<1>1. todo[Ssr] \in Rounds
    BY DEF Typed, Programmed
<1>. QED
    BY <1>1, Firsts DEF Rounds, DownPrograms, UpPrograms, Closing

LEMMA TakeMoves ==
    ASSUME Typed, SsrTake
    PROVE  /\ \A c \in Client : todo'[c] = todo[c]
           /\ \/ todo'[Ssr] = <<>>
              \/ Counted /\ todo'[Ssr] = One("down") /\ isDown(cardState')
              \/ Counted /\ todo'[Ssr] = One("up")
<1>1. Ssr \in Thread /\ \A c \in Client : c \in Thread /\ c # Ssr
    BY StreamAssumption DEF Thread
<1>2. \/ UNCHANGED todo
      \/ Counted /\ Goes(Ssr, IF isDown(cardState') THEN One("down") ELSE One("up"))
    BY DEF SsrTake, Goes, One
<1>3. CASE UNCHANGED todo
    BY <1>3 DEF SsrTake
<1>4. CASE Counted /\ Goes(Ssr, IF isDown(cardState') THEN One("down") ELSE One("up"))
    BY <1>1, <1>4, GoesTo
<1>. QED
    BY <1>2, <1>3, <1>4

LEMMA DownMoves ==
    ASSUME Typed, SsrDown
    PROVE  /\ \A c \in Client : todo'[c] = todo[c]
           /\ todo'[Ssr] \in {<<>>, One("down_exit"), Two("close", "down_exit"),
                              Three("stop", "close", "down_exit")}
<1>1. Ssr \in Thread /\ \A c \in Client : c \in Thread /\ c # Ssr
    BY StreamAssumption DEF Thread
<1>2. todo[Ssr] = One("down")
    BY SsrAtOne, AtFirst DEF SsrDown
<1>3. \/ Goes(Ssr, Rest(todo[Ssr])) \/ Goes(Ssr, Push("down_exit", todo[Ssr]))
      \/ Goes(Ssr, PushTwo("close", "down_exit", todo[Ssr]))
      \/ Goes(Ssr, PushThree("stop", "close", "down_exit", todo[Ssr]))
    BY ThenGoes DEF SsrDown, RoundEnd
<1>. QED
    BY <1>1, <1>2, <1>3, GoesTo, Rests, Pushes

LEMMA ExitMoves ==
    ASSUME Typed, SsrDownExit \/ SsrUpExit
    PROVE  (\A c \in Client : todo'[c] = todo[c]) /\ todo'[Ssr] = <<>>
<1>1. Ssr \in Thread /\ \A c \in Client : c \in Thread /\ c # Ssr
    BY StreamAssumption DEF Thread
<1>2. \E x : todo[Ssr] = One(x)
    BY SsrAtOne, AtFirst DEF SsrDownExit, SsrUpExit
<1>3. Goes(Ssr, Rest(todo[Ssr]))
    BY ThenGoes DEF SsrDownExit, SsrUpExit, RoundEnd
<1>. QED
    BY <1>1, <1>2, <1>3, GoesTo, Rests

LEMMA UpMoves ==
    ASSUME Typed, SsrUp \/ SsrUpStart \/ SsrUpPause \/ SsrUpExit
    PROVE  /\ \A c \in Client : todo'[c] = todo[c]
           /\ \/ todo'[Ssr] = <<>> \/ todo'[Ssr] = One("up_exit")
              \/ \E x \in {"open", "start", "pause"} : \E y : todo'[Ssr] = Two(x, y)
<1>1. Ssr \in Thread /\ \A c \in Client : c \in Thread /\ c # Ssr
    BY StreamAssumption DEF Thread
<1>2. \E x : todo[Ssr] = One(x)
    BY SsrAtOne, AtFirst DEF SsrUp, SsrUpStart, SsrUpPause, SsrUpExit
<1>3. \/ Goes(Ssr, Rest(todo[Ssr])) \/ Goes(Ssr, Push("up_exit", todo[Ssr]))
      \/ \E x \in {"open", "start", "pause"} : \E y : Goes(Ssr, PushTwo(x, y, todo[Ssr]))
    BY ThenGoes DEF SsrUp, SsrUpStart, SsrUpPause, SsrUpExit, RoundEnd
<1>. QED
    BY <1>1, <1>2, <1>3, GoesTo, Rests, Pushes

LEMMA MethodKeeps ==
    ASSUME NEW t \in Thread, Method(t)
    PROVE  UNCHANGED <<cardState, prevState, ssrHolds, skipSSRHandling, cardVars>>
<1>1. CASE Open(t)
    BY <1>1 DEF Open, OpenRefused, OpenRun, OpenDeviceFails, OpenSessionFails, rmVars,
       streamVars
<1>2. CASE Start(t)
    BY <1>2 DEF Start, StartRefused, StartCached, StartDevicesFail, StartSessionFails,
                StartNetReset, StartRun, StartRegister, rmVars, streamVars
<1>3. CASE StopCheck(t) \/ StopRun(t) \/ CloseCheck(t) \/ CloseRun(t) \/ Pause(t)
    BY <1>3 DEF StopCheck, StopRun, CloseCheck, CloseRun, Pause, rmVars, streamVars
<1>. QED
    BY <1>1, <1>2, <1>3 DEF Method

LEMMA ClientKeeps ==
    ASSUME NEW c \in Client,
           \/ Resume(c) \/ Write(c) \/ WriteNetReset(c) \/ WriteResumed(c)
           \/ WriteRegister(c) \/ WriteStarted(c) \/ Read(c) \/ SetCachedState(c)
           \/ CallDone(c) \/ CloseDone(c) \/ Call(c)
    PROVE  /\ UNCHANGED <<cardState, prevState, ssrHolds, skipSSRHandling, cardVars>>
           /\ UNCHANGED <<mStreamAttr, mDevices, deviceCount, deviceStartStopCount>>
           /\ ~WriteRegister(c) => UNCHANGED registered
           /\ ~WriteStarted(c) => UNCHANGED currentState
           /\ ~Resume(c) => UNCHANGED <<session, isPaused>>
<1>1. CASE Resume(c)
    BY <1>1 DEF Resume, clientVars, rmVars
<1>2. CASE Write(c) \/ WriteNetReset(c) \/ WriteResumed(c) \/ Read(c)
    BY <1>2 DEF Write, WriteNetReset, WriteResumed, Read, clientVars, rmVars, lowerVars,
                streamVars
<1>3. CASE WriteRegister(c) \/ WriteStarted(c)
    BY <1>3 DEF WriteRegister, WriteStarted, clientVars, rmVars, lowerVars, streamVars
<1>4. CASE SetCachedState(c) \/ CallDone(c) \/ CloseDone(c) \/ Call(c)
    BY <1>4 DEF SetCachedState, CallDone, CloseDone, Call, clientVars, rmVars, lowerVars,
                streamVars
<1>. QED
    BY <1>1, <1>2, <1>3, <1>4

-----------------------------------------------------------------------------
(* While the worker handles a card that went down, the resource manager      *)
(* publishes that it is down.                                                *)
Informed == Lowering => isDown(cardState)

LEMMA InformedNext ==
    ASSUME Typed, Informed, [Next]_vars
    PROVE  Informed'
<1>1. ASSUME NEW t \in Thread, Method(t)
      PROVE  Informed'
    BY <1>1, MethodInRound, MethodKeeps DEF Informed, isDown
<1>2. ASSUME NEW c \in Client, Call(c) \/ ClientStep(c), ~Method(c)
      PROVE  Informed'
  <2>1. todo'[Ssr] = todo[Ssr] /\ cardState' = cardState
      BY <1>2, ClientMoves, ClientKeeps DEF ClientStep
  <2>. QED
      BY <2>1 DEF Informed, isDown, Lowering
<1>3. CASE SsrTake
  <2>1. Lowering' => isDown(cardState')
      BY <1>3, TakeMoves, Firsts DEF Lowering, DownLabels
  <2>. QED
      BY <2>1 DEF Informed, isDown
<1>4. CASE SsrDown
  <2>1. isDown(cardState) /\ cardState' = cardState
      BY <1>4, AtFirst DEF SsrDown, Informed, Lowering, DownLabels
  <2>. QED
      BY <2>1 DEF Informed, isDown
<1>5. CASE SsrDownExit \/ SsrUpExit
    BY <1>5, ExitMoves DEF Informed, Lowering
<1>6. CASE SsrUp \/ SsrUpStart \/ SsrUpPause
    BY <1>6, UpMoves, Firsts DEF Informed, Lowering, DownLabels
<1>7. CASE CardChange \/ MonitorPost \/ MonitorDiscard \/ UNCHANGED vars
  <2>1. todo' = todo /\ cardState' = cardState
      BY <1>7 DEF CardChange, MonitorPost, MonitorDiscard, vars, rmVars
  <2>. QED
      BY <2>1 DEF Informed, isDown, Lowering
<1>. QED
    BY <1>1, <1>2, <1>3, <1>4, <1>5, <1>6, <1>7 DEF Next, SsrStep, Thread

LEMMA InformedAlways == Spec => []Informed
<1>1. Init => Informed
    BY DEF Init, Informed, Lowering, Thread
<1>2. Typed /\ Informed /\ [Next]_vars => Informed'
    BY InformedNext
<1>. QED
    BY <1>1, <1>2, TypedAlways, PTL DEF Spec

-----------------------------------------------------------------------------
(* A round that handles a card that went down.                               *)

(* A stream on one device, or on none.                                       *)
Single(D) == \A d, e \in D : d = e

(* A device that fails to open leaves no other device of the stream open.    *)
OpensClean == "device open" \in Faults => \A a \in Attributes : Single(a.devices)

MayHold(s) == Others + (IF s = "closed" THEN 0 ELSE 1)

DownInv ==
    /\ currentState = "IDLE" => session = "closed"
    /\ At(Ssr, "down_exit") => session = "closed"
    /\ mDevices \subseteq mStreamAttr.devices
    /\ \A d \in mDevices : deviceCount[d] <= MayHold(session)

(* What a method does to the session and to the references on the devices.   *)
Keeps ==
    /\ cardState' = cardState
    /\ currentState' = "IDLE" => session' = "closed"
    /\ session = "closed" /\ isDown(cardState) => session' = "closed"
    /\ mDevices' \subseteq mDevices
    /\ \A d \in mDevices' : deviceCount'[d] <= MayHold(session')

LEMMA OnePart ==
    ASSUME NEW D, Single(D), NEW P \in ProperPart(D)
    PROVE  P = {}
BY DEF Single, ProperPart

LEMMA LowerBounds ==
    ASSUME deviceCount \in [Dev -> Nat], NEW D
    PROVE  \A d \in Dev : /\ Lower(deviceCount, D)[d] <= deviceCount[d]
                          /\ d \in D => /\ Lower(deviceCount, D)[d] <= deviceCount[d] - 1
                                           \/ Lower(deviceCount, D)[d] = 0
BY DEF Lower

LEMMA HoldsWhat ==
    /\ MayHold("closed") = Others
    /\ \A s : s # "closed" => MayHold(s) = Others + 1
    /\ \A s : MayHold(s) \in Nat /\ Others <= MayHold(s)
BY StreamAssumption DEF MayHold

LEMMA Keeps_OpenRefused ==
    ASSUME Typed, DownInv, NEW t \in Thread, OpenRefused(t)
    PROVE  Keeps
BY DEF OpenRefused, Keeps, DownInv, streamVars, lowerVars, rmVars, cardVars, clientVars

LEMMA Keeps_OpenSessionFails ==
    ASSUME Typed, DownInv, NEW t \in Thread, OpenSessionFails(t)
    PROVE  Keeps
BY DEF OpenSessionFails, Keeps, DownInv, streamVars, lowerVars, rmVars, cardVars,
   clientVars

LEMMA Keeps_StartRefused ==
    ASSUME Typed, DownInv, NEW t \in Thread, StartRefused(t)
    PROVE  Keeps
BY DEF StartRefused, Keeps, DownInv, streamVars, lowerVars, rmVars, cardVars, clientVars

LEMMA Keeps_StartCached ==
    ASSUME Typed, DownInv, NEW t \in Thread, StartCached(t)
    PROVE  Keeps
BY DEF StartCached, Keeps, DownInv, streamVars, lowerVars, rmVars, cardVars, clientVars

LEMMA Keeps_StartRegister ==
    ASSUME Typed, DownInv, NEW t \in Thread, StartRegister(t)
    PROVE  Keeps
BY DEF StartRegister, Keeps, DownInv, streamVars, lowerVars, rmVars, cardVars, clientVars

LEMMA Keeps_StopCheck ==
    ASSUME Typed, DownInv, NEW t \in Thread, StopCheck(t)
    PROVE  Keeps
BY DEF StopCheck, Keeps, DownInv, streamVars, lowerVars, rmVars, cardVars, clientVars

LEMMA Keeps_CloseCheck ==
    ASSUME Typed, DownInv, NEW t \in Thread, CloseCheck(t)
    PROVE  Keeps
BY DEF CloseCheck, Keeps, DownInv, streamVars, lowerVars, rmVars, cardVars, clientVars

LEMMA Keeps_OpenRun ==
    ASSUME Typed, DownInv, NEW t \in Thread, OpenRun(t)
    PROVE  Keeps
<1>1. session = "closed" /\ session' = "open" /\ mDevices' = mDevices
    BY DEF OpenRun, DownInv
<1>2. \A d \in mDevices : deviceCount'[d] = deviceCount[d] + 1
    BY DEF OpenRun, Raise, Typed, Fields
<1>3. \A d \in mDevices : deviceCount[d] <= Others /\ deviceCount[d] \in Nat
    BY <1>1, HoldsWhat DEF DownInv, Typed, Fields
<1>. QED
    BY <1>1, <1>2, <1>3, HoldsWhat, StreamAssumption DEF OpenRun, Keeps, rmVars

LEMMA Keeps_OpenDeviceFails ==
    ASSUME Typed, DownInv, OpensClean, NEW t \in Thread, OpenDeviceFails(t)
    PROVE  Keeps
<1>1. Single(mDevices)
    BY DEF OpenDeviceFails, OpensClean, DownInv, Typed, Fields, Single
<1>2. deviceCount' = Raise(deviceCount, {})
    BY <1>1, OnePart DEF OpenDeviceFails
<1>3. deviceCount' = deviceCount
    BY <1>2 DEF Raise, Typed, Fields
<1>. QED
    BY <1>3 DEF OpenDeviceFails, Keeps, DownInv, streamVars, rmVars

LEMMA Keeps_StartDevicesFail ==
    ASSUME Typed, DownInv, NEW t \in Thread, StartDevicesFail(t)
    PROVE  Keeps
<1>1. /\ cardState' = cardState /\ currentState' = currentState /\ session' = session
    BY DEF StartDevicesFail, streamVars, rmVars
<1>2. mDevices' = {} \/ UNCHANGED <<mDevices, deviceCount>>
    BY DEF StartDevicesFail
<1>. QED
    BY <1>1, <1>2 DEF Keeps, DownInv

LEMMA Keeps_StartSessionFails ==
    ASSUME Typed, DownInv, NEW t \in Thread, StartSessionFails(t)
    PROVE  Keeps
<1>1. /\ cardState' = cardState /\ currentState' = currentState /\ session' = session
    BY DEF StartSessionFails, streamVars, rmVars
<1>2. PICK F : closeDevices(F) /\ mDevices' = mDevices \ F
    BY DEF StartSessionFails
<1>3. \A d \in mDevices' : deviceCount'[d] = deviceCount[d]
    BY <1>2 DEF closeDevices, Lower, Typed, Fields
<1>. QED
    BY <1>1, <1>2, <1>3 DEF Keeps, DownInv

LEMMA Keeps_StartNetReset ==
    ASSUME Typed, DownInv, NEW t \in Thread, StartNetReset(t)
    PROVE  Keeps
<1>1. /\ cardState' = cardState /\ currentState' = currentState /\ session' = session
    BY DEF StartNetReset, streamVars, rmVars
<1>2. PICK F : closeDevices(F) /\ mDevices' = mDevices \ F
    BY DEF StartNetReset
<1>3. \A d \in mDevices' : deviceCount'[d] = deviceCount[d]
    BY <1>2 DEF closeDevices, Lower, Typed, Fields
<1>. QED
    BY <1>1, <1>2, <1>3 DEF Keeps, DownInv

LEMMA Keeps_StartRun ==
    ASSUME Typed, DownInv, NEW t \in Thread, StartRun(t)
    PROVE  Keeps
<1>1. /\ cardState' = cardState /\ currentState' = "STARTED" /\ session' = "started"
      /\ ~isDown(cardState)
    BY DEF StartRun, Starting, rmVars
<1>2. PICK F : mDevices' = mDevices \ F /\ deviceCount' = Lower(deviceCount, F)
    BY DEF StartRun
<1>3. \A d \in mDevices' : deviceCount'[d] = deviceCount[d]
    BY <1>2 DEF Lower, Typed, Fields
<1>4. \A d \in mDevices : deviceCount[d] <= Others + 1
    BY HoldsWhat, StreamAssumption DEF DownInv, Typed, Fields, MayHold
<1>. QED
    BY <1>1, <1>2, <1>3, <1>4, HoldsWhat DEF Keeps

LEMMA Keeps_StopRun ==
    ASSUME Typed, DownInv, NEW t \in Thread, StopRun(t)
    PROVE  Keeps
<1>1. /\ cardState' = cardState /\ currentState' = "STOPPED"
      /\ UNCHANGED <<mDevices, deviceCount>>
      /\ session' = "closed" <=> session = "closed"
    BY DEF StopRun, rmVars
<1>. QED
    BY <1>1 DEF Keeps, DownInv, MayHold

LEMMA Keeps_CloseRun ==
    ASSUME Typed, DownInv, NEW t \in Thread, CloseRun(t)
    PROVE  Keeps
<1>1. /\ cardState' = cardState /\ session' = "closed" /\ mDevices' = mDevices
      /\ deviceCount' = Lower(deviceCount, mDevices)
    BY DEF CloseRun, closeDevices, rmVars
<1>2. \A d \in mDevices : deviceCount[d] \in Nat /\ deviceCount[d] <= Others + 1
    BY HoldsWhat, StreamAssumption DEF DownInv, Typed, Fields, MayHold
<1>3. \A d \in mDevices : deviceCount'[d] \in Nat /\ deviceCount'[d] <= Others
    BY <1>1, <1>2, StreamAssumption DEF Lower, Typed, Fields
<1>. QED
    BY <1>1, <1>3, HoldsWhat DEF Keeps

LEMMA Keeps_Pause ==
    ASSUME Typed, DownInv, NEW t \in Thread, Pause(t)
    PROVE  Keeps
<1>1. /\ cardState' = cardState /\ UNCHANGED <<mDevices, deviceCount>>
      /\ session' = "closed" <=> session = "closed"
      /\ currentState' \in {currentState, "PAUSED"}
    BY DEF Pause, rmVars, streamVars
<1>. QED
    BY <1>1 DEF Keeps, DownInv, MayHold

LEMMA KeepsMethod ==
    ASSUME Typed, DownInv, OpensClean, NEW t \in Thread, Method(t)
    PROVE  Keeps
BY Keeps_OpenRefused, Keeps_OpenRun, Keeps_OpenDeviceFails, Keeps_OpenSessionFails,
   Keeps_StartRefused, Keeps_StartCached, Keeps_StartDevicesFail, Keeps_StartSessionFails,
      Keeps_StartNetReset, Keeps_StartRun, Keeps_StartRegister, Keeps_StopCheck,
         Keeps_StopRun, Keeps_CloseCheck, Keeps_CloseRun, Keeps_Pause
   DEF Method, Open, Start

(* A close by the worker closes the session, or leads to a stop first.       *)
LEMMA ClosesFirst ==
    ASSUME Typed, DownInv, Method(Ssr), First(todo[Ssr]) \in {"close", "close_locked"},
           At(Ssr, "down_exit")'
    PROVE  session' = "closed"
<1>1. Moves(Ssr) /\ Ssr \in Thread
    BY MethodMoves DEF Thread
<1>2. todo[Ssr] \in Rounds /\ todo[Ssr] # <<>>
    BY <1>1 DEF Moves, Typed, Programmed
<1>3. First(todo'[Ssr]) = "down_exit"
    BY DEF At, First
<1>4. CloseCheck(Ssr) \/ CloseRun(Ssr)
    BY <1>2, AtFirst DEF Method, Open, OpenRefused, OpenRun, OpenDeviceFails,
       OpenSessionFails,
       Start, Starting, StartRefused, StartCached, StartDevicesFail, StartSessionFails,
       StartNetReset, StartRun, StartRegister, StopCheck, StopRun, Pause
<1>5. CASE CloseRun(Ssr)
    BY <1>5 DEF CloseRun
<1>6. CASE CloseCheck(Ssr) /\ currentState = "IDLE"
    BY <1>6 DEF CloseCheck, DownInv, lowerVars
<1>7. CASE CloseCheck(Ssr) /\ currentState # "IDLE"
  <2>1. Goes(Ssr, PushTwo("stop", "close_locked", todo[Ssr]))
      BY <1>7, ThenGoes DEF CloseCheck
  <2>2. First(todo'[Ssr]) = "stop"
      BY <1>1, <1>2, <2>1, GoesTo, LabelsOfRound
  <2>. QED
      BY <1>3, <2>2
<1>. QED
    BY <1>4, <1>5, <1>6, <1>7

LEMMA Down_Method ==
    ASSUME Typed, Informed, DownInv, OpensClean, NEW t \in Thread, Method(t)
    PROVE  DownInv'
<1>1. Keeps /\ mStreamAttr' = mStreamAttr
    BY KeepsMethod, MethodMoves DEF clientVars
<1>2. At(Ssr, "down_exit")' => session' = "closed"
  <2>1. CASE At(Ssr, "down_exit")
    <3>1. session = "closed" /\ Lowering
        BY <2>1, AtFirst DEF DownInv, Lowering, DownLabels
    <3>. QED
        BY <1>1, <3>1 DEF Informed, Keeps
  <2>2. CASE t = Ssr /\ First(todo[t]) \in {"close", "close_locked"}
      BY <2>2, ClosesFirst
  <2>. QED
      BY <2>1, <2>2, MethodInRound
<1>. QED
    BY <1>1, <1>2 DEF DownInv, Keeps

(* The other steps of a client touch neither the state nor the devices, but  *)
(* for resume, which makes a paused session start, and write, which makes    *)
(* the stream STARTED.                                                       *)
LEMMA Down_Client ==
    ASSUME Typed, DownInv, NEW c \in Client,
           \/ Resume(c) \/ Write(c) \/ WriteNetReset(c) \/ WriteResumed(c)
           \/ WriteRegister(c) \/ WriteStarted(c) \/ Read(c) \/ SetCachedState(c)
           \/ CallDone(c) \/ CloseDone(c) \/ Call(c)
    PROVE  DownInv'
<1>1. todo'[Ssr] = todo[Ssr]
    BY ClientMoves
<1>2. /\ UNCHANGED <<mStreamAttr, mDevices, deviceCount, cardState>>
      /\ currentState' \in {currentState, "STARTED"}
      /\ session' = session \/ (session = "paused" /\ session' = "started")
  <2>1. CASE Resume(c)
      BY <2>1 DEF Resume, clientVars, rmVars
  <2>2. CASE Write(c) \/ WriteNetReset(c) \/ WriteResumed(c) \/ WriteRegister(c)
             \/ WriteStarted(c) \/ Read(c)
      BY <2>2 DEF Write, WriteNetReset, WriteResumed, WriteRegister, WriteStarted, Read,
                  clientVars, rmVars, lowerVars, streamVars
  <2>3. CASE SetCachedState(c) \/ CallDone(c) \/ CloseDone(c) \/ Call(c)
      BY <2>3 DEF SetCachedState, CallDone, CloseDone, Call, clientVars, rmVars,
         lowerVars,
                  streamVars
  <2>. QED
      BY <2>1, <2>2, <2>3
<1>3. At(Ssr, "down_exit")' <=> At(Ssr, "down_exit")
    BY <1>1 DEF At
<1>4. MayHold(session') = MayHold(session)
    BY <1>2 DEF MayHold
<1>. QED
    BY <1>2, <1>3, <1>4 DEF DownInv

LEMMA Down_Ssr ==
    ASSUME Typed, DownInv,
           SsrTake \/ SsrDown \/ SsrDownExit \/ SsrUp \/ SsrUpStart \/ SsrUpPause \/ SsrUpExit
    PROVE  DownInv'
<1>1. UNCHANGED <<mStreamAttr, session, mDevices, deviceCount>>
    BY DEF SsrTake, SsrDown, SsrDownExit, SsrUp, SsrUpStart, SsrUpPause, SsrUpExit,
           lowerVars, clientVars
<1>2. currentState' = "IDLE" => session = "closed"
    BY DEF SsrTake, SsrDown, SsrDownExit, SsrUp, SsrUpStart, SsrUpPause, SsrUpExit,
           streamVars, DownInv
<1>3. At(Ssr, "down_exit")' => session = "closed"
  <2>1. CASE SsrDown
    <3>1. todo[Ssr] = One("down") /\ Ssr \in Thread
        BY <2>1, SsrAtOne, AtFirst DEF SsrDown, Thread
    <3>2. \/ Goes(Ssr, Rest(todo[Ssr]))
          \/ Goes(Ssr, PushTwo("close", "down_exit", todo[Ssr]))
          \/ Goes(Ssr, PushThree("stop", "close", "down_exit", todo[Ssr]))
          \/ session = "closed"
        BY <2>1, ThenGoes DEF SsrDown, RoundEnd, DownInv
    <3>3. At(Ssr, "down_exit")' => todo'[Ssr] # <<>> /\ First(todo'[Ssr]) = "down_exit"
        BY DEF At, First
    <3>. QED
        BY <3>1, <3>2, <3>3, GoesTo, Firsts, Rests, Pushes
  <2>2. CASE SsrDownExit
      BY <2>2 DEF SsrDownExit, DownInv
  <2>3. CASE SsrTake \/ SsrUp \/ SsrUpStart \/ SsrUpPause \/ SsrUpExit
    <3>1. todo'[Ssr] = <<>> \/ First(todo'[Ssr]) # "down_exit"
        BY <2>3, TakeMoves, UpMoves, Firsts
    <3>. QED
        BY <3>1 DEF At, First
  <2>. QED
      BY <2>1, <2>2, <2>3
<1>. QED
    BY <1>1, <1>2, <1>3 DEF DownInv

LEMMA Down_Card ==
    ASSUME DownInv, CardChange \/ MonitorPost \/ MonitorDiscard \/ UNCHANGED vars
    PROVE  DownInv'
<1>1. UNCHANGED <<mStreamAttr, currentState, session, mDevices, deviceCount, todo>>
    BY DEF CardChange, MonitorPost, MonitorDiscard, vars, streamVars, lowerVars, rmVars,
           clientVars
<1>. QED
    BY <1>1 DEF DownInv, At

LEMMA Down_Next ==
    ASSUME Typed, Informed, DownInv, OpensClean, [Next]_vars
    PROVE  DownInv'
<1>1. ASSUME NEW c \in Client, Call(c) \/ ClientStep(c)
      PROVE  DownInv'
    BY <1>1, Down_Method, Down_Client DEF ClientStep, Thread
<1>2. ASSUME SsrStep
      PROVE  DownInv'
    BY <1>2, Down_Method, Down_Ssr DEF SsrStep, Thread
<1>. QED
    BY <1>1, <1>2, Down_Card DEF Next

LEMMA Down_Init == Init => DownInv
<1>1. SUFFICES ASSUME Init PROVE DownInv
    OBVIOUS
<1>2. ~At(Ssr, "down_exit") /\ session = "closed"
    BY <1>1 DEF Init, At, Thread
<1>3. mDevices \subseteq Dev /\ deviceCount = [d \in Dev |-> Others]
    BY <1>1, StreamAssumption DEF Init
<1>. QED
    BY <1>1, <1>2, <1>3, HoldsWhat, StreamAssumption DEF Init, DownInv

(* Whatever clients call while ssrDownHandler runs, it ends with the session *)
(* closed and without a reference on a device of the stream: the state it    *)
(* read may be stale, close() looks at it again.  A stream on several        *)
(* devices whose open may fail half way is left out, StreamPCM::open keeps   *)
(* the devices that it opened.                                               *)
THEOREM DownRoundsClose == ASSUME OpensClean PROVE Spec => []DownRoundCloses
<1>1. Typed /\ Informed /\ DownInv /\ [Next]_vars => DownInv'
    BY Down_Next
<1>2. DownInv => DownRoundCloses
    BY HoldsWhat DEF DownInv, DownRoundCloses, MayHold
<1>. QED
    BY <1>1, <1>2, TypedAlways, InformedAlways, Down_Init, PTL DEF Spec

-----------------------------------------------------------------------------
(* A stream that nobody pauses.                                              *)

NobodyPauses == \A c \in Client : "pause" \notin Calls[c]

(* The part of a round that brings a paused stream back.                     *)
PausePrograms ==
    {Two("open", "up_start_paused"), One("up_start_paused"), Two("start", "up_pause"),
     Two("start_register", "up_pause"), One("up_pause"), Two("pause", "up_exit")}

(* The part of write() that ends a pause.                                    *)
ResumePrograms ==
    {Three("write_register", "write_started", "return"), Two("write_started", "return")}

Unpaused ==
    /\ currentState # "PAUSED" /\ cachedState # "PAUSED" /\ session # "paused"
    /\ isPaused = FALSE /\ view # "paused"
    /\ todo[Ssr] \notin PausePrograms
    /\ \A c \in Client : /\ call[c] \in (Calls[c] \cup {"none"}) \ {"pause", "resume"}
                         /\ todo[c] \notin ResumePrograms

LEMMA PausesLater ==
    ASSUME NEW p \in Rounds, p # <<>>
    PROVE  /\ Rest(p) \in PausePrograms => p \in PausePrograms
           /\ First(p) = "start" /\ Push("start_register", p) \in PausePrograms =>
                 p \in PausePrograms
           /\ Push("stop_locked", p) \notin PausePrograms
           /\ PushTwo("stop", "close_locked", p) \notin PausePrograms
           /\ First(p) = "pause" => p \in PausePrograms
<1>1. Rest(p) \in PausePrograms => p \in PausePrograms
  <2>1. ASSUME NEW x, NEW y, NEW z, p = Three(x, y, z), Rest(p) \in PausePrograms
        PROVE  FALSE
    <3>1. x \in {"stop", "stop_locked"} /\ y \in {"close", "close_locked"}
      <4>1. p \notin {<<>>} /\ Len(p) = 3
          BY <2>1, Lengths
      <4>2. p \in {Three("stop", "close", "down_exit"),
                   Three("stop_locked", "close", "down_exit"),
                   Three("stop", "close_locked", "down_exit"),
                   Three("stop_locked", "close_locked", "down_exit")}
          BY SMTT(60), <4>1, Lengths DEF Rounds, UpPrograms, DownPrograms, Closing
      <4>3. First(p) = x /\ First(Rest(p)) = y
          BY <2>1, Firsts, Rests
      <4>. QED
          BY <4>2, <4>3, Firsts, Rests
    <3>2. First(Rest(p)) = y
        BY <2>1, Firsts, Rests
    <3>. QED
        BY <2>1, <3>1, <3>2, Firsts DEF PausePrograms
  <2>2. ASSUME NEW x, NEW y, p = Two(x, y), Rest(p) \in PausePrograms
        PROVE  p \in PausePrograms
    <3>1. Len(p) = 2
        BY <2>2, Lengths
    <3>2. p \in {Two("open", "up_exit"), Two("open", "up_start"),
                 Two("open", "up_start_paused"), Two("start", "up_exit"),
                 Two("start_register", "up_exit"), Two("start", "up_pause"),
                 Two("start_register", "up_pause"), Two("pause", "up_exit"),
                 Two("close", "down_exit"), Two("close_locked", "down_exit")}
        BY SMTT(60), <3>1, Lengths DEF Rounds, UpPrograms, DownPrograms, Closing
    <3>3. Rest(p) = One(y)
        BY <2>2, Rests
    <3>4. y \notin {"up_exit", "up_start", "down_exit"}
        BY <2>2, <3>3, Firsts DEF PausePrograms
    <3>5. p \in {Two("open", "up_start_paused"), Two("start", "up_pause"),
                 Two("start_register", "up_pause")}
        BY <3>2, <3>3, <3>4, Rests, Firsts
    <3>. QED
        BY <3>5 DEF PausePrograms
  <2>3. ASSUME NEW x, p = One(x)
        PROVE  Rest(p) \notin PausePrograms
      BY <2>3, Rests, Firsts DEF PausePrograms
  <2>4. \/ \E x : p = One(x)
        \/ \E x, y : p = Two(x, y)
        \/ \E x, y, z : p = Three(x, y, z)
      BY DEF Rounds, UpPrograms, DownPrograms, Closing
  <2>. QED
      BY <2>1, <2>2, <2>3, <2>4
<1>2. First(p) = "start" /\ Push("start_register", p) \in PausePrograms =>
         p \in PausePrograms
  <2>1. SUFFICES ASSUME First(p) = "start", p \notin PausePrograms
                 PROVE  Push("start_register", p) \notin PausePrograms
      OBVIOUS
  <2>2. p = Two("start", "up_exit")
      BY <2>1, Firsts DEF Rounds, UpPrograms, DownPrograms, Closing, PausePrograms
  <2>3. Push("start_register", p) = Two("start_register", "up_exit")
      BY <2>2, Pushes
  <2>4. First(Rest(Push("start_register", p))) = "up_exit"
      BY <2>3, Rests, Firsts
  <2>5. First(Push("start_register", p)) = "start_register"
      BY <2>3, Firsts
  <2>. QED
      BY <2>4, <2>5, Rests, Firsts DEF PausePrograms
<1>3. /\ Push("stop_locked", p) \notin PausePrograms
      /\ PushTwo("stop", "close_locked", p) \notin PausePrograms
    BY LabelsOfRound, Firsts DEF PausePrograms
<1>4. First(p) = "pause" => p \in PausePrograms
    BY Firsts DEF Rounds, UpPrograms, DownPrograms, Closing, PausePrograms
<1>. QED
    BY <1>1, <1>2, <1>3, <1>4

LEMMA ResumesLater ==
    ASSUME NEW op \in CallName \cup {"none"}, NEW p \in Programs(op), p # <<>>
    PROVE  /\ Rest(p) \in ResumePrograms => p \in ResumePrograms
           /\ Push("start_register", p) \notin ResumePrograms
           /\ Push("stop_locked", p) \notin ResumePrograms
           /\ Push("write_resumed", p) \notin ResumePrograms
           /\ Push("write_netreset", p) \notin ResumePrograms
           /\ PushTwo("stop", "close_locked", p) \notin ResumePrograms
           /\ PushTwo("close", "destroy", p) \notin ResumePrograms
           /\ First(p) = "pause" => op = "pause"
           /\ First(p) = "resume" => op = "resume"
           /\ First(p) \in {"write_register", "write_started"} => p \in ResumePrograms
<1>1. Rest(p) \in ResumePrograms => p \in ResumePrograms
    BY Rests, Firsts DEF Programs, Closing, CallName, ResumePrograms
<1>2. /\ First(Push("start_register", p)) = "start_register"
      /\ First(Push("stop_locked", p)) = "stop_locked"
      /\ First(Push("write_resumed", p)) = "write_resumed"
      /\ First(Push("write_netreset", p)) = "write_netreset"
    BY Firsts, Pushes DEF Programs, Closing, CallName
<1>3. /\ First(PushTwo("stop", "close_locked", p)) = "stop"
      /\ First(PushTwo("close", "destroy", p)) = "close"
    BY DEF PushTwo, First
<1>4. First(p) = "pause" => op = "pause"
    BY Firsts DEF Programs, Closing, CallName
<1>5. First(p) = "resume" => op = "resume"
    BY Firsts DEF Programs, Closing, CallName
<1>6. First(p) \in {"write_register", "write_started"} => p \in ResumePrograms
    BY Firsts DEF Programs, Closing, CallName, ResumePrograms
<1>. QED
    BY <1>1, <1>2, <1>3, <1>4, <1>5, <1>6, Firsts DEF ResumePrograms

LEMMA Unpaused_Method ==
    ASSUME Typed, Unpaused, NEW t \in Thread, Method(t)
    PROVE  Unpaused'
<1>1. /\ Moves(t) /\ UNCHANGED clientVars
      /\ todo[t] # <<>> /\ todo[t] \in Left(t)
      /\ t # Ssr => t \in Client /\ call[t] \in CallName \cup {"none"}
    BY MethodMoves, LeftIs DEF Moves
<1>2. ~At(t, "pause")
  <2>1. CASE t = Ssr
      BY <1>1, <2>1, PausesLater, AtFirst DEF Left, Unpaused
  <2>2. CASE t # Ssr
      BY <1>1, <2>2, ResumesLater, AtFirst DEF Left, Unpaused
  <2>. QED
      BY <2>1, <2>2
<1>3. /\ currentState' # "PAUSED" /\ cachedState' # "PAUSED" /\ session' # "paused"
      /\ isPaused' = isPaused
  <2>1. CASE Open(t)
      BY <2>1 DEF Open, OpenRefused, OpenRun, OpenDeviceFails, OpenSessionFails,
                  streamVars, lowerVars, Unpaused
  <2>2. CASE Start(t)
      BY <2>2 DEF Start, StartRefused, StartCached, StartDevicesFail, StartSessionFails,
                  StartNetReset, StartRun, StartRegister, streamVars, lowerVars, Unpaused
  <2>3. CASE StopCheck(t) \/ StopRun(t) \/ CloseCheck(t) \/ CloseRun(t)
      BY <2>3 DEF StopCheck, StopRun, CloseCheck, CloseRun, streamVars, lowerVars,
         Unpaused
  <2>. QED
      BY <1>2, <2>1, <2>2, <2>3 DEF Method, Pause
<1>4. todo'[Ssr] \notin PausePrograms
  <2>1. CASE t = Ssr
      BY <1>1, <2>1, GoesTo, PausesLater DEF Moves, Left, Unpaused
  <2>2. CASE t # Ssr
    <3>1. todo'[Ssr] = todo[Ssr]
        BY <1>1, <2>2, GoesTo DEF Moves, Thread
    <3>. QED
        BY <3>1 DEF Unpaused
  <2>. QED
      BY <2>1, <2>2
<1>5. ASSUME NEW c \in Client
      PROVE  todo'[c] \notin ResumePrograms
  <2>1. c \in Thread /\ c # Ssr
      BY StreamAssumption DEF Thread
  <2>2. CASE c = t
      BY <1>1, <2>1, <2>2, GoesTo, ResumesLater DEF Moves, Left, Unpaused
  <2>3. CASE c # t
    <3>1. todo'[c] = todo[c]
        BY <1>1, <2>1, <2>3, GoesTo DEF Moves
    <3>. QED
        BY <3>1 DEF Unpaused
  <2>. QED
      BY <2>2, <2>3
<1>. QED
    BY <1>1, <1>3, <1>4, <1>5 DEF Unpaused, clientVars

(* What the other steps of a client leave of its program.                    *)
ClientRest(c) ==
    \/ Goes(c, Rest(todo[c]))
    \/ First(todo[c]) = "write" /\ Goes(c, Push("write_resumed", todo[c]))
    \/ First(todo[c]) = "write" /\ Goes(c, Push("write_netreset", todo[c]))

LEMMA ClientGoes ==
    ASSUME Typed, NEW c \in Client,
           \/ Resume(c) \/ Write(c) \/ WriteNetReset(c)
           \/ WriteRegister(c) \/ WriteStarted(c) \/ Read(c) \/ SetCachedState(c)
           \/ CloseDone(c)
    PROVE  todo[c] # <<>> /\ ClientRest(c)
<1>1. CASE Resume(c) \/ WriteNetReset(c) \/ WriteRegister(c) \/ WriteStarted(c)
    BY <1>1, AtFirst, ThenGoes
       DEF Resume, WriteNetReset, WriteRegister, WriteStarted, ClientRest
<1>2. CASE Read(c) \/ SetCachedState(c) \/ CloseDone(c)
    BY <1>2, AtFirst, ThenGoes DEF Read, SetCachedState, CloseDone, ClientRest
<1>3. CASE Write(c)
    BY <1>3, AtFirst, ThenGoes DEF Write, ClientRest
<1>. QED
    BY <1>1, <1>2, <1>3

LEMMA Unpaused_Client ==
    ASSUME Typed, Unpaused, NobodyPauses, NEW c \in Client,
           \/ Resume(c) \/ Write(c) \/ WriteNetReset(c) \/ WriteResumed(c)
           \/ WriteRegister(c) \/ WriteStarted(c) \/ Read(c) \/ SetCachedState(c)
           \/ CallDone(c) \/ CloseDone(c) \/ Call(c)
    PROVE  Unpaused'
<1>1. /\ c \in Thread /\ c # Ssr
      /\ call[c] \in CallName \cup {"none"} /\ todo[c] \in Programs(call[c])
    BY LeftIs, StreamAssumption DEF Thread, Left
<1>2. ~Resume(c) /\ ~WriteRegister(c) /\ ~WriteStarted(c)
    BY <1>1, AtFirst, ResumesLater DEF Resume, WriteRegister, WriteStarted, Unpaused
<1>3. /\ UNCHANGED <<currentState, session, isPaused>>
      /\ todo'[Ssr] = todo[Ssr] /\ \A u \in Thread : u # c => todo'[u] = todo[u]
    BY <1>2, ClientKeeps, ClientMoves
<1>4. cachedState' # "PAUSED"
  <2>1. CASE Write(c) \/ WriteNetReset(c) \/ WriteResumed(c) \/ Read(c)
      BY <2>1 DEF Write, WriteNetReset, WriteResumed, Read, streamVars, Unpaused
  <2>2. CASE SetCachedState(c) \/ CallDone(c) \/ CloseDone(c) \/ Call(c)
      BY <2>2 DEF SetCachedState, CallDone, CloseDone, Call, streamVars, Unpaused
  <2>. QED
      BY <1>2, <2>1, <2>2
<1>5. /\ view' # "paused"
      /\ \A u \in Client : call'[u] \in (Calls[u] \cup {"none"}) \ {"pause", "resume"}
  <2>1. CASE Write(c) \/ WriteNetReset(c) \/ WriteResumed(c) \/ Read(c) \/ SetCachedState(c)
      BY <2>1 DEF Write, WriteNetReset, WriteResumed, Read, SetCachedState, clientVars,
         Unpaused
  <2>2. CASE CloseDone(c)
    <3>1. view' = "dead" /\ call' = [call EXCEPT ![c] = "none"]
        BY <2>2 DEF CloseDone
    <3>. QED
        BY <3>1 DEF Unpaused, Typed, Fields
  <2>3. CASE CallDone(c)
    <3>1. call[c] # "close" /\ call[c] \in CallName
        BY <1>1, <2>3, AtFirst, LastOfProgram DEF CallDone
    <3>2. view' # "paused"
        BY <2>3, <3>1 DEF CallDone, Outcome, CallName, Unpaused
    <3>3. call' = call \/ call' = [call EXCEPT ![c] = "none"]
        BY <2>3 DEF CallDone
    <3>. QED
        BY <3>2, <3>3 DEF Unpaused, Typed, Fields
  <2>4. CASE Call(c)
    <3>1. PICK op \in Calls[c] :
             /\ Allowed(c, op)
             /\ call' = [call EXCEPT ![c] = op]
             /\ view' = IF op = "close" THEN "closing" ELSE view
        BY <2>4 DEF Call
    <3>2. op \notin {"pause", "resume"}
        BY <3>1 DEF NobodyPauses, Allowed, Unpaused
    <3>. QED
        BY <3>1, <3>2 DEF Unpaused, Typed, Fields
  <2>. QED
      BY <1>2, <2>1, <2>2, <2>3, <2>4
<1>6. todo'[c] \notin ResumePrograms
  <2>1. CASE Write(c) \/ WriteNetReset(c) \/ Read(c) \/ SetCachedState(c) \/ CloseDone(c)
      BY <1>1, <2>1, ClientGoes, GoesTo, ResumesLater DEF ClientRest, Unpaused
  <2>2. CASE WriteResumed(c)
    <3>1. Goes(c, Rest(todo[c])) /\ todo[c] # <<>>
        BY <2>2, AtFirst, ThenGoes DEF WriteResumed, Unpaused
    <3>. QED
        BY <1>1, <3>1, GoesTo, ResumesLater DEF Unpaused
  <2>3. CASE CallDone(c)
    <3>1. /\ todo[c] # <<>>
          /\ Goes(c, Rest(todo[c])) \/ Goes(c, PushTwo("close", "destroy", todo[c]))
        BY <2>3, AtFirst, ThenGoes DEF CallDone
    <3>. QED
        BY <1>1, <3>1, GoesTo, ResumesLater DEF Unpaused
  <2>4. CASE Call(c)
    <3>1. PICK op \in CallName : todo' = [todo EXCEPT ![c] = Program(op)]
        BY <2>4, StreamAssumption DEF Call
    <3>2. First(Program(op)) \notin {"write_register", "write_started"}
        BY DEF Program, First, CallName
    <3>3. todo'[c] = Program(op)
        BY <1>1, <3>1 DEF Typed, Programmed
    <3>. QED
        BY <3>2, <3>3, Firsts DEF ResumePrograms
  <2>. QED
      BY <1>2, <2>1, <2>2, <2>3, <2>4
<1>. QED
    BY <1>1, <1>3, <1>4, <1>5, <1>6, StreamAssumption DEF Unpaused, Thread

LEMMA Unpaused_Ssr ==
    ASSUME Typed, Unpaused,
           SsrTake \/ SsrDown \/ SsrDownExit \/ SsrUp \/ SsrUpStart \/ SsrUpPause \/ SsrUpExit
    PROVE  Unpaused'
<1>1. /\ UNCHANGED <<isPaused, session, view, call>>
      /\ currentState' # "PAUSED" /\ cachedState' # "PAUSED"
    BY DEF SsrTake, SsrDown, SsrDownExit, SsrUp, SsrUpStart, SsrUpPause, SsrUpExit,
           clientVars, lowerVars, streamVars, Unpaused
<1>2. \A c \in Client : todo'[c] = todo[c]
    BY TakeMoves, DownMoves, ExitMoves, UpMoves
<1>3. todo'[Ssr] \notin PausePrograms
  <2>1. CASE SsrTake \/ SsrDown \/ SsrDownExit \/ SsrUpExit
    <3>1. \/ todo'[Ssr] = <<>>
          \/ First(todo'[Ssr]) \in {"down", "up", "down_exit", "close", "stop"}
        BY <2>1, TakeMoves, DownMoves, ExitMoves, Firsts
    <3>. QED
        BY <3>1, Firsts DEF PausePrograms
  <2>2. CASE SsrUp
    <3>1. todo[Ssr] = One("up") /\ Ssr \in Thread
        BY <2>2, SsrAtOne, AtFirst DEF SsrUp, Thread
    <3>2. \/ Goes(Ssr, Rest(todo[Ssr])) \/ Goes(Ssr, Push("up_exit", todo[Ssr]))
          \/ Goes(Ssr, PushTwo("open", "up_exit", todo[Ssr]))
          \/ Goes(Ssr, PushTwo("open", "up_start", todo[Ssr]))
        BY <2>2, ThenGoes DEF SsrUp, RoundEnd, Unpaused
    <3>3. todo'[Ssr] \in {<<>>, One("up_exit"), Two("open", "up_exit"), Two("open", "up_start")}
        BY <3>1, <3>2, GoesTo, Rests, Pushes
    <3>. QED
        BY <3>3, Firsts, Rests DEF PausePrograms
  <2>3. CASE SsrUpStart
    <3>1. todo[Ssr] = One("up_start") /\ Ssr \in Thread
        BY <2>3, SsrAtOne, AtFirst DEF SsrUpStart, Thread, Unpaused, PausePrograms
    <3>2. At(Ssr, "up_start")
        BY <3>1, AtFirst, Firsts
    <3>3. \/ Goes(Ssr, Push("up_exit", todo[Ssr]))
          \/ Goes(Ssr, PushTwo("start", "up_exit", todo[Ssr]))
        BY <2>3, <3>2, ThenGoes DEF SsrUpStart
    <3>4. todo'[Ssr] \in {One("up_exit"), Two("start", "up_exit")}
        BY <3>1, <3>3, GoesTo, Pushes
    <3>. QED
        BY <3>4, Firsts, Rests DEF PausePrograms
  <2>4. CASE SsrUpPause
      BY <2>4, SsrAtOne, AtFirst DEF SsrUpPause, Unpaused, PausePrograms
  <2>. QED
      BY <2>1, <2>2, <2>3, <2>4
<1>. QED
    BY <1>1, <1>2, <1>3 DEF Unpaused

LEMMA UnpausedNext ==
    ASSUME Typed, Unpaused, NobodyPauses, [Next]_vars
    PROVE  Unpaused'
<1>1. ASSUME NEW c \in Client, Call(c) \/ ClientStep(c)
      PROVE  Unpaused'
    BY <1>1, Unpaused_Method, Unpaused_Client DEF ClientStep, Thread
<1>2. ASSUME SsrStep
      PROVE  Unpaused'
    BY <1>2, Unpaused_Method, Unpaused_Ssr DEF SsrStep, Thread
<1>3. CASE CardChange \/ MonitorPost \/ MonitorDiscard \/ UNCHANGED vars
  <2>1. UNCHANGED <<currentState, cachedState, session, isPaused, view, call, todo>>
      BY <1>3 DEF CardChange, MonitorPost, MonitorDiscard, vars, streamVars, lowerVars,
                  clientVars
  <2>. QED
      BY <2>1 DEF Unpaused
<1>. QED
    BY <1>1, <1>2, <1>3 DEF Next

LEMMA UnpausedAlways == ASSUME NobodyPauses PROVE Spec => []Unpaused
<1>1. Init => Unpaused
  <2>1. SUFFICES ASSUME Init PROVE Unpaused
      OBVIOUS
  <2>2. \A t \in Thread : todo[t] = <<>>
      BY <2>1 DEF Init
  <2>3. <<>> \notin PausePrograms /\ <<>> \notin ResumePrograms
      BY Sequences DEF PausePrograms, ResumePrograms
  <2>. QED
      BY <2>1, <2>2, <2>3 DEF Init, Unpaused, Thread
<1>2. Typed /\ Unpaused /\ [Next]_vars => Unpaused'
    BY UnpausedNext
<1>. QED
    BY <1>1, <1>2, TypedAlways, PTL DEF Spec

-----------------------------------------------------------------------------
(* The worker and mActiveStreamMutex.                                        *)

(* Nobody pauses the stream, or pauses and writes wait for the end of a      *)
(* round: both can make a stream run that the worker is about to close.      *)
Undisturbed == NobodyPauses \/ Overlap \cap {"pause", "write"} = {}

(* The calls outside Overlap wait for the worker.                            *)
Waiting ==
    Overlap \cap {"pause", "write"} = {} /\ todo[Ssr] # <<>> =>
       \A c \in Client : call[c] \notin {"pause", "write"}

LEMMA WaitingNext ==
    ASSUME Typed, Waiting, [Next]_vars
    PROVE  Waiting'
<1>1. SUFFICES ASSUME Overlap \cap {"pause", "write"} = {}, todo'[Ssr] # <<>>, NEW c \in Client
               PROVE  call'[c] \notin {"pause", "write"}
    BY DEF Waiting
<1>2. CASE todo[Ssr] # <<>> /\ call' = call
    BY <1>1, <1>2 DEF Waiting
<1>3. ASSUME NEW t \in Thread, Method(t)
      PROVE  todo[Ssr] # <<>> /\ call' = call
  <2>1. call' = call /\ Moves(t)
      BY <1>3, MethodMoves DEF clientVars
  <2>2. CASE t = Ssr
      BY <2>1, <2>2 DEF Moves
  <2>3. CASE t # Ssr
    <3>1. todo'[Ssr] = todo[Ssr]
        BY <2>1, <2>3, GoesTo DEF Moves, Thread
    <3>. QED
        BY <1>1, <2>1, <3>1
  <2>. QED
      BY <2>2, <2>3
<1>4. ASSUME NEW d \in Client, Call(d)
      PROVE  call'[c] \notin {"pause", "write"}
  <2>1. todo[Ssr] # <<>>
      BY <1>1, <1>4, ClientMoves
  <2>2. PICK op \in Calls[d] :
           /\ op \in Overlap
           /\ call' = [call EXCEPT ![d] = op]
      BY <1>4, <2>1 DEF Call, Calm
  <2>. QED
      BY <1>1, <2>1, <2>2 DEF Waiting, Typed, Fields
<1>5. ASSUME NEW d \in Client, ClientStep(d), ~Method(d)
      PROVE  call'[c] \notin {"pause", "write"}
  <2>1. todo[Ssr] # <<>>
      BY <1>1, <1>5, ClientMoves DEF ClientStep
  <2>2. call' = call \/ call' = [call EXCEPT ![d] = "none"]
    <3>1. CASE CallDone(d) \/ CloseDone(d)
        BY <3>1 DEF CallDone, CloseDone
    <3>2. CASE ~(CallDone(d) \/ CloseDone(d))
        BY <1>5, <3>2 DEF ClientStep, Resume, Write, WriteNetReset, WriteResumed,
                          WriteRegister, WriteStarted, Read, SetCachedState, clientVars
    <3>. QED
        BY <3>1, <3>2
  <2>. QED
      BY <1>1, <2>1, <2>2 DEF Waiting, Typed, Fields
<1>6. CASE SsrTake
    BY <1>1, <1>6 DEF SsrTake, clientVars
<1>7. CASE SsrDown \/ SsrDownExit \/ SsrUp \/ SsrUpStart \/ SsrUpPause \/ SsrUpExit
  <2>1. todo[Ssr] # <<>> /\ call' = call
      BY <1>7 DEF SsrDown, SsrDownExit, SsrUp, SsrUpStart, SsrUpPause, SsrUpExit, At,
         clientVars
  <2>. QED
      BY <1>2, <2>1
<1>8. CASE CardChange \/ MonitorPost \/ MonitorDiscard \/ UNCHANGED vars
  <2>1. todo' = todo /\ call' = call
      BY <1>8 DEF CardChange, MonitorPost, MonitorDiscard, vars, clientVars
  <2>. QED
      BY <1>1, <1>2, <2>1
<1>9. CASE \E t \in Thread : Method(t)
    BY <1>2, <1>3, <1>9
<1>. QED
    BY <1>4, <1>5, <1>6, <1>7, <1>8, <1>9 DEF Next, SsrStep, ClientStep, Thread

LEMMA WaitingAlways == Spec => []Waiting
<1>1. Init => Waiting
    BY DEF Init, Waiting, Thread
<1>2. Typed /\ Waiting /\ [Next]_vars => Waiting'
    BY WaitingNext
<1>. QED
    BY <1>1, <1>2, TypedAlways, PTL DEF Spec

(* What a client does during a round makes no stream run.                    *)
NoRun ==
    todo[Ssr] # <<>> => \A c \in Client : ~At(c, "pause") /\ ~At(c, "write_started")

LEMMA NoRunAlways == ASSUME Undisturbed PROVE Spec => []NoRun
<1>1. ASSUME Typed, Unpaused PROVE NoRun
  <2>1. SUFFICES ASSUME NEW c \in Client PROVE ~At(c, "pause") /\ ~At(c, "write_started")
      BY DEF NoRun
  <2>2. c \in Thread /\ c # Ssr
      BY StreamAssumption DEF Thread
  <2>. QED
      BY <1>1, <2>2, LeftIs, AtFirst, ResumesLater DEF Left, Unpaused
<1>2. ASSUME Typed, Waiting, Overlap \cap {"pause", "write"} = {} PROVE NoRun
  <2>1. SUFFICES ASSUME todo[Ssr] # <<>>, NEW c \in Client
                 PROVE ~At(c, "pause") /\ ~At(c, "write_started")
      BY DEF NoRun
  <2>2. c \in Thread /\ c # Ssr /\ call[c] \notin {"pause", "write"}
      BY <1>2, <2>1, StreamAssumption DEF Thread, Waiting
  <2>3. todo[c] \in Programs(call[c]) /\ call[c] \in CallName \cup {"none"}
      BY <1>2, <2>2, LeftIs DEF Left
  <2>4. todo[c] # <<>> /\ First(todo[c]) \in {"pause", "write_started"} => FALSE
      BY <2>2, <2>3, Firsts DEF Programs, Closing, CallName
  <2>. QED
      BY <2>4, AtFirst
<1>3. CASE NobodyPauses
    BY <1>1, <1>3, TypedAlways, UnpausedAlways, PTL
<1>4. CASE Overlap \cap {"pause", "write"} = {}
    BY <1>2, <1>4, TypedAlways, WaitingAlways, PTL
<1>. QED
    BY <1>3, <1>4 DEF Undisturbed

(* Where the worker may be with mActiveStreamMutex.                          *)
HoldingPrograms ==
    {One("down"), Two("close", "down_exit"), One("down_exit"), One("up"),
     Two("open", "up_exit"), Two("open", "up_start"), Two("open", "up_start_paused"),
     One("up_start"), One("up_start_paused"), Two("pause", "up_exit"), One("up_exit")}

HoldInv ==
    ssrHolds => /\ todo[Ssr] \in HoldingPrograms
                /\ todo[Ssr] = Two("close", "down_exit") =>
                      currentState \notin {"STARTED", "PAUSED"}

LEMMA HoldsOn ==
    ASSUME NEW p \in HoldingPrograms, First(p) \in MethodLabels
    PROVE  /\ First(p) \in {"open", "close", "pause"}
           /\ First(p) = "close" => p = Two("close", "down_exit")
           /\ Rest(p) \in HoldingPrograms /\ Rest(p) # Two("close", "down_exit")
BY Firsts, Rests DEF HoldingPrograms, MethodLabels

LEMMA ClosedIsLowering ==
    todo[Ssr] = Two("close", "down_exit") => Lowering /\ todo[Ssr] # <<>>
BY Firsts DEF Lowering, DownLabels

(* Only start and pause make a stream run.                                   *)
LEMMA MethodRuns ==
    ASSUME NEW t \in Thread, Method(t), currentState \notin {"STARTED", "PAUSED"},
           currentState' \in {"STARTED", "PAUSED"}
    PROVE  At(t, "pause") \/ ~isDown(cardState)
<1>1. CASE Open(t)
    BY <1>1 DEF Open, OpenRefused, OpenRun, OpenDeviceFails, OpenSessionFails, streamVars
<1>2. CASE Start(t)
    BY <1>2 DEF Start, Starting, StartRefused, StartCached, StartDevicesFail,
                StartSessionFails, StartNetReset, StartRun, StartRegister, streamVars
<1>3. CASE StopCheck(t) \/ StopRun(t) \/ CloseCheck(t) \/ CloseRun(t)
    BY <1>3 DEF StopCheck, StopRun, CloseCheck, CloseRun, streamVars
<1>4. CASE Pause(t)
    BY <1>4 DEF Pause
<1>. QED
    BY <1>1, <1>2, <1>3, <1>4 DEF Method

LEMMA Hold_Method ==
    ASSUME Typed, Informed, NoRun, HoldInv, NEW t \in Thread, Method(t)
    PROVE  HoldInv'
<1>1. SUFFICES ASSUME ssrHolds
               PROVE  /\ todo'[Ssr] \in HoldingPrograms
                      /\ todo'[Ssr] = Two("close", "down_exit") =>
                            currentState' \notin {"STARTED", "PAUSED"}
    BY MethodKeeps DEF HoldInv
<1>2. todo[Ssr] \in HoldingPrograms /\ Moves(t)
    BY <1>1, MethodMoves DEF HoldInv
<1>3. CASE t = Ssr
  <2>1. /\ First(todo[Ssr]) \in {"open", "close", "pause"}
        /\ First(todo[Ssr]) = "close" => todo[Ssr] = Two("close", "down_exit")
        /\ Rest(todo[Ssr]) \in HoldingPrograms /\ Rest(todo[Ssr]) # Two("close", "down_exit")
      BY <1>2, <1>3, HoldsOn DEF Moves
  <2>2. Goes(t, Rest(todo[t]))
    <3>1. CASE First(todo[Ssr]) # "close"
        BY <1>2, <1>3, <2>1, <3>1 DEF Moves
    <3>2. CASE First(todo[Ssr]) = "close"
      <4>1. currentState \notin {"STARTED", "PAUSED"} /\ ~At(Ssr, "close_locked")
          BY <1>1, <2>1, <3>2, AtFirst DEF HoldInv
      <4>2. CloseCheck(Ssr) \/ CloseRun(Ssr)
          BY <1>3, <3>2, AtFirst DEF Method, Open, OpenRefused, OpenRun, OpenDeviceFails,
             OpenSessionFails, Start, Starting, StartRefused, StartCached, StartDevicesFail,
             StartSessionFails, StartNetReset, StartRun, StartRegister, StopCheck, StopRun,
             Pause
      <4>. QED
          BY <1>3, <4>1, <4>2, ThenGoes DEF CloseCheck, CloseRun
    <3>. QED
        BY <3>1, <3>2
  <2>. QED
      BY <1>3, <2>1, <2>2, GoesTo
<1>4. CASE t # Ssr
  <2>1. todo'[Ssr] = todo[Ssr] /\ t \in Client
      BY <1>2, <1>4, GoesTo DEF Moves, Thread
  <2>2. ASSUME todo[Ssr] = Two("close", "down_exit")
        PROVE  currentState' \notin {"STARTED", "PAUSED"}
    <3>1. isDown(cardState) /\ ~At(t, "pause") /\ currentState \notin {"STARTED", "PAUSED"}
        BY <1>1, <2>1, <2>2, ClosedIsLowering DEF Informed, NoRun, HoldInv
    <3>. QED
        BY <3>1, MethodRuns
  <2>. QED
      BY <1>2, <2>1, <2>2
<1>. QED
    BY <1>3, <1>4

LEMMA Hold_Client ==
    ASSUME Typed, NoRun, HoldInv, NEW c \in Client,
           \/ Resume(c) \/ Write(c) \/ WriteNetReset(c) \/ WriteResumed(c)
           \/ WriteRegister(c) \/ WriteStarted(c) \/ Read(c) \/ SetCachedState(c)
           \/ CallDone(c) \/ CloseDone(c) \/ Call(c)
    PROVE  HoldInv'
<1>1. todo'[Ssr] = todo[Ssr] /\ ssrHolds' = ssrHolds
    BY ClientMoves, ClientKeeps
<1>2. todo[Ssr] # <<>> => currentState' = currentState
    BY ClientKeeps DEF WriteStarted, NoRun
<1>. QED
    BY <1>1, <1>2, ClosedIsLowering DEF HoldInv

LEMMA Hold_Ssr ==
    ASSUME Typed, HoldInv,
           SsrTake \/ SsrDown \/ SsrDownExit \/ SsrUp \/ SsrUpStart \/ SsrUpPause \/ SsrUpExit
    PROVE  HoldInv'
<1>1. Ssr \in Thread
    BY DEF Thread
<1>2. CASE SsrTake
  <2>1. CASE UNCHANGED <<todo, ssrHolds, currentState>>
      BY <2>1 DEF HoldInv
  <2>2. CASE ~UNCHANGED <<todo, ssrHolds, currentState>>
    <3>1. Goes(Ssr, IF isDown(cardState') THEN One("down") ELSE One("up"))
        BY <1>2, <2>2 DEF SsrTake, Goes, One, streamVars
    <3>2. todo'[Ssr] \in {One("down"), One("up")}
        BY <1>1, <3>1, GoesTo
    <3>3. todo'[Ssr] # Two("close", "down_exit")
        BY <3>2, Firsts
    <3>. QED
        BY <3>2, <3>3 DEF HoldInv, HoldingPrograms
  <2>. QED
      BY <2>1, <2>2
<1>3. CASE SsrDown
  <2>1. todo[Ssr] = One("down")
      BY <1>3, SsrAtOne, AtFirst DEF SsrDown
  <2>2. \/ ssrHolds' = FALSE
        \/ /\ currentState' \in {"INIT", "STOPPED"}
           /\ Goes(Ssr, PushTwo("close", "down_exit", todo[Ssr]))
        \/ Goes(Ssr, Push("down_exit", todo[Ssr]))
      BY <1>3, ThenGoes DEF SsrDown, RoundEnd
  <2>3. \/ ssrHolds' = FALSE
        \/ currentState' \in {"INIT", "STOPPED"} /\ todo'[Ssr] = Two("close", "down_exit")
        \/ todo'[Ssr] = One("down_exit")
      BY <1>1, <2>1, <2>2, GoesTo, Pushes
  <2>4. One("down_exit") # Two("close", "down_exit")
      BY Firsts
  <2>. QED
      BY <2>3, <2>4 DEF HoldInv, HoldingPrograms
<1>4. CASE SsrDownExit \/ SsrUpExit
    BY <1>4 DEF SsrDownExit, SsrUpExit, RoundEnd, HoldInv
<1>5. CASE SsrUp
  <2>1. todo[Ssr] = One("up")
      BY <1>5, SsrAtOne, AtFirst DEF SsrUp
  <2>2. \/ ssrHolds' = FALSE
        \/ Goes(Ssr, PushTwo("open", "up_exit", todo[Ssr]))
        \/ Goes(Ssr, PushTwo("open", "up_start", todo[Ssr]))
        \/ Goes(Ssr, PushTwo("open", "up_start_paused", todo[Ssr]))
        \/ Goes(Ssr, Push("up_exit", todo[Ssr]))
      BY <1>5, ThenGoes DEF SsrUp, RoundEnd
  <2>3. \/ ssrHolds' = FALSE
        \/ todo'[Ssr] \in {Two("open", "up_exit"), Two("open", "up_start"),
                           Two("open", "up_start_paused"), One("up_exit")}
      BY <1>1, <2>1, <2>2, GoesTo, Pushes
  <2>. QED
      BY <2>3, Firsts DEF HoldInv, HoldingPrograms
<1>6. CASE SsrUpStart
  <2>1. \E x : todo[Ssr] = One(x)
      BY <1>6, SsrAtOne, AtFirst DEF SsrUpStart
  <2>2. \/ ssrHolds' = FALSE \/ Goes(Ssr, Push("up_exit", todo[Ssr]))
      BY <1>6, ThenGoes DEF SsrUpStart
  <2>3. \/ ssrHolds' = FALSE \/ todo'[Ssr] = One("up_exit")
      BY <1>1, <2>1, <2>2, GoesTo, Pushes
  <2>. QED
      BY <2>3, Firsts DEF HoldInv, HoldingPrograms
<1>7. CASE SsrUpPause
  <2>1. \E x : todo[Ssr] = One(x)
      BY <1>7, SsrAtOne, AtFirst DEF SsrUpPause
  <2>2. \/ Goes(Ssr, PushTwo("pause", "up_exit", todo[Ssr]))
        \/ Goes(Ssr, Push("up_exit", todo[Ssr]))
      BY <1>7, ThenGoes DEF SsrUpPause
  <2>3. \/ todo'[Ssr] = Two("pause", "up_exit") \/ todo'[Ssr] = One("up_exit")
      BY <1>1, <2>1, <2>2, GoesTo, Pushes
  <2>. QED
      BY <2>3, Firsts DEF HoldInv, HoldingPrograms
<1>. QED
    BY <1>2, <1>3, <1>4, <1>5, <1>6, <1>7

LEMMA HoldNext ==
    ASSUME Typed, Informed, NoRun, HoldInv, [Next]_vars
    PROVE  HoldInv'
<1>1. ASSUME NEW c \in Client, Call(c) \/ ClientStep(c)
      PROVE  HoldInv'
    BY <1>1, Hold_Method, Hold_Client DEF ClientStep, Thread
<1>2. ASSUME SsrStep
      PROVE  HoldInv'
    BY <1>2, Hold_Method, Hold_Ssr DEF SsrStep, Thread
<1>3. CASE CardChange \/ MonitorPost \/ MonitorDiscard \/ UNCHANGED vars
  <2>1. UNCHANGED <<currentState, ssrHolds, todo>>
      BY <1>3 DEF CardChange, MonitorPost, MonitorDiscard, vars, streamVars, rmVars
  <2>. QED
      BY <2>1 DEF HoldInv
<1>. QED
    BY <1>1, <1>2, <1>3 DEF Next

(* The worker never waits for mActiveStreamMutex with the mutex in hand:     *)
(* ssrDownHandler keeps it only for a stream that it will close without a    *)
(* stop(), and no client can start that stream before it is closed.  A       *)
(* pause() at the wrong moment could: it does not look at the state.         *)
THEOREM NeverSelfDeadlocks == ASSUME Undisturbed PROVE Spec => []NoSelfDeadlock
<1>1. Init => HoldInv
    BY DEF Init, HoldInv
<1>2. Typed /\ Informed /\ NoRun /\ HoldInv /\ [Next]_vars => HoldInv'
    BY HoldNext
<1>3. HoldInv => NoSelfDeadlock
    BY AtFirst, Firsts DEF HoldInv, HoldingPrograms, NoSelfDeadlock
<1>. QED
    BY <1>1, <1>2, <1>3, TypedAlways, InformedAlways, NoRunAlways, PTL DEF Spec

-----------------------------------------------------------------------------
(* One thread at a time changes the stream.                                  *)

Streaming == {"none", "write", "read"}

(* One client controls the stream, the others at most move data; of its      *)
(* calls only the open may run with a round, which skips the stream then.    *)
Serial ==
    /\ NobodyPauses
    /\ Overlap \subseteq {"open", "write", "read"}
    /\ \A b, c \in Client : b # c => Calls[b] \subseteq {"write", "read"}
                                     \/ Calls[c] \subseteq {"write", "read"}

(* Thread t is in a call or in a round that may change the stream.           *)
Acting(t) == IF t = Ssr THEN todo[t] # <<>> ELSE call[t] \notin Streaming

Ordered ==
    /\ \A t, u \in Thread : Acting(t) /\ Acting(u) => t = u
    /\ \A c \in Client : call[c] = "open" => view \in {"none", "failed"}
    /\ todo[Ssr] # <<>> => Counted
    /\ view = "dead" => \A t \in Thread : ~Acting(t)

LEMMA StreamingLabels ==
    ASSUME NEW op \in Streaming, NEW p \in Programs(op), p # <<>>
    PROVE  First(p) \in {"write", "write_netreset", "write_resumed", "write_register",
                         "write_started", "read", "return"}
BY Firsts DEF Programs, Streaming

LEMMA MethodActs ==
    ASSUME Typed, NEW t \in Thread, todo[t] # <<>>,
           First(todo[t]) \in MethodLabels \cup {"destroy"}
    PROVE  Acting(t)
<1>1. CASE t = Ssr
    BY <1>1 DEF Acting
<1>2. CASE t # Ssr
    BY <1>2, LeftIs, StreamingLabels DEF Acting, Left, MethodLabels
<1>. QED
    BY <1>1, <1>2

LEMMA Ordered_Method ==
    ASSUME Typed, Ordered, NEW t \in Thread, Method(t)
    PROVE  /\ Ordered' /\ Acting(t)
           /\ \A u \in Thread : u # t => todo'[u] = todo[u] /\ ~Acting(u)
<1>1. Moves(t) /\ UNCHANGED clientVars /\ Acting(t)
    BY MethodMoves, MethodActs DEF Moves
<1>2. ASSUME NEW u \in Thread, u # t
      PROVE  todo'[u] = todo[u] /\ ~Acting(u)
    BY <1>1, <1>2, GoesTo DEF Moves, Ordered
<1>3. todo'[Ssr] # <<>> => todo[Ssr] # <<>>
    BY <1>1, <1>2 DEF Acting, Thread
<1>4. \A u \in Thread : Acting(u)' => Acting(u)
    BY <1>1, <1>3 DEF Acting, clientVars
<1>. QED
    BY <1>1, <1>2, <1>3, <1>4 DEF Ordered, Counted, clientVars

LEMMA Ordered_CallDone ==
    ASSUME Typed, Ordered, NEW c \in Client, CallDone(c)
    PROVE  Ordered'
<1>1. /\ c \in Thread /\ c # Ssr /\ todo'[Ssr] = todo[Ssr]
      /\ call[c] \in CallName /\ call[c] # "close"
    BY LeftIs, AtFirst, LastOfProgram, ClientMoves, StreamAssumption
       DEF CallDone, Thread, Left
<1>2. call[c] \notin Streaming => Acting(c) /\ todo[Ssr] = <<>>
    BY <1>1 DEF Ordered, Acting, Thread
<1>3. CASE call[c] = "open" /\ status[c] # 0
  <2>1. view' = "failed" /\ call' = call
      BY <1>3 DEF CallDone
  <2>2. \A u \in Thread : Acting(u)' <=> Acting(u)
      BY <1>1, <2>1 DEF Acting
  <2>. QED
      BY <1>1, <1>2, <1>3, <2>1, <2>2 DEF Ordered, Counted, Streaming
<1>4. CASE ~(call[c] = "open" /\ status[c] # 0)
  <2>1. /\ call' = [call EXCEPT ![c] = "none"]
        /\ view' \in {view, Outcome(call[c])}
      BY <1>4 DEF CallDone
  <2>2. \A d \in Client : call'[d] = IF d = c THEN "none" ELSE call[d]
      BY <2>1 DEF Typed, Fields
  <2>3. \A u \in Thread : Acting(u)' => Acting(u)
      BY <1>1, <2>2 DEF Acting, Thread, Streaming
  <2>4. /\ call[c] \in Streaming => view' = view
        /\ view' = "dead" => view = "dead"
        /\ call[c] # "open" /\ Counted => Counted'
      BY <1>1, <2>1 DEF Outcome, Streaming, CallName, Counted
  <2>5. ASSUME NEW d \in Client, call'[d] = "open"
        PROVE  view' \in {"none", "failed"}
    <3>1. d # c /\ call[d] = "open" /\ d \in Thread /\ d # Ssr
        BY <2>2, <2>5, StreamAssumption DEF Thread
    <3>2. call[c] \in Streaming
        BY <1>1, <3>1 DEF Ordered, Acting, Streaming
    <3>. QED
        BY <2>4, <3>1, <3>2 DEF Ordered
  <2>6. todo'[Ssr] # <<>> => Counted'
      BY <1>1, <1>2, <2>4 DEF Ordered, Streaming
  <2>. QED
      BY <2>3, <2>4, <2>5, <2>6 DEF Ordered
<1>. QED
    BY <1>3, <1>4

LEMMA Ordered_CloseDone ==
    ASSUME Typed, Ordered, NEW c \in Client, CloseDone(c)
    PROVE  Ordered'
<1>1. /\ c \in Thread /\ c # Ssr /\ todo'[Ssr] = <<>> /\ Acting(c)
    BY AtFirst, MethodActs, ClientMoves, StreamAssumption DEF CloseDone, Thread
<1>2. view' = "dead" /\ \A d \in Client : call'[d] = IF d = c THEN "none" ELSE call[d]
    BY DEF CloseDone, Typed, Fields
<1>3. \A u \in Thread : ~Acting(u)'
    BY <1>1, <1>2 DEF Ordered, Acting, Thread, Streaming
<1>4. \A d \in Client : call'[d] # "open"
    BY <1>3, StreamAssumption DEF Acting, Thread, Streaming
<1>. QED
    BY <1>1, <1>3, <1>4 DEF Ordered

LEMMA Ordered_Call ==
    ASSUME Typed, Ordered, Unpaused, Serial, NEW c \in Client, Call(c)
    PROVE  Ordered'
<1>1. c \in Thread /\ c # Ssr /\ todo'[Ssr] = todo[Ssr]
    BY ClientMoves, StreamAssumption DEF Thread
<1>2. PICK op \in Calls[c] :
         /\ Allowed(c, op)
         /\ op \in Overlap \/ todo[Ssr] = <<>>
         /\ call' = [call EXCEPT ![c] = op]
         /\ view' = IF op = "close" THEN "closing" ELSE view
    BY DEF Call, Calm
<1>3. op \in CallName /\ \A d \in Client : call'[d] = IF d = c THEN op ELSE call[d]
    BY <1>2, StreamAssumption DEF Typed, Fields
<1>4. op \notin Streaming => todo[Ssr] = <<>>
    BY <1>2 DEF Serial, Streaming, Allowed, Ordered, Counted
<1>5. ASSUME op \notin Streaming, NEW d \in Client, d # c
      PROVE  call[d] \in Streaming
    BY <1>2, <1>5 DEF Serial, Streaming, Unpaused
<1>6. \A u \in Thread : Acting(u)' => Acting(u) \/ (u = c /\ op \notin Streaming)
    BY <1>1, <1>3 DEF Acting, Thread
<1>7. op \notin Streaming => \A u \in Thread : u # c => ~Acting(u)
    BY <1>4, <1>5 DEF Acting, Thread
<1>8. \A d \in Client : call'[d] = "open" => view' \in {"none", "failed"}
  <2>1. SUFFICES ASSUME NEW d \in Client, call'[d] = "open"
                 PROVE  view' \in {"none", "failed"}
      OBVIOUS
  <2>2. CASE d = c
      BY <1>2, <1>3, <2>1, <2>2 DEF Allowed
  <2>3. CASE d # c
    <3>1. op \in Streaming
        BY <1>3, <1>5, <2>1, <2>3 DEF Streaming
    <3>. QED
        BY <1>2, <1>3, <2>1, <2>3, <3>1 DEF Ordered, Streaming
  <2>. QED
      BY <2>2, <2>3
<1>9. view' # "dead"
    BY <1>2, <1>3 DEF Allowed, CallName
<1>10. todo'[Ssr] # <<>> => Counted'
    BY <1>1, <1>2 DEF Ordered, Counted
<1>. QED
    BY <1>6, <1>7, <1>8, <1>9, <1>10 DEF Ordered

LEMMA Ordered_Take ==
    ASSUME Typed, Ordered, Unpaused, Serial, SsrTake
    PROVE  Ordered'
<1>1. UNCHANGED <<call, view>>
    BY DEF SsrTake, clientVars
<1>2. CASE todo'[Ssr] = <<>>
    BY <1>1, <1>2 DEF Ordered, Acting, Counted
<1>3. CASE Counted
  <2>1. \A c \in Client : call[c] \in Streaming
      BY <1>3 DEF SsrTake, Serial, Streaming, Ordered, Counted
  <2>2. \A t \in Thread : t # Ssr => ~Acting(t)'
      BY <1>1, <2>1 DEF Acting, Thread
  <2>. QED
      BY <1>1, <1>3, <2>2 DEF Ordered, Counted
<1>. QED
    BY <1>2, <1>3, TakeMoves

LEMMA OrderedNext ==
    ASSUME Typed, Ordered, Unpaused, Serial, [Next]_vars
    PROVE  Ordered'
<1>1. CASE \E t \in Thread : Method(t)
    BY <1>1, Ordered_Method
<1>2. ASSUME NEW c \in Client,
             \/ Resume(c) \/ Write(c) \/ WriteNetReset(c) \/ WriteResumed(c)
             \/ WriteRegister(c) \/ WriteStarted(c) \/ Read(c) \/ SetCachedState(c)
      PROVE  Ordered'
  <2>1. todo'[Ssr] = todo[Ssr] /\ UNCHANGED <<call, view>>
      BY <1>2, ClientMoves DEF Resume, Write, WriteNetReset, WriteResumed, WriteRegister,
                               WriteStarted, Read, SetCachedState, clientVars
  <2>. QED
      BY <2>1 DEF Ordered, Acting, Counted
<1>3. CASE SsrDown \/ SsrDownExit \/ SsrUp \/ SsrUpStart \/ SsrUpPause \/ SsrUpExit
  <2>1. todo[Ssr] # <<>> /\ UNCHANGED <<call, view>>
      BY <1>3 DEF SsrDown, SsrDownExit, SsrUp, SsrUpStart, SsrUpPause, SsrUpExit, At,
         clientVars
  <2>2. \A t \in Thread : Acting(t)' => Acting(t)
      BY <2>1 DEF Acting
  <2>. QED
      BY <2>1, <2>2 DEF Ordered, Counted
<1>4. CASE CardChange \/ MonitorPost \/ MonitorDiscard \/ UNCHANGED vars
  <2>1. UNCHANGED <<call, view, todo>>
      BY <1>4 DEF CardChange, MonitorPost, MonitorDiscard, vars, clientVars
  <2>. QED
      BY <2>1 DEF Ordered, Acting, Counted
<1>. QED
    BY <1>1, <1>2, <1>3, <1>4, Ordered_CallDone, Ordered_CloseDone, Ordered_Call,
       Ordered_Take
       DEF Next, ClientStep, SsrStep, Thread

LEMMA OrderedAlways == ASSUME Serial PROVE Spec => []Ordered
<1>1. Init => Ordered
  <2>1. SUFFICES ASSUME Init PROVE Ordered
      OBVIOUS
  <2>2. /\ \A c \in Client : call[c] = "none"
        /\ todo[Ssr] = <<>> /\ view = "none"
      BY <2>1 DEF Init, Thread
  <2>. QED
      BY <2>2 DEF Ordered, Acting, Streaming, Thread
<1>2. NobodyPauses
    BY DEF Serial
<1>3. Spec => []Unpaused
    BY <1>2, UnpausedAlways
<1>4. Typed /\ Unpaused /\ Ordered /\ [Next]_vars => Ordered'
    BY OrderedNext
<1>. QED
    BY <1>1, <1>3, <1>4, TypedAlways, PTL DEF Spec

-----------------------------------------------------------------------------
(* The session, the devices and the registration agree with the state.       *)

(* A failing call leaves no device half way: a device that fails to open, or *)
(* an input that fails to start, is alone.                                   *)
FailsClean ==
    /\ OpensClean
    /\ "device start" \in Faults =>
          \A a \in Attributes :
             /\ a.direction = "in" => Single(a.devices)
             /\ a.direction = "loop" => /\ Single(a.devices \cap RxDevice)
                                        /\ Single(a.devices \cap TxDevice)

StopFirst ==
    {Three("stop", "close_locked", "down_exit"), Three("stop", "close_locked", "destroy")}

(* What thread t has seen of the state, and nobody has changed since.        *)
Ready(t) ==
    /\ At(t, "stop_locked") \/ At(t, "start_register") \/ todo[t] \in StopFirst =>
          currentState = "STARTED"
    /\ At(t, "close_locked") => currentState = "STOPPED"
    /\ At(t, "down_exit") \/ At(t, "destroy") => currentState = "IDLE"

Registering == \E t \in Thread : At(t, "start_register")

Has(b) == Others + (IF b THEN 1 ELSE 0)

CountsAgree ==
    \A d \in Dev :
       /\ deviceCount[d] = Has(d \in mDevices /\ session # "closed")
       /\ deviceStartStopCount[d] = Has(d \in mDevices /\ session = "started")

Agrees ==
    /\ currentState = "IDLE" <=> session = "closed"
    /\ currentState = "STARTED" <=> session = "started"
    /\ mDevices \subseteq mStreamAttr.devices
    /\ CountsAgree
    /\ registered = IF session = "started" /\ ~Registering THEN mDevices ELSE {}
    /\ view = "dead" => currentState = "IDLE"

AgreeInv == Agrees /\ \A t \in Thread : Ready(t)

(* The labels that say something of the state.                               *)
Telling == {"stop_locked", "start_register", "close_locked", "down_exit", "destroy"}

LEMMA NothingTold ==
    ASSUME NEW t \in Thread, todo[t] = <<>> \/ First(todo[t]) \notin Telling,
           todo[t] \notin StopFirst
    PROVE  Ready(t) /\ ~At(t, "start_register")
BY AtFirst DEF Ready, Telling

LEMMA StreamingTold ==
    ASSUME Typed, NEW t \in Thread, ~Acting(t)
    PROVE  (todo[t] = <<>> \/ First(todo[t]) \notin Telling) /\ todo[t] \notin StopFirst
<1>1. CASE t = Ssr
    BY <1>1, Sequences DEF Acting, StopFirst
<1>2. CASE t # Ssr
    BY <1>2, LeftIs, StreamingLabels, Firsts, Sequences DEF Acting, Left, Telling, StopFirst
<1>. QED
    BY <1>1, <1>2

(* A method that returns.                                                    *)
LEMMA ReturnLabels ==
    ASSUME NEW t, NEW p \in Left(t), t # Ssr => call[t] \in CallName \cup {"none"},
           p # <<>>, First(p) \in MethodLabels
    PROVE  /\ Rest(p) \notin StopFirst
           /\ Rest(p) # <<>> =>
                /\ First(Rest(p)) \notin {"stop_locked", "start_register"}
                /\ First(Rest(p)) = "close_locked" =>
                      First(p) = "stop_locked" \/ p \in StopFirst
                /\ First(Rest(p)) \in {"down_exit", "destroy"} =>
                      First(p) \in {"close", "close_locked"}
<1>1. CASE t = Ssr
  <2>1. p \in Rounds
      BY <1>1 DEF Left
  <2>2. Rest(p) \notin StopFirst
      BY <2>1, Firsts, Rests, Sequences
         DEF Rounds, UpPrograms, DownPrograms, Closing, StopFirst, MethodLabels
  <2>3. Rest(p) # <<>> => First(Rest(p)) \notin {"stop_locked", "start_register"}
      BY <2>1, Firsts, Rests
         DEF Rounds, UpPrograms, DownPrograms, Closing, MethodLabels
  <2>4. Rest(p) # <<>> /\ First(Rest(p)) = "close_locked" =>
           First(p) = "stop_locked" \/ p \in StopFirst
      BY <2>1, Firsts, Rests
         DEF Rounds, UpPrograms, DownPrograms, Closing, StopFirst
  <2>5. Rest(p) # <<>> /\ First(Rest(p)) \in {"down_exit", "destroy"} =>
           First(p) \in {"close", "close_locked"}
      BY <2>1, Firsts, Rests
         DEF Rounds, UpPrograms, DownPrograms, Closing, MethodLabels
  <2>. QED
      BY <2>2, <2>3, <2>4, <2>5
<1>2. CASE t # Ssr
  <2>1. PICK op \in CallName \cup {"none"} : p \in Programs(op)
      BY <1>2 DEF Left
  <2>2. Rest(p) \notin StopFirst
      BY <2>1, Firsts, Rests, Sequences DEF Programs, CallName, Closing, StopFirst,
         MethodLabels
  <2>3. Rest(p) # <<>> => First(Rest(p)) \notin {"stop_locked", "start_register"}
      BY <2>1, Firsts, Rests DEF Programs, CallName, Closing, MethodLabels
  <2>4. Rest(p) # <<>> /\ First(Rest(p)) = "close_locked" =>
           First(p) = "stop_locked" \/ p \in StopFirst
      BY <2>1, Firsts, Rests DEF Programs, CallName, Closing, StopFirst
  <2>5. Rest(p) # <<>> /\ First(Rest(p)) \in {"down_exit", "destroy"} =>
           First(p) \in {"close", "close_locked"}
      BY <2>1, Firsts, Rests DEF Programs, CallName, Closing, MethodLabels
  <2>. QED
      BY <2>2, <2>3, <2>4, <2>5
<1>. QED
    BY <1>1, <1>2

LEMMA PushedLabels ==
    ASSUME NEW t, NEW p \in Left(t), t # Ssr => call[t] \in CallName \cup {"none"}, p # <<>>
    PROVE  /\ First(Push("start_register", p)) = "start_register"
           /\ First(Push("stop_locked", p)) = "stop_locked"
           /\ PushTwo("stop", "close_locked", p) # <<>>
           /\ First(PushTwo("stop", "close_locked", p)) = "stop"
<1>1. CASE t = Ssr
    BY <1>1, LabelsOfRound DEF Left, PushTwo
<1>2. CASE t # Ssr
  <2>1. /\ First(Push("start_register", p)) = "start_register"
        /\ First(Push("stop_locked", p)) = "stop_locked"
      BY <1>2, Firsts, Pushes DEF Left, Programs, Closing, CallName
  <2>2. /\ PushTwo("stop", "close_locked", p) # <<>>
        /\ First(PushTwo("stop", "close_locked", p)) = "stop"
      BY DEF PushTwo, First
  <2>. QED
      BY <2>1, <2>2
<1>. QED
    BY <1>1, <1>2

LEMMA ReadyReturn ==
    ASSUME Typed, NEW t \in Thread, todo[t] # <<>>, First(todo[t]) \in MethodLabels,
           Goes(t, Rest(todo[t]))
    PROVE  /\ ~At(t, "start_register")'
           /\ /\ First(todo[t]) = "stop_locked" \/ todo[t] \in StopFirst =>
                    currentState' = "STOPPED"
              /\ First(todo[t]) \in {"close", "close_locked"} => currentState' = "IDLE"
              => Ready(t)'
<1>1. todo'[t] = Rest(todo[t])
    BY GoesTo
<1>2. /\ Rest(todo[t]) \notin StopFirst
      /\ Rest(todo[t]) # <<>> =>
            /\ First(Rest(todo[t])) \notin {"stop_locked", "start_register"}
            /\ First(Rest(todo[t])) = "close_locked" =>
                  First(todo[t]) = "stop_locked" \/ todo[t] \in StopFirst
            /\ First(Rest(todo[t])) \in {"down_exit", "destroy"} =>
                  First(todo[t]) \in {"close", "close_locked"}
    BY LeftIs, ReturnLabels
<1>3. \A l : At(t, l)' <=> Rest(todo[t]) # <<>> /\ First(Rest(todo[t])) = l
    BY <1>1 DEF At, First
<1>. QED
    BY <1>1, <1>2, <1>3 DEF Ready

LEMMA ReadyPushed ==
    ASSUME Typed, NEW t \in Thread, todo[t] # <<>>, currentState' = "STARTED"
    PROVE  /\ Goes(t, Push("start_register", todo[t])) => Ready(t)' /\ At(t, "start_register")'
           /\ Goes(t, Push("stop_locked", todo[t])) => Ready(t)' /\ ~At(t, "start_register")'
           /\ Goes(t, PushTwo("stop", "close_locked", todo[t])) =>
                 Ready(t)' /\ ~At(t, "start_register")'
<1>1. /\ First(Push("start_register", todo[t])) = "start_register"
      /\ First(Push("stop_locked", todo[t])) = "stop_locked"
      /\ PushTwo("stop", "close_locked", todo[t]) # <<>>
      /\ First(PushTwo("stop", "close_locked", todo[t])) = "stop"
    BY LeftIs, PushedLabels
<1>2. Push("start_register", todo[t]) # <<>>
    BY DEF Push
<1>3. ASSUME NEW p, Goes(t, p)
      PROVE  todo'[t] = p /\ \A l : At(t, l)' <=> p # <<>> /\ First(p) = l
  <2>1. todo'[t] = p
      BY <1>3, GoesTo
  <2>. QED
      BY <2>1 DEF At, First
<1>4. CASE Goes(t, Push("start_register", todo[t]))
    BY <1>1, <1>2, <1>3, <1>4 DEF Ready
<1>5. CASE Goes(t, Push("stop_locked", todo[t]))
    BY <1>1, <1>3, <1>5 DEF Ready
<1>6. CASE Goes(t, PushTwo("stop", "close_locked", todo[t]))
    BY <1>1, <1>3, <1>6 DEF Ready
<1>. QED
    BY <1>1, <1>2, <1>3, <1>4, <1>5, <1>6 DEF Ready

(* While thread t is in a method nobody else is.                             *)
LEMMA MethodContext ==
    ASSUME Typed, Ordered, NEW t \in Thread, Method(t)
    PROVE  /\ \A u \in Thread : u # t => Ready(u)'
           /\ Registering <=> At(t, "start_register")
           /\ Registering' <=> At(t, "start_register")'
           /\ view # "dead" /\ UNCHANGED <<view, mStreamAttr>>
<1>1. Acting(t) /\ \A u \in Thread : u # t => todo'[u] = todo[u] /\ ~Acting(u)
    BY Ordered_Method
<1>2. ASSUME NEW u \in Thread, u # t
      PROVE  Ready(u)' /\ ~At(u, "start_register") /\ ~At(u, "start_register")'
  <2>1. /\ todo'[u] = todo[u]
        /\ (todo[u] = <<>> \/ First(todo[u]) \notin Telling) /\ todo[u] \notin StopFirst
      BY <1>1, <1>2, StreamingTold
  <2>2. \A l \in Telling : ~At(u, l) /\ ~At(u, l)'
      BY <2>1 DEF At, First
  <2>. QED
      BY <2>1, <2>2 DEF Ready, Telling
<1>3. view # "dead" /\ UNCHANGED clientVars
    BY <1>1, MethodMoves DEF Ordered
<1>. QED
    BY <1>2, <1>3 DEF Registering, clientVars

(* The references, and a close of some devices of a session that is open.    *)
LEMMA HasIs ==
    /\ Has(FALSE) = Others /\ Has(TRUE) = Others + 1
    /\ \A b \in BOOLEAN : Has(b) \in Nat /\ Has(b) >= Others
BY StreamAssumption DEF Has

LEMMA LosesSome ==
    ASSUME Typed, CountsAgree, session = "open", NEW F \in SUBSET mDevices, closeDevices(F)
    PROVE  \A d \in Dev : /\ deviceCount'[d] = Has(d \in mDevices \ F)
                          /\ deviceStartStopCount'[d] = Others
<1>1. SUFFICES ASSUME NEW d \in Dev
               PROVE  /\ deviceCount'[d] = Has(d \in mDevices \ F)
                      /\ deviceStartStopCount'[d] = Others
    OBVIOUS
<1>2. deviceCount[d] = Has(d \in mDevices) /\ deviceStartStopCount[d] = Others
    BY StreamAssumption DEF CountsAgree, Has
<1>3. /\ deviceCount'[d] = IF d \in F /\ deviceCount[d] > 0 THEN deviceCount[d] - 1
                                                           ELSE deviceCount[d]
      /\ deviceStartStopCount'[d] =
            IF d \in F /\ deviceCount[d] = 1 THEN 0 ELSE deviceStartStopCount[d]
    BY DEF closeDevices, Lower
<1>4. CASE d \in F
  <2>1. deviceCount[d] = Others + 1 /\ Has(d \in mDevices \ F) = Others
      BY <1>2, <1>4, StreamAssumption DEF Has
  <2>2. deviceCount'[d] = Others
      BY <1>3, <1>4, <2>1, StreamAssumption
  <2>3. deviceStartStopCount'[d] = Others
      BY <1>2, <1>3, <1>4, <2>1, StreamAssumption
  <2>. QED
      BY <2>1, <2>2, <2>3
<1>5. CASE d \notin F
    BY <1>2, <1>3, <1>5 DEF Has
<1>. QED
    BY <1>4, <1>5

(* A raise of a part of the devices that one device makes up is none.        *)
LEMMA RaiseNone ==
    ASSUME NEW f \in [Dev -> Nat], NEW D, Single(D), NEW P \in ProperPart(D)
    PROVE  Raise(f, P) = f
<1>1. P = {}
    BY OnePart
<1>. QED
    BY <1>1 DEF Raise

(* A session that is neither closed nor running is open.                     *)
LEMMA OpenWhen ==
    ASSUME Typed, Unpaused, Agrees, currentState \in {"INIT", "STOPPED"}
    PROVE  session = "open"
BY DEF Typed, Fields, Unpaused, Agrees

(* A method that changes nothing but the program of its thread.              *)
LEMMA AgreeSame ==
    ASSUME Agrees, UNCHANGED <<currentState, session, mDevices, mStreamAttr, deviceCount,
                               deviceStartStopCount, registered, view>>,
           Registering' <=> Registering
    PROVE  Agrees'
BY DEF Agrees, CountsAgree

LEMMA Agree_Returns ==
    ASSUME Typed, Ordered, AgreeInv, NEW t \in Thread,
           \/ OpenRefused(t) \/ OpenSessionFails(t) \/ StartRefused(t) \/ StartCached(t)
    PROVE  AgreeInv'
<1>1. Method(t)
    BY DEF Method, Open, Start
<1>2. /\ todo[t] # <<>> /\ First(todo[t]) \in {"open", "start"} /\ Goes(t, Rest(todo[t]))
      /\ ~At(t, "start_register")
    BY AtFirst, ThenGoes DEF OpenRefused, OpenSessionFails, StartRefused, StartCached
<1>3. Ready(t)' /\ ~At(t, "start_register")'
    BY <1>2, ReadyReturn, Firsts DEF MethodLabels, StopFirst
<1>4. UNCHANGED <<currentState, session, mDevices, mStreamAttr, deviceCount,
                  deviceStartStopCount, registered, view>>
    BY DEF OpenRefused, OpenSessionFails, StartRefused, StartCached, streamVars,
       lowerVars,
           clientVars
<1>. QED
    BY <1>1, <1>2, <1>3, <1>4, MethodContext, AgreeSame DEF AgreeInv

LEMMA Agree_OpenRun ==
    ASSUME Typed, Ordered, AgreeInv, NEW t \in Thread, OpenRun(t)
    PROVE  AgreeInv'
<1>1. Method(t)
    BY DEF Method, Open
<1>2. /\ todo[t] # <<>> /\ First(todo[t]) = "open" /\ Goes(t, Rest(todo[t]))
      /\ ~At(t, "start_register")
    BY AtFirst, ThenGoes DEF OpenRun
<1>3. Ready(t)' /\ ~At(t, "start_register")'
    BY <1>2, ReadyReturn, Firsts DEF MethodLabels, StopFirst
<1>4. CountsAgree'
  <2>1. /\ session = "closed" /\ session' = "open" /\ mDevices' = mDevices
        /\ deviceCount' = Raise(deviceCount, mDevices)
        /\ deviceStartStopCount' = deviceStartStopCount
      BY DEF OpenRun, AgreeInv, Agrees
  <2>2. \A d \in Dev : deviceCount[d] = Others /\ deviceStartStopCount[d] = Others
      BY <2>1, StreamAssumption DEF AgreeInv, Agrees, CountsAgree, Has
  <2>3. \A d \in Dev : deviceCount'[d] = IF d \in mDevices THEN Others + 1 ELSE Others
      BY <2>1, <2>2 DEF Raise
  <2>. QED
      BY <2>1, <2>2, <2>3, StreamAssumption DEF CountsAgree, Has
<1>5. Agrees'
    BY <1>1, <1>4, MethodContext DEF OpenRun, AgreeInv, Agrees, clientVars
<1>. QED
    BY <1>1, <1>3, <1>5, MethodContext DEF AgreeInv

LEMMA Agree_OpenDeviceFails ==
    ASSUME Typed, Ordered, AgreeInv, FailsClean, NEW t \in Thread, OpenDeviceFails(t)
    PROVE  AgreeInv'
<1>1. Method(t)
    BY DEF Method, Open
<1>2. /\ todo[t] # <<>> /\ First(todo[t]) = "open" /\ Goes(t, Rest(todo[t]))
      /\ ~At(t, "start_register")
    BY AtFirst, ThenGoes DEF OpenDeviceFails
<1>3. Ready(t)' /\ ~At(t, "start_register")'
    BY <1>2, ReadyReturn, Firsts DEF MethodLabels, StopFirst
<1>4. deviceCount' = deviceCount
  <2>1. Single(mDevices)
      BY DEF OpenDeviceFails, FailsClean, OpensClean, AgreeInv, Agrees, Typed, Fields,
         Single
  <2>. QED
      BY <2>1, RaiseNone DEF OpenDeviceFails, Typed, Fields
<1>5. UNCHANGED <<currentState, session, mDevices, mStreamAttr,
                  deviceStartStopCount, registered, view>>
    BY DEF OpenDeviceFails, streamVars, clientVars
<1>. QED
    BY <1>1, <1>2, <1>3, <1>4, <1>5, MethodContext, AgreeSame DEF AgreeInv

(* The devices that a start loses on the way.                                *)
LEMMA Agree_Lost ==
    ASSUME Typed, Unpaused, Agrees, NEW t \in Thread, Starting(t),
           NEW F \in SUBSET mDevices, closeDevices(F), mDevices' = mDevices \ F,
           UNCHANGED <<currentState, session, mStreamAttr, registered, view>>,
           Registering' <=> Registering
    PROVE  Agrees'
<1>1. session = "open"
    BY OpenWhen DEF Starting
<1>2. CountsAgree'
  <2>1. \A d \in Dev : /\ deviceCount'[d] = Has(d \in mDevices')
                        /\ deviceStartStopCount'[d] = Others
      BY <1>1, LosesSome DEF Agrees
  <2>2. session' = "open"
      BY <1>1
  <2>. QED
      BY <2>1, <2>2, StreamAssumption DEF CountsAgree, Has
<1>. QED
    BY <1>1, <1>2 DEF Agrees

LEMMA Agree_StartDevicesFail ==
    ASSUME Typed, Ordered, Unpaused, AgreeInv, FailsClean, NEW t \in Thread,
           StartDevicesFail(t)
    PROVE  AgreeInv'
<1>1. Method(t)
    BY DEF Method, Start
<1>2. /\ todo[t] # <<>> /\ First(todo[t]) = "start" /\ Goes(t, Rest(todo[t]))
      /\ ~At(t, "start_register") /\ Starting(t)
    BY AtFirst, ThenGoes DEF StartDevicesFail, Starting
<1>3. Ready(t)' /\ ~At(t, "start_register")'
    BY <1>2, ReadyReturn, Firsts DEF MethodLabels, StopFirst
<1>4. /\ UNCHANGED <<currentState, session, mStreamAttr, registered, view>>
      /\ Registering' <=> Registering
    BY <1>1, <1>2, <1>3, MethodContext DEF StartDevicesFail, streamVars
<1>5. CASE closeDevices(mDevices) /\ mDevices' = {}
  <2>1. mDevices' = mDevices \ mDevices
      BY <1>5
  <2>2. Agrees'
      BY <1>2, <1>4, <1>5, <2>1, Agree_Lost DEF AgreeInv
  <2>. QED
      BY <1>1, <1>3, <2>2, MethodContext DEF AgreeInv
<1>6. CASE ~(closeDevices(mDevices) /\ mDevices' = {})
  <2>1. /\ UNCHANGED <<mDevices, deviceCount>>
        /\ "device start" \in Faults
        /\ mStreamAttr.direction \in {"in", "loop"}
        /\ \E D \in IF mStreamAttr.direction = "in"
                       THEN ProperPart(mDevices)
                       ELSE ProperPart(mDevices \cap RxDevice)
                              \cup ProperPart(mDevices \cap TxDevice) :
              deviceStartStopCount' = Raise(deviceStartStopCount, D)
      BY <1>6 DEF StartDevicesFail
  <2>2. mDevices \subseteq mStreamAttr.devices /\ mStreamAttr \in Attributes
      BY DEF AgreeInv, Agrees, Typed, Fields
  <2>3. CASE mStreamAttr.direction = "in"
    <3>1. Single(mDevices)
        BY <2>1, <2>2, <2>3 DEF FailsClean, Single
    <3>. QED
        BY <2>1, <2>3, <3>1, RaiseNone, <1>1, <1>3, <1>4, MethodContext, AgreeSame
           DEF AgreeInv, Typed, Fields
  <2>4. CASE mStreamAttr.direction = "loop"
    <3>1. Single(mDevices \cap RxDevice) /\ Single(mDevices \cap TxDevice)
        BY <2>1, <2>2, <2>4 DEF FailsClean, Single
    <3>2. deviceStartStopCount' = deviceStartStopCount
      <4>1. PICK D \in ProperPart(mDevices \cap RxDevice)
                         \cup ProperPart(mDevices \cap TxDevice) :
               deviceStartStopCount' = Raise(deviceStartStopCount, D)
          BY <2>1, <2>4
      <4>. QED
          BY <3>1, <4>1, RaiseNone DEF Typed, Fields
    <3>. QED
        BY <2>1, <3>2, <1>1, <1>3, <1>4, MethodContext, AgreeSame DEF AgreeInv
  <2>. QED
      BY <2>1, <2>3, <2>4
<1>. QED
    BY <1>5, <1>6

LEMMA Agree_StartLost ==
    ASSUME Typed, Ordered, Unpaused, AgreeInv, NEW t \in Thread,
           StartSessionFails(t) \/ StartNetReset(t)
    PROVE  AgreeInv'
<1>1. Method(t)
    BY DEF Method, Start
<1>2. /\ todo[t] # <<>> /\ First(todo[t]) = "start" /\ Goes(t, Rest(todo[t]))
      /\ ~At(t, "start_register") /\ Starting(t)
    BY AtFirst, ThenGoes DEF StartSessionFails, StartNetReset, Starting
<1>3. Ready(t)' /\ ~At(t, "start_register")'
    BY <1>2, ReadyReturn, Firsts DEF MethodLabels, StopFirst
<1>4. /\ UNCHANGED <<currentState, session, mStreamAttr, registered, view>>
      /\ Registering' <=> Registering
    BY <1>1, <1>2, <1>3, MethodContext DEF StartSessionFails, StartNetReset, streamVars
<1>5. PICK F \in SUBSET mDevices : closeDevices(F) /\ mDevices' = mDevices \ F
    BY DEF StartSessionFails, StartNetReset, Losses, ProperPart
<1>6. Agrees'
    BY <1>2, <1>4, <1>5, Agree_Lost DEF AgreeInv
<1>. QED
    BY <1>1, <1>3, <1>6, MethodContext DEF AgreeInv

LEMMA Agree_StartRun ==
    ASSUME Typed, Ordered, Unpaused, AgreeInv, NEW t \in Thread, StartRun(t)
    PROVE  AgreeInv'
<1>1. Method(t)
    BY DEF Method, Start
<1>2. /\ todo[t] # <<>> /\ First(todo[t]) = "start"
      /\ Goes(t, Push("start_register", todo[t]))
      /\ ~At(t, "start_register") /\ Starting(t)
    BY AtFirst, ThenGoes DEF StartRun, Starting
<1>3. /\ currentState' = "STARTED" /\ session' = "started" /\ session = "open"
      /\ registered' = registered /\ registered = {}
    BY <1>2, OpenWhen DEF StartRun, Starting, AgreeInv, Agrees
<1>4. Ready(t)' /\ At(t, "start_register")'
    BY <1>2, <1>3, ReadyPushed
<1>5. PICK F \in SUBSET mDevices :
         /\ mDevices' = mDevices \ F
         /\ deviceCount' = Lower(deviceCount, F)
         /\ deviceStartStopCount' =
               [d \in Dev |-> IF d \in F /\ deviceCount[d] = 1 THEN 0
                              ELSE Raise(deviceStartStopCount, mDevices \ F)[d]]
    BY DEF StartRun, Losses, ProperPart
<1>6. CountsAgree'
  <2>1. SUFFICES ASSUME NEW d \in Dev
                 PROVE  /\ deviceCount'[d] = Has(d \in mDevices \ F)
                        /\ deviceStartStopCount'[d] = Has(d \in mDevices \ F)
      BY <1>3, <1>5 DEF CountsAgree, Has
  <2>2. /\ deviceCount[d] = Has(d \in mDevices)
        /\ deviceStartStopCount[d] = Others
      BY <1>3, StreamAssumption DEF AgreeInv, Agrees, CountsAgree, Has
  <2>3. /\ deviceCount'[d] = IF d \in F /\ deviceCount[d] > 0 THEN deviceCount[d] - 1
                                                             ELSE deviceCount[d]
        /\ deviceStartStopCount'[d] =
              IF d \in F /\ deviceCount[d] = 1 THEN 0
              ELSE IF d \in mDevices \ F THEN deviceStartStopCount[d] + 1
                                         ELSE deviceStartStopCount[d]
      BY <1>5 DEF Lower, Raise
  <2>4. CASE d \in F
    <3>1. deviceCount[d] = Others + 1
        BY <2>2, <2>4 DEF Has
    <3>2. deviceCount'[d] = Others
        BY <2>3, <2>4, <3>1, StreamAssumption
    <3>3. deviceStartStopCount'[d] = Others
        BY <2>2, <2>3, <2>4, <3>1, StreamAssumption
    <3>. QED
        BY <2>4, <3>2, <3>3, StreamAssumption DEF Has
  <2>5. CASE d \notin F
      BY <2>2, <2>3, <2>5, StreamAssumption DEF Has
  <2>. QED
      BY <2>4, <2>5
<1>7. Agrees'
    BY <1>1, <1>3, <1>4, <1>5, <1>6, MethodContext DEF AgreeInv, Agrees
<1>. QED
    BY <1>1, <1>4, <1>7, MethodContext DEF AgreeInv

LEMMA Agree_StartRegister ==
    ASSUME Typed, Ordered, AgreeInv, NEW t \in Thread, StartRegister(t)
    PROVE  AgreeInv'
<1>1. Method(t)
    BY DEF Method, Start
<1>2. /\ todo[t] # <<>> /\ First(todo[t]) = "start_register" /\ Goes(t, Rest(todo[t]))
      /\ At(t, "start_register")
    BY AtFirst, ThenGoes DEF StartRegister
<1>3. Ready(t)' /\ ~At(t, "start_register")'
    BY <1>2, ReadyReturn, Firsts DEF MethodLabels, StopFirst
<1>4. currentState = "STARTED" /\ session = "started"
    BY <1>2 DEF AgreeInv, Agrees, Ready
<1>5. UNCHANGED <<currentState, session, mDevices, deviceCount, deviceStartStopCount>>
      /\ registered' = registered \cup mDevices
    BY DEF StartRegister, streamVars
<1>6. registered = {} /\ ~Registering'
    BY <1>1, <1>2, <1>3, MethodContext DEF AgreeInv, Agrees
<1>7. Agrees'
    BY <1>1, <1>4, <1>5, <1>6, MethodContext DEF AgreeInv, Agrees, CountsAgree
<1>. QED
    BY <1>1, <1>3, <1>7, MethodContext DEF AgreeInv

LEMMA Agree_StopCheck ==
    ASSUME Typed, Ordered, Unpaused, AgreeInv, NEW t \in Thread, StopCheck(t)
    PROVE  AgreeInv'
<1>1. Method(t)
    BY DEF Method
<1>2. todo[t] # <<>> /\ First(todo[t]) = "stop" /\ ~At(t, "start_register")
    BY AtFirst DEF StopCheck
<1>3. UNCHANGED <<currentState, session, mDevices, mStreamAttr, deviceCount,
                  deviceStartStopCount, registered, view>>
    BY DEF StopCheck, streamVars, lowerVars, clientVars
<1>4. Ready(t)' /\ ~At(t, "start_register")'
  <2>1. CASE currentState = "STARTED"
      BY <1>2, <1>3, <2>1, ThenGoes, ReadyPushed DEF StopCheck
  <2>2. CASE currentState # "STARTED"
    <3>1. Goes(t, Rest(todo[t])) /\ todo[t] \notin StopFirst
        BY <2>2, ThenGoes DEF StopCheck, Unpaused, AgreeInv, Ready
    <3>. QED
        BY <1>2, <3>1, ReadyReturn DEF MethodLabels
  <2>. QED
      BY <2>1, <2>2
<1>. QED
    BY <1>1, <1>2, <1>3, <1>4, MethodContext, AgreeSame DEF AgreeInv

LEMMA Agree_StopRun ==
    ASSUME Typed, Ordered, AgreeInv, NEW t \in Thread, StopRun(t)
    PROVE  AgreeInv'
<1>1. Method(t)
    BY DEF Method
<1>2. /\ todo[t] # <<>> /\ First(todo[t]) = "stop_locked" /\ Goes(t, Rest(todo[t]))
      /\ ~At(t, "start_register") /\ At(t, "stop_locked")
    BY AtFirst, ThenGoes DEF StopRun
<1>3. session = "started"
    BY <1>2 DEF AgreeInv, Agrees, Ready
<1>4. /\ currentState' = "STOPPED" /\ session' = "open"
      /\ UNCHANGED <<mDevices, deviceCount>>
      /\ deviceStartStopCount' = Lower(deviceStartStopCount, mDevices)
      /\ registered' = registered \ mDevices
    BY <1>3 DEF StopRun
<1>5. Ready(t)' /\ ~At(t, "start_register")'
    BY <1>2, <1>4, ReadyReturn DEF MethodLabels
<1>6. registered = mDevices
    BY <1>1, <1>2, <1>3, MethodContext DEF AgreeInv, Agrees
<1>7. CountsAgree'
  <2>1. SUFFICES ASSUME NEW d \in Dev
                 PROVE  /\ deviceCount'[d] = Has(d \in mDevices)
                        /\ deviceStartStopCount'[d] = Others
      BY <1>4, StreamAssumption DEF CountsAgree, Has
  <2>2. /\ deviceCount[d] = Has(d \in mDevices)
        /\ deviceStartStopCount[d] = Has(d \in mDevices)
      BY <1>3 DEF AgreeInv, Agrees, CountsAgree, Has
  <2>3. deviceStartStopCount'[d] =
           IF d \in mDevices /\ deviceStartStopCount[d] > 0
              THEN deviceStartStopCount[d] - 1 ELSE deviceStartStopCount[d]
      BY <1>4 DEF Lower
  <2>. QED
      BY <1>4, <2>2, <2>3, StreamAssumption DEF Has
<1>8. Agrees'
    BY <1>1, <1>4, <1>6, <1>7, MethodContext DEF AgreeInv, Agrees
<1>. QED
    BY <1>1, <1>5, <1>8, MethodContext DEF AgreeInv

LEMMA Agree_CloseCheck ==
    ASSUME Typed, Ordered, Unpaused, AgreeInv, NEW t \in Thread, CloseCheck(t)
    PROVE  AgreeInv'
<1>1. Method(t)
    BY DEF Method
<1>2. todo[t] # <<>> /\ First(todo[t]) = "close" /\ ~At(t, "start_register")
    BY AtFirst DEF CloseCheck
<1>3. UNCHANGED <<currentState, session, mDevices, mStreamAttr, deviceCount,
                  deviceStartStopCount, registered, view>>
    BY DEF CloseCheck, streamVars, lowerVars, clientVars
<1>4. Ready(t)' /\ ~At(t, "start_register")'
  <2>1. CASE currentState = "IDLE"
      BY <1>2, <1>3, <2>1, ThenGoes, ReadyReturn, Firsts
         DEF CloseCheck, MethodLabels, StopFirst
  <2>2. CASE currentState = "STARTED"
      BY <1>2, <1>3, <2>2, ThenGoes, ReadyPushed DEF CloseCheck
  <2>. QED
      BY <2>1, <2>2 DEF CloseCheck, Unpaused
<1>. QED
    BY <1>1, <1>2, <1>3, <1>4, MethodContext, AgreeSame DEF AgreeInv

LEMMA Agree_CloseRun ==
    ASSUME Typed, Ordered, Unpaused, AgreeInv, NEW t \in Thread, CloseRun(t)
    PROVE  AgreeInv'
<1>1. Method(t)
    BY DEF Method
<1>2. /\ todo[t] # <<>> /\ First(todo[t]) \in {"close", "close_locked"}
      /\ Goes(t, Rest(todo[t])) /\ ~At(t, "start_register")
    BY AtFirst, ThenGoes DEF CloseRun
<1>3. session = "open"
    BY OpenWhen DEF CloseRun, AgreeInv, Ready
<1>4. /\ currentState' = "IDLE" /\ session' = "closed" /\ closeDevices(mDevices)
      /\ UNCHANGED <<mDevices, registered>>
    BY DEF CloseRun
<1>5. Ready(t)' /\ ~At(t, "start_register")'
    BY <1>2, <1>4, ReadyReturn, Firsts DEF MethodLabels, StopFirst
<1>6. CountsAgree'
  <2>1. \A d \in Dev : deviceCount'[d] = Others /\ deviceStartStopCount'[d] = Others
      BY <1>3, <1>4, LosesSome, StreamAssumption DEF AgreeInv, Agrees, Has
  <2>. QED
      BY <1>4, <2>1, StreamAssumption DEF CountsAgree, Has
<1>7. Agrees'
    BY <1>1, <1>3, <1>4, <1>6, MethodContext DEF AgreeInv, Agrees
<1>. QED
    BY <1>1, <1>5, <1>7, MethodContext DEF AgreeInv

LEMMA Agree_Method ==
    ASSUME Typed, Ordered, Unpaused, AgreeInv, FailsClean, NEW t \in Thread, Method(t)
    PROVE  AgreeInv'
<1>1. ~Pause(t)
  <2>1. t # Ssr => t \in Client /\ call[t] \in CallName \cup {"none"} /\ todo[t] \in Left(t)
      BY LeftIs
  <2>2. todo[Ssr] \in Rounds
      BY DEF Typed, Programmed
  <2>3. todo[t] # <<>> => First(todo[t]) # "pause"
    <3>1. CASE t = Ssr
        BY <2>2, <3>1, PausesLater DEF Unpaused
    <3>2. CASE t # Ssr
        BY <2>1, <3>2, ResumesLater DEF Left, Unpaused
    <3>. QED
        BY <3>1, <3>2
  <2>. QED
      BY <2>3, AtFirst DEF Pause
<1>. QED
    BY <1>1, Agree_Returns, Agree_OpenRun, Agree_OpenDeviceFails, Agree_StartDevicesFail,
       Agree_StartLost, Agree_StartRun, Agree_StartRegister, Agree_StopCheck, Agree_StopRun,
       Agree_CloseCheck, Agree_CloseRun
       DEF Method, Open, Start

(* The other steps lead to no label that says something of the state.        *)
LEMMA AgreeElse ==
    ASSUME AgreeInv, NEW t \in Thread,
           UNCHANGED <<currentState, session, mDevices, mStreamAttr, deviceCount,
                       deviceStartStopCount, registered>>,
           view' = "dead" => view = "dead" \/ currentState = "IDLE",
           \A u \in Thread : u # t => todo'[u] = todo[u],
           ~At(t, "start_register"), ~At(t, "start_register")', Ready(t)'
    PROVE  AgreeInv'
<1>1. Registering' <=> Registering
    BY DEF Registering, At
<1>2. \A u \in Thread : Ready(u)'
    BY DEF AgreeInv, Ready, At
<1>. QED
    BY <1>1, <1>2 DEF AgreeInv, Agrees, CountsAgree

LEMMA ToldNothing ==
    ASSUME NEW t \in Thread, todo'[t] = <<>> \/ First(todo'[t]) \notin Telling,
           todo'[t] \notin StopFirst
    PROVE  Ready(t)' /\ ~At(t, "start_register")'
<1>1. \A l \in Telling : ~At(t, l)'
    BY DEF At, First
<1>. QED
    BY <1>1 DEF Ready, Telling

LEMMA ClientLabels ==
    ASSUME NEW op \in CallName \cup {"none"}, NEW p \in Programs(op), p # <<>>
    PROVE  /\ First(p) \in {"write", "write_netreset", "write_resumed", "read", "set_stopped",
                            "set_idle", "return", "destroy"} =>
                 /\ Rest(p) = <<>> \/ First(Rest(p)) \notin Telling
                 /\ Rest(p) \notin StopFirst
           /\ First(Push("write_resumed", p)) = "write_resumed"
           /\ First(Push("write_netreset", p)) = "write_netreset"
           /\ First(PushTwo("close", "destroy", p)) = "close"
<1>1. First(p) \in {"write", "write_netreset", "write_resumed", "read", "set_stopped",
                    "set_idle", "return", "destroy"} =>
         /\ Rest(p) = <<>> \/ First(Rest(p)) \notin Telling
    BY Firsts, Rests DEF Programs, CallName, Closing, Telling
<1>2. First(p) \in {"write", "write_netreset", "write_resumed", "read", "set_stopped",
                    "set_idle", "return", "destroy"} => Rest(p) \notin StopFirst
    BY SMTT(60), Firsts, Rests, Sequences DEF Programs, CallName, Closing, StopFirst
<1>3. /\ First(Push("write_resumed", p)) = "write_resumed"
      /\ First(Push("write_netreset", p)) = "write_netreset"
    BY Firsts, Pushes DEF Programs, Closing, CallName
<1>4. First(PushTwo("close", "destroy", p)) = "close"
    BY DEF PushTwo, First
<1>. QED
    BY <1>1, <1>2, <1>3, <1>4

LEMMA Agree_Client ==
    ASSUME Typed, Ordered, Unpaused, AgreeInv, NEW c \in Client,
           \/ Resume(c) \/ Write(c) \/ WriteNetReset(c) \/ WriteResumed(c)
           \/ WriteRegister(c) \/ WriteStarted(c) \/ Read(c) \/ SetCachedState(c)
           \/ CallDone(c) \/ CloseDone(c) \/ Call(c)
    PROVE  AgreeInv'
<1>1. /\ c \in Thread /\ c # Ssr
      /\ call[c] \in CallName \cup {"none"} /\ todo[c] \in Programs(call[c])
    BY LeftIs, StreamAssumption DEF Thread, Left
<1>2. ~Resume(c) /\ ~WriteRegister(c) /\ ~WriteStarted(c)
    BY <1>1, AtFirst, ResumesLater DEF Resume, WriteRegister, WriteStarted, Unpaused
<1>3. /\ UNCHANGED <<currentState, session, mDevices, mStreamAttr, deviceCount,
                     deviceStartStopCount, registered>>
      /\ \A u \in Thread : u # c => todo'[u] = todo[u]
    BY <1>2, ClientKeeps, ClientMoves
<1>4. view' = "dead" => view = "dead" \/ currentState = "IDLE"
  <2>1. CASE Write(c) \/ WriteNetReset(c) \/ WriteResumed(c) \/ Read(c) \/ SetCachedState(c)
      BY <2>1 DEF Write, WriteNetReset, WriteResumed, Read, SetCachedState, clientVars
  <2>2. CASE CloseDone(c)
      BY <1>1, <2>2 DEF CloseDone, AgreeInv, Ready
  <2>3. CASE CallDone(c)
    <3>1. call[c] # "close" /\ call[c] \in CallName
        BY <1>1, <2>3, AtFirst, LastOfProgram DEF CallDone
    <3>. QED
        BY <2>3, <3>1 DEF CallDone, Outcome, CallName
  <2>4. CASE Call(c)
      BY <2>4 DEF Call
  <2>. QED
      BY <1>2, <2>1, <2>2, <2>3, <2>4
<1>5. /\ ~At(c, "start_register")
      /\ todo'[c] = <<>> \/ First(todo'[c]) \notin Telling
      /\ todo'[c] \notin StopFirst
  <2>1. CASE Write(c) \/ WriteNetReset(c) \/ Read(c) \/ SetCachedState(c) \/ CloseDone(c)
    <3>1. /\ todo[c] # <<>> /\ ClientRest(c)
          /\ First(todo[c]) \in {"write", "write_netreset", "read", "set_stopped", "set_idle",
                                 "destroy"}
        BY <2>1, ClientGoes, AtFirst DEF Write, WriteNetReset, Read, SetCachedState,
           CloseDone
    <3>2. \/ todo'[c] = Rest(todo[c])
          \/ First(todo'[c]) \in {"write_resumed", "write_netreset"}
        BY <1>1, <3>1, GoesTo, ClientLabels DEF ClientRest
    <3>3. ~At(c, "start_register")
        BY <3>1, AtFirst
    <3>. QED
        BY <1>1, <3>1, <3>2, <3>3, ClientLabels, Firsts DEF Telling, StopFirst
  <2>2. CASE WriteResumed(c)
    <3>1. /\ Goes(c, Rest(todo[c])) /\ todo[c] # <<>> /\ First(todo[c]) = "write_resumed"
        BY <2>2, AtFirst, ThenGoes DEF WriteResumed, Unpaused
    <3>. QED
        BY <1>1, <3>1, GoesTo, ClientLabels, AtFirst
  <2>3. CASE CallDone(c)
    <3>1. /\ todo[c] # <<>> /\ First(todo[c]) = "return"
          /\ Goes(c, Rest(todo[c])) \/ Goes(c, PushTwo("close", "destroy", todo[c]))
        BY <2>3, AtFirst, ThenGoes DEF CallDone
    <3>2. todo'[c] = Rest(todo[c]) \/ First(todo'[c]) = "close"
        BY <1>1, <3>1, GoesTo, ClientLabels
    <3>3. ~At(c, "start_register")
        BY <3>1, AtFirst
    <3>. QED
        BY <1>1, <3>1, <3>2, <3>3, ClientLabels, Firsts DEF Telling, StopFirst
  <2>4. CASE Call(c)
    <3>1. PICK op \in CallName : todo' = [todo EXCEPT ![c] = Program(op)]
        BY <2>4, StreamAssumption DEF Call
    <3>2. /\ First(Program(op)) \notin Telling
          /\ First(Program(op)) = "stop" => FALSE
        BY DEF Program, First, CallName, Telling
    <3>3. todo'[c] = Program(op)
        BY <1>1, <3>1 DEF Typed, Programmed
    <3>4. call[c] = "none" /\ todo[c] = <<>>
        BY <1>1, <2>4 DEF Call, Programs
    <3>. QED
        BY <3>2, <3>3, <3>4, Firsts, AtFirst DEF StopFirst
  <2>. QED
      BY <1>2, <2>1, <2>2, <2>3, <2>4
<1>6. Ready(c)' /\ ~At(c, "start_register")'
    BY <1>1, <1>5, ToldNothing
<1>. QED
    BY <1>1, <1>3, <1>4, <1>5, <1>6, AgreeElse

LEMMA Agree_Ssr ==
    ASSUME Typed, Ordered, AgreeInv,
           SsrTake \/ SsrDown \/ SsrDownExit \/ SsrUp \/ SsrUpStart \/ SsrUpPause \/ SsrUpExit
    PROVE  AgreeInv'
<1>1. Ssr \in Thread
    BY DEF Thread
<1>2. /\ UNCHANGED <<currentState, session, mDevices, mStreamAttr, deviceCount,
                     deviceStartStopCount, registered, view>>
  <2>1. SsrDownExit => currentState = "IDLE"
      BY <1>1 DEF SsrDownExit, AgreeInv, Ready
  <2>. QED
      BY <2>1 DEF SsrTake, SsrDown, SsrDownExit, SsrUp, SsrUpStart, SsrUpPause, SsrUpExit,
                  clientVars, lowerVars, streamVars
<1>3. \A u \in Thread : u # Ssr => todo'[u] = todo[u]
    BY TakeMoves, DownMoves, ExitMoves, UpMoves DEF Thread
<1>4. ~At(Ssr, "start_register")
  <2>1. CASE SsrTake
      BY <2>1 DEF SsrTake, At
  <2>2. CASE ~SsrTake
      BY <2>2 DEF SsrDown, SsrDownExit, SsrUp, SsrUpStart, SsrUpPause, SsrUpExit, At
  <2>. QED
      BY <2>1, <2>2
<1>5. Ready(Ssr)' /\ ~At(Ssr, "start_register")'
  <2>1. CASE SsrDown /\ todo'[Ssr] = One("down_exit")
    <3>1. \A l : At(Ssr, l)' <=> l = "down_exit"
        BY <2>1, Firsts DEF At, First
    <3>2. todo'[Ssr] \notin StopFirst
        BY <2>1, Firsts DEF StopFirst
    <3>3. currentState = "IDLE"
      <4>1. todo[Ssr] = One("down")
          BY <2>1, SsrAtOne, AtFirst DEF SsrDown
      <4>2. \/ Goes(Ssr, Rest(todo[Ssr])) \/ currentState = "IDLE"
            \/ Goes(Ssr, PushTwo("close", "down_exit", todo[Ssr]))
            \/ Goes(Ssr, PushThree("stop", "close", "down_exit", todo[Ssr]))
          BY <2>1, ThenGoes DEF SsrDown, RoundEnd
      <4>. QED
          BY <1>1, <2>1, <4>1, <4>2, GoesTo, Rests, Pushes, Firsts
    <3>. QED
        BY <1>2, <3>1, <3>2, <3>3 DEF Ready
  <2>2. CASE ~(SsrDown /\ todo'[Ssr] = One("down_exit"))
    <3>1. \/ todo'[Ssr] \in {<<>>, One("down"), One("up"), Two("close", "down_exit"),
                             Three("stop", "close", "down_exit"), One("up_exit")}
          \/ \E x \in {"open", "start", "pause"} : \E y : todo'[Ssr] = Two(x, y)
        BY <2>2, TakeMoves, DownMoves, ExitMoves, UpMoves
    <3>2. todo'[Ssr] = <<>> \/ First(todo'[Ssr]) \notin Telling
        BY <3>1, Firsts DEF Telling
    <3>3. Three("stop", "close", "down_exit") \notin StopFirst
        BY Firsts, Rests DEF StopFirst
    <3>4. todo'[Ssr] \notin StopFirst
        BY <3>1, <3>3, Firsts DEF StopFirst
    <3>. QED
        BY <1>1, <3>2, <3>4, ToldNothing
  <2>. QED
      BY <2>1, <2>2
<1>. QED
    BY <1>1, <1>2, <1>3, <1>4, <1>5, AgreeElse

LEMMA AgreeNext ==
    ASSUME Typed, Ordered, Unpaused, AgreeInv, FailsClean, [Next]_vars
    PROVE  AgreeInv'
<1>1. ASSUME NEW c \in Client, Call(c) \/ ClientStep(c)
      PROVE  AgreeInv'
    BY <1>1, Agree_Method, Agree_Client DEF ClientStep, Thread
<1>2. ASSUME SsrStep
      PROVE  AgreeInv'
    BY <1>2, Agree_Method, Agree_Ssr DEF SsrStep, Thread
<1>3. CASE CardChange \/ MonitorPost \/ MonitorDiscard \/ UNCHANGED vars
  <2>1. UNCHANGED <<currentState, session, mDevices, mStreamAttr, deviceCount,
                    deviceStartStopCount, registered, view, todo>>
      BY <1>3 DEF CardChange, MonitorPost, MonitorDiscard, vars, streamVars, lowerVars,
                  clientVars
  <2>. QED
      BY <2>1 DEF AgreeInv, Agrees, CountsAgree, Ready, Registering, At
<1>. QED
    BY <1>1, <1>2, <1>3 DEF Next

LEMMA AgreeInit == Init => AgreeInv
<1>1. SUFFICES ASSUME Init PROVE AgreeInv
    OBVIOUS
<1>2. \A t \in Thread : Ready(t) /\ ~At(t, "start_register")
  <2>1. \A t \in Thread : todo[t] = <<>>
      BY <1>1 DEF Init
  <2>2. <<>> \notin StopFirst
      BY Sequences DEF StopFirst
  <2>. QED
      BY <2>1, <2>2 DEF Ready, At
<1>3. CountsAgree
    BY <1>1, StreamAssumption DEF Init, CountsAgree, Has
<1>. QED
    BY <1>1, <1>2, <1>3 DEF Init, AgreeInv, Agrees

LEMMA AgreeAlways == ASSUME Serial, FailsClean PROVE Spec => []AgreeInv
<1>1. NobodyPauses
    BY DEF Serial
<1>2. Spec => []Unpaused
    BY <1>1, UnpausedAlways
<1>3. Spec => []Ordered
    BY OrderedAlways
<1>4. Typed /\ Ordered /\ Unpaused /\ AgreeInv /\ [Next]_vars => AgreeInv'
    BY AgreeNext
<1>. QED
    BY <1>2, <1>3, <1>4, AgreeInit, TypedAlways, PTL DEF Spec

(* When nothing runs, the session, the references on the devices and the     *)
(* registration in active_devices agree with currentState, whichever steps   *)
(* of open, start, stop and close failed and however many rounds of the SSR  *)
(* worker came in between; a destroyed stream leaves nothing behind.  The    *)
(* hypotheses keep out what the code gets wrong: devices that a failed open  *)
(* or start keeps, pauses that bring back any state, and a control call in   *)
(* the middle of a round.                                                    *)
THEOREM AlwaysCoherent == ASSUME Serial, FailsClean PROVE Spec => []Coherent
<1>1. ASSUME Typed, AgreeInv, Unpaused PROVE Coherent
  <2>1. Quiet => ~Registering
      BY DEF Quiet, Registering, At
  <2>2. /\ currentState = "IDLE" <=> session = "closed"
        /\ currentState \in {"STARTED", "PAUSED"} <=> session \in {"started", "paused"}
        /\ Quiet => registered = IF session \in {"started", "paused"} THEN mDevices ELSE {}
      BY <1>1, <2>1 DEF AgreeInv, Agrees, Unpaused
  <2>3. \A d \in mDevices :
           /\ deviceCount[d] = Others + (IF session = "closed" THEN 0 ELSE 1)
           /\ deviceStartStopCount[d] =
                 Others + (IF session \in {"started", "paused"} THEN 1 ELSE 0)
      BY <1>1, StreamAssumption
         DEF AgreeInv, Agrees, CountsAgree, Has, Unpaused, Typed, Fields
  <2>4. view = "dead" =>
           /\ session = "closed" /\ registered = {}
           /\ \A d \in Dev : deviceCount[d] = Others /\ deviceStartStopCount[d] = Others
      BY <1>1, StreamAssumption DEF AgreeInv, Agrees, CountsAgree, Has
  <2>. QED
      BY <2>2, <2>3, <2>4 DEF Coherent
<1>2. NobodyPauses
    BY DEF Serial
<1>3. Spec => []Unpaused
    BY <1>2, UnpausedAlways
<1>. QED
    BY <1>1, <1>3, TypedAlways, AgreeAlways, PTL

(* The reference counts of a device belong to all its streams: in no state   *)
(* has this stream given up a reference of another, not even half way        *)
(* through a failing start or a close in an SSR round.                       *)
THEOREM OthersAlwaysUnharmed == ASSUME Serial, FailsClean PROVE Spec => []OthersUnharmed
<1>1. AgreeInv => OthersUnharmed
    BY StreamAssumption DEF AgreeInv, Agrees, CountsAgree, OthersUnharmed, Has
<1>. QED
    BY <1>1, AgreeAlways, PTL

-----------------------------------------------------------------------------
(* Where the worker is in a round, as one name for each program it may be    *)
(* left with; of a round for a card that is down only its start is told.     *)

Second(p) == First(Rest(p))

StageOf(p) ==
    IF p = <<>> THEN "none"
    ELSE IF First(p) = "down" THEN "down"
    ELSE IF First(p) \in DownLabels THEN "lowering"
    ELSE IF First(p) = "open"
         THEN IF Second(p) = "up_exit" THEN "open"
              ELSE IF Second(p) = "up_start" THEN "open_start" ELSE "open_paused"
    ELSE IF First(p) = "start"
         THEN IF Second(p) = "up_exit" THEN "start" ELSE "start_pause"
    ELSE IF First(p) = "start_register"
         THEN IF Second(p) = "up_exit" THEN "register" ELSE "register_pause"
    ELSE First(p)

Stage == StageOf(todo[Ssr])

Raising == {"up", "open", "open_start", "open_paused", "up_start", "up_start_paused",
            "start", "start_pause", "register", "register_pause", "up_pause", "pause",
            "up_exit"}

LEMMA Stages ==
    /\ StageOf(<<>>) = "none" /\ StageOf(One("down")) = "down" /\ StageOf(One("up")) = "up"
    /\ StageOf(Two("open", "up_exit")) = "open"
    /\ StageOf(Two("open", "up_start")) = "open_start"
    /\ StageOf(Two("open", "up_start_paused")) = "open_paused"
    /\ StageOf(One("up_start")) = "up_start"
    /\ StageOf(One("up_start_paused")) = "up_start_paused"
    /\ StageOf(Two("start", "up_exit")) = "start"
    /\ StageOf(Two("start", "up_pause")) = "start_pause"
    /\ StageOf(Two("start_register", "up_exit")) = "register"
    /\ StageOf(Two("start_register", "up_pause")) = "register_pause"
    /\ StageOf(One("up_pause")) = "up_pause"
    /\ StageOf(Two("pause", "up_exit")) = "pause"
    /\ StageOf(One("up_exit")) = "up_exit"
<1>1. ASSUME NEW x PROVE One(x) # <<>> /\ First(One(x)) = x
    BY Firsts
<1>2. ASSUME NEW x, NEW y
      PROVE  Two(x, y) # <<>> /\ First(Two(x, y)) = x /\ Second(Two(x, y)) = y
    BY Firsts, Rests DEF Second
<1>3. /\ StageOf(<<>>) = "none" /\ StageOf(One("down")) = "down" /\ StageOf(One("up")) = "up"
      /\ StageOf(One("up_start")) = "up_start" /\ StageOf(One("up_pause")) = "up_pause"
      /\ StageOf(One("up_start_paused")) = "up_start_paused"
      /\ StageOf(One("up_exit")) = "up_exit"
    BY <1>1 DEF StageOf, DownLabels
<1>4. /\ StageOf(Two("open", "up_exit")) = "open"
      /\ StageOf(Two("open", "up_start")) = "open_start"
      /\ StageOf(Two("open", "up_start_paused")) = "open_paused"
    BY <1>2 DEF StageOf, DownLabels
<1>5. /\ StageOf(Two("start", "up_exit")) = "start"
      /\ StageOf(Two("start", "up_pause")) = "start_pause"
      /\ StageOf(Two("start_register", "up_exit")) = "register"
      /\ StageOf(Two("start_register", "up_pause")) = "register_pause"
      /\ StageOf(Two("pause", "up_exit")) = "pause"
    BY <1>2 DEF StageOf, DownLabels
<1>. QED
    BY <1>3, <1>4, <1>5

LEMMA UpStages ==
    ASSUME Typed, todo[Ssr] # <<>>
    PROVE  /\ Stage # "none" /\ (Lowering <=> Stage \in {"down", "lowering"})
           /\ ~Lowering => todo[Ssr] \in UpPrograms /\ Stage \in Raising
           /\ Lowering => todo[Ssr] \in DownPrograms
<1>1. todo[Ssr] \in DownPrograms \cup UpPrograms
    BY DEF Typed, Programmed, Rounds
<1>2. ASSUME todo[Ssr] \in DownPrograms
      PROVE  Lowering /\ Stage \in {"down", "lowering"}
    BY <1>2, Firsts DEF DownPrograms, Closing, Lowering, DownLabels, Stage, StageOf
<1>3. ASSUME todo[Ssr] \in UpPrograms
      PROVE  Stage \in Raising
    BY <1>3, Stages DEF UpPrograms, Stage, Raising
<1>4. ASSUME todo[Ssr] \in UpPrograms
      PROVE  ~Lowering
    BY <1>4, Firsts DEF UpPrograms, Lowering, DownLabels
<1>. QED
    BY <1>1, <1>2, <1>3, <1>4 DEF Raising

LEMMA NoStage == ASSUME Typed PROVE Stage = "none" <=> todo[Ssr] = <<>>
BY UpStages, Stages DEF Stage

LEMMA RoundAt ==
    ASSUME Typed
    PROVE  /\ At(Ssr, "open") => todo[Ssr] \in {Two("open", "up_exit"), Two("open", "up_start"),
                                               Two("open", "up_start_paused")}
           /\ At(Ssr, "start") =>
                 todo[Ssr] \in {Two("start", "up_exit"), Two("start", "up_pause")}
           /\ At(Ssr, "start_register") =>
                 todo[Ssr] \in {Two("start_register", "up_exit"),
                                Two("start_register", "up_pause")}
           /\ At(Ssr, "pause") => todo[Ssr] = Two("pause", "up_exit")
<1>1. todo[Ssr] \in Rounds
    BY DEF Typed, Programmed
<1>2. At(Ssr, "open") => todo[Ssr] \in {Two("open", "up_exit"), Two("open", "up_start"),
                                        Two("open", "up_start_paused")}
    BY <1>1, AtFirst, Firsts DEF Rounds, UpPrograms, DownPrograms, Closing
<1>3. At(Ssr, "start") => todo[Ssr] \in {Two("start", "up_exit"), Two("start", "up_pause")}
    BY <1>1, AtFirst, Firsts DEF Rounds, UpPrograms, DownPrograms, Closing
<1>4. At(Ssr, "start_register") =>
         todo[Ssr] \in {Two("start_register", "up_exit"), Two("start_register", "up_pause")}
    BY <1>1, AtFirst, Firsts DEF Rounds, UpPrograms, DownPrograms, Closing
<1>5. At(Ssr, "pause") => todo[Ssr] = Two("pause", "up_exit")
    BY <1>1, AtFirst, Firsts DEF Rounds, UpPrograms, DownPrograms, Closing
<1>. QED
    BY <1>2, <1>3, <1>4, <1>5

(* From one stage to the next.                                               *)
Turns(s, n) == Stage = s /\ Stage' = n

StageLabels == {"open", "start", "start_register", "pause"}

LEMMA SsrReturns ==
    ASSUME Typed, todo[Ssr] # <<>>, First(todo[Ssr]) \in StageLabels,
           Goes(Ssr, Rest(todo[Ssr]))
    PROVE  /\ At(Ssr, "open") => \/ Turns("open", "up_exit") \/ Turns("open_start", "up_start")
                                 \/ Turns("open_paused", "up_start_paused")
           /\ At(Ssr, "start") => Turns("start", "up_exit") \/ Turns("start_pause", "up_pause")
           /\ At(Ssr, "start_register") =>
                 Turns("register", "up_exit") \/ Turns("register_pause", "up_pause")
           /\ At(Ssr, "pause") => Turns("pause", "up_exit")
<1>1. todo'[Ssr] = Rest(todo[Ssr])
    BY GoesTo DEF Thread
<1>2. ASSUME NEW x, NEW y, todo[Ssr] = Two(x, y)
      PROVE  Stage' = StageOf(One(y)) /\ Stage = StageOf(Two(x, y))
  <2>1. todo'[Ssr] = One(y)
      BY <1>1, <1>2, Rests
  <2>. QED
      BY <1>2, <2>1 DEF Stage
<1>3. ASSUME At(Ssr, "open")
      PROVE  \/ Turns("open", "up_exit") \/ Turns("open_start", "up_start")
             \/ Turns("open_paused", "up_start_paused")
    BY <1>2, <1>3, RoundAt, Stages DEF Turns
<1>4. ASSUME At(Ssr, "start")
      PROVE  Turns("start", "up_exit") \/ Turns("start_pause", "up_pause")
    BY <1>2, <1>4, RoundAt, Stages DEF Turns
<1>5. ASSUME At(Ssr, "start_register")
      PROVE  Turns("register", "up_exit") \/ Turns("register_pause", "up_pause")
    BY <1>2, <1>5, RoundAt, Stages DEF Turns
<1>6. ASSUME At(Ssr, "pause")
      PROVE  Turns("pause", "up_exit")
    BY <1>2, <1>6, RoundAt, Stages DEF Turns
<1>. QED
    BY <1>3, <1>4, <1>5, <1>6

LEMMA SsrRegisters ==
    ASSUME Typed, StartRun(Ssr)
    PROVE  Turns("start", "register") \/ Turns("start_pause", "register_pause")
<1>1. At(Ssr, "start") /\ Goes(Ssr, Push("start_register", todo[Ssr]))
    BY ThenGoes DEF StartRun, Starting
<1>2. ASSUME NEW y, todo[Ssr] = Two("start", y)
      PROVE  Stage' = StageOf(Two("start_register", y)) /\ Stage = StageOf(Two("start", y))
  <2>1. todo'[Ssr] = Two("start_register", y)
      BY <1>1, <1>2, GoesTo, Pushes DEF Thread
  <2>. QED
      BY <1>2, <2>1 DEF Stage
<1>. QED
    BY <1>1, <1>2, RoundAt, Stages DEF Turns

LEMMA SsrLowers ==
    ASSUME Typed, Method(Ssr), First(todo[Ssr]) \in DownLabels
    PROVE  Turns("lowering", "lowering")
<1>1. todo[Ssr] # <<>> /\ todo[Ssr] \in Rounds /\ Moves(Ssr) /\ Ssr \in Thread
    BY MethodMoves DEF Typed, Programmed, Moves, Thread
<1>2. First(todo[Ssr]) \in {"stop", "stop_locked", "close", "close_locked"}
    BY <1>1 DEF DownLabels, Moves, MethodLabels
<1>3. Rest(todo[Ssr]) # <<>> /\ First(Rest(todo[Ssr])) \in DownLabels \ {"down"}
    BY <1>1, <1>2, Firsts, Rests DEF Rounds, UpPrograms, DownPrograms, Closing, DownLabels
<1>4. todo'[Ssr] # <<>> /\ First(todo'[Ssr]) \in DownLabels \ {"down"}
  <2>1. CASE Goes(Ssr, Rest(todo[Ssr]))
      BY <1>1, <1>3, <2>1, GoesTo
  <2>2. CASE First(todo[Ssr]) = "stop" /\ Goes(Ssr, Push("stop_locked", todo[Ssr]))
    <3>1. todo'[Ssr] = Push("stop_locked", todo[Ssr])
        BY <1>1, <2>2, GoesTo
    <3>2. todo'[Ssr] # <<>> /\ First(todo'[Ssr]) = "stop_locked"
        BY <3>1 DEF Push, First
    <3>. QED
        BY <3>2 DEF DownLabels
  <2>3. CASE First(todo[Ssr]) = "close" /\ Goes(Ssr, PushTwo("stop", "close_locked", todo[Ssr]))
    <3>1. todo'[Ssr] = PushTwo("stop", "close_locked", todo[Ssr])
        BY <1>1, <2>3, GoesTo
    <3>2. todo'[Ssr] # <<>> /\ First(todo'[Ssr]) = "stop"
        BY <3>1 DEF PushTwo, First
    <3>. QED
        BY <3>2 DEF DownLabels
  <2>. QED
      BY <1>1, <1>2, <2>1, <2>2, <2>3 DEF Moves
<1>. QED
    BY <1>1, <1>2, <1>4 DEF Turns, Stage, StageOf, DownLabels

LEMMA SsrMethod ==
    ASSUME Typed, Method(Ssr)
    PROVE  \/ /\ StopCheck(Ssr) \/ StopRun(Ssr) \/ CloseCheck(Ssr) \/ CloseRun(Ssr)
              /\ Turns("lowering", "lowering")
           \/ /\ Open(Ssr)
              /\ \/ Turns("open", "up_exit") \/ Turns("open_start", "up_start")
                 \/ Turns("open_paused", "up_start_paused")
           \/ /\ Start(Ssr) /\ ~StartRun(Ssr) /\ ~StartRegister(Ssr)
              /\ Turns("start", "up_exit") \/ Turns("start_pause", "up_pause")
           \/ /\ StartRun(Ssr)
              /\ Turns("start", "register") \/ Turns("start_pause", "register_pause")
           \/ /\ StartRegister(Ssr)
              /\ Turns("register", "up_exit") \/ Turns("register_pause", "up_pause")
           \/ Pause(Ssr) /\ Turns("pause", "up_exit")
<1>1. CASE StopCheck(Ssr) \/ StopRun(Ssr) \/ CloseCheck(Ssr) \/ CloseRun(Ssr)
    BY <1>1, SsrLowers, AtFirst
       DEF StopCheck, StopRun, CloseCheck, CloseRun, DownLabels
<1>2. CASE Open(Ssr)
  <2>1. At(Ssr, "open") /\ Goes(Ssr, Rest(todo[Ssr]))
      BY <1>2, ThenGoes DEF Open, OpenRefused, OpenRun, OpenDeviceFails, OpenSessionFails
  <2>. QED
      BY <1>2, <2>1, SsrReturns, AtFirst DEF StageLabels
<1>3. CASE Start(Ssr) /\ ~StartRun(Ssr) /\ ~StartRegister(Ssr)
  <2>1. At(Ssr, "start") /\ Goes(Ssr, Rest(todo[Ssr]))
      BY <1>3, ThenGoes DEF Start, Starting, StartRefused, StartCached, StartDevicesFail,
                            StartSessionFails, StartNetReset
  <2>. QED
      BY <1>3, <2>1, SsrReturns, AtFirst DEF StageLabels
<1>4. CASE StartRun(Ssr)
    BY <1>4, SsrRegisters
<1>5. CASE StartRegister(Ssr)
  <2>1. At(Ssr, "start_register") /\ Goes(Ssr, Rest(todo[Ssr]))
      BY <1>5, ThenGoes DEF StartRegister
  <2>. QED
      BY <1>5, <2>1, SsrReturns, AtFirst DEF StageLabels
<1>6. CASE Pause(Ssr)
  <2>1. At(Ssr, "pause") /\ Goes(Ssr, Rest(todo[Ssr]))
      BY <1>6, ThenGoes DEF Pause
  <2>. QED
      BY <1>6, <2>1, SsrReturns, AtFirst DEF StageLabels
<1>. QED
    BY <1>1, <1>2, <1>3, <1>4, <1>5, <1>6 DEF Method

LEMMA SameStage == todo'[Ssr] = todo[Ssr] => Stage' = Stage
BY DEF Stage

LEMMA ClientStage ==
    ASSUME Typed, NEW c \in Client, Call(c) \/ ClientStep(c)
    PROVE  /\ Stage' = Stage /\ todo'[Ssr] = todo[Ssr]
           /\ \A d \in Client : d # c => todo'[d] = todo[d]
<1>1. c \in Thread /\ c # Ssr /\ \A d \in Client : d \in Thread
    BY StreamAssumption DEF Thread
<1>2. CASE Method(c)
  <2>1. \E p : Goes(c, p)
      BY <1>1, <1>2, MethodMoves DEF Moves
  <2>. QED
      BY <1>1, <2>1, GoesTo, SameStage DEF Thread
<1>3. CASE ~Method(c)
    BY <1>1, <1>3, ClientMoves, SameStage DEF ClientStep
<1>. QED
    BY <1>2, <1>3

-----------------------------------------------------------------------------
(* What a client was told is what it gets back after a round.                *)

Moving == {"write", "read"}

(* One client thread, whose pause and resume are calls of a calm system.     *)
Alone == /\ \A b, c \in Client : b = c
         /\ Overlap \subseteq {"open"} /\ {"pause", "resume"} \cap Between = {}

(* The card settles before it changes again, the streams have devices and    *)
(* none of them sits a standby out, below the stream only a pause or the     *)
(* data may fail, nobody stops the stream, and one client controls it: in    *)
(* the middle of rounds too, when it does not pause it.                      *)
Recoverable ==
    /\ Settles = TRUE
    /\ \A a \in Attributes : a.devices # {} /\ ~a.standby
    /\ Faults \subseteq {"session pause", "session io"}
    /\ \A c \in Client : "stop" \notin Calls[c]
    /\ \A b, c \in Client : b # c => Calls[b] \subseteq Moving \/ Calls[c] \subseteq Moving
    /\ NobodyPauses \/ Alone

AllDown(q) == \A i \in 1..Len(q) : isDown(q[i])

(* What is known of the card, and what is on its way to be known.            *)
Supply ==
    /\ event => monitor = "poll"
    /\ Stage = "none" => prevState = cardState
    /\ Stage \in Raising => ~isDown(cardState) /\ card = "ONLINE"
    /\ isDown(card) => AllDown(msgQ)
    /\ card = "ONLINE" =>
         /\ \A c \in Client : ~At(c, "write_netreset")
         /\ \/ event /\ msgQ = <<>> /\ Stage = "none" /\ isDown(cardState)
            \/ ~event /\ msgQ = One("ONLINE") /\ Stage = "none" /\ isDown(cardState)
            \/ ~event /\ msgQ = <<>> /\ ~isDown(cardState)

(* What a client may be in, as far as it knows.                              *)
Told ==
    /\ view # "stopped"
    /\ \A c \in Client :
         /\ call[c] \in Calls[c] \cup {"none"}
         /\ call[c] = "open" =>
              \/ view = "none" /\ todo[c] \in {Two("open", "return"), One("return")}
              \/ view = "failed" /\ todo[c] \in Closing("destroy") \cup {One("destroy")}
         /\ call[c] = "start"  => view = "opened"
         /\ call[c] = "pause"  => view = "started"
         /\ call[c] = "resume" => view = "paused"
         /\ call[c] \in Moving => view \in {"started", "paused"}
         /\ call[c] = "close"  => view = "closing"

Able == ~skipSSRHandling /\ mDevices # {} /\ ~mStreamAttr.standby

(* No round meets a pause, a resume, or the write that ends a pause.         *)
Clear == \A c \in Client :
    /\ call[c] \in {"pause", "resume"} =>
          ~isDown(cardState) /\ cachedState = "IDLE" /\ Stage = "none"
    /\ At(c, "write_register") \/ At(c, "write_started") =>
          currentState = "PAUSED" /\ ~isPaused /\ Stage = "none"

(* A client that pauses its stream makes no call with a round but the open.  *)
Apart == ~NobodyPauses =>
    /\ Stage # "none" => \A c \in Client : call[c] \in {"none", "open"}
    /\ Clear

Held == Able /\ Apart

(* Client c is in a call that has done what it is for.                       *)
Done(c, op) == /\ call[c] = op
               /\ At(c, "start_register") \/ (At(c, "return") /\ status[c] = 0)

(* What the stream of a client that takes it to be view has come to.         *)
Level == IF \/ view = "paused" /\ ~(\E c \in Client : Done(c, "resume"))
            \/ \E c \in Client : Done(c, "pause")
         THEN "paused"
         ELSE IF view \in {"started", "paused"} \/ \E c \in Client : Done(c, "start")
         THEN "started" ELSE "opened"

Proper(x) == /\ Level = "paused"  => x = "PAUSED"
             /\ Level = "started" => x \in {"STARTED", "PAUSED"}
             /\ Level = "opened"  => x = "INIT"

(* Outside a handler either nothing is cached and the stream is what it      *)
(* should be, or what it should be is cached.                                *)
Idle == \/ cachedState = "IDLE" /\ Proper(currentState)
        \/ /\ Proper(cachedState)
           /\ currentState = "IDLE" \/ (currentState = "INIT" /\ Level # "opened")

Kept ==
    /\ currentState \in {"STARTED", "PAUSED"} => session \in {"started", "paused"}
    /\ Level = "paused" => isPaused
    /\ Stage \in {"none", "down", "up"} => Idle
    /\ Stage = "none" /\ ~isDown(cardState) /\ card = "ONLINE" => cachedState = "IDLE"
    /\ Stage = "lowering" => Proper(cachedState)
    /\ Stage = "open" =>
          Level = "opened" /\ currentState = "IDLE" /\ cachedState = "INIT"
    /\ Stage \in {"open_start", "up_start", "start", "register"} => Level = "started"
    /\ Stage \in {"open_paused", "up_start_paused", "start_pause", "register_pause",
                  "up_pause", "pause"} => Level # "opened"
    /\ Stage \in {"open_start", "open_paused"} => currentState \in {"IDLE", "INIT"}
    /\ Stage \in {"up_start", "up_start_paused", "start", "start_pause"} =>
          currentState = "INIT"
    /\ Stage \in {"register", "register_pause", "up_pause", "pause"} =>
          currentState = "STARTED"
    /\ Stage \in {"up_start", "up_start_paused", "up_pause"} => status[Ssr] = 0
    /\ Stage = "up_exit" => Proper(currentState)

Live == view \in {"opened", "started", "paused"}

KeptLive == Live => Kept

(* A stream that is being opened.                                            *)
New == view = "none" =>
    /\ Stage = "none" /\ cachedState = "IDLE"
    /\ \/ currentState = "INIT" /\ \E c \in Client : call[c] = "open" /\ At(c, "return")
       \/ /\ currentState = "IDLE"
          /\ \A c \in Client : call[c] = "open" /\ At(c, "return") => status[c] = -1

RecInv == Supply /\ Told /\ Held /\ New /\ KeptLive /\ (NobodyPauses => Unpaused)

LEMMA DownQueue ==
    /\ AllDown(<<>>)
    /\ \A q \in Seq(Card) : \A s : AllDown(q) /\ isDown(s) => AllDown(Append(q, s))
    /\ \A q \in Seq(Card) :
          AllDown(q) /\ q # <<>> => isDown(Head(q)) /\ AllDown(Tail(q))
    /\ \A x : Append(<<>>, x) = One(x)
<1>1. AllDown(<<>>)
    BY DEF AllDown
<1>2. ASSUME NEW q \in Seq(Card), NEW s, AllDown(q), isDown(s)
      PROVE  AllDown(Append(q, s))
    BY <1>2 DEF AllDown
<1>3. ASSUME NEW q \in Seq(Card), AllDown(q), q # <<>>
      PROVE  isDown(Head(q)) /\ AllDown(Tail(q))
  <2>1. isDown(Head(q))
      BY <1>3 DEF AllDown
  <2>2. Len(Tail(q)) = Len(q) - 1 /\ \A i \in 1..Len(Tail(q)) : Tail(q)[i] = q[i+1]
      BY <1>3
  <2>3. Len(q) \in Nat
      BY <1>3
  <2>. QED
      BY <1>3, <2>1, <2>2, <2>3 DEF AllDown
<1>4. \A x : Append(<<>>, x) = One(x)
    BY DEF One
<1>. QED
    BY <1>1, <1>2, <1>3, <1>4

(* What the label at which a client is tells of its call.                    *)
LEMMA ProgramAt ==
    ASSUME NEW op \in CallName \cup {"none"}, NEW p \in Programs(op), p # <<>>
    PROVE  /\ First(p) \in {"start", "start_register"} => op = "start"
           /\ First(p) = "open" => op = "open"
           /\ First(p) = "pause" => op = "pause"
           /\ First(p) = "resume" => op = "resume"
           /\ First(p) \in {"write", "write_netreset", "write_resumed", "write_register",
                            "write_started"} => op = "write"
           /\ First(p) = "read" => op = "read"
           /\ First(p) = "set_stopped" => op = "stop"
           /\ First(p) \in {"stop", "stop_locked", "close", "close_locked", "destroy",
                            "set_idle"} => op \in {"open", "stop", "close"}
           /\ First(p) \in MethodLabels \ {"open", "start", "start_register", "pause"} =>
                 op \in {"open", "stop", "close"}
<1>1. /\ First(p) \in {"start", "start_register"} => op = "start"
      /\ First(p) = "open" => op = "open"
      /\ First(p) = "pause" => op = "pause"
      /\ First(p) = "resume" => op = "resume"
    BY Firsts DEF Programs, Closing, CallName
<1>2. First(p) \in {"write", "write_netreset", "write_resumed", "write_register",
                    "write_started"} => op = "write"
    BY Firsts DEF Programs, Closing, CallName
<1>3. /\ First(p) = "read" => op = "read"
      /\ First(p) = "set_stopped" => op = "stop"
    BY Firsts DEF Programs, Closing, CallName
<1>4. First(p) \in {"stop", "stop_locked", "close", "close_locked", "destroy",
                            "set_idle"} => op \in {"open", "stop", "close"}
    BY Firsts DEF Programs, Closing, CallName
<1>. QED
    BY <1>1, <1>2, <1>3, <1>4 DEF MethodLabels

(* Where the rest of a client's program starts.                              *)
LEMMA ProgramRest ==
    ASSUME NEW op \in CallName \cup {"none"}, NEW p \in Programs(op), p # <<>>
    PROVE  /\ Rest(p) # <<>> =>
                 First(Rest(p)) \notin {"write_netreset", "write_register", "start_register"}
           /\ Rest(p) # <<>> /\ First(Rest(p)) = "write_started" =>
                 First(p) = "write_register"
           /\ First(p) \in {"open", "start", "start_register", "pause", "resume", "write",
                            "write_netreset", "write_resumed", "write_started", "read"} =>
                 Rest(p) = One("return")
           /\ First(p) = "write_register" => Rest(p) = Two("write_started", "return")
           /\ First(p) = "return" => Rest(p) = <<>> /\ p = One("return")
<1>1. Rest(p) # <<>> =>
          First(Rest(p)) \notin {"write_netreset", "write_register", "start_register"}
    BY Firsts, Rests DEF Programs, Closing, CallName
<1>2. Rest(p) # <<>> /\ First(Rest(p)) = "write_started" => First(p) = "write_register"
    BY Firsts, Rests DEF Programs, Closing, CallName
<1>3. First(p) \in {"open", "start", "start_register", "pause", "resume", "write",
                     "write_netreset", "write_resumed", "write_started", "read"} =>
          Rest(p) = One("return")
    BY Firsts, Rests DEF Programs, Closing, CallName
<1>4. First(p) = "write_register" => Rest(p) = Two("write_started", "return")
    BY Firsts, Rests DEF Programs, Closing, CallName
<1>5. First(p) = "return" => Rest(p) = <<>> /\ p = One("return")
    BY Firsts, Rests DEF Programs, Closing, CallName
<1>. QED
    BY <1>1, <1>2, <1>3, <1>4, <1>5

(* The client that a step is of, and where its call is.                      *)
LEMMA ClientAt ==
    ASSUME Typed, NEW c \in Client
    PROVE  /\ c \in Thread /\ c # Ssr
           /\ call[c] \in CallName \cup {"none"} /\ todo[c] \in Programs(call[c])
           /\ \A l : At(c, l) => todo[c] # <<>> /\ First(todo[c]) = l
BY LeftIs, AtFirst, StreamAssumption DEF Thread, Left

(* Of two clients one at most moves data.                                    *)
LEMMA OneControls ==
    ASSUME Recoverable, Told, NEW b \in Client, NEW c \in Client, b # c
    PROVE  call[b] \in Moving \cup {"none"} \/ call[c] \in Moving \cup {"none"}
BY DEF Recoverable, Told

Marks == {"start", "pause", "resume"}

LEMMA LevelAt ==
    ASSUME Typed, Recoverable, Told, Live
    PROVE  /\ \A c \in Client : call[c] \notin {"open", "stop", "close"}
           /\ (\A c \in Client : call[c] \notin Marks) => Level = view
           /\ \A c \in Client :
                /\ call[c] = "start" =>
                      view = "opened" /\ Level = IF Done(c, "start") THEN "started" ELSE "opened"
                /\ call[c] = "pause" =>
                      view = "started" /\ Level = IF Done(c, "pause") THEN "paused" ELSE "started"
                /\ call[c] = "resume" =>
                      view = "paused" /\ Level = IF Done(c, "resume") THEN "started" ELSE "paused"
<1>1. \A c \in Client : call[c] \notin {"open", "stop", "close"}
  <2>1. \A c \in Client : call[c] # "stop"
      BY DEF Told, Recoverable
  <2>. QED
      BY <2>1 DEF Told, Live
<1>2. ASSUME \A c \in Client : call[c] \notin Marks
      PROVE  Level = view
  <2>1. \A c \in Client : ~Done(c, "start") /\ ~Done(c, "pause") /\ ~Done(c, "resume")
      BY <1>2 DEF Done, Marks
  <2>. QED
      BY <2>1 DEF Level, Live
<1>3. ASSUME NEW c \in Client, call[c] = "start"
      PROVE  view = "opened" /\ Level = IF Done(c, "start") THEN "started" ELSE "opened"
  <2>1. view = "opened"
      BY <1>3 DEF Told
  <2>2. \A b \in Client : ~Done(b, "pause") /\ (Done(b, "start") => b = c)
      BY <1>3, <2>1, OneControls DEF Done, Told, Moving
  <2>. QED
      BY <2>1, <2>2 DEF Level
<1>4. ASSUME NEW c \in Client, call[c] = "pause"
      PROVE  view = "started" /\ Level = IF Done(c, "pause") THEN "paused" ELSE "started"
  <2>1. view = "started"
      BY <1>4 DEF Told
  <2>2. \A b \in Client : Done(b, "pause") => b = c
      BY <1>4, OneControls DEF Done, Moving
  <2>. QED
      BY <2>1, <2>2 DEF Level
<1>5. ASSUME NEW c \in Client, call[c] = "resume"
      PROVE  view = "paused" /\ Level = IF Done(c, "resume") THEN "started" ELSE "paused"
  <2>1. view = "paused"
      BY <1>5 DEF Told
  <2>2. \A b \in Client : ~Done(b, "pause") /\ (Done(b, "resume") => b = c)
      BY <1>5, <2>1, OneControls DEF Done, Told, Moving
  <2>. QED
      BY <2>1, <2>2 DEF Level
<1>. QED
    BY <1>1, <1>2, <1>3, <1>4, <1>5

LEMMA LevelIs == Level \in {"opened", "started", "paused"}
BY DEF Level

(* The level only depends on the clients.                                    *)
LEMMA SameLevel ==
    ASSUME view' = view,
           \A c \in Client : call'[c] = call[c] /\ todo'[c] = todo[c] /\ status'[c] = status[c]
    PROVE  Level' = Level
<1>1. \A c \in Client, op \in {"start", "pause", "resume"} : Done(c, op)' = Done(c, op)
    BY DEF Done, At
<1>. QED
    BY <1>1 DEF Level

(* How a client gets to the places that the invariant speaks of.             *)
LEMMA Reaches ==
    ASSUME Typed, NEW c \in Client, Call(c) \/ ClientStep(c)
    PROVE  /\ At(c, "write_netreset")' => Write(c) /\ isDown(card)
           /\ At(c, "write_register")' =>
                 WriteResumed(c) /\ currentState = "PAUSED" /\ ~isPaused
           /\ At(c, "write_started")' => WriteRegister(c)
           /\ At(c, "start_register")' => StartRun(c)
<1>1. /\ c \in Thread /\ c # Ssr
      /\ call[c] \in CallName \cup {"none"} /\ todo[c] \in Programs(call[c])
      /\ \A l : At(c, l) => todo[c] # <<>> /\ First(todo[c]) = l
    BY ClientAt
<1>2. \A l : At(c, l)' => todo'[c] # <<>> /\ First(todo'[c]) = l
    BY DEF At, First
<1>3. \A q : Goes(c, q) => todo'[c] = q
    BY <1>1, GoesTo
<1>4. \A a, b, p : /\ First(Push(a, p)) = a /\ First(PushTwo(a, b, p)) = a
    BY DEF Push, PushTwo, First
<1>. DEFINE Places == {"write_netreset", "write_register", "write_started", "start_register"}
<1>5. ASSUME todo[c] # <<>>, Goes(c, Rest(todo[c])), First(todo[c]) # "write_register"
      PROVE  \A l \in Places : ~At(c, l)'
    BY <1>1, <1>2, <1>3, <1>5, ProgramRest
<1>6. ASSUME Method(c)
      PROVE  \/ \A l \in Places : ~At(c, l)'
             \/ StartRun(c) /\ \A l \in Places \ {"start_register"} : ~At(c, l)'
  <2>1. Moves(c)
      BY <1>1, <1>6, MethodMoves
  <2>2. CASE Goes(c, Rest(todo[c]))
      BY <1>5, <2>1, <2>2 DEF Moves, MethodLabels
  <2>3. CASE /\ First(todo[c]) = "start" /\ Goes(c, Push("start_register", todo[c]))
             /\ ~Goes(c, Rest(todo[c]))
    <3>1. StartRun(c)
      <4>1. Start(c)
        <5>1. \A l : At(c, l) => l = "start"
            BY <1>1, <2>3
        <5>. QED
            BY <1>6, <5>1 DEF Method, Open, OpenRefused, OpenRun, OpenDeviceFails,
               OpenSessionFails, StopCheck, StopRun, CloseCheck, CloseRun, Pause
      <4>. QED
          BY <2>3, <4>1, ThenGoes
             DEF Start, StartRefused, StartCached, StartDevicesFail, StartSessionFails,
                 StartNetReset, StartRegister
    <3>. QED
        BY <1>2, <1>3, <1>4, <2>3, <3>1
  <2>4. CASE \/ Goes(c, Push("stop_locked", todo[c]))
             \/ Goes(c, PushTwo("stop", "close_locked", todo[c]))
      BY <1>2, <1>3, <1>4, <2>4
  <2>. QED
      BY <2>1, <2>2, <2>3, <2>4 DEF Moves
<1>7. CASE Resume(c) \/ WriteNetReset(c) \/ WriteStarted(c) \/ Read(c) \/ SetCachedState(c)
           \/ CloseDone(c)
  <2>1. todo[c] # <<>> /\ Goes(c, Rest(todo[c])) /\ First(todo[c]) # "write_register"
    <3>1. CASE Resume(c) \/ WriteNetReset(c) \/ WriteStarted(c)
        BY <1>1, <3>1, ThenGoes DEF Resume, WriteNetReset, WriteStarted
    <3>2. CASE Read(c)
        BY <1>1, <3>2, ThenGoes DEF Read
    <3>3. CASE SetCachedState(c)
        BY <1>1, <3>3, ThenGoes DEF SetCachedState
    <3>4. CASE CloseDone(c)
        BY <1>1, <3>4, ThenGoes DEF CloseDone
    <3>. QED
        BY <1>7, <3>1, <3>2, <3>3, <3>4
  <2>. QED
      BY <1>5, <2>1
<1>8. CASE Write(c)
  <2>1. /\ todo[c] # <<>> /\ First(todo[c]) = "write"
        /\ \/ Goes(c, Rest(todo[c])) \/ Goes(c, Push("write_resumed", todo[c]))
           \/ isDown(card) /\ Goes(c, Push("write_netreset", todo[c]))
      BY <1>1, <1>8, ThenGoes DEF Write
  <2>. QED
      BY <1>2, <1>3, <1>4, <1>5, <1>8, <2>1
<1>9. CASE WriteResumed(c)
  <2>1. /\ todo[c] # <<>> /\ First(todo[c]) = "write_resumed"
        /\ \/ Goes(c, Rest(todo[c]))
           \/ /\ currentState = "PAUSED" /\ ~isPaused
              /\ Goes(c, PushTwo("write_register", "write_started", todo[c]))
      BY <1>1, <1>9, ThenGoes DEF WriteResumed
  <2>. QED
      BY <1>2, <1>3, <1>4, <1>5, <1>9, <2>1
<1>10. CASE WriteRegister(c)
  <2>1. /\ todo[c] # <<>> /\ First(todo[c]) = "write_register" /\ Goes(c, Rest(todo[c]))
      BY <1>1, <1>10, ThenGoes DEF WriteRegister
  <2>. QED
      BY <1>1, <1>2, <1>3, <1>10, <2>1, ProgramRest
<1>11. CASE CallDone(c)
  <2>1. /\ todo[c] # <<>> /\ First(todo[c]) = "return"
        /\ Goes(c, Rest(todo[c])) \/ Goes(c, PushTwo("close", "destroy", todo[c]))
      BY <1>1, <1>11, ThenGoes DEF CallDone
  <2>. QED
      BY <1>2, <1>3, <1>4, <1>5, <2>1
<1>12. CASE Call(c)
  <2>1. PICK op \in CallName : todo' = [todo EXCEPT ![c] = Program(op)]
      BY <1>12, StreamAssumption DEF Call
  <2>2. First(Program(op)) \notin Places
      BY DEF Program, First, CallName
  <2>3. todo'[c] = Program(op)
      BY <1>1, <2>1 DEF Typed, Programmed
  <2>. QED
      BY <1>2, <2>2, <2>3
<1>. QED
    BY <1>6, <1>7, <1>8, <1>9, <1>10, <1>11, <1>12 DEF ClientStep

LEMMA Reports ==
    ASSUME Typed, Supply, NEW c \in Client, Call(c) \/ ClientStep(c)
    PROVE  msgQ' = msgQ \/ (isDown(card) /\ msgQ' = Append(msgQ, "OFFLINE"))
<1>1. CASE Method(c)
  <2>1. CASE Open(c)
      BY <2>1 DEF Open, OpenRefused, OpenRun, OpenDeviceFails, OpenSessionFails, rmVars
  <2>2. CASE Start(c)
      BY <2>2 DEF Start, StartRefused, StartCached, StartDevicesFail, StartSessionFails,
                  StartNetReset, StartRun, StartRegister, rmVars, ssrHandler
  <2>3. CASE StopCheck(c) \/ StopRun(c) \/ CloseCheck(c) \/ CloseRun(c) \/ Pause(c)
      BY <2>3 DEF StopCheck, StopRun, CloseCheck, CloseRun, Pause, rmVars
  <2>. QED
      BY <1>1, <2>1, <2>2, <2>3 DEF Method
<1>2. CASE WriteNetReset(c)
  <2>1. isDown(card)
      BY <1>2 DEF WriteNetReset, Supply, Typed, Fields, Card, isDown
  <2>. QED
      BY <1>2, <2>1 DEF WriteNetReset, ssrHandler
<1>3. CASE Read(c)
    BY <1>3 DEF Read, ssrHandler
<1>4. CASE Resume(c) \/ Write(c) \/ WriteResumed(c) \/ WriteRegister(c) \/ WriteStarted(c)
    BY <1>4 DEF Resume, Write, WriteResumed, WriteRegister, WriteStarted, rmVars
<1>5. CASE SetCachedState(c) \/ CallDone(c) \/ CloseDone(c) \/ Call(c)
    BY <1>5 DEF SetCachedState, CallDone, CloseDone, Call, rmVars
<1>. QED
    BY <1>1, <1>2, <1>3, <1>4, <1>5 DEF ClientStep

LEMMA ClientLeaves ==
    ASSUME NEW c \in Client, Call(c) \/ ClientStep(c)
    PROVE  UNCHANGED <<cardState, prevState, ssrHolds, skipSSRHandling, cardVars>>
BY MethodKeeps, ClientKeeps DEF ClientStep, Thread

LEMMA Supply_Client ==
    ASSUME Typed, Supply, NEW c \in Client, Call(c) \/ ClientStep(c)
    PROVE  Supply'
<1>1. UNCHANGED <<cardState, prevState, event, monitor, card>>
    BY ClientLeaves DEF cardVars
<1>2. Stage' = Stage /\ \A d \in Client : d # c => todo'[d] = todo[d]
    BY ClientStage
<1>3. msgQ' = msgQ \/ (isDown(card) /\ msgQ' = Append(msgQ, "OFFLINE"))
    BY Reports
<1>4. isDown(card) => card # "ONLINE"
    BY DEF isDown, Down
<1>5. isDown(card) => AllDown(msgQ')
    BY <1>3, DownQueue DEF Supply, Typed, Fields, isDown, Down
<1>6. card = "ONLINE" => \A d \in Client : ~At(d, "write_netreset")'
    BY <1>2, <1>4, Reaches DEF Supply, At
<1>. QED
    BY <1>1, <1>2, <1>3, <1>4, <1>5, <1>6 DEF Supply, isDown, AllDown

LEMMA TakeStage ==
    ASSUME Typed, SsrTake
    PROVE  /\ Stage = "none" /\ msgQ # <<>> /\ cardState' = Head(msgQ) /\ msgQ' = Tail(msgQ)
           /\ \/ Head(msgQ) = prevState \/ ~Counted
              \/ Head(msgQ) # prevState /\ Counted
           /\ Head(msgQ) = prevState \/ ~Counted =>
                 Stage' = "none" /\ prevState' = Head(msgQ)
           /\ Head(msgQ) # prevState /\ Counted =>
                 Stage' = IF isDown(Head(msgQ)) THEN "down" ELSE "up"
<1>1. Stage = "none" /\ msgQ # <<>> /\ cardState' = Head(msgQ) /\ msgQ' = Tail(msgQ)
    BY NoStage DEF SsrTake
<1>2. ASSUME Head(msgQ) = prevState \/ ~Counted
      PROVE  Stage' = "none" /\ prevState' = Head(msgQ)
  <2>1. UNCHANGED todo /\ prevState' = Head(msgQ)
      BY <1>2 DEF SsrTake
  <2>. QED
      BY <1>1, <2>1 DEF Stage
<1>3. ASSUME Head(msgQ) # prevState, Counted
      PROVE  Stage' = IF isDown(Head(msgQ)) THEN "down" ELSE "up"
  <2>1. Goes(Ssr, IF isDown(Head(msgQ)) THEN One("down") ELSE One("up"))
      BY <1>3 DEF SsrTake, Goes, One
  <2>2. todo'[Ssr] = IF isDown(Head(msgQ)) THEN One("down") ELSE One("up")
      BY <2>1, GoesTo DEF Thread
  <2>. QED
      BY <2>2, Stages DEF Stage
<1>. QED
    BY <1>1, <1>2, <1>3

LEMMA DownStage ==
    ASSUME Typed, SsrDown, ~mStreamAttr.standby
    PROVE  /\ Stage = "down" /\ Stage' = "lowering"
           /\ cachedState' = IF cachedState = "IDLE" THEN currentState ELSE cachedState
           /\ UNCHANGED <<currentState, prevState, status, skipSSRHandling>>
<1>1. todo[Ssr] = One("down") /\ Ssr \in Thread
    BY SsrAtOne, AtFirst DEF SsrDown, Thread
<1>2. /\ cachedState' = IF cachedState = "IDLE" THEN currentState ELSE cachedState
      /\ UNCHANGED <<currentState, prevState, status, skipSSRHandling>>
    BY DEF SsrDown
<1>3. \/ Goes(Ssr, Push("down_exit", todo[Ssr]))
      \/ Goes(Ssr, PushTwo("close", "down_exit", todo[Ssr]))
      \/ Goes(Ssr, PushThree("stop", "close", "down_exit", todo[Ssr]))
    BY ThenGoes DEF SsrDown
<1>4. \/ todo'[Ssr] = One("down_exit") \/ todo'[Ssr] = Two("close", "down_exit")
      \/ todo'[Ssr] = Three("stop", "close", "down_exit")
    BY <1>1, <1>3, GoesTo, Pushes
<1>5. todo'[Ssr] # <<>> /\ First(todo'[Ssr]) \in {"down_exit", "close", "stop"}
    BY <1>4, Firsts
<1>. QED
    BY <1>1, <1>2, <1>5, Stages DEF Stage, StageOf, DownLabels

LEMMA ExitStage ==
    ASSUME Typed, SsrDownExit \/ SsrUpExit
    PROVE  /\ Stage' = "none" /\ prevState' = cardState
           /\ SsrDownExit => Stage = "lowering"
           /\ SsrUpExit => Stage = "up_exit"
<1>1. Stage' = "none"
    BY ExitMoves, Stages DEF Stage
<1>2. prevState' = cardState
    BY DEF SsrDownExit, SsrUpExit, RoundEnd
<1>3. SsrDownExit => Stage = "lowering"
    BY AtFirst DEF SsrDownExit, Stage, StageOf, DownLabels
<1>4. SsrUpExit => Stage = "up_exit"
    BY SsrAtOne, AtFirst, Stages DEF SsrUpExit, Stage
<1>. QED
    BY <1>1, <1>2, <1>3, <1>4

LEMMA UpStage ==
    ASSUME Typed, SsrUp, ~skipSSRHandling
    PROVE  /\ Stage = "up"
           /\ Stage' = CASE cachedState = "INIT"    -> "open"
                         [] cachedState = "STARTED" -> "open_start"
                         [] cachedState = "PAUSED"  -> "open_paused"
                         [] OTHER                   -> "up_exit"
           /\ UNCHANGED <<prevState, status, skipSSRHandling>>
<1>1. todo[Ssr] = One("up") /\ Ssr \in Thread
    BY SsrAtOne, AtFirst DEF SsrUp, Thread
<1>2. UNCHANGED <<prevState, status, skipSSRHandling>>
    BY DEF SsrUp
<1>3. /\ cachedState = "INIT" => Goes(Ssr, PushTwo("open", "up_exit", todo[Ssr]))
      /\ cachedState = "STARTED" => Goes(Ssr, PushTwo("open", "up_start", todo[Ssr]))
      /\ cachedState = "PAUSED" => Goes(Ssr, PushTwo("open", "up_start_paused", todo[Ssr]))
      /\ cachedState \notin {"INIT", "STARTED", "PAUSED"} =>
            Goes(Ssr, Push("up_exit", todo[Ssr]))
    BY ThenGoes DEF SsrUp
<1>4. /\ cachedState = "INIT" => todo'[Ssr] = Two("open", "up_exit")
      /\ cachedState = "STARTED" => todo'[Ssr] = Two("open", "up_start")
      /\ cachedState = "PAUSED" => todo'[Ssr] = Two("open", "up_start_paused")
      /\ cachedState \notin {"INIT", "STARTED", "PAUSED"} => todo'[Ssr] = One("up_exit")
    BY <1>1, <1>3, GoesTo, Pushes
<1>5. Stage = "up"
    BY <1>1, Stages DEF Stage
<1>6. /\ cachedState = "INIT" => Stage' = "open"
      /\ cachedState = "STARTED" => Stage' = "open_start"
      /\ cachedState = "PAUSED" => Stage' = "open_paused"
      /\ cachedState \notin {"INIT", "STARTED", "PAUSED"} => Stage' = "up_exit"
    BY <1>4, Stages DEF Stage
<1>. QED
    BY <1>2, <1>5, <1>6

LEMMA UpStartStage ==
    ASSUME Typed, SsrUpStart
    PROVE  /\ Stage \in {"up_start", "up_start_paused"}
           /\ status[Ssr] = 0 =>
                 Stage' = IF Stage = "up_start" THEN "start" ELSE "start_pause"
           /\ status[Ssr] # 0 => Stage' = "up_exit"
<1>1. /\ Ssr \in Thread
      /\ \/ todo[Ssr] = One("up_start") /\ At(Ssr, "up_start")
         \/ todo[Ssr] = One("up_start_paused") /\ ~At(Ssr, "up_start")
    BY SsrAtOne, AtFirst DEF SsrUpStart, Thread
<1>2. \/ Stage = "up_start" /\ At(Ssr, "up_start")
      \/ Stage = "up_start_paused" /\ ~At(Ssr, "up_start")
    BY <1>1, Stages DEF Stage
<1>3. /\ status[Ssr] # 0 => Goes(Ssr, Push("up_exit", todo[Ssr]))
      /\ status[Ssr] = 0 /\ At(Ssr, "up_start") =>
            Goes(Ssr, PushTwo("start", "up_exit", todo[Ssr]))
      /\ status[Ssr] = 0 /\ ~At(Ssr, "up_start") =>
            Goes(Ssr, PushTwo("start", "up_pause", todo[Ssr]))
    BY ThenGoes DEF SsrUpStart
<1>4. /\ status[Ssr] # 0 => todo'[Ssr] = One("up_exit")
      /\ status[Ssr] = 0 /\ At(Ssr, "up_start") => todo'[Ssr] = Two("start", "up_exit")
      /\ status[Ssr] = 0 /\ ~At(Ssr, "up_start") => todo'[Ssr] = Two("start", "up_pause")
    BY <1>1, <1>3, GoesTo, Pushes
<1>. QED
    BY <1>2, <1>4, Stages DEF Stage

LEMMA UpPauseStage ==
    ASSUME Typed, SsrUpPause
    PROVE  /\ Stage = "up_pause"
           /\ Stage' = IF status[Ssr] = 0 /\ currentState = "STARTED"
                       THEN "pause" ELSE "up_exit"
<1>1. todo[Ssr] = One("up_pause") /\ Ssr \in Thread
    BY SsrAtOne, AtFirst DEF SsrUpPause, Thread
<1>2. IF status[Ssr] = 0 /\ currentState = "STARTED"
         THEN Goes(Ssr, PushTwo("pause", "up_exit", todo[Ssr]))
         ELSE Goes(Ssr, Push("up_exit", todo[Ssr]))
    BY ThenGoes DEF SsrUpPause
<1>3. todo'[Ssr] = IF status[Ssr] = 0 /\ currentState = "STARTED"
                   THEN Two("pause", "up_exit") ELSE One("up_exit")
    BY <1>1, <1>2, GoesTo, Pushes
<1>. QED
    BY <1>1, <1>3, Stages DEF Stage

(* What no step of the worker touches.                                       *)
LEMMA SsrLeaves ==
    ASSUME Typed, SsrStep
    PROVE  /\ UNCHANGED <<mStreamAttr, call, view, cardVars>>
           /\ \A c \in Client : todo'[c] = todo[c] /\ status'[c] = status[c]
           /\ ~SsrTake => cardState' = cardState
<1>1. Ssr \in Thread /\ \A c \in Client : c \in Thread /\ c # Ssr
    BY StreamAssumption DEF Thread
<1>2. CASE Method(Ssr)
  <2>1. Moves(Ssr) /\ UNCHANGED clientVars /\ UNCHANGED <<cardState, cardVars>>
      BY <1>1, <1>2, MethodMoves, MethodKeeps
  <2>2. \A c \in Client : todo'[c] = todo[c]
      BY <1>1, <2>1, GoesTo DEF Moves
  <2>3. status' = status \/ \E s : status' = [status EXCEPT ![Ssr] = s]
    <3>1. CASE Open(Ssr)
        BY <3>1 DEF Open, OpenRefused, OpenRun, OpenDeviceFails, OpenSessionFails, Return
    <3>2. CASE Start(Ssr)
        BY <3>2 DEF Start, StartRefused, StartCached, StartDevicesFail, StartSessionFails,
                    StartNetReset, StartRun, StartRegister, Return
    <3>3. CASE StopCheck(Ssr) \/ StopRun(Ssr) \/ CloseCheck(Ssr) \/ CloseRun(Ssr) \/ Pause(Ssr)
        BY <3>3 DEF StopCheck, StopRun, CloseCheck, CloseRun, Pause, Return
    <3>. QED
        BY <1>2, <3>1, <3>2, <3>3 DEF Method
  <2>4. \A c \in Client : status'[c] = status[c]
      BY <1>1, <2>3 DEF Typed, Fields
  <2>. QED
      BY <2>1, <2>2, <2>4 DEF clientVars
<1>3. CASE SsrTake
    BY <1>3, TakeMoves DEF SsrTake, clientVars
<1>4. CASE SsrDown \/ SsrDownExit \/ SsrUp \/ SsrUpStart \/ SsrUpPause \/ SsrUpExit
  <2>1. \A c \in Client : todo'[c] = todo[c]
      BY <1>4, DownMoves, ExitMoves, UpMoves
  <2>2. status' = status \/ \E s : status' = [status EXCEPT ![Ssr] = s]
      BY <1>4 DEF SsrDown, SsrDownExit, SsrUp, SsrUpStart, SsrUpPause, SsrUpExit, RoundEnd
  <2>3. \A c \in Client : status'[c] = status[c]
      BY <1>1, <2>2 DEF Typed, Fields
  <2>4. UNCHANGED <<mStreamAttr, call, view, cardVars, cardState>>
      BY <1>4 DEF SsrDown, SsrDownExit, SsrUp, SsrUpStart, SsrUpPause, SsrUpExit, clientVars
  <2>. QED
      BY <2>1, <2>3, <2>4
<1>. QED
    BY <1>2, <1>3, <1>4 DEF SsrStep

LEMMA Supply_Take ==
    ASSUME Typed, Supply, SsrTake
    PROVE  Supply'
<1>1. /\ Stage = "none" /\ msgQ # <<>> /\ cardState' = Head(msgQ) /\ msgQ' = Tail(msgQ)
      /\ \/ Stage' = "none" /\ prevState' = Head(msgQ)
         \/ Stage' = "down" /\ isDown(Head(msgQ))
         \/ Stage' = "up" /\ ~isDown(Head(msgQ))
    BY TakeStage
<1>2. UNCHANGED <<card, event, monitor>> /\ \A c \in Client : todo'[c] = todo[c]
    BY TakeMoves DEF SsrTake, cardVars
<1>3. isDown(card) => isDown(Head(msgQ)) /\ AllDown(Tail(msgQ))
    BY <1>1, DownQueue DEF Supply, Typed, Fields
<1>4. card = "ONLINE" \/ isDown(card)
    BY DEF Typed, Fields, Card, isDown
<1>5. CASE card = "ONLINE"
  <2>1. msgQ = One("ONLINE") /\ ~event /\ isDown(cardState)
      BY <1>1, <1>5 DEF Supply
  <2>2. Head(msgQ) = "ONLINE" /\ Tail(msgQ) = <<>> /\ ~isDown("ONLINE")
      BY <2>1, Sequences DEF isDown, Down
  <2>3. /\ cardState' = "ONLINE" /\ msgQ' = <<>> /\ ~event' /\ card' = "ONLINE"
        /\ Stage' = "none" => prevState' = cardState'
        /\ \A c \in Client : ~At(c, "write_netreset")'
      BY <1>1, <1>2, <1>5, <2>1, <2>2 DEF Supply, At
  <2>. QED
      BY <1>1, <1>2, <2>2, <2>3 DEF Supply, isDown, Raising, Down
<1>6. CASE isDown(card)
  <2>1. /\ isDown(cardState') /\ isDown(card') /\ card' # "ONLINE"
        /\ Stage' \notin Raising /\ AllDown(msgQ')
        /\ Stage' = "none" => prevState' = cardState'
      BY <1>1, <1>2, <1>3, <1>6 DEF Raising, isDown, Down
  <2>. QED
      BY <1>2, <2>1 DEF Supply, isDown, AllDown
<1>. QED
    BY <1>4, <1>5, <1>6

LEMMA NoReport ==
    ASSUME Typed, Supply, SsrStep, ~SsrTake
    PROVE  msgQ' = msgQ
<1>1. CASE Method(Ssr)
  <2>1. ~StartNetReset(Ssr)
    <3>1. SUFFICES ASSUME StartNetReset(Ssr) PROVE FALSE
        OBVIOUS
    <3>2. todo[Ssr] # <<>> /\ First(todo[Ssr]) = "start"
        BY <3>1, AtFirst DEF StartNetReset, Starting
    <3>3. Stage \in Raising
        BY <3>2 DEF Stage, StageOf, Raising, DownLabels
    <3>. QED
        BY <3>1, <3>3 DEF Supply, StartNetReset, isDown, Down
  <2>2. CASE Open(Ssr)
      BY <2>2 DEF Open, OpenRefused, OpenRun, OpenDeviceFails, OpenSessionFails, rmVars
  <2>3. CASE Start(Ssr)
      BY <2>1, <2>3 DEF Start, StartRefused, StartCached, StartDevicesFail,
                        StartSessionFails, StartRun, StartRegister, rmVars
  <2>4. CASE StopCheck(Ssr) \/ StopRun(Ssr) \/ CloseCheck(Ssr) \/ CloseRun(Ssr) \/ Pause(Ssr)
      BY <2>4 DEF StopCheck, StopRun, CloseCheck, CloseRun, Pause, rmVars
  <2>. QED
      BY <1>1, <2>2, <2>3, <2>4 DEF Method
<1>2. CASE SsrDown \/ SsrDownExit \/ SsrUp \/ SsrUpStart \/ SsrUpPause \/ SsrUpExit
    BY <1>2 DEF SsrDown, SsrDownExit, SsrUp, SsrUpStart, SsrUpPause, SsrUpExit, rmVars
<1>. QED
    BY <1>1, <1>2 DEF SsrStep

(* The worker stays in a round up or down, and leaves it for good.           *)
LEMMA RoundStage ==
    ASSUME Typed, ~skipSSRHandling, ~mStreamAttr.standby, SsrStep, ~SsrTake
    PROVE  /\ Stage # "none"
           /\ Stage' = "none" => prevState' = cardState
           /\ Stage' \in Raising => Stage \in Raising
<1>1. CASE Method(Ssr)
  <2>1. \/ Turns("lowering", "lowering")
        \/ Stage \in Raising /\ Stage' \in Raising
      BY <1>1, SsrMethod DEF Turns, Raising
  <2>. QED
      BY <2>1 DEF Turns, Raising
<1>2. CASE SsrDown
    BY <1>2, DownStage DEF Raising
<1>3. CASE SsrDownExit \/ SsrUpExit
    BY <1>3, ExitStage DEF Raising
<1>4. CASE SsrUp
  <2>1. Stage = "up" /\ Stage' # "none"
      BY <1>4, UpStage
  <2>. QED
      BY <2>1 DEF Raising
<1>5. CASE SsrUpStart
    BY <1>5, UpStartStage DEF Raising, Typed, Fields
<1>6. CASE SsrUpPause
    BY <1>6, UpPauseStage DEF Raising
<1>. QED
    BY <1>1, <1>2, <1>3, <1>4, <1>5, <1>6 DEF SsrStep

LEMMA Supply_Ssr ==
    ASSUME Typed, Supply, ~skipSSRHandling, ~mStreamAttr.standby, SsrStep
    PROVE  Supply'
<1>1. CASE SsrTake
    BY <1>1, Supply_Take
<1>2. CASE ~SsrTake
  <2>1. /\ UNCHANGED <<card, event, monitor, cardState, msgQ>>
        /\ \A c \in Client : todo'[c] = todo[c]
      BY <1>2, SsrLeaves, NoReport DEF cardVars
  <2>2. /\ Stage # "none"
        /\ Stage' = "none" => prevState' = cardState
        /\ Stage' \in Raising => Stage \in Raising
      BY <1>2, RoundStage
  <2>. QED
      BY <2>1, <2>2 DEF Supply, At, isDown, AllDown
<1>. QED
    BY <1>1, <1>2

LEMMA Supply_Card ==
    ASSUME Typed, Supply, Settles = TRUE, CardChange \/ MonitorPost \/ MonitorDiscard
    PROVE  Supply'
<1>1. /\ UNCHANGED <<cardState, prevState, todo>> /\ Stage' = Stage
      /\ \A c \in Client : At(c, "write_netreset")' = At(c, "write_netreset")
    BY SameStage DEF CardChange, MonitorPost, MonitorDiscard, rmVars, At
<1>2. ~isDown("ONLINE") /\ \A s \in Card : s = "ONLINE" \/ isDown(s)
    BY DEF isDown, Down, Card
<1>3. CASE CardChange
  <2>1. /\ ~event /\ monitor = "poll" /\ msgQ = <<>> /\ Stage = "none"
        /\ cardState = card
        /\ \A c \in Client : ~At(c, "write_netreset")
      BY <1>3, NoStage DEF CardChange, Handled
  <2>2. /\ event' = TRUE /\ monitor' = "poll" /\ msgQ' = <<>>
        /\ card' # card /\ card' \in Card
      BY <1>3, <2>1, StreamAssumption DEF CardChange, Card, rmVars
  <2>3. card' = "ONLINE" => isDown(cardState)
      BY <1>2, <2>1, <2>2 DEF Typed, Fields
  <2>4. AllDown(msgQ')
      BY <2>2, DownQueue
  <2>. QED
      BY <1>1, <2>1, <2>2, <2>3, <2>4 DEF Supply, isDown, AllDown, Raising
<1>4. CASE MonitorPost
  <2>1. /\ event /\ event' = FALSE /\ card' = card /\ msgQ' = Append(msgQ, card)
      BY <1>4 DEF MonitorPost, ssrHandler
  <2>2. card = "ONLINE" => msgQ' = One("ONLINE") /\ Stage = "none" /\ isDown(cardState)
      BY <2>1, DownQueue DEF Supply
  <2>3. isDown(card) => AllDown(msgQ')
      BY <2>1, DownQueue DEF Supply, Typed, Fields
  <2>. QED
      BY <1>1, <2>1, <2>2, <2>3 DEF Supply, isDown, AllDown
<1>5. CASE MonitorDiscard
  <2>1. ~event /\ event' = FALSE /\ UNCHANGED <<card, msgQ>>
      BY <1>5 DEF MonitorDiscard, Supply, rmVars
  <2>. QED
      BY <1>1, <2>1 DEF Supply, isDown, AllDown
<1>. QED
    BY <1>3, <1>4, <1>5

LEMMA ToldSame ==
    ASSUME Told, view' = view, call' = call,
           \A c \in Client : todo'[c] = todo[c] \/ call[c] # "open"
    PROVE  Told'
BY DEF Told

LEMMA ClosingGoes ==
    ASSUME NEW p \in Closing("destroy") \cup {One("destroy")}, First(p) # "destroy"
    PROVE  /\ p # <<>> /\ Rest(p) \in Closing("destroy") \cup {One("destroy")}
           /\ First(p) # "start"
           /\ First(p) = "stop" =>
                 Push("stop_locked", p) \in Closing("destroy") \cup {One("destroy")}
           /\ First(p) = "close" =>
                 PushTwo("stop", "close_locked", p) \in Closing("destroy") \cup {One("destroy")}
BY Firsts, Rests, Pushes DEF Closing

LEMMA Told_Method ==
    ASSUME Typed, Told, NEW t \in Thread, Method(t)
    PROVE  Told'
<1>1. /\ Moves(t) /\ view' = view /\ call' = call
      /\ \A d \in Client : d # t => todo'[d] = todo[d]
    BY MethodMoves, GoesTo DEF Moves, clientVars, Thread
<1>2. CASE t \in Client /\ call[t] = "open" /\ view # "failed"
  <2>1. todo[t] \in {Two("open", "return"), One("return")}
      BY <1>2 DEF Told
  <2>2. todo[t] = Two("open", "return")
      BY <1>1, <2>1, Firsts DEF Moves, MethodLabels
  <2>3. todo'[t] = One("return")
      BY <1>1, <2>2, Firsts, Rests, GoesTo DEF Moves
  <2>. QED
      BY <1>1, <1>2, <2>3 DEF Told
<1>3. CASE t \in Client /\ call[t] = "open" /\ view = "failed"
  <2>1. todo[t] \in Closing("destroy") \cup {One("destroy")}
      BY <1>3 DEF Told
  <2>2. todo'[t] \in Closing("destroy") \cup {One("destroy")}
    <3>1. First(todo[t]) # "destroy"
        BY <1>1 DEF Moves, MethodLabels
    <3>2. /\ First(todo[t]) # "start" /\ Rest(todo[t]) \in Closing("destroy") \cup {One("destroy")}
          /\ First(todo[t]) = "stop" =>
                Push("stop_locked", todo[t]) \in Closing("destroy") \cup {One("destroy")}
          /\ First(todo[t]) = "close" =>
                PushTwo("stop", "close_locked", todo[t])
                   \in Closing("destroy") \cup {One("destroy")}
        BY <2>1, <3>1, ClosingGoes
    <3>. QED
        BY <1>1, <3>2, GoesTo DEF Moves
  <2>. QED
      BY <1>1, <1>3, <2>2 DEF Told
<1>4. CASE ~(t \in Client /\ call[t] = "open")
    BY <1>1, <1>4, ToldSame
<1>. QED
    BY <1>2, <1>3, <1>4

LEMMA Told_Data ==
    ASSUME Typed, Told, NEW c \in Client,
           \/ Resume(c) \/ Write(c) \/ WriteNetReset(c) \/ WriteResumed(c)
           \/ WriteRegister(c) \/ WriteStarted(c) \/ Read(c) \/ SetCachedState(c)
    PROVE  Told'
<1>1. view' = view /\ call' = call
  <2>1. CASE Resume(c) \/ Write(c) \/ WriteNetReset(c) \/ WriteResumed(c)
      BY <2>1 DEF Resume, Write, WriteNetReset, WriteResumed, clientVars
  <2>2. CASE WriteRegister(c) \/ WriteStarted(c) \/ Read(c) \/ SetCachedState(c)
      BY <2>2 DEF WriteRegister, WriteStarted, Read, SetCachedState, clientVars
  <2>. QED
      BY <2>1, <2>2
<1>2. \A d \in Client : d # c => todo'[d] = todo[d]
    BY ClientStage DEF ClientStep
<1>3. /\ todo[c] # <<>>
      /\ First(todo[c]) \notin {"open", "return", "close", "close_locked", "stop", "stop_locked",
                                "destroy"}
  <2>1. CASE Resume(c) \/ Write(c) \/ WriteNetReset(c) \/ WriteResumed(c)
      BY <2>1, AtFirst DEF Resume, Write, WriteNetReset, WriteResumed
  <2>2. CASE WriteRegister(c) \/ WriteStarted(c) \/ Read(c)
      BY <2>2, AtFirst DEF WriteRegister, WriteStarted, Read
  <2>3. CASE SetCachedState(c)
      BY <2>3, AtFirst DEF SetCachedState
  <2>. QED
      BY <2>1, <2>2, <2>3
<1>4. call[c] # "open"
    BY <1>3, Firsts DEF Told, Closing
<1>. QED
    BY <1>1, <1>2, <1>4, ToldSame

LEMMA Told_Call ==
    ASSUME Typed, Told, Recoverable, NEW c \in Client, Call(c)
    PROVE  Told'
<1>1. PICK op \in Calls[c] :
         /\ Allowed(c, op)
         /\ call' = [call EXCEPT ![c] = op]
         /\ todo' = [todo EXCEPT ![c] = Program(op)]
         /\ view' = IF op = "close" THEN "closing" ELSE view
    BY DEF Call
<1>2. /\ op \in CallName /\ call[c] = "none"
      /\ call'[c] = op /\ \A d \in Client : d # c => call'[d] = call[d]
    BY <1>1, StreamAssumption DEF Typed, Fields, Call
<1>3. \A d \in Client : d # c => todo'[d] = todo[d]
    BY ClientStage
<1>4. todo'[c] = Program(op)
    BY <1>1, ClientAt DEF Typed, Programmed
<1>5. op = "open" => view' = "none" /\ todo'[c] = Two("open", "return")
    BY <1>1, <1>4 DEF Allowed, Program, Two
<1>6. /\ op = "start" => view' = "opened"
      /\ op = "pause" => view' = "started"
      /\ op = "resume" => view' = "paused"
      /\ op \in Moving => view' \in {"started", "paused"}
      /\ op = "close" => view' = "closing" /\ \A d \in Client : d # c => call[d] = "none"
      /\ view' # "stopped"
    BY <1>1 DEF Allowed, Moving, Told
<1>7. ASSUME NEW d \in Client, d # c
      PROVE  /\ call'[d] \in Calls[d] \cup {"none"}
             /\ call'[d] = "open" =>
                  \/ view' = "none" /\ todo'[d] \in {Two("open", "return"), One("return")}
                  \/ /\ view' = "failed"
                     /\ todo'[d] \in Closing("destroy") \cup {One("destroy")}
             /\ call'[d] = "start"  => view' = "opened"
             /\ call'[d] = "pause"  => view' = "started"
             /\ call'[d] = "resume" => view' = "paused"
             /\ call'[d] \in Moving => view' \in {"started", "paused"}
             /\ call'[d] = "close"  => view' = "closing"
  <2>1. CASE op = "close"
      BY <1>2, <1>6, <1>7, <2>1 DEF Moving
  <2>2. CASE op # "close"
      BY <1>1, <1>2, <1>3, <1>7, <2>2 DEF Told
  <2>. QED
      BY <2>1, <2>2
<1>. QED
    BY <1>1, <1>2, <1>5, <1>6, <1>7 DEF Told

LEMMA Told_CallDone ==
    ASSUME Typed, Told, Recoverable, NEW c \in Client, CallDone(c)
    PROVE  Told'
<1>1. /\ \A d \in Client : d # c => todo'[d] = todo[d]
      /\ call[c] \in CallName \ {"close"}
    BY ClientStage, ClientAt, LastOfProgram DEF ClientStep, CallDone
<1>2. \A d \in Client : d # c => call[d] \in Moving \cup {"none"} \/ call[c] \in Moving
    BY <1>1, OneControls DEF Told, CallName
<1>3. CASE call[c] = "open" /\ status[c] # 0
  <2>1. /\ view' = "failed" /\ call' = call
        /\ Goes(c, PushTwo("close", "destroy", todo[c]))
      BY <1>3, ThenGoes DEF CallDone
  <2>3. todo[c] = One("return")
      BY ClientAt, ProgramRest DEF CallDone
  <2>4. todo'[c] = Two("close", "destroy")
      BY <2>1, <2>3, ClientAt, GoesTo, Pushes
  <2>2. \A d \in Client : d # c => call[d] = "none"
      BY <1>2, <1>3 DEF Told, Moving
  <2>. QED
      BY <1>3, <2>1, <2>2, <2>4 DEF Told, Moving, Closing
<1>4. CASE ~(call[c] = "open" /\ status[c] # 0)
  <2>1. /\ view' = IF status[c] = 0 THEN Outcome(call[c]) ELSE view
        /\ call' = [call EXCEPT ![c] = "none"]
      BY <1>4 DEF CallDone
  <2>2. call'[c] = "none" /\ \A d \in Client : d # c => call'[d] = call[d]
      BY <2>1 DEF Typed, Fields
  <2>3. CASE call[c] \in Moving
    <3>1. view' = view
        BY <2>1, <2>3 DEF Outcome, Moving
    <3>. QED
        BY <1>1, <2>2, <3>1 DEF Told, Moving
  <2>4. CASE call[c] \in {"pause", "resume"}
    <3>1. view' \in {"started", "paused"}
        BY <2>1, <2>4 DEF Outcome, Told
    <3>2. \A d \in Client : d # c => call[d] \in Moving \cup {"none"}
        BY <1>2, <2>4 DEF Moving
    <3>. QED
        BY <2>2, <3>1, <3>2 DEF Told, Moving
  <2>5. CASE call[c] \in {"open", "start"}
    <3>1. view' # "stopped"
        BY <2>1, <2>5 DEF Outcome, Told
    <3>2. \A d \in Client : d # c => call[d] = "none"
        BY <1>2, <2>5 DEF Moving, Told
    <3>. QED
        BY <2>2, <3>1, <3>2 DEF Told, Moving
  <2>. QED
      BY <1>1, <2>3, <2>4, <2>5 DEF CallName, Moving, Told, Recoverable
<1>. QED
    BY <1>3, <1>4

LEMMA Told_CloseDone ==
    ASSUME Typed, Told, Recoverable, NEW c \in Client, CloseDone(c)
    PROVE  Told'
<1>1. view' = "dead" /\ call' = [call EXCEPT ![c] = "none"]
    BY DEF CloseDone
<1>2. call[c] \in {"open", "close"} /\ todo[c] # <<>> /\ First(todo[c]) = "destroy"
    BY ClientAt, LastOfProgram DEF CloseDone
<1>3. view \in {"failed", "closing"}
    BY <1>2, Firsts DEF Told
<1>4. \A d \in Client : d # c => call[d] = "none"
    BY <1>2, <1>3, OneControls DEF Told, Moving
<1>5. \A d \in Client : call'[d] = "none"
    BY <1>1, <1>4 DEF Typed, Fields
<1>. QED
    BY <1>1, <1>5 DEF Told, Moving

LEMMA ToldNext ==
    ASSUME Typed, Told, Recoverable, Next
    PROVE  Told'
<1>1. ASSUME NEW c \in Client, Call(c) \/ ClientStep(c)
      PROVE  Told'
    BY <1>1, Told_Method, Told_Data, Told_Call, Told_CallDone, Told_CloseDone
       DEF ClientStep, Thread
<1>2. CASE SsrStep
    BY <1>2, SsrLeaves, ToldSame
<1>3. CASE CardChange \/ MonitorPost \/ MonitorDiscard
    BY <1>3, ToldSame DEF CardChange, MonitorPost, MonitorDiscard, clientVars
<1>. QED
    BY <1>1, <1>2, <1>3 DEF Next

LEMMA NoFailures ==
    ASSUME Recoverable, mDevices # {}, NEW t
    PROVE  /\ ~OpenDeviceFails(t) /\ ~OpenSessionFails(t)
           /\ ~StartDevicesFail(t) /\ ~StartSessionFails(t)
           /\ Losses = {{}}
<1>1. Faults \cap {"device open", "session open", "device start", "session prepare",
                   "session start"} = {}
    BY DEF Recoverable
<1>2. ~OpenDeviceFails(t) /\ ~OpenSessionFails(t)
    BY <1>1 DEF OpenDeviceFails, OpenSessionFails
<1>3. ~StartDevicesFail(t)
    BY <1>1 DEF StartDevicesFail
<1>4. ~StartSessionFails(t)
    BY <1>1 DEF StartSessionFails
<1>5. Losses = {{}}
    BY <1>1 DEF Losses
<1>. QED
    BY <1>2, <1>3, <1>4, <1>5

LEMMA KeepsDevices ==
    ASSUME Recoverable, mDevices # {}, NEW t, Method(t)
    PROVE  mDevices' = mDevices
<1>1. CASE Open(t)
    BY <1>1, NoFailures DEF Open, OpenRefused, OpenRun, lowerVars
<1>2. CASE StartNetReset(t)
    BY <1>2, NoFailures DEF StartNetReset
<1>3. CASE StartRun(t)
    BY <1>3, NoFailures DEF StartRun
<1>4. CASE StartRefused(t) \/ StartCached(t) \/ StartRegister(t)
    BY <1>4 DEF StartRefused, StartCached, StartRegister, lowerVars
<1>5. CASE StopCheck(t) \/ StopRun(t) \/ CloseCheck(t) \/ CloseRun(t) \/ Pause(t)
    BY <1>5 DEF StopCheck, StopRun, CloseCheck, CloseRun, Pause, lowerVars
<1>. QED
    BY <1>1, <1>2, <1>3, <1>4, <1>5, NoFailures DEF Method, Start

LEMMA AbleNext ==
    ASSUME Typed, Recoverable, Able, Next
    PROVE  Able'
<1>1. ASSUME NEW t \in Thread, Method(t)
      PROVE  UNCHANGED <<skipSSRHandling, mDevices, mStreamAttr>>
    BY <1>1, KeepsDevices, MethodKeeps, MethodMoves DEF Able, clientVars
<1>2. ASSUME NEW c \in Client, Call(c) \/ ClientStep(c)
      PROVE  UNCHANGED <<skipSSRHandling, mDevices, mStreamAttr>>
    BY <1>1, <1>2, ClientKeeps DEF ClientStep, Thread
<1>3. CASE SsrStep
  <2>1. mStreamAttr' = mStreamAttr
      BY <1>3, SsrLeaves
  <2>2. CASE Method(Ssr)
      BY <1>1, <2>2 DEF Able, Thread
  <2>3. CASE SsrTake
      BY <2>1, <2>3 DEF SsrTake, streamVars, lowerVars, Able
  <2>4. CASE SsrDown
      BY <2>1, <2>4 DEF SsrDown, lowerVars, Able
  <2>5. CASE SsrDownExit \/ SsrUp \/ SsrUpStart \/ SsrUpPause \/ SsrUpExit
      BY <2>1, <2>5
         DEF SsrDownExit, SsrUp, SsrUpStart, SsrUpPause, SsrUpExit, streamVars, lowerVars, Able
  <2>. QED
      BY <1>3, <2>2, <2>3, <2>4, <2>5 DEF SsrStep
<1>4. CASE CardChange \/ MonitorPost \/ MonitorDiscard
    BY <1>4 DEF CardChange, MonitorPost, MonitorDiscard, streamVars, lowerVars, clientVars, Able
<1>. QED
    BY <1>2, <1>3, <1>4 DEF Next, Able

(* The calls under way as a step leaves them.                                *)
LEMMA ClientCalls ==
    ASSUME Typed, NEW c \in Client, ClientStep(c)
    PROVE  /\ \A d \in Client : d # c => call'[d] = call[d]
           /\ call'[c] \in {call[c], "none"}
<1>1. CASE Method(c)
    BY <1>1, MethodMoves DEF clientVars, Thread
<1>2. CASE Resume(c) \/ Write(c) \/ WriteNetReset(c) \/ WriteResumed(c)
    BY <1>2 DEF Resume, Write, WriteNetReset, WriteResumed, clientVars
<1>3. CASE WriteRegister(c) \/ WriteStarted(c) \/ Read(c) \/ SetCachedState(c)
    BY <1>3 DEF WriteRegister, WriteStarted, Read, SetCachedState, clientVars
<1>4. CASE CallDone(c) \/ CloseDone(c)
  <2>1. call' = call \/ call' = [call EXCEPT ![c] = "none"]
      BY <1>4 DEF CallDone, CloseDone
  <2>. QED
      BY <2>1 DEF Typed, Fields
<1>. QED
    BY <1>1, <1>2, <1>3, <1>4 DEF ClientStep

LEMMA CallsApart ==
    ASSUME Typed, Recoverable, Able, Apart, Next
    PROVE  ~NobodyPauses /\ Stage' # "none" =>
              \A c \in Client : call'[c] \in {"none", "open"}
<1>1. SUFFICES ASSUME ~NobodyPauses, Stage' # "none"
               PROVE  \A c \in Client : call'[c] \in {"none", "open"}
    OBVIOUS
<1>2. Alone
    BY <1>1 DEF Recoverable
<1>3. ASSUME NEW c \in Client, Call(c)
      PROVE  \A d \in Client : call'[d] \in {"none", "open"}
  <2>1. Stage' = Stage /\ todo[Ssr] # <<>>
      BY <1>1, <1>3, ClientStage, NoStage
  <2>2. PICK op \in Calls[c] :
           /\ op \in Overlap \/ (op \in Between /\ todo[Ssr] = <<>>) \/ Calm
           /\ call' = [call EXCEPT ![c] = op]
      BY <1>3 DEF Call
  <2>3. op = "open"
      BY <1>2, <2>1, <2>2 DEF Alone, Calm
  <2>. QED
      BY <1>1, <2>1, <2>2, <2>3 DEF Apart, Typed, Fields
<1>4. ASSUME NEW c \in Client, ClientStep(c)
      PROVE  \A d \in Client : call'[d] \in {"none", "open"}
  <2>1. Stage' = Stage
      BY <1>4, ClientStage
  <2>. QED
      BY <1>1, <1>4, <2>1, ClientCalls DEF Apart
<1>5. CASE SsrStep
  <2>1. call' = call
      BY <1>5, SsrLeaves
  <2>2. CASE SsrTake
      BY <1>2, <2>1, <2>2 DEF SsrTake, Alone
  <2>3. CASE ~SsrTake
      BY <1>1, <1>5, <2>1, <2>3, RoundStage DEF Able, Apart
  <2>. QED
      BY <2>2, <2>3
<1>6. CASE CardChange \/ MonitorPost \/ MonitorDiscard
  <2>1. call' = call /\ Stage' = Stage
      BY <1>6, SameStage DEF CardChange, MonitorPost, MonitorDiscard, clientVars
  <2>. QED
      BY <1>1, <2>1 DEF Apart
<1>. QED
    BY <1>3, <1>4, <1>5, <1>6 DEF Next

LEMMA ClearAlways ==
    ASSUME Typed, Apart, NobodyPauses => Unpaused
    PROVE  Clear
<1>1. CASE NobodyPauses
  <2>1. ASSUME NEW c \in Client
        PROVE  /\ call[c] \notin {"pause", "resume"}
               /\ ~At(c, "write_register") /\ ~At(c, "write_started")
    <3>1. call[c] \notin {"pause", "resume"} /\ todo[c] \notin ResumePrograms
        BY <1>1 DEF Unpaused
    <3>. QED
        BY <3>1, ClientAt, ResumesLater
  <2>. QED
      BY <2>1 DEF Clear
<1>. QED
    BY <1>1 DEF Apart

LEMMA Clear_Call ==
    ASSUME Typed, Told, Alone, Clear, KeptLive, NEW c \in Client, Call(c)
    PROVE  Clear'
<1>1. PICK op \in Calls[c] :
         /\ Allowed(c, op)
         /\ op \in Overlap \/ (op \in Between /\ todo[Ssr] = <<>>) \/ Calm
         /\ call' = [call EXCEPT ![c] = op]
    BY DEF Call
<1>2. /\ \A d \in Client : d = c
      /\ call'[c] = op /\ Stage' = Stage
      /\ UNCHANGED <<cachedState, cardState>>
    BY <1>1, ClientStage DEF Alone, Typed, Fields, Call, streamVars, rmVars
<1>3. ASSUME op \in {"pause", "resume"}
      PROVE  ~isDown(cardState) /\ cachedState = "IDLE" /\ Stage = "none"
  <2>1. Calm /\ Live
      BY <1>1, <1>3 DEF Alone, Allowed, Live
  <2>2. ~isDown(cardState) /\ card = "ONLINE" /\ Stage = "none"
      BY <2>1, NoStage DEF Calm, isDown, Down
  <2>. QED
      BY <2>1, <2>2 DEF KeptLive, Kept
<1>4. ~At(c, "write_register")' /\ ~At(c, "write_started")'
  <2>1. ~WriteResumed(c) /\ ~WriteRegister(c)
    <3>1. call[c] = "none" /\ todo[c] = <<>>
        BY ClientAt DEF Call, Programs
    <3>. QED
        BY <3>1, ClientAt DEF WriteResumed, WriteRegister
  <2>. QED
      BY <2>1, Reaches
<1>. QED
    BY <1>2, <1>3, <1>4 DEF Clear, isDown

LEMMA Clear_Step ==
    ASSUME Typed, Alone, ~NobodyPauses, Apart, Clear, NEW c \in Client, ClientStep(c)
    PROVE  Clear'
<1>1. (\A d \in Client : d = c) /\ Stage' = Stage /\ cardState' = cardState
    BY ClientStage, ClientLeaves DEF Alone
<1>2. ASSUME call'[c] \in {"pause", "resume"}
      PROVE  ~isDown(cardState) /\ cachedState' = "IDLE" /\ Stage = "none"
  <2>1. /\ call[c] = call'[c]
        /\ ~isDown(cardState) /\ cachedState = "IDLE" /\ Stage = "none"
      BY <1>2, ClientCalls DEF Clear
  <2>2. \/ Pause(c) \/ Resume(c) \/ CallDone(c)
    <3>1. todo[c] # <<>> => First(todo[c]) \in {"pause", "resume", "return"}
        BY <1>2, <2>1, ClientAt, Firsts DEF Programs
    <3>2. /\ ~At(c, "open") /\ ~At(c, "start") /\ ~At(c, "start_register")
          /\ ~At(c, "stop") /\ ~At(c, "stop_locked")
          /\ ~At(c, "close") /\ ~At(c, "close_locked")
          /\ ~At(c, "write") /\ ~At(c, "write_netreset") /\ ~At(c, "write_resumed")
          /\ ~At(c, "write_register") /\ ~At(c, "write_started") /\ ~At(c, "read")
          /\ ~At(c, "set_stopped") /\ ~At(c, "set_idle") /\ ~At(c, "destroy")
        BY <3>1, AtFirst
    <3>3. ~Open(c)
        BY <3>2 DEF Open, OpenRefused, OpenRun, OpenDeviceFails, OpenSessionFails
    <3>4. ~Start(c)
        BY <3>2 DEF Start, Starting, StartRefused, StartCached, StartDevicesFail,
                    StartSessionFails, StartNetReset, StartRun, StartRegister
    <3>5. ~StopCheck(c) /\ ~StopRun(c) /\ ~CloseCheck(c) /\ ~CloseRun(c)
        BY <3>2 DEF StopCheck, StopRun, CloseCheck, CloseRun
    <3>6. ~Write(c) /\ ~WriteNetReset(c) /\ ~WriteResumed(c) /\ ~WriteRegister(c)
        BY <3>2 DEF Write, WriteNetReset, WriteResumed, WriteRegister
    <3>7. ~WriteStarted(c) /\ ~Read(c) /\ ~SetCachedState(c) /\ ~CloseDone(c)
        BY <3>2 DEF WriteStarted, Read, SetCachedState, CloseDone
    <3>. QED
        BY <3>3, <3>4, <3>5, <3>6, <3>7 DEF ClientStep, Method
  <2>3. cachedState' = cachedState
      BY <2>1, <2>2 DEF Pause, Resume, CallDone, streamVars
  <2>. QED
      BY <2>1, <2>3
<1>3. At(c, "write_register")' =>
         currentState' = "PAUSED" /\ ~isPaused' /\ Stage = "none"
  <2>1. SUFFICES ASSUME WriteResumed(c), currentState = "PAUSED", ~isPaused
                 PROVE  UNCHANGED <<currentState, isPaused>> /\ Stage = "none"
      BY Reaches
  <2>2. call[c] = "write"
      BY <2>1, ClientAt, ProgramAt DEF WriteResumed
  <2>. QED
      BY <2>1, <2>2 DEF WriteResumed, streamVars, Apart
<1>4. At(c, "write_started")' =>
         currentState' = "PAUSED" /\ ~isPaused' /\ Stage = "none"
  <2>1. SUFFICES ASSUME WriteRegister(c)
                 PROVE  currentState' = "PAUSED" /\ ~isPaused' /\ Stage = "none"
      BY Reaches
  <2>. QED
      BY <2>1 DEF WriteRegister, streamVars, Clear
<1>. QED
    BY <1>1, <1>2, <1>3, <1>4 DEF Clear, isDown

LEMMA ApartNext ==
    ASSUME Typed, Recoverable, Told, Able, Apart, KeptLive, Next
    PROVE  Apart'
<1>1. SUFFICES ASSUME ~NobodyPauses
               PROVE  Clear'
    BY CallsApart DEF Apart
<1>2. Alone /\ Clear
    BY <1>1 DEF Recoverable, Apart
<1>3. ASSUME NEW c \in Client, Call(c) \/ ClientStep(c)
      PROVE  Clear'
    BY <1>1, <1>2, <1>3, Clear_Call, Clear_Step
<1>4. CASE SsrStep
  <2>1. /\ call' = call /\ \A c \in Client : todo'[c] = todo[c]
        /\ ~SsrTake => Stage # "none"
      BY <1>4, SsrLeaves, RoundStage DEF Able
  <2>2. \A c \in Client : call[c] \in {"none", "open"}
      BY <1>1, <1>2, <2>1 DEF Apart, SsrTake, Alone
  <2>3. \A c \in Client : ~At(c, "write_register") /\ ~At(c, "write_started")
      BY <2>2, ClientAt, ProgramAt
  <2>. QED
      BY <2>1, <2>2, <2>3 DEF Clear, At
<1>5. CASE CardChange \/ MonitorPost \/ MonitorDiscard
  <2>1. UNCHANGED <<call, todo, cardState, cachedState, currentState, isPaused>>
        /\ Stage' = Stage
      BY <1>5, SameStage
         DEF CardChange, MonitorPost, MonitorDiscard, clientVars, streamVars, rmVars
  <2>. QED
      BY <1>2, <2>1 DEF Clear, isDown, At
<1>. QED
    BY <1>3, <1>4, <1>5 DEF Next

LEMMA NobodyElse ==
    ASSUME Typed, Recoverable, Told, view = "none"
    PROVE  /\ \A c \in Client : /\ call[c] \in {"none", "open"}
                                /\ todo[c] \in {<<>>, Two("open", "return"), One("return")}
           /\ \A b, c \in Client : call[b] = "open" /\ call[c] = "open" => b = c
<1>1. ASSUME NEW c \in Client
      PROVE  /\ call[c] \in {"none", "open"}
             /\ todo[c] \in {<<>>, Two("open", "return"), One("return")}
  <2>1. call[c] \in {"none", "open"}
      BY ClientAt DEF Told, Recoverable, CallName, Moving
  <2>2. call[c] = "none" => todo[c] = <<>>
      BY ClientAt DEF Programs
  <2>. QED
      BY <2>1, <2>2 DEF Told
<1>. QED
    BY <1>1, OneControls DEF Moving

LEMMA New_Client ==
    ASSUME Typed, Recoverable, Told, Able, New, NEW c \in Client, Call(c) \/ ClientStep(c)
    PROVE  New'
<1>1. SUFFICES ASSUME view' = "none" PROVE New'
    BY DEF New
<1>2. /\ c \in Thread /\ Stage' = Stage
      /\ \A d \in Client : d # c => todo'[d] = todo[d]
    BY ClientStage, ClientAt
<1>3. view = "none"
  <2>1. CASE Method(c)
      BY <1>1, <1>2, <2>1, MethodMoves DEF clientVars
  <2>2. CASE Resume(c) \/ Write(c) \/ WriteNetReset(c) \/ WriteResumed(c)
      BY <1>1, <2>2 DEF Resume, Write, WriteNetReset, WriteResumed, clientVars
  <2>3. CASE WriteRegister(c) \/ WriteStarted(c) \/ Read(c) \/ SetCachedState(c)
      BY <1>1, <2>3 DEF WriteRegister, WriteStarted, Read, SetCachedState, clientVars
  <2>4. CASE CallDone(c)
    <3>1. call[c] \in CallName \ {"close"}
        BY <2>4, ClientAt, LastOfProgram DEF CallDone
    <3>2. view' \in {"failed", view, Outcome(call[c])}
        BY <2>4 DEF CallDone
    <3>. QED
        BY <1>1, <3>1, <3>2 DEF Outcome, CallName
  <2>5. CASE CloseDone(c) \/ Call(c)
      BY <1>1, <2>5 DEF CloseDone, Call
  <2>. QED
      BY <2>1, <2>2, <2>3, <2>4, <2>5 DEF ClientStep
<1>4. /\ \A d \in Client : /\ call[d] \in {"none", "open"}
                           /\ todo[d] \in {<<>>, Two("open", "return"), One("return")}
      /\ \A b, d \in Client : call[b] = "open" /\ call[d] = "open" => b = d
    BY <1>3, NobodyElse
<1>5. CASE Call(c)
  <2>1. PICK op \in Calls[c] :
           /\ Allowed(c, op)
           /\ call' = [call EXCEPT ![c] = op]
           /\ todo' = [todo EXCEPT ![c] = Program(op)]
      BY <1>5 DEF Call
  <2>2. op = "open"
      BY <1>3, <2>1, StreamAssumption DEF Allowed, CallName
  <2>3. /\ call[c] = "none" /\ call'[c] = "open"
        /\ \A d \in Client : d # c => call'[d] = call[d]
      BY <1>5, <2>1, <2>2 DEF Call, Typed, Fields
  <2>4. ~At(c, "return")'
    <3>1. todo'[c] = <<"open", "return">>
        BY <1>2, <2>1, <2>2 DEF Program, Typed, Programmed
    <3>. QED
        BY <3>1 DEF At
  <2>5. UNCHANGED <<currentState, cachedState, status>>
      BY <1>5 DEF Call, streamVars
  <2>. QED
      BY <1>2, <1>3, <2>3, <2>4, <2>5 DEF New, At
<1>6. CASE ClientStep(c)
  <2>1. todo[c] # <<>>
    <3>1. CASE Method(c)
        BY <1>2, <3>1, MethodMoves DEF Moves
    <3>2. CASE WriteResumed(c) \/ CallDone(c)
        BY <3>2, AtFirst DEF WriteResumed, CallDone
    <3>3. CASE ~Method(c) /\ ~WriteResumed(c) /\ ~CallDone(c)
        BY <1>6, <3>3, ClientGoes DEF ClientStep
    <3>. QED
        BY <3>1, <3>2, <3>3
  <2>2. call[c] = "open"
      BY <1>4, <2>1, ClientAt DEF Programs
  <2>3. CASE todo[c] = One("return")
    <3>1. /\ ~At(c, "open") /\ ~At(c, "start") /\ ~At(c, "start_register")
          /\ ~At(c, "stop") /\ ~At(c, "stop_locked") /\ ~At(c, "pause") /\ ~At(c, "resume")
          /\ ~At(c, "close") /\ ~At(c, "close_locked")
          /\ ~At(c, "write") /\ ~At(c, "write_netreset") /\ ~At(c, "write_resumed")
          /\ ~At(c, "write_register") /\ ~At(c, "write_started") /\ ~At(c, "read")
          /\ ~At(c, "set_stopped") /\ ~At(c, "set_idle") /\ ~At(c, "destroy")
        BY <2>3, AtFirst, Firsts
    <3>2. ~Method(c)
      <4>1. ~Open(c)
          BY <3>1 DEF Open, OpenRefused, OpenRun, OpenDeviceFails, OpenSessionFails
      <4>2. ~Start(c)
          BY <3>1 DEF Start, Starting, StartRefused, StartCached, StartDevicesFail,
                      StartSessionFails, StartNetReset, StartRun, StartRegister
      <4>3. ~StopCheck(c) /\ ~StopRun(c) /\ ~CloseCheck(c) /\ ~CloseRun(c) /\ ~Pause(c)
          BY <3>1 DEF StopCheck, StopRun, CloseCheck, CloseRun, Pause
      <4>. QED
          BY <4>1, <4>2, <4>3 DEF Method
    <3>3. ~Resume(c) /\ ~Write(c) /\ ~WriteNetReset(c) /\ ~WriteResumed(c) /\ ~WriteRegister(c)
        BY <3>1 DEF Resume, Write, WriteNetReset, WriteResumed, WriteRegister
    <3>4. ~WriteStarted(c) /\ ~Read(c) /\ ~SetCachedState(c) /\ ~CloseDone(c)
        BY <3>1 DEF WriteStarted, Read, SetCachedState, CloseDone
    <3>5. CallDone(c)
        BY <1>6, <3>2, <3>3, <3>4 DEF ClientStep
    <3>6. view' # "none"
        BY <2>2, <3>5 DEF CallDone, Outcome
    <3>. QED
        BY <1>1, <3>6
  <2>4. CASE todo[c] = Two("open", "return")
    <3>1. /\ ~At(c, "return") /\ ~At(c, "start") /\ ~At(c, "start_register")
          /\ ~At(c, "stop") /\ ~At(c, "stop_locked") /\ ~At(c, "pause") /\ ~At(c, "resume")
          /\ ~At(c, "close") /\ ~At(c, "close_locked")
          /\ ~At(c, "write") /\ ~At(c, "write_netreset") /\ ~At(c, "write_resumed")
          /\ ~At(c, "write_register") /\ ~At(c, "write_started") /\ ~At(c, "read")
          /\ ~At(c, "set_stopped") /\ ~At(c, "set_idle") /\ ~At(c, "destroy")
        BY <2>4, AtFirst, Firsts
    <3>2. Method(c)
      <4>1. ~Resume(c) /\ ~Write(c) /\ ~WriteNetReset(c) /\ ~WriteResumed(c) /\ ~WriteRegister(c)
          BY <3>1 DEF Resume, Write, WriteNetReset, WriteResumed, WriteRegister
      <4>2. ~WriteStarted(c) /\ ~Read(c) /\ ~SetCachedState(c) /\ ~CloseDone(c) /\ ~CallDone(c)
          BY <3>1 DEF WriteStarted, Read, SetCachedState, CloseDone, CallDone
      <4>. QED
          BY <1>6, <4>1, <4>2 DEF ClientStep
    <3>3. OpenRefused(c) \/ OpenRun(c)
      <4>1. ~Start(c)
          BY <3>1 DEF Start, Starting, StartRefused, StartCached, StartDevicesFail,
                      StartSessionFails, StartNetReset, StartRun, StartRegister
      <4>2. ~StopCheck(c) /\ ~StopRun(c) /\ ~CloseCheck(c) /\ ~CloseRun(c) /\ ~Pause(c)
          BY <3>1 DEF StopCheck, StopRun, CloseCheck, CloseRun, Pause
      <4>. QED
          BY <3>2, <4>1, <4>2, NoFailures DEF Method, Open, Able
    <3>4. currentState = "IDLE" /\ cachedState = "IDLE" /\ Stage = "none"
        BY <1>3, <1>4, <2>2, <3>1 DEF New
    <3>5. /\ call' = call /\ cachedState' = cachedState
          /\ \A d \in Client : d # c => status'[d] = status[d]
      <4>1. CASE OpenRefused(c)
        <5>1. \E s : status' = [status EXCEPT ![c] = s]
            BY <4>1 DEF OpenRefused, Return
        <5>2. UNCHANGED <<call, cachedState>>
            BY <4>1 DEF OpenRefused, streamVars, clientVars
        <5>. QED
            BY <1>2, <5>1, <5>2 DEF Typed, Fields
      <4>2. CASE OpenRun(c)
          BY <1>2, <4>2 DEF OpenRun, clientVars, Return, Typed, Fields
      <4>. QED
          BY <3>3, <4>1, <4>2
    <3>6. CASE OpenRefused(c)
      <4>1. currentState' = "IDLE" /\ status'[c] = -1
          BY <1>2, <3>4, <3>6 DEF OpenRefused, streamVars, Return, Typed, Fields
      <4>. QED
          BY <1>2, <1>3, <3>4, <3>5, <4>1 DEF New, At
    <3>7. CASE OpenRun(c)
      <4>1. Goes(c, Rest(todo[c]))
          BY <3>7, ThenGoes DEF OpenRun
      <4>2. todo'[c] = One("return")
          BY <1>2, <2>4, <4>1, GoesTo, Rests
      <4>3. At(c, "return")' /\ currentState' = "INIT"
          BY <3>7, <4>2 DEF OpenRun, At, One
      <4>. QED
          BY <1>2, <2>2, <3>4, <3>5, <4>3 DEF New
    <3>. QED
        BY <3>3, <3>6, <3>7
  <2>. QED
      BY <1>4, <2>1, <2>3, <2>4
<1>. QED
    BY <1>5, <1>6

LEMMA NewNext ==
    ASSUME Typed, Recoverable, Told, Able, New, Next
    PROVE  New'
<1>1. ASSUME NEW c \in Client, Call(c) \/ ClientStep(c)
      PROVE  New'
    BY <1>1, New_Client
<1>2. CASE SsrStep
  <2>1. SUFFICES ASSUME view = "none"
                 PROVE  New'
      BY <1>2, SsrLeaves DEF New
  <2>2. SsrTake
      BY <1>2, <2>1, RoundStage DEF New, Able
  <2>3. Stage' = "none"
      BY <2>1, <2>2, TakeStage DEF Counted
  <2>4. /\ UNCHANGED <<call, currentState, cachedState>>
        /\ \A c \in Client : todo'[c] = todo[c] /\ status'[c] = status[c]
      BY <1>2, <2>2, SsrLeaves DEF SsrTake, streamVars
  <2>. QED
      BY <2>1, <2>3, <2>4 DEF New, At
<1>3. CASE CardChange \/ MonitorPost \/ MonitorDiscard
  <2>1. UNCHANGED <<view, call, todo, status, currentState, cachedState>> /\ Stage' = Stage
      BY <1>3, SameStage
         DEF CardChange, MonitorPost, MonitorDiscard, clientVars, streamVars
  <2>. QED
      BY <2>1 DEF New, At
<1>. QED
    BY <1>1, <1>2, <1>3 DEF Next

(* A step of the worker.                                                     *)
Worker == Typed /\ Recoverable /\ Informed /\ Supply /\ Able /\ Kept /\ Live

LEMMA ImproperIdle == ~Proper("IDLE")
BY LevelIs DEF Proper

LEMMA Kept_Take ==
    ASSUME Worker, SsrTake, Level' = Level
    PROVE  Kept'
<1>1. UNCHANGED <<currentState, cachedState, isPaused, session, status, card>>
    BY DEF SsrTake, streamVars, lowerVars, cardVars
<1>2. /\ Stage = "none" /\ Stage' \in {"none", "down", "up"}
      /\ Stage' = "none" => cardState' = cardState
  <2>1. Counted
      BY DEF Worker, Live, Counted
  <2>. QED
      BY <2>1, TakeStage DEF Worker, Supply
<1>3. Idle /\ Idle'
    BY <1>1, <1>2 DEF Worker, Kept, Idle, Proper
<1>. QED
    BY <1>1, <1>2, <1>3 DEF Worker, Kept, isDown

LEMMA Kept_Down ==
    ASSUME Worker, SsrDown, Level' = Level
    PROVE  Kept'
<1>1. UNCHANGED <<currentState, isPaused, session, status, card, cardState>>
    BY DownStage DEF Worker, Able, SsrDown, lowerVars, cardVars
<1>2. /\ Stage = "down" /\ Stage' = "lowering"
      /\ cachedState' = IF cachedState = "IDLE" THEN currentState ELSE cachedState
    BY DownStage DEF Worker, Able
<1>3. Proper(cachedState)'
  <2>1. Idle
      BY <1>2 DEF Worker, Kept
  <2>. QED
      BY <1>2, <2>1, ImproperIdle DEF Idle, Proper
<1>. QED
    BY <1>1, <1>2, <1>3 DEF Worker, Kept

LEMMA Kept_DownExit ==
    ASSUME Worker, SsrDownExit, Level' = Level
    PROVE  Kept'
<1>1. /\ UNCHANGED <<cachedState, isPaused, session, cardState>>
      /\ currentState' = "IDLE"
    BY DEF SsrDownExit, lowerVars
<1>2. Stage = "lowering" /\ Stage' = "none"
    BY ExitStage DEF Worker
<1>3. isDown(cardState)
  <2>1. todo[Ssr] # <<>>
      BY AtFirst DEF SsrDownExit
  <2>. QED
      BY <1>2, <2>1, UpStages DEF Worker, Informed
<1>4. Proper(cachedState) /\ Idle'
    BY <1>1, <1>2 DEF Worker, Kept, Idle, Proper
<1>. QED
    BY <1>1, <1>2, <1>3, <1>4 DEF Worker, Kept, isDown

LEMMA Kept_Up ==
    ASSUME Worker, SsrUp, Level' = Level
    PROVE  Kept'
<1>1. UNCHANGED <<currentState, cachedState, isPaused, session, status>>
    BY UpStage DEF Worker, Able, SsrUp, lowerVars
<1>2. /\ Stage = "up" /\ Idle
      /\ Stage' = CASE cachedState = "INIT"    -> "open"
                    [] cachedState = "STARTED" -> "open_start"
                    [] cachedState = "PAUSED"  -> "open_paused"
                    [] OTHER                   -> "up_exit"
    BY UpStage DEF Worker, Able, Kept
<1>3. CASE cachedState = "IDLE"
  <2>1. Stage' = "up_exit" /\ Proper(currentState)'
      BY <1>1, <1>2, <1>3, ImproperIdle DEF Idle, Proper
  <2>. QED
      BY <1>1, <2>1 DEF Worker, Kept
<1>4. CASE cachedState # "IDLE"
  <2>1. /\ Proper(cachedState)
        /\ currentState = "IDLE" \/ (currentState = "INIT" /\ Level # "opened")
      BY <1>2, <1>4 DEF Idle
  <2>2. CASE Level = "opened"
    <3>1. cachedState = "INIT" /\ Stage' = "open" /\ currentState = "IDLE"
        BY <1>2, <2>1, <2>2 DEF Proper
    <3>. QED
        BY <1>1, <2>2, <3>1 DEF Worker, Kept
  <2>3. CASE Level = "started"
    <3>1. Stage' \in {"open_start", "open_paused"}
        BY <1>2, <2>1, <2>3 DEF Proper
    <3>. QED
        BY <1>1, <2>1, <2>3, <3>1 DEF Worker, Kept
  <2>4. CASE Level = "paused"
    <3>1. Stage' = "open_paused"
        BY <1>2, <2>1, <2>4 DEF Proper
    <3>. QED
        BY <1>1, <2>1, <2>4, <3>1 DEF Worker, Kept
  <2>. QED
      BY <2>2, <2>3, <2>4, LevelIs
<1>. QED
    BY <1>3, <1>4

LEMMA Kept_UpStart ==
    ASSUME Worker, SsrUpStart, Level' = Level
    PROVE  Kept'
<1>1. UNCHANGED <<currentState, cachedState, isPaused, session, status>>
    BY DEF SsrUpStart, streamVars, lowerVars
<1>2. Stage \in {"up_start", "up_start_paused"} /\ status[Ssr] = 0
    BY UpStartStage DEF Worker, Kept
<1>3. Stage' = IF Stage = "up_start" THEN "start" ELSE "start_pause"
    BY <1>2, UpStartStage DEF Worker
<1>. QED
    BY <1>1, <1>2, <1>3 DEF Worker, Kept

LEMMA Kept_UpPause ==
    ASSUME Worker, SsrUpPause, Level' = Level
    PROVE  Kept'
<1>1. UNCHANGED <<currentState, cachedState, isPaused, session, status>>
    BY DEF SsrUpPause, streamVars, lowerVars
<1>2. Stage = "up_pause"
    BY UpPauseStage DEF Worker
<1>3. Stage' = "pause"
    BY <1>2, UpPauseStage DEF Worker, Kept
<1>. QED
    BY <1>1, <1>2, <1>3 DEF Worker, Kept

LEMMA Kept_UpExit ==
    ASSUME Worker, SsrUpExit, Level' = Level
    PROVE  Kept'
<1>1. UNCHANGED <<currentState, isPaused, session>> /\ cachedState' = "IDLE"
    BY DEF SsrUpExit, lowerVars
<1>2. Stage = "up_exit" /\ Stage' = "none"
    BY ExitStage DEF Worker
<1>3. Idle'
    BY <1>1, <1>2 DEF Worker, Kept, Idle, Proper
<1>. QED
    BY <1>1, <1>2, <1>3 DEF Worker, Kept

LEMMA Kept_Lowering ==
    ASSUME Worker, Level' = Level, Turns("lowering", "lowering"),
           StopCheck(Ssr) \/ StopRun(Ssr) \/ CloseCheck(Ssr) \/ CloseRun(Ssr)
    PROVE  Kept'
<1>1. /\ UNCHANGED <<cachedState, isPaused>>
      /\ \/ UNCHANGED <<currentState, session>>
         \/ currentState' \in {"STOPPED", "IDLE"}
    BY DEF StopCheck, StopRun, CloseCheck, CloseRun, streamVars, lowerVars
<1>. QED
    BY <1>1 DEF Worker, Kept, Turns, Proper

LEMMA Kept_Open ==
    ASSUME Worker, Level' = Level, Open(Ssr),
           \/ Turns("open", "up_exit") \/ Turns("open_start", "up_start")
           \/ Turns("open_paused", "up_start_paused")
    PROVE  Kept'
<1>1. ~isDown(cardState) /\ currentState \in {"IDLE", "INIT"}
    BY DEF Worker, Supply, Kept, Turns, Raising
<1>2. /\ ~OpenDeviceFails(Ssr) /\ ~OpenSessionFails(Ssr)
      /\ Ssr \in Thread /\ status \in [Thread -> {-1, 0}]
    BY NoFailures DEF Worker, Able, Thread, Typed, Fields
<1>3. CASE OpenRefused(Ssr)
  <2>1. currentState = "INIT" /\ Return(Ssr, 0)
      BY <1>1, <1>3 DEF OpenRefused
  <2>2. status'[Ssr] = 0 /\ UNCHANGED <<currentState, cachedState, isPaused, session>>
      BY <1>2, <1>3, <2>1 DEF OpenRefused, Return, streamVars, lowerVars
  <2>. QED
      BY <2>1, <2>2 DEF Worker, Kept, Turns
<1>4. CASE OpenRun(Ssr)
  <2>1. /\ currentState' = "INIT" /\ status'[Ssr] = 0
        /\ UNCHANGED <<cachedState, isPaused>>
      BY <1>2, <1>4 DEF OpenRun, Return
  <2>. QED
      BY <2>1 DEF Worker, Kept, Turns, Proper
<1>. QED
    BY <1>2, <1>3, <1>4 DEF Open

LEMMA Kept_Start ==
    ASSUME Worker, Level' = Level, Start(Ssr),
           Turns("start", "up_exit") \/ Turns("start_pause", "up_pause")
    PROVE  StartRun(Ssr) \/ StartRegister(Ssr)
<1>1. /\ ~isDown(cardState) /\ card = "ONLINE" /\ currentState = "INIT"
    BY DEF Worker, Supply, Kept, Turns, Raising
<1>2. ~StartRefused(Ssr) /\ ~StartCached(Ssr) /\ ~StartNetReset(Ssr)
    BY <1>1 DEF StartRefused, StartCached, StartNetReset, isDown, Down
<1>. QED
    BY <1>2, NoFailures DEF Worker, Able, Start

LEMMA Kept_StartRun ==
    ASSUME Worker, Level' = Level, StartRun(Ssr),
           Turns("start", "register") \/ Turns("start_pause", "register_pause")
    PROVE  Kept'
<1>1. /\ currentState' = "STARTED" /\ session' = "started"
      /\ UNCHANGED <<cachedState, isPaused>>
    BY DEF StartRun
<1>. QED
    BY <1>1 DEF Worker, Kept, Turns

LEMMA Kept_StartRegister ==
    ASSUME Worker, Level' = Level, StartRegister(Ssr),
           Turns("register", "up_exit") \/ Turns("register_pause", "up_pause")
    PROVE  Kept'
<1>1. /\ status'[Ssr] = 0
      /\ UNCHANGED <<currentState, session, cachedState, isPaused>>
  <2>1. Ssr \in Thread /\ status \in [Thread -> {-1, 0}]
      BY DEF Worker, Typed, Fields, Thread
  <2>. QED
      BY <2>1 DEF StartRegister, Return, streamVars
<1>. QED
    BY <1>1 DEF Worker, Kept, Turns, Proper

LEMMA Kept_PauseAgain ==
    ASSUME Worker, Level' = Level, Pause(Ssr), Turns("pause", "up_exit")
    PROVE  Kept'
<1>1. ~isDown(cardState) /\ currentState = "STARTED" /\ session \in {"started", "paused"}
    BY DEF Worker, Supply, Kept, Turns, Raising
<1>2. \/ /\ ~isPaused /\ UNCHANGED <<currentState, session, cachedState, isPaused>>
      \/ /\ currentState' = "PAUSED" /\ isPaused' = TRUE
         /\ cachedState' = cachedState /\ session' \in {"paused", session}
    BY <1>1 DEF Pause, streamVars
<1>3. Proper(currentState)'
    BY <1>1, <1>2, LevelIs DEF Worker, Kept, Turns, Proper
<1>. QED
    BY <1>1, <1>2, <1>3 DEF Worker, Kept, Turns

LEMMA Kept_Ssr ==
    ASSUME Worker, SsrStep
    PROVE  Kept'
<1>1. Level' = Level
    BY SsrLeaves, SameLevel DEF Worker
<1>2. CASE Method(Ssr)
    BY <1>1, <1>2, SsrMethod, Kept_Lowering, Kept_Open, Kept_Start, Kept_StartRun,
       Kept_StartRegister, Kept_PauseAgain DEF Worker
<1>. QED
    BY <1>1, <1>2, Kept_Take, Kept_Down, Kept_DownExit, Kept_Up, Kept_UpStart, Kept_UpPause,
       Kept_UpExit DEF SsrStep

(* A step of a client.                                                       *)
Using == /\ Typed /\ Recoverable /\ Informed /\ Supply /\ Told /\ Able /\ Clear
         /\ Kept /\ Live

LEMMA KeptSame ==
    ASSUME Kept, Level' = Level, Stage' = Stage, status'[Ssr] = status[Ssr],
           UNCHANGED <<currentState, cachedState, isPaused, session, cardState, card>>
    PROVE  Kept'
BY DEF Kept, Idle, Proper, isDown

LEMMA LevelElse ==
    ASSUME NEW c \in Client, view' = view,
           \A d \in Client : d # c =>
              call'[d] = call[d] /\ todo'[d] = todo[d] /\ status'[d] = status[d],
           \A op \in Marks : ~Done(c, op) /\ ~Done(c, op)'
    PROVE  Level' = Level
<1>1. \A d \in Client, op \in Marks : Done(d, op)' = Done(d, op)
    BY DEF Done, At
<1>. QED
    BY <1>1 DEF Level, Marks

(* The level after a step of the one client in a call that changes it.       *)
LEMMA LevelThen ==
    ASSUME Typed, Recoverable, Told, Live, NEW c \in Client, call' = call, view' = view
    PROVE  /\ call[c] = "start" =>
                 Level' = IF Done(c, "start")' THEN "started" ELSE "opened"
           /\ call[c] = "pause" =>
                 Level' = IF Done(c, "pause")' THEN "paused" ELSE "started"
           /\ call[c] = "resume" =>
                 Level' = IF Done(c, "resume")' THEN "started" ELSE "paused"
<1>1. ASSUME call[c] = "start"
      PROVE  Level' = IF Done(c, "start")' THEN "started" ELSE "opened"
  <2>1. view' = "opened"
      BY <1>1 DEF Told
  <2>2. \A b \in Client : ~Done(b, "pause")' /\ (Done(b, "start")' => b = c)
      BY <1>1, OneControls DEF Done, Told, Moving
  <2>. QED
      BY <2>1, <2>2 DEF Level
<1>2. ASSUME call[c] = "pause"
      PROVE  Level' = IF Done(c, "pause")' THEN "paused" ELSE "started"
  <2>1. view' = "started"
      BY <1>2 DEF Told
  <2>2. \A b \in Client : Done(b, "pause")' => b = c
      BY <1>2, OneControls DEF Done, Moving
  <2>. QED
      BY <2>1, <2>2 DEF Level
<1>3. ASSUME call[c] = "resume"
      PROVE  Level' = IF Done(c, "resume")' THEN "started" ELSE "paused"
  <2>1. view' = "paused"
      BY <1>3 DEF Told
  <2>2. \A b \in Client : ~Done(b, "pause")' /\ (Done(b, "resume")' => b = c)
      BY <1>3, OneControls DEF Done, Told, Moving
  <2>. QED
      BY <2>1, <2>2 DEF Level
<1>. QED
    BY <1>1, <1>2, <1>3

(* Returning from a call leaves the level, which is the view from then on.   *)
LEMMA Level_CallDone ==
    ASSUME Using, NEW c \in Client, CallDone(c)
    PROVE  Level' = Level
<1>1. /\ call[c] \in {"start", "pause", "resume", "write", "read"} /\ At(c, "return")
      /\ \A d \in Client : d # c => todo'[d] = todo[d]
  <2>1. call[c] \in CallName \ {"close"} /\ call[c] \notin {"open", "stop"}
      BY ClientAt, LastOfProgram, LevelAt DEF Using, CallDone
  <2>. QED
      BY <2>1, ClientStage DEF ClientStep, CallDone, Using, CallName
<1>2. /\ view' = IF status[c] = 0 THEN Outcome(call[c]) ELSE view
      /\ call' = [call EXCEPT ![c] = "none"] /\ status' = [status EXCEPT ![c] = 0]
    BY <1>1 DEF CallDone
<1>3. /\ call'[c] = "none"
      /\ \A d \in Client : d # c => call'[d] = call[d] /\ status'[d] = status[d]
    BY <1>2, ClientAt DEF Using, Typed, Fields, Thread
<1>4. CASE call[c] \in Moving
  <2>1. view' = view
      BY <1>2, <1>4 DEF Outcome, Moving
  <2>2. \A op \in Marks : ~Done(c, op) /\ ~Done(c, op)'
      BY <1>3, <1>4 DEF Done, Marks, Moving
  <2>. QED
      BY <1>1, <1>3, <2>1, <2>2, LevelElse
<1>5. CASE call[c] \in Marks
  <2>1. \A d \in Client : call'[d] \notin Marks
      BY <1>3, <1>5, OneControls DEF Using, Marks, Moving
  <2>2. \A d \in Client : ~Done(d, "start")' /\ ~Done(d, "pause")' /\ ~Done(d, "resume")'
      BY <2>1 DEF Done, Marks
  <2>3. view' = Level
    <3>1. \A op : Done(c, op) <=> call[c] = op /\ status[c] = 0
        BY <1>1, ClientAt, AtFirst DEF Done, Using
    <3>2. /\ call[c] = "start" =>
                view = "opened" /\ Level = IF status[c] = 0 THEN "started" ELSE "opened"
          /\ call[c] = "pause" =>
                view = "started" /\ Level = IF status[c] = 0 THEN "paused" ELSE "started"
          /\ call[c] = "resume" =>
                view = "paused" /\ Level = IF status[c] = 0 THEN "started" ELSE "paused"
        BY <3>1, LevelAt DEF Using
    <3>. QED
        BY <1>2, <1>5, <3>2 DEF Outcome, Marks
  <2>. QED
      BY <2>2, <2>3, LevelIs DEF Level
<1>. QED
    BY <1>1, <1>4, <1>5 DEF Moving, Marks

LEMMA Kept_CallDone ==
    ASSUME Using, NEW c \in Client, CallDone(c)
    PROVE  Kept'
<1>1. /\ Stage' = Stage /\ status'[Ssr] = status[Ssr]
  <2>1. \E s : status' = [status EXCEPT ![c] = s]
      BY DEF CallDone
  <2>. QED
      BY <2>1, ClientStage, ClientAt DEF ClientStep, Using, Typed, Fields, Thread
<1>2. UNCHANGED <<currentState, cachedState, isPaused, session, cardState, card>>
    BY DEF CallDone, streamVars, lowerVars, rmVars, cardVars
<1>. QED
    BY <1>1, <1>2, Level_CallDone, KeptSame DEF Using

LEMMA Kept_Call ==
    ASSUME Using, NEW c \in Client, Call(c), Live'
    PROVE  Kept'
<1>1. PICK op \in Calls[c] :
         /\ call' = [call EXCEPT ![c] = op]
         /\ todo' = [todo EXCEPT ![c] = Program(op)]
         /\ view' = IF op = "close" THEN "closing" ELSE view
    BY DEF Call
<1>2. /\ op \in CallName /\ call[c] = "none" /\ view' = view
      /\ \A d \in Client : d # c => call'[d] = call[d]
    BY <1>1, StreamAssumption DEF Using, Typed, Fields, Call, Live
<1>3. /\ Stage' = Stage /\ status' = status
      /\ \A d \in Client : d # c => todo'[d] = todo[d]
    BY ClientStage DEF Using, Call
<1>4. \A m \in Marks : ~Done(c, m) /\ ~Done(c, m)'
  <2>1. todo'[c] = Program(op)
      BY <1>1, ClientAt DEF Using, Typed, Programmed
  <2>2. ~At(c, "start_register")' /\ ~At(c, "return")'
      BY <1>2, <2>1 DEF At, Program, CallName
  <2>. QED
      BY <1>2, <2>2 DEF Done, Marks
<1>5. Level' = Level
    BY <1>2, <1>3, <1>4, LevelElse
<1>6. UNCHANGED <<currentState, cachedState, isPaused, session, cardState, card>>
    BY DEF Call, streamVars, lowerVars, rmVars, cardVars
<1>. QED
    BY <1>3, <1>5, <1>6, KeptSame DEF Using

LEMMA Returned ==
    ASSUME Typed, NEW c \in Client, NEW s \in {-1, 0}, Return(c, s), call' = call,
           todo[c] # <<>>,
           First(todo[c]) \in {"start", "start_register", "pause", "resume", "write",
                               "write_netreset", "write_resumed", "write_started", "read"}
    PROVE  /\ \A op : Done(c, op)' <=> call[c] = op /\ s = 0
           /\ \A t \in Thread : t # c => status'[t] = status[t]
<1>1. todo'[c] = One("return") /\ status'[c] = s /\ \A t \in Thread : t # c => status'[t] = status[t]
    BY ClientAt, ProgramRest, ThenGoes, GoesTo DEF Typed, Fields
<1>2. At(c, "return")' /\ ~At(c, "start_register")'
    BY <1>1 DEF At, One
<1>. QED
    BY <1>1, <1>2 DEF Done

LEMMA AtStart ==
    ASSUME Using, NEW c \in Client, At(c, "start")
    PROVE  /\ call[c] = "start" /\ Level = "opened"
           /\ ~isDown(cardState) => Stage # "down" /\ Stage # "lowering"
           /\ ~isDown(cardState) => currentState \in {"IDLE", "INIT"}
<1>1. call[c] = "start" /\ Level = "opened"
  <2>1. call[c] = "start" /\ ~At(c, "start_register") /\ ~At(c, "return")
      BY ClientAt, ProgramAt, AtFirst DEF Using
  <2>. QED
      BY <2>1, LevelAt DEF Using, Done
<1>2. ~isDown(cardState) => Stage # "down" /\ Stage # "lowering"
    BY UpStages, NoStage DEF Using, Informed
<1>3. ~isDown(cardState) => Stage = "none" \/ Stage \in Raising
    BY <1>2, UpStages, NoStage DEF Using
<1>4. ~isDown(cardState) => currentState \in {"IDLE", "INIT"}
    BY <1>1, <1>3 DEF Using, Kept, Idle, Proper, Raising
<1>. QED
    BY <1>1, <1>2, <1>4

LEMMA Kept_StartRefused ==
    ASSUME Using, NEW c \in Client, StartRefused(c)
    PROVE  Kept'
<1>1. /\ call[c] = "start" /\ Level = "opened" /\ currentState = "IDLE"
      /\ todo[c] # <<>> /\ First(todo[c]) = "start"
    BY AtStart, AtFirst DEF StartRefused
<1>2. Return(c, -1) /\ UNCHANGED <<call, view>>
    BY <1>1 DEF StartRefused, clientVars
<1>3. ~Done(c, "start")' /\ status'[Ssr] = status[Ssr]
    BY <1>1, <1>2, Returned, ClientAt DEF Using, Thread
<1>4. Level' = "opened"
    BY <1>1, <1>2, <1>3, LevelThen DEF Using
<1>5. Stage' = Stage
    BY ClientStage DEF Using, ClientStep, Method, Start
<1>6. UNCHANGED <<currentState, cachedState, isPaused, session, cardState, card>>
    BY DEF StartRefused, streamVars, lowerVars, rmVars, cardVars
<1>. QED
    BY <1>1, <1>3, <1>4, <1>5, <1>6, KeptSame DEF Using

LEMMA Kept_StartCached ==
    ASSUME Using, NEW c \in Client, StartCached(c)
    PROVE  Kept'
<1>1. /\ call[c] = "start" /\ Level = "opened" /\ isDown(cardState)
      /\ todo[c] # <<>> /\ First(todo[c]) = "start"
    BY AtStart, AtFirst DEF StartCached
<1>2. /\ Return(c, 0) /\ UNCHANGED <<call, view>> /\ cachedState' = "STARTED"
      /\ UNCHANGED <<currentState, isPaused, session, cardState, card>>
    BY DEF StartCached, clientVars, lowerVars, rmVars, cardVars
<1>3. Done(c, "start")'
    BY <1>1, <1>2, Returned DEF Using
<1>4. Level' = "started"
    BY <1>1, <1>2, <1>3, LevelThen DEF Using
<1>5. Stage' = Stage
    BY ClientStage DEF Using, ClientStep, Method, Start
<1>6. Stage \in {"none", "down", "lowering"}
    BY <1>1, UpStages, NoStage DEF Using, Supply
<1>7. Stage # "lowering" => Idle'
    BY <1>1, <1>2, <1>4, <1>6 DEF Using, Kept, Idle, Proper
<1>. QED
    BY <1>1, <1>2, <1>4, <1>5, <1>6, <1>7 DEF Using, Kept, Proper, isDown

LEMMA Kept_StartNetReset ==
    ASSUME Using, NEW c \in Client, StartNetReset(c)
    PROVE  Kept'
<1>1. /\ call[c] = "start" /\ Level = "opened" /\ ~isDown(cardState) /\ isDown(card)
      /\ todo[c] # <<>> /\ First(todo[c]) = "start" /\ currentState = "INIT"
      /\ Stage # "down" /\ Stage # "lowering"
    BY AtStart, AtFirst DEF StartNetReset, Starting
<1>2. /\ Return(c, 0) /\ UNCHANGED <<call, view>> /\ cachedState' = "STARTED"
      /\ UNCHANGED <<currentState, isPaused, session, cardState, card>>
    BY DEF StartNetReset, clientVars, cardVars
<1>3. Done(c, "start")'
    BY <1>1, <1>2, Returned DEF Using
<1>4. Level' = "started"
    BY <1>1, <1>2, <1>3, LevelThen DEF Using
<1>5. Stage' = Stage
    BY ClientStage DEF Using, ClientStep, Method, Start
<1>6. Stage = "none" /\ card # "ONLINE"
    BY <1>1, UpStages, NoStage DEF Using, Supply, isDown, Down
<1>7. Idle'
    BY <1>1, <1>2, <1>4 DEF Idle, Proper
<1>. QED
    BY <1>1, <1>2, <1>4, <1>5, <1>6, <1>7 DEF Using, Kept

LEMMA Kept_StartRunClient ==
    ASSUME Using, NEW c \in Client, StartRun(c)
    PROVE  Kept'
<1>1. /\ call[c] = "start" /\ Level = "opened" /\ ~isDown(cardState)
      /\ todo[c] # <<>> /\ First(todo[c]) = "start" /\ currentState = "INIT"
      /\ Stage # "down" /\ Stage # "lowering"
    BY AtStart, AtFirst DEF StartRun, Starting
<1>2. /\ Goes(c, Push("start_register", todo[c])) /\ UNCHANGED <<call, view, status>>
      /\ currentState' = "STARTED" /\ session' = "started"
      /\ UNCHANGED <<cachedState, isPaused, cardState, card>>
    BY ThenGoes DEF StartRun, clientVars, rmVars, cardVars
<1>3. Done(c, "start")'
  <2>1. todo'[c] = Push("start_register", todo[c])
      BY <1>2, ClientAt, GoesTo DEF Using
  <2>2. At(c, "start_register")'
      BY <2>1 DEF At, Push
  <2>. QED
      BY <1>1, <1>2, <2>2 DEF Done
<1>4. Level' = "started"
    BY <1>1, <1>2, <1>3, LevelThen DEF Using
<1>5. Stage' = Stage
    BY ClientStage DEF Using, ClientStep, Method, Start
<1>6. Stage \in {"none", "up", "up_exit"}
    BY <1>1, UpStages, NoStage DEF Using, Kept, Raising
<1>7. Stage \in {"none", "up"} => Idle' /\ cachedState' = "IDLE"
    BY <1>1, <1>2, <1>4 DEF Using, Kept, Idle, Proper
<1>. QED
    BY <1>1, <1>2, <1>4, <1>5, <1>6, <1>7 DEF Using, Kept, Proper

LEMMA Kept_StartRegisterClient ==
    ASSUME Using, NEW c \in Client, StartRegister(c)
    PROVE  Kept'
<1>1. /\ call[c] = "start" /\ todo[c] # <<>> /\ First(todo[c]) = "start_register"
    BY ClientAt, ProgramAt DEF StartRegister, Using
<1>2. Level = "started"
    BY <1>1, LevelAt, AtFirst DEF Using, Done
<1>3. Return(c, 0) /\ UNCHANGED <<call, view>>
    BY DEF StartRegister, clientVars
<1>4. Done(c, "start")' /\ status'[Ssr] = status[Ssr]
    BY <1>1, <1>3, Returned, ClientAt DEF Using, Thread
<1>5. Level' = "started"
    BY <1>1, <1>3, <1>4, LevelThen DEF Using
<1>6. Stage' = Stage
    BY ClientStage DEF Using, ClientStep, Method, Start
<1>7. UNCHANGED <<currentState, cachedState, isPaused, session, cardState, card>>
    BY DEF StartRegister, streamVars, rmVars, cardVars
<1>. QED
    BY <1>2, <1>4, <1>5, <1>6, <1>7, KeptSame DEF Using

LEMMA Kept_PauseClient ==
    ASSUME Using, NEW c \in Client, Pause(c)
    PROVE  Kept'
<1>1. /\ call[c] = "pause" /\ todo[c] # <<>> /\ First(todo[c]) = "pause"
  <2>1. At(c, "pause")
      BY DEF Pause
  <2>. QED
      BY <2>1, ClientAt, ProgramAt DEF Using
<1>2. /\ Level = "started"
      /\ ~isDown(cardState) /\ cachedState = "IDLE" /\ Stage = "none"
  <2>1. ~At(c, "start_register") /\ ~At(c, "return")
      BY <1>1, AtFirst
  <2>. QED
      BY <1>1, <2>1, LevelAt DEF Using, Done, Clear
<1>3. currentState \in {"STARTED", "PAUSED"} /\ session \in {"started", "paused"}
    BY <1>2, ImproperIdle DEF Using, Kept, Idle, Proper
<1>4. Stage' = Stage /\ UNCHANGED <<call, view, cardState, card>>
    BY ClientStage DEF Using, ClientStep, Method, Pause, clientVars, rmVars, cardVars
<1>5. \/ Return(c, -1) /\ UNCHANGED <<currentState, cachedState, isPaused, session>>
      \/ /\ Return(c, 0) /\ currentState' = "PAUSED" /\ isPaused' = TRUE
         /\ cachedState' = cachedState /\ session' \in {"paused", session}
    BY <1>2 DEF Pause, streamVars
<1>6. CASE Return(c, -1) /\ UNCHANGED <<currentState, cachedState, isPaused, session>>
  <2>1. ~Done(c, "pause")' /\ status'[Ssr] = status[Ssr]
      BY <1>1, <1>4, <1>6, Returned, ClientAt DEF Using, Thread
  <2>2. Level' = "started"
      BY <1>1, <1>4, <2>1, LevelThen DEF Using
  <2>. QED
      BY <1>2, <1>4, <1>6, <2>1, <2>2, KeptSame DEF Using
<1>7. CASE /\ Return(c, 0) /\ currentState' = "PAUSED" /\ isPaused' = TRUE
           /\ cachedState' = cachedState /\ session' \in {"paused", session}
  <2>1. Done(c, "pause")'
      BY <1>1, <1>4, <1>7, Returned DEF Using
  <2>2. Level' = "paused"
      BY <1>1, <1>4, <2>1, LevelThen DEF Using
  <2>3. Idle'
      BY <1>2, <1>7, <2>2 DEF Idle, Proper
  <2>. QED
      BY <1>2, <1>3, <1>4, <1>7, <2>2, <2>3 DEF Kept
<1>. QED
    BY <1>5, <1>6, <1>7

LEMMA Kept_Resume ==
    ASSUME Using, NEW c \in Client, Resume(c)
    PROVE  Kept'
<1>1. /\ call[c] = "resume" /\ todo[c] # <<>> /\ First(todo[c]) = "resume"
  <2>1. At(c, "resume")
      BY DEF Resume
  <2>. QED
      BY <2>1, ClientAt, ProgramAt DEF Using
<1>2. /\ Level = "paused"
      /\ ~isDown(cardState) /\ cachedState = "IDLE" /\ Stage = "none"
  <2>1. ~At(c, "start_register") /\ ~At(c, "return")
      BY <1>1, AtFirst
  <2>. QED
      BY <1>1, <2>1, LevelAt DEF Using, Done, Clear
<1>3. currentState = "PAUSED" /\ session \in {"started", "paused"}
    BY <1>2, ImproperIdle DEF Using, Kept, Idle, Proper
<1>4. Stage' = Stage /\ UNCHANGED <<call, view, cardState, card, currentState>>
    BY ClientStage DEF Using, ClientStep, Resume, clientVars, rmVars, cardVars
<1>5. \/ Return(c, -1) /\ UNCHANGED <<cachedState, isPaused, session>>
      \/ Return(c, 0) /\ cachedState' = cachedState /\ session' \in {"started", session}
    BY <1>2 DEF Resume
<1>6. CASE Return(c, -1) /\ UNCHANGED <<cachedState, isPaused, session>>
  <2>1. ~Done(c, "resume")' /\ status'[Ssr] = status[Ssr]
      BY <1>1, <1>4, <1>6, Returned, ClientAt DEF Using, Thread
  <2>2. Level' = "paused"
      BY <1>1, <1>4, <2>1, LevelThen DEF Using
  <2>. QED
      BY <1>2, <1>4, <1>6, <2>1, <2>2, KeptSame DEF Using
<1>7. CASE Return(c, 0) /\ cachedState' = cachedState /\ session' \in {"started", session}
  <2>1. Done(c, "resume")'
      BY <1>1, <1>4, <1>7, Returned DEF Using
  <2>2. Level' = "started"
      BY <1>1, <1>4, <2>1, LevelThen DEF Using
  <2>3. Idle'
      BY <1>2, <1>3, <1>4, <1>7, <2>2 DEF Idle, Proper
  <2>. QED
      BY <1>2, <1>3, <1>4, <1>7, <2>2, <2>3 DEF Kept
<1>. QED
    BY <1>5, <1>6, <1>7

(* Moving data changes the stream only where it ends a pause.                *)
LEMMA Kept_Data ==
    ASSUME Using, NEW c \in Client,
           \/ Write(c) \/ WriteNetReset(c) \/ WriteResumed(c) \/ WriteRegister(c)
           \/ WriteStarted(c) \/ Read(c)
    PROVE  Kept'
<1>1. call[c] \in Moving
  <2>1. CASE Write(c) \/ WriteNetReset(c) \/ WriteResumed(c)
    <3>1. At(c, "write") \/ At(c, "write_netreset") \/ At(c, "write_resumed")
        BY <2>1 DEF Write, WriteNetReset, WriteResumed
    <3>. QED
        BY <3>1, ClientAt, ProgramAt DEF Using, Moving
  <2>2. CASE WriteRegister(c) \/ WriteStarted(c) \/ Read(c)
    <3>1. At(c, "write_register") \/ At(c, "write_started") \/ At(c, "read")
        BY <2>2 DEF WriteRegister, WriteStarted, Read
    <3>. QED
        BY <3>1, ClientAt, ProgramAt DEF Using, Moving
  <2>. QED
      BY <2>1, <2>2
<1>2. /\ UNCHANGED <<call, view>> /\ (status' = status \/ \E s : status' = [status EXCEPT ![c] = s])
  <2>1. CASE Write(c) \/ WriteNetReset(c) \/ WriteResumed(c)
      BY <2>1 DEF Write, WriteNetReset, WriteResumed, clientVars, Return
  <2>2. CASE WriteRegister(c) \/ WriteStarted(c) \/ Read(c)
      BY <2>2 DEF WriteRegister, WriteStarted, Read, clientVars, Return
  <2>. QED
      BY <2>1, <2>2
<1>3. \A t \in Thread : t # c => status'[t] = status[t]
    BY <1>2 DEF Using, Typed, Fields
<1>4. /\ status'[Ssr] = status[Ssr] /\ Stage' = Stage
      /\ \A d \in Client : d # c => todo'[d] = todo[d]
    BY <1>3, ClientStage, ClientAt DEF Using, ClientStep, Thread
<1>5. \A m \in Marks : ~Done(c, m) /\ ~Done(c, m)'
    BY <1>1, <1>2 DEF Done, Marks, Moving
<1>6. Level' = Level
    BY <1>2, <1>3, <1>4, <1>5, LevelElse DEF Thread
<1>7. UNCHANGED <<cachedState, isPaused, session, cardState, card>>
  <2>1. CASE Write(c) \/ WriteNetReset(c) \/ WriteResumed(c)
      BY <2>1 DEF Write, WriteNetReset, WriteResumed, streamVars, lowerVars, rmVars, cardVars
  <2>2. CASE WriteRegister(c) \/ WriteStarted(c) \/ Read(c)
      BY <2>2 DEF WriteRegister, WriteStarted, Read, streamVars, lowerVars, rmVars, cardVars
  <2>. QED
      BY <2>1, <2>2
<1>8. CASE ~WriteStarted(c)
  <2>1. currentState' = currentState
      BY <1>8 DEF Write, WriteNetReset, WriteResumed, WriteRegister, Read, streamVars
  <2>. QED
      BY <1>4, <1>6, <1>7, <2>1, KeptSame DEF Using
<1>9. CASE WriteStarted(c)
  <2>1. currentState = "PAUSED" /\ ~isPaused /\ Stage = "none" /\ currentState' = "STARTED"
      BY <1>9 DEF WriteStarted, Using, Clear
  <2>2. cachedState = "IDLE" /\ Level = "started" /\ session \in {"started", "paused"}
      BY <2>1, LevelIs DEF Using, Kept, Idle, Proper
  <2>3. Idle'
      BY <1>6, <1>7, <2>1, <2>2 DEF Idle, Proper
  <2>. QED
      BY <1>4, <1>6, <1>7, <2>1, <2>2, <2>3 DEF Kept
<1>. QED
    BY <1>8, <1>9

LEMMA Kept_Client ==
    ASSUME Using, NEW c \in Client, Call(c) \/ ClientStep(c), Live'
    PROVE  Kept'
<1>1. call[c] \notin {"open", "stop", "close"}
    BY LevelAt DEF Using
<1>2. CASE Call(c) \/ CallDone(c)
    BY <1>2, Kept_Call, Kept_CallDone
<1>3. CASE SetCachedState(c) \/ CloseDone(c)
  <2>1. At(c, "set_stopped") \/ At(c, "set_idle") \/ At(c, "destroy")
      BY <1>3 DEF SetCachedState, CloseDone
  <2>. QED
      BY <1>1, <2>1, ClientAt, ProgramAt DEF Using
<1>4. CASE StopCheck(c) \/ StopRun(c) \/ CloseCheck(c) \/ CloseRun(c)
  <2>1. At(c, "stop") \/ At(c, "stop_locked") \/ At(c, "close") \/ At(c, "close_locked")
      BY <1>4 DEF StopCheck, StopRun, CloseCheck, CloseRun
  <2>. QED
      BY <1>1, <2>1, ClientAt, ProgramAt DEF Using
<1>5. CASE Open(c)
  <2>1. At(c, "open")
      BY <1>5 DEF Open, OpenRefused, OpenRun, OpenDeviceFails, OpenSessionFails
  <2>. QED
      BY <1>1, <2>1, ClientAt, ProgramAt DEF Using
<1>6. CASE Start(c)
    BY <1>6, NoFailures, Kept_StartRefused, Kept_StartCached, Kept_StartNetReset,
       Kept_StartRunClient, Kept_StartRegisterClient DEF Start, Using, Able
<1>7. CASE Pause(c) \/ Resume(c)
    BY <1>7, Kept_PauseClient, Kept_Resume
<1>8. CASE \/ Write(c) \/ WriteNetReset(c) \/ WriteResumed(c) \/ WriteRegister(c)
           \/ WriteStarted(c) \/ Read(c)
    BY <1>8, Kept_Data
<1>. QED
    BY <1>2, <1>3, <1>4, <1>5, <1>6, <1>7, <1>8 DEF ClientStep, Method

(* A stream is taken to be opened only when it has been.                     *)
LEMMA Kept_Opened ==
    ASSUME Typed, Recoverable, Told, New, ~Live, Live', NEW c \in Client,
           Call(c) \/ ClientStep(c)
    PROVE  Kept'
<1>1. CallDone(c)
  <2>1. view' # view
      BY DEF Live
  <2>2. ~Method(c)
      BY <2>1, MethodMoves DEF clientVars, Thread
  <2>3. ~Resume(c) /\ ~Write(c) /\ ~WriteNetReset(c) /\ ~WriteResumed(c)
      BY <2>1 DEF Resume, Write, WriteNetReset, WriteResumed, clientVars
  <2>4. ~WriteRegister(c) /\ ~WriteStarted(c) /\ ~Read(c) /\ ~SetCachedState(c)
      BY <2>1 DEF WriteRegister, WriteStarted, Read, SetCachedState, clientVars
  <2>5. ~CloseDone(c) /\ ~Call(c)
      BY <2>1 DEF CloseDone, Call, Live
  <2>. QED
      BY <2>2, <2>3, <2>4, <2>5 DEF ClientStep
<1>2. /\ call[c] \in CallName \ {"close"} /\ At(c, "return") /\ todo[c] # <<>>
      /\ First(todo[c]) = "return"
    BY <1>1, ClientAt, LastOfProgram DEF CallDone
<1>3. call[c] = "open" /\ status[c] = 0 /\ view' = "opened"
  <2>1. call[c] = "open"
      BY <1>1, <1>2 DEF Told, Live, Moving, CallName, CallDone, Outcome, Recoverable
  <2>. QED
      BY <1>1, <2>1 DEF CallDone, Live, Outcome
<1>4. view = "none"
    BY <1>2, <1>3, Firsts DEF Told, Closing
<1>5. Stage = "none" /\ cachedState = "IDLE" /\ currentState = "INIT"
    BY <1>2, <1>3, <1>4 DEF New
<1>6. Level' = "opened"
  <2>1. \A d \in Client : d # c => call[d] = "none"
      BY <1>3, <1>4, NobodyElse
  <2>2. call' = [call EXCEPT ![c] = "none"]
      BY <1>1, <1>3 DEF CallDone
  <2>3. \A d \in Client : call'[d] = "none"
      BY <2>1, <2>2 DEF Typed, Fields
  <2>4. \A d \in Client : ~Done(d, "start")' /\ ~Done(d, "pause")' /\ ~Done(d, "resume")'
      BY <2>3 DEF Done
  <2>. QED
      BY <1>3, <2>4 DEF Level
<1>7. /\ Stage' = "none" /\ cachedState' = "IDLE" /\ currentState' = "INIT"
    BY <1>1, <1>5, ClientStage DEF CallDone, streamVars
<1>. QED
    BY <1>6, <1>7 DEF Kept, Idle, Proper

LEMMA Kept_Card ==
    ASSUME Typed, Recoverable, Live => Kept, CardChange \/ MonitorPost \/ MonitorDiscard, Live'
    PROVE  Kept'
<1>1. /\ UNCHANGED <<currentState, cachedState, isPaused, session, cardState, status, view,
                     call, todo>>
      /\ card' = card \/ CardChange
    BY DEF CardChange, MonitorPost, MonitorDiscard, streamVars, lowerVars, rmVars, clientVars
<1>2. Stage' = Stage /\ Level' = Level
    BY <1>1, SameStage, SameLevel
<1>3. Live /\ Kept
    BY <1>1 DEF Live
<1>4. CASE card' = card
    BY <1>1, <1>2, <1>3, <1>4, KeptSame
<1>5. CASE CardChange
  <2>1. cardState = card /\ card' # card
      BY <1>5 DEF CardChange, Recoverable, Handled
  <2>2. card' = "ONLINE" => isDown(cardState)
      BY <2>1 DEF Typed, Fields, Card, isDown
  <2>. QED
      BY <1>1, <1>2, <1>3, <2>2 DEF Kept, Idle, Proper, isDown
<1>. QED
    BY <1>1, <1>4, <1>5

LEMMA KeptLiveNext ==
    ASSUME Typed, Recoverable, Informed, RecInv, Next
    PROVE  KeptLive'
<1>1. SUFFICES ASSUME Live' PROVE Kept'
    BY DEF KeptLive
<1>2. Clear
    BY ClearAlways DEF RecInv, Held
<1>3. ASSUME NEW c \in Client, Call(c) \/ ClientStep(c)
      PROVE  Kept'
  <2>1. CASE Live
      BY <1>1, <1>2, <1>3, <2>1, Kept_Client DEF RecInv, Held, KeptLive, Using
  <2>2. CASE ~Live
      BY <1>1, <1>3, <2>2, Kept_Opened DEF RecInv
  <2>. QED
      BY <2>1, <2>2
<1>4. CASE SsrStep
  <2>1. Live
      BY <1>1, <1>4, SsrLeaves DEF Live
  <2>. QED
      BY <1>4, <2>1, Kept_Ssr DEF RecInv, Held, KeptLive, Worker
<1>5. CASE CardChange \/ MonitorPost \/ MonitorDiscard
    BY <1>1, <1>5, Kept_Card DEF RecInv, KeptLive
<1>. QED
    BY <1>3, <1>4, <1>5 DEF Next

LEMMA SupplyNext ==
    ASSUME Typed, Recoverable, Supply, Able, Next
    PROVE  Supply'
BY Supply_Client, Supply_Ssr, Supply_Card DEF Next, Able, Recoverable

LEMMA RecNext ==
    ASSUME Typed, Recoverable, Informed, RecInv, [Next]_vars
    PROVE  RecInv'
<1>1. CASE Next
  <2>1. Supply' /\ Told' /\ Able' /\ New'
      BY <1>1, SupplyNext, ToldNext, AbleNext, NewNext DEF RecInv, Held
  <2>2. Apart'
      BY <1>1, ApartNext DEF RecInv, Held
  <2>3. KeptLive'
      BY <1>1, KeptLiveNext
  <2>4. NobodyPauses => Unpaused'
      BY UnpausedNext DEF RecInv
  <2>. QED
      BY <2>1, <2>2, <2>3, <2>4 DEF RecInv, Held, NobodyPauses
<1>2. CASE UNCHANGED vars
  <2>1. /\ UNCHANGED <<currentState, cachedState, isPaused, skipSSRHandling, mStreamAttr,
                       mDevices, session, cardState, prevState, msgQ, card, event, monitor,
                       call, todo, status, view>>
      BY <1>2 DEF vars, streamVars, lowerVars, rmVars, cardVars, clientVars
  <2>2. Stage' = Stage /\ Level' = Level
      BY <2>1, SameStage, SameLevel
  <2>3. Supply' /\ Told'
      BY <2>1, <2>2 DEF RecInv, Supply, Told, isDown, AllDown, At
  <2>4. Held' /\ New'
      BY <2>1, <2>2 DEF RecInv, Held, Able, Apart, Clear, New, NobodyPauses, isDown, At
  <2>5. KeptLive'
      BY <2>1, <2>2, KeptSame DEF RecInv, KeptLive, Live
  <2>6. NobodyPauses => Unpaused'
      BY UnpausedNext DEF RecInv
  <2>. QED
      BY <2>3, <2>4, <2>5, <2>6 DEF RecInv, NobodyPauses
<1>. QED
    BY <1>1, <1>2

LEMMA RecInit == ASSUME Recoverable PROVE Init => RecInv
<1>1. SUFFICES ASSUME Init PROVE RecInv
    OBVIOUS
<1>2. /\ \A c \in Client : todo[c] = <<>> /\ call[c] = "none"
      /\ todo[Ssr] = <<>>
    BY <1>1 DEF Init, Thread
<1>3. Stage = "none" /\ \A c \in Client : \A l : ~At(c, l)
    BY <1>2, Stages DEF Stage, At
<1>4. Supply
  <2>1. ~isDown("ONLINE") /\ ~event /\ msgQ = <<>> /\ card = "ONLINE" /\ cardState = "ONLINE"
        /\ prevState = "ONLINE"
      BY <1>1 DEF Init, isDown, Down
  <2>. QED
      BY <1>3, <2>1, DownQueue DEF Supply, Raising
<1>5. Told
    BY <1>1, <1>2 DEF Told, Init, Moving
<1>6. Held
    BY <1>1, <1>2, <1>3 DEF Held, Able, Apart, Clear, Init, Recoverable
<1>7. New /\ KeptLive
    BY <1>1, <1>2, <1>3 DEF New, KeptLive, Live, Init
<1>8. Unpaused
  <2>1. <<>> \notin PausePrograms /\ <<>> \notin ResumePrograms
      BY Sequences DEF PausePrograms, ResumePrograms
  <2>. QED
      BY <1>1, <1>2, <2>1 DEF Init, Unpaused
<1>. QED
    BY <1>4, <1>5, <1>6, <1>7, <1>8 DEF RecInv

LEMMA RecAlways == ASSUME Recoverable PROVE Spec => []RecInv
<1>1. Init => RecInv
    BY RecInit
<1>2. Typed /\ Informed /\ RecInv /\ [Next]_vars => RecInv'
    BY RecNext
<1>. QED
    BY <1>1, <1>2, TypedAlways, InformedAlways, PTL DEF Spec

(* What the stream has come to again once a round is over.                   *)
LEMMA BackAgain ==
    ASSUME Typed, RecInv, Stable, Live
    PROVE  /\ Level = view /\ Proper(currentState) /\ Kept
           /\ ~isDown(cardState) /\ cachedState = "IDLE"
<1>1. Stage = "none" /\ card = "ONLINE" /\ cardState = "ONLINE"
    BY NoStage DEF Stable, Handled
<1>2. ~isDown(cardState) /\ cachedState = "IDLE"
    BY <1>1 DEF RecInv, KeptLive, Kept, isDown, Down
<1>3. Level = view
  <2>1. \A c \in Client : \A op : ~Done(c, op)
      BY DEF Stable, Quiet, Thread, Done, At
  <2>. QED
      BY <2>1 DEF Level, Live
<1>4. Kept /\ Proper(currentState)
    BY <1>1, <1>2, ImproperIdle DEF RecInv, KeptLive, Kept, Idle
<1>. QED
    BY <1>2, <1>3, <1>4

(* When ssrDownHandler and ssrUpHandler are through and the card is up       *)
(* again, a stream that its client was told to be started plays, and one     *)
(* that was opened is open: also when the client starts the stream, opens it *)
(* or writes to it in the middle of the round, or learns of the loss first   *)
(* (ENETRESET).  A resumed stream is excluded, it is PAUSED until it is      *)
(* written to and comes back as that.                                        *)
THEOREM AlwaysRecovered == ASSUME Recoverable, NobodyPauses PROVE Spec => []Recovered
<1>1. ASSUME Typed, RecInv, Stable
      PROVE  /\ view = "started" => Playing
             /\ view = "opened"  => currentState = "INIT"
  <2>1. CASE view = "started"
    <3>1. /\ currentState = "STARTED" /\ session = "started"
      <4>1. /\ currentState \in {"STARTED", "PAUSED"} /\ session \in {"started", "paused"}
          BY <1>1, <2>1, BackAgain DEF Live, Proper, Kept
      <4>. QED
          BY <1>1, <4>1 DEF RecInv, Unpaused
    <3>2. ~Dropping
        BY <1>1, <2>1, BackAgain DEF Live, Dropping
    <3>. QED
        BY <2>1, <3>1, <3>2 DEF Playing
  <2>2. CASE view = "opened"
      BY <1>1, <2>2, BackAgain DEF Live, Proper
  <2>. QED
      BY <2>1, <2>2
<1>2. Typed /\ RecInv => Recovered
    BY <1>1 DEF Recovered
<1>. QED
    BY <1>2, TypedAlways, RecAlways, PTL

(* A stream that its client paused comes back from ssrUpHandler started and  *)
(* paused again, so that the client's resume finds it as it left it.         *)
THEOREM PauseSurvives == ASSUME Recoverable PROVE Spec => []PausedComesBack
<1>1. Typed /\ RecInv => PausedComesBack
  <2>1. SUFFICES ASSUME Typed, RecInv, Stable, view = "paused"
                 PROVE  /\ currentState = "PAUSED" /\ isPaused
                        /\ session \in {"started", "paused"}
      BY DEF PausedComesBack
  <2>. QED
      BY <2>1, BackAgain DEF Live, Proper, Kept
<1>. QED
    BY <1>1, TypedAlways, RecAlways, PTL
=============================================================================
