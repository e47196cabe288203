---------------------------- MODULE MC_StreamPCM ----------------------------
(* Instances of StreamPCM: which streams there are and which thread makes  *)
(* which calls.                                                            *)
EXTENDS StreamPCM

CONSTANTS
    d1, d2, m1,     \* two output devices and an input device
    ctl, io         \* a control thread and a thread that moves data

Out(D, standby) == [direction |-> "out", devices |-> D, standby |-> standby]
In(D)           == [direction |-> "in", devices |-> D, standby |-> FALSE]
Loop(D)         == [direction |-> "loop", devices |-> D, standby |-> FALSE]

OneOutput == {Out({d1}, FALSE)}
Outputs   == {Out({d1, d2}, FALSE)}
InStandby == {Out({d1}, TRUE)}
AllKinds  == {Out({d1, d2}, FALSE), Out({d1}, TRUE), In({m1}), Loop({d1, m1})}

(* The control thread never stops the stream, it only closes it.           *)
NoStop == [c \in Client |->
              IF c = io THEN {"write"} ELSE {"open", "start", "close"}]

Transport == [c \in Client |->
              IF c = io THEN {"write", "read"} ELSE {"open", "start", "stop", "close"}]

(* One thread does everything.                                             *)
PauseResume == [c \in Client |->
              {"open", "start", "pause", "resume", "write", "close"}]
Everything  == [c \in Client |-> CallName]
=============================================================================
