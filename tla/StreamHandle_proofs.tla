------------------------ MODULE StreamHandle_proofs ------------------------
(***************************************************************************)
(* The safety of the user counter, for any number of clients and handles.  *)
(***************************************************************************)
EXTENDS StreamHandle, FiniteSetTheorems, TLAPS

OwnerPC == {"open"} \cup ClosingPC

(* Who holds the mutex.                                                    *)
MutexInv ==
    /\ mutex = Ssr <=> pc[Ssr] \in {"walk", "handler", "handled"}
    /\ \A c \in Client : mutex = c <=> pc[c] = "increase"

(* A stream that is being opened or closed belongs to one thread.          *)
OwnerInv ==
    /\ \A c, d \in Client :
          pc[c] \in OwnerPC /\ pc[d] \in OwnerPC /\ arg[c] = arg[d] => c = d
    /\ \A c \in Client :
          /\ pc[c] \in OwnerPC => arg[c] \in activeStreams
          /\ pc[c] \in {"open", "destroy"} => arg[c] \notin entry
          /\ pc[c] \in {"semwait", "erase"} => arg[c] \in entry /\ ~active[arg[c]]
    /\ entry \subseteq activeStreams

(* The counter counts the users, and only a stream with an entry has any.  *)
CountInv ==
    /\ \A h \in entry : count[h] = Cardinality(UsersOf(h))
    /\ \A h \in Handle \ entry : UsersOf(h) = {}

(* The semaphore is the complement of the counter until the closer has     *)
(* taken it, and it is taken only when the counter is 0.                   *)
Taken(h) == \E c \in Client : pc[c] = "erase" /\ arg[c] = h

SemInv ==
    \A h \in entry :
        /\ ~Taken(h) => mInUse[h] = (IF count[h] = 0 THEN 1 ELSE 0)
        /\ Taken(h) => count[h] = 0

IndInv == TypeOK /\ MutexInv /\ OwnerInv /\ CountInv /\ SemInv

-----------------------------------------------------------------------------
(* How a step of one thread changes the sets of users.                     *)

(* The threads of the program, and so the users of a stream, are finitely  *)
(* many: the counter can be compared with a cardinality.                   *)
LEMMA UsersFinite ==
    \A h \in Handle : IsFiniteSet(UsersOf(h))
<1>1. IsFiniteSet(Thread)
  BY ClientAssumption, FS_AddElement DEF Thread
<1>2. QED
  BY <1>1, FS_Subset DEF UsersOf

(* A step outside the counted calls leaves every set of users alone.       *)
LEMMA GotoQuiet ==
    ASSUME TypeOK, NEW t \in Thread, NEW from, NEW to, NEW h,
           Goto(t, from, to, h), from \notin UsingPC, to \notin UsingPC
    PROVE  \A g \in Handle : UsersOf(g)' = UsersOf(g)
BY DEF TypeOK, Goto, UsersOf

(* A step inside one call leaves them alone as well.                       *)
LEMMA GotoStay ==
    ASSUME TypeOK, NEW t \in Thread, NEW from, NEW to,
           Goto(t, from, to, arg[t]), from \in UsingPC, to \in UsingPC
    PROVE  \A g \in Handle : UsersOf(g)' = UsersOf(g)
BY DEF TypeOK, Goto, UsersOf

(* A step into a counted call adds the thread to the users of one stream.  *)
LEMMA GotoEnter ==
    ASSUME TypeOK, NEW t \in Thread, NEW from, NEW to, NEW h \in Handle,
           Goto(t, from, to, h), from \notin UsingPC, to \in UsingPC
    PROVE  /\ UsersOf(h)' = UsersOf(h) \cup {t}
           /\ Cardinality(UsersOf(h)') = Cardinality(UsersOf(h)) + 1
           /\ \A g \in Handle \ {h} : UsersOf(g)' = UsersOf(g)
<1>1. t \notin UsersOf(h)
  BY DEF Goto, UsersOf
<1>2. UsersOf(h)' = UsersOf(h) \cup {t}
  BY DEF TypeOK, Goto, UsersOf
<1>3. \A g \in Handle \ {h} : UsersOf(g)' = UsersOf(g)
  BY DEF TypeOK, Goto, UsersOf
<1>4. QED
  BY <1>1, <1>2, <1>3, UsersFinite, FS_AddElement

(* A step out of one removes it, and the stream had a user until then.     *)
LEMMA GotoLeave ==
    ASSUME TypeOK, NEW t \in Thread, NEW from, NEW to, NEW h, NEW g \in Handle,
           Goto(t, from, to, h), from \in UsingPC, to \notin UsingPC,
           arg[t] = g
    PROVE  /\ UsersOf(g)' = UsersOf(g) \ {t}
           /\ t \in UsersOf(g)
           /\ Cardinality(UsersOf(g)) \in Nat
           /\ Cardinality(UsersOf(g)) > 0
           /\ Cardinality(UsersOf(g)') = Cardinality(UsersOf(g)) - 1
           /\ \A f \in Handle \ {g} : UsersOf(f)' = UsersOf(f)
<1>1. t \in UsersOf(g)
  BY DEF Goto, UsersOf
<1>2. UsersOf(g)' = UsersOf(g) \ {t}
  BY DEF TypeOK, Goto, UsersOf
<1>3. \A f \in Handle \ {g} : UsersOf(f)' = UsersOf(f)
  BY DEF TypeOK, Goto, UsersOf
<1>4. IsFiniteSet(UsersOf(g))
  BY UsersFinite
<1>5. Cardinality(UsersOf(g) \ {t}) = Cardinality(UsersOf(g)) - 1
  BY <1>1, <1>4, FS_RemoveElement
<1>6. Cardinality(UsersOf(g)) \in Nat
  BY <1>4, FS_CardinalityType
<1>7. Cardinality(UsersOf(g)) # 0
  BY <1>1, <1>4, FS_EmptySet
<1>8. QED
  BY <1>1, <1>2, <1>3, <1>5, <1>6, <1>7

-----------------------------------------------------------------------------
(* Type correctness *)

(* No step of any thread breaks a type.                                    *)
LEMMA TypeStep == TypeOK /\ [Next]_vars => TypeOK'
<1> SUFFICES ASSUME TypeOK, [Next]_vars PROVE TypeOK'
  OBVIOUS
<1> USE DEF TypeOK, Thread, ClientPC, SsrPC, Goto, counterVars
<1>1. ASSUME NEW c \in Client, ClientCall(c) PROVE TypeOK'
  BY <1>1, ClientAssumption DEF ClientCall, OpenCreate, UserLock, CloseCheck
<1>2. ASSUME NEW c \in Client, OpenDone(c) \/ OpenFail(c) PROVE TypeOK'
  <2>1. CASE OpenFail(c)
    BY <2>1, ClientAssumption DEF OpenFail
  <2>2. CASE OpenDone(c)
    <3>1. entry' \in SUBSET Handle
      BY <2>2 DEF OpenDone
    <3>2. active' \in [Handle -> BOOLEAN]
      BY <2>2 DEF OpenDone
    <3>3. QED
      BY <2>2, <3>1, <3>2, ClientAssumption DEF OpenDone
  <2>3. QED
    BY <1>2, <2>1, <2>2
<1>3. ASSUME NEW c \in Client, UserRefused(c) \/ UserEnter(c) \/ UserLeave(c)
      PROVE TypeOK'
  BY <1>3, ClientAssumption
     DEF UserRefused, UserEnter, UserLeave, increaseStreamUserCounter,
         decreaseStreamUserCounter
<1>4. ASSUME NEW c \in Client,
             CloseDeactivate(c) \/ CloseWait(c) \/ CloseErase(c) \/ CloseDestroy(c)
      PROVE TypeOK'
  <2>1. CASE CloseDeactivate(c)
    <3>1. active' \in [Handle -> BOOLEAN]
      BY <2>1 DEF CloseDeactivate
    <3>2. QED
      BY <2>1, <3>1, ClientAssumption DEF CloseDeactivate
  <2>2. CASE CloseWait(c)
    BY <2>2, ClientAssumption DEF CloseWait
  <2>3. CASE CloseErase(c) \/ CloseDestroy(c)
    BY <2>3, ClientAssumption DEF CloseErase, CloseDestroy
  <2>4. QED
    BY <1>4, <2>1, <2>2, <2>3
<1>5. ASSUME SsrBegin \/ SsrUnlock \/ SsrRelock \/ SsrEnd PROVE TypeOK'
  BY <1>5, ClientAssumption DEF SsrBegin, SsrUnlock, SsrRelock, SsrEnd
<1>6. ASSUME NEW h \in Handle, SsrSkip(h) \/ SsrVisit(h) PROVE TypeOK'
  BY <1>6, ClientAssumption DEF SsrSkip, SsrVisit, increaseStreamUserCounter
<1>7. ASSUME SsrLeave PROVE TypeOK'
  BY <1>7, ClientAssumption DEF SsrLeave, decreaseStreamUserCounter
<1>8. ASSUME UNCHANGED vars PROVE TypeOK'
  BY <1>8 DEF vars
<1>9. QED
  BY <1>1, <1>2, <1>3, <1>4, <1>5, <1>6, <1>7, <1>8
     DEF Next, ClientStep, SsrStep

(* Every variable keeps its type in every step of every thread.            *)
THEOREM TypeCorrect == Spec => []TypeOK
<1>1. Init => TypeOK
  BY DEF Init, TypeOK, Thread, ClientPC, SsrPC
<1>2. QED
  BY <1>1, TypeStep, PTL DEF Spec

-----------------------------------------------------------------------------
(* The inductive invariant *)

(* Nobody has opened a stream yet.                                         *)
LEMMA InitInd == Init => IndInv
<1> SUFFICES ASSUME Init PROVE IndInv
  OBVIOUS
<1>1. TypeOK
  BY DEF Init, TypeOK, Thread, ClientPC, SsrPC
<1>2. MutexInv /\ OwnerInv
  BY ClientAssumption
     DEF Init, MutexInv, OwnerInv, Thread, OwnerPC, ClosingPC
<1>3. CountInv /\ SemInv
  BY DEF Init, CountInv, SemInv, UsersOf, UsingPC, Thread
<1>4. QED
  BY <1>1, <1>2, <1>3 DEF IndInv

(* A thread that counts itself in keeps the counter and the semaphore.     *)
LEMMA EnterInd ==
    ASSUME IndInv, NEW t \in Thread, NEW from, NEW to, NEW g \in Handle,
           Goto(t, from, to, g), from \notin UsingPC \cup ClosingPC, to \in UsingPC,
           increaseStreamUserCounter(g), UNCHANGED activeStreams
    PROVE  CountInv' /\ SemInv'
<1>1. /\ Cardinality(UsersOf(g)') = Cardinality(UsersOf(g)) + 1
      /\ \A f \in Handle \ {g} : UsersOf(f)' = UsersOf(f)
  BY GotoEnter DEF IndInv
<1>2. CountInv'
  BY <1>1 DEF IndInv, TypeOK, CountInv, increaseStreamUserCounter, CanUse
<1>3. \A f : Taken(f)' <=> Taken(f)
  BY DEF IndInv, TypeOK, Goto, Taken, UsingPC, ClosingPC, Thread
<1>4. ~Taken(g)
  BY DEF IndInv, OwnerInv, Taken, increaseStreamUserCounter, CanUse
<1>5. SemInv'
  BY <1>3, <1>4 DEF IndInv, TypeOK, SemInv, increaseStreamUserCounter, CanUse
<1>6. QED
  BY <1>2, <1>5

(* A thread that counts itself out does too: it was counted.               *)
LEMMA LeaveInd ==
    ASSUME IndInv, NEW t \in Thread, NEW from, NEW to, NEW h, NEW g \in Handle,
           Goto(t, from, to, h), from \in UsingPC, to \notin UsingPC \cup ClosingPC,
           arg[t] = g, decreaseStreamUserCounter(g), UNCHANGED activeStreams
    PROVE  CountInv' /\ SemInv'
<1>1. /\ t \in UsersOf(g)
      /\ Cardinality(UsersOf(g)) \in Nat
      /\ Cardinality(UsersOf(g)) > 0
      /\ Cardinality(UsersOf(g)') = Cardinality(UsersOf(g)) - 1
      /\ \A f \in Handle \ {g} : UsersOf(f)' = UsersOf(f)
  BY GotoLeave DEF IndInv
<1>2. g \in entry /\ count[g] > 0
  BY <1>1 DEF IndInv, CountInv
<1>3. CountInv'
  BY <1>1, <1>2 DEF IndInv, TypeOK, CountInv, decreaseStreamUserCounter
<1>4. \A f : Taken(f)' <=> Taken(f)
  BY DEF IndInv, TypeOK, Goto, Taken, UsingPC, ClosingPC, Thread
<1>5. ~Taken(g)
  BY <1>2 DEF IndInv, SemInv, TypeOK
<1>6. SemInv'
  BY <1>2, <1>4, <1>5 DEF IndInv, TypeOK, SemInv, decreaseStreamUserCounter
<1>7. QED
  BY <1>3, <1>6

(* Each action keeps the invariant; what it does to the sets of users is   *)
(* one of the four cases above.                                            *)
LEMMA NextInd == IndInv /\ [Next]_vars => IndInv'
<1> SUFFICES ASSUME IndInv, [Next]_vars PROVE IndInv'
  OBVIOUS
<1>0. TypeOK /\ MutexInv /\ OwnerInv /\ CountInv /\ SemInv /\ TypeOK'
  BY TypeStep DEF IndInv
<1>t. Client \subseteq Thread /\ Ssr \in Thread
  BY DEF Thread
<1>1. ASSUME NEW c \in Client, NEW h \in Handle, OpenCreate(c, h) PROVE IndInv'
  <2>1. \A g \in Handle : UsersOf(g)' = UsersOf(g)
    <3>1. Goto(c, "idle", "open", h)
      BY <1>1 DEF OpenCreate
    <3>2. QED
      BY <1>0, <1>t, <3>1, GotoQuiet DEF UsingPC
  <2>2. MutexInv'
    BY <1>0, <1>1, ClientAssumption
      DEF TypeOK, MutexInv, Goto, OpenCreate, isActiveStream, Thread
  <2>3. OwnerInv'
    BY <1>0, <1>1, ClientAssumption
      DEF TypeOK, MutexInv, OwnerInv, OwnerPC, ClosingPC, Goto, OpenCreate,
          isActiveStream, Thread, counterVars
  <2>4. CountInv'
    BY <1>0, <1>1, ClientAssumption, <2>1
      DEF TypeOK, OwnerInv, OwnerPC, ClosingPC, CountInv, Goto, OpenCreate,
          isActiveStream, Thread, counterVars
  <2>5. SemInv'
    BY <1>0, <1>1, ClientAssumption
      DEF TypeOK, OwnerInv, OwnerPC, ClosingPC, SemInv, Taken, Goto, OpenCreate,
          isActiveStream, Thread, counterVars
  <2>6. QED
    BY <1>0, <2>2, <2>3, <2>4, <2>5 DEF IndInv
<1>2. ASSUME NEW c \in Client, OpenDone(c) PROVE IndInv'
  <2>1. \A g \in Handle : UsersOf(g)' = UsersOf(g)
    <3>1. Goto(c, "open", "idle", None)
      BY <1>2 DEF OpenDone
    <3>2. QED
      BY <1>0, <1>t, <3>1, GotoQuiet DEF UsingPC
  <2>2. MutexInv'
    BY <1>0, <1>2, ClientAssumption DEF TypeOK, MutexInv, Goto, OpenDone, Thread
  <2>3. OwnerInv'
    BY <1>0, <1>2, ClientAssumption
      DEF TypeOK, MutexInv, OwnerInv, OwnerPC, ClosingPC, Goto, OpenDone, Thread,
          counterVars
  <2>4. CountInv'
    <3> DEFINE h == arg[c]
    <3>1. h \in Handle \ entry
      BY <1>0, <1>2 DEF TypeOK, OwnerInv, Goto, OpenDone
    <3>2. Cardinality(UsersOf(h)) = 0
      BY <1>0, <3>1, FS_EmptySet DEF CountInv
    <3>3. entry' = entry \cup {h} /\ count' = [count EXCEPT ![h] = 0]
      BY <1>2, <3>1 DEF OpenDone
    <3>4. QED
      BY <1>0, <2>1, <3>1, <3>2, <3>3 DEF TypeOK, CountInv
  <2>5. SemInv'
    BY <1>0, <1>2, ClientAssumption
      DEF TypeOK, OwnerInv, OwnerPC, ClosingPC, SemInv, Taken, Goto, OpenDone,
          Thread, counterVars
  <2>6. QED
    BY <1>0, <2>2, <2>3, <2>4, <2>5 DEF IndInv
<1>3. ASSUME NEW c \in Client, OpenFail(c) PROVE IndInv'
  <2>1. \A g \in Handle : UsersOf(g)' = UsersOf(g)
    <3>1. Goto(c, "open", "idle", None)
      BY <1>3 DEF OpenFail
    <3>2. QED
      BY <1>0, <1>t, <3>1, GotoQuiet DEF UsingPC
  <2>2. MutexInv'
    BY <1>0, <1>3, ClientAssumption DEF TypeOK, MutexInv, Goto, OpenFail, Thread
  <2>3. OwnerInv'
    BY <1>0, <1>3, ClientAssumption
      DEF TypeOK, MutexInv, OwnerInv, OwnerPC, ClosingPC, Goto, OpenFail, Thread,
          counterVars
  <2>4. CountInv'
    BY <1>0, <1>3, ClientAssumption, <2>1
      DEF TypeOK, OwnerInv, OwnerPC, ClosingPC, CountInv, Goto, OpenFail, Thread,
          counterVars
  <2>5. SemInv'
    BY <1>0, <1>3, ClientAssumption
      DEF TypeOK, OwnerInv, OwnerPC, ClosingPC, SemInv, Taken, Goto, OpenFail,
          Thread, counterVars
  <2>6. QED
    BY <1>0, <2>2, <2>3, <2>4, <2>5 DEF IndInv
<1>4. ASSUME NEW c \in Client, NEW h \in Handle, UserLock(c, h) PROVE IndInv'
  <2>1. \A g \in Handle : UsersOf(g)' = UsersOf(g)
    <3>1. Goto(c, "idle", "increase", h)
      BY <1>4 DEF UserLock
    <3>2. QED
      BY <1>0, <1>t, <3>1, GotoQuiet DEF UsingPC
  <2>2. MutexInv'
    BY <1>0, <1>4, ClientAssumption
      DEF TypeOK, MutexInv, Goto, UserLock, isActiveStream, Thread
  <2>3. OwnerInv'
    BY <1>0, <1>4, ClientAssumption
      DEF TypeOK, MutexInv, OwnerInv, OwnerPC, ClosingPC, Goto, UserLock,
          isActiveStream, Thread, counterVars
  <2>4. CountInv'
    BY <1>0, <1>4, ClientAssumption, <2>1
      DEF TypeOK, OwnerInv, OwnerPC, ClosingPC, CountInv, Goto, UserLock,
          isActiveStream, Thread, counterVars
  <2>5. SemInv'
    BY <1>0, <1>4, ClientAssumption
      DEF TypeOK, OwnerInv, OwnerPC, ClosingPC, SemInv, Taken, Goto, UserLock,
          isActiveStream, Thread, counterVars
  <2>6. QED
    BY <1>0, <2>2, <2>3, <2>4, <2>5 DEF IndInv
<1>5. ASSUME NEW c \in Client, UserRefused(c) PROVE IndInv'
  <2>1. \A g \in Handle : UsersOf(g)' = UsersOf(g)
    <3>1. Goto(c, "increase", "idle", None)
      BY <1>5 DEF UserRefused
    <3>2. QED
      BY <1>0, <1>t, <3>1, GotoQuiet DEF UsingPC
  <2>2. MutexInv'
    BY <1>0, <1>5, ClientAssumption DEF TypeOK, MutexInv, Goto, UserRefused, Thread
  <2>3. OwnerInv'
    BY <1>0, <1>5, ClientAssumption
      DEF TypeOK, MutexInv, OwnerInv, OwnerPC, ClosingPC, Goto, UserRefused, Thread,
          counterVars
  <2>4. CountInv'
    BY <1>0, <1>5, ClientAssumption, <2>1
      DEF TypeOK, OwnerInv, OwnerPC, ClosingPC, CountInv, Goto, UserRefused, Thread,
          counterVars
  <2>5. SemInv'
    BY <1>0, <1>5, ClientAssumption
      DEF TypeOK, OwnerInv, OwnerPC, ClosingPC, SemInv, Taken, Goto, UserRefused,
          Thread, counterVars
  <2>6. QED
    BY <1>0, <2>2, <2>3, <2>4, <2>5 DEF IndInv
<1>6. ASSUME NEW c \in Client, NEW g \in Handle, arg[c] = g, UserEnter(c) PROVE IndInv'
  <2>1. Goto(c, "increase", "inside", g)
    BY <1>6 DEF UserEnter
  <2>2. increaseStreamUserCounter(g) /\ UNCHANGED activeStreams
    BY <1>6 DEF UserEnter
  <2>3. CountInv' /\ SemInv'
    BY <1>0, <1>t, <2>1, <2>2, <1>6, EnterInd DEF IndInv, UsingPC, ClosingPC
  <2>4. MutexInv'
    BY <1>0, <1>6, ClientAssumption DEF TypeOK, MutexInv, Goto, UserEnter, Thread
  <2>5. OwnerInv'
    BY <1>0, <1>6, ClientAssumption, <2>2
      DEF TypeOK, MutexInv, OwnerInv, OwnerPC, ClosingPC, Goto, UserEnter,
          increaseStreamUserCounter, Thread, counterVars
  <2>6. QED
    BY <1>0, <2>3, <2>4, <2>5 DEF IndInv
<1>7. ASSUME NEW c \in Client, NEW g \in Handle, arg[c] = g, UserLeave(c) PROVE IndInv'
  <2>1. Goto(c, "inside", "idle", None)
    BY <1>7 DEF UserLeave
  <2>2. decreaseStreamUserCounter(g) /\ UNCHANGED activeStreams
    BY <1>7 DEF UserLeave
  <2>3. CountInv' /\ SemInv'
    BY <1>0, <1>t, <2>1, <2>2, <1>7, LeaveInd DEF IndInv, UsingPC, ClosingPC
  <2>4. MutexInv'
    BY <1>0, <1>7, ClientAssumption DEF TypeOK, MutexInv, Goto, UserLeave, Thread
  <2>5. OwnerInv'
    BY <1>0, <1>7, ClientAssumption, <2>2
      DEF TypeOK, MutexInv, OwnerInv, OwnerPC, ClosingPC, Goto, UserLeave,
          decreaseStreamUserCounter, Thread, counterVars
  <2>6. QED
    BY <1>0, <2>3, <2>4, <2>5 DEF IndInv
<1>8. ASSUME NEW c \in Client, NEW h \in Handle, CloseCheck(c, h) PROVE IndInv'
  <2>1. \A g \in Handle : UsersOf(g)' = UsersOf(g)
    <3>1. Goto(c, "idle", "close", h)
      BY <1>8 DEF CloseCheck
    <3>2. QED
      BY <1>0, <1>t, <3>1, GotoQuiet DEF UsingPC
  <2>2. MutexInv'
    BY <1>0, <1>8, ClientAssumption
      DEF TypeOK, MutexInv, Goto, CloseCheck, isActiveStream, Thread
  <2>3. OwnerInv'
    BY <1>0, <1>8, ClientAssumption
      DEF TypeOK, MutexInv, OwnerInv, OwnerPC, ClosingPC, Goto, CloseCheck,
          isActiveStream, Thread, counterVars
  <2>4. CountInv'
    BY <1>0, <1>8, ClientAssumption, <2>1
      DEF TypeOK, OwnerInv, OwnerPC, ClosingPC, CountInv, Goto, CloseCheck,
          isActiveStream, Thread, counterVars
  <2>5. SemInv'
    BY <1>0, <1>8, ClientAssumption
      DEF TypeOK, OwnerInv, OwnerPC, ClosingPC, SemInv, Taken, Goto, CloseCheck,
          isActiveStream, Thread, counterVars
  <2>6. QED
    BY <1>0, <2>2, <2>3, <2>4, <2>5 DEF IndInv
<1>9. ASSUME NEW c \in Client, CloseDeactivate(c) PROVE IndInv'
  <2>1. \A g \in Handle : UsersOf(g)' = UsersOf(g)
    <3>1. Goto(c, "close", "semwait", arg[c]) \/ Goto(c, "close", "idle", None)
      BY <1>9 DEF CloseDeactivate
    <3>2. QED
      BY <1>0, <1>t, <3>1, GotoQuiet DEF UsingPC
  <2>2. MutexInv'
    BY <1>0, <1>9, ClientAssumption
      DEF TypeOK, MutexInv, Goto, CloseDeactivate, CanUse, Thread
  <2>3. OwnerInv'
    BY <1>0, <1>9, ClientAssumption
      DEF TypeOK, MutexInv, OwnerInv, OwnerPC, ClosingPC, Goto, CloseDeactivate,
          CanUse, Thread, counterVars
  <2>4. CountInv'
    BY <1>0, <1>9, ClientAssumption, <2>1
      DEF TypeOK, OwnerInv, OwnerPC, ClosingPC, CountInv, Goto, CloseDeactivate,
          CanUse, Thread, counterVars
  <2>5. SemInv'
    BY <1>0, <1>9, ClientAssumption
      DEF TypeOK, OwnerInv, OwnerPC, ClosingPC, SemInv, Taken, Goto,
          CloseDeactivate, CanUse, Thread, counterVars
  <2>6. QED
    BY <1>0, <2>2, <2>3, <2>4, <2>5 DEF IndInv
<1>10. ASSUME NEW c \in Client, CloseWait(c) PROVE IndInv'
  <2>1. \A g \in Handle : UsersOf(g)' = UsersOf(g)
    <3>1. Goto(c, "semwait", "erase", arg[c])
      BY <1>10 DEF CloseWait
    <3>2. QED
      BY <1>0, <1>t, <3>1, GotoQuiet DEF UsingPC
  <2>2. MutexInv'
    BY <1>0, <1>10, ClientAssumption DEF TypeOK, MutexInv, Goto, CloseWait, Thread
  <2>3. OwnerInv'
    BY <1>0, <1>10, ClientAssumption
      DEF TypeOK, MutexInv, OwnerInv, OwnerPC, ClosingPC, Goto, CloseWait, Thread,
          counterVars
  <2>4. CountInv'
    BY <1>0, <1>10, ClientAssumption, <2>1
      DEF TypeOK, OwnerInv, OwnerPC, ClosingPC, CountInv, Goto, CloseWait, Thread,
          counterVars
  <2>5. SemInv'
    BY <1>0, <1>10, ClientAssumption
      DEF TypeOK, OwnerInv, OwnerPC, ClosingPC, SemInv, Taken, Goto, CloseWait,
          Thread, counterVars
  <2>6. QED
    BY <1>0, <2>2, <2>3, <2>4, <2>5 DEF IndInv
<1>11. ASSUME NEW c \in Client, CloseErase(c) PROVE IndInv'
  <2>1. \A g \in Handle : UsersOf(g)' = UsersOf(g)
    <3>1. Goto(c, "erase", "destroy", arg[c])
      BY <1>11 DEF CloseErase
    <3>2. QED
      BY <1>0, <1>t, <3>1, GotoQuiet DEF UsingPC
  <2>2. MutexInv'
    BY <1>0, <1>11, ClientAssumption DEF TypeOK, MutexInv, Goto, CloseErase, Thread
  <2>3. OwnerInv'
    BY <1>0, <1>11, ClientAssumption
      DEF TypeOK, MutexInv, OwnerInv, OwnerPC, ClosingPC, Goto, CloseErase, Thread,
          counterVars
  <2>4. CountInv'
    <3> DEFINE h == arg[c]
    <3>1. h \in entry /\ Taken(h)
      BY <1>0, <1>11 DEF OwnerInv, Goto, CloseErase, Taken
    <3>2. Cardinality(UsersOf(h)) = 0
      BY <1>0, <3>1 DEF CountInv, SemInv
    <3>3. UsersOf(h) = {}
      BY <1>0, <3>1, <3>2, UsersFinite, FS_EmptySet DEF TypeOK
    <3>4. entry' = entry \ {h} /\ count' = count
      BY <1>11 DEF CloseErase
    <3>5. QED
      BY <1>0, <2>1, <3>3, <3>4 DEF TypeOK, CountInv
  <2>5. SemInv'
    BY <1>0, <1>11, ClientAssumption
      DEF TypeOK, OwnerInv, OwnerPC, ClosingPC, SemInv, Taken, Goto, CloseErase,
          Thread, counterVars
  <2>6. QED
    BY <1>0, <2>2, <2>3, <2>4, <2>5 DEF IndInv
<1>12. ASSUME NEW c \in Client, CloseDestroy(c) PROVE IndInv'
  <2>1. \A g \in Handle : UsersOf(g)' = UsersOf(g)
    <3>1. Goto(c, "destroy", "idle", None)
      BY <1>12 DEF CloseDestroy
    <3>2. QED
      BY <1>0, <1>t, <3>1, GotoQuiet DEF UsingPC
  <2>2. MutexInv'
    BY <1>0, <1>12, ClientAssumption DEF TypeOK, MutexInv, Goto, CloseDestroy, Thread
  <2>3. OwnerInv'
    BY <1>0, <1>12, ClientAssumption
      DEF TypeOK, MutexInv, OwnerInv, OwnerPC, ClosingPC, Goto, CloseDestroy,
          Thread, counterVars
  <2>4. CountInv'
    BY <1>0, <1>12, ClientAssumption, <2>1
      DEF TypeOK, OwnerInv, OwnerPC, ClosingPC, CountInv, Goto, CloseDestroy,
          Thread, counterVars
  <2>5. SemInv'
    BY <1>0, <1>12, ClientAssumption
      DEF TypeOK, OwnerInv, OwnerPC, ClosingPC, SemInv, Taken, Goto, CloseDestroy,
          Thread, counterVars
  <2>6. QED
    BY <1>0, <2>2, <2>3, <2>4, <2>5 DEF IndInv
<1>13. ASSUME SsrBegin PROVE IndInv'
  <2>1. \A g \in Handle : UsersOf(g)' = UsersOf(g)
    <3>1. Goto(Ssr, "idle", "walk", None)
      BY <1>13 DEF SsrBegin
    <3>2. QED
      BY <1>0, <1>t, <3>1, GotoQuiet DEF UsingPC
  <2>2. MutexInv'
    BY <1>0, <1>13, ClientAssumption DEF TypeOK, MutexInv, Goto, SsrBegin, Thread
  <2>3. OwnerInv'
    BY <1>0, <1>13, ClientAssumption
      DEF TypeOK, MutexInv, OwnerInv, OwnerPC, ClosingPC, Goto, SsrBegin, Thread,
          counterVars
  <2>4. CountInv'
    BY <1>0, <1>13, ClientAssumption, <2>1
      DEF TypeOK, OwnerInv, OwnerPC, ClosingPC, CountInv, Goto, SsrBegin, Thread,
          counterVars
  <2>5. SemInv'
    BY <1>0, <1>13, ClientAssumption
      DEF TypeOK, OwnerInv, OwnerPC, ClosingPC, SemInv, Taken, Goto, SsrBegin,
          Thread, counterVars
  <2>6. QED
    BY <1>0, <2>2, <2>3, <2>4, <2>5 DEF IndInv
<1>14. ASSUME NEW h \in Handle, SsrSkip(h) PROVE IndInv'
  <2>1. \A g \in Handle : UsersOf(g)' = UsersOf(g)
    <3>1. Goto(Ssr, "walk", "walk", None)
      BY <1>14 DEF SsrSkip
    <3>2. QED
      BY <1>0, <1>t, <3>1, GotoQuiet DEF UsingPC
  <2>2. MutexInv'
    BY <1>0, <1>14, ClientAssumption DEF TypeOK, MutexInv, Goto, SsrSkip, Thread
  <2>3. OwnerInv'
    BY <1>0, <1>14, ClientAssumption
      DEF TypeOK, MutexInv, OwnerInv, OwnerPC, ClosingPC, Goto, SsrSkip, Thread,
          counterVars
  <2>4. CountInv'
    BY <1>0, <1>14, ClientAssumption, <2>1
      DEF TypeOK, OwnerInv, OwnerPC, ClosingPC, CountInv, Goto, SsrSkip, Thread,
          counterVars
  <2>5. SemInv'
    BY <1>0, <1>14, ClientAssumption
      DEF TypeOK, OwnerInv, OwnerPC, ClosingPC, SemInv, Taken, Goto, SsrSkip,
          Thread, counterVars
  <2>6. QED
    BY <1>0, <2>2, <2>3, <2>4, <2>5 DEF IndInv
<1>15. ASSUME NEW h \in Handle, SsrVisit(h) PROVE IndInv'
  <2>1. Goto(Ssr, "walk", "handler", h)
    BY <1>15 DEF SsrVisit
  <2>2. increaseStreamUserCounter(h) /\ UNCHANGED activeStreams
    BY <1>15 DEF SsrVisit
  <2>3. CountInv' /\ SemInv'
    BY <1>0, <1>t, <2>1, <2>2, <1>15, EnterInd DEF IndInv, UsingPC, ClosingPC
  <2>4. MutexInv'
    BY <1>0, <1>15, ClientAssumption DEF TypeOK, MutexInv, Goto, SsrVisit, Thread
  <2>5. OwnerInv'
    BY <1>0, <1>15, ClientAssumption, <2>2
      DEF TypeOK, MutexInv, OwnerInv, OwnerPC, ClosingPC, Goto, SsrVisit,
          increaseStreamUserCounter, Thread, counterVars
  <2>6. QED
    BY <1>0, <2>3, <2>4, <2>5 DEF IndInv
<1>16. ASSUME SsrUnlock PROVE IndInv'
  <2>1. \A g \in Handle : UsersOf(g)' = UsersOf(g)
    <3>1. Goto(Ssr, "handler", "unlocked", arg[Ssr])
      BY <1>16 DEF SsrUnlock
    <3>2. QED
      BY <1>0, <1>t, <3>1, GotoStay DEF UsingPC
  <2>2. MutexInv'
    BY <1>0, <1>16, ClientAssumption DEF TypeOK, MutexInv, Goto, SsrUnlock, Thread
  <2>3. OwnerInv'
    BY <1>0, <1>16, ClientAssumption
      DEF TypeOK, MutexInv, OwnerInv, OwnerPC, ClosingPC, Goto, SsrUnlock, Thread,
          counterVars
  <2>4. CountInv'
    BY <1>0, <1>16, ClientAssumption, <2>1
      DEF TypeOK, OwnerInv, OwnerPC, ClosingPC, CountInv, Goto, SsrUnlock, Thread,
          counterVars
  <2>5. SemInv'
    BY <1>0, <1>16, ClientAssumption
      DEF TypeOK, OwnerInv, OwnerPC, ClosingPC, SemInv, Taken, Goto, SsrUnlock,
          Thread, counterVars
  <2>6. QED
    BY <1>0, <2>2, <2>3, <2>4, <2>5 DEF IndInv
<1>17. ASSUME SsrRelock PROVE IndInv'
  <2>1. \A g \in Handle : UsersOf(g)' = UsersOf(g)
    <3>1. Goto(Ssr, "unlocked", "handled", arg[Ssr])
      BY <1>17 DEF SsrRelock
    <3>2. QED
      BY <1>0, <1>t, <3>1, GotoStay DEF UsingPC
  <2>2. MutexInv'
    BY <1>0, <1>17, ClientAssumption DEF TypeOK, MutexInv, Goto, SsrRelock, Thread
  <2>3. OwnerInv'
    BY <1>0, <1>17, ClientAssumption
      DEF TypeOK, MutexInv, OwnerInv, OwnerPC, ClosingPC, Goto, SsrRelock, Thread,
          counterVars
  <2>4. CountInv'
    BY <1>0, <1>17, ClientAssumption, <2>1
      DEF TypeOK, OwnerInv, OwnerPC, ClosingPC, CountInv, Goto, SsrRelock, Thread,
          counterVars
  <2>5. SemInv'
    BY <1>0, <1>17, ClientAssumption
      DEF TypeOK, OwnerInv, OwnerPC, ClosingPC, SemInv, Taken, Goto, SsrRelock,
          Thread, counterVars
  <2>6. QED
    BY <1>0, <2>2, <2>3, <2>4, <2>5 DEF IndInv
<1>18. ASSUME NEW g \in Handle, arg[Ssr] = g, SsrLeave PROVE IndInv'
  <2>1. Goto(Ssr, "handler", "walk", None) \/ Goto(Ssr, "handled", "walk", None)
    BY <1>18 DEF SsrLeave
  <2>2. decreaseStreamUserCounter(g) /\ UNCHANGED activeStreams
    BY <1>18 DEF SsrLeave
  <2>3. CountInv' /\ SemInv'
    BY <1>0, <1>t, <2>1, <2>2, <1>18, LeaveInd DEF IndInv, UsingPC, ClosingPC
  <2>4. MutexInv'
    BY <1>0, <1>18, ClientAssumption DEF TypeOK, MutexInv, Goto, SsrLeave, Thread
  <2>5. OwnerInv'
    BY <1>0, <1>18, ClientAssumption, <2>2
      DEF TypeOK, MutexInv, OwnerInv, OwnerPC, ClosingPC, Goto, SsrLeave,
          decreaseStreamUserCounter, Thread, counterVars
  <2>6. QED
    BY <1>0, <2>3, <2>4, <2>5 DEF IndInv
<1>19. ASSUME SsrEnd PROVE IndInv'
  <2>1. \A g \in Handle : UsersOf(g)' = UsersOf(g)
    <3>1. Goto(Ssr, "walk", "idle", None)
      BY <1>19 DEF SsrEnd
    <3>2. QED
      BY <1>0, <1>t, <3>1, GotoQuiet DEF UsingPC
  <2>2. MutexInv'
    BY <1>0, <1>19, ClientAssumption DEF TypeOK, MutexInv, Goto, SsrEnd, Thread
  <2>3. OwnerInv'
    BY <1>0, <1>19, ClientAssumption
      DEF TypeOK, MutexInv, OwnerInv, OwnerPC, ClosingPC, Goto, SsrEnd, Thread,
          counterVars
  <2>4. CountInv'
    BY <1>0, <1>19, ClientAssumption, <2>1
      DEF TypeOK, OwnerInv, OwnerPC, ClosingPC, CountInv, Goto, SsrEnd, Thread,
          counterVars
  <2>5. SemInv'
    BY <1>0, <1>19, ClientAssumption
      DEF TypeOK, OwnerInv, OwnerPC, ClosingPC, SemInv, Taken, Goto, SsrEnd, Thread,
          counterVars
  <2>6. QED
    BY <1>0, <2>2, <2>3, <2>4, <2>5 DEF IndInv
<1>20. ASSUME UNCHANGED vars PROVE IndInv'
  BY <1>20 DEF IndInv, TypeOK, MutexInv, OwnerInv, CountInv, SemInv, Taken, UsersOf,
             CanUse, vars
<1>q. QED
  <2>1. \A c \in Client : pc[c] # "idle" => arg[c] \in Handle
    BY <1>0 DEF TypeOK
  <2>2. pc[Ssr] \in UsingPC => arg[Ssr] \in Handle
    BY <1>0 DEF TypeOK, UsingPC
  <2>3. \A c \in Client : UserEnter(c) \/ UserLeave(c) => arg[c] \in Handle
    BY <2>1 DEF UserEnter, UserLeave, Goto
  <2>4. SsrLeave => arg[Ssr] \in Handle
    BY <2>2 DEF SsrLeave, Goto, UsingPC
  <2>5. QED
    BY <1>1, <1>2, <1>3, <1>4, <1>5, <1>6, <1>7, <1>8, <1>9, <1>10, <1>11, <1>12,
         <1>13, <1>14, <1>15, <1>16, <1>17, <1>18, <1>19, <1>20, <2>3, <2>4
       DEF Next, ClientCall, ClientStep, SsrStep

-----------------------------------------------------------------------------
(* The safety theorems *)

(* The invariant holds in every reachable state.                           *)
LEMMA Inductive == Spec => []IndInv
BY InitInd, NextInd, PTL DEF Spec

(* A stream whose users are gone from the counter has none: the closer is  *)
(* past its wait only with the counter at 0.                               *)
LEMMA IndImpliesSafe == IndInv => NoUseAfterDestroy
<1> SUFFICES ASSUME IndInv, NEW h \in Handle, UsersOf(h) # {}
             PROVE  /\ h \in activeStreams
                    /\ \A c \in Client : arg[c] = h => pc[c] \notin {"erase", "destroy"}
  BY DEF NoUseAfterDestroy
<1>1. h \in entry
  BY DEF IndInv, CountInv
<1>2. h \in activeStreams
  BY <1>1 DEF IndInv, OwnerInv
<1>3. count[h] # 0
  <2>1. Cardinality(UsersOf(h)) # 0
    BY UsersFinite, FS_EmptySet
  <2>2. QED
    BY <1>1, <2>1 DEF IndInv, CountInv
<1>4. ASSUME NEW c \in Client, arg[c] = h PROVE pc[c] \notin {"erase", "destroy"}
  BY <1>1, <1>3, <1>4 DEF IndInv, OwnerInv, SemInv, Taken
<1>5. QED
  BY <1>2, <1>4

(* No counted call runs on a stream that pal_stream_close has deleted or   *)
(* is past waiting for, with any number of threads and handles.            *)
THEOREM UseIsSafe == Spec => []NoUseAfterDestroy
BY Inductive, IndImpliesSafe, PTL

(* The counter is the number of threads inside a counted call.             *)
THEOREM CounterIsExact == Spec => []CounterExact
<1>1. IndInv => CounterExact
  BY DEF IndInv, CountInv, CounterExact
<1>2. QED
  BY <1>1, Inductive, PTL

(* increaseStreamUserCounter never waits for the semaphore while it holds  *)
(* mActiveStreamMutex.                                                     *)
THEOREM NoBlockingHolder == Spec => []HolderNeverBlocks
<1>1. IndInv => HolderNeverBlocks
  BY DEF IndInv, TypeOK, OwnerInv, SemInv, Taken, CanUse, HolderNeverBlocks
<1>2. QED
  BY <1>1, Inductive, PTL

(* A stream is destroyed by one closer only.                               *)
THEOREM DestroyedOnce == Spec => []OneDestroyer
<1>1. IndInv => OneDestroyer
  BY DEF IndInv, OwnerInv, OwnerPC, OneDestroyer
<1>2. QED
  BY <1>1, Inductive, PTL

(* The SSR loop's iterator never dangles.                                  *)
THEOREM IteratorStaysValid == Spec => []IteratorValid
<1>1. NoUseAfterDestroy /\ TypeOK => IteratorValid
  BY DEF NoUseAfterDestroy, TypeOK, IteratorValid, UsersOf, UsingPC, Thread
<1>2. QED
  BY <1>1, UseIsSafe, TypeCorrect, PTL

-----------------------------------------------------------------------------
(* The refinement *)

PhaseMap == [h \in Handle |-> Phase(h)]
UsersMap == [h \in Handle |-> UsersOf(h)]

(* A step that moves one stream from phase a to phase b and no user.       *)
Moved(h, a, b) ==
    /\ Phase(h) = a
    /\ Phase(h)' = b
    /\ \A g \in Handle \ {h} : Phase(g)' = Phase(g)
    /\ \A g \in Handle : UsersOf(g)' = UsersOf(g)

(* Such a step is a step of the abstract contract.                         *)
LEMMA MovedMaps ==
    ASSUME NEW h \in Handle, NEW a, NEW b, Moved(h, a, b)
    PROVE  Lifetime!Move(h, a, b) /\ UsersMap' = UsersMap
<1>1. PhaseMap' = [PhaseMap EXCEPT ![h] = b]
  BY DEF Moved, PhaseMap
<1>2. PhaseMap[h] = a
  BY DEF Moved, PhaseMap
<1>3. UsersMap' = UsersMap
  BY DEF Moved, UsersMap
<1>4. QED
  BY <1>1, <1>2, <1>3 DEF Lifetime!Move, PhaseMap

(* A step that changes no phase and no user is a stuttering step.          *)
LEMMA QuietMaps ==
    ASSUME \A g \in Handle : Phase(g)' = Phase(g),
           \A g \in Handle : UsersOf(g)' = UsersOf(g)
    PROVE  UNCHANGED Lifetime!vars
BY DEF Lifetime!vars

(* The entry, its flag and the registered streams decide the phase, with   *)
(* the threads that are opening: a step that touches none keeps it.        *)
LEMMA PhaseKept ==
    ASSUME TypeOK, NEW t \in Thread, NEW from, NEW to, NEW h,
           Goto(t, from, to, h), from # "open", to # "open",
           UNCHANGED <<activeStreams, entry, active>>
    PROVE  \A g \in Handle : Phase(g)' = Phase(g)
<1>1. \A g \in Handle : (\E c \in Client : pc[c] = "open" /\ arg[c] = g)'
                       <=> (\E c \in Client : pc[c] = "open" /\ arg[c] = g)
  BY DEF TypeOK, Goto, Thread
<1>2. QED
  BY <1>1 DEF Phase, CanUse

(* Every step of the program is a step of HandleLifetime or stutters.      *)
LEMMA StepMaps == IndInv /\ IndInv' /\ [Next]_vars => [Lifetime!Next]_(Lifetime!vars)
<1> SUFFICES ASSUME IndInv, IndInv', [Next]_vars
             PROVE  Lifetime!Next \/ UNCHANGED Lifetime!vars
  OBVIOUS
<1>0. TypeOK /\ OwnerInv
  BY DEF IndInv
<1>t. Client \subseteq Thread /\ Ssr \in Thread
  BY DEF Thread
<1>1. ASSUME NEW c \in Client, NEW h \in Handle, OpenCreate(c, h)
      PROVE  Lifetime!Next
  <2>1. Goto(c, "idle", "open", h)
    BY <1>1 DEF OpenCreate
  <2>2. \A g \in Handle : UsersOf(g)' = UsersOf(g)
    BY <1>0, <1>t, <2>1, GotoQuiet DEF UsingPC
  <2>3. Phase(h) = "absent"
    BY <1>0, <1>1
      DEF TypeOK, OwnerInv, OwnerPC, ClosingPC, Phase, CanUse, Goto, Thread,
          counterVars, OpenCreate, isActiveStream
  <2>4. Phase(h)' = "opening"
    BY <1>0, <1>1
      DEF TypeOK, OwnerInv, OwnerPC, ClosingPC, Phase, CanUse, Goto, Thread,
          counterVars, OpenCreate, isActiveStream
  <2>5. \A g \in Handle \ {h} : Phase(g)' = Phase(g)
    BY <1>0, <1>1
      DEF TypeOK, OwnerInv, OwnerPC, ClosingPC, Phase, CanUse, Goto, Thread,
          counterVars, OpenCreate
  <2>6. Moved(h, "absent", "opening")
    BY <2>2, <2>3, <2>4, <2>5 DEF Moved
  <2>7. QED
    BY <2>6, MovedMaps DEF Lifetime!Next, Lifetime!Create, UsersMap
<1>2. ASSUME NEW c \in Client, NEW h \in Handle, arg[c] = h, OpenDone(c)
      PROVE  Lifetime!Next
  <2>1. Goto(c, "open", "idle", None)
    BY <1>2 DEF OpenDone
  <2>2. \A g \in Handle : UsersOf(g)' = UsersOf(g)
    BY <1>0, <1>t, <2>1, GotoQuiet DEF UsingPC
  <2>3. Phase(h) = "opening"
    BY <1>0, <1>2
      DEF TypeOK, OwnerInv, OwnerPC, ClosingPC, Phase, CanUse, Goto, Thread,
          counterVars, OpenDone, isActiveStream
  <2>4. Phase(h)' = "open"
    BY <1>0, <1>2
      DEF TypeOK, OwnerInv, OwnerPC, ClosingPC, Phase, CanUse, Goto, Thread,
          counterVars, OpenDone, isActiveStream
  <2>5. \A g \in Handle \ {h} : Phase(g)' = Phase(g)
    BY <1>0, <1>2
      DEF TypeOK, OwnerInv, OwnerPC, ClosingPC, Phase, CanUse, Goto, Thread,
          counterVars, OpenDone
  <2>6. Moved(h, "opening", "open")
    BY <2>2, <2>3, <2>4, <2>5 DEF Moved
  <2>7. QED
    BY <2>6, MovedMaps DEF Lifetime!Next, Lifetime!Publish, UsersMap
<1>3. ASSUME NEW c \in Client, NEW h \in Handle, arg[c] = h, OpenFail(c)
      PROVE  Lifetime!Next
  <2>1. Goto(c, "open", "idle", None)
    BY <1>3 DEF OpenFail
  <2>2. \A g \in Handle : UsersOf(g)' = UsersOf(g)
    BY <1>0, <1>t, <2>1, GotoQuiet DEF UsingPC
  <2>3. Phase(h) = "opening"
    BY <1>0, <1>3
      DEF TypeOK, OwnerInv, OwnerPC, ClosingPC, Phase, CanUse, Goto, Thread,
          counterVars, OpenFail, isActiveStream
  <2>4. Phase(h)' = "absent"
    BY <1>0, <1>3
      DEF TypeOK, OwnerInv, OwnerPC, ClosingPC, Phase, CanUse, Goto, Thread,
          counterVars, OpenFail, isActiveStream
  <2>5. \A g \in Handle \ {h} : Phase(g)' = Phase(g)
    BY <1>0, <1>3
      DEF TypeOK, OwnerInv, OwnerPC, ClosingPC, Phase, CanUse, Goto, Thread,
          counterVars, OpenFail
  <2>6. Moved(h, "opening", "absent")
    BY <2>2, <2>3, <2>4, <2>5 DEF Moved
  <2>7. QED
    BY <2>6, MovedMaps DEF Lifetime!Next, Lifetime!Discard, UsersMap
<1>4. ASSUME NEW c \in Client, NEW h \in Handle, arg[c] = h, CloseDestroy(c)
      PROVE  Lifetime!Next
  <2>1. Goto(c, "destroy", "idle", None)
    BY <1>4 DEF CloseDestroy
  <2>2. \A g \in Handle : UsersOf(g)' = UsersOf(g)
    BY <1>0, <1>t, <2>1, GotoQuiet DEF UsingPC
  <2>3. Phase(h) = "closing"
    BY <1>0, <1>4
      DEF TypeOK, OwnerInv, OwnerPC, ClosingPC, Phase, CanUse, Goto, Thread,
          counterVars, CloseDestroy, isActiveStream
  <2>4. Phase(h)' = "absent"
    BY <1>0, <1>4
      DEF TypeOK, OwnerInv, OwnerPC, ClosingPC, Phase, CanUse, Goto, Thread,
          counterVars, CloseDestroy, isActiveStream
  <2>5. \A g \in Handle \ {h} : Phase(g)' = Phase(g)
    BY <1>0, <1>4
      DEF TypeOK, OwnerInv, OwnerPC, ClosingPC, Phase, CanUse, Goto, Thread,
          counterVars, CloseDestroy
  <2>6. Moved(h, "closing", "absent")
    BY <2>2, <2>3, <2>4, <2>5 DEF Moved
  <2>7. UsersOf(h) = {}
    BY <1>4, <2>1 DEF IndInv, OwnerInv, CountInv, Goto
  <2>8. QED
    BY <2>6, <2>7, MovedMaps DEF Lifetime!Next, Lifetime!Destroy, UsersMap
<1>5. ASSUME NEW c \in Client, NEW h \in Handle, arg[c] = h, CloseDeactivate(c)
      PROVE  Lifetime!Next \/ UNCHANGED Lifetime!vars
  <2>1. CASE CanUse(h)
    <3>1. Goto(c, "close", "semwait", h) /\ active' = [active EXCEPT ![h] = FALSE]
      BY <1>5, <2>1 DEF CloseDeactivate
    <3>2. \A g \in Handle : UsersOf(g)' = UsersOf(g)
      BY <1>0, <1>t, <3>1, GotoQuiet DEF UsingPC
    <3>3. Phase(h) = "open"
      BY <1>0, <2>1 DEF OwnerInv, Phase, CanUse
    <3>4. Phase(h)' = "closing"
      BY <1>0, <1>5, <2>1, <3>1
        DEF TypeOK, OwnerInv, OwnerPC, ClosingPC, Phase, CanUse, Goto, Thread,
            counterVars, CloseDeactivate
    <3>5. \A g \in Handle \ {h} : Phase(g)' = Phase(g)
      BY <1>0, <1>5, <3>1
        DEF TypeOK, OwnerInv, OwnerPC, ClosingPC, Phase, CanUse, Goto, Thread,
            counterVars, CloseDeactivate
    <3>6. Moved(h, "open", "closing")
      BY <3>2, <3>3, <3>4, <3>5 DEF Moved
    <3>7. QED
      BY <3>6, MovedMaps DEF Lifetime!Next, Lifetime!Retire, UsersMap
  <2>2. CASE ~CanUse(h)
    <3>1. Goto(c, "close", "idle", None) /\ UNCHANGED <<activeStreams, entry, active>>
      BY <1>5, <2>2 DEF CloseDeactivate
    <3>2. QED
      BY <1>0, <1>t, <3>1, GotoQuiet, PhaseKept, QuietMaps DEF UsingPC
  <2>3. QED
    BY <2>1, <2>2
<1>6. ASSUME NEW c \in Client, NEW h \in Handle, arg[c] = h, CloseErase(c)
      PROVE  UNCHANGED Lifetime!vars
  <2>1. Goto(c, "erase", "destroy", h) /\ entry' = entry \ {h}
    BY <1>6 DEF CloseErase
  <2>2. \A g \in Handle : UsersOf(g)' = UsersOf(g)
    BY <1>0, <1>t, <2>1, GotoQuiet DEF UsingPC
  <2>3. \A g \in Handle : Phase(g)' = Phase(g)
    BY <1>0, <1>6, <2>1
      DEF TypeOK, OwnerInv, OwnerPC, ClosingPC, Phase, CanUse, Goto, Thread,
          counterVars, CloseErase
  <2>4. QED
    BY <2>2, <2>3, QuietMaps
<1>7. ASSUME NEW c \in Client, NEW h \in Handle, UserLock(c, h) PROVE UNCHANGED Lifetime!vars
  <2>1. Goto(c, "idle", "increase", h) /\ UNCHANGED <<activeStreams, entry, active>>
    BY <1>7 DEF UserLock, counterVars
  <2>2. QED
    BY <1>0, <1>t, <2>1, GotoQuiet, PhaseKept, QuietMaps DEF UsingPC
<1>8. ASSUME NEW c \in Client, UserRefused(c) PROVE UNCHANGED Lifetime!vars
  <2>1. Goto(c, "increase", "idle", None) /\ UNCHANGED <<activeStreams, entry, active>>
    BY <1>8 DEF UserRefused, counterVars
  <2>2. QED
    BY <1>0, <1>t, <2>1, GotoQuiet, PhaseKept, QuietMaps DEF UsingPC
<1>9. ASSUME NEW c \in Client, NEW h \in Handle, CloseCheck(c, h) PROVE UNCHANGED Lifetime!vars
  <2>1. Goto(c, "idle", "close", h) /\ UNCHANGED <<activeStreams, entry, active>>
    BY <1>9 DEF CloseCheck, counterVars
  <2>2. QED
    BY <1>0, <1>t, <2>1, GotoQuiet, PhaseKept, QuietMaps DEF UsingPC
<1>10. ASSUME NEW c \in Client, CloseWait(c) PROVE UNCHANGED Lifetime!vars
  <2>1. Goto(c, "semwait", "erase", arg[c]) /\ UNCHANGED <<activeStreams, entry, active>>
    BY <1>10 DEF CloseWait, counterVars
  <2>2. QED
    BY <1>0, <1>t, <2>1, GotoQuiet, PhaseKept, QuietMaps DEF UsingPC
<1>11. ASSUME SsrBegin PROVE UNCHANGED Lifetime!vars
  <2>1. Goto(Ssr, "idle", "walk", None) /\ UNCHANGED <<activeStreams, entry, active>>
    BY <1>11 DEF SsrBegin, counterVars
  <2>2. QED
    BY <1>0, <1>t, <2>1, GotoQuiet, PhaseKept, QuietMaps DEF UsingPC
<1>12. ASSUME NEW h \in Handle, SsrSkip(h) PROVE UNCHANGED Lifetime!vars
  <2>1. Goto(Ssr, "walk", "walk", None) /\ UNCHANGED <<activeStreams, entry, active>>
    BY <1>12 DEF SsrSkip, counterVars
  <2>2. QED
    BY <1>0, <1>t, <2>1, GotoQuiet, PhaseKept, QuietMaps DEF UsingPC
<1>13. ASSUME SsrEnd PROVE UNCHANGED Lifetime!vars
  <2>1. Goto(Ssr, "walk", "idle", None) /\ UNCHANGED <<activeStreams, entry, active>>
    BY <1>13 DEF SsrEnd, counterVars
  <2>2. QED
    BY <1>0, <1>t, <2>1, GotoQuiet, PhaseKept, QuietMaps DEF UsingPC
<1>14. ASSUME SsrUnlock PROVE UNCHANGED Lifetime!vars
  <2>1. Goto(Ssr, "handler", "unlocked", arg[Ssr]) /\ UNCHANGED <<activeStreams, entry, active>>
    BY <1>14 DEF SsrUnlock, counterVars
  <2>2. QED
    BY <1>0, <1>t, <2>1, GotoStay, PhaseKept, QuietMaps DEF UsingPC
<1>15. ASSUME SsrRelock PROVE UNCHANGED Lifetime!vars
  <2>1. Goto(Ssr, "unlocked", "handled", arg[Ssr]) /\ UNCHANGED <<activeStreams, entry, active>>
    BY <1>15 DEF SsrRelock, counterVars
  <2>2. QED
    BY <1>0, <1>t, <2>1, GotoStay, PhaseKept, QuietMaps DEF UsingPC
<1>16. ASSUME NEW c \in Client, NEW h \in Handle, arg[c] = h, UserEnter(c) PROVE Lifetime!Next
  <2>1. Goto(c, "increase", "inside", h) /\ UNCHANGED <<activeStreams, entry, active>> /\ CanUse(h)
    BY <1>16 DEF UserEnter, increaseStreamUserCounter
  <2>2. \A g \in Handle : Phase(g)' = Phase(g)
    BY <1>0, <1>t, <2>1, PhaseKept
  <2>3. Phase(h) = "open"
    BY <1>0, <2>1 DEF OwnerInv, Phase, CanUse
  <2>4. /\ UsersOf(h)' = UsersOf(h) \cup {c}
        /\ \A g \in Handle \ {h} : UsersOf(g)' = UsersOf(g)
    BY <1>0, <1>t, <2>1, GotoEnter DEF UsingPC
  <2>5. \A g \in Handle : c \notin UsersOf(g)
    BY <2>1 DEF Goto, UsersOf, UsingPC
  <2>6. Lifetime!Acquire(c, h)
    <3>1. PhaseMap' = PhaseMap /\ PhaseMap[h] = "open"
      BY <2>2, <2>3 DEF PhaseMap
    <3>2. UsersMap' = [UsersMap EXCEPT ![h] = UsersMap[h] \cup {c}]
      BY <2>4 DEF UsersMap
    <3>3. \A g \in Handle : c \notin UsersMap[g]
      BY <2>5 DEF UsersMap
    <3>4. QED
      BY <3>1, <3>2, <3>3 DEF Lifetime!Acquire, PhaseMap, UsersMap
  <2>7. QED
    BY <1>t, <2>6 DEF Lifetime!Next
<1>17. ASSUME NEW h \in Handle, SsrVisit(h) PROVE Lifetime!Next
  <2>1. Goto(Ssr, "walk", "handler", h) /\ UNCHANGED <<activeStreams, entry, active>> /\ CanUse(h)
    BY <1>17 DEF SsrVisit, increaseStreamUserCounter
  <2>2. \A g \in Handle : Phase(g)' = Phase(g)
    BY <1>0, <1>t, <2>1, PhaseKept
  <2>3. Phase(h) = "open"
    BY <1>0, <2>1 DEF OwnerInv, Phase, CanUse
  <2>4. /\ UsersOf(h)' = UsersOf(h) \cup {Ssr}
        /\ \A g \in Handle \ {h} : UsersOf(g)' = UsersOf(g)
    BY <1>0, <1>t, <2>1, GotoEnter DEF UsingPC
  <2>5. \A g \in Handle : Ssr \notin UsersOf(g)
    BY <2>1 DEF Goto, UsersOf, UsingPC
  <2>6. Lifetime!Acquire(Ssr, h)
    <3>1. PhaseMap' = PhaseMap /\ PhaseMap[h] = "open"
      BY <2>2, <2>3 DEF PhaseMap
    <3>2. UsersMap' = [UsersMap EXCEPT ![h] = UsersMap[h] \cup {Ssr}]
      BY <2>4 DEF UsersMap
    <3>3. \A g \in Handle : Ssr \notin UsersMap[g]
      BY <2>5 DEF UsersMap
    <3>4. QED
      BY <3>1, <3>2, <3>3 DEF Lifetime!Acquire, PhaseMap, UsersMap
  <2>7. QED
    BY <1>t, <2>6 DEF Lifetime!Next
<1>18. ASSUME NEW c \in Client, NEW h \in Handle, arg[c] = h, UserLeave(c) PROVE Lifetime!Next
  <2>1. (Goto(c, "inside", "idle", None)) /\ UNCHANGED <<activeStreams, entry, active>>
    BY <1>18 DEF UserLeave, decreaseStreamUserCounter, counterVars
  <2>2. \A g \in Handle : Phase(g)' = Phase(g)
    BY <1>0, <1>t, <2>1, PhaseKept
  <2>3. /\ UsersOf(h)' = UsersOf(h) \ {c}
        /\ c \in UsersOf(h)
        /\ \A g \in Handle \ {h} : UsersOf(g)' = UsersOf(g)
    BY <1>0, <1>t, <1>18, <2>1, GotoLeave DEF UsingPC
  <2>4. Lifetime!Release(c, h)
    <3>1. PhaseMap' = PhaseMap
      BY <2>2 DEF PhaseMap
    <3>2. UsersMap' = [UsersMap EXCEPT ![h] = UsersMap[h] \ {c}] /\ c \in UsersMap[h]
      BY <2>3 DEF UsersMap
    <3>3. QED
      BY <3>1, <3>2 DEF Lifetime!Release, PhaseMap, UsersMap
  <2>5. QED
    BY <1>t, <2>4 DEF Lifetime!Next
<1>19. ASSUME NEW h \in Handle, arg[Ssr] = h, SsrLeave PROVE Lifetime!Next
  <2>1. (Goto(Ssr, "handler", "walk", None) \/ Goto(Ssr, "handled", "walk", None)) /\ UNCHANGED <<activeStreams, entry, active>>
    BY <1>19 DEF SsrLeave, decreaseStreamUserCounter, counterVars
  <2>2. \A g \in Handle : Phase(g)' = Phase(g)
    BY <1>0, <1>t, <2>1, PhaseKept
  <2>3. /\ UsersOf(h)' = UsersOf(h) \ {Ssr}
        /\ Ssr \in UsersOf(h)
        /\ \A g \in Handle \ {h} : UsersOf(g)' = UsersOf(g)
    BY <1>0, <1>t, <1>19, <2>1, GotoLeave DEF UsingPC
  <2>4. Lifetime!Release(Ssr, h)
    <3>1. PhaseMap' = PhaseMap
      BY <2>2 DEF PhaseMap
    <3>2. UsersMap' = [UsersMap EXCEPT ![h] = UsersMap[h] \ {Ssr}] /\ Ssr \in UsersMap[h]
      BY <2>3 DEF UsersMap
    <3>3. QED
      BY <3>1, <3>2 DEF Lifetime!Release, PhaseMap, UsersMap
  <2>5. QED
    BY <1>t, <2>4 DEF Lifetime!Next
<1>20. ASSUME UNCHANGED vars PROVE UNCHANGED Lifetime!vars
  BY <1>20 DEF vars, Lifetime!vars, Phase, CanUse, UsersOf
<1>q. QED
  <2>1. \A c \in Client : pc[c] # "idle" => arg[c] \in Handle
    BY <1>0 DEF TypeOK
  <2>2. pc[Ssr] \notin {"idle", "walk"} => arg[Ssr] \in Handle
    BY <1>0 DEF TypeOK
  <2>3. \A c \in Client :
           \/ OpenDone(c) \/ OpenFail(c) \/ UserEnter(c) \/ UserLeave(c)
           \/ CloseDeactivate(c) \/ CloseErase(c) \/ CloseDestroy(c)
           => arg[c] \in Handle
    BY <2>1 DEF OpenDone, OpenFail, UserEnter, UserLeave, CloseDeactivate,
                CloseErase, CloseDestroy, Goto
  <2>4. SsrLeave => arg[Ssr] \in Handle
    BY <2>2 DEF SsrLeave, Goto
  <2>5. QED
    BY <1>1, <1>2, <1>3, <1>4, <1>5, <1>6, <1>7, <1>8, <1>9, <1>10, <1>11, <1>12,
         <1>13, <1>14, <1>15, <1>16, <1>17, <1>18, <1>19, <1>20, <2>3, <2>4
       DEF Next, ClientCall, ClientStep, SsrStep

(* The counter, its semaphore and the SSR walk implement the contract of   *)
(* HandleLifetime: used only while open, destroyed only when unused.       *)
THEOREM Refinement == Spec => ImplementsLifetime
<1>1. Init => Lifetime!Init
  BY DEF Init, Lifetime!Init, Phase, UsersOf, UsingPC, Thread
<1>2. QED
  BY <1>1, StepMaps, Inductive, PTL DEF Spec, Lifetime!Spec, ImplementsLifetime
=============================================================================
