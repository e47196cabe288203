------------------------ MODULE PalRingBuffer_proofs ------------------------
(* Proofs about PalRingBuffer for every number of streams and every size of  *)
(* the ring, of the reads and of the writes.                                 *)
EXTENDS PalRingBuffer, TLAPS

(* The cell that was written d bytes ago, and the content of the ring: the    *)
(* last bufferEnd_ bytes, or those since the ring was replaced when these are *)
(* fewer.                                                                    *)
back(w, d) == IF w >= d THEN w - d ELSE w + bufferEnd_ - d
RingHolds ==
    \A d \in 1..bufferEnd_ : d <= written - lost
        => buffer_[back(writeOffset_, d)] = written - d

(* The inductive invariant: the offsets of a covered reader are as far apart  *)
(* as the bytes it has not seen, modulo one turn of the ring.                 *)
ReaderOK(r) ==
    /\ state_[r] = "enabled"
    /\ r[1] \notin detected
    /\ Backed(readOffset_[r], unreadSize_[r], pos[r])
CoveredOK == \A r \in covered : ReaderOK(r)

(* Once a stream is notified, the end of its keyword is among the bytes       *)
(* written, so that what its readers skip is there.                           *)
KeywordWritten ==
    /\ detected \subseteq buffering
    /\ \A r \in Reader : state_[r] # "disabled" /\ r[1] \notin detected
                           => kwCfg_[r[1]] <= written

(* Between a reset and the next detection nothing is written, and every       *)
(* reader the reset has visited is empty and disabled.                        *)
Idle ==
    buffering = {} =>
        /\ written = 0 /\ writeOffset_ = 0
        /\ \A r \in Reader \ toReset :
            state_[r] = "disabled" /\ unreadSize_[r] = 0 /\ readOffset_[r] = 0

Inv == TypeOK /\ Idle /\ RingHolds /\ KeywordWritten /\ CoveredOK

(* The calls that reset the ring.                                            *)
Restarts ==
    \/ reset
    \/ \E n \in Sizes :
        \/ ProcessStartRecognition(n)
        \/ \E s \in Stream : CreateBuffer(s, n)

LEMMA RestartsDo ==
    ASSUME Restarts
    PROVE  /\ ResetRing
           /\ buffer_' = NewCells(bufferEnd_')
           /\ shared' \in {shared, {}, Stream}
           /\ detected' \in {detected, {}} /\ buffering' \in {buffering, {}}
           /\ detected' = detected \/ buffering' = {}
           /\ detected' # {} => detected' = detected /\ buffering' = buffering
           /\ buffering' = {} \/ shared' = Stream
           /\ shared' = Stream \/ creating' = {} \/ UNCHANGED <<shared, creating>>
           /\ UNCHANGED <<newSize, creating>> \/ creating' # {}
           /\ newSize' \in Sizes \cup {newSize} /\ (creating' = creating \/ creating' \subseteq Stream)
           /\ bufferEnd_' = bufferEnd_ \/ (buffering = {} /\ bufferEnd_' \in Sizes)
<1>1. CASE reset
    BY <1>1 DEF reset, load
<1>2. ASSUME NEW n \in Sizes, ProcessStartRecognition(n)
      PROVE  buffer_' = NewCells(bufferEnd_')
    BY <1>2 DEF ProcessStartRecognition
<1>3. CASE \E n \in Sizes : ProcessStartRecognition(n)
    BY <1>2, <1>3 DEF ProcessStartRecognition, load
<1>4. CASE \E n \in Sizes : \E s \in Stream : CreateBuffer(s, n)
    BY <1>4 DEF CreateBuffer
<1> QED BY <1>1, <1>3, <1>4 DEF Restarts

USE DEF ring, load, count

(* The % of advanceReadOffset and updateKwdConfig stays inside the ring.      *)
LEMMA ModRange ==
    ASSUME TypeOK, NEW x \in Nat
    PROVE  x % bufferEnd_ \in 0..(bufferEnd_ - 1)
<1>1. bufferEnd_ \in Nat \ {0}
    BY RingAssumption DEF TypeOK
<1> QED BY <1>1

(* ... and takes away one turn at most when there is one at most.            *)
LEMMA ModWrap ==
    ASSUME TypeOK, NEW x \in Nat, x < 2 * bufferEnd_
    PROVE  x % bufferEnd_ = wrap(x)
<1>1. bufferEnd_ \in Nat \ {0}
    BY RingAssumption DEF TypeOK
<1> QED BY <1>1, SMTT(60) DEF wrap

(* The values a step starts from, for one reader.                            *)
LEMMA ReaderTypes ==
    ASSUME TypeOK, NEW r \in Reader
    PROVE  /\ bufferEnd_ \in Nat \ {0} /\ written \in Nat /\ lost \in 0..written
           /\ writeOffset_ \in 0..(bufferEnd_ - 1) /\ readOffset_[r] \in 0..(bufferEnd_ - 1)
           /\ unreadSize_[r] \in Nat /\ pos[r] \in Nat
           /\ state_[r] \in {"disabled", "prepared", "enabled"}
BY RingAssumption DEF TypeOK

(* What read() finds between the offsets is what the reader has not seen.     *)
LEMMA SpanExact ==
    ASSUME TypeOK, NEW r \in Reader,
           \/ Backed(readOffset_[r], unreadSize_[r], pos[r])
           \/ Backed(readOffset_[r], Believed(r), pos[r])
    PROVE  Believed(r) = written - pos[r] /\ Believed(r) \in 0..bufferEnd_
BY ReaderTypes DEF Backed, Believed, Span

(* A step that leaves a reader and the offsets of the ring alone keeps it.    *)
LEMMA ReaderOKStutter ==
    ASSUME NEW r, UNCHANGED <<bufferEnd_, writeOffset_, written, lost>>,
           r[1] \notin detected',
           readOffset_'[r] = readOffset_[r], unreadSize_'[r] = unreadSize_[r],
           state_'[r] = state_[r], pos'[r] = pos[r],
           ReaderOK(r)
    PROVE  ReaderOK(r)'
BY DEF ReaderOK, Backed

-----------------------------------------------------------------------------
(* write: the ring holds the last bufferEnd_ bytes, and a covered reader keeps the     *)
(* bytes it has not seen because the writer leaves its unreadSize_ free.      *)
LEMMA WriteHolds ==
    ASSUME Inv, NEW k \in 1..MaxChunk, write(k)
    PROVE  RingHolds'
<1>0. /\ bufferEnd_ \in Nat \ {0} /\ k \in Nat /\ written \in Nat /\ k > 0 /\ k <= bufferEnd_
      /\ writeOffset_ \in 0..(bufferEnd_ - 1)
    BY RingAssumption DEF Inv, TypeOK, write, getFreeSize
<1>1. /\ buffer_' = Stored(k) /\ writeOffset_' = wrap(writeOffset_ + k)
      /\ written' = written + k
    BY DEF write
<1>c. lost \in 0..written /\ lost' = lost /\ bufferEnd_' = bufferEnd_
    BY DEF Inv, TypeOK, write
<1> SUFFICES ASSUME NEW d \in 1..bufferEnd_, d <= written' - lost
             PROVE  buffer_'[back(writeOffset_', d)] = written' - d
    BY <1>c DEF RingHolds, back
<1>d. d \in Nat /\ d > 0 /\ d <= bufferEnd_ /\ d <= written + k /\ d <= written + k - lost
    BY <1>0, <1>1, <1>c
<1> SUFFICES Stored(k)[back(wrap(writeOffset_ + k), d)] = written + k - d
    BY <1>0, <1>1, <1>d
<1> DEFINE c == back(wrap(writeOffset_ + k), d)
<1>2. c = IF wrap(writeOffset_ + k) >= d
          THEN wrap(writeOffset_ + k) - d ELSE wrap(writeOffset_ + k) + bufferEnd_ - d
    BY DEF back
<1> HIDE DEF c
<1>3. c \in 0..(bufferEnd_ - 1)
    BY <1>0, <1>d, <1>2 DEF wrap
<1>4. Stored(k)[c] = IF c >= writeOffset_ /\ c < writeOffset_ + k
                     THEN written + (c - writeOffset_)
                     ELSE IF c + bufferEnd_ < writeOffset_ + k
                     THEN written + (c + bufferEnd_ - writeOffset_)
                     ELSE buffer_[c]
    BY <1>3 DEF Stored
<1>5. CASE d <= k
  <2>1. Stored(k)[c] = written + k - d
      BY <1>0, <1>d, <1>2, <1>4, <1>5 DEF wrap
  <2> QED BY <2>1 DEF c
<1>6. CASE d > k
  <2>1. (d - k) \in 1..bufferEnd_ /\ d - k <= written - lost
      BY <1>0, <1>c, <1>d, <1>6
  <2>2. buffer_[back(writeOffset_, d - k)] = written - (d - k)
      BY <2>1 DEF Inv, RingHolds
  <2>3. c = back(writeOffset_, d - k)
      BY <1>0, <1>d, <1>2, <1>6 DEF wrap, back
  <2>4. ~(c >= writeOffset_ /\ c < writeOffset_ + k) /\ ~(c + bufferEnd_ < writeOffset_ + k)
      BY <1>0, <1>d, <1>2, <1>6 DEF wrap
  <2> QED BY <1>0, <1>d, <1>4, <2>2, <2>3, <2>4 DEF c
<1> QED BY <1>0, <1>d, <1>5, <1>6 DEF c

LEMMA WriteCovered ==
    ASSUME Inv, NEW k \in 1..MaxChunk, write(k)
    PROVE  CoveredOK'
<1> SUFFICES ASSUME NEW r \in covered PROVE ReaderOK(r)'
    BY DEF CoveredOK, write, ghost
<1>0. r \in Reader /\ ReaderOK(r) /\ k \in Nat /\ TypeOK
    BY RingAssumption DEF Inv, TypeOK, CoveredOK
<1>1. /\ readOffset_' = readOffset_ /\ state_' = state_ /\ pos' = pos
      /\ detected' = detected
      /\ writeOffset_' = wrap(writeOffset_ + k)
      /\ unreadSize_'[r] = unreadSize_[r] + k
      /\ written' = written + k /\ UNCHANGED <<lost, bufferEnd_>>
    BY <1>0 DEF write, ghost, engine
<1>2. k <= FreeFor(r)
    BY <1>0 DEF write, getFreeSize, Enabled, ReaderOK
<1>3. unreadSize_[r] + k <= bufferEnd_
    BY <1>0, <1>2, ReaderTypes DEF FreeFor, ReaderOK, Backed
<1>4. Backed(readOffset_[r], unreadSize_[r], pos[r])'
    BY <1>0, <1>1, <1>3, ReaderTypes DEF ReaderOK, Backed, wrap
<1> QED BY <1>0, <1>1, <1>4 DEF ReaderOK

(* read: the reader moves over the bytes it returns and counts the others.    *)
LEMMA ReadCovered ==
    ASSUME Inv, NEW r \in Reader, NEW k \in 1..MaxChunk, read(r, k)
    PROVE  CoveredOK'
<1> DEFINE n == Smaller(k, Believed(r))
<1> SUFFICES ASSUME NEW q \in covered' PROVE ReaderOK(q)'
    BY DEF CoveredOK
<1>0. TypeOK /\ k \in Nat \ {0}
    BY RingAssumption DEF Inv
<1>1. /\ UNCHANGED <<bufferEnd_, writeOffset_, written, lost>> /\ detected' = detected
      /\ state_' = [state_ EXCEPT ![r] = "enabled"]
      /\ readOffset_' = [readOffset_ EXCEPT ![r] = wrap(readOffset_[r] + n)]
      /\ unreadSize_' = [unreadSize_ EXCEPT ![r] = Believed(r) - n]
      /\ pos' = IF r \in covered' THEN [pos EXCEPT ![r] = pos[r] + n] ELSE pos
    BY DEF read, engine
<1>2. CASE q # r
  <2>1. q \in covered /\ q \in Reader
      BY <1>0, <1>2 DEF read, TypeOK
  <2>2. ReaderOK(q)
      BY <2>1 DEF Inv, CoveredOK
  <2>3. /\ readOffset_'[q] = readOffset_[q] /\ unreadSize_'[q] = unreadSize_[q]
        /\ state_'[q] = state_[q] /\ pos'[q] = pos[q]
      BY <1>0, <1>1, <1>2, <2>1 DEF TypeOK
  <2> QED BY <1>1, <2>2, <2>3, ReaderOKStutter DEF ReaderOK
<1>3. CASE q = r
  <2>0. r[1] \notin detected
      BY <1>3 DEF read, Inv, CoveredOK, ReaderOK
  <2>1. \/ Backed(readOffset_[r], unreadSize_[r], pos[r])
        \/ Backed(readOffset_[r], Believed(r), pos[r])
      BY <1>3 DEF read, Inv, CoveredOK, ReaderOK
  <2>2. Believed(r) = written - pos[r] /\ Believed(r) \in 0..bufferEnd_
      BY <1>0, <2>1, SpanExact
  <2>3. /\ lost <= pos[r] /\ pos[r] <= written
        /\ readOffset_[r] + (written - pos[r]) \in {writeOffset_, writeOffset_ + bufferEnd_}
      BY <2>1 DEF Backed
  <2>4. n \in 0..Believed(r)
      BY <1>0, <2>2, ReaderTypes DEF Smaller
  <2>5. /\ readOffset_'[r] = wrap(readOffset_[r] + n)
        /\ unreadSize_'[r] = Believed(r) - n
        /\ state_'[r] = "enabled" /\ pos'[r] = pos[r] + n
      BY <1>0, <1>1, <1>3 DEF TypeOK
  <2> HIDE DEF n
  <2>6. Backed(readOffset_[r], unreadSize_[r], pos[r])'
      BY <1>0, <1>1, <2>2, <2>3, <2>4, <2>5, ReaderTypes DEF Backed, wrap
  <2> QED BY <1>1, <1>3, <2>0, <2>5, <2>6 DEF ReaderOK
<1> QED BY <1>2, <1>3

(* advanceReadOffset: the bytes skipped are in the ring, because they are     *)
(* before the end of the keyword (KeywordWritten).                            *)
LEMMA AdvanceCovered ==
    ASSUME Inv, NEW r \in Reader, NEW k \in 1..MaxChunk, advanceReadOffset(r, k)
    PROVE  CoveredOK'
<1> SUFFICES ASSUME NEW q \in covered PROVE ReaderOK(q)'
    BY DEF CoveredOK, advanceReadOffset
<1>0. TypeOK /\ k \in Nat \ {0} /\ q \in Reader /\ ReaderOK(q)
    BY RingAssumption DEF Inv, TypeOK, CoveredOK
<1>1. /\ UNCHANGED <<bufferEnd_, writeOffset_, written, lost>> /\ state_' = state_
      /\ detected' = detected
      /\ readOffset_' = [readOffset_ EXCEPT ![r] = (readOffset_[r] + k) % bufferEnd_]
      /\ unreadSize_' = IF unreadSize_[r] > k
                        THEN [unreadSize_ EXCEPT ![r] = unreadSize_[r] - k]
                        ELSE unreadSize_
      /\ pos' = [pos EXCEPT ![r] = pos[r] + k]
    BY DEF advanceReadOffset, engine
<1>2. CASE q # r
  <2>1. /\ readOffset_'[q] = readOffset_[q] /\ unreadSize_'[q] = unreadSize_[q]
        /\ pos'[q] = pos[q]
      BY <1>0, <1>1, <1>2 DEF TypeOK
  <2> QED BY <1>0, <1>1, <2>1, ReaderOKStutter DEF ReaderOK
<1>3. CASE q = r
  <2>0. r[1] \in Stream /\ kwCfg_[r[1]] \in Nat /\ kwCfg_[r[1]] <= written
    <3>1. r[1] \in Stream
        BY RingAssumption DEF Reader
    <3>2. kwCfg_[r[1]] \in Nat
        BY <1>0, <3>1 DEF TypeOK
    <3> QED BY <1>0, <1>3, <3>1, <3>2 DEF Inv, KeywordWritten, ReaderOK
  <2>1. pos[r] + k < written
      BY <1>0, <2>0, ReaderTypes DEF advanceReadOffset
  <2>2. k < bufferEnd_ /\ k < unreadSize_[r] /\ readOffset_[r] + k < 2 * bufferEnd_
      BY <1>0, <1>3, <2>1, ReaderTypes DEF ReaderOK, Backed
  <2>3. (readOffset_[r] + k) % bufferEnd_ = wrap(readOffset_[r] + k)
      BY <1>0, <2>2, ReaderTypes, ModWrap
  <2>4. /\ readOffset_'[r] = wrap(readOffset_[r] + k)
        /\ unreadSize_'[r] = unreadSize_[r] - k /\ pos'[r] = pos[r] + k
      BY <1>0, <1>1, <2>2, <2>3 DEF TypeOK
  <2>5. Backed(wrap(readOffset_[r] + k), unreadSize_[r] - k, pos[r] + k)
    <3>1. /\ bufferEnd_ \in Nat \ {0} /\ written \in Nat /\ lost \in 0..written
          /\ writeOffset_ \in 0..(bufferEnd_ - 1) /\ readOffset_[r] \in 0..(bufferEnd_ - 1)
          /\ unreadSize_[r] \in Nat /\ pos[r] \in Nat
        BY <1>0, ReaderTypes
    <3>2. Backed(readOffset_[r], unreadSize_[r], pos[r])
        BY <1>0, <1>3 DEF ReaderOK
    <3>3. CASE readOffset_[r] + k < bufferEnd_
        BY <1>0, <2>1, <2>2, <3>1, <3>2, <3>3 DEF Backed, wrap
    <3>4. CASE readOffset_[r] + k >= bufferEnd_
      <4>1. readOffset_[r] + (written - pos[r]) = writeOffset_ + bufferEnd_
          BY <1>0, <2>1, <3>1, <3>2, <3>4 DEF Backed
      <4>2. wrap(readOffset_[r] + k) = readOffset_[r] + k - bufferEnd_
          BY <1>0, <3>1, <3>4 DEF wrap
      <4>3. readOffset_[r] + k - bufferEnd_ + (written - (pos[r] + k)) = writeOffset_
          BY <1>0, <3>1, <4>1
      <4> QED BY <1>0, <2>1, <2>2, <3>1, <3>2, <4>2, <4>3 DEF Backed
    <3> QED BY <1>0, <3>1, <3>3, <3>4
  <2>6. Backed(readOffset_[r], unreadSize_[r], pos[r])'
      BY <1>1, <2>4, <2>5 DEF Backed
  <2> QED BY <1>0, <1>1, <1>3, <2>6 DEF ReaderOK
<1> QED BY <1>2, <1>3

-----------------------------------------------------------------------------
(* The detections: the readers of the stream start again, uncovered.          *)
LEMMA KwdConfigCovered ==
    ASSUME Inv, NEW s \in Stream, NEW start \in Nat, NEW end \in Nat,
           updateKwdConfig(s, start, end),
           state_' = state_, UNCHANGED <<bufferEnd_, writeOffset_, written, lost>>,
           detected' \subseteq detected \cup {s}
    PROVE  CoveredOK'
<1> SUFFICES ASSUME NEW q \in covered' PROVE ReaderOK(q)'
    BY DEF CoveredOK
<1>1. q \in covered /\ q \in Reader /\ q \notin ReadersOf(s) /\ q[1] # s
    BY DEF updateKwdConfig, ReadersOf, Inv, TypeOK
<1>2. ReaderOK(q)
    BY <1>1 DEF Inv, CoveredOK
<1>3. /\ readOffset_'[q] = readOffset_[q] /\ unreadSize_'[q] = unreadSize_[q]
      /\ pos'[q] = pos[q]
    BY <1>1 DEF updateKwdConfig
<1>4. q[1] \notin detected'
    BY <1>1, <1>2 DEF ReaderOK
<1> QED BY <1>2, <1>3, <1>4, ReaderOKStutter

LEMMA KwdConfigType ==
    ASSUME TypeOK, NEW s \in Stream, NEW start \in Nat, NEW end \in Nat,
           updateKwdConfig(s, start, end)
    PROVE  /\ unreadSize_' \in [Reader -> Nat]
           /\ readOffset_' \in [Reader -> 0..(bufferEnd_ - 1)]
           /\ pos' \in [Reader -> Nat]
           /\ kwCfg_' \in [Stream -> Nat]
           /\ covered' \subseteq Reader
<1>1. Skipped(start) \in Nat
    BY RingAssumption DEF Skipped
<1>2. Skipped(start) % bufferEnd_ \in 0..(bufferEnd_ - 1)
    BY <1>1, ModRange
<1> DEFINE less(r) == IF unreadSize_[r] > Skipped(start)
                      THEN unreadSize_[r] - Skipped(start) ELSE unreadSize_[r]
<1>3. ASSUME NEW r \in Reader PROVE less(r) % bufferEnd_ \in Nat
  <2>1. less(r) \in Nat
      BY <1>1 DEF TypeOK
  <2> QED BY <2>1, ModRange, RingAssumption
<1>4. unreadSize_' = [r \in Reader |->
            IF r \in ReadersOf(s) THEN less(r) % bufferEnd_ ELSE unreadSize_[r]]
    BY DEF updateKwdConfig
<1> HIDE DEF less
<1>5. unreadSize_' \in [Reader -> Nat]
    BY <1>3, <1>4 DEF TypeOK
<1>6. readOffset_' \in [Reader -> 0..(bufferEnd_ - 1)]
    BY <1>2 DEF updateKwdConfig, TypeOK
<1>7. pos' \in [Reader -> Nat]
    BY <1>1 DEF updateKwdConfig, TypeOK
<1> QED BY <1>5, <1>6, <1>7 DEF updateKwdConfig, TypeOK

-----------------------------------------------------------------------------
(* One step of the walk of reset() takes a reader of toReset and disables it. *)
LEMMA ResetReaderDoes ==
    ASSUME TypeOK, NEW r \in Reader, resetReader(r)
    PROVE  /\ r \in toReset /\ toReset' = toReset \ {r}
           /\ readOffset_' = [readOffset_ EXCEPT ![r] = 0]
           /\ unreadSize_' = [unreadSize_ EXCEPT ![r] = 0]
           /\ state_' = [state_ EXCEPT ![r] = "disabled"]
           /\ pos' = [pos EXCEPT ![r] = 0]
           /\ covered' = covered \ {r}
           /\ UNCHANGED <<ring, kwCfg_, detected, buffering, count, shared>>
           /\ newSize' = newSize /\ creating' \in {creating, {}}
<1>1. r \in toReset
    BY DEF resetReader
<1> QED BY <1>1 DEF resetReader

(* Types.                                                                    *)
LEMMA TypeStep ==
    ASSUME Inv, Next
    PROVE  TypeOK'
<1> USE RingAssumption DEF Inv
<1>1. CASE Restarts
  <2>1. bufferEnd_' = bufferEnd_ \/ (bufferEnd_' \in Sizes
                                      /\ \A r \in Reader : readOffset_[r] = 0)
      BY <1>1, RestartsDo DEF Idle, ResetRing
  <2>2. bufferEnd_' \in Sizes /\ bufferEnd_' \in Nat \ {0}
      BY <2>1 DEF TypeOK
  <2>3. readOffset_' \in [Reader -> 0..(bufferEnd_' - 1)]
      BY <1>1, <2>1, <2>2, RestartsDo DEF ResetRing, reader, TypeOK
  <2>4. buffer_' \in [0..(bufferEnd_' - 1) -> Nat \cup {Empty}]
      BY <1>1, RestartsDo DEF NewCells
  <2>5. writeOffset_' \in 0..(bufferEnd_' - 1) /\ lost' \in 0..written' /\ written' \in Nat
    <3>1. writeOffset_' = 0 /\ lost' = 0 /\ written' = 0
        BY <1>1, RestartsDo DEF ResetRing
    <3>2. \A n \in Nat \ {0} : 0 \in 0..(n - 1)
        OBVIOUS
    <3>3. 0 \in 0..0 /\ 0 \in Nat
        OBVIOUS
    <3> QED BY <2>2, <3>1, <3>2, <3>3
  <2>6. /\ newSize' \in Sizes \cup {0} /\ creating' \subseteq Stream
        /\ detected' \subseteq Stream /\ buffering' \subseteq Stream
        /\ shared' \subseteq Stream
      BY <1>1, RestartsDo DEF TypeOK
  <2>7. /\ unreadSize_' = unreadSize_ /\ state_' = state_ /\ toReset' = Reader
        /\ kwCfg_' = [s \in Stream |-> 0] /\ pos' = [r \in Reader |-> 0]
        /\ covered' = {}
      BY <1>1, RestartsDo DEF ResetRing, reader
  <2> QED BY <2>2, <2>3, <2>4, <2>5, <2>6, <2>7 DEF TypeOK
<1>9. CASE resizeRingBuffer
  <2>1. /\ bufferEnd_' = newSize /\ newSize \in Sizes /\ newSize \in Nat \ {0}
        /\ newSize' = 0
      BY <1>9 DEF resizeRingBuffer, TypeOK
  <2>2. CASE newSize = bufferEnd_
      BY <1>9, <2>1, <2>2 DEF resizeRingBuffer, reader, count, TypeOK
  <2>3. CASE newSize # bufferEnd_
    <3>1. buffer_' \in [0..(bufferEnd_' - 1) -> Nat \cup {Empty}]
        BY <1>9, <2>1, <2>3 DEF resizeRingBuffer, NewCells
    <3>2. /\ readOffset_' \in [Reader -> 0..(bufferEnd_' - 1)]
          /\ writeOffset_' \in 0..(bufferEnd_' - 1)
        BY <1>9, <2>1, <2>3 DEF resizeRingBuffer, reader, TypeOK
    <3> QED BY <1>9, <2>1, <2>3, <3>1, <3>2 DEF resizeRingBuffer, reader, TypeOK
  <2> QED BY <2>2, <2>3
<1>2. ASSUME NEW k \in 1..MaxChunk, write(k) PROVE TypeOK'
  <2>1. Stored(k) \in [0..(bufferEnd_ - 1) -> Nat \cup {Empty}]
      BY <1>2 DEF TypeOK, Stored
  <2>2. wrap(writeOffset_ + k) \in 0..(bufferEnd_ - 1)
      BY <1>2 DEF TypeOK, wrap, write, getFreeSize
  <2> QED BY <1>2, <2>1, <2>2 DEF write, engine, ghost, TypeOK
<1>3. ASSUME NEW r \in Reader, resetReader(r) PROVE TypeOK'
  <2>1. 0 \in 0..(bufferEnd_ - 1) /\ TypeOK
      BY DEF TypeOK
  <2>2. /\ readOffset_' = [readOffset_ EXCEPT ![r] = 0]
        /\ unreadSize_' = [unreadSize_ EXCEPT ![r] = 0]
        /\ pos' = [pos EXCEPT ![r] = 0]
      BY <1>3, <2>1, ResetReaderDoes
  <2>3. readOffset_' \in [Reader -> 0..(bufferEnd_ - 1)]
      BY <2>1, <2>2 DEF TypeOK
  <2>4. unreadSize_' \in [Reader -> Nat]
      BY <2>2 DEF TypeOK
  <2>5. pos' \in [Reader -> Nat]
      BY <2>2 DEF TypeOK
  <2>6. /\ state_' \in [Reader -> {"disabled", "prepared", "enabled"}]
        /\ toReset' \subseteq Reader /\ covered' \subseteq Reader
      BY <1>3, <2>1, ResetReaderDoes DEF TypeOK
  <2> QED BY <1>3, <2>1, <2>3, <2>4, <2>5, <2>6, ResetReaderDoes DEF TypeOK
<1>4. ASSUME NEW r \in Reader, updateState(r) PROVE TypeOK'
    BY <1>4 DEF updateState, engine, TypeOK
<1>5. ASSUME NEW r \in Reader, NEW k \in 1..MaxChunk, read(r, k) PROVE TypeOK'
  <2>1. Believed(r) \in Nat /\ Believed(r) <= 2 * bufferEnd_
      BY ReaderTypes DEF Believed, Span
  <2> DEFINE n == Smaller(k, Believed(r))
  <2>2. n \in Nat /\ n <= Believed(r)
      BY <2>1 DEF Smaller
  <2>3. Believed(r) - n \in Nat
      BY <2>1, <2>2
  <2>4. wrap(readOffset_[r] + n) \in 0..(bufferEnd_ - 1)
    <3>1. readOffset_[r] + Believed(r) < 2 * bufferEnd_
        BY ReaderTypes DEF Believed, Span
    <3> HIDE DEF n
    <3> QED BY <2>1, <2>2, <3>1, ReaderTypes DEF wrap
  <2>5. pos[r] + n \in Nat
      BY <2>2, ReaderTypes
  <2>6. /\ state_' = [state_ EXCEPT ![r] = "enabled"]
        /\ readOffset_' = [readOffset_ EXCEPT ![r] = wrap(readOffset_[r] + n)]
        /\ unreadSize_' = [unreadSize_ EXCEPT ![r] = Believed(r) - n]
        /\ covered' \subseteq covered \cup {r}
        /\ pos' \in {pos, [pos EXCEPT ![r] = pos[r] + n]}
        /\ UNCHANGED <<ring, engine, load, count, shared>>
      BY <1>5 DEF read
  <2> HIDE DEF n
  <2> QED BY <2>3, <2>4, <2>5, <2>6 DEF engine, TypeOK
<1>6. ASSUME NEW r \in Reader, NEW k \in 1..MaxChunk, advanceReadOffset(r, k)
      PROVE  TypeOK'
  <2>1. (readOffset_[r] + k) % bufferEnd_ \in 0..(bufferEnd_ - 1)
      BY ReaderTypes, ModRange
  <2>2. unreadSize_[r] > k => unreadSize_[r] - k \in Nat
      BY ReaderTypes
  <2>3. pos[r] + k \in Nat
      BY ReaderTypes
  <2> QED BY <1>6, <2>1, <2>2, <2>3 DEF advanceReadOffset, engine, TypeOK
<1>7. ASSUME NEW s \in Stream, NotifyDetection(s) PROVE TypeOK'
    BY <1>7 DEF NotifyDetection, ReadersOf, TypeOK
<1>8. ASSUME NEW s \in Stream, NEW start \in 0..MaxKeyword, NEW end \in 0..MaxKeyword,
             FirstDetection(s, start, end) \/ ConcurrentDetection(s, start, end)
      PROVE  TypeOK'
  <2>1. updateKwdConfig(s, start, end)
      BY <1>8 DEF FirstDetection, ConcurrentDetection
  <2>2. /\ unreadSize_' \in [Reader -> Nat]
        /\ readOffset_' \in [Reader -> 0..(bufferEnd_ - 1)]
        /\ pos' \in [Reader -> Nat]
        /\ kwCfg_' \in [Stream -> Nat]
        /\ covered' \subseteq Reader
      BY <2>1, KwdConfigType
  <2> QED BY <1>8, <2>2 DEF FirstDetection, ConcurrentDetection, TypeOK
<1> QED BY <1>1, <1>2, <1>3, <1>4, <1>5, <1>6, <1>7, <1>8, <1>9 DEF Next, Restarts

(* Of the idle ring only the resets, the walks over the readers and the first *)
(* detection have something to keep.                                          *)
LEMMA IdleStep ==
    ASSUME Inv, Next
    PROVE  Idle'
<1> USE RingAssumption DEF Inv, Idle
<1>1. CASE Restarts
    BY <1>1, RestartsDo DEF ResetRing
<1>9. CASE resizeRingBuffer
    BY <1>9 DEF resizeRingBuffer, reader
<1>2. ASSUME NEW k \in 1..MaxChunk, write(k) PROVE Idle'
    BY <1>2 DEF write, engine
<1>3. ASSUME NEW r \in Reader, resetReader(r) PROVE Idle'
    BY <1>3 DEF resetReader, ring, count, TypeOK
<1>4. ASSUME NEW r \in Reader, updateState(r) PROVE Idle'
    BY <1>4 DEF updateState, ring, count, engine, TypeOK
<1>5. ASSUME NEW r \in Reader, NEW k \in 1..MaxChunk, read(r, k) PROVE Idle'
    BY <1>5 DEF read, ring, count, engine, TypeOK
<1>6. ASSUME NEW r \in Reader, NEW k \in 1..MaxChunk, advanceReadOffset(r, k)
      PROVE  Idle'
    BY <1>6 DEF advanceReadOffset, ring, count, engine, TypeOK
<1>7. ASSUME NEW s \in Stream, NotifyDetection(s) PROVE Idle'
    BY <1>7 DEF NotifyDetection, KeywordWritten
<1>8. ASSUME NEW s \in Stream, NEW start \in 0..MaxKeyword, NEW end \in 0..MaxKeyword,
             FirstDetection(s, start, end) \/ ConcurrentDetection(s, start, end)
      PROVE  Idle'
    BY <1>8 DEF FirstDetection, ConcurrentDetection
<1> QED BY <1>1, <1>2, <1>3, <1>4, <1>5, <1>6, <1>7, <1>8, <1>9 DEF Next, Restarts

(* The content of the ring: only write and reset change it.                  *)
LEMMA HoldsStep ==
    ASSUME Inv, Next
    PROVE  RingHolds'
<1>1. CASE Restarts
  <2>1. written' = 0 /\ lost' = 0
      BY <1>1, RestartsDo DEF ResetRing
  <2> QED BY <2>1, RingAssumption DEF RingHolds
<1>8. CASE resizeRingBuffer
  <2>1. CASE newSize = bufferEnd_
      BY <1>8, <2>1 DEF resizeRingBuffer, Inv, RingHolds, back
  <2>2. CASE newSize # bufferEnd_
    <3>1. written' = written /\ lost' = written /\ written \in Nat
        BY <1>8, <2>2 DEF resizeRingBuffer, Inv, TypeOK
    <3> QED BY <3>1, RingAssumption DEF RingHolds
  <2> QED BY <2>1, <2>2
<1>2. ASSUME NEW k \in 1..MaxChunk, write(k) PROVE RingHolds'
    BY <1>2, WriteHolds
<1>3. CASE UNCHANGED <<ring, count>>
    BY <1>3 DEF Inv, RingHolds, ring, count, back
<1>4. ASSUME NEW r \in Reader, resetReader(r) \/ updateState(r)
      PROVE  UNCHANGED <<ring, count>>
    BY <1>4 DEF resetReader, updateState
<1>5. ASSUME NEW r \in Reader, NEW k \in 1..MaxChunk,
             read(r, k) \/ advanceReadOffset(r, k)
      PROVE  UNCHANGED <<ring, count>>
    BY <1>5 DEF read, advanceReadOffset
<1>6. ASSUME NEW s \in Stream, NEW start \in 0..MaxKeyword, NEW end \in 0..MaxKeyword,
             FirstDetection(s, start, end) \/ ConcurrentDetection(s, start, end)
      PROVE  UNCHANGED <<ring, count>>
    BY <1>6 DEF FirstDetection, ConcurrentDetection
<1>7. ASSUME NEW s \in Stream, NotifyDetection(s)
      PROVE  UNCHANGED <<ring, count>>
    BY <1>7 DEF NotifyDetection
<1> QED BY <1>1, <1>2, <1>3, <1>4, <1>5, <1>6, <1>7, <1>8 DEF Next, Restarts

(* The end of a notified keyword is written.                                 *)
LEMMA KeywordStep ==
    ASSUME Inv, Next
    PROVE  KeywordWritten'
<1> USE RingAssumption
<1>0. TypeOK /\ KeywordWritten
    BY DEF Inv
<1>r. \A r \in Reader : r[1] \in Stream
    BY DEF Reader
<1>1. CASE Restarts
  <2>1. /\ kwCfg_' = [s \in Stream |-> 0] /\ written' = 0
        /\ detected' \subseteq buffering'
      BY <1>0, <1>1, RestartsDo DEF ResetRing, KeywordWritten
  <2> QED BY <1>r, <2>1 DEF KeywordWritten
<1>7. CASE resizeRingBuffer
    BY <1>0, <1>7 DEF resizeRingBuffer, reader, KeywordWritten
<1>2. ASSUME NEW k \in 1..MaxChunk, write(k) PROVE KeywordWritten'
    BY <1>0, <1>2, <1>r DEF write, engine, KeywordWritten, TypeOK
<1>3. ASSUME NEW r \in Reader, resetReader(r) \/ updateState(r)
      PROVE  KeywordWritten'
  <2>1. /\ UNCHANGED <<detected, buffering, kwCfg_, written>>
        /\ state_' = [state_ EXCEPT ![r] = "disabled"]
      BY <1>0, <1>3, ResetReaderDoes DEF updateState, engine
  <2> QED BY <1>0, <2>1 DEF KeywordWritten, TypeOK
<1>4. ASSUME NEW r \in Reader, NEW k \in 1..MaxChunk,
             read(r, k) \/ advanceReadOffset(r, k)
      PROVE  KeywordWritten'
  <2>1. /\ written' = written /\ detected' = detected /\ buffering' = buffering
        /\ kwCfg_' = kwCfg_ /\ state_[r] # "disabled"
        /\ \A q \in Reader : q # r => state_'[q] = state_[q]
      BY <1>0, <1>4 DEF read, advanceReadOffset, engine, TypeOK
  <2> QED BY <1>0, <2>1 DEF KeywordWritten
<1>5. ASSUME NEW s \in Stream, NEW start \in 0..MaxKeyword, NEW end \in 0..MaxKeyword,
             FirstDetection(s, start, end) \/ ConcurrentDetection(s, start, end)
      PROVE  KeywordWritten'
  <2>1. CASE FirstDetection(s, start, end)
    <3>1. /\ detected = {} /\ detected' = {s} /\ buffering' = {s}
          /\ state_' = state_ /\ written' = written
          /\ kwCfg_' = [kwCfg_ EXCEPT ![s] = end]
        BY <1>0, <2>1 DEF FirstDetection, updateKwdConfig, KeywordWritten
    <3> QED BY <1>0, <1>r, <3>1 DEF KeywordWritten, TypeOK
  <2>2. CASE ConcurrentDetection(s, start, end)
    <3>1. /\ detected' = detected \cup {s} /\ buffering' = buffering \cup {s}
          /\ state_' = state_ /\ written' = written
          /\ kwCfg_' = [kwCfg_ EXCEPT ![s] = end]
        BY <2>2 DEF ConcurrentDetection, updateKwdConfig
    <3> QED BY <1>0, <1>r, <3>1 DEF KeywordWritten, TypeOK
  <2> QED BY <1>5, <2>1, <2>2
<1>6. ASSUME NEW s \in Stream, NotifyDetection(s) PROVE KeywordWritten'
    BY <1>0, <1>6, <1>r DEF NotifyDetection, ReadersOf, KeywordWritten, TypeOK
<1> QED BY <1>1, <1>2, <1>3, <1>4, <1>5, <1>6, <1>7 DEF Next, Restarts

(* Covered readers.                                                          *)
LEMMA CoveredStep ==
    ASSUME Inv, Next
    PROVE  CoveredOK'
<1>0. TypeOK /\ CoveredOK
    BY DEF Inv
<1>1. CASE Restarts
    BY <1>1, RestartsDo DEF ResetRing, CoveredOK
<1>7. CASE resizeRingBuffer
    BY <1>0, <1>7 DEF resizeRingBuffer, reader, CoveredOK, ReaderOK, Backed
<1>2. ASSUME NEW k \in 1..MaxChunk, write(k) PROVE CoveredOK'
    BY <1>2, WriteCovered
<1>3. ASSUME NEW r \in Reader, resetReader(r) \/ updateState(r)
      PROVE  CoveredOK'
  <2> SUFFICES ASSUME NEW q \in covered' PROVE ReaderOK(q)'
      BY DEF CoveredOK
  <2>1. q \in covered /\ q # r /\ q \in Reader
      BY <1>0, <1>3 DEF resetReader, updateState, TypeOK
  <2>2. /\ writeOffset_' = writeOffset_ /\ UNCHANGED <<ring, count>> /\ detected' = detected
        /\ readOffset_'[q] = readOffset_[q] /\ unreadSize_'[q] = unreadSize_[q]
        /\ state_'[q] = state_[q] /\ pos'[q] = pos[q]
      BY <1>0, <1>3, <2>1 DEF resetReader, updateState, engine, TypeOK
  <2> QED BY <1>0, <2>1, <2>2, ReaderOKStutter DEF CoveredOK, ReaderOK
<1>4. ASSUME NEW r \in Reader, NEW k \in 1..MaxChunk,
             read(r, k) \/ advanceReadOffset(r, k)
      PROVE  CoveredOK'
    BY <1>4, ReadCovered, AdvanceCovered
<1>5. ASSUME NEW s \in Stream, NEW start \in 0..MaxKeyword, NEW end \in 0..MaxKeyword,
             FirstDetection(s, start, end) \/ ConcurrentDetection(s, start, end)
      PROVE  CoveredOK'
  <2>1. /\ updateKwdConfig(s, start, end)
        /\ state_' = state_ /\ UNCHANGED <<bufferEnd_, writeOffset_, written, lost>>
        /\ detected' \subseteq detected \cup {s}
        /\ start \in Nat /\ end \in Nat
      BY <1>5 DEF FirstDetection, ConcurrentDetection
  <2> QED BY <2>1, KwdConfigCovered
<1>6. ASSUME NEW s \in Stream, NotifyDetection(s) PROVE CoveredOK'
  <2> SUFFICES ASSUME NEW q \in covered' PROVE ReaderOK(q)'
      BY DEF CoveredOK
  <2>1. /\ writeOffset_' = writeOffset_ /\ UNCHANGED <<ring, count>>
        /\ readOffset_' = readOffset_ /\ unreadSize_' = unreadSize_ /\ pos' = pos
        /\ detected' = detected \ {s}
      BY <1>6 DEF NotifyDetection
  <2>2. CASE q \in covered /\ q \notin ReadersOf(s)
    <3>1. q \in Reader /\ state_'[q] = state_[q]
        BY <1>0, <1>6, <2>2 DEF NotifyDetection, TypeOK
    <3> QED BY <1>0, <2>1, <2>2, <3>1, ReaderOKStutter DEF CoveredOK, ReaderOK
  <2>3. CASE /\ q \in ReadersOf(s) /\ q[2] = "second"
             /\ Backed(readOffset_[q], unreadSize_[q], pos[q])
    <3>1. state_'[q] = "enabled" /\ q[1] = s
        BY <1>6, <2>3 DEF NotifyDetection, ReadersOf
    <3>2. Backed(readOffset_[q], unreadSize_[q], pos[q])'
        BY <2>1, <2>3 DEF Backed
    <3> QED BY <2>1, <3>1, <3>2 DEF ReaderOK
  <2> QED BY <1>6, <2>2, <2>3 DEF NotifyDetection
<1> QED BY <1>1, <1>2, <1>3, <1>4, <1>5, <1>6, <1>7 DEF Next, Restarts

-----------------------------------------------------------------------------
(* The invariant is inductive: the offsets of PalRingBuffer and its readers   *)
(* stay related through write, read, advanceReadOffset, updateState, the      *)
(* torn reset and the detections.                                             *)
THEOREM Invariant == Spec => []Inv
<1>1. Init => Inv
    BY RingAssumption DEF Init, NewCells, Inv, TypeOK, Idle, RingHolds, KeywordWritten, CoveredOK
<1>2. Inv /\ [Next]_vars => Inv'
  <2> SUFFICES ASSUME Inv, [Next]_vars PROVE Inv'
      OBVIOUS
  <2>1. CASE Next
      BY <2>1, TypeStep, IdleStep, HoldsStep, KeywordStep, CoveredStep DEF Inv
  <2>2. CASE UNCHANGED vars
      BY <2>2 DEF vars, ring, reader, engine, load, count, ghost, Inv, TypeOK, Idle,
                  RingHolds, back, KeywordWritten,
                  CoveredOK, ReaderOK, Backed
  <2> QED BY <2>1, <2>2
<1> QED BY <1>1, <1>2, PTL DEF Spec

(* The offsets of the ring and of its readers stay inside the ring.          *)
THEOREM TypeCorrect == Spec => []TypeOK
<1>1. Inv => TypeOK
    BY DEF Inv
<1> QED BY <1>1, Invariant, PTL

(* read() of a covered reader returns exactly the bytes that follow the last  *)
(* one it returned, for every size of the ring and of the reads.              *)
THEOREM ReadsInOrder == Spec => []ReadsAreNext
<1>1. Inv => ReadsAreNext
  <2> SUFFICES ASSUME Inv, NEW r \in covered
               PROVE  /\ Believed(r) = written - pos[r]
                      /\ \A j \in 0..(bufferEnd_ - 1) :
                            j < Believed(r)
                                => buffer_[wrap(readOffset_[r] + j)] = pos[r] + j
      BY DEF ReadsAreNext
  <2>0. TypeOK /\ r \in Reader /\ Backed(readOffset_[r], unreadSize_[r], pos[r])
      BY DEF Inv, TypeOK, CoveredOK, ReaderOK
  <2>1. Believed(r) = written - pos[r] /\ Believed(r) \in 0..bufferEnd_
      BY <2>0, SpanExact
  <2>2. ASSUME NEW j \in 0..(bufferEnd_ - 1), j < Believed(r)
        PROVE  buffer_[wrap(readOffset_[r] + j)] = pos[r] + j
    <3>0. /\ bufferEnd_ \in Nat \ {0} /\ written \in Nat /\ lost \in 0..written
          /\ lost <= pos[r]
          /\ writeOffset_ \in 0..(bufferEnd_ - 1) /\ readOffset_[r] \in 0..(bufferEnd_ - 1)
          /\ pos[r] \in Nat /\ j \in Nat
        BY <2>0, ReaderTypes DEF Backed
    <3> DEFINE d == written - pos[r] - j
    <3>1. d \in 1..bufferEnd_ /\ d <= written - lost
        BY <2>1, <2>2, <3>0
    <3>2. wrap(readOffset_[r] + j) = back(writeOffset_, d)
      <4>1. CASE readOffset_[r] + (written - pos[r]) = writeOffset_
          BY <2>1, <2>2, <3>0, <4>1 DEF wrap, back
      <4>2. CASE readOffset_[r] + (written - pos[r]) = writeOffset_ + bufferEnd_
          BY <2>1, <2>2, <3>0, <4>2 DEF wrap, back
      <4> QED BY <2>0, <4>1, <4>2 DEF Backed
    <3>3. written - d = pos[r] + j
        BY <3>0
    <3> HIDE DEF d
    <3>4. buffer_[back(writeOffset_, d)] = written - d
        BY <3>1 DEF Inv, RingHolds
    <3> QED BY <3>2, <3>3, <3>4
  <2> QED BY <2>1, <2>2
<1> QED BY <1>1, Invariant, PTL

-----------------------------------------------------------------------------
(* The second stage reader is enabled in time: what the first detection, the  *)
(* size of the ring and the torn reset guarantee together.                    *)
Second(s) == <<s, "second">>

(* Only the load of another stream resets the ring under a buffering engine,  *)
(* or replaces it.                                                           *)
Torn ==
    /\ toReset # {} /\ buffering # {} => shared = Stream
    /\ creating # {} => shared = Stream
    /\ newSize # 0 => creating # {}

(* Of a stream that was detected first and is not notified yet, the second    *)
(* stage reader is disabled and waits where updateKwdConfig put it, all that  *)
(* was written is counted, and the ring has not wrapped around.               *)
Waiting(s) ==
    /\ state_[Second(s)] = "disabled"
    /\ pos[Second(s)] < kwCfg_[s]
    /\ kwCfg_[s] + MaxChunk <= bufferEnd_ + 1
    /\ pos[Second(s)] < bufferEnd_ => readOffset_[Second(s)] = pos[Second(s)]
    /\ unreadSize_[Second(s)] = written
    /\ written <= bufferEnd_ /\ lost = 0 /\ writeOffset_ = wrap(written)

InTime ==
    /\ Torn
    /\ \A s \in SecondStage : state_[Second(s)] # "prepared"
    /\ \A s \in (SecondStage \cap detected) \ shared : Waiting(s)
    /\ EnabledInTime

(* The readers of a stream with a second stage.                               *)
LEMMA SecondReader ==
    ASSUME NEW s \in SecondStage
    PROVE  /\ Second(s) \in Reader /\ Second(s)[1] = s /\ Second(s)[2] = "second"
           /\ s \in Stream
           /\ \A t \in Stream : Second(s) \in ReadersOf(t) <=> t = s
           /\ \A t \in SecondStage : Second(s) = Second(t) <=> s = t
BY RingAssumption DEF Second, Reader, ReadersOf

(* A ring under a buffering engine is reset or replaced by a load only.       *)
LEMMA TornStep ==
    ASSUME Inv, InTime, Next
    PROVE  Torn'
<1> USE RingAssumption DEF Inv, InTime, Torn
<1>1. CASE Restarts
    BY <1>1, RestartsDo, SMTT(30)
<1>9. CASE resizeRingBuffer
    BY <1>9 DEF resizeRingBuffer
<1>2. ASSUME NEW k \in 1..MaxChunk, write(k) PROVE Torn'
    BY <1>2 DEF write, engine, load, ghost
<1>3. ASSUME NEW r \in Reader, resetReader(r) PROVE Torn'
    BY <1>3 DEF resetReader, TypeOK
<1>4. ASSUME NEW r \in Reader, updateState(r) PROVE Torn'
    BY <1>4 DEF updateState, engine, load
<1>5. ASSUME NEW r \in Reader, NEW k \in 1..MaxChunk, read(r, k) PROVE Torn'
    BY <1>5 DEF read, engine, load
<1>6. ASSUME NEW r \in Reader, NEW k \in 1..MaxChunk, advanceReadOffset(r, k)
      PROVE  Torn'
    BY <1>6 DEF advanceReadOffset, engine, load
<1>7. ASSUME NEW s \in Stream, NotifyDetection(s) PROVE Torn'
    BY <1>7 DEF NotifyDetection, load
<1>8. ASSUME NEW s \in Stream, NEW start \in 0..MaxKeyword, NEW end \in 0..MaxKeyword,
             FirstDetection(s, start, end) \/ ConcurrentDetection(s, start, end)
      PROVE  Torn'
  <2>1. CASE FirstDetection(s, start, end)
      BY <2>1 DEF FirstDetection
  <2>2. CASE ConcurrentDetection(s, start, end)
    <3>1. UNCHANGED <<toReset, load>> /\ shared' = shared \cup {s} /\ buffering # {}
        BY <2>2 DEF ConcurrentDetection
    <3>2. shared = Stream => shared' = Stream
        BY <3>1
    <3> QED BY <3>1, <3>2
  <2> QED BY <1>8, <2>1, <2>2
<1> QED BY <1>1, <1>2, <1>3, <1>4, <1>5, <1>6, <1>7, <1>8, <1>9 DEF Next, Restarts

(* SetDetected enables the second stage reader at once: it is never prepared. *)
LEMMA NeverPrepared ==
    ASSUME Inv, InTime, Next
    PROVE  \A s \in SecondStage : state_'[Second(s)] # "prepared"
<1> SUFFICES ASSUME NEW s \in SecondStage PROVE state_'[Second(s)] # "prepared"
    OBVIOUS
<1> USE SecondReader DEF Inv, InTime
<1>1. CASE Restarts
    BY <1>1, RestartsDo DEF ResetRing, reader
<1>9. CASE resizeRingBuffer
    BY <1>9 DEF resizeRingBuffer, reader
<1>2. ASSUME NEW k \in 1..MaxChunk, write(k) PROVE state_' = state_
    BY <1>2 DEF write
<1>3. ASSUME NEW r \in Reader, resetReader(r) PROVE state_'[Second(s)] # "prepared"
    BY <1>3 DEF resetReader, TypeOK
<1>4. ASSUME NEW r \in Reader, updateState(r) PROVE state_'[Second(s)] # "prepared"
    BY <1>4 DEF updateState, TypeOK
<1>5. ASSUME NEW r \in Reader, NEW k \in 1..MaxChunk, read(r, k)
      PROVE  state_'[Second(s)] # "prepared"
    BY <1>5 DEF read, TypeOK
<1>6. ASSUME NEW r \in Reader, NEW k \in 1..MaxChunk, advanceReadOffset(r, k)
      PROVE  state_' = state_
    BY <1>6 DEF advanceReadOffset
<1>7. ASSUME NEW t \in Stream, NotifyDetection(t) PROVE state_'[Second(s)] # "prepared"
    BY <1>7 DEF NotifyDetection
<1>8. ASSUME NEW t \in Stream, NEW start \in 0..MaxKeyword, NEW end \in 0..MaxKeyword,
             FirstDetection(t, start, end) \/ ConcurrentDetection(t, start, end)
      PROVE  state_' = state_
    BY <1>8 DEF FirstDetection, ConcurrentDetection
<1> QED BY <1>1, <1>2, <1>3, <1>4, <1>5, <1>6, <1>7, <1>8, <1>9 DEF Next, Restarts

(* The first detection starts from the idle ring; until the notification the  *)
(* buffering thread stops before the ring wraps around.                       *)
LEMMA WaitingStep ==
    ASSUME Inv, InTime, Next,
           NEW s \in SecondStage, s \in detected', s \notin shared'
    PROVE  Waiting(s)'
<1> USE RingAssumption, SecondReader DEF Inv
<1>b. bufferEnd_ \in Nat \ {0} /\ written \in Nat /\ lost \in 0..written
    BY DEF TypeOK
<1>0. s \in detected /\ s \notin shared => Waiting(s) /\ toReset = {}
    BY DEF InTime, Torn, KeywordWritten
<1>1. CASE Restarts
  <2>1. detected' = detected /\ buffering' = buffering /\ buffering # {}
      BY <1>1, RestartsDo DEF KeywordWritten
  <2> QED BY <1>1, <2>1, RestartsDo
<1>10. CASE resizeRingBuffer
    BY <1>10 DEF resizeRingBuffer, InTime, Torn, ghost
<1>2. ASSUME NEW k \in 1..MaxChunk, write(k) PROVE Waiting(s)'
  <2>1. Waiting(s) /\ written < kwCfg_[s]
      BY <1>0, <1>2 DEF write, engine, ghost
  <2>2. written + k <= bufferEnd_ /\ written < bufferEnd_ /\ written \in Nat /\ k \in Nat
      BY <2>1, <1>2 DEF Waiting, TypeOK
  <2>3. wrap(writeOffset_ + k) = wrap(written + k)
      BY <1>b, <2>1, <2>2 DEF Waiting, wrap
  <2>4. /\ UNCHANGED <<bufferEnd_, readOffset_, state_, lost, pos, kwCfg_>>
        /\ unreadSize_'[Second(s)] = unreadSize_[Second(s)] + k
        /\ written' = written + k /\ writeOffset_' = wrap(written + k)
      BY <1>2, <2>3 DEF write, engine, ghost
  <2>5. wrap(written + k)' = wrap(written' + k) /\ wrap(written + k) = wrap(written)'
      BY <2>4 DEF wrap
  <2> QED BY <2>1, <2>2, <2>4, <2>5 DEF Waiting
<1>3. ASSUME NEW r \in Reader, resetReader(r) PROVE Waiting(s)'
    BY <1>0, <1>3 DEF resetReader
<1>4. ASSUME NEW r \in Reader, updateState(r) PROVE Waiting(s)'
    BY <1>0, <1>4 DEF updateState, engine, Waiting, wrap, TypeOK
<1>5. ASSUME NEW r \in Reader, NEW k \in 1..MaxChunk, read(r, k) PROVE Waiting(s)'
  <2>1. Waiting(s) /\ r # Second(s)
      BY <1>0, <1>5 DEF read, engine, Waiting
  <2>2. /\ state_'[Second(s)] = state_[Second(s)] /\ pos'[Second(s)] = pos[Second(s)]
        /\ readOffset_'[Second(s)] = readOffset_[Second(s)]
        /\ unreadSize_'[Second(s)] = unreadSize_[Second(s)]
        /\ UNCHANGED <<ring, count, kwCfg_>>
      BY <1>5, <2>1 DEF read, engine, TypeOK
  <2> QED BY <2>1, <2>2 DEF Waiting, wrap
<1>6. ASSUME NEW r \in Reader, NEW k \in 1..MaxChunk, advanceReadOffset(r, k)
      PROVE  Waiting(s)'
  <2>1. Waiting(s) /\ r # Second(s)
      BY <1>0, <1>6 DEF advanceReadOffset, engine, Waiting
  <2>2. /\ state_'[Second(s)] = state_[Second(s)] /\ pos'[Second(s)] = pos[Second(s)]
        /\ readOffset_'[Second(s)] = readOffset_[Second(s)]
        /\ unreadSize_'[Second(s)] = unreadSize_[Second(s)]
        /\ UNCHANGED <<ring, count, kwCfg_>>
      BY <1>6, <2>1 DEF advanceReadOffset, engine, TypeOK
  <2> QED BY <2>1, <2>2 DEF Waiting, wrap
<1>7. ASSUME NEW t \in Stream, NotifyDetection(t) PROVE Waiting(s)'
  <2>1. Waiting(s) /\ s # t
      BY <1>0, <1>7 DEF NotifyDetection
  <2> QED BY <1>7, <2>1 DEF NotifyDetection, Waiting, wrap, TypeOK
<1>8. ASSUME NEW t \in Stream, NEW start \in 0..MaxKeyword, NEW end \in 0..MaxKeyword,
             FirstDetection(t, start, end)
      PROVE  Waiting(s)'
  <2>1. /\ s = t /\ written' = 0 /\ writeOffset_' = 0 /\ state_' = state_
        /\ kwCfg_' = [kwCfg_ EXCEPT ![s] = end]
        /\ start < end /\ end + MaxChunk <= bufferEnd_ + 1
        /\ updateKwdConfig(s, start, end)
        /\ buffering = {} /\ toReset = {}
      BY <1>8 DEF FirstDetection, updateKwdConfig, InTime, Idle
  <2>2. state_[Second(s)] = "disabled" /\ unreadSize_[Second(s)] = 0
      BY <2>1 DEF Inv, Idle
  <2>3. Skipped(start) \in Nat /\ Skipped(start) < end
      BY <2>1 DEF Skipped
  <2>4. 0 % bufferEnd_ = 0 /\ (Skipped(start) < bufferEnd_ => Skipped(start) % bufferEnd_ = Skipped(start))
      BY <1>b, <2>3, ModWrap DEF wrap
  <2>5. unreadSize_'[Second(s)] = 0
      BY <2>1, <2>2, <2>3, <2>4 DEF updateKwdConfig
  <2>6. /\ readOffset_'[Second(s)] = Skipped(start) % bufferEnd_
        /\ pos'[Second(s)] = Skipped(start)
      BY <2>1 DEF updateKwdConfig
  <2>7. kwCfg_'[s] = end
      BY <2>1 DEF TypeOK
  <2>8. bufferEnd_' = bufferEnd_ /\ lost' = 0
      BY <1>8, <1>b DEF FirstDetection
  <2> QED BY <1>b, <2>1, <2>2, <2>3, <2>4, <2>5, <2>6, <2>7, <2>8 DEF Waiting, wrap
<1>9. ASSUME NEW t \in Stream, NEW start \in 0..MaxKeyword, NEW end \in 0..MaxKeyword,
             ConcurrentDetection(t, start, end)
      PROVE  Waiting(s)'
  <2>1. Waiting(s) /\ s # t
      BY <1>0, <1>9 DEF ConcurrentDetection
  <2>2. /\ state_' = state_ /\ pos'[Second(s)] = pos[Second(s)]
        /\ readOffset_'[Second(s)] = readOffset_[Second(s)]
        /\ unreadSize_'[Second(s)] = unreadSize_[Second(s)]
        /\ UNCHANGED <<ring, count>> /\ kwCfg_'[s] = kwCfg_[s]
      BY <1>9, <2>1 DEF ConcurrentDetection, updateKwdConfig, TypeOK
  <2> QED BY <2>1, <2>2 DEF Waiting, wrap
<1> QED BY <1>1, <1>2, <1>3, <1>4, <1>5, <1>6, <1>7, <1>8, <1>9, <1>10 DEF Next, Restarts

(* A reader that is enabled was covered when NotifyDetection enabled it, and  *)
(* loses its cover only with its state, or when the stream becomes shared.    *)
LEMMA EnabledStep ==
    ASSUME Inv, InTime, Next,
           NEW s \in SecondStage, s \notin shared',
           state_'[Second(s)] = "enabled", toReset' = {}
    PROVE  Second(s) \in covered'
<1> USE RingAssumption, SecondReader DEF Inv
<1>0. s \notin shared /\ toReset = {} /\ state_[Second(s)] = "enabled"
        => Second(s) \in covered
    BY DEF InTime, EnabledInTime, Second
<1>1. CASE Restarts
  <2>1. toReset' = Reader
      BY <1>1, RestartsDo DEF ResetRing
  <2> QED BY <2>1
<1>10. CASE resizeRingBuffer
    BY <1>10 DEF resizeRingBuffer, InTime, Torn
<1>2. ASSUME NEW k \in 1..MaxChunk, write(k) PROVE Second(s) \in covered'
    BY <1>0, <1>2 DEF write, engine, ghost
<1>3. ASSUME NEW r \in Reader, resetReader(r) PROVE Second(s) \in covered'
  <2>0. /\ r \in toReset /\ toReset' = toReset \ {r} /\ shared' = shared
        /\ state_' = [state_ EXCEPT ![r] = "disabled"]
      BY <1>3, ResetReaderDoes
  <2>1. toReset = {r} /\ shared' = shared /\ r # Second(s)
      BY <2>0 DEF TypeOK
  <2>2. buffering = {}
      BY <2>1 DEF InTime, Torn
  <2>3. state_'[Second(s)] = "disabled"
      BY <2>0, <2>1, <2>2 DEF Inv, Idle, TypeOK
  <2> QED BY <2>3
<1>4. ASSUME NEW r \in Reader, updateState(r) PROVE Second(s) \in covered'
    BY <1>0, <1>4 DEF updateState, engine, TypeOK
<1>5. ASSUME NEW r \in Reader, NEW k \in 1..MaxChunk, read(r, k)
      PROVE  Second(s) \in covered'
  <2>1. covered \subseteq covered' /\ UNCHANGED <<toReset, shared>>
      BY <1>5 DEF read, engine
  <2>2. state_[Second(s)] = "enabled"
      BY <1>5 DEF read, InTime, TypeOK
  <2> QED BY <1>0, <2>1, <2>2
<1>6. ASSUME NEW r \in Reader, NEW k \in 1..MaxChunk, advanceReadOffset(r, k)
      PROVE  Second(s) \in covered'
    BY <1>0, <1>6 DEF advanceReadOffset, engine
<1>7. ASSUME NEW t \in Stream, NotifyDetection(t) PROVE Second(s) \in covered'
  <2>1. CASE s # t
      BY <1>0, <1>7, <2>1 DEF NotifyDetection
  <2>2. CASE s = t
    <3>1. Waiting(s) /\ kwCfg_[s] <= written
        BY <1>7, <2>2 DEF NotifyDetection, InTime, TypeOK
    <3>2. Backed(readOffset_[Second(s)], unreadSize_[Second(s)], pos[Second(s)])
        BY <3>1 DEF Waiting, Backed, wrap, TypeOK
    <3> QED BY <1>7, <2>2, <3>2 DEF NotifyDetection
  <2> QED BY <2>1, <2>2
<1>8. ASSUME NEW t \in Stream, NEW start \in 0..MaxKeyword, NEW end \in 0..MaxKeyword,
             FirstDetection(t, start, end)
      PROVE  FALSE
    BY <1>8 DEF FirstDetection, InTime, Idle
<1>9. ASSUME NEW t \in Stream, NEW start \in 0..MaxKeyword, NEW end \in 0..MaxKeyword,
             ConcurrentDetection(t, start, end)
      PROVE  Second(s) \in covered'
    BY <1>0, <1>9 DEF ConcurrentDetection, updateKwdConfig
<1> QED BY <1>1, <1>2, <1>3, <1>4, <1>5, <1>6, <1>7, <1>8, <1>9, <1>10 DEF Next, Restarts

(* The second stage reader of a stream that was detected first is enabled     *)
(* while all it still has to read is in the ring and counted, for every size  *)
(* of the ring and every interleaving of the torn reset(): with ReadsInOrder, *)
(* the second stage gets the keyword from its first byte on and without a gap.*)
THEOREM SecondStageInTime == Spec => []EnabledInTime
<1>1. Init => InTime
    BY SecondReader DEF Init, InTime, Torn, EnabledInTime, Second
<1>2. Inv /\ InTime /\ [Next]_vars => InTime'
  <2> SUFFICES ASSUME Inv, InTime, [Next]_vars PROVE InTime'
      OBVIOUS
  <2>1. CASE Next
    <3>1. EnabledInTime'
        BY <2>1, EnabledStep DEF EnabledInTime, Second
    <3>2. \A s \in (SecondStage \cap detected') \ shared' : Waiting(s)'
        BY <2>1, WaitingStep
    <3> QED BY <2>1, <3>1, <3>2, TornStep, NeverPrepared DEF InTime, Second
  <2>2. CASE UNCHANGED vars
      BY <2>2 DEF vars, ring, reader, engine, load, count, ghost, InTime, Torn, Waiting,
                  wrap, EnabledInTime
  <2> QED BY <2>1, <2>2
<1>3. InTime => EnabledInTime
    BY DEF InTime
<1> QED BY <1>1, <1>2, <1>3, Invariant, PTL DEF Spec

=============================================================================
