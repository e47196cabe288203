---------------------------- MODULE PalRingBuffer ----------------------------
(* The byte ring between the buffering thread of a sound trigger engine (the *)
(* writer) and its readers: the client reader of every stream and the reader *)
(* of its second stage engine (PalRingBuffer.cpp).  The detections, the       *)
(* notification and the end of buffering are the calls SoundTriggerEngineGsl, *)
(* SoundTriggerEngineCapi and StreamSoundTrigger make on the ring.            *)
(*                                                                            *)
(* A byte is the number it has among the bytes stored since the last reset;   *)
(* written, lost, pos, covered and shared are history.                        *)
EXTENDS Naturals, FiniteSets

CONSTANTS
    Stream,      \* the sound trigger streams that share the engine
    SecondStage, \* those of them with a second stage engine
    Sizes,       \* the sizes a ring is created with or resized to
    PreRoll,     \* bytes a reader starts before the keyword
    MaxWritten,  \* bound: bytes written between two resets
    MaxKeyword,  \* bound: the number of the byte after a keyword
    MaxChunk,    \* bound: bytes of one write, read or advance
    Empty        \* a cell that was not written since the last reset

ASSUME RingAssumption ==
    /\ SecondStage \subseteq Stream
    /\ Sizes \subseteq Nat \ {0} /\ Sizes # {}
    /\ PreRoll \in Nat
    /\ MaxWritten \in Nat
    /\ MaxKeyword \in Nat
    /\ MaxChunk \in Nat
    /\ Empty \notin Nat

(* GetReaders of a stream: its client reader and that of its second stage.   *)
Reader == (Stream \X {"client"}) \cup (SecondStage \X {"second"})
ReadersOf(s) == {r \in Reader : r[1] = s}

VARIABLES
    buffer_,       \* the cells of the ring
    bufferEnd_,    \* the size of the ring
    writeOffset_,
    readOffset_, unreadSize_, state_,   \* per reader
    kwCfg_,        \* per stream: ftrtSize, the bytes to read before it is notified
    toReset,       \* the readers reset() has still to visit
    detected,      \* the streams with a detection that is not notified yet
    buffering,     \* the streams that are buffering
    creating,      \* the stream whose CreateBuffer is under way, if any
    newSize,       \* ... and the size it asked for, 0 once that is seen to
    written,       \* bytes stored since the last reset
    lost,          \* the first of them that the ring was not resized after
    pos,           \* per reader: the number of the byte it returns next (not
                   \* kept up once a reader that is not covered reads)
    covered,       \* readers that were enabled in time: see Backed
    shared         \* streams detected while the ring was in use, or whose ring
                   \* was reset by the load of another stream

reader == <<readOffset_, unreadSize_, state_>>
ghost == <<pos, covered, shared>>
load == <<creating, newSize>>
ring == <<buffer_, bufferEnd_, writeOffset_>>
engine == <<kwCfg_, toReset, detected, buffering>>
count == <<written, lost>>
vars == <<ring, reader, engine, load, count, ghost>>

TypeOK ==
    /\ bufferEnd_ \in Sizes
    /\ buffer_ \in [0..(bufferEnd_ - 1) -> Nat \cup {Empty}]
    /\ writeOffset_ \in 0..(bufferEnd_ - 1)
    /\ readOffset_ \in [Reader -> 0..(bufferEnd_ - 1)]
    /\ unreadSize_ \in [Reader -> Nat]
    /\ state_ \in [Reader -> {"disabled", "prepared", "enabled"}]
    /\ kwCfg_ \in [Stream -> Nat]
    /\ toReset \subseteq Reader
    /\ detected \subseteq Stream
    /\ buffering \subseteq Stream
    /\ creating \subseteq Stream
    /\ newSize \in Sizes \cup {0}
    /\ written \in Nat
    /\ lost \in 0..written
    /\ pos \in [Reader -> Nat]
    /\ covered \subseteq Reader
    /\ shared \subseteq Stream

NewCells(n) == [i \in 0..(n - 1) |-> Empty]

(* The first stream that was loaded made the ring (CreateBuffer, the branch   *)
(* for an engine without one).                                               *)
Init ==
    /\ bufferEnd_ \in Sizes
    /\ buffer_ = NewCells(bufferEnd_)
    /\ writeOffset_ = 0
    /\ readOffset_ = [r \in Reader |-> 0]
    /\ unreadSize_ = [r \in Reader |-> 0]
    /\ state_ = [r \in Reader |-> "disabled"]
    /\ kwCfg_ = [s \in Stream |-> 0]
    /\ toReset = {}
    /\ detected = {}
    /\ buffering = {}
    /\ creating = {}
    /\ newSize = 0
    /\ written = 0
    /\ lost = 0
    /\ pos = [r \in Reader |-> 0]
    /\ covered = {}
    /\ shared = {}

-----------------------------------------------------------------------------
(* Offsets.  wrap(x) is the cell of an offset that ran past the end once.    *)
wrapLate(x) == IF x > bufferEnd_ THEN x - bufferEnd_ ELSE x    \* a variant that is off by one
wrap(x) == IF x >= bufferEnd_ THEN x - bufferEnd_ ELSE x

(* r reads from the cell that holds its next byte, unreadSize_ does not       *)
(* understate what is there and fits the ring, and a reader that believes     *)
(* there is something to read is right.                                       *)
Backed(ro, unread, p) ==
    /\ lost <= p /\ p <= written
    /\ ro + (written - p) \in {writeOffset_, writeOffset_ + bufferEnd_}
    /\ written - p <= unread
    /\ unread <= bufferEnd_
    /\ unread > 0 => p < written

(* getFreeSize: only enabled readers keep the writer back.  bufferEnd_ minus  *)
(* a larger unreadSize_ wraps around to a huge size_t: no limit at all.       *)
FreeFor(r) == IF unreadSize_[r] > bufferEnd_ THEN bufferEnd_ ELSE bufferEnd_ - unreadSize_[r]
Enabled == {r \in Reader : state_[r] = "enabled"}

(* A variant of the guard that looks at the second stage readers only.       *)
getFreeSizeSecondOnly(k) ==
    k <= bufferEnd_ /\ \A r \in Enabled : r[2] = "second" => k <= FreeFor(r)

getFreeSize(k) == k <= bufferEnd_ /\ \A r \in Enabled : k <= FreeFor(r)

(* ar_mem_cpy to the ring, in two parts when the write wraps around.         *)
Stored(k) ==
    [i \in 0..(bufferEnd_ - 1) |->
        IF i >= writeOffset_ /\ i < writeOffset_ + k
        THEN written + (i - writeOffset_)
        ELSE IF i + bufferEnd_ < writeOffset_ + k
        THEN written + (i + bufferEnd_ - writeOffset_)
        ELSE buffer_[i]]

(* write: what does not fit is dropped; k is what is stored.  A read of the   *)
(* session stores a whole chunk only when it fits, a read of the mmap buffer  *)
(* stores the part that fits.                                                 *)
write(k) ==
    /\ buffering # {}
    /\ k > 0
    /\ \A s \in detected : written < kwCfg_[s]    \* else NotifyDetection
    /\ getFreeSize(k)
    /\ written + k <= MaxWritten
    /\ buffer_' = Stored(k)
    /\ writeOffset_' = wrap(writeOffset_ + k)
    /\ unreadSize_' = [r \in Reader |-> unreadSize_[r] + k]
    /\ written' = written + k
    /\ UNCHANGED <<bufferEnd_, readOffset_, state_, engine, load, lost, ghost>>

-----------------------------------------------------------------------------
(* Readers.                                                                  *)

(* A variant that takes equal offsets for an empty ring.                     *)
SpanEqualEmpty(r) ==
    IF writeOffset_ >= readOffset_[r]
    THEN writeOffset_ - readOffset_[r]
    ELSE bufferEnd_ - readOffset_[r] + writeOffset_

(* The bytes read() finds between the offsets: it never trusts unreadSize_,   *)
(* except that zero means nothing to read.                                    *)
Span(r) ==
    IF writeOffset_ > readOffset_[r]
    THEN writeOffset_ - readOffset_[r]
    ELSE bufferEnd_ - readOffset_[r] + writeOffset_

Smaller(a, b) == IF a < b THEN a ELSE b

Believed(r) == IF unreadSize_[r] = 0 THEN 0 ELSE Span(r)

(* PalRingBufferReader::read: a disabled reader gets -EINVAL, the first read  *)
(* of a prepared reader enables it.                                           *)
read(r, k) ==
    /\ state_[r] # "disabled"
    /\ k > 0
    /\ LET n == Smaller(k, Believed(r)) IN
        /\ state_' = [state_ EXCEPT ![r] = "enabled"]
        /\ readOffset_' = [readOffset_ EXCEPT ![r] = wrap(readOffset_[r] + n)]
        /\ unreadSize_' = [unreadSize_ EXCEPT ![r] = Believed(r) - n]
        /\ covered' =
            IF /\ state_[r] = "prepared"
               /\ r[1] \notin detected
               /\ Backed(readOffset_[r], Believed(r), pos[r])
            THEN covered \cup {r}
            ELSE covered
        /\ pos' = IF r \in covered' THEN [pos EXCEPT ![r] = pos[r] + n] ELSE pos
    /\ UNCHANGED <<ring, engine, load, count, shared>>

(* advanceReadOffset, by a client that skips its pre roll or a second stage   *)
(* that skips to the keyword: both stay below the keyword end, which is in    *)
(* the ring when they are notified.                                           *)
advanceReadOffset(r, k) ==
    /\ state_[r] # "disabled"
    /\ pos[r] + k < kwCfg_[r[1]]
    /\ k > 0
    /\ readOffset_' = [readOffset_ EXCEPT ![r] = (readOffset_[r] + k) % bufferEnd_]
    /\ unreadSize_' =
        IF unreadSize_[r] > k
        THEN [unreadSize_ EXCEPT ![r] = unreadSize_[r] - k]
        ELSE unreadSize_
    /\ pos' = [pos EXCEPT ![r] = pos[r] + k]
    /\ UNCHANGED <<ring, state_, engine, load, count, covered, shared>>

(* updateState(READER_DISABLED): the client stops buffering, the second stage *)
(* is done.                                                                   *)
updateState(r) ==
    /\ state_[r] # "disabled"
    /\ state_' = [state_ EXCEPT ![r] = "disabled"]
    /\ covered' = covered \ {r}
    /\ UNCHANGED <<ring, readOffset_, unreadSize_, engine, load, count, pos, shared>>

-----------------------------------------------------------------------------
(* The engine.                                                               *)

(* reset() clears the keyword configurations and the write offset in one      *)
(* critical section, and then each reader in one of its own: other threads    *)
(* run in between.  What the ring holds stays there, but has no number any    *)
(* more.                                                                      *)
ResetRing ==
    /\ toReset = {}
    /\ writeOffset_' = 0
    /\ kwCfg_' = [s \in Stream |-> 0]
    /\ toReset' = Reader
    /\ written' = 0
    /\ lost' = 0
    /\ pos' = [r \in Reader |-> 0]
    /\ covered' = {}
    /\ UNCHANGED reader

(* The engine resets the ring when recognition starts again.  A stream that   *)
(* is being loaded may still replace the ring of the next detection.          *)
reset ==
    /\ buffering # {}
    /\ ResetRing
    /\ buffer_' = NewCells(bufferEnd_)
    /\ detected' = {}
    /\ buffering' = {}
    /\ shared' = IF creating = {} THEN {} ELSE Stream
    /\ UNCHANGED <<bufferEnd_, load>>

(* ProcessStartRecognition on a session with a shared memory buffer: the ring *)
(* takes its size and is reset before the engine is active.                   *)
ProcessStartRecognition(n) ==
    /\ buffering = {}
    /\ ResetRing
    /\ bufferEnd_' = n
    /\ buffer_' = NewCells(n)
    /\ UNCHANGED <<detected, buffering, shared, load>>

(* CreateBuffer, the load of another stream with a ring of size n: it resets  *)
(* the ring without the engine mutex, so the engine may be buffering and goes *)
(* on.                                                                        *)
CreateBuffer(s, n) ==
    /\ creating = {} /\ shared # Stream    \* bound: one load between two detections
    /\ s \notin buffering
    /\ ResetRing
    /\ buffer_' = NewCells(bufferEnd_)
    /\ creating' = {s}
    /\ newSize' = n
    /\ shared' = Stream
    /\ UNCHANGED <<bufferEnd_, detected, buffering>>

(* ... then, after its reset(), replaces the ring if the size differs, still  *)
(* without a lock and without a second reset(): bytes the engine has written  *)
(* meanwhile are gone, the offsets stay.  (A smaller ring than the offsets in *)
(* use is excluded: the next copy runs outside of it.)  Last it resets the    *)
(* readers of the stream or makes new ones, which start the same way.         *)
resizeRingBuffer ==
    /\ newSize # 0 /\ toReset = {}
    /\ newSize' = 0
    /\ toReset' = {r \in Reader : r[1] \in creating}
    /\ bufferEnd_' = newSize
    /\ IF newSize = bufferEnd_
       THEN UNCHANGED <<buffer_, lost, covered>>
       ELSE /\ writeOffset_ < newSize /\ \A r \in Reader : readOffset_[r] < newSize
            /\ buffer_' = NewCells(newSize)
            /\ lost' = written
            /\ covered' = {}
    /\ UNCHANGED <<writeOffset_, reader, kwCfg_, detected, buffering, creating,
                   written, pos, shared>>

(* readers_ is walked in a fixed order.                                      *)
resetReader(r) ==
    /\ toReset # {}
    /\ r = CHOOSE q \in toReset : TRUE
    /\ toReset' = toReset \ {r}
    /\ readOffset_' = [readOffset_ EXCEPT ![r] = 0]
    /\ unreadSize_' = [unreadSize_ EXCEPT ![r] = 0]
    /\ state_' = [state_ EXCEPT ![r] = "disabled"]
    /\ pos' = [pos EXCEPT ![r] = 0]
    /\ covered' = covered \ {r}
    /\ creating' = IF newSize = 0 /\ toReset' = {} THEN {} ELSE creating
    /\ UNCHANGED <<ring, kwCfg_, detected, buffering, newSize, count, shared>>

Skipped(start) == IF start >= PreRoll THEN start - PreRoll ELSE 0

(* A variant that forgets the readers' offset.                               *)
updateKwdConfigNoOffset(s, start, end) ==
    LET sz == Skipped(start)
        less(r) == IF unreadSize_[r] > sz THEN unreadSize_[r] - sz
                                          ELSE unreadSize_[r]
    IN
    /\ unreadSize_' = [r \in Reader |->
            IF r \in ReadersOf(s) THEN less(r) % bufferEnd_ ELSE unreadSize_[r]]
    /\ readOffset_' = readOffset_
    /\ pos' = [r \in Reader |-> IF r \in ReadersOf(s) THEN sz ELSE pos[r]]
    /\ kwCfg_' = [kwCfg_ EXCEPT ![s] = end]
    /\ covered' = covered \ ReadersOf(s)

(* updateKwdConfig: the readers of the stream start PreRoll bytes before the  *)
(* keyword.  Their unreadSize_ has grown since the reset, so it is reduced,   *)
(* but only when it is larger than the bytes skipped.                         *)
updateKwdConfig(s, start, end) ==
    LET sz == Skipped(start)
        less(r) == IF unreadSize_[r] > sz THEN unreadSize_[r] - sz
                                          ELSE unreadSize_[r]
    IN
    /\ unreadSize_' = [r \in Reader |->
            IF r \in ReadersOf(s) THEN less(r) % bufferEnd_ ELSE unreadSize_[r]]
    /\ readOffset_' = [r \in Reader |->
            IF r \in ReadersOf(s) THEN sz % bufferEnd_ ELSE readOffset_[r]]
    /\ pos' = [r \in Reader |-> IF r \in ReadersOf(s) THEN sz ELSE pos[r]]
    /\ kwCfg_' = [kwCfg_ EXCEPT ![s] = end]
    /\ covered' = covered \ ReadersOf(s)

(* HandleSessionEvent for the first detection, after its reset, and for a     *)
(* detection of another stream while the ring is in use.  The ring is sized   *)
(* for the bytes up to the end of the first keyword and one read more.        *)
FirstDetection(s, start, end) ==
    /\ toReset = {} /\ buffering = {} /\ written = 0 /\ s \notin creating
    /\ start < end /\ end + MaxChunk <= bufferEnd_ + 1
    /\ updateKwdConfig(s, start, end)
    /\ detected' = {s}
    /\ buffering' = {s}
    /\ shared' = IF creating = {} THEN {} ELSE Stream
    /\ UNCHANGED <<ring, state_, toReset, load, count>>

ConcurrentDetection(s, start, end) ==
    /\ buffering # {} /\ s \notin buffering \cup creating
    /\ start < end
    /\ updateKwdConfig(s, start, end)
    /\ detected' = detected \cup {s}
    /\ buffering' = buffering \cup {s}
    /\ shared' = shared \cup {s}
    /\ UNCHANGED <<ring, state_, toReset, load, count>>

(* The bytes up to the keyword end are in the ring: the buffering thread      *)
(* notifies the stream, which prepares the client reader and enables that of  *)
(* its second stage (SetEngineDetectionState, SoundTriggerEngineCapi::        *)
(* SetDetected).                                                              *)
NotifyDetection(s) ==
    LET engines == {r \in ReadersOf(s) : r[2] = "second"} IN
    /\ s \in detected
    /\ written >= kwCfg_[s]
    /\ detected' = detected \ {s}
    /\ state_' = [r \in Reader |->
            IF r \in engines THEN "enabled"
            ELSE IF r \in ReadersOf(s) THEN "prepared" ELSE state_[r]]
    /\ covered' = (covered \ ReadersOf(s)) \cup
            {r \in engines : Backed(readOffset_[r], unreadSize_[r], pos[r])}
    /\ UNCHANGED <<ring, readOffset_, unreadSize_, kwCfg_, toReset, buffering,
                   load, count, pos, shared>>

Next ==
    \/ reset
    \/ resizeRingBuffer
    \/ \E n \in Sizes :
        \/ ProcessStartRecognition(n)
        \/ \E s \in Stream : CreateBuffer(s, n)
    \/ \E k \in 1..MaxChunk : write(k)
    \/ \E r \in Reader :
        \/ resetReader(r)
        \/ updateState(r)
        \/ \E k \in 1..MaxChunk : read(r, k) \/ advanceReadOffset(r, k)
    \/ \E s \in Stream :
        \/ NotifyDetection(s)
        \/ \E start, end \in 0..MaxKeyword :
            \/ FirstDetection(s, start, end)
            \/ ConcurrentDetection(s, start, end)

Spec == Init /\ [][Next]_vars

-----------------------------------------------------------------------------
(* What the ring promises.                                                   *)

(* Every read of a covered reader returns the bytes that follow the last one  *)
(* it returned, all that are there, and nothing else: no byte is overwritten  *)
(* before it is read, none is read twice and no old content of the ring is    *)
(* taken for new bytes when the offsets are equal.                            *)
ReadsAreNext ==
    \A r \in covered :
        /\ Believed(r) = written - pos[r]
        /\ \A j \in 0..(bufferEnd_ - 1) :
            j < Believed(r) => buffer_[wrap(readOffset_[r] + j)] = pos[r] + j

(* The second stage reader of a stream that was detected first is enabled     *)
(* while everything it still has to read is in the ring and is counted, so    *)
(* that ReadsAreNext holds for it until it is disabled.                       *)
EnabledInTime ==
    \A s \in SecondStage \ shared :
        state_[<<s, "second">>] = "enabled" /\ toReset = {}
            => <<s, "second">> \in covered
==============================================================================
