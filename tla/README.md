# AudioReach PAL: TLA+ models, model checking and proofs

PAL (Platform Adaptation Layer) is the library that an audio HAL calls to open,
start, stop and close audio streams on a Qualcomm DSP. This directory holds TLA+
modules for the parts of PAL whose correctness depends on how threads, errors
and DSP restarts interleave, TLC configurations that check them on small
instances, and TLAPS proofs for every size of instance.

    tlc -config StreamHandle_lifetime.cfg MC_StreamHandle
    tlc -config StreamPCM_streams.cfg MC_StreamPCM
    tlc -config A2dpRouting.cfg MC_A2dpRouting
    tlapm StreamHandle_proofs.tla
    tlapm CompressOffload_proofs.tla

The other modules named `*_proofs` are checked in the same way.

`PROJECT.json` lists the components, the runs with their properties, the lines
of source each definition stands for, the findings, the hazards and the theorems.

## 1. Inventory

### Parts of the system

| Part | State | Operations | Talks to |
|---|---|---|---|
| Pal API (`Pal.cpp`) | none of its own, a reference count around `pal_init` | `pal_stream_open/close/start/stop/pause/resume/read/write/...` | resource manager (handle check, user counter), the stream object |
| Stream handle lifetime (`ResourceManager.cpp`, `Stream.cpp`) | `mActiveStreams`, `mActiveStreamUserCounter`, the semaphore `mInUse` of each stream | register, deregister, init, increase, decrease, deactivate and erase a counter | every API call, mixer event callbacks, the SSR worker |
| PCM stream (`StreamPCM.cpp`) | `currentState`, `cachedState`, `isPaused`, `skipSSRHandling`, `mDevices`, `mStreamMutex` | open, close, start, stop, pause, resume, read, write, SSR down and up handlers | its session, its devices, `active_devices`, the card state |
| SSR worker (`ssrHandlingLoop`) | `msgQ`, `cardState`, `prevState` | takes a card state, runs the down or up handler of every stream | streams, context manager |
| Sound card monitor (`SndCardMonitor.cpp`) | the sysfs node it polls | reports OFFLINE, STANDBY, ONLINE | `ssrHandler` |
| Devices (`Device.cpp`) | `deviceCount`, `deviceStartStopCount`, ordered stream attributes | open, close, start, stop, attribute insertion | shared by all streams |
| Echo reference (`checkandEnableEC_l`, `setECRef`) | `ec_ref_count_map`, `active_devices`, `ecRefDevId` of each capture session | register and deregister a device of a stream | sessions, with the mutex released |
| Device switch (`Stream::switchDevice`, `streamDevSwitch`, `forceDeviceSwitch`) | the devices of every stream, lists of pairs to disconnect and connect | switch one stream, switch all streams of a device | streams, devices, sessions |
| Bluetooth A2DP (`Bluetooth.cpp`, `BTUtils.cpp`) | suspended and connected flags, session requests; `suspendedOutDevIds` and `a2dpMuted` of each stream | suspend, resume, connect, disconnect, from the framework and from the stack | the Bluetooth library, device switch |
| Resource manager, rest | front end id lists, device attributes | front ends, configuration | streams, devices, sessions |
| Sound trigger stream (`StreamSoundTrigger`) | one of six state objects, engines, a wake lock, a timer thread | load, configure, start, detect, read, stop, pause, SSR, device and LPI switch | first and second stage engines, resource manager, callbacks to the client |
| Sound trigger ring (`PalRingBuffer`) | one write offset, an offset, a size and a state per reader | write, read, advance, reset, enable | the engines' threads and the clients |
| Detection concurrency (`STUtils.cpp`) | `use_lpi_`, NLPI stream list, disable count, deferred switch, delay thread | a stream opens or closes, battery change, deferred switch and deferred start | every stream at open and close, detection streams |
| ACD, ASR, context manager | state machines and request counts | similar to the sound trigger | sensors, streams it opens itself |
| Compressed playback (`StreamCompress`, `SessionAlsaCompress`) | stream state, offload thread, message queue, the thread's last result | open, close, start, stop, write, pause, resume, drain, flush, SSR down | the compress driver, which blocks; client callbacks |
| Sessions, payload builder | mixer controls, graph handles | sequences of AGM calls | kernel, DSP |
| USB, DisplayPort, speaker and haptics protection | device specific | capabilities, calibration threads | external libraries |
| IPC servers, plugin manager, voice UI and codec plugins, configuration | session lists, plugin reference counts, tables | marshalling, loading, parsing | everything |

### What is hard here

* **Concurrency.** A stream is touched by a control thread, a data thread, the
  SSR worker and callback threads. Two mutexes, `mActiveStreamMutex` of the
  resource manager and `mStreamMutex` of the stream, are taken in both orders,
  so methods release the second to take the first and go on with what they read
  before.
* **Failure.** Each of open, start and close is a sequence of session and device
  calls that may fail in the middle; devices and their counts are shared.
* **Restart.** When the DSP goes down the worker stops and closes every stream
  and remembers its state; when it is back, the worker opens and starts it
  again. Clients are told that their calls succeeded meanwhile.
* **Ordering.** A card state reaches the worker from the monitor and from failing
  reads and writes, late or twice, through a queue. Detections and the answers of
  second stage engines reach a stream that may have stopped since.
* **Deferral.** An LPI switch, the start of an NLPI stream, the stop after a
  detection and a route to a suspended headset are put off and done by another
  thread, which must find out whether they are still wanted.

### What makes the parts correct

* Handle: no counted call touches a deleted object; exactly one closer deletes
  it; the counter is exact; a close that waits returns.
* Stream: state, session, device counts and registrations agree; errors undo what
  was done and nothing else; a destroyed stream leaves nothing.
* SSR: a down round leaves nothing open; after an up round the stream is what its
  client was told; nobody deadlocks.
* Ring: a reader gets the bytes that were written, in order, once.
* Sound trigger stream: microphone, wake lock and recognition follow what the
  client asked for, through every event of the resource manager and the engines.
* Detection concurrency: the mode is the one the open streams need or the switch to
  it is pending; nothing listens in a call that forbids it.
* Compressed playback: a short write gets its callback, a close ends, a crash is
  reported.
* Echo reference: counts, sessions and running streams agree.
* A2DP: counts agree with the streams, what was moved away comes back, and what was
  meant for the headset is not heard from the speaker.

The hazards, each at its source line, are in `PROJECT.json`.

## 2. Modules

| Module | Models | Composes |
|---|---|---|
| `HandleLifetime` | what the user counter promises, in terms of phases and users | - |
| `StreamHandle` | the user counter protocol between API calls, closers and the SSR walk | implements `HandleLifetime` |
| `StreamHandle_proofs` | the theorems | extends `StreamHandle` |
| `StreamPCM` | a PCM stream, its clients, the SSR worker, the monitor and the card | uses what `StreamHandle` establishes: a close waits for the handler |
| `StreamPCM_proofs` | the theorems | extends `StreamPCM` |
| `PalRingBuffer` | the ring, its readers, and the calls of engines and streams on it | - |
| `PalRingBuffer_proofs` | the theorems | extends `PalRingBuffer` |
| `StreamSoundTrigger` | one voice UI stream with its client, the resource manager, its timer and its engines | sees the ring as "buffering" |
| `StreamSoundTrigger_proofs` | the theorems | extends `StreamSoundTrigger` |
| `LpiSwitch` | all streams as seen by `STUtils.cpp`, the delay thread and the battery | of a detection stream it keeps what `StreamSoundTrigger` shows of it: running, mode, buffering |
| `LpiSwitch_proofs` | the theorems | extends `LpiSwitch` |
| `CompressOffload` | a compressed stream, its session and offload thread, the SSR worker | - |
| `CompressOffload_proofs` | the theorems | extends `CompressOffload` |
| `EchoReference` | playback and capture streams entering and leaving `active_devices` | - |
| `EchoReference_proofs` | the theorems | extends `EchoReference` |
| `A2dpRouting` | playback streams on A2DP and speaker, device switch, suspend and resume | - |
| `A2dpRouting_proofs` | the theorems | extends `A2dpRouting` |
| `MC_*` | instances | |

### StreamHandle

`pc[t]` and `arg[t]` say where a thread is and on which handle; a step is what a
thread does under one hold of `mActiveStreamMutex`, or between two. The mutex is
explicit (`mutex`) where it is held over several steps: by a user that waits for
the semaphore (`increase`), and by the SSR worker through a round. Handles are
addresses: a freed one is given out again (`OpenCreate`), and any thread may call
with a stale one (`UserLock`, `CloseCheck` accept every handle that is active at
that moment). `mActiveStreams` is a set, so the walk covers every order.
`SsrUnlock` and `SsrRelock` are the release of the mutex inside `ssrDownHandler`
and `ssrUpHandler`.

### StreamPCM

A step is what a thread does under one hold of `mStreamMutex`. `todo[t]` is the
rest of thread t's program, so that `close()` calling `stop()`, and the SSR
handlers calling `stop()`, `close()`, `open()`, `start()` and `pause()`, run the
same definitions as the API calls. `StopCheck`/`StopRun`, `CloseCheck`/`CloseRun`,
`StartRun`/`StartRegister` and `Write`/`WriteResumed`/`WriteRegister`/
`WriteStarted` split the methods where the code releases the mutex.

| Model | Code |
|---|---|
| `mStreamAttr` | direction, devices, and whether the type is in the standby list |
| `currentState`, `cachedState`, `isPaused`, `skipSSRHandling`, `mDevices` | the members of the same names |
| `session` | what the session below is: external, seen through the stream's calls |
| `deviceCount`, `deviceStartStopCount` | the counters of each device, `Others` of them held by other streams |
| `registered` | the pairs of this stream in `active_devices` |
| `cardState`, `prevState`, `msgQ`, `ssrHolds` | the worker and `mActiveStreamMutex` |
| `card`, `event`, `monitor` | the real card, an unread notification, the place of the poll loop |
| `call`, `status`, `view` | the API call in progress, what a method returned, what the client concludes |

`Faults` names the calls below the stream that may fail; each then succeeds or
fails freely. A session call on a card that is down fails with ENETRESET.

The clients follow the preconditions of `PalApi.h` on what they were told
(`Allowed`). `Overlap`, `Between` and the rest of a client's `Calls` say when it
makes them: at any time, between two SSR rounds (the card up or down), or only
when no SSR is under way (`Calm`). The narrower choices are needed where the code
has known races, see section 6; each run says which it makes.

`Settles` makes the card keep a state until that state was handled everywhere. A
DSP restart takes seconds and a round far less, so this is the normal case; runs
without it let the card change at any moment.

### PalRingBuffer

A cell of `buffer_` holds the number of the byte in it, so that "the right bytes"
can be said. `write`, `read`, `advanceReadOffset`, `updateState`, `reset` and
`resetReader` are the methods of the same names; `FirstDetection`,
`ConcurrentDetection` and `NotifyDetection` are the calls that
`SoundTriggerEngineGsl` and the stream make on the ring when a keyword is found
(`updateKwdConfig`, the offsets of the readers, enabling them). `reset` empties the
ring and leaves the readers in `toReset`, which `resetReader` then visits one by one.
`written`, `pos`, `covered` and `shared` are history. A reader is `covered` from the
moment it is enabled with everything it must read still in the ring; `EnabledInTime`
says that the second stage reader of the first detection always is.

The ring has one of the sizes in `Sizes` and changes it in two places.
`ProcessStartRecognition` takes the size of the shared buffer of the session while
nothing buffers. `CreateBuffer`, the load of another stream, runs without the engine's
mutex: it resets the ring, visits the readers, and only then (`resizeRingBuffer`)
replaces the cells if the size differs, so writes, reads and detections of the streams
that are loaded fall between the two. The offsets stay and the bytes written meanwhile
are lost (`lost`); readers of the new stream start like new ones, so `newReader` and
`resetReader` are one step.

### StreamSoundTrigger

`st` is a record of the fields of the stream. Each handler of `ProcessEvent` is an
operator from the record to the record, per state class, so a handler that calls
`ProcessEvent` again (SSR offline in ACTIVE sends a stop, for example) applies the
operator of that event. `owner` is `mStreamMutex`. `Client` is a call of the client,
`ResourceManager` an event the resource manager sends, `Detects` and `Engine` the
engine threads with the try-lock of `SetEngineDetectionState`, `Timer` the thread of
the delayed stop, `delete` and `deleted` the destructor that joins it. `f` names the
one call below the stream that fails during the event. `past` records the paths of
the code after which a property is known not to hold (section 4).

`Lpi` is `GetStreamLPIFlag`: such a stream is never on the list of deferred starts
(`deferred = "never"`). A stream configured for NLPI may be put on
`mStartDeferredStreams` by its start (`deferStart`), is taken off it by its stop
(`stopUndeferred`, which does nothing else, as in the code), and is started from it by
the resource manager when the deferred switch is done (`HandleDeferredSwitch`,
`StartDeferred`, in two steps, since the mutex of the stream is taken for each). `word`
is the client's last word; it is "ignored" after a stop that left a started stream
running. `st.wake` is the stream's share of the count of wake locks, and a release
subtracts from it whatever it is, so that a second release shows.

### LpiSwitch

A step is what runs under `mActiveStreamMutex`. `Open`/`NotifyOpened` and
`NotifyClosed`/`Closed` are `pal_stream_open` and `pal_stream_close` around the
handlers of concurrent streams. The constructor of a detection stream takes the mutex
for the list (`registerStream`), for the number of voice UI streams (`CountRegistered`),
for the battery if it is the first (`onVUIStreamRegistered`) and for the disable count
(`ReadCount`), and sets `paused_` after that (`Constructed`); the destructor takes it
three times in the same way (`deregisterStream`, `CountDeregistered`,
`onVUIStreamDeregistered`). What one of them counted may be stale when it acts. `race`
is the history in which it was: where charging counts, a constructor or destructor
overlapped another one, a change of the battery or a deferral.
`StartHandlesDeferred`, `Start`, `start_l` and `Push` are `pal_stream_start` of a
detection stream: the deferred switch, the look at the deferral, and `start()` or, for an
NLPI stream that has to wait, the push to `mStartDeferredStreams`, each under a hold of
the mutex of its own; `Loop` is
`voiceUIDeferredSwitchLoop`, and `HandleLate` is the thread of a stream whose buffering ended and that has still to call `stHandleDeferredSwitch`.

### CompressOffload

A step of a client or of the SSR worker is what runs under `mStreamMutex`; the offload
thread's steps lie between its accesses to the queue, the driver and the client.
`wk.ret` and `wk.event` are its local variables, which survive from one message to the
next. The driver (`drv`) is external: a wait, a drain and a partial drain block until
it has played, is stopped, flushed, or the DSP crashes (`Play`, `Crash`). `Calling`
and `Continue` are the client's methods; `close` and `stop` release the mutex where
the code does.

### EchoReference

A step is what runs under `mResourceManagerMutex`. `op[s]` is the registration a stream
is in, with the capture streams still to visit; `setECRef` is the session call in the
middle, made with the mutex released, which may fail. `mActiveStreamMutex` is held
around a registration by all streams but those in `Unguarded`.

### A2dpRouting

A step lies between two lock operations of a thread; `mActiveStreamMutex` and every
`mStreamMutex` have an owner. The threads are the clients of the streams, the
framework's thread (`hal`) and the Bluetooth stack's callback (`cb`).

| Model | Code |
|---|---|
| `mDevices`, `currentState`, `suspendedOutDevIds`, `a2dpMuted` | the members of each stream |
| `deviceCount` | the open count of each device |
| `bt` | `param_bt_a2dp.a2dp_suspended`, the set_param flag, `a2dp_state`, `a2dp_source_session_requests` and whether the device is in `avail_devices_` |
| `pc`, `loc` | where a thread is, and the lists it collected (`todo`, `disc`, `conn`) |
| `want`, `ignored` | history: what the client asked for; the streams whose route the code put off, or whose mute was lost with a failing session |
| `stranded`, `leaked` | history: the streams that a suspension left behind when it ended; the requests of Bluetooth starts that failed after they were counted |

`Begin` starts a call, `Continue` is its next step. `switchDevice`, `plan` and
`switchDone` are `Stream::switchDevice` around `streamDevSwitch` (`devSwitchLock`,
`lockOne`, `devSwitch`); `markOne` to `forcedAgain` are `a2dpSuspend` with its
`forceDeviceSwitch`, `collectOne` to `unmutedAll` are `a2dpResume`; `startReady`,
`startCombo`, `startAlone` and `startRoute` are `start()` of a stream whose A2DP device
is ready, is one of two and not ready, or is the only one and not ready
(`BTUtilsDeviceNotReady`). `startDevices` and `devSwitch` start the devices: the
Bluetooth start may fail early, before `startPlayback` counted its request, or late, in
`configureSlimbusClockSrc` or `Device::start_l`, with the request counted and never taken
back; and the session of a `start()` may fail, with the devices stopped again and the mute
at the end of `start()` not reached. `suspendClear` ends a suspension and goes on with
`a2dpResume`, unless the stack refuses to start or the framework ends it within a call
(`skip_switch`).

### Faulty variants

Definitions marked "faulty variant" are plausible mistakes in the definition
that follows them. They are in no specification; putting one in place of its
definition makes TLC report the property that `PROJECT.json` pairs with it.

## 3. Runs

| Run | Instance | Checks | Shows |
|---|---|---|---|
| `handle_lifetime` | 3 clients, 2 addresses, SSR worker | `TypeOK`, `NoUseAfterDestroy`, `CounterExact`, `HolderNeverBlocks`, `OneDestroyer`, `IteratorValid`, `CloseReturns`, `ImplementsLifetime` | the counter protocol is safe under reuse of addresses, closes return, and it implements `HandleLifetime` |
| `pcm_streams` | output, input, loopback and standby-capable streams, control and data thread, 3 card changes at any moment | `Coherent`, `OthersUnharmed` | state, session, counts and registrations agree; errors take nothing from other streams; a destroyed stream leaves nothing |
| `pcm_pause` | one output, one thread, 4 card changes, failing pauses | `PausedComesBack` | a paused stream is PAUSED again after an SSR |
| `pcm_threads` | one output, two threads, calls anywhere inside SSR rounds, failing opens | `TypeOK`, `NoSelfDeadlock`, `DownRoundCloses` | the worker never waits for its own mutex, and a down round leaves nothing open |
| `pcm_recovery` | two devices, two threads, 4 card changes | `Recovered`, `Recovers`, `CallsReturn` | a start that meets a card on its way down or up plays in the end; no call hangs |
| `ring_buffer` | 2 streams, one with a second stage, rings of 2 and 3 bytes, 4 bytes written, chunks of 1 or 2 | `TypeOK`, `ReadsAreNext`, `EnabledInTime` | with wrap-around, reset, resize by a load or a restart, and two detections, readers get the right bytes and the second stage is enabled in time |
| `sound_trigger` | no or one second stage engine, a stream configured for LPI with five kinds of resource manager events and one configured for NLPI with two, 1 detection, 1 fault | `TypeOK`, `DeviceRuns`, `WakeHeld`, `ActiveIsWanted`, `RunsWhenWanted` | microphone, wake lock and recognition follow the client; a deferred start that was taken back is not carried out |
| `lpi_switch` | one playback stream, one call, one NLPI and one LPI detection stream, their constructors and destructors hold by hold, barge-in delay, charging | `TypeOK`, `SwitchDecided`, `RunsInMode`, `QuietInCalls` | the mode in force, or the deferred switch, is the one needed; streams run in it; calls silence them |
| `compress` | 2 clients, 2 writes, 1 drain, 2 controls, 1 crash or failed start | `TypeOK`, `WriterIsTold`, `NobodyHangs`, `CrashIsReported` | no write waits for a callback that will not come, no close for a thread that cannot end, no crash goes unreported |
| `echo_reference` | 3 playback and 3 capture streams on 2 devices, 1 refused mixer call | `TypeOK`, `MapMatchesSession`, `PlaybackCancelled` | counts and sessions agree although the mutex is released around the session call |
| `a2dp_routing` | 2 streams, framework thread, three routes, suspensions that end within a call or outside, 1 failed connect, Bluetooth start, resumption or session | `TypeOK`, `CountsMatch`, `Heard`, `NoLeak` | counts agree but for the request a late failure leaves; without a failure playback comes back to the headset; nothing leaks to the speaker but a stream whose `start()` lost its session; where no suspension begins within a start and no start within a suspension, nobody blocks for good |
| `pcm_restart` | one output, no SSR | `DropsOnlyInSsr` | violated: section 4 |

### Bounds

* Three threads are enough for a user, a closer and a second closer or opener on
  the same address; two addresses let the SSR walk stand on one while the other
  is created or destroyed. The theorems remove both bounds.
* `MaxChanges` = 3 or 4 changes of the card: down, up, and a second failure during
  the recovery from the first. `MaxMsgs` = 3 or 4 reports waiting: the monitor's
  and one of each client. A report that finds the queue full waits.
* Two output devices are needed for a start that loses one of them; `Others` = 1
  shows a stolen reference, `Others` = 0 the reset of the start count by the last
  close. `MaxCount` bounds the start count in states that a stop race leaks. The
  theorems take any clients, devices, streams, counts and numbers of card changes.
* Rings of 2 and 3 with chunks of up to 2 and 4 bytes written make a write and a read
  wrap around, make a reader be overrun and make a load grow or shrink the ring. One load
  is between two detections (guard of `CreateBuffer`, which the theorems keep); the
  theorems remove the other bounds.
* In `sound_trigger` one detection ends in every possible way (restart, stop, delayed
  stop, rejection, pause, SSR, switch), and the one failing call meets each of
  them; the other events repeat without bound. The constraint `SomethingPromised` ends a
  behaviour in which a device was left running and a recovery ended early as well: every
  property but `TypeOK` excepts such a stream until it is deleted. The constraint
  `NlpiFocus` lets a stream configured for NLPI meet only the events its deferred start
  depends on, subsystem restarts and LPI switches; pauses and device switches act on it as
  on the other. The theorems take any
  number of detections and of failed calls and have neither constraint.
* In `lpi_switch` one stream of each kind is enough for each of the conditions the
  code counts to come and go while a switch is deferred; `Delay` is the number of
  ticks of the delay thread. The theorems take any streams of each kind, CRS calls
  excepted, and any delay.
* In `compress` two writes are a first and a short one; two controls are, for
  instance, a pause and a flush or a stop. The theorems take any number of clients and
  any bounds.
* In `echo_reference` three capture streams make the loop over the others run on two,
  and a third playback stream comes while the second leaves. Every placement of the
  playback streams on the devices is an initial state. The theorems take any streams and
  devices and any number of refused calls.
* In `a2dp_routing` two streams are needed for a count to be taken from another
  stream and for a suspend to lock one while the other starts. One call fails, at any of
  the calls that may fail, or none: `Heard` speaks of the histories without a failure. The
  requests come from the framework's thread; the theorems add those of the Bluetooth
  stack (`cb`), and take any streams, any routes and, but for `Heard`, any number of
  failed calls.
* Symmetry is used where the members of a set play the same part and no liveness is
  checked: client threads in `compress`, playback streams in `echo_reference`,
  streams in `a2dp_routing`.
* `CHECK_DEADLOCK FALSE` in the PCM runs, `sound_trigger`, `lpi_switch` and
  `compress`: once the stream is destroyed or the bounded events are used up the
  system rightly stops. Hanging is checked by `CallsReturn` and `NobodyHangs`.
  `handle_lifetime`, `ring_buffer`, `echo_reference` and `a2dp_routing`
  check for deadlock; `a2dp_routing` keeps out the one of section 4.

### Fairness

`StreamHandle` has strong fairness per thread: a thread that waits for the mutex
is enabled again and again, and a mutex hands itself to a waiter in the end.
Nobody has to start a call. `StreamPCM` has weak fairness for threads inside a
call, the worker and the monitor, which are plain running threads; the card is
never forced to change and clients are never forced to call. The other modules have
safety properties only. What must happen in the end is stated there as an invariant on
what is pending: `WriterIsTold`, `SwitchDecided` and `Heard` say that whoever has still
to act is under way or that nothing is left to do.

## 4. Findings and observations

### Shown by a run

**A restarted stream is silent** (`pcm_restart`). `pal_stream_stop` leaves
`cachedState` at STOPPED and `start()` does not reset it, so `write()` takes every
later buffer for one during an SSR, drops it and reports it as written.

### Observed while modelling

What follows was met while the modules were written. TLC produces the behaviours of
the ones with a constant or a property named; the others are read from the source.
Properties are stated so that they hold next to these paths (each exception is named
in the comment of its property), and the hazards in `PROJECT.json` refer here.

PCM streams:

* A second failure during the recovery loses a cached start: the up handler jumps to
  its exit to keep the cached state and the exit clears it.
* The loop that closes the devices after a failed session open overwrites the error:
  the open is reported as a success.
* `isPaused` is still true after an SSR, so the new session is never told of the pause.
* For a type that keeps running in standby the up round is skipped, but a start in
  standby was cached for it (`Recovered` fails with `Attributes <- InStandby`).
* A `stop()` or `close()` inside a down round stops the devices twice
  (`OthersUnharmed` fails with `stop` in `Overlap`); a `start()` inside one registers
  the devices of a stream that was just stopped; a `pause()` while the card is down
  marks a closed stream PAUSED.
* A write concurrent with a pause turns PAUSED into STARTED, even after a stop; a down
  round then meets a started stream whose stop was done, and the worker waits for its
  own mutex. A `pause()` inside a down round that met the stream INIT or STOPPED has the
  same end (`NoSelfDeadlock` fails for clients that pause with `pause` in `Overlap`), since it
  does not look at the state. A resume leaves `currentState` PAUSED until the next write, so an SSR
  brings the stream back paused. This is why pauses have a run of their own.
* When the second device fails to open the first stays open; an input stream keeps the
  devices it started when a later one fails; `start()` tests errno without the status
  of the session; `pal_stream_pause` and `_resume` neither check nor count the handle;
  a closer is not counted between the handle check and the deactivation.

A2DP and device switch:

* `start()` of a stream on the suspended headset brings it to the speaker first and mutes
  it last. When its session fails in between, the stream stays on the speaker and the mute
  is skipped (`StreamPCM.cpp:655`); the next `start()` finds no A2DP device, sees no need
  for a mute, and plays, though `BTUtils.cpp:381` says "mute the stream and route to
  speaker or handset". `MutedOnSpeaker` as the invariant of `A2dpRouting.cfg` with the
  specification `Unrouted`, in which no client asks for another route, shows it; `NoLeak`
  excepts these streams.
* `start()` that meets a suspended A2DP device alone calls `lockActiveStream`
  (`BTUtils.cpp:437`) with its `mStreamMutex` held, against `a2dpSuspend` and
  `streamDevSwitch`, which lock the other way round. A suspension and a start block
  each other for good: `NoLockCycle` is violated within a second with
  `Overtakes = TRUE`, `BtThreads = {"hal"}`, `MaxFaults = 0`. `StreamPCM.cpp:190`
  says the "Stream mutex is unlocked before calling stream specific API in resource
  manager to avoid deadlock issues".
* With `Overtakes = TRUE` as well: a suspension between the readiness check of a start
  and `BtA2dp::start` makes a stream on both devices lose A2DP without a mark, so it
  never gets it back, or makes a stream on A2DP alone fail, after which the stale list
  of `a2dpSuspend` moves it to the speaker neither marked nor muted.
* With `RouteAnytime = TRUE`: overlapping switches work on lists that another switch
  made stale, and connect a stream to a device it has left; the end of `switchDevice`
  erases the mark of a suspension that came in between.
* A `BtA2dp::start` that fails after `startPlayback` counted its request leaves the request
  behind, because the callers only close the device (`leaked`): the headset is kept awake
  until it disconnects.
* A suspension that the framework ends within a call does not bring the streams back
  (`stranded`); they stay marked and muted until the next resumption or a route of their
  client. When it ends within a `start()` that the suspension sent to the speaker, that
  stream starts on both devices, muted; the next resumption unmutes it and leaves it on
  both (`Overtakes = FALSE` keeps this out).
* `BTUtilsDeviceNotReady` clears a copy of the device list, so `start()` closes A2DP
  twice and takes the count of another stream (`CountsMatch` therefore allows A2DP
  fewer opens than users).
* `streamDevConnect_l` returns only the last status, so `a2dpResume` clears the marks
  of streams that failed, though it says it will "retry all orphan streams which
  failed to restore previously"; on failure it returns with streams still muted.
* A disconnect sets the session requests to 0 with streams still on A2DP; a resume
  while disconnected leaves a stream muted; a muted stream is not marked by a second
  suspension; a stream without volume data stays muted; a route to A2DP during the
  suspension of a stream on both devices leaves it on the speaker too.
* `streamDevConnect_l` unlocks a stream after its first connect, so its second device
  is connected without the mutex. With the card down `streamDevSwitch` calls the SSR
  handler of the second stream with the mutex of the first held.

Echo reference:

* With `Unguarded = {t1}` `MapMatchesSession` is violated in a second: ACD, ASR, sensor
  and haptics streams register without `mActiveStreamMutex`, and the comment at
  `ResourceManager.cpp:3223` says a mutex is held that line 3222 released.
* With playback on two devices the second device's echo reference erases the count of
  the first; ENODEV on the capture side keeps a count; a refused call leaves a stale
  `ecRefDevId`.

Compressed playback:

* A partial drain that a flush cancels leaves `ret` and errno of the offload thread
  behind, and the next drain is neither done nor answered, though `PalApi.h:193`
  promises a notification "via the callback function". `DrainIsAnswered` as the invariant
  of `CompressOffload.cfg` with `MaxWrites = 1`, `MaxDrains = 2`, `MaxFaults = 0` shows it.
* A start after a stop destroys a joinable `std::thread`; a pause brings back any state;
  a pause and a write in the unlocked window of `close()` revive the stream; a close and
  the SSR handler close the devices twice; a close in OPENED never stops devices that a
  failed start left; a failed driver write returns 0; a failed session open is
  overwritten; an early return loses a front end id; a stale `event_id` is reported.

Sound trigger stream:

* `stop()` of a stream configured for NLPI removes it from `mStartDeferredStreams` and
  returns 0 (`StreamSoundTrigger.cpp:415`), whether or not the stream was started already;
  one that was goes on listening, though `PalApi.h:146` says of `pal_stream_stop` "Stop the
  stream". `StopStops` as the invariant of `StreamSoundTrigger.cfg` shows it;
  `ActiveIsWanted` excepts these streams.
* The delayed stop may run before its delay when it was cancelled and posted again; a
  device switch in DETECTED cancels it without posting it again; the destructor joins
  the timer thread with `mStreamMutex` held, which the timer thread takes.
* A resume or concurrency event of a stream without a model uses a null `gsl_engine_`;
  a start after a failed configuration uses a null `rec_config_`.
* A model loaded while the card is down is never loaded when it is up; a recovery that
  ends early leaves `state_for_restore_`, and the next event starts a stopped stream; a
  close during SSR is refused, and the stream is restarted.
* A failed `RestartRecognition` or `ConnectSessionDevice` leaves a device running.
* `NotifyFailure = TRUE` releases the wake lock twice after a second stage rejection; a
  device switch in BUFFERING with a second stage keeps it.
* `SetEngineDetectionState` tests and uses `mutex_unlocked_after_cb_`, which two threads
  share; the abort of a detection is not delivered once `sm_config_` is freed; with
  `MaxDetections = 2` the answer of an old second stage is taken for the new detection.
* `detection_state_` survives a stop: with two second stage engines the acceptance that
  the first one left behind completes the next detection, and a later rejection restarts
  a stream whose client was notified (`Stage2Choices <- NoneOrTwo`, `MaxDetections = 2`,
  `MaxFaults = 0` violates `ActiveIsWanted`, `WakeHeld` and `RunsWhenWanted`).
* A start while a concurrency pauses the stream can succeed without listening.

Ring: with a concurrent detection the second stage reader can be enabled with more
unread bytes than the ring has, and the subtraction in `size_t` wraps; `CreateBuffer`
resets the ring of a buffering stream and replaces its cells without a lock; readers that are only prepared do not hold the
writer back. `covered` and `shared` leave these out of the two properties.

LPI: the CRS flag is one for all calls (`Crs` not empty leaves streams paused); a change
of the battery without a voice UI stream is ignored. The constructor and the destructor
of a detection stream act on the battery without a look at the deferral or another look
at the list (`race`): with a steady charger, a stream that is opened and started between
the count and `onVUIStreamDeregistered` of the last one leaves `use_lpi_` TRUE with a
stream open, which runs in NLPI. An NLPI stream pushed to `mStartDeferredStreams` after
the switch is never started, and one that is closed stays in it. A deferral that ends with
the card offline is not tried again until a detection stream starts or ends its buffering.

## 5. Proofs

`StreamHandle_proofs` proves, for every finite set of client threads and every set
of handle addresses (`ClientAssumption`: the threads, the worker and "none" are
distinct and the clients finitely many):

* `TypeCorrect`, `UseIsSafe`, `CounterIsExact`, `NoBlockingHolder`,
  `DestroyedOnce`, `IteratorStaysValid`: the safety properties of `handle_lifetime`;
* `Refinement`: `Spec => ImplementsLifetime`, by a mapping of every step to a step
  of `HandleLifetime` or to a stutter.

None of these invariants is inductive. `IndInv` adds

* `MutexInv`: which program points hold the mutex; without it a user could appear
  between a worker's check and its increase;
* `OwnerInv`: a stream being opened or closed belongs to one thread, is still
  registered, and its entry is missing, inactive or present as its phase says;
* `CountInv`: the counter is the number of users and a stream without an entry has
  none;
* `SemInv`: the semaphore is 1 exactly when the counter is 0, until the closer took
  it, which it could only do at 0.

`SemInv` carries the argument: the closer past `sem_wait` saw the counter at 0, the
entry is inactive since before that, so the counter stays 0 and nobody is inside.
The lemmas `GotoQuiet`, `GotoStay`, `GotoEnter` and `GotoLeave` say how one thread's
move changes the set of users and its cardinality; `NextInd` has a step per action.

`PalRingBuffer_proofs` proves, for every ring size, chunk size and set of streams and
second stages (`RingAssumption`), with no bound on what is written but the named one:

* `TypeCorrect`: offsets stay in the ring, whatever sizes it takes;
* `ReadsInOrder`: `Spec => []ReadsAreNext`, what a covered reader finds is what comes
  next, through every resize by a load or a restart.

`ReadsAreNext` speaks of the cells a reader believes to be unread, not of what the
writer does to the others. The inductive invariant `Inv` therefore adds `RingHolds` (the
last `bufferEnd_` bytes written, or those since the ring was replaced, are in it, each at
its distance behind the write offset),
`KeywordWritten` (once a stream is notified, the end of its keyword is among the bytes
written, so what its readers skip is there) and `CoveredOK` (the offsets of a covered
reader are as far apart as the bytes it has not seen, modulo one turn of the ring).
The lemmas `WriteCovered`, `ReadCovered`, `AdvanceCovered` and `KwdConfigCovered` carry
the last one through the four methods. The arithmetic of `%` is in `ModRange` and `ModWrap`.

* `SecondStageInTime`: `Spec => []EnabledInTime`. Its invariant `InTime` says of a stream
  that was detected first and is not notified yet where its second stage reader waits
  and that the ring has not wrapped (`Waiting`), that a second stage reader is never
  only prepared, that an idle ring is empty (`Idle`), and that nothing but the load of
  another stream resets or resizes the ring under a buffering engine (`Torn`).

`StreamSoundTrigger_proofs` proves, for any number of detections and of failed calls and
any of the things the resource manager may do: `TypeCorrect`, `DeviceRunsOnlyWhenNeeded`
(`DeviceRuns`) for any second stage engines, and, when a sound model has one second stage
engine at most (`OneEngine`), `WakeLockReleasedOnce` (`WakeHeld`),
`ListensOnlyWhenStarted` (`ActiveIsWanted`) and `StartedStreamRuns` (`RunsWhenWanted`).
`OneEngine` is needed: with two engines `detection_state_` outlives a stop and these
three do not hold (section 4). `Inv` is the conjunction of what the handlers keep and what
the threads keep. Of the record: `DeviceOK`, `ModelOK` (a stream that is not loaded has no
engines), `WantOK` (a stream that listens, or that a recovery will make listen, was
started), `WakeOK`, and `RunsOK(s, op)`, where `op` is the operation the resource manager
is in the middle of, since between its halves a started stream may be unloaded. Of the
threads: `OwnerOK` (who has `mStreamMutex`), `CountOK`, `CardOK`, `EnginesOK`, and
`AnsweredOK` (no engine of a stream whose client was notified has an answer left to
report), which is what `OneEngine` gives. The proof has three layers: a lemma per part of
a handler (`Does_*`), a lemma per event (`Ev_*`) that walks through the branches of its
handler in every state, and a lemma per action (`Step_*`). `StAssumption` says that a
model may have no second stage, as the stream has before it is loaded.

`LpiSwitch_proofs` proves, for any playback streams, calls and detection streams, with
no CRS call among them (`NoCrs`): `TypeCorrect`, `CountsAreExact` (the disable count and
the Tx count are the numbers of the streams behind them), `AlwaysDecided`
(`SwitchDecided`), `AlwaysInMode` (`RunsInMode`) and `AlwaysQuiet` (`QuietInCalls`). The
first two except the histories with `race`; without the exception both are false
(section 4). The hypothesis is needed: the code has one CRS flag for all calls, so that a CRS call changes
what the close of another undoes, and with `Crs = {x}` TLC finds `SwitchDecided` violated
within a second (section 4). `Inv` adds

* `CountsExact` and `ListOK`: the counts and `mNLPIStreams` are what is open;
* `LiveOK`: only a stream that is up is started, runs, buffers or waits for NLPI;
* `PausedOK`: in a call a detection stream is paused, or has still to read the count;
* `PlanOK`: a deferred switch leads away from the mode in force, and the planned mode is
  the one wanted unless a change of the battery is pending; without it a stream that
  opens and one that closes could cancel each other's deferral the wrong way round;
* `NlpiOff`: in LPI no stream configured for NLPI is started;
* `OneBetween` and `FewDeferrals`: where the battery counts, one detection stream at a
  time is in the middle of its constructor or destructor, what it counted is still so, and
  which deferral it may meet; `PlanOK` then excepts only the stream about to switch
  (`ToSwitch`).

`EchoReference_proofs` proves, for any streams and devices and any number of refused
mixer calls, where every stream registers under `mActiveStreamMutex` (`AllGuarded`):
`TypeCorrect`, `CountsMatchSessions` (`MapMatchesSession`) and `PlaybackIsCancelled`
(`PlaybackCancelled`). Without the hypothesis they fail, see section 4. A registration
visits the capture streams one by one and releases `mResourceManagerMutex` around each
session call, so the properties hold only between registrations. `Inv` says what holds in
the middle: one registration is past its lock (`Exclusive`), the streams it has still to
visit are running and do not include the one it is at (`Remembers`), a count never
exceeds the playback streams its capture stream was told of, and equals their number when
there is one device and no refusal (`Counts`), and counts and sessions agree but for the
session call under way (`Agree`).

`A2dpRouting_proofs` proves, for any streams and routes and any number of faults, and with
`RouteAnytime` and `Overtakes` either way, so for every interleaving of the threads, the
ones with the observed races included: `TypeCorrect` and `CountsAlwaysMatch`
(`CountsMatch`: the requests are the streams that play on the headset and those that late
failures left). `CountsMatch` looks at the counts between device switches; `Inv` gives
them at every step (`Requests`, `Opens`) and needs `Locked` (a switch has locked every
stream it is about to move and none of them was closed since it looked) and `Placed`
(what a thread at each point knows of its stream and of the Bluetooth device).

The other two theorems, `NeverLeaks` (`NoLeak`) and `AlwaysHeard` (`Heard`), have the
hypothesis `Orderly`, that `RouteAnytime` and `Overtakes` are FALSE, as in the run. With
either of them TRUE the code loses a stream (section 4). They add four layers to `Inv`:

* `Order`: who routes, suspends, resumes or connects does so alone (`OneAtATime`), each
  of its program points belongs to the phase it is in (`Kinds`), and the flags of the
  device are those of the phase (`Flags`);
* `Await`: what a `start()` that met the suspension may still find, and that no started
  stream is on the suspended device unless the suspension is just about to take it off;
* `Leak`: a stream that is meant for the headset alone and has the speaker is muted, or a
  thread is on its way to mute it (`LeakAt`), with what the lists that threads collected
  will make of it (`Own`, `LeakIn`). Lists are made under a mutex and used after it was
  released, so the invariant speaks of a list as of a step that is already taken.
  `Leak` gives `NoLeak`, whatever fails, for all but the streams whose `start()` lost
  its session and the mute with it;
* `Found`: as long as no call failed, a stream that is not left behind (`stranded`) is on what its client asked for
  (`Whole`), or it has a mark (`Back`) and the device is still suspended or the thread
  that resumes it has not passed the stream yet (`Due`). `Asked` and `KeptIn` say the same
  of lists under way. `Found` gives `Heard`.

`AlwaysHeard` does not say that the resumption ends, only that the system does not come to
rest with a stream left behind.

`StreamPCM_proofs` proves, for any clients, devices, streams, references of other streams
and bounds, `TypeCorrect` with no further hypothesis, and each of the other invariants of
the PCM runs under a hypothesis on the constants that the run satisfies:

| Theorem | Property | Hypothesis | Why the code needs it |
|---|---|---|---|
| `DownRoundsClose` | `DownRoundCloses` | `OpensClean`: a device may fail to open only if it is the only one of its stream | `open()` keeps the devices that opened before the one that failed |
| `NeverSelfDeadlocks` | `NoSelfDeadlock` | `Undisturbed`: nobody pauses, or no pause and no write runs inside a round | `pause()` does not look at the state, and the write after it starts the stream again: the worker then stops a stream that it took for a stopped one |
| `AlwaysCoherent`, `OthersAlwaysUnharmed` | `Coherent`, `OthersUnharmed` | `Serial`: one client controls, does not pause and makes of its calls only `open` inside a round; `FailsClean`: an input device that fails to start is alone as well | a `stop()` or `close()` inside a round stops devices twice; `start()` keeps the inputs that started |
| `PauseSurvives` | `PausedComesBack` | `Recoverable`: the card settles, nobody stops the stream, only pauses and data calls fail, one client controls, and one that pauses is alone and pauses between rounds | section 4: a second failure during the recovery, a failed recovery, a standby type, a stream stopped before |
| `AlwaysRecovered` | `Recovered` | `Recoverable`, and nobody pauses | a resumed stream stays PAUSED until it is written to |

A thread of this model has a program, a sequence of labels that methods put further
labels in front of. `Typed` lists the programs that can be under way, which shows that
calls nest no deeper than `ssrDownHandler`, `close` and `stop` do. The lemmas `Firsts`,
`Rests` and `Pushes` say what the first label, the rest and the extension of each are;
no later proof looks into a sequence. On `Typed` stand:

* `Informed`: the worker is inside a down handler only after `cardState` said so;
* `DownInv`: an IDLE stream has no session, and the references on a device are at most
  the ones an open session implies; `close()` then finds whatever a client left;
* `Unpaused`, `Waiting`, `NoRun` and `HoldInv`: what can make a stream run, and that while
  the worker holds `mActiveStreamMutex` it is at a point that calls no `stop()`, or before
  a `close()` of a stream that is not started;
* `Ordered` and `AgreeInv`: one thread at a time changes the stream, and session, counts
  and registrations agree with `currentState` at every step, a registration under way
  excepted; `Ready` says what a thread has seen of the state before it released the mutex,
  and that it is still so;
* `RecInv`, along the stages of a round (`Stage`): `Supply` (where the last change of the
  card is: unread, in the queue, or in the worker), `Told` (which call a client may be in,
  as far as it knows), `Held` (the stream can be recovered, and who pauses makes no call
  with a round but the open), `New` (a stream that is being opened), and `KeptLive` (what
  the client was told is in `currentState` before the down handler, in `cachedState`
  between the handlers, and in `currentState` again after the up handler).

`CompressOffload_proofs` proves, for any number of client threads and any bounds:
`TypeCorrect`, `WriterAlwaysTold` (`WriterIsTold`), `NobodyEverHangs` (`NobodyHangs`) and
`CrashAlwaysReported` (`CrashIsReported`). `Inv` adds which thread may be in which call
(`CallsOK`), who holds the two mutexes (`LocksOK`), in which states a stream is stopped
and closed (`StateOK`), when the driver runs (`DriverOK`), what the offload thread has
before it (`ThreadOK`: an EXIT that no close sent follows an ERROR, so a crash is
reported before the thread ends) and what `command`, which the writer reads without
`cv_mutex_`, says of that thread (`WriterOK`). The lemmas on queues say how `Warned`
survives a message being sent and taken. The preservation proof has a lemma per group of
conjuncts with a step per action.

### Only model-checked

Every invariant of every passing run is stated by a theorem, under the hypotheses above.
What remains with TLC:

* Liveness (`CloseReturns`, `Recovers`, `CallsReturn`): fairness is out of the prover's
  reach.
* `DropsOnlyInSsr`, which is violated, and the behaviours of section 4.
* `WakeHeld`, `ActiveIsWanted` and `RunsWhenWanted` of `StreamSoundTrigger` for sound models
  with two second stage engines: TLC shows that they fail (section 4).

## 6. Assumptions and what is left out

**StreamHandle**

* Two threads that both close a handle break the API's rule; the model shows that
  only one destroys the stream (`OneDestroyer`), but the second runs `close()`
  before it is turned away.
* `pal_stream_pause` and `_resume` are not counted as users; the handle model has
  counted calls only.

**StreamPCM**

* One stream is in `mActiveStreams`; other streams are the references they hold
  (`Others`). The worker's loop over several streams is in `StreamHandle`.
* Left out: mmap, volume, effects, flush, `checkAndSetDutyCycleParam`, the graph lock
  (held inside single steps), and errno: ENETRESET is tied to the card being down.
  Device switch and A2DP are in `A2dpRouting`, the echo reference in `EchoReference`.
* Races the runs keep out by `Overlap` and `Between` are in section 4.
* With `Settles = FALSE`, a late report of OFFLINE, or a change that the monitor's
  discarded read swallows, leaves the worker with a wrong `cardState`; recovery is
  therefore checked with `Settles = TRUE`.

**StreamSoundTrigger.** One stream. Left out: batch buffering, EC_REF,
FORCE_RECOGNITION, history capture, shared backends, the restart of other streams for a
common capture profile, `skipSSRHandling`. A client whose start is deferred stops the
stream before it closes it, and a stream is on the list of deferred starts once at most.
The stop of an NLPI stream is a step between two events of the stream, since it takes no
mutex of it.

**PalRingBuffer.** Loads of two streams are taken not to overlap, though no lock keeps
them apart. A load that would shrink the ring below an offset in use is
left out: the code then writes or reads outside of it. So is a write or a read in the
middle of the replacement, which the code does not lock against.

**LpiSwitch.** Detection streams are of the voice UI type, and a client stops an LPI
stream before it closes it. Capture profiles are left out. In histories where a
constructor or destructor of a detection stream overlaps another one, the battery or a
deferral (`race`), the mode is known to go wrong where charging counts and is not checked.

**CompressOffload.** A client pauses, resumes and stops a stream it has started and is
not closing, starts none it is closing, and one thread closes; a drain before a flush or
a stop is not owed an answer. Left out: codec options, volume, effects, device switch.

**EchoReference.** Left out: external echo references, voice calls,
`clearInternalECRefCounts`.

**A2dpRouting.** One framework thread does all routing: switches, suspensions,
resumptions and connection changes do not overlap each other (`RouteAnytime = FALSE`),
while open, start, stop and close of streams interleave with them at every lock step. A
suspension does not overtake a start on A2DP, and one that ends without a resumption does
not end within the start it sent to the speaker (`Overtakes = FALSE`). A client asks for
A2DP while it is connected, stops before it closes, and is moved off a device before that
is connected again. Mute and disconnect do not fail. Left out: SSR during a switch, the
handset and the dummy device, temporary mute, the pause of offloaded streams, SCO, BLE,
capture.

### Not modelled

Front end ids, device attributes, `pal_init`, the context manager, ACD and ASR, the
plugin manager and IPC clients are candidates for further modules (section 7). Sessions
and the payload builder are sequences of mixer calls and binary payloads; they appear as
calls that succeed or fail. USB, DisplayPort, voice UI and codec plugins, tables and XML
parsing are conversions and data without a protocol. Speaker and haptics protection
depend on measurements of hardware.

## 7. Plan

1. `ContextManager`: use case requests counted over clients, with SSR.
2. The engine of the sound trigger stream, shared by several streams: its event thread,
   merging of models, buffering; then ACD and ASR as variations.
3. `SessionAlsaPcm` open, start, stop and close with their partial failures, below
   `StreamPCM`; front end ids and device attributes.
4. `PluginManager`, `pal_init` and the death of an IPC client.
5. SSR during a device switch, composed from `A2dpRouting` and `StreamPCM`.
6. Proofs: the invariants of the new modules, and `StreamPCM` under weaker hypotheses
   where the code is made to allow them (`OpensClean`, `FailsClean`).
