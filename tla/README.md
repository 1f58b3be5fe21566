# RocksmithBridge in TLA+

TLA+ modules, TLC runs and TLAPS proofs for the programs of this repository: a
Core Audio HAL plug-in (`src/src/driver`), the helper that captures the guitar
(`src/src/helper`), and the command-line tools (`src/src/tools`) with the headers
they share (`src/include/RocksmithBridge`). Line numbers below and in
`PROJECT.json` are those of this commit.

## The system

    source device --inputCallback--> helper --ring file (mmap)--> driver --DoIOOperation--> clients
                                       ^            ^                                    of coreaudiod
                       config.plist ---+            |
                            ^                       |
                            +------ rocksmith_bridge_ctl (set-*, status, doctor)

| Component | State | Operations | With whom, and what is hard |
|---|---|---|---|
| **Audio path** (`SharedRingBuffer.h`, `Driver.cpp:615-727`, `Helper.cpp:167-197`) | per player, in a shared file: `writeFrame`, `samples`, `targetLatencyFrames`, `heartbeat`, counters; in the driver `gReadFrame[player]`, `gRunningClients[player]` | `writeMonoFrames`, `readMonoFrames`, `setTargetLatencyFrames`, `StartIO`, `StopIO`, `DoIOOperation` | Three processes and several threads share it without a lock. Laps, a cursor shared by all clients, a writer that dies in the middle of a block. |
| **Ring file** (`SharedRingBuffer.h:118-282`) | the inode at the path, its size and header; the mappings | `openSharedRing…`, `initializeSharedRing`, `closeSharedRing`, `refreshRing`, `ensureRing`, `requestRingLatency` | Created by one process and validated by two others at any moment; left half made by a crash, left over by another version, unlinked while mapped. |
| **Clock of a device** (`Driver.cpp:615-662`) | `gRunningClients`, `gAnchorHostTime`, `gTimestampSeed` | `StartIO`, `StopIO`, `GetZeroTimeStamp` | Three atomics that belong together, loaded and stored one at a time. |
| **Configuration** (`Config.h`, `ctl.cpp:295-415`) | `config.plist` | `loadConfig`, `saveConfig`, the `set-*` commands | Read, edit and write without a lock; saving truncates first. |
| **Helper** (`Helper.cpp`) | `CaptureSession`, the configuration of this turn | `main`'s loop, `configureCapture`, `cleanup`, `inputCallback` | A callback on another thread against cleanup; any call may fail; devices come and go. |
| **Device lookup** (`CoreAudioDeviceUtils.h`) | none | `deviceForUID`, `deviceForUIDString`, `hasInputChannelRange`, … | A call that fails reads as "there is no such device". |
| **Driver properties** (`Driver.cpp:69-593`) | `gUseFloatFormat`, `gBufferFrameSize` per player | `HasProperty`, `IsPropertySettable`, `GetPropertyDataSize`, `GetPropertyData`, `SetPropertyData`, `notifyPropertyChanged` | Four tables that must agree; two host threads that store and notify; a format that changes in the middle of an I/O call. |
| **Plug-in object** (`RocksmithBridgeDriverPlugin.inc`, `Driver.cpp:738-745`) | `gRefCount`, the factory's instances | the factory, `QueryInterface`, `AddRef`, `Release` | A count that decides when coreaudiod may unload the code. |
| **Aggregates** (`ctl.cpp:417-483`) | Core Audio's aggregate devices | `repair-aggregate`, `repair-aggregate-all`, `destroy-aggregate` | Destroy and create are separate calls of which each may fail, a look-up that fails passes an aggregate over, and coreaudiod restarts in between. |
| **Reports** (`ctl.cpp:87-293, 485-581`) | none | `status`, `doctor`, `list-inputs`, `get-config` | Two programs' idea of "ready" that must not contradict each other; `status` opens the rings for reading (`ctl.cpp:201`), `doctor` for writing (`ctl.cpp:558`). |
| **Round-trip tool** (`rocksmith_bridge_rtl.cpp`) | `MeasureState` | two callbacks and a main thread | Atomics handed from one callback to the other and on to `main`; a timeout. |

What makes them correct, component by component:

* Audio path: a read is never torn by the writer, plays nothing older than the
  latency and the quantum explain, never replays or reorders, and returns; the
  cursor is never ahead of what is published.
* Ring file: what `valid()` accepts has been initialised, whatever died where;
  mappings are never longer than the file, are released once and never used
  afterwards; a helper that stays up ends up with a valid ring.
* Clock: the count is exact, time stamps are current, monotonic and one
  timeline per seed.
* Configuration and helper: edits add up; the channel range that is saved, which several
  commands set part by part, is one that the source has, as long as no device came, went or
  was missed by a look-up (`SECURITY.md:25` asks that input be validated); the helper
  ends up capturing what is configured; the callback never sees a session that
  is being taken down; nothing is left of a turn that failed.
* Properties: what is advertised can be read, with the advertised size; one I/O call
  is of one format; the host ends up knowing what was set; the plug-in is there while
  it is held.
* Aggregates and reports: an exit code of 0 tells that what the command makes is there, and
  nothing else but what a failing look-up hid from it; where `status` is ready `doctor`
  fails nothing but another user's ring; a repair that was cut short is mended by running it again.
* Round-trip tool: a result is made of the times of one pulse and its echo, the times
  do not move once published, and the tool ends.

## Modules

| Module | Models | State ↔ code |
|---|---|---|
| `SharedRing` | the audio path of one player; every load, store and sample is a step | `pc[c]` is where client `c` is in a driver call; `readFrame`, `head`, `scratch` are the locals of `readMonoFrames`; `block`/`filled` is `writeMonoFrames`' loop |
| `SharedRingHistory` | observers on `SharedRing`: what a client has heard, whether silence was inserted | history variables only; `HNext` is `Next` and restricts nothing |
| `LatestAudio` | the abstract channel: what the bridge promises the one client that listens | `published`, `next`, `out`; no memory, no slots, no threads |
| `SharedRingChannel` | the refinement mapping from `SharedRing` with one client to `LatestAudio` | `Position` is the device's cursor, the call's own, or where the chunk began; `Delivered` is a finished chunk |
| `RingFile` | a ring file's life: helper, `ctl`, driver | `word[i]` holds the header of inode `i` word by word as *good*, *zero* or *stale*; `header`, `live`, `mapOf` are the driver's `gRings[player]` and what is mapped; `ptr` is an address in use |
| `RingSupply` | the abstract supply: what helper, `ctl` and driver promise a reader | which rings are fit, the one that the driver has, who does I/O and reads; no files, sizes, headers or mappings |
| `RingFileSupply` | the refinement mapping from `RingFile` to `RingSupply` | a ring is fit when its file has the size and `valid()` accepts it; the driver has it when `refreshRing` has returned |
| `DriverClock` | one device's clock | names of the code; `asked`, `anchor`, `current` are locals; `timelines` records the stamps given |
| `DeviceTimeline` | the abstract clock: what a device promises its host | the clients that run, the number and frame 0 of their timeline, the last stamp of each; a start and a stamp are one step |
| `DriverTimeline` | the refinement mapping from `DriverClock` to `DeviceTimeline` | a client runs from the end of its `StartIO` to the exchange in its `StopIO` |
| `BridgeConfig` | `config.plist` and the commands that edit it | `draft[c]` is a command's copy; `Torn` is the file after the open and before the write |
| `Bridge` (extends `BridgeConfig`) | the helper's loop, session and callback | `hpc` is where `main` is; `open`, `buffers`, `unit`, `renderError` are the session |
| `CaptureSession` | the abstract capture: what the helper promises of a session | the session that goes on, with its configuration, device, rings and buffers; may a callback begin, does one run |
| `BridgeSession` | the refinement mapping from `Bridge` to `CaptureSession` | the capture is there from `AudioOutputUnitStart` to the end of `AudioOutputUnitStop` |
| `DriverTables` | the tables behind the driver's properties, as operators over objects, selectors and scopes | one operator per function of the code; sizes in bytes |
| `DriverProperties` (extends `DriverTables`) | `SetPropertyData` on several host threads, the notifications, `DoIOOperation`'s choice of format, the plug-in's references | `call[t]` is a thread between store and notification; `known` is what the host has read; `converted` the formats of the chunks of a call |
| `BridgeSetup` | the aggregate commands, and around them install, coreaudiod, the helper's rings and the two reports | `command`, `step`, `player` are where the command is, `stale` that its looked-up id is of an earlier coreaudiod, `missed` what its look-ups failed to find; `foreign` are the rings that another user's helper made |
| `RtlMeasure` | `rocksmith_bridge_rtl`: output callback, input callback, `main` | names of `MeasureState`; `opc`, `ipc`, `mpc` are where the three are; `delay`, `lead`, `captured` are the cable and the device clock |
| `…Proofs` | the theorems about the module of that name | |
| `MC…` | the instances for TLC | |

Abstractions worth knowing:

* A sample is the number of the frame it belongs to, so that a wrong sample is
  visible. Peaks, gains, formats and 16-bit conversion are left out.
* The store of `writeFrame` and the count of the heartbeat next to it
  (`SharedRingBuffer.h:307-308`) are one step: nobody relates the two. The heartbeat
  is kept as "was ever counted", which is all that `status` asks of it.
* Memory is sequentially consistent. The code publishes with release and loads with
  acquire; the samples themselves are plain, which is why `NoSlotRace` is checked in
  addition to `NoTornRead`.
* In `SharedRing` the ring is valid; in `RingFile` samples are one word. Each
  hides what the other shows.
* `RingFile` looks at one ring and `HelperAttaches` stands for the session's
  open; `Bridge` has both players' rings and reduces opening to success or failure.
* Symbolic links, file modes and hard links are checked before anything is
  shared and are not modelled, except that a ring of another user can be read and not
  written (mode 0644; `foreign` in `BridgeSetup`).
* In `Bridge` a load of a torn file fails, and the device that comes back after it
  was unplugged is another one (`alive` stays false), as with Core Audio's ids.
* A call of Core Audio that fails in a look-up reads as "there is none": in `Bridge` the
  helper then finds no source or takes its device for dead, in `BridgeConfig` and
  `BridgeSetup` `set-active-players` checks nothing (`ctl.cpp:402`), and in `BridgeSetup` an
  aggregate is passed over and a virtual source is not visible. In `BridgeConfig` such a
  look-up counts as one of the `MaxPlugs` changes of what Core Audio shows.
* Of the configuration's three frame counts `BridgeConfig` keeps the bridge
  latency; `set-virtual-buffer` edits only the others.
* `BridgeSetup` has the configuration's `activePlayerCount` alone, and the source's
  first channel is 1. A report is one look in which no call fails: `doctor` and
  `status` run at the same moment, so what `ReadyIsHealthy` compares is what they ask, not
  when. Both are run by the user whose helper it is; another user's helper may have made a
  ring before his did, and goes on writing to it.
* `DriverTables` keeps of a written value its size, and the value itself only where
  two properties have to tell the same (lists, streams, identifiers, stream
  configuration). A selector is a string named like its constant.
* `RtlMeasure` counts time in frames (`ticksPerFrame` = 1) and reduces a sample to its
  sign: the score is a normalised correlation, so that the amplitude cancels; it is
  computed exactly, in integers. There is no noise: what is heard is the pulse after the
  cable's delay, or nothing. `detectedPeak`, `observedPeak` and the callback counts are
  only printed. What a callback hears has been played by an earlier one (`Captured`).

## Assumptions that the properties need

* **Pace** (`KeepsPace`, `PaceAssumption` in `SharedRing`). No protocol keeps a
  reader from being suspended until the writer has lapped it; the code relies on
  the ring being long. The model says how long: while one chunk is placed and
  copied at most `MaxLag` frames are captured, and the largest latency, a chunk and
  `MaxLag` fit in the ring. In the code: 2048 (latency) and 4096 (chunk) of 192000,
  so that `MaxLag` may be up to 185856 frames, almost four seconds at 48 kHz (and has
  to be at least one block, `kMaxCaptureFrames` = 16384). Without the
  assumption, and one frame over that, `NoSlotRace` fails.
* **Serialised host calls** (`HostSerializes` in `SharedRing`, `RingFile` and `DriverClock`):
  coreaudiod does not run `StartIO` of a device beside its `AddDeviceClient` or
  another `StartIO`. It is `TRUE` in every run; the theorems that need it say so, and those
  about `SharedRing` do not. Nothing in the code enforces it. With the constant set to
  `FALSE`, TLC finds a read through a mapping that was released
  (`NoUseAfterUnmap`, and `RingStableInIO` with it: `openSharedRingAtPath` stores a mapping in the driver's ring
  before it has validated it, `SharedRingBuffer.h:253`), and in `DriverClock`
  `StampsAreCurrent` fails: the second client sees a running device whose anchor
  has not been stored yet. The repository claims neither, so they are assumptions
  and not findings.
* **Helper instances.** launchd keeps one helper.
* **One client** for the channel (`OneListener`): with two the channel is not
  implemented, see finding 1.
* **One command at a time** for `EditsAccumulate` (`OneAtATime` in `BridgeProofs`).
* `RingFile`'s set of clients is finite (`ParametersAssumption`), and the values for no file and a torn
  file are no configurations (`NoConfigAssumption` in `BridgeConfig`).
* **The buffer limit** 2048 fits in `DoIOOperation`'s scratch of 4096 frames
  (`FramesAssumption`), and coreaudiod asks for no more frames than the buffer size it
  read. `OneFormatPerCall` rests on it: the format is loaded per chunk.
* Callers of the plug-in release only what they hold.
* `AudioOutputUnitStop` returns after the last callback has (external).

Fairness. `SharedRing`: a driver call, once made, goes on (coreaudiod's real-time
thread); the helper and the host owe nothing. `RingFile`: the helper's steps and
its restart (`KeepAlive` in the launch agent), and the driver's calls. `Bridge`: the
helper's loop, the return of a callback, the end of a command that does not die.
`BridgeSetup`: coreaudiod loads an installed driver, the helper and a command go on, and
the user runs the command that the tool advises until it succeeds. `RtlMeasure`: the
main thread goes on and a callback that was called returns; Core Audio need not call at
all. No strong fairness is used, and no fairness at all of failures, deaths, commands or
devices; the liveness properties are conditional on these coming to rest
(`<>[]…`), or bounded by constants that run out.

## Runs

| Run | Shows | Bounds and why they suffice |
|---|---|---|
| `SharedRing_one` | no torn read, no race for a slot, bounded staleness, cursor behind head; frames are heard in order and once; a call is wait-free and returns; the channel `LatestAudio` is implemented | a ring of 7 that 14 frames wrap twice; blocks of 1 or 2, requests of 1 or 3 frames, i.e. two chunks of at most 2; latencies 1 and 2; `2 + 2 + 3 = 7` is exactly what the pace allows |
| `SharedRingHistory_two`, `_CompleteWindow`, `_UnderrunsVisible` | violations, see *Findings* | two clients whose `StartIO` and `StopIO` do not overlap; one client with requests of at most one chunk of 2; one client |
| `RingFile_safe` | validity means initialised; mappings fit, are released and are one at a time; a ring is not exchanged during I/O; the supply `RingSupply` is implemented | 2 inodes: the file may be replaced once; 2 clients, one joining while the other does I/O; 1 terminal; 2 mappings, one given back and one new |
| `RingFile_live` | a helper that stays up ends with a valid ring at the path, from everything it may find; once the path names a valid ring for good, the driver stops opening it | 2 inodes, 1 client, 1 mapping (given back and made again); no terminal: `ctl` stores nothing but the latency |
| `DriverClock` | count, stamps, timelines; the clock `DeviceTimeline` is implemented | 2 clients, 2 timelines after the first, a period of 4 ticks in 10: two boundaries are passed |
| `Bridge_helper` | the callback has its session, nothing leaks, edits add up, the saved range fits; the session `CaptureSession` is implemented; the helper ends up capturing with what is in the file, and the rings end up with the file's latency | 1 terminal, 2 commands (there and back again), 2 devices (2 channels and 1), 2 plug events or failing look-ups of a command, 1 fault of the helper, 1 aborted command |
| `Bridge_LoadsSavedConfig` | violation | |
| `DriverProperties` | one format per call, the host is up to date, the plug-in is kept, and the four tables agree (over all objects, selectors and scopes) | 2 threads, so that stores and notifications cross; sizes below, in and above the limits; 3 references, so that a release is neither first nor last; one player, because nothing is shared between players |
| `BridgeSetup` | an exit code of 0 tells which aggregates there are, but for those that a failing look-up hid; where `status` is ready, `doctor` is healthy exactly if no active ring is another user's; who follows the advice gets ready | 2 unadvised commands, 1 fault, 3 changes: a repair that is cut short, a look-up that misses an aggregate, which then is in the way of the creation or left behind, a restart between look-up and destroy, a source that comes and goes, a ring made by another user |
| `RtlMeasure` | the report is the cable's delay give or take a pulse; the published times are final; the input buffer outlives its callbacks; the tool ends | a pulse of 4 frames, callbacks of 2, 3, 5 and one too long: the pulse falls into one callback, across two output and three input callbacks; delays 0, 5 and no cable; a lead of 0 or 1; 13 frames, so that a second recognition could come; a timeout of 2 turns that races with the detection |

Deadlock is checked, and absent, except in `DriverClock` (time and starts are bounded),
`BridgeSetup` (commands and changes are bounded) and `RtlMeasure` (the program ends).
`MaxFrames`, `MaxTime`, `MaxStarts`, `MaxMaps`, `MaxCommands`, `MaxPlugs`, `MaxFaults`,
`MaxAborts`, `MaxChanges`, `MaxReferences` and `MaxInstances` are the bounds of guards. That
the safety of the audio path holds with two clients as well is `SharedRingProofs`, for any
number of them. The type invariants (`TypeOK`) are in no run's list: they are proved, for
every value of the constants.

## Findings

Each is a violation run, quoted in full in `PROJECT.json`.

1. `SharedRingHistory_two`: clients of one device do take frames from each other;
   `gReadFrame[player]` is one cursor for all (`README.md:171` says otherwise). In the run,
   in which starts and stops do not overlap, the first client has heard a frame and is
   between two calls when a `DoIOOperation` of the second reads the next one and stores the
   cursor behind it: the first will not be given that frame.
2. `SharedRingHistory_CompleteWindow`: with a request larger than the latency the
   driver pads with silence although a complete window is there (`README.md:171`): the
   request, of 2 frames, is one chunk, the ring holds 2 frames, and the latency of 1 leaves
   the cursor one behind the head; `readLatestMonoFrames`, which would take the larger distance, has no caller.
3. `SharedRingHistory_UnderrunsVisible`: `status` never shows an underrun, the driver
   maps the ring read only.
4. `Bridge_LoadsSavedConfig`: a load in the middle of a save yields the defaults,
   though the defaults are for "when no config exists" (`README.md:3`).

Seen, and not a disagreement with anything the repository says:

* Two commands at once lose one's edit (`EditsAccumulate` fails with two terminals); a
  command that dies after saving and before it has reached the rings, or two at once, can
  leave a latency in a ring that no poll puts right, when the file goes back to what the
  helper had loaded (`RingsFollowConfig` excludes aborted commands, and fails with two
  terminals).
* A client that starts when the helper is gone is played the frames, at most one latency
  of them, that the last one left in the ring (`Driver.cpp:623`).
* `set-active-players` accepts a count that the configured source does not have while the
  source is unplugged, or when a look-up fails (`ctl.cpp:402`). The helper then does not
  capture, and neither report says ready. `SavedRangeFits` is what holds otherwise.
* `destroy-aggregate`, and a repair of the first player alone, exit with 0 and leave an
  aggregate when the look-up of it fails: `deviceForUID` makes "there is none" of a failed
  call (`CoreAudioDeviceUtils.h:80`, `ctl.cpp:418`). When the repair makes that aggregate
  itself, the creation fails instead, and the next repair mends it.
* `status` says ready, and `doctor` fails, for a ring that another user's helper made and
  writes to (mode 0644 in `/tmp`): the one opens it for reading, the other for writing, as
  this user's helper would have to.
* The round-trip tool is not exact to the frame. A window is recognised when its score
  reaches the threshold, and with the default of 0.25 a small piece of the echo may be
  enough (with 512 frames of pulse the score reaches it after 32 samples of the echo), so
  that the window starts before the echo does; and a start in an earlier callback is moved
  to the start of this one (`rtl.cpp:198`). `ReportNearsTheDelay` gives what does hold: less
  than one pulse, 512 frames, to either side. Of the error it excludes one case: a callback
  that fails, and loses its frames, after `main` has looked for errors.
* Setting either selector of a stream's format changes the value of both and notifies of
  the one that was set (`Driver.cpp:589`); `HostIsUpToDate` is therefore about the selector that set
  the format last.
* `gRefCount` starts at 1 (`Driver.cpp:29`), so that with balanced calls the factory's instance
  is never removed.

## Proofs

Every invariant, action property and refinement that a passing run checks is proved for all
values of the constants that satisfy the modules' assumptions, and so is every module's type
invariant. What stays with TLC is liveness, see the end of this section.

| Module | Theorems (`Spec => []…`, or `Spec =>` an action property or a specification) | Strengthening |
|---|---|---|
| `SharedRingProofs` | `TypeOK`, `NoTornRead`, `NoSlotRace`, `BoundedStaleness`, `CursorBehindHead`, `CallsAreWaitFree` | below |
| `SharedRingChannelProofs` | `ImplementsChannel`, `NeverReplays` | below |
| `RingFileProofs` | `TypeOK`, `ValidIsInitialised`, `MappingsFit`; under `HostSerializes` `NoUseAfterUnmap`, `OneMapping`, `RingStableInIO`, `ImplementsSupply`; `RepairEnds` | who stores into a header, in which order, and that a valid file is not touched again (`ValidIsStable`); who holds the driver's ring and which step of `refreshRing` it is at (`RefreshInv`); what the helper has already repaired (`RepairInv`) |
| `DriverClockProofs` | `TypeOK`, `RunningCountExact`; under `HostSerializes` `OneTimelinePerSeed`, `StampsAreCurrent`, `StampsNeverGoBack`, `ImplementsTimeline` | the count is the clients between start and stop; anchor and seed are stored before anybody can ask; a stamp's locals are of the running timeline (`RefInv`), and a timeline begins after all that was asked before (`BeginsLater`) |
| `BridgeProofs` | `TypeOK`, `CallbackHasItsSession`, `NothingLeaks`, `ImplementsSession`, `SavedRangeFits`; under `OneAtATime` `EditsAccumulate` | at which points of the loop a unit, buffers and rings may exist, and that no callback outlives the unit's stop; that rings and source are those of the turn's configuration (`TurnInv`); a command's draft is the last saved configuration with its own edit, and fits before it is saved (`RangeInv`) |
| `BridgeSetupProofs` | `TypeOK`, `ExitTellsAggregates`, `ReadyIsHealthy`, `NothingInTheWay`, `CommandEnds` | at each step of a command, which aggregates it has already destroyed, missed and made |
| `DriverPropertiesProofs` | `TypeOK`, `OneFormatPerCall`, `HostIsUpToDate`, `KeptWhileHeld`, `SizesAgree`, `ObjectTreeAgrees` | a call has one chunk; an address whose value the host does not know is notified or about to be, and is one that may be set; the count is one more than what is held; for the tables a case for each object and selector |
| `RtlMeasureProofs` | `TypeOK`, `ReportNearsTheDelay`, `InputHasItsBuffer`, `DetectionIsFinal`, `MainRunsOut` | below |

`SharedRingProofs` proves, for every set of clients, capacity, latency, chunk and block
size that satisfies `SizesAssumption` and `PaceAssumption`, and for any
`MaxFrames`, its six theorems.

None of the four safety invariants is inductive. The inductive invariant `IInv` adds to the
types:

* `SlotsHold` – a slot holds silence or a frame of that slot, and none beyond the
  longest block that may be under way.
* `PublishedIsKept` – the slot of a frame that was written holds that frame or a later
  one. With `SlotsHold`, a wrong sample can only be one of a later lap, at least
  `Capacity` ahead of the wanted one.
* `Paced` – while a client places or copies a chunk, `writeFrame` with its block, and
  so every sample in the ring, is less than `MaxLag` frames ahead of the head that the
  client loaded.
* `ReadersOrdered` – a call's cursor and head do not pass `writeFrame`, the copy does
  not pass the head, and it holds no more frames than lie before the cursor.
* `BoundedStaleness` and `NoTornRead` themselves: how far back a chunk starts bounds
  how far the wanted frame is from the head, and what has been copied stays right.

`NoTornRead` alone speaks only of what was copied. That the *next* copy is right
(lemma `SlotOfWantedFrame`) is the argument of the whole: the wanted frame `f` is at most
`MaxTarget + MaxChunk` behind the head, what its slot holds is less than `MaxLag` ahead of
it, so the two differ by less than `Capacity`; they share a slot, so they are equal.

The modular arithmetic (two frames of one lap are in different slots) is in lemmas of
its own; each action has a step, and below it one for each part it can disturb.

**The channel.** `RingImplementsChannel` says that `SharedRing` with one client implements
`LatestAudio`, for every capacity, latency and size. Under the mapping of
`SharedRingChannel` each step of the ring is a step of the channel or a stutter: a
published block is *Publish*; placing the cursor is *CatchUp*; the end of a chunk is
*Deliver*; the begin of the next chunk or the store of the cursor is *Take*; the start and
stop of I/O are *Listen* and *Leave*; single samples, latency
changes and a helper that dies are stutters. The proof uses `SharedRingProofs`' invariant
(a delivered chunk is what `NoTornRead` says was copied, not older than
`BoundedStaleness` says) and an invariant of its own: with one client, nobody moves the
device's cursor while a call is under way, and a chunk that ends early ends at the head
that was loaded, at most `MaxLag` frames ago. The same fact gives `NeverReplays`
on `HSpec`, which is false with two clients.

**The round-trip tool.** `PulseTime` is `lead + WarmupFrames`, when the pulse starts to play,
and `EchoTime` is that plus the delay, when it starts to be heard.

* Upper bound: the window that ends with the echo's last frame *is* the pattern, so its
  score is 1; the first recognition cannot come later. For this the history has to be
  exactly the last frames captured since the pulse was sent (`ListenInv`), and no frame
  may have been lost, which is where `~error` comes from.
* Lower bound: a window with a positive score contains a sample of the echo, so the
  callback that finds it has heard the pulse, so an output callback that played it has
  returned (`HeardInv`), so the pulse's time was stored before (`PulseInv`).
* `TimesInv` carries both through the stores and `main`'s loads.

The rest of `IInv` is `UnitsInv` (which units run at which step of `main`). TLC checks that
`IInv` is an invariant of the instance, too.

**The other three refinements.** None is a step-by-step translation of its module: each
abstract specification is a state machine of its own, without the program counters, and the
proof has to find for each step of the code the one step of it that takes effect.

* `RingsAreSupplied`: a step of the helper, of `ctl` or an unlink *publishes* one more fit
  ring or does not show, and makes none unfit; of `refreshRing` only the return with a
  validated mapping *takes* the ring. That a reader is never given
  another ring rests on `RefreshInv`, that the ring it reads is not cleared under it on
  `ValidIsStable`: no helper initialises a file that was once valid.
* `DriverKeepsTimeline`: a timeline *begins* with the store of the seed, the last of the
  first client's `StartIO`, and what it stores before does not show; a stamp is *given* when `GetZeroTimeStamp` returns,
  of the time that it was asked at. `BeginsLater` says that whoever had been given a stamp
  was so before the clock was read for the new anchor; that `asked` lies in the named period
  is the lemma about the division in `GetZeroTimeStamp`.
* `HelperKeepsItsSession`: a session *begins* with `AudioOutputUnitStart` and *ends* when
  `AudioOutputUnitStop` has returned; a device that goes away *halts* it. `TurnInv` carries
  from `resolveSource` to the start that the device has the channels which the turn's
  configuration asks for, though by then the file may hold another one, and that the rings
  that were opened are those of its players.

**What is proved towards the liveness properties.** Liveness under fairness is beyond the
prover, but not the measures that make it hold. `CallsDoNotWait`: each step of a driver call
lowers `StepsLeft`, and neither the helper nor another client can raise it, so that
`ReadReturns` needs nothing but a thread that goes on; a call waits for nobody. `HelperRepairs`:
each step of the helper's loop lowers `StepsToRing`, at most 16, whatever file it finds and
whatever `ctl` and the driver do, except where the file was unlinked (`RingComesUp`).
`MainEnds`: each step of `main` lowers `StepsToExit`, at most `Timeout + 13`, and no callback
changes it (`MeasureEnds`). `CommandsEnd`: an aggregate command ends after at most eight looks
at Core Audio, and by `RepairsAreNotBlocked` a repair that is run again never fails for what
an earlier one left behind, unless a look-up of its own misses it (`SetupGetsReady`).

Only model-checked: liveness itself (`ReadReturns`, `RefreshSettles`, `RingComesUp`,
`HelperFollowsConfig`, `RingsFollowConfig`, `MeasureEnds`, `SetupGetsReady`), as fairness and
`ENABLED` are beyond the prover. No module here has a recursive operator.

## Not modelled

* The driver's mapping of a file that has been unlinked and made anew: unlinking is a step
  of `RingFile`, but nothing in the repository says what the driver owes then.
* Two helpers at once; launchd keeps one.
* Weak memory. Publication is by release and acquire throughout; the plain samples are what
  `NoSlotRace` is for.
* `readLatestMonoFrames`: no program calls it (finding 2).
* `list-inputs`, `get-config`, the prompts of `choose-source` and the lines of `status` and
  `doctor` after the verdict: they read and print. The freshness of `heartbeat` is promised
  nowhere.
* Reports in which a call fails: `status` then says not ready, and `doctor` fails or warns.
* Parsing of arguments and of the property list's text, symbolic links, file modes, device
  enumeration, peaks and sample conversion: pure functions or I/O without shared state.
* Scripts, packaging, build files and the unit tests; Core Audio itself, floating-point
  rounding, noise on the cable, logging.
