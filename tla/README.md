# hfsdr: models, checks and proofs

hfsdr is a software-defined-radio program in Rust: an egui front end, an engine
thread that owns the receiver, the demodulator and the audio output, and the
threads of the receivers, of the IQ bridge and of the IQ files around it. This
directory holds TLA+ models of its concurrent core and of the parts that carry
state from one call to the next, TLC configurations that check them on small
instances, and TLAPS proofs for every value of the constants. Paths below are
relative to the repository; `engine/`, `source/`, `audio/`, `app/` mean
`src/bin/waterfall/engine/` and so on, `kiwi/` and `dsp/` mean `src/kiwi/` and
`src/dsp/`.

    tlc -workers 2 -config MCEngineConnection.cfg MCEngineConnection
    tlapm EngineConnection_proofs.tla

## 1. Inventory

| Component | State | Operations | Hard behaviour |
|---|---|---|---|
| Latest-value cell, `sync/latest.rs` | three slots, one atomic index with a fresh flag | `slot`, `publish`; `fetch`, `slot` | two threads without a lock, `unsafe`, relaxed and acquire-release orderings |
| Engine lifecycle, `engine/inner/{worker,commands,connection,reconnect}.rs` | `conn`, `request`, `state`, `last_error`, `reconnect_attempt`, `retry_at`, `first_iq_received`, `playback`, `recorder`, `running` | 10 kinds of commands, handshake and stall checks, retry | commands drained *inside* `start_connect`; a blocking `connect()`; the cancel flag raised by another thread; retries and timeouts |
| Engine handle and link, `engine/{handle,link}.rs` | command channel, row queue, snapshot and parameter cells, cancel flag | `send`, `abort_connect`, `try_poll`, `shutdown_now` | the UI never waits; the engine is detached at the end; rows dropped when the UI is behind |
| Policy, `engine/policy.rs` | none | timeouts, backoff, catch-up, pacing | boundaries |
| IQ pump, `engine/inner/{pump,spectrum}.rs` | `drain`, `drain_decim`, the device's rings, rate windows | drain, catch up, record, demodulate, choose the spectrum's slice, publish rows | full rings; the order of pop and `finished()`; jumps in the stream |
| Recorder and playback, `iq_record.rs` | bounded channel, writer thread, file; ring, playback thread, `done` | `start`, `push`, `stop`; `open`, `pop`, `finished`, drop | blocking sends and joins, disk errors, crash between data and header |
| Sources, `source/connection.rs`, `source/device.rs` | a device of five kinds | `connect`, `tune`, `stop`, `link_error`, `link_alive` | blocking I/O with a cancel flag |
| Live controls, `app/methods/{radio,connection}`, `source/controls_dispatch.rs` | the form, what was last sent, the request, the device's settings | edit, apply, connect, reconnect, set | one setting kept in four places; commands that meet no device or another one |
| IQ bridge, `source/iq_bridge.rs` | two rings, a thread | copy and decimate | one ring full and not the other |
| Spectrum analyzer, `dsp/spectrum.rs` | circular buffer, hop, row cap | feed, emit, reset | wrap-around, overwriting the oldest, seams in a window |
| Waterfall, `app/methods/{engine,plot}` | history of rows, appended lines, ring texture | take rows, trim, paint | two producers of order, changes of width, a frame that is late |
| Kiwi client, `kiwi/` | session phase, first error, reader thread or callbacks | text and binary messages, settings, stop | settings before set-up, order of rejections, stop and join, freed closures |
| Local receivers, `airspyhf/`, `rtlsdr/`, `soapy/`, `qmx/` | stream context, threads, ring, serial port | open, start, callback, stop, drop; poll | library threads with a raw pointer, late answers, losses |
| Audio output, `audio/` | resampler, ring, skip budget; worklet and port | `push`, `skip_seconds`, callback | a callback beside `push`; messages under way |
| CW chain, `dsp/cw/`, `dsp/agc.rs` | delay lines, rings, counters | `process`, settings between blocks | the past kept across blocks, resized, rebuilt |
| Ingress worker, `dsp/preprocess/worker.rs` | two one-slot channels, a thread | `start`, `finish`, `try_take`, drop | reached by tests and benches only (section 8) |
| Peaks, band plans, skimmer, filter design | none between calls | functions of a row or a rate | numeric |
| Panels, directory, history, settings | UI state, files | drawing, parsing | none shared with other threads but the handle |

How they interact: the UI sends commands through an unbounded channel, raises
one atomic flag, and reads snapshots (latest-value cell) and rows (bounded
queue). The engine handles commands in its loop and within `start_connect`,
pumps samples from a ring (two for a wideband receiver, filled by the bridge)
into the demodulator, the spectrum and the recorder's channel, pushes audio to
the output's ring, and watches the receiver through `link_error` and
`link_alive`. Behind the ring stands a receiver: a thread with a WebSocket, a
callback of a USB library, a thread that reads, or an audio input.

What makes each correct: the cell hands over whole values, never older ones,
and the last one arrives; the lifecycle has one source, wanted by the user,
pursued until it is withdrawn, and tells the truth about its state; a setting
the user sees is the one in force; the pump, the bridge and the file threads
lose nothing silently, end when told, and leave a file that can be trusted; a
row is made of neighbouring samples and reaches the screen in order; no thread
or callback outlives what it points to; what a stage of the demodulator
remembers of one block is what the next block needs.

`PROJECT.json` lists every component with its status, and the hazards at their
lines with the properties that cover them.

## 2. Modules

| Module | Models | Kind |
|---|---|---|
| `LatestValue` | a register: the newest value published, and the one shown | abstract specification |
| `LatestCell` | `sync/latest.rs`, one step per atomic operation and per word | detailed specification |
| `EngineLifecycle` | what the engine promises of a connection: wanted, open, tried, planned, shown | abstract specification |
| `EngineConnection` | the lifecycle of the engine thread with the UI's commands and the link's failures | detailed specification |
| `EngineClaims` | claims of comments and tests that the lifecycle does not keep | claims |
| `IqPump` | device ring, pump, recorder with its writer thread, playback with its thread | detailed specification |
| `KiwiLink` | session, reader thread and browser callbacks of a KiwiSDR, against the receiver | detailed specification |
| `SlidingWindow` | the analyzer's promise: rows from a queue of samples | abstract specification |
| `SpectrumPath` | bridge, decimated ring, the spectrum's slice, the analyzer's circular buffer | detailed specification |
| `WaterfallView` | row queue, snapshot, the UI's frame, the picture | detailed specification |
| `LocalReceivers` | the streams of four kinds of local receivers | detailed specification |
| `AudioOut` | resampler, skip budget, callback; worklet | detailed specification |
| `CwChain` | the streaming state of the CW demodulator | detailed specification |
| `LiveControls` | a control from the panel to the hardware | detailed specification |
| `*_proofs` | theorems about `LatestCell`, `WaterfallView` and `LocalReceivers` (together in `Handover_proofs`), `AudioOut`, `CwChain`, `EngineConnection`, `IqPump` (the threads, and what a recording holds), `KiwiLink`, `SpectrumPath`, `LiveControls` | proofs |
| `MC*` | small instances; a `.cfg` with a suffix states a claim of section 6 | model checking |

Definitions named `X_Slip` (`Publish_Early`, `StopReturn_NotJoined`, ...) are
plausible slips of the definition that follows. No specification uses them;
each property is shown to fail when one of them takes the place of the
original.

### LatestCell

The Rust values are `slots` (each a function from words to a generation
number), `published` (index and fresh flag) and the two private indices `own`.
`StartFill`, `WriteWord` and `Publish` are the writer, `FetchLoad`,
`FetchMiss`, `FetchSwap`, `StartRead` and `ReadWord` the reader; the reader's
relaxed load and its swap are two steps, as in the code. The memory model is
there as *happens-before* sets: `known[t]` is what thread t's accesses are
ordered after, `carried` is what the atomic variable passes on. `Acquire` and
`Release` are the two halves of a swap; replacing the acquire by a relaxed swap
is the mutant that breaks `NoDataRace`. `RefinesRegister` maps the cell to
`LatestValue`: the register's publication and fetch are the two swaps.

### EngineConnection

`pc` says where the engine thread is in `step`; `frames` is the stack of
`start_connect` calls, each with the request it was called with, because
`drain_commands` inside `start_connect` may handle a `Connect` and enter it
again; `base` is where the outermost call returns to. One action per command
(`CmdConnect` ... `CmdShutdown`), one per stage of `start_connect`
(`ConnectBegun`, `ConnectDrained`, `ConnectOk`, `ConnectErr`), and one per call of `step`
(`PollHandshake`, `PumpData`/`PumpNothing`, `CheckStall`, `MaybeRetry`,
`AwaitNothing`). Time is the age of the last sample in four steps, divided at
the three timeouts (12 s, 20 s, 45 s), and a retry that is *later* or *now*;
its delay in seconds is kept, since a property is about it. The link can report
an error ("busy" or another), die silently, or stop delivering. The UI thread
(`Ui...`) is one user: it may cancel in two steps (`abort_connect`, then
`Disconnect`), tune, record, play and quit; `intent` is what it asked for
last. Commands that only change a control of the device are `CmdControl`.

`connect()` is one blocking step with three outcomes. A `connect()` that sees
the cancel flag returns an error, which is `ConnectErr` with the flag up.

`RefinesLifecycle` maps it to `EngineLifecycle`, which has no thread, channel,
flag or stack: `wanted` and `device` are the request and the open receiver as
sets of at most one, `trying` is what the calls of `start_connect` on the stack
are opening, `again` is that a retry is due, now or later, `shown` is the
state's kind, and `cancelling` is a cancel or quit that is queued or about to
be. What the promise of the abstract specification says (`Served`, `Pursued`,
`Truthful`) then holds of the engine.

### IqPump

Samples are numbers: the n-th of the device, or the n-th of the file. The
device (or the bridge in front of it) fills `ring` and counts what finds it
full in `overflow`. The engine's `pump_stream` is `PumpStart` (the catch-up of
an over-filled ring), `PumpPop`, `PumpDrained`, `PumpCheck` (where `finished()`
is asked) and `PushChunk` or `PushPanics`. The playback thread and the writer
thread have an action per step that another thread can see. Commands tear down
in the order of `teardown`: device, playback (`DropPlay` raises `done`,
`JoinPlay` waits), recorder (`SendFinish` may block, `JoinRecorder` waits), and
then `Settle`. `WriterFails` is a disk error at any write, with a partly
written chunk, and with the gzip stream closed or not by the encoder's drop.
`taken` and `saved` are history: what was drained while recording, and that
"IQ capture saved" was logged. `TearDown` stands for every command and error
path that calls `teardown` (`EngineConnection` has each of them).

### KiwiLink

`link` is `KiwiSource::link`, `ses` the `KiwiSession` both builds share (set-up
done, attenuator applied, commands held until then), `freq` and `attn` the
source's own settings. A text message is what it says: rejections in order,
whether it announces the rate, whether it reports an attenuator. `OnText` is
`on_text`, `Replies` the lines it answers with, in order.

On the desktop `chan` is the command channel and `rpc` the reader thread:
`ReaderTop` looks at the stop flag, `ReaderTake` and `ReaderDrained` empty the
channel, `ReaderText`, `ReaderSnd`, `ReaderClosed`, `ReaderLost` and
`ReaderIdle` are the outcomes of a read with its time limit, `ReaderReply`
sends and ends the thread of a session that was refused. The engine stops in
two steps, `StopNative` and `JoinReader`. In the browser `chan` is `preopen`,
the four handlers are steps, and a socket whose source was dropped stays as
`stale` with the handlers still attached to it; an event that finds one calls a
freed closure (`crashed`). The receiver (`KiwiTakes`, `KiwiSays`,
`KiwiCloses`, `WireBreaks`) is external: it ignores what it is told before IQ
mode is set up, as the comment at `session.rs:104` says.

### SlidingWindow and SpectrumPath

A sample is its number at the device, `raw` or `dec`(imated); so a row shows
which samples were next to each other. `Deliver` is a driver of a narrow
source, `BridgeTake` and `BridgePush` the bridge thread of a wideband one: a
chunk, then its raw samples, then its decimated ones, each lost if its ring is
full. `PumpStart` (catch-up), `PumpDrain`, `PumpDecim` and `PumpSlice` are
`pump_stream` as far as the spectrum goes; `full` is the parameter that chooses
between the whole batch and the part the listener hears. `AnalyzerPush` and
`AnalyzerEmit` are `process_limited` on the circular buffer `data`, `head`,
`count`. `RefinesWindow` maps the buffer to the queue of `SlidingWindow`.

### WaterfallView

A row is its number and its width. `PumpRows`, `PushRow` and `Publish` are
`publish_rows`: rows into the bounded queue, then the snapshot. A frame of the
UI is `UiFetch` (the snapshot), `UiPop` (the rows), `UiIngest` (history, cap,
a change of width), and one of the paints: `PaintDue` appends what pacing
allows, `PaintAll` repaints, and the shader's upload happens at the intake
(`Upload`). `line` is the ring texture with its next line `top`; `gpu` says
which of the two painters is in use.

### LocalReceivers

The owner (`opc`) opens, starts, stops and drops. Each driver gets its samples
in its own way: `CbBegin`/`CbEnd` are a callback that reads the room of the
ring and then writes; `RtlBegin` and `LoopEnds` are the thread that sits in
`rtlsdr_read_async`; `Soapy...` is the thread that reads, with the driver's own
buffer in front of it (external); `Poll...` is the QMX thread that asks for the
transmit state and parses an answer that may come late. `StopCall` and
`StopReturn` are the two halves of `stop`: cancelling, and returning once
what must be joined is joined. `res` is the memory the callback has a raw
pointer to. Every sample received is counted in exactly one place.

### AudioOut

An output sample is the place in the source it was interpolated at, in parts
(`Unit`) of a source sample. `PushBegin`, `PushSample` and `PushEnd` are
`push`: the step of the servo, one output sample, the place carried to the
next block. `SkipSeconds` is what the engine does when a catch-up dropped
`gap` samples. On the desktop the callback takes the skip budget (`CbSwap`),
drains (`CbDrain`), gives back what it could not skip (`CbGiveBack`) and plays
(`CbPlay`), each beside `push`. In a browser the worklet gets messages
(`WorkletMessage`), plays (`WorkletProcess`) and reports its depth; the node
becomes ready and the context runs when the browser pleases; `DropWeb` frees
the closure.

### CwChain

A sample is its number, a filter's output is the list of samples under its
taps. `Process` is one call of `CwDemodulator::process`: decimator with its
counter, channel filter one by one (`OneByOne`) or by overlap-save blocks
(`ByBlock`, with the history taken from and put back into the delay line),
levels and signal of the lookahead gain control, and the detector's rings.
`Change` is the user's settings between two blocks. What is rebuilt, resized
or reset is decided as in the code (`Rebuilt`, `Redesign`, `Resized`).

### LiveControls

A control has two values, and several independent ones of a receiver are
represented by one. `form` is what the user sees, `last` what was last sent,
`request` what an automatic reconnect opens, `conn` the device. A frame is
`UiPoll` (the snapshot) and `UiApply` (the differences become commands);
`UiEdit`, `UiConnect`, `UiQuickConnect` and `UiCancel` are the user.
`Handle` handles a command in the loop or inside `start_connect`; `Open`,
`FirstIq`, `AttnKnown`, `LinkLost` and `Retry` are the engine's life as far as
it decides which command meets which device. `excused` are controls whose command
met no device although the last snapshot said Streaming.

## 3. Runs

| Run | Instance | Distinct states | Shows |
|---|---|---|---|
| `latest_cell` | 2 words, 5 publications | 2,777 | `NoDataRace`, `RefinesRegister`, `Delivered` |
| `engine_connection` | a network and a local receiver, all operations, 4 commands, attempts up to 2 | 3,585,759 | `ExclusiveSource`, `WantedIsPursued`, `StateIsBacked`, `BusyDelayHonoured`, `RefinesLifecycle` |
| `engine_connection_live` | the same receivers; connect, cancel, play, quit; 3 commands | 201,283 | `CancelWins`, `NeverGivesUp`, `QuitEndsThread` |
| `iq_pump` | rings of 4 and 2, a pump of 2, a channel of 1, a file of 4, 5 device samples, 3 commands | 461,328 | `HeaderHonest`, `SavedIsComplete`, `RecordingGapless`, `PlaybackGapless`, `EngineComesBack`, `PlaybackEnds` |
| `kiwi_link` | both transports, 2 settings, 2 messages, 2 sources | 484,232 | `LastSettingWins`, `NothingIgnored`, `NoFreedCallback`, `RefusalIsRemembered`, `BrokenIsReplaced`, `StopEnds` |
| `spectrum_path` | one ring and two; decimation by 2, windows of 2, 8 samples | 821,712 | `GapsAreLosses`, `RefinesWindow` |
| `waterfall_view` | a queue of 2, 3 lines, two widths, 5 rows, both painters | 253,656 | `RowsKeepUp`, `ScreenInOrder`, `WidthAdopted` |
| `local_receivers` | the four drivers, 5 samples, 2 starts, a late answer | 125,330 | `NoDangling`, `Accounted`, `StopReturns`, `MutedWhileTransmitting` |
| `audio_out` | both outputs, steps of 1/2 and 3/2, 6 samples | 2,961,298 | `EvenlySpaced`, `SkipsAddUp` |
| `cw_chain` | factors 1 and 2, filters of 2 and 3 taps, three detectors, 7 samples, 2 changes | 102,353 | `EvenlyDecimated`, `FilterIsStreaming`, `GainLandsOnItsSample`, `IntegratorKeepsOrder` |
| `live_controls` | a Kiwi, a SoapySDR, an Airspy; 2 edits, 2 connects, 1 failure | 1,223,767 | `ControlsFollow`, `TuneStays` |
| `claim_overtaken` | the lifecycle's instance | | the finding of section 6 |

Why these bounds. *Cell*: the three slots have been through both hands after
three publications; five let the index wrap and an old value come back if it
could. Two words are what a torn value needs. *Lifecycle*: nesting needs two
commands inside a `start_connect` that a third began; a fourth lets a cancel or
a playback follow. Two receivers of different kinds are needed for the two
sets of timeouts and for one request to overtake another. `MaxAttempt` = 2
saturates the attempt count (the code's `u32` saturates too), and the delays
for 1 and 2 attempts are different. *Pump*: each ring and the channel can be
full, the file is longer than its ring, the device's ring passes 55 % while
a pump takes less than the ring, and three commands make a recording during a
playback or a connection and a command that ends both. *Kiwi*: two settings
are what one overtaking another needs, two messages are an announcement of the
rate and a refusal or an attenuator in either order, two sources are what a
socket left behind needs. *Spectrum*: both rings fill, the catch-up drops, a
chunk ends in the middle of a decimated sample, the circular buffer wraps and
overwrites. *Waterfall*: more rows than lines and than the queue holds, a
width that changes and changes nothing. *Receivers*: a second start after a
stop, a full ring during a callback, an answer after its time limit.
*Audio*: a step faster and one slower than the source, a skip larger than what
is queued. *CW*: a block longer and one shorter than the filter, and two
changes so that a stage is left and taken up again. *Controls*: one edit before and
one after a connect, a reconnect between them. `MaxSent`, `MaxSample`,
`MaxOps`, `MaxAsk`, `MaxEdit` and the like bound what users and devices do,
never what the code does.

Deadlock is checked in every run but five. `audio_out`, `cw_chain`,
`live_controls`, `local_receivers` and `spectrum_path` end when their bounded
input is used up, and say `CHECK_DEADLOCK FALSE`; that `stop` returns is a
liveness property of `local_receivers`. In the others `Ended`, `Idle` and
`Over` let a finished program stutter; a thread that waits for another has no
such step.

### Fairness

`LatestCell`: the reader goes on fetching; nothing is assumed of the writer.
`FetchLoad` is strongly fair: a relaxed load may miss the flag any finite number
of times, but the memory model asks that a store become visible to later loads
in finite time.
`EngineConnection`: the engine thread runs and `connect()` returns (each source has I/O
timeouts); a cancel begun by the UI thread is finished (`UiFinish`, the next
statement of the same function); the clock reaches a retry. The user never has
to act. `IqPump`: the three threads run and disk operations return. The
engine's pump and the rest of a command are one fairness condition because they
are one thread. `KiwiLink`: the reader runs (its reads time out after 150 ms),
the browser delivers events, and the engine looks at the link (`Notices`) and
joins; the receiver never has to say anything. `WaterfallView`: the engine
thread runs and frames are drawn. `LocalReceivers`: callbacks return, a library
that was told to stop streaming stops, our threads run, and a transceiver's answer
arrives, late perhaps. Apart from `FetchLoad` weak fairness is enough: a step of a thread, once
possible, is not taken away for ever by another thread.

## 4. Properties worth knowing

* `WantedIsPursued` with `NeverGivesUp`: whatever fails and whatever commands
  arrive in the middle, a request that was not withdrawn has a device or a
  retry. It rests on a subtle fact (`FlagIsExplained`, below): the cancel flag
  is never left up without a cancel on its way.
* `RefinesLifecycle`, `ExclusiveSource`: a receiver is opened only while one is
  wanted, an attempt is given up only when none is wanted or a cancel is on its
  way, and what is shown is the case once no attempt is under way. A `connect()` that succeeds late, after
  `Disconnect` or `PlayIqFile`, leaves nothing open.
* `BusyDelayHonoured`: `schedule_reconnect` reads the error text it is to wait
  for; the order of `set_error` and `schedule_reconnect` matters.
* `HeaderHonest`: at *every* instant, so after a crash at any instant, a header
  that counts samples tells the truth about the file.
* `SavedIsComplete`, `RecordingGapless`: the log line "IQ capture saved" means
  every sample that was drained; the only gaps are samples that found the
  device's ring full.
* `EngineComesBack`: the engine blocks in the recorder's channel and joins two
  threads, and none of the three waits for the engine.
* `LastSettingWins`: a setting of the user passes the channel, the list held
  until set-up and the replies to the set-up, and none overtakes another.
* `NoFreedCallback`, `NoDangling`: a closure or a stream context is freed only
  when nothing that could call it is left.
* `GapsAreLosses`: the spectrum may look at less than it is given, but what it
  puts into one window was adjacent, unless a ring was full or a catch-up
  dropped it.
* `ScreenInOrder`, `RowsKeepUp`: two painters, pacing, trimming and changes of
  width, and the picture still shows the rows in their order and up to date.
* `EvenlySpaced`, `SkipsAddUp`: audio is interpolated at even places across
  blocks, and every sample `skip_seconds` asks for is skipped once.
* `FilterIsStreaming`: the channel filter's output does not depend on how the
  input was cut into blocks, nor on which of the two convolutions took which block.
* `ControlsFollow`: when all is quiet, the device has what the panel shows,
  through edits, commands on their way and connects by the user. It leaves out,
  by name, what the code does not promise or does not keep: a receiver the
  engine opened again by itself, what was sent from a stale snapshot and met no
  device, a gain that `connect()` leaves unset, and the automatic gain of the
  Kiwi and the Airspy (section 6). `TuneStays` holds through automatic
  reconnects too: the frequency is the one setting the request keeps.

Observations that are not properties, met while reading: the flag of a slow
link is never raised, because the window it measures restarts every 0.5 s and the check
asks for 1 s (`engine/inner/spectrum.rs`, 113-142). The reader of a Kiwi ends by
the stop flag alone; dropping the sender, to which `kiwi/mod.rs:68` gives the
credit, changes nothing. `keepalive()` of the browser's link
(`kiwi/web.rs:201`) has no caller. `QmxSource::open` leaves the transceiver in
IQ mode when a later step of it fails, and a SoapySDR start leaves the stream
open when its activation fails. The desktop's WebSocket handshake has no read
timeout.

## 5. Proofs

All theorems hold for every value of the constants under the named
assumptions (`CapAssumption`: capacities are positive; `LenAssumption`,
`BoundAssumption`, `AttemptAssumption` and so on: bounds are naturals; the
network receivers are a subset of the receivers). Each follows the same
argument: an inductive invariant, mostly `IInv`, its truth in `Init`, one step per
action, and the property as a consequence. `ScreenStaysInOrder` alone has a
hypothesis more, one row a frame. Some theorems state definitions no
run lists (the types, `Permutation`, `NoTornRead`, `ReaderMonotonic`,
`NoStrayThread`, `NoReaderLeft`, `DeviceIsWanted`): they are parts of the argument.

* `Handover_proofs`, the cell. `IInv` adds to the properties where each slot's content
  stands: the published slot holds the last publication, the reader's slot the
  last fetched one, what has been copied comes from one slot, and the accesses
  to a slot are known to whoever owns it. Without the last part `NoDataRace` is
  not inductive: the swap must hand over *all* accesses, the ones of two owners
  ago included. `Refinement` shows the initial states and each step mapped.
* `Handover_proofs`, the rows.
  `SpectrumNotAhead` needs to know where a row can be that the spectrum already
  has: `PlaceInv` says that whatever was pushed after the newest row of a place
  (queue, frame, history) is in a place behind it or was dropped, and that the
  rows queued during a frame are newer than the frame's spectrum. The last part
  is where the order counts: rows are pushed before their snapshot is published,
  and the frame takes the snapshot before the rows.
* `Handover_proofs`, the screen. `RowsStayInOrder` is `ScreenInOrder` for the
  shader with any number of rows a frame and for the processor with one
  (`ScreenStaysInOrder` is the property of the run; with two rows a frame the
  processor violates it, section 6, 10). `OrderInv` parts the rows by two marks:
  what is in the history or on the screen is not newer than the first, what came
  with the frame is between the two, what waits in the queue is newer than the
  second; each of the four is in order. `WindowInv` says from which place of the
  ring on the lines ascend: all of them for the shader, and for the processor as
  many as the history has painted rows, all older than the rows that are due
  (`DueAreNewer`). Cutting the history at the cap only shortens that window,
  which is why the lines beyond it may be left as they are. The lemmas are about
  the ring (`WrittenIs`, `Appends`: what is newer than a ring keeps its order
  when it is written to it), about the history a frame leaves (`IngestedIs`) and about
  the selection of the rows of one width (`OfWidthIs`).
* `EngineConnection_proofs`. `IInv` adds `StackInv` (where `start_connect`
  returns to) and `FlagIsExplained`: while the engine runs with a request, a raised flag
  means that a `Disconnect` or `Shutdown` is queued or about to be. Without it
  `start_connect`, which gives up without scheduling a retry when the flag is
  up, could leave a request with nobody pursuing it. Commands nest to any
  depth.
* `EngineConnection_proofs`, the refinement. `Refinement` shows each step to be
  one of `EngineLifecycle` or a stutter, and `PromiseHolds` carries its promise
  over. The hard case is an attempt that is given up: the abstract engine
  may do so only when nobody wants the receiver or a cancel is on its way, and an
  engine thread that leaves its stack because it is to quit must be shown to be
  in that case. `LInv` adds to `IInv` what this takes: `ShutdownIsLast` (nothing
  is sent after the quit, so a drain that met it has met everything),
  `QuitIsFinal` (an engine that stopped has no request and no source) and
  `PlaceInv` (the stack is empty outside `start_connect`, and the engine looks at a
  retry only without a source).
* `IqPump_proofs`, the threads. `IInv` adds `HeaderInv` (the stream is closed before the
  header is written), `OwnerInv` (a playback found finished has no thread
  left) and `StreamInv` (the playback ring is exactly the part of the file
  between the engine's place and the thread's). The type part is proved per
  thread, since its content is the capacities.
* `IqPump_proofs`, the recording. `SavedIsComplete` needs `CompleteInv`: what was drained
  is, in order, the file, the chunk being written, the chunks in the channel
  and the one the engine holds. The chunks in the channel are said to be
  consecutive parts of the recording by a sequence of places (`cut`) that
  exists, so that no recursion over the channel is needed. `RecordingGapless`
  needs to know where the next sample will come from: `OneSource` (a device or
  a playback, never one after the other in a recording), `DeviceInv` (the
  recording, the engine's hands and the ring are chains whose ends are linked:
  what is between two neighbours found the ring full) and `FileInv` (a playback
  is drained from its first sample on).
* `KiwiLink_proofs`. `IInv` is the type with `ReaderInv` (what the socket and
  the channel are at each place of the reader), `CallbackInv` (which handlers a
  socket that was left behind can still call: none) and `OrderInv` (until the receiver
  is set up, the opening line and the set-up precede every setting on their
  way). `OrderInv` is what `NothingIgnored` needs: a setting passes three queues
  before the receiver sees it. `LastWins` needs `SettingInv`: all that is
  on the way to the Kiwi, put in one line (on the wire, sent, held by a session
  that has not seen the sample rate, in the channel), either ends, for its kind,
  in the value asked for last, or has none of the kind and the Kiwi has the
  value; and a Kiwi that is not set up yet will get the set-up before it. Each
  action moves a command along the line or appends one.
  `ReasonStays` is an action property.
* `SpectrumPath_proofs`. `Refinement` shows that the circular buffer, with its
  head, its count, its row cap and the drop of the oldest, implements
  `SlidingWindow` for every window, hop and capacity. The work is the lemmas on
  the modular index: pushing into a full and into a partly filled buffer, and advancing by a hop,
  are an append and a tail of the queue. `OnlyLossesMissing` rests on `PathInv`:
  every sample the engine is not done with is on its way, or was lost in a full
  ring or skipped by a catch-up; what waits in the analyzer, followed by what the
  pump is feeding it, has no other gaps; and neither is there one between its
  end and the first sample on the way. The raw and the decimated samples need
  this separately, with a mark each of how far the engine has come.
* `Handover_proofs`, the receivers.
  `ReceiverInv` adds `OwnerInv` (which of stream, handle and thread exist in which state of the owner) and `ThreadInv` (which places of
  the callback and the threads go with which driver and which state of the
  library). `StreamOutlivesThreads` is the freedom from dangling pointers,
  `EverySampleAccounted` the conservation of samples.
* `AudioOut_proofs`. `SkipsAddUp` is inductive once it is known that nothing is
  left with the callback between two of its calls. `QueueEvenlySpaced` needs
  `PaceInv`: the ring, the messages on their way to the worklet and the block that
  push is making are consecutive parts of one sequence (`Pieces`, which says that
  the sequence and the cuts exist, so that no recursion over the messages is
  needed), whose neighbours are one step of the servo apart, except at a seam
  between two sessions, and whose end is one step before the resampler's place.
* `CwChain_proofs`, the stages between blocks. `ChainInv` adds to
  `EvenlyDecimated` that the counter is the number of samples since the
  decimator was built, modulo the factor. For `GainLandsOnItsSample` it adds
  `GainInv`: whenever a sample waits in the delay line, the two lines are equally
  long, the level beside it is its own, and the levels from there on are those of
  all newer samples that were kept. The levels stay when the lookahead is
  switched off and the delay line does not; `GainInv` holds then because no
  sample waits.
* `CwChain_proofs`, walking through a block. The filter and the detector take a
  block one sample at a time, or one segment at a time, and the model says so
  with recursive functions. That such a function exists and obeys its equations
  is itself a theorem to prove (`Recursion`), and what holds at each of its steps
  an induction (`Induct`, `Along`). The library's theorems for both take an
  operator as a parameter; here the same is said of a *set* of numbers and of a
  *function* from places to step functions, and follows from the fact that
  the order of the naturals is well-founded.
* `CwChain_proofs`, the detector. `IntegratorOrdered` needs `DetectorInv`: both
  rings are in order and older than all that waits in the delay line of the gain
  control, which has its own order (`LineInv`), because what reaches the detector
  next comes from the line. A ring that changes its length keeps its newest
  samples (`Resized`), and the sum follows every push by what came in and what fell
  out.
* `CwChain_proofs`, the channel filter. `FilterStreams` needs `StreamInv`: there
  is a sequence of samples fed since the design, the delay line holds its end
  backwards (`Recalls`), and every output of the last block is the view of that
  sequence from its place (`Hears`). Both convolutions are shown to be the
  same function of the sequence: sample by sample along the block, and by
  overlap-save along its segments, where the history between two segments is the
  end of what was taken (`State`, `Goes`), and where the delay line is written
  anew from the history after the last one. So a block may be
  cut anywhere and taken either way. The outputs are then compared with the
  definition of the property, which speaks of a set of samples, by the order of
  the sequence (`Climbs`, `LastFedIs`).
* `LiveControls_proofs`. `ControlsInv` has three parts about the line of commands
  from the panel to the engine. `AskInv`: only the last connect in the line
  counts, and until it is handled nothing in the engine stems from it. `CenterInv` and
  `ControlInv`: for the frequency and for each control, either what was sent
  last is in the line behind the last connect, or the line has none of its kind
  and the request, the device and an opening in progress agree with what was
  sent, unless the order met no device, which the model remembers as the cases
  `ControlsFollow` excuses. The lemmas are an algebra of the last command of a
  kind in a line (`LastIn`, `NoneIn`) under append and tail.

Only model-checked: the liveness properties, `MutedWhileTransmitting` among them
and `WidthAdopted` (no prover for fairness and ENABLED is at hand). Every
invariant of the passing runs is stated by a theorem.

`Handover_proofs` extends three modules, which is why the parts of their
specifications carry names of their own (`CellInit`, `ViewInit`,
`ReceiverInit`).

## 6. Where the code and its texts disagree

Each is the counterexample of TLC on the unchanged model. The first is the run
`claim_overtaken`; the others have a `.cfg` file here and are checked by hand,
`tlc -config X.cfg M`. A file that lists two or three claims is checked with
one of the names left in.

1. **An older connect overtakes a newer one** (`EngineClaims_overtaken`).
   `Connect A`; while A's `start_connect` drains commands, `Connect B` is
   handled and B opened; the outer call goes on with its own `req`, opens A and
   replaces B. `request` is B, the device is A. A `Tune` drained there is lost
   the same way.
2. **A cancel that comes early is cleared** (`EngineClaims_abort`). `Connect` is
   queued, the UI raises the flag, the engine handles `Connect` and clears the
   flag, finds no `Disconnect` yet, and enters `connect()`; the cancel waits
   for the end of it. `CancelWins` still holds: it is late, not lost.
3. **One failure is charged twice** (`EngineClaims_failures`,
   `OneChargePerFailure`). `poll_handshake` fails the connection, and
   `maybe_reconnect_on_stall` in the same step finds no device, uses the shorter
   timeout, and fails it again: the attempt count grows by two, and a busy
   answer's delay and message are replaced.
4. **The backoff never grows for a receiver that accepts and then fails**
   (`EngineClaims_failures`, `BackoffKept`). The count is reset when the socket
   opens.
5. **A full disk ends the engine** (`MCIqPump_panic`, `EngineSurvives`). The
   writer returns an error; the next `push` panics.
6. **The end of a playback may be cut off** (`MCIqPump_tail`,
   `PlayedToTheEnd`). Pop finds the ring empty, the thread pushes the last
   samples and raises `done`, `finished()` says yes, the playback is dropped
   with samples in its ring.
7. **In the browser a setting may be sent before it is accepted**
   (`MCKiwiLink_web`, `HeldUntilAccepted`). `send_cmd` while the socket is
   connecting keeps the command in `preopen`, and `onopen` sends it at once,
   past the session that would hold it until IQ mode is set up.
8. **A catch-up leaves a seam in a window** (`MCSpectrumPath_splice`,
   `NoSplice`). `SpectrumAnalyzer::reset` is for dropped samples; the catch-up
   drops them and does not reset. That is why `GapsAreLosses` allows for
   `skipped`.
9. **Raw samples reach the spectrum of a wideband source**
   (`MCSpectrumPath_raw`, `SpectrumIsDecimated`). When the decimated ring is
   empty the pump falls back to the raw batch, at another rate.
10. **The history has rows of two widths** (`MCWaterfallView_width`,
    `HistoryHasOneWidth`): rows of the old width are still queued behind the
    change. **Rows painted late swap places** (`MCWaterfallView_order`,
    `ScreenInOrder` with two rows a frame).
11. **A stop of an RTL-SDR may hang** (`MCLocalReceivers_stop`,
    `StopAlwaysReturns`). `rtlsdr_cancel_async` before the thread has entered
    `rtlsdr_read_async` cancels nothing, and the join waits for ever. The
    property `StopReturns` of the run is for the cases where the cancel is seen.
12. **Samples a SoapySDR driver drops are not counted**
    (`MCLocalReceivers_spill`, `LossesCounted`).
13. **Audio** (`MCAudioOut_claims`). The budget of a skip that the queue could not
    pay eats samples that were pushed after it (`FreshIsPlayed`); a browser's
    context that starts to run has more queued than the ring holds
    (`StartsLive`); a node that becomes ready after the output was dropped gets
    the port attached to a closure that is freed (`NoFreedClosure`).
14. **Controls** (`MCLiveControls_claims`). "Gain and antenna apply when connected"
    (`app/methods/ui/left/rf_controls.rs:345`), but `connect()` leaves a gain
    unset, and a receiver the engine opens again has none of what was set since
    (`GainApplies`). "Hardware AGC on the Airspy front end" (`rf_controls.rs:254`):
    a toggle while it streams is sent as `SetRfAgc` (`radio/sync.rs:254`), which
    the engine hands to `kiwi_set_rf_agc`, and that ignores every other receiver;
    the Airspy keeps the setting it was connected with (`AirspyAgcFollows`).
    A toggle of the Kiwi's gain control between `connect_now` and the first samples
    makes the form and `last_agc_rf_on` equal, and is never sent
    (`app/methods/connection/actions.rs:110`, `radio/sync.rs:24`;
    `KiwiAgcFollows`).

## 7. Plan

1. `KiwiLink` as the specification of `link_error` and `link_alive` in
   `EngineConnection`: today the lifecycle's link fails in every way, which
   includes the Kiwi's.
2. The recorder's metadata (rate and centre at the moment a recording starts).

## 8. Not modelled, and why

The ingress worker: every receiver that decimates gets a dual ring
(`attach_dual_ring`), so `pump_stream` never starts a job; only tests and
benches do. Floating-point signal processing (coefficients, FFT values, AGC
levels, decoder): its questions are about precision, out of reach of TLC and of the
provers; what is discrete in it, which samples go where, is in `CwChain` and
`SpectrumPath`. The libraries behind the local receivers, the audio system and
the browser: interfaces whose outcomes the models enumerate, marked external.
Formats (gzip, header bytes, WebSocket frames, the call-sign database):
conversions without state; the recorder's header is modelled as the count it
carries. Drawing, meters and panels: no state shared with another thread. The
engine's queue of spent row buffers: it decides when memory is allocated,
nothing else. Mock receivers, the enumeration of devices and controls that are
one call into a library: no state between calls. After a panic of the engine
thread, `IqPump` does not follow the unwinding further than to the sources that
are dropped.
