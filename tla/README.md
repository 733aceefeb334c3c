# viii: TLA+ specifications

This directory holds formal specifications of **viii**, the browser version of
the monome *iii* scripting platform: a Lua VM compiled to WebAssembly
(`src/src/*.c`), driven by one JavaScript file (`src/web/bridge.js`) that owns
the timers, the serial link to a grid or an arc, MIDI, and the stored files.
Every definition is a translation of the source; `PROJECT.json` maps each one to
its lines. Paths below are relative to the repository; `bridge.js` is
`web/bridge.js`, the C files are in `src/`.

The specifications are model-checked with TLC on small instances. All nine also
have machine-checked TLAPS proofs for every value of their constants: of every
invariant and action property that the passing runs check.

## 1. The system

All code runs on the browser's one JavaScript thread. There is no preemption:
a C function called from JavaScript runs to its end. What makes the program hard
is what happens *between* two calls, and what is left behind when a call is
unwound by an exception:

* the audio callback of a `ScriptProcessorNode` calls `viii_loop` about every
  4 ms and then the metros that are due (bridge.js 108-133);
* browser events (MIDI, serial bytes, keyboard, ports that come and go) call
  into C between two loops and leave their data in queues;
* promises (opening, closing, reading and writing the serial port; IndexedDB)
  resume between two loops too;
* a JavaScript exception thrown under Lua - `MIDIOutput.send` throws on a lost
  port or an invalid message - unwinds the whole of `viii_loop` to the `catch`
  at bridge.js:116. The C code was written for firmware, where nothing throws.

### Components

| Component | State | Operations | Properties that make it right | Modelled |
|---|---|---|---|---|
| Event queues (midi_web.c; device_web.c key and encoder queues) | ring, `w`, `r` | producers `viii_midi_rx`, `queue_*`; drain loops of `midi_task`, `device_task` | a bounded FIFO: no loss, duplicate or reordering, refusal only when full; a throwing handler is given the same event again | `RingQueue`, `EventQueue`, `BoundedFifo` |
| Main loop and VM restart (main.c, serial_web.c) | `reinit_requested`, callbacks, receive buffer | `viii_init`, `viii_loop`, `serial_task`, REPL lines | order and replay after exceptions; no VM replaced under its own batch; no hung notes; restart happens; progress | `MainLoop` |
| Metros (metro_web.c, bridge.js timer) | C records, `metroState` timers, `loopNextTickAt` | `metro_set*`, `metro_cleanup`, `metro_task`, `viii_metro_tick`, audio callback | record and timer agree; exact stage counts; no early tick; metros keep ticking | `Metro` |
| mext receive path (device_web.c) | parser buffer, discovery results | `mext_rx_consume_byte`, `mext_dispatch_message`, `viii_grid_connect`, `device_init`, `viii_set_arc_mode` | framing, each message dispatched once, the size is the device's answer, arc mode and encoder count agree | `MextRx` |
| Grid LEDs (device_web.c) | `grid_led`, `grid_dirty`, pending flags | Lua bindings, `device_task`, `grid_send_refresh`, connect | what is not dirty is on the device; an intensity arrives | `GridLeds` |
| Arc encoders (device_web.c) | resolution, accumulator | `l_arc_res`, `vm_handle_enc_delta`, resets | rotation is conserved, less than a tick is held back, direction is kept | `ArcEncoder` |
| Arc rings (device_web.c) | `arc_ring` | `l_arc_led*`, `arc_send_refresh` | a refresh shows the buffer | not modelled: a refresh sends every ring in full, nothing is reconciled |
| Device link (bridge.js 500-742) | port, reader, writer, flags | `gridConnect`, `gridDisconnect`, read loop, reconnection | one owner of the port; a lost link is cleaned up; a reconnect succeeds | `GridLink` (calls and port), `GridLeds` (bytes) |
| Transmit buffer and REPL protocol (serial_web.c, bridge.js 265-389, 847-1179) | receive and transmit buffers, `pendingCapture`, timeouts, the page's functions | `serial_task`, `serial_tx`, `handleSerialOutput`, `executeLuaCapture`, `refreshFileList`, `uploadScript`, deletion | a capture gets its own answer; an upload saves its own file; every function ends | `Repl`; exceptions in a batch in `MainLoop` |
| MIDI ports (bridge.js 744-845) | selected output and input | menus, `onstatechange`, panic | notes are ended; a lost port is replaced | output side in `MainLoop` |
| File system (fs_web.c, IndexedDB) | entries, handles, stored copies, requests under way | open, read, write, seek, truncate, close, remove, rename, reformat, preload | a name is one file, a handle has its file, a stored copy is what was closed, but for names that callers misuse | `FileSystem` |
| Boot and audio gesture (bridge.js 83-143, 179-262) | pump, AudioContext, timer node | `initWasm`, gesture handlers | the loop comes back after a gesture, the first list is shown | `Repl`; `viii_init` in `MainLoop` |
| iii core (`vm`, `repl`, `lib.lua`) | - | - | a git submodule that is absent: modelled from its uses | through `MainLoop` |
| Lua, flash and pico shims, page, service worker | - | - | vendored, empty, or static | not modelled |

`PROJECT.json` lists under "hazards" everything in this code that a test would
hardly reach, at its line, with the properties that would notice it going wrong.

## 2. Modules

### `RingQueue`, `EventQueue`, `BoundedFifo`, `DeviceTaskProofs`

`RingQueue` is the ring of midi_web.c (and its two copies in device_web.c) as
operators on a record `[queue, w, r]`; `Contents` is the abstraction function.
`EventQueue` adds the producer (`viii_midi_rx`), the drain loop
(`TaskBegins`, `HandlerReturns`, `TaskEnds`) and `HandlerThrows`, the exception
that unwinds the loop before `r` moves. `BoundedFifo` is what a queue promises;
`ImplementsFifo` is the refinement with `items <- Contents(ring)`. The history
variable `last` carries the result of each call, so that a wrong result is
caught and not only a wrong state. `DeviceTaskProofs` has the proofs of the queue
and of `ArcEncoder`: the two parts of `device_task` that work on encoder events.

### `MainLoop`, `MainLoopProofs`

`viii_loop` step by step: `LoopStarts` takes the restart flag, `NotesOff`,
`VmReplaced` / `VmInitThrows` are the restart, and otherwise the tasks run in the
order `NextTask`, each queue an abstract bounded FIFO (what `EventQueue` is
proved to implement). A queued event is represented by the number of times its
handler has been started, a line of REPL input by its kind, its runs and the VM
that ran it. `LineThrows` leaves the batch in the buffer, since `rx_r = rx_w = 0`
comes after the callback. The selected MIDI output is `none`, `live` or `dead`,
and `sounding` says whose notes it plays.

### `Metro`, `MetroProofs`

One audio callback: `onaudioprocess` reads the clock, starts the loop if due;
Lua runs before, under and after `metro_task`, where it may start, restart or
stop any metro, take time (`LuaTakesTime`) or throw; then `Tick` visits each
timer. Times are kept relative to the present: a timer is its wait until
`nextTickAt`, negative when overdue. `lag` is the time that passed since the
callback read `now`, which it does not read again. `Advance` is the "no burst"
rule. The history `credit` is the time since a metro's last start less one
interval per tick that reached Lua.

### `MextRx`, `MextRxProofs`

The parser of device_web.c against a device that sends whole messages
(`DeviceStarts`, `DeviceContinues`) and padding. Of a message only three bytes
are kept, the ones a handler reads. `viii_grid_connect` may cut a message in
two (the second call of a reconnection, 300 ms after the first); `synced` says
that no cut message is outstanding. The history `answer` is what the device has
answered about its size since the last connect. `device_init` can follow a connect: the
button works while the stored files are still loading.

### `GridLeds`, `GridLedsProofs`

The level buffer and its four dirty flags, the Lua bindings, `device_task`, and
the device that shows what was written to an open port. `link` is what
becomes of written bytes: `lost` is the interval in which the C side still
believes in a connection and `gridSerialWrite` drops the bytes. The flag of the
intensity is cleared by such a send too, and no connect sets it again: an
intensity that was sent into a lost link never reaches a device, and
`IntensityArrives` is stated for scripts that keep refreshing and links that are
not lost in silence. The block size
is a constant (`QUAD`, 8 in the code). It starts after `viii_init`: no Lua runs
before, so that the LED buffer is still dark. The size a device answers is taken
as received; a misread size is the subject of `MextRx`.

### `ArcEncoder`, `DeviceTaskProofs`

`l_arc_res` and `vm_handle_enc_delta` with C's division towards zero, the
`uint16_t` argument and the `int8_t` result. `unreported` is the rotation not
yet given to Lua. An event whose handler threw is handed out again by the queue
and then counts a second time; that is the queue's promise (`BoundedFifo!Attempt`)
and not part of this module.

### `GridLink`, `GridLinkProofs`

The asynchronous functions of bridge.js around the serial port. Calls of
`gridConnect` and `gridDisconnect` are records in `connect` and `disconnect`
whose `pc` says which await they are in; two of each can be under way. An action
is what runs from one await to the next: `PortPicked`, `PortsListed`, `Opened`,
`Connected`, `ConnectFails`; `DisconnectStarts`, `Cancelled`, `Released`,
`Closed`, `Finished`. A call reads the shared `gridPort`, `gridWriter` and
`gridReader` again after each await, as the code does, whatever others did to
them. The browser side (`open`, `write_locked`, the read loops, events that come
late and in any order) is modelled from what the code relies on: `open` of a
port that is not closed and `close` of a port with a locked stream are refused,
an unplugged device breaks its port. `Faults` says what the environment does
besides. `RetryPending` says what is pending for a link that is down, and names
the two states in which nothing is: after a read error that the device survives
(see 6), and after a slow manual disconnection that forgets the port of the
connection made meanwhile. The specification starts with the WebAssembly module loaded. The
second `viii_grid_connect`, 300 ms after a reconnection, sets a flag that is
set, and is left to `MextRx`.

### `FileSystem`, `FileSystemProofs`

The table of fs_web.c and the copies in IndexedDB. A call (`fs_file_open`,
`fs_file_write`, ..., `fs_rename`, `fs_reformat`) changes the table at once and
appends requests to `pending`; `RequestSettles` and `RequestFails` take them in
order, and the page may close between any two steps and load what was stored.
Contents are sequences over `Data` and `junk`, the memory nobody has written, so
that a write after a seek past the end shows. Closing writes the copy back even
for a handle that only reads: `LFS_O_RDWR` is both bits and the test at the close
is for either. The callers are the iii core, which is absent, and the code trusts
them: a file may be removed or the table reformatted under an open handle
(`Freed` keeps the name and the size that the handle still sees, and closing it
stores the file again), a name may be given to a second file, and a handle opened
for reading may be written. The model has these steps as the code has them. The
history `misused` collects the names they are done to, and the properties say
that the other names come to no harm. `PageLoads` takes any number of the stored
files, since a preload that throws leaves the page with the ones before.

### `Repl`, `ReplProofs`

The functions of the page (`refreshFileList`, `uploadScript`, deletion, a typed
line) as sequences of lines and captures with awaits between them; a call under
way is its function, the number of steps it has left and the capture it waits
for. The lines fill the receive buffer, and one action, `viii_loop`, is a tick:
handlers print, the batch is run by `repl_handle_bytes`, the output that fits is
sent, and `handleSerialOutput` takes it line by line. A command prints two lines
(`Output`), and `serial_tx` takes or leaves each by itself: the second may be in
an answer without the first. Tokens are ids, and a line of
output carries the command that printed it, so that an answer can be told from
another capture's. `LoopRuns` says whether there is a tick at all: the pump of `initWasm`
until the first list has settled, then the audio timer, which a gesture starts
and which needs the context to be running.

## 3. Runs

| Run | Instance | Shows |
|---|---|---|
| `event_queue` | ring of 4, events note-on, note-off and the zeros of an unused slot | `QueueTypeOK`, `ImplementsFifo` |
| `main_loop` | queues of 2, 1, 1, batches of 2 lines, 2 exceptions, under `FairSpec` | four invariants, `NoLineSkipped`, and the progress properties `QueuesDrain`, `LinesRun`, `RestartUnlessPortLost` |
| `main_loop_restart` | the same with one exception | **violation** of `RestartHappens` (see 6) |
| `metro` | 2 metros, minimum 2, intervals 0 and 1, counts -1 and 2, gaps to 3, lag 1, under `FairSpec` | C record and timer agree, exact stages, no early tick; `TickServed`, `KeepsTicking` |
| `mext_rx` | payload bytes 0, 5, 33, two connects | `FrameInSync`, `WholeMessages`, `SizeIsAnswered`, `ArcModeKept` |
| `grid_leds` | 2x2 blocks, grid of 3x1, levels 0 and 1, under `FairSpec` | `CleanIsShown`, `RefreshShowsAll`, and the progress property `IntensityArrives` |
| `arc_encoder` | 2 encoders, deltas -128, -3, -1, 0, 2, 127, resolutions -1, 0, 2, 5, clamp 12 | conservation of rotation |
| `grid_link` | 1 device, 2 calls of each kind, impatient user, read errors, under `FairSpec` | `LinkUsable`, `NoPortLeaks`, `Reconnects` |
| `grid_link_slow` | the same, disconnections overlapped by anything, refused signals | `LinkTypeOK`, `WriterOwned`, `RetryPending` |
| `grid_link_read_error` | 1 device, read errors | **violation** of `EventHandlesReadError` (see 6) |
| `file_system` | 2 names, 2 entries, 2 handles, contents to 1, 2 requests under way, states with a name not misused | `TypeOK`, `TableSound`, `StoredFollows` |
| `repl` | an upload or a deletion, a typed line, the two lists of the boot; transmit buffer of 9, output lines of 4 and 2, up to five lines of handlers per tick, one suspension, under `FairSpec` | `AnswerIsOwn`, `UploadSaved`, and the progress properties `TasksEnd`, `LoopComesBack` |

Why these bounds are enough to meet the interesting cases: the ring of 4 meets
every pair of indexes and wraps; two lines per batch put a line before and after
the one that throws or resets; with two metros one can starve, stop or restart
the other; the minimum is the interval of the loop, so that a metro is due at
every loop and can throw in each, and callbacks come early and late for it; the
payload bytes of `mext_rx` are themselves headers, so that a stream cut anywhere
can be misread as anything; the 3x1 grid has a full block,
one cut by the size, and two it does not have; the encoder deltas include both
ends of `int8_t`, and the resolutions lie below, inside and (by wrapping to
65535) above the clamp; with two entries and two handles both tables can be
full, a file can be open twice, and a renamed file can be followed by another of
its old name; a transmit buffer of 9 holds the answer to one capture (two tokens
of 1, lines of 4 and 2), and lines printed before it cost it, by their number, its
end token, the shorter line, the longer one, or both; two
functions at once (`MaxAtOnce`) put lines and captures of one between any two of
another. The named bounds `MaxBatch`, `MaxThrows`, `MaxGap`, `MaxLag`,
`MaxTick`, `MaxCredit`, `MaxConnects`, `MaxSize`, `MaxPending`, `MaxAtOnce`,
`MaxNoise` and `MaxSuspend` bound guards and inputs only;
`MaxThrows` bounds the handler exceptions of a behaviour, so `QueuesDrain` and
`LinesRun` speak of what happens once they have ended; `MaxCredit` caps a
history variable above every value at which `NoEarlyTick` could tell a
difference (`CreditAssumption` in `Metro`). Two calls of `gridConnect` and of
`gridDisconnect` (`Slot`) let a call overlap another of its own kind and of the
other; a third waits for a free slot. A seek past the end of a file needs
contents longer than `MaxSize` = 1 to leave a gap; that case is left to the
proof, which holds for every `MaxSize`. The run of `FileSystem` has no `Data`
besides `junk`, so that contents differ in size only: what bytes are makes no
difference to the table, and the proof is for any `Data`. Its constraint
`SomeNameIsSound` stops at states in which both names are misused, of which the
properties say nothing. `Folded` in `Repl` is `FoldLeft` written
as a function over the elements, which TLC evaluates faster and the proofs can
follow step by step.

`LinkUsable`, `NoPortLeaks` and `Reconnects` are stated for
disconnections whose awaits settle before the next event (no `"slow"` in
`Faults`) and for one device. Neither restriction is in the code. When an
attempt to connect resumes between two awaits of a `gridDisconnect`, the
disconnection goes on with the new connection's writer and port; with two
devices, an attempt can move `gridPort` away from the port another one has just
connected. TLC finds the three properties violated in such instances, so the
restrictions are part of what is claimed. `NoPortLeaks` also needs that
`setSignals` is not refused (no `"signals"` in `Faults`, as in its run): after a
refusal the attempt is over, and the port it opened stays open.

Each property has a mutant of the code (an operator placed just before the one
it replaces, and marked as such) under which TLC finds the property violated.
The type invariants of `MainLoop`, `MextRx` and `GridLeds` are proved and not run.

## 4. Fairness

`FairSpec` of `MainLoop` assumes `WF(LoopStarts)` and `WF(LoopRuns)`: the audio
callback keeps firing once started (that is what bridge.js uses it for, see the
comment at 64-71), and a call of `viii_loop` ends, since Lua handlers return or
throw. Nothing is assumed of browser events, exceptions, ports or users.
`FairSpec` of `Metro` assumes the same of `onaudioprocess` and of the code of the
callback; Lua's own choices carry no fairness. `TickServed` and `KeepsTicking`
are conditional on exceptions ending, since a metro of lower index that throws
in every loop really does starve the others. `StopsThrowing` says which
exceptions that means: the ones that keep a callback from the end of
`metro_task`.

`FairSpec` of `GridLink` assumes that promises settle, timers fire and events
are delivered. It is strong fairness: a step that is ready waits while another
call is running, and is ready again when that returns. Users, devices and the
chooser of `requestPort` are under no obligation.

`FairSpec` of `GridLeds` assumes `WF(device_task)`: the loop goes on. That scripts
refresh and that the device stays are premises of `IntensityArrives`, no fairness.

`FairSpec` of `Repl` assumes that promises resolve, timeouts fire and the pump
ends once the first list has settled; these are the browser's. Of the user it
assumes that clicks go on (`WF(ensureAudioKeepalive)`), without which a suspended
context stays suspended. There is no fairness of `viii_loop`: `TasksEnd` holds
though the loop may never tick, since every capture has a timeout.

## 5. Proofs

| Theorem | Module | States, for every value of the constants |
|---|---|---|
| `QueueTypeCorrect` | `DeviceTaskProofs` | `QueueSpec => []QueueTypeOK` |
| `RingImplementsFifo` | `DeviceTaskProofs` | `QueueSpec => ImplementsFifo`: any ring size, any events |
| `TypeCorrect`, `TimersMirror`, `StagesExact`, `TicksNotEarly` | `MetroProofs` | the four invariants of run `metro`: any number of metros, intervals, gaps and lags |
| `EncoderTypeCorrect`, `NoRotationLost`, `HeldBackLess`, `TicksFollowTurn` | `DeviceTaskProofs` | the four invariants of run `arc_encoder`: any number of encoders, any resolutions, every `int8_t` delta |
| `LoopTypeCorrect`, `HeadRetried`, `ReplayIsBounded`, `OneVmPerBatch`, `NotesEnded`, `LinesNotSkipped` | `MainLoopProofs` | `TypeOK`, the four invariants of run `main_loop` and `NoLineSkipped`: any capacities, length of a batch and number of exceptions |
| `ParserTypeCorrect`, `FramesAgree`, `MessagesWhole`, `SizeComesFromDevice`, `ModeFollowsCount` | `MextRxProofs` | `TypeOK` and the four properties of run `mext_rx`: any payload bytes, any number of connects |
| `CleanLedsShown`, `RefreshComplete` | `GridLedsProofs` | `CleanIsShown`, `RefreshShowsAll`: any size of block and grid, any levels |
| `LinkTypeCorrect` | `GridLinkProofs` | `LinkTypeOK`: any number of devices and of overlapping calls, any faults |
| `RetryIsPending`, `WriterIsOwned` | `GridLinkProofs` | one device `=> []RetryPending`, `=> []WriterOwned`: any number of overlapping calls, any faults |
| `LinkIsUsable` | `GridLinkProofs` | one device and no `"slow"` `=> []LinkUsable`: any number of overlapping connects |
| `NoPortIsLeaked` | `GridLinkProofs` | one device, no `"slow"`, no `"signals"` `=> []NoPortLeaks`: any number of overlapping calls |
| `FileTypeCorrect`, `TableIsSound`, `StoredCopiesFollow` | `FileSystemProofs` | the three invariants of run `file_system`: any names, contents and table sizes, whatever callers misuse |
| `AnswersAreOwn` | `ReplProofs` | `Spec => []AnswerIsOwn`: any functions at once, any transmit buffer and length of output, any number of lines printed by handlers |
| `WaitsAreTimed` | `ReplProofs` | `Spec => [](WaitHasTimer /\ TimerHasWaiter)`: who waits for a capture has its timer, and a timer has who waits; the safety half of `TasksEnd` |
| `UploadsAreSaved` | `ReplProofs` | at most one upload (`OneUpload`) `=> []UploadSaved`: whatever is typed, asked and deleted beside it |

*Assumptions* are the named `ASSUME`s of the component modules; TLC evaluates
them on each run.

*The queue.* The difficulty is arithmetic modulo `SIZE`: lemmas state what
`Succ` and `Count` do at the wrap, then what `Contents` becomes under `Store`
and `Retire` (append, tail). The refinement follows action by action, each a
`BoundedFifo` step or a stutter.

*Metros.* `NoEarlyTick` is not inductive: nothing in it says what a timer that is
about to fire, or a tick that is pending, may spend. `IInv` is the conjunction
of `TypeOK`, `TimerMirrorsRunning`, `IntervalsClamped`, `WaitBounded` and
`CreditCoversTimer`; the last says that the credit of a metro whose timer is
armed is at least what it owes, `Owed`: its interval less the wait, and another
interval if a tick is pending. Stage counts and the rest are proved in the same
case split, action by action.

*Encoders.* `RotationKept` needs the fact that the tick taken from the
accumulator always fits an `int8_t`, which needs `LessThanATick` (so that a sum
is at most one delta beyond a tick) and `arc_res_val > 1`. The invariant is
therefore their conjunction with the type invariant.

*Main loop.* Three arguments that do not need each other. Only the head of a
queue is retried because an exception is the only way to leave a handler without
`Tail`. For the batch, `LinePosition` says that it is at its first line outside
`serial_task`, and `RunAhead` that the lines of the present call have run more
often than the ones to come; an exception takes `line` back to 1 and pays for it
in `throws`. `RunAhead` also gives `NoLineSkipped`: when `line` has passed the
end, every line has run. For the notes, `QuietAtInit` says that nothing sounds
when the VM is replaced.

*Receive path.* `FrameInSync` alone does not say what the parser does next.
`ParserState` adds that it is between two messages with everything cleared, or
inside a message whose first byte announced the length it waits for, and
`DeviceState` that a device between two messages has none under way. That the two
tables of lengths agree is `LengthsAgree`. `MessagesWhole` and `FramesAgree` come
out of the same case split. `SizeComesFromDevice` adds `NoAnswerUnsynced`: while the
two are out of step no answer is recorded, and in step the answer that is
dispatched is the one the device has sent.

*Grid LEDs.* A refresh sends a block with the LEDs beyond the size dark; that this
is what the buffer holds needs `LitInSize` (nothing is ever lit beyond the size),
which survives the answer of a size since on an open port the size is none or
the device's own (`SizeKnown`).

*Device link.* An attempt that is pending stays so until the link is up or given
up (`PendingStep`): a manual disconnection that ends must not be owed one,
`GivenUp`, and a call that has returned is no attempt, `FreeCalls`. When nothing is
pending, the C side still shows the link (`ShownIsTold`: what the page shows it was
told of), and `BreakIsKnown` says that a port that breaks under a shown link has
its disconnect event to come (`EventStep`). `LinkUsable`
needs that while a disconnection is under way nothing is connected or read, and
between two of them a running loop has its reader (`LinkInv`). `RetryPending`,
`WriterOwned` and `LinkUsable` are proved for one device, as they are run; with two
devices a second writer's lock is really lost, and so is the disconnect event of
a device after the user picked the other.

`NoPortLeaks` speaks of a moment at which nothing is under way. `PortInv` says what
holds until then: an open port whose device is there has an owner, a link, an
attempt that still has to set its signals or a disconnection that has not come to
close it; while `open` is awaited no port is open and no other attempt awaits it;
and at most one disconnection is under way.

*File system.* The invariant is `TypeOK`, `TableSound`, `StoredFollows` and
`NothingBeforeLoad`. The work is in `StoredFollows`, which is about the last
request for a name: lemmas state what appending one or two requests, settling
the first and changing one entry do to `Requested`, `LastRequest` and `InMemory`.
A name once misused stays so until the page closes, and a step that draws a name
in adds it to `misused` at once: the lemmas are applied to the other names.

*REPL.* A tick of the loop folds one operator over a batch of lines and another
over its output. Induction over their elements is done as induction over sets of
numbers (`UpTo`): the least number outside such a set is what the library's `WFMin`
finds. `TxFold`, `RunFold` and `HandleFold` state the folds as iterations of a
step, and what a batch or an output does is then an invariant of that iteration.

`AnswerIsOwn` rests on `CaptureInv`: the three lines of the pending capture wait
in the receive buffer, side by side, and nothing was heard of it, or they are gone
and nothing that is to come carries its id. When the three lines run
(`BatchPrints`), they print the begin token, the output and the end token in a
row, or with one line of the output or none if some was cut off, or else no end
token at all: the
tokens are of the same length, so that where the first does not fit the last does
not either. Without an end token the capture cannot resolve.
Nothing is said of how full the buffer was before the batch.

`UploadSaved` rests on `UploadInv`: of the lines that an upload has sent, the core
has run a first part and the rest wait, in order and none missing (`Pending`),
and the core holds what that first part left (`VmAt`): it collects, or not, and of
the upload's lines it has exactly the ones so far. Other functions send no word of
the protocol, so that their lines add to what is collected and do nothing else.
`OneUpload` is a real restriction: the page lets a user start a second upload
beside the first (see 7).

`TimerInv` adds to `WaitsAreTimed` that two functions never wait for the same
capture, and that a function which the first gesture starts was idle before.

Only model-checked: the nine properties that need fairness (`QueuesDrain`,
`LinesRun`, `RestartUnlessPortLost`, `TickServed`, `KeepsTicking`,
`IntensityArrives`, `Reconnects`, `TasksEnd`, `LoopComesBack`). Liveness under fairness is outside TLAPS' reach.
`RetryPending`, `WriterOwned`, `LinkUsable`, `NoPortLeaks` and `UploadSaved` are
proved under the
restrictions the table names.

## 6. Findings

*Lost restart.* The repository's README (line 38) gives `^^i` as "Restart the VM". `viii_loop`
clears `reinit_requested` (main.c:59) before it sends 16 All Notes Off messages.
When the selected MIDI output was unplugged, the first `midi_tx` throws, the loop
is left, and nothing asks for the restart again: TLC finds the loop going on for
ever with the old VM (`main_loop_restart`). `RestartUnlessPortLost` states what
does hold, and `NoOrphanNotes` the merit of that order: a VM is never replaced
while its notes sound.

*Read error.* The comment at bridge.js:674 leaves the cleaning up after a read
error to the serial `disconnect` event. A read also fails, with the device still
there, on a buffer overrun or a framing error; then no event comes. The page has
`gridConnected = false`, the C side still `grid_connected`, and the port stays
open with its writer locked (`grid_link_read_error`), so that a later `open` of
it is refused. `RetryPending` excepts this state by name, and `Reconnects`, which
goes by the C side, says nothing of it.

## 7. Not modelled, and why

* *Lua, vendored headers, flash and pico shims, page, service worker*: third-party,
  empty, or static. Lua is most of the repository's lines.
* *The iii core* (`vm`, `repl`, `lib.lua`): a git submodule that is absent. What it
  does is modelled from what the code relies on.
* *Arc rings*: see the table in 1.
* *MIDI input*: the menu and the filter of messages keep no state beyond the
  selected input; its events enter `MainLoop` as `EventArrives("midi")`.
* *Events of an old VM*: queues and pending metros survive a restart, so that the
  new VM is handed indexes it did not choose. Nothing in the code or its docs
  says what it should do with them.
* *Keys before discovery*: a press can be routed as a grid key and its release as
  an encoder key (device_web.c:172); `MextRx` has the routing, and no property
  forbids it, for it happens.
* *A connection made before the module is loaded*: `viii_grid_connect` is called on
  `null` and throws with `gridConnected` already set (bridge.js:556). `GridLink`
  starts with the module loaded.
* *Overflow of the receive buffer*: `rx_w` is a `uint16_t` and wraps at 65536 bytes
  between two ticks; `MainLoop` and `Repl` bound the lines of a batch instead.
* *Two uploads at once, run and download of files*: the second upload collects
  into the first one's file; the page does not prevent it. The run of `Repl` starts
  one, and `OneUpload` is a hypothesis of `UploadsAreSaved`.
* *Exceptions in the middle of a batch* are in `MainLoop` only, not in `Repl`.
* *Memory beyond an allocation*: a read through a handle whose file was removed, or
  past what was ever allocated, is undefined in C; `FileSystem` has it give `junk`.
  `viii_fs_clear` is exported and nothing calls it.
* *A page closed between the two requests of a rename* finds neither copy when it
  is loaded again: the file is lost. `FileSystem` has the step, and no property
  forbids it.
* *Coalescing of writes* into one microtask (bridge.js 500-742): bytes keep their
  order; `GridLeds` has a write arrive whole or not at all. `GridLink` and
  `GridLeds` are not composed: `link` stands for what the first does to the
  bytes of the second.
