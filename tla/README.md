# A TLA+ model of ResoniteIO

ResoniteIO drives the Resonite client from outside. A BepInEx mod inside the
game (C#, `src/mod/src`) serves gRPC over a Unix domain socket, one service per
*modality* (Locomotion, Grabber, Microphone, Inventory, ...); a Python library
and command line (`src/python/src/resoio`) are its clients. This directory holds
TLA+ modules of its concurrent core, of the command line and of the launcher, TLC
configurations that check them on small instances, and proofs checked by TLAPS.

## 1. The system

### Parts

A modality has the same four layers: a proto service
(`src/proto/resonite_io/v1/*.proto`); a gRPC service in
`ResoniteIO.Core/<Modality>/` that validates and translates; a bridge interface
there; and its implementation `ResoniteIO/Bridge/FrooxEngine<Modality>Bridge.cs`,
which reaches into the engine. gRPC calls arrive on thread-pool threads. The
engine has one thread that updates its worlds, and may be touched only from it.
A bridge crosses over in one of three ways:

* **dispatch**: `EngineDispatch.RunOnEngineAsync` posts a closure to the focused
  world and awaits its result (Grabber, Cursor, World, Dash, Display, ...);
* **repeater**: a closure that `RunInUpdates(1, ...)` queues again in every update
  (Locomotion, Microphone, the hold repeater of Grabber);
* **no crossing**: awaiting cloud calls from the gRPC thread (Inventory, Auth, Contact).

| component | state it keeps | operations | what is hard |
|---|---|---|---|
| Locomotion | the latest input, pending reset flags, jump pulse, repeater flag and bound world | Drive stream, Reset, disconnect notices, ticks, world focus, Dispose | three kinds of threads meet under one lock that is released between deciding and scheduling; resets are deferred; a client may die |
| Grabber | held buttons, repeater flag and generation, what hands hold (engine) | Grab, Release, Use, Unuse, Equip, Dequip, GetState | calls wait in a world's queue while focus moves and worlds close |
| Microphone | ring buffer, device registration and override, repeater flag and bound world | audio stream, disconnect notices, ticks, Dispose | overflow and wrap-around, a drain that writes outside the lock, graceful against broken ends |
| Inventory | none: the record tree is in the cloud | List, Stat, MakeDir, Copy, Move, Remove, Spawn, thumbnail | each operation is many round trips; any may fail; two calls interleave |
| Cursor | the lock, the world it was registered in, a held flag | SetPosition, Release, GetState, Harmony postfix, Dispose | an un-awaited unregister in the old world; Dispose on another thread |
| World | none: the engine's world list | list, join, start, focus, close | polling with timeouts; partial effects of a timed-out call |
| Session, Dash, Context menu, Display, Contact, Auth | next to none | one or two closures per call | partial application, matching of UI |
| Camera pipeline | in-flight readback, capture texture, channel of one frame | capture, send, receive, stream | two processes; resize between request and readback; drops |
| Speaker | bounded channel, frame counter | audio tap, stream | drops at the limit |
| Hosting | socket file named by pid | bind, purge, shut down | crash leftovers, double shutdown |
| Socket discovery, client base | a channel, whether the version was probed | resolve a socket, open, call, close | sockets left behind, pids that return, engines that hang |
| Launcher | none: the process table is the system's | launch, terminate, terminate_all | processes come and go between any two looks; pids return |
| Lifecycle, Connection, Info | none | shutdown, ping, wait, read-only facts | which errors mean what; deadlines |
| Command line | none between commands | some sixty subcommands | several calls of which each may fail; a listing that ages; what is printed when |
| Recorder | latest frame, time stamps, container | record | coroutines that only an await lets run; a file to finish however it ends |
| Drive and microphone commands | keys held, a queue; samples sent | drive, mic | wake-ups that may be lost; pace; a thread in a read |

What makes each correct, in a sentence: *Locomotion*: what the engine is told is
what was last asked for, a safety reset always takes effect, nothing happens
after Dispose. *Grabber*: a held button is injected on every update in the world
it was used in, by one tick, and a call that succeeds loses no object. *Microphone*: samples come
out in order, none vanish uncounted, and the system's default microphone stays the one
somebody chose. *Inventory*: an operation is what the shell
command of its name is, and cut short it leaves nothing lost. *Cursor*: the
position reported as held is locked. *World*: a refused operation leaves no world
behind. *Camera, Speaker*: a frame's header describes its pixels, order is kept,
nobody blocks. *Launcher*: launch returns its own processes, and termination kills all
it should and nothing else. *Command line*: what is refused has changed nothing, what
is printed is what happened, it reaches the engine and the control that were named, and
it ends. *Recorder*: the file is whole however the recording ends, and it does end.
*Drive, mic*: what the user gives is sent once, in time and in full.

`PROJECT.json` lists all components with their sources and status, and the
hazards at the lines where they bite.

### How components interact

* Focus and disposal of worlds are engine events every bridge depends on: module
  `Worlds` holds them and every other module extends it.
* A bridge's `Dispose` runs on the shutdown thread (`ResoniteIOPlugin.SafeShutdown`)
  while ticks are still queued and gRPC threads are still inside calls.
* A service notices the end of a client's stream (completed, cancelled, broken)
  and tells the bridge why it ended; there is one bridge and there may be several
  streams.
* A command is one process with one event loop (`asyncio.run`). It finds a socket,
  opens a channel, makes its calls and closes it; the engine may go at any of these
  points. `record`, `drive` and `mic` run several coroutines, which yield at an `await`
  and nowhere else.
* `launch` and `terminate` speak to no engine: they look at the process table and send
  signals.

## 2. Modules

| module | models | extends |
|---|---|---|
| `Worlds` | which worlds are open and which is focused (external) | |
| `Repeater` | the repeater chain shared by the Locomotion and Microphone bridges: running flag, bound world, queued ticks, starts in flight, refocus, scheduling failure, Dispose | `Worlds` |
| `Locomotion` | `LocomotionService`, `FrooxEngineLocomotionBridge`, `LocomotionClient` | `Repeater` |
| `LocomotionProofs` | theorems about `Locomotion`, with the lemmas on the repeater's steps they need | `Locomotion`, `TLAPS` |
| `EngineDispatch` | a unary call: resolve the world, post, await, cancel | `Worlds` |
| `Grabber` | `GrabberService`, `FrooxEngineGrabberBridge` | `EngineDispatch` |
| `SingleTick` | abstract hold repeater: one tick that matters | |
| `GrabberProofs` | theorems about `Grabber` | `Grabber`, `FiniteSetTheorems`, `TLAPS` |
| `Microphone` | `MicrophoneService`, `FrooxEngineMicrophoneBridge`, its ring buffer and the client | `Repeater` |
| `DropOldest` | abstract queue that drops its oldest samples | |
| `MicrophoneProofs` | theorems about `Microphone`, with the lemmas on the repeater's steps they need | `Microphone`, `SequenceTheorems`, `TLAPS` |
| `Inventory` | `InventoryService`, `FrooxEngineInventoryBridge` against the cloud | |
| `InventoryProofs` | theorems about `Inventory` | `Inventory`, `SequenceTheorems`, `FiniteSetTheorems`, `TLAPS` |
| `Cursor` | `CursorService`, `FrooxEngineCursorBridge` with its Harmony postfix | `EngineDispatch` |
| `CursorProofs` | theorems about `Cursor`, on lemmas about dispatched calls | `Cursor`, `TLAPS` |
| `Camera` | `FrameCapture`, `FrameSender`, `RendererFrameInterprocessReceiver`, `PushedFrameCameraBridge`, `CameraService` | |
| `CameraProofs` | theorems about `Camera` | `Camera`, `SequenceTheorems`, `TLAPS` |
| `Launcher` | `launcher.py`: `launch`, `terminate`, `terminate_all` over a process table | |
| `LauncherProofs` | theorems about `Launcher` | `Launcher`, `FiniteSetTheorems`, `TLAPS` |
| `Clients` | the Python clients (`world.py` to `inventory.py`): what each method calls, and the match of a label | |
| `CommandTable` | the subcommands of `cli/` that do not stream: what each refuses, calls and prints, in order | `Clients` |
| `Commands` | `_client.py`, `wait_for_ready`, `main`: the commands run, one after the other, against engines and a dash that change | `CommandTable` |
| `Recorder` | `cli/record.py`, `cli/_recording_io.py` | |
| `Drive` | `cli/drive.py` and `LocomotionClient` | |
| `MicFeed` | `cli/mic.py` and `paced` | |
| `StreamCommands` | the three as the streaming commands of one process | `Recorder`, `Drive`, `MicFeed` |
| `CommandProofs` | theorems about the command line: `StreamCommands`, with the lemmas about its three parts, then `Commands`, with those about the table | `StreamCommands`, `Commands`, `SequenceTheorems`, `FiniteSetTheorems`, `WellFoundedInduction`, `TLAPS` |
| `MC...` | instances for TLC | |

Definitions keep the names of the methods they translate; `PROJECT.json` `map`
gives each its lines. Some definitions come with a variant marked *Mutant*: a
plausible bug in that code, which no specification uses; each property has one
that breaks it.

### Conventions

* A step of an action is what runs under one lock, or between two awaits. Where
  the code decides under the lock and acts after it (`EnsureRepeaterStarted`, the
  write of drained samples, `InjectHeld`), these are two steps and anything may
  come between. A read of the volatile `_disposed` directly before a lock is
  merged with the locked section that repeats it.
* The engine thread runs one closure at a time: a tick in progress (`tick`) or a
  continuing one (`step` in `Grabber`) keeps other engine-thread steps out, but
  neither gRPC threads nor Dispose.
* Focus may go to any open world or to none. A world may be disposed at any
  moment, which takes its queue with it; a disposed world never returns. Worlds in
  the background go on updating. `RunInUpdates` on a disposed world drops the
  closure or throws: both occur.
* Numbers that only ride along (speeds, angles, strengths, sample values, times)
  are abstracted: a group of the locomotion input is `Neutral` or a commanded
  value, a sample is its serial number.

### Locomotion and its repeater

`Repeater` splits `EnsureRepeaterStarted` into the claim under the lock
(`Ensure`) and the call of `RunInUpdates` (`Schedule`, `ScheduleFailed`), with the
argument the caller read earlier. `Reschedule` is the end of a tick, which puts
the next one on the world bound *now*, as `TickStep` does. `OnWorldFocused`
rebinds. `Locomotion` adds the partial merge of commands, deferred resets
(`pendingReset`), the jump pulse with its second latch, the reasons for which a
stream ends, and Dispose. The history variables are `jumpsSent`, `jumpsFired` and
`fresh`, the groups commanded since the last reset that named them.

### EngineDispatch and Grabber

A call of `Call` resolves the focused world on its own thread, then posts, then
awaits; its caller may give up at any point, upon which its closure still runs
and its result is ignored. A closure resolves the focused world again, which may
be another one: so does the code. `Grabber` runs the bodies in one step, except
`UseAsync`, which also starts the repeater. The engine calls in the bodies that move
objects may throw: the call then fails with what was done by then, in `EquipAsync` with
the tool released and not equipped (`HandOver`). External to the model is that `Equip`
refuses what `CanEquip` refused a moment before, and nothing else.

### Cursor

`locked` is the engine's side: the worlds whose input has the bridge's lock.
`held` and `lockWorld` are the bridge's fields; `_lock` is null exactly when
`_lockWorld` is. `ApplyHold` is split in two, since Dispose runs on another thread:
it queues the removal in the world left behind and registers the new lock, and
`EnterHold` writes the fields. No other closure and no change of focus comes in
between; gRPC threads, Dispose and a world that closes may. A queued removal is the
closure `Unregister` in the queue of its world, among those of clients, and each
world takes its queue in order. Dispose is three steps (`Unhold`, `QueueUnregister`,
`UnpatchSelf`). Two history variables name the cases in which the code gives no
guarantee: `doomed` (a lock went in where a removal was still queued) and `late`
(a hold was applied beside or after Dispose).

### Microphone

The ring buffer is modelled with its indices (`readIndex`, `writeIndex`, `count`)
so that wrap-around and overflow are those of the code, at a capacity of 3
instead of 48000. Dispose continues in the code's order: revert the override
(`RevertOverride`), remove the device and reset the ring (`RemoveDevice`). Each is in a
`try` of its own, so each may fail and the rest goes on. The engine's list of inputs and
the override, an index into it, are state: `Remove` moves up what comes after, and another
mod may choose the user's device or append one of its own (`OtherOverride`). `chosen`
remembers what the override was last set for.

### Inventory

The cloud is a function from ids to records. Every round trip is a step, and a
call may fail at each: `Fail` also stands for a save that reached the cloud and
whose answer was lost, since the failure may come after the step as well as
before it. The tree is read once by `Resolve` and `ListDirectory`, and written one
record at a time by `WorkOff` in the order of the code. A MakeDir goes through the
engine's live model first; cancelling it does not call the queued closure off
(`LateAdd`). `before` keeps the tree a call started from for as long as nobody else
writes, so that properties can compare with it.

### Camera

The one module with two processes. The renderer's steps all run on Unity's main
thread, so each is one action: an `Update` (`TryCapture`, with the texture made anew
when the window has another size), the readback's callback (`OnReadback`, which sends)
and `OnDestroy`. The window changes size in between (`Resize`). `readbacks` holds the
sizes the requested textures had, `inFlight` is the flag that keeps it to one, and the
history variable `torn` has the frames during whose readback the window changed. That
`AsyncGPUReadback.Request` itself throws, which would leave the flag up for good, is left
out.
`Attach` leaves open whether there is a camera and whether making the texture succeeds.
A send succeeds or not: the shared-memory queue of `QueueCapacity` frames may be full.

In the engine the receiver's callback is two steps, `OnFrameReceived` and `Push`,
between which the shutdown may dispose receiver and bridge. The bridge's channel keeps
one frame, and each `StreamFrames` loop takes it (`CaptureAsync`), writes it
(`WriteAsync`) and comes back. A completed channel still gives its last frame. Frames
carry their id, the size in the header and the size their pixels were read at, which
is what the receiver can and cannot tell apart. The renderer does not come back after
`OnDestroy`, and the pace a client asks for is left out: a `WriteAsync` may take as
long as it likes.

### Launcher

The process table is state, and so is what a process is, whether it is alive or a
zombie, who launched it (the token in its environment), its parent and its number in
the order of creation, which is what psutil compares. Between any two looks of Python
at the table a process may start with any free PID, exit, be reaped, or be reparented
when its parent goes. `launch` is a sequence of such looks: refusals, two snapshots,
the spawn, and the polls, whose deadline may come at any time. A stop goes through pairs
(`NextPair`) and, for each process of one, `Open`, `Check`, `Signal` and `Finish`: the
lines of `_kill_pid` between which the PID may change hands. A call that raises is at
`error` (`LauncherError`) or `escaped` (`psutil.NoSuchProcess`, which nothing catches).
The iteration order of psutil is left open. `seen`, `owners`, `mixed` and `alone` are
history. A process is the engine or the renderer of the install, which the scans find by
their whole path, or a program elsewhere whose path ends as theirs does
(`engineLike`, `rendererLike`), which the check of `_kill_pid` cannot tell from them, or
another. A `kill()` ends its process at once; the code does not wait for it.

### Clients, CommandTable and Commands

A method of a client is the sequence of steps it takes: mostly one call, with what the
call does to the engine, what an exception does to the command around it and what an
answer without a payload does. A command is its words, its format and its steps;
`CommandTable` has one for each combination of arguments that makes a difference to the
steps, and only for those. `Commands` takes them a step at a time. A call is sent
(`Send`) and answered later (`Answer`, `AnswerStatus`, `Disconnect`), and the engine may
hang, or go, in between. `Resolved` is the discovery of `_client.py`: of the sockets
whose PID exists, the one there is; a socket that a crash left counts while another
process has its PID (`squatted`). The version probe and `wait` have steps of their own.
`seen` is the numbered listing on the user's terminal. `SocketOption` has argparse
overwrite a `-s` given before a nested subcommand by the default of the inner parser.

### Recorder, Drive, MicFeed

Each is a main task with its coroutines. What runs between two awaits is one step, but
for the pacer of `Recorder`: `PaceEmit` and `PaceNext` are steps with time in between,
and while it is in them (`Busy`) no other coroutine moves. The clock counts steps
of `StepMicros` and so can be finer or coarser than the ticks of the container, which
makes stamps collide. The container is external: what counts is whether the size was
known when the first packet was muxed, whether stamps advance, and that the packet the
encoder keeps back is there before the trailer. The mp4 route without sound has no
stamps of its own, its encoder counts. What a consumer raises, a broken pipe (`pipe`) or
a failing encoder or disk (`output`), leaves the generator of the pacer to the
collector. A producer that has failed puts its exception in the place of the end, and in
video-only mode of a cancellation too, as the pacer's `finally` awaits it.

`Drive` has the keys, the event, the queue of `LocomotionClient` and the bridge's copy
of the last command (`avatar`), behind which stands module `Locomotion`. `MicFeed`
counts samples; the read of standard input is a thread (`reading`), which a cancelled
main task leaves behind and the process waits for. `--duration` may be negative, as
nothing refuses that. A stream that fails ends `mic` with status 1, one that breaks off
with status 0 and no summary (`MicFails`). `StreamCommands` runs one of the
three per behaviour, as a process does.

## 3. What is checked

| run | question | result |
|---|---|---|
| `Locomotion` | does the bridge tell the engine what clients asked, through refocus, reset, crash and Dispose? | holds |
| `Grabber` | are held buttons injected by exactly one tick, in their own world, and does an object leave the hands only where the call asked for it or failed? | holds |
| `GrabberLiveness` | does a Use take hold, does a call return? | holds |
| `Microphone` | does the override mean the microphone it was set for, do samples keep order and count, is the ring a drop-oldest queue, does it drain? | holds |
| `Inventory` | is an interrupted operation harmless, and a finished one complete? | holds |
| `InventoryRefusal` | does a refused call change nothing? | no: an empty directory stays |
| `Cursor` | does every lock get hidden or removed, is a reported hold in effect, does Dispose let go? | holds |
| `Camera` | do frames keep their order, reach one client each, have the size they state unless torn by a resize, and does nothing wait for ever? | holds |
| `Launcher` | is nothing signalled but what was asked for, all that was found, in pairs of one instance, and does launch return its own? | holds |
| `Commands` | do refusals change nothing, documents mean success, numbers mean the control listed, `-s` reach every channel, commands end? | holds |
| `StreamCommands` | are files whole, readers ended, keys and samples sent once and in full, and do the commands end? | holds |
| `RecorderDuration` | does a recording with `--duration` end? | no, if encoding is too slow |

The two that fail are bugs; `PROJECT.json` `findings` quotes what they contradict.

**InventoryRefusal.** `CopyAsync` saves the new root before it looks at `recursive`.

**RecorderDuration.** The pacer sleeps until the next frame is due. If encoding one
takes as long as it lasts, none is left to sleep: the pacer yields the next frame
without an await, the consumer encodes it without an await, and the event loop never
gets a turn. The producer cannot bring another frame, the timer of `--duration` cannot
fire and the first Ctrl-C is not delivered.

### Where the code does not do what its comments say

Met while modelling; the models do what the code does, and their properties are stated
so that they hold in spite of it.

* `FrooxEngineLocomotionBridge.cs:37-39`: the old world's tick is said to end after a
  switch. `TickStep` compares the *bound* world with itself, so the tick still queued in
  A continues on B and two chains run there. (`Grabber`'s repeater carries a generation
  and does converge, which its refinement of `SingleTick` shows.)
* `locomotion.proto:8-9`: a client need send a value once. A reset is applied by the
  next tick to the state of that moment, so a command merged in between is wiped.
* `FrameCapture.cs:173-175`: a readback in progress at a resize is said to be dropped,
  its callback finding no texture. The texture is replaced within one call, so the
  callback finds the new one and sends the old pixels under the new size. The receiver
  compares bytes with width times height, so a frame of the same area gets through;
  `HeadersTrue` shows that no frame but the one in flight at the resize is affected.
* `launcher.py:896-900`: `_kill_pid` is said to raise for a live PID that is not a
  Resonite process of the role. `_argv0_endswith` compares the end of the path only, so a
  PID that has gone to another program under some `dotnet-runtime/dotnet` passes.
* `FrooxEngineMicrophoneBridge.cs:360-362`: an override that another mod has set since is
  said to be left alone. The index is, but removing the bridge's device shifts the list
  under it, so that it comes to mean the device after the one that was chosen.
* `cli/drive.py:13-14`, `locomotion.py:19`: Ctrl-C is said to drop the stream and reset
  the avatar. `LocomotionClient.__aexit__` ends the stream gracefully on the way out, so
  the bridge keeps the last command (`InterruptDrive`, `LeaveClient`).
* `cli/__init__.py:85-86`: `-s` is said to stay in step across commands. Given before a
  nested subcommand it is overwritten by the inner parser's default.
* `cli/dash.py:70-72`: an index is said to be one of the `ls` listing. `ls --all` numbers
  disabled controls, `invoke`, `scroll` and `highlight` do not.
* `cli/mic.py:83-86`: `--duration` is said to stop the stream after so many seconds. A
  negative one sends all of a file but its end (`samples[:max_samples]`), and nothing of
  standard input (`Sliced`, `StartRead`).
* `lifecycle.py:110`: any failure before the PID is known, several engines among them,
  reads as "not running", with exit code 0.

### Properties worth a note

* `ChainNotLost`: the running flag may only be up while a tick is queued or about
  to be, or the bound world is disposed. Were it broken, `SetState` would never
  start a repeater again.
* `ResetHolds`: a group no command has touched since the last reset naming it is
  neutral, in the state held and in the tick under way, or its reset is pending.
* `HoldsKept` counts *live* ticks (those of the current generation): never two,
  and one whenever a button is held in a focused world; and no button held belongs to
  another world. The flag cannot express this, since the tick it stands for may have
  gone with a closed world.
* `ImplementsSingleTick`: the abstract repeater has one phase and injects what is
  held; older ticks must map to stutters.
* `LetGoOnAccount` is about what a client may conclude: `EquipAsync` asks `CanEquip`
  first, so that a refusal leaves the tool in the hand; an exception between its `Release`
  and its `Equip` does drop the tool, and then no client is told that all went well.
* `OverrideKept` follows an index through removals. `Exposed` names the two cases in which
  the code gives no guarantee: an override that could not be taken back before its device
  went, and one of another mod whose device comes after the bridge's in the list, which
  its removal moves up by one. Removing the device before the override is taken back
  would expose every Dispose.
* `SamplesKept`: samples come out in order, and samples appended = written + on their
  way + dropped + cleared.
* `WritesStayWhole` holds at every step of a call, hence wherever it is cut short. It
  and `DoneMeansDone` speak of calls beside which nobody writes: the code has no
  isolation to offer beyond that.
* `OrderedOnce` follows every frame from the readback in flight to each client as one
  sequence of ids, across the processes and the streams that compete.
* `HeldIsLocked` excludes `doomed` holds, and `DisposeReleases` excludes `late` ones:
  both would fail without. A closure posted to B may run when the focus is back on A,
  where the removal queued by an earlier switch then takes the new lock away with
  `_held` still up. And Dispose lowers `_held` on the shutdown thread while `ApplyHold`
  may be about to raise it. What the properties show is that nothing else goes
  wrong; a hold posted to the world it locks is safe, since the queue is in order.
* `OnlyAsked` rests on two things together: the look at `argv[0]`, which names the
  PID, and psutil's creation time, which names the process. Neither is enough when a PID
  returns. It promises no more than the check does: what is signalled ends in the path
  of the role. Only a process that the scan had found by its whole path, and that still
  has its creation time, is known to be Resonite.
* `TerminatesWhole` speaks of calls that return: a process that goes at the wrong moment
  raises out of the call, and the instances after it stay.
* `DocumentIffSuccess` is about the order of calls and output in every command: printing
  before the last call that may fail would break it. Commands that print lines as they
  go are read in JSON only.
* `AsksNamedEngine` and `IndexAsListed` leave out the two cases in which the code does
  otherwise (above).
* `FileWellFormed`, `PacerSound` and `StreamsEnd` quantify over every point at which a
  recording may be cut and every cause. `PacerSound` leaves one out by name: a consumer
  that failed (`ConsumerFailed`) leaves its generator to the collector, and with it the
  reader. That the trailer itself cannot be written, which the code passes over in muxed
  mode, is not modelled.
* `KeysSent`: the send loop clears the event before it reads the state, so a key that
  comes between is emitted twice rather than never; a jump is not.
* `FeedSound` compares what was sent with the input and `--duration`, at every point where
  `mic` may be cut short, and once the summary is printed. It has nothing to say of what
  status 0 means, since a broken pipe ends with it too, nor of a negative `--duration`.
* `DisposeIsFinal` begins where Dispose has returned: it stops ticks from setting out,
  not one that is on its way.

### Bounds

| bound | value | why enough |
|---|---|---|
| worlds | 2 (1 where focus is not the question) | a binding is to this world or to another; two chains need two |
| `MaxFocus` | changes of focus: 1, 2 for the cursor run | a chain goes wrong at one switch; coming back to a world needs two |
| `MaxCalls` | 2 commands or resets | one to set, one to reset or overtake |
| streams | 1; 2 for the camera | a second stream acts on the same bridge as a second call does; camera streams compete for frames |
| `Call` | 2 to 4 requests, chosen to collide on a hand, a button, a path or the lock | three holds leave a world and come back to it |
| `Impatient` | the calls whose client may give up: those of `Grabber` that use, unuse or equip, one hold of `Cursor`'s | a call given up differs from others only in that its answer is dropped |
| `PinUpdates` | 2 (60 in the code) | first, middle and last update are told apart |
| ring capacity, `MaxTick`, `FrameSize`, `MaxFrames` | 3, 2, {2, 4}, 3 | a frame that fits, one that overflows, one larger than the ring, at every offset |
| `Size`, `MaxResizes` | 3x2, 2x3 and 2x2; 1 | a resize that keeps the area and one that does not |
| `QueueCapacity`, camera's `MaxFrames` | 2, 3 | a full queue, a frame dropped from the channel, one for each stream |
| `MaxOpen` | 2 calls under way | |
| tree | `/A`, `/A/B`, `/A/B/X`, `/A/X` | a subtree two levels deep with a name at two depths |
| `Pid`, `MaxProcess` | 4, 4 | two whole instances at once, or one and two that take its PIDs |
| `Launch`, `Stop` | 2, 1; not at the same time | to each other they are processes that come and go, which there are anyway |
| `Engine`, `MaxChange` | 2, 1 change while a command runs | one named and another; the change may hit any of the calls a command makes. `MCCommands` narrows further: `-s` names `e1` or nothing, `e2` is down or ready from the start, commands of the dash see one engine and the others a fixed panel, and a second command follows `dash ls` only, whose listing is all that one leaves for the next |
| `Panels` | two listings with a disabled control, of different order | a number that changes its meaning |
| `StepMicros`, `Period`, `MaxStall`, `Samples` | 20, 1, 2, 1 | a stall of one frame, which leaves no time to sleep, and of two |
| `MaxTime`, `MaxPts` | 1, 3 | a stamp before and after the anchor; frames that are repeated, or come with an older stamp, make `Advanced` correct what would collide |
| `MaxKeys`, `Axis` | 3; one two-way, one one-way | toggle, opposite and back; a jump in between |
| `Chunk`, `Warmup`, `MaxSamples`, `MaxWait` | 2, 1, 9, 4 | a partial chunk, a burst, a paced rest of three; `--duration` from -9 to 9, so past either end of the input |

Deadlock checking is off: with bounded inputs and after Dispose the system really
stops.

### Fairness

`FairSpec` assumes weak fairness of what keeps running by itself: threads already
inside a call, the engine's update of an open world, and the service's notice of a
stream that completed or broke. Nothing is assumed of clients, users, focus,
closing worlds, or failures. `Grabber` needs strong fairness of a world's updates,
since a step in progress keeps disabling them: the engine's loop does come back to
every open world. `Commands` assumes that an engine which is neither hung nor gone
answers, and that clocks run; `Recorder` that a coroutine which can go on does, and that
the timer of `--duration`, once due, fires when the loop gets a turn (strong fairness,
since a turn of the pacer keeps disabling it); `Drive` and `MicFeed` the like, and that
whoever writes standard input writes on or closes it. `Camera` assumes that the GPU answers each request and that a thread
waiting on the channel wakes up; not that clients read, nor that frames are received.

## 4. What is proved

`LocomotionProofs`, for any set of worlds, streams and bounds, from the constants'
assumptions in `Worlds`, `Repeater` and `Locomotion` only:

| theorem | property | argument |
|---|---|---|
| `TypeCorrect` | `TypeOK` | inductive as it stands |
| `RepeaterNeverLost` | `ChainNotLost` | inductive with `OnlyOpened` |
| `ResetStands` | `ResetHolds` | inductive given `TypeOK` |
| `PulseFiresOnce` | `PulseOnce` | inductive given `TypeOK` |
| `DisposeFinal` | `DisposeIsFinal` | from the invariant `Cleared` |

`ChainNotLost` alone is not inductive: a world could open that the repeater is
already bound to, and find no tick in it. `OnlyOpened` rules that out: the bridge and
every start in flight refer only to worlds that have been opened. Their
conjunction is `ChainInv`. `Cleared` says what Dispose leaves behind: the flag down
and nothing bound, so that no tick finds a world to go on with and no thread can
bind one again.

`CursorProofs`, for any set of worlds and calls and any bound on
changes of focus, from the assumptions of `Worlds`, `EngineDispatch` and `Cursor`:

| theorem | property | argument |
|---|---|---|
| `CursorTypeCorrect` | `TypeOK` | inductive as it stands |
| `LocksAreHidden` | `LocksHidden` | from `CursorInv` |
| `HeldStaysLocked` | `HeldIsLocked` | from `CursorInv` |
| `DisposeLeavesNone` | `DisposeReleases` | inductive given `CursorInv` |

`CursorInv` centres on the one lock that *stands*: that of the fields, or the one an
`ApplyHold` in progress has registered. `LocksTracked`: every other lock is leaving,
and the standing one belongs to a world that has been opened, so that no world opens
with a lock. `FieldsAgree`: before Dispose, a world in the fields is held, and an
unpatched bridge has let no call through. `NotLate`: with Dispose begun and no hold
late, nothing is in progress or held. `LockStays`: a standing lock that went in
undoomed is there and has no removal queued; removals are queued only for locks that
no longer stand. None of the three safety properties is inductive alone: each needs to
know what an `ApplyHold` halfway through will write.

`CameraProofs`, for any sizes, streams and capacity, from `CameraAssumption`:

| theorem | property | argument |
|---|---|---|
| `CameraTypeCorrect` | `TypeOK` | inductive as it stands, in three parts: renderer, bridge, streams |
| `HeadersAreTrue` | `HeadersTrue` | from `Steady`, `ToldInv` and `FitInv` |
| `FramesInOrder` | `OrderedOnce` | from `OrderInv` |

`Steady` is what the renderer keeps: unless the frame being read back is torn, the window
still has the size of its request, and so has the texture if there is one. `ToldInv`
carries what that says of a frame to every place it passes, and `FitInv` the receiver's
check to those after it. `OrderInv` extends `OrderedOnce`
backwards: for each client, the ids of what it was given, of what its stream has taken,
of the channel, the callback, the queue and the readback in flight rise in this order
(`LineInv`), and no id that one stream has is with another or still in the channel
(`ApartInv`). The second does not follow from the first, since each stream has its own line.

`GrabberProofs`, for any sets of worlds, hands, buttons, objects and calls and any bound
on changes of focus, from the assumptions of `Worlds`, `EngineDispatch` and `Grabber`:

| theorem | property | argument |
|---|---|---|
| `GrabberTypeCorrect` | `TypeOK` | inductive as it stands |
| `HoldsAreKept` | `HoldsKept` | from `HoldInv` |
| `BridgeIsSingleTick` | `ImplementsSingleTick` | step by step, from `HoldInv` |
| `HandsLetGoOnAccount` | `LetGoOnAccount` | step by step, from `TypeOK` |

`HoldsKept` counts live ticks over all queues, which no step can look at. `HoldInv` says
what the generation makes of them: no tick has a generation to come (`GenerationsPast`), a
live one is in one place only, be that a queue, the engine or a closure that is about to
queue it (`OneLiveTick`, `LiveInFocus`), the bridge's flag tells whether there is one
(`FlagTellsLive`), and a button held implies it, except for the moment between `UseAsync`
and its start of the repeater (`HeldIsLive`). The refinement maps the superseded ticks to
nothing: a step of one is a stutter, unless it had begun to inject before it was
superseded.

`InventoryProofs`, for any tree to begin with, any names and assets, and any number of calls
and of calls at once, from `InventoryAssumption`:

| theorem | property | argument |
|---|---|---|
| `InventoryTypeCorrect` | `TypeOK` | from `TreeInv` |
| `WritesAreWhole` | `WritesStayWhole` | from `TreeInv` |
| `FinishedIsDone` | `DoneMeansDone` | from `TreeInv` and `WholeInv` |

Not even `TypeOK` is inductive here, since what a call writes is computed from snapshots and
from paths that were checked some round trips ago. `TreeInv` has a part for each link:
`Staged` says where a call can stand, and that nothing is written off before all is
collected; `Gathered`, that what is collected starts with the root and has each record
behind the directory it is in, whatever other calls do to the tree meanwhile; `Known`, that
while nobody else writes the snapshots are of the tree the call began with; `MoveGoes`, that
each record is then where it was or where it goes; `CopyGoes`, that whatever was worked off
has its copy, which the next one finds its directory among. Calls beside which somebody
writes keep the first two parts only; `UndisturbedKeeps` shows that this is all they lose.

`WholeInv` adds what it takes to be *finished*, for a call alone with a tidy tree:
each record is collected once, a directory that is listed has all that is in it collected,
and the turns taken so far (`Worked`) have moved, removed or copied exactly their records.
That a listing brings nothing collected before takes most of the proof: a record with the
same directory would have been collected with that directory, and paths are unique, so it
was listed before. At the end `AllCollected` takes a record of the tree that is missing, of
the shortest path; the directory above it is not missing, and listed, and so is the record
itself. For a copy the clones are counted by a bijection with what was collected, since
different records below the source stay different below the destination
(`BelowInjective`).

`MicrophoneProofs`, for any capacity, sizes of chunks and ticks, streams and worlds, from
the assumptions of `Worlds`, `Repeater` and `Microphone` (chunks have a largest size, as
the length of an array in the code has):

| theorem | property | argument |
|---|---|---|
| `MicrophoneTypeCorrect` | `TypeOK` | from `IInv` |
| `OverrideIsKept` | `OverrideKept` | from `DeviceInv`, a part of `IInv` |
| `SamplesAreKept` | `SamplesKept` | from `IInv` |
| `RingIsAQueue` | `ImplementsDropOldest` | step by step, from `IInv` |

Neither order nor the sum of the samples is inductive, for they speak of `Content`, which
the next step reads through the indices. `RingInv` says what the buffer holds: from
`readIndex` on, around the end, the `count` newest samples, with `writeIndex` behind the
last. `Content` is then a window of the numbers up to `appended` (`ContentIsWindow`), and
the three ways a chunk goes in are one: extend the window, and cut it to the capacity
(`WindowExtended`, `WindowCut`). `TickInv` places what a tick has taken between what was
written and the ring, also when a Reset or an overflow moves the ring under it; `Balance`
is the sum.

`LauncherProofs`, for any finite set of PIDs and any number of launches, stops and
processes, from `LauncherAssumption`. (PIDs are finite because the code counts
what it finds.) The theorems are about `Spec`; the run checks
`MCSpec`, in which a launch and a stop do not overlap, and a program that is neither an
engine nor a renderer starts only under a PID that a stop has in hand:

| theorem | property | argument |
|---|---|---|
| `LauncherTypeCorrect` | `TypeOK` | inductive as it stands |
| `OnlyAskedIsHit` | `OnlyAsked` | from `StopInv`: a process that passed `Check` and still has its creation time is the one that was looked at, and what the scan found stays an engine or a renderer while it runs |
| `StopsEndInstances` | `TerminatesWhole` | from `StopInv` |
| `LaunchReturnsOwn` | `ReturnsOwn` | from `LaunchInv` |

What other processes do is one lemma (`TableMoves`): a step of the table keeps a process,
ends it, or creates one with a number no process had. `Tidy` says what that leaves true
of the table: numbers are bounded and differ among the living, and a parent is alive and
of its child's instance. `StopInv` ties what a stop has in hand to the table: none that it
found and that still lives is missing from what it has left (`Pending`), the process it
opened is known by its number (`Opened`, `Checked`), and the two of a pair are of one
instance (`Paired`). `LaunchInv` says that a launch with nothing beside it finds nobody
else's processes among the new ones (`NoIntruder`).

The first half of `CommandProofs`, about `StreamSpec`, for any sizes and axes and any period,
stall, chunk, burst and bound, from `RecorderAssumption`, `DriveAssumption` and `MicFeedAssumption`:

| theorem | property | argument |
|---|---|---|
| `StreamsTypeCorrect` | `StreamTypeOK` | from `StreamInv` |
| `FilesWellFormed` | `FileWellFormed` | `FileInv` and `Staged` |
| `PacerIsSound` | `PacerSound` | `Scheduled` and `ReaderInv` |
| `KeysAreSent` | `KeysSent` | `Answered` and `OnStream` |
| `FeedIsSound` | `FeedSound` | `Source` and `FeedStages` |

`StreamInv` is the conjunction of an invariant for each command. None of the properties
is inductive, and neither is `StreamTypeOK`, which bounds what only the rest of the state does.
`Scheduled` bounds how late a frame may be at each point of the pacer: a frame that
follows another without a sleep is exactly due, so a third one has to wait. `ReaderInv`
links the reader of the camera to the stages of the main task, `FileInv` the size of the
video to the gate of the audio pump and to what the encoder keeps back. `Answered` counts
emissions against keys: the queue of the Drive stream holds one per key and the first,
with one to spare while a change is unsent, and a jump that is held was not sent.
`OnStream` says why status 0 implies a graceful end. `Source` has the arithmetic of
`mic`: a file has sent whole chunks of what is wanted, and standard input never more than
`--duration` with the read that is out. `Complete`, which holds from the end of the stream
on and not after a failure, says in which of three ways it has come to its end.

The second half of `CommandProofs`, about `Commands`, for any engines, keys and panels and any
number of changes, from `ClientsAssumption` and `CommandsAssumption`. The theorems are about
`Spec`; the run checks `MCSpec`, which narrows what is typed (see the bounds in section 3):

| theorem | property | argument |
|---|---|---|
| `CommandsTypeCorrect` | `TypeOK` | from `CommandInv` |
| `RefusalsHarmless` | `RefusalIsHarmless` | `RefusesFirst` and `Refusing` |
| `OneDocument` | `DocumentIffSuccess` | `DocumentDue` and `Printing` |
| `IndexesMeanWhatWasListed` | `IndexAsListed` | `ChoosesListed` and `ListingInv` |
| `NamedEngineAsked` | `AsksNamedEngine` | `NamedInv` |

No property can be inductive alone, since what a process does next is in the steps it has
left. The proof has three layers.

* *The table.* `CommandOK` says what the steps of a command must be in their order:
  `Coherent` (what refuses comes before the first call that changes anything; a choice
  follows the listing it is made from; with `--format json` no failure is swallowed; no call
  follows what a dropped error leaves; a channel is closed before the next is opened),
  `Channelled` (each call is made through a channel) and, for json, `DocumentDue` (the one
  document is still to come and only the end of a channel comes after it, or the command is
  refused, or the document is out). `TableGood` proves it for every command of
  `CommandTable`, family by family; it is what would fail if a client's method or a handler
  changed its order. `MenuLines` does the same for the lines of the two shells.
* *What is left.* A process keeps a suffix of those steps, with the line of a shell before
  them. `SuffixCoherent`, `SuffixChannelled`, `TailOpened` and `RemainingSuffix` show that
  the conditions pass to what is left, after one step or behind a try block.
* *The process.* `Sound` relates what is left to what was done: once something was changed
  nothing ahead refuses (`Refusing`), while a remark is due nothing is printed (`Printing`),
  a process that asks for the version opens no channel before it closes this one
  (`Calling`), and before a choice the listing is the enabled part of the dash as it is, if
  the terminal still shows it (`ListedAs`). `RestSound`, `RemainingSound`, `StaysSound`,
  `EndsSound`, `SendSound`, `AgainSound`, `LineSound` and `StartSound` are what actions do
  to a process; the lemma for each action cites one of them.

`Enabled` counts the enabled controls up to a position, for the index of a listing;
`EnabledOnes` and `EnabledAll` show by bijections that it is a listing of the enabled ones,
and the listing itself where all are. The least position outside a try block exists because
the order of the naturals is well founded (`LeastNat`).

Each proof has one lemma for the initial state and one for the step, with a step
per action or group of actions. The inductive invariants were checked with TLC before they
were proved. Every safety invariant of the runs is a theorem. Only model-checked:

* the liveness properties (`CrashNeutralises`, `CallsSettle`, `SamplesDrain`,
  `CaptureGoesOn`, `CommandEnds`, `StreamsEnd`), which are out of the proof system's reach, as all that needs fairness is.

## 5. What is not modelled

* Ray geometry, numeric inputs, audio resampling, exceptions' texts and the
  mapping to status codes, logging: data no property speaks of.
* On the engine's side, operations that only read (GetState, GetPosition, Stat, Info,
  Ping); their Python clients and commands are there.
* The bridges of World, Session, Context menu, Dash, Display, Contact, Auth, Connection,
  Info and Lifecycle: their components are `partly` modelled, by client and commands.
* Speaker and Hosting, which are next in the plan.
* Encoders, containers and the classes gRPC generates, which are external.
* Spawn and thumbnails of Inventory, which do not touch the inventory.
* The components with status `not_modelled` in `PROJECT.json`, with their reasons.

## 6. Plan

Modelled so far: what runs every frame and is shared by threads (Repeater with Locomotion,
Grabber, Microphone), the many-step Inventory, the Cursor, the Camera pipeline, and the
Python side with its clients, commands, streaming commands and launcher. Next:

1. `World`: open, poll, time out; what a refused call leaves behind.
2. `Speaker`, the drop-newest sibling of `Camera`; then `Hosting`, whose purge and
   shutdown make the sockets that `Commands` takes as given.
3. Proofs of what `World` and `Speaker` come to promise.
