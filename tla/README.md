# kaonic-comm in TLA+

A verification project for the Kaonic communication daemon (`kaonic/`), its
over-the-air updater (`ota/`) and the protocols between them and their clients.
TLC checks every model on small instances; TLAPS proves the main invariants for
all values of the constants. Each definition follows the source;
`PROJECT.json` names the lines.

## 1. The system

`kaonic-commd` drives AT86RF215 radios and offers them to clients over gRPC (and
has code to do the same over a serial line, which the shipped `main` does not
create). `kaonic-ota.py` is a separate web service that replaces the daemon's
executable.

| Part | State it keeps | Operations | Who calls it |
|---|---|---|---|
| `mesh::network`, `mesh::radio_network` | `_mut`, rfnet's context and outgoing slot, `_running`, `_update_thread` | `start`, `stop`, `update`, `transmit`, callbacks `tx`, `rx`, `on_receive` | services (transmit), main (start), the update thread |
| `main`, `create_radio` | the radios, the services, the server | bring the radio up, build and wire the services, serve | the main thread |
| `network_broadcast_receiver` | the listeners | `attach_listener`, `on_receive` | update thread, under the network's mutex |
| `grpc_service` | `_tx_frame`, `_rx_frame`, `_frame_queue`, `_mut`, a condition variable | `Configure`, `Transmit`, `ReceiveStream`, `receive_frame`, `pop_frame` | one gRPC thread per call; the update thread |
| `radio_service` | networks and radios by number | constructor (starts the networks), `configure`, `transmit`, `attach_listener` | main, the services |
| `rf215_radio` | `_active_trx`, filter lines, chip registers, `_mut` (never locked) | `init`, `configure`, `transmit`, `receive` | Configure handlers, update thread |
| `serial_service` | `_is_active`, `_rx_thread`, buffers, `hdlc_processor` | `start_tx`, `stop_tx`, `tx`, `handle_packet`, `receive_frame` | controller, its thread, update thread |
| `hdlc`, `hdlc_processor`, `packet`, `serial` | the processor's `_in_frame`; the port's descriptor and mutex | escape, unescape, update, encode, decode, read, write | `serial_service` |
| `kaonic-ota.py` | files: app, backup, hash, version; the systemd unit | `upload_ota`, `validate_app_file`, `get_version` | one web-server thread per request; boot |
| rfnet, the AT86RF215 driver, gRPC, systemd | external (submodules and libraries, absent from the tree) | | modelled from how the code uses them |

**What is hard.** Handler threads that share buffers (`_tx_frame`, `_rx_frame`) and
the radio without a lock; polling for a slot around a mutex; a thread that is
started, stopped and joined; a bounded queue that forgets; configuration in dozens of
register writes that fail one at a time while the update thread transmits; a bring-up in
which every step may fail, and services that start while frames already arrive; power
failures between the file operations of an update; byte stuffing.

**What makes each part correct.** *Mesh*: an accepted frame is neither replaced nor
corrupted; stop leaves no thread and returns; callers get through. *Receive path*: a
bounded FIFO, each frame to one stream, the response holds the popped frame, what a
client reads is in order; a cancelled stream ends. *Start-up*: no thread runs on a
radio that was not found, and once the server answers, what arrives is queued. *Radio*: OK to a lone request means that it is applied, all of what the
service passes on of it, and frames go out under it until the next one begins.
*Serial*: framing is transparent, requests are handled, the thread's life is safe. *Updater*: a whole executable is always on the device, success
and rollback mean what they say, the boot recovers, every upload is answered.

## 2. Modules

| Module | Models | Checked by | Proved in |
|---|---|---|---|
| `Outbox` | abstract: what the network and the services promise a caller of transmit | (refined) | |
| `MeshNetwork` | networks, their update thread, start/stop, the transmit path of the services; implements `Outbox` | `MCMeshNetwork` | `MeshNetworkProofs` |
| `LossyFifo` | abstract: what the receive queue promises | (refined) | |
| `GrpcStream` | `receive_frame`, `pop_frame`, `ReceiveStream`; implements `LossyFifo` | itself | `GrpcStreamProofs` |
| `AtomicUpdate` | abstract: what an update promises | (refined) | |
| `OtaUpdater` | `kaonic-ota.py` with power failures; implements `AtomicUpdate` | `MCOtaUpdater` | `OtaUpdaterProofs` |
| `Hdlc` | `hdlc.cpp` as operators | | |
| `HdlcChannel` | escape feeding unescape, byte by byte | `MCHdlcChannel` | `HdlcProofs` |
| `SerialLink` | `serial_service` with `hdlc_processor`, `packet`, `serial` | `MCSerialLink` | `SerialLinkProofs` |
| `RadioInit` | `rf215_radio::init`, `spi::open` and the first configure, each step with its failure | `Node` | `NodeProofs` |
| `Node` | the daemon: `main`'s start-up over `RadioInit`, `MeshNetwork` and `GrpcStream` side by side | itself | `NodeProofs` |
| `Rf215` | what `rf215_radio::configure` computes | | |
| `RadioControl` | `Configure` and `rf215_radio::configure` step by step, by several handlers | `MCRadioControl` | `RadioControlProofs` |

Every operator described as "Variant of X" is a deliberately wrong X. No next-state
relation uses it: substituted for X it must break a property, which shows that the
property depends on what the code does.

### MeshNetwork and Outbox
`updateThread` is the place of the update thread in `radio_network::update`: `check`
(test of `_running`), `lock`, `rx`, `deliver`, `tx` (inside `network::update`, with the
mutex), `sleep`, `exited`; `off` means not joinable. A caller goes from `idle` over
`packing` (writing the frame object its service owns) to `lock`, `check` (rfnet's slot
busy?), `send` or `sleep`. Two unsynchronised writers of one object, or a reader
beside a writer, are undefined behaviour: the object holds `Torn`, or either payload.
`met` (a history variable) collects, per call, what other calls asked to send on its
frame object while it was under way; `AloneSendsOwn` says that a call with an empty `met`
sends its own payload. A torn access could also crash the process; that is not modelled.
The module number is checked after the object was written, so a refused call disturbs the
others like an accepted one.

`Outbox` is the network without its mutex, its polling, its threads and its frame
objects: one place for a frame; a call under way fills it when it is free, with what it
asked to send, or with what a call it met asked, or with a mixture of the two; no other
call replaces the frame, and it leaves once. `ImplementsOutbox` maps `asked` to `want` and
`outbox` to `slot`: the request is `Ask`, `Send` is `Accept` or `Refuse`, a
`Pack` that finds no such module is `Refuse`, the update thread's `UpdateSend` is `Leave`, everything else stutters.

### GrpcStream and LossyFifo
A frame is the number of its arrival. The assignment of the front frame to `_rx_frame`
is two steps (`PopBegin`, `PopEnd`) under the mutex; `Unpack` reads it without. The
first, empty response of a stream is part of `Open`. A write to the client is assumed
to return. `ImplementsFifo` maps `next` to the oldest frame queued and `taken` to the
frame each handler popped last: `receive_frame` is `Put` or `PutForget`, `PopEnd` is
`Take`, everything else stutters. `HandedInOrder` says what follows for the streams
together. `ResponsesInOrder` says what is left of it for each client, although `_rx_frame`
is read without the mutex: a stream may be sent a frame that another one popped, so a
frame may reach two clients or none, but of two whole frames in a row that one client
reads the second is the younger. `CancelledTakesOneMore` bounds what a stream whose client
is gone can cost the others: one frame.

### OtaUpdater and AtomicUpdate
`copy2` is three steps: truncate, data, mode. A file is `Absent`, `Partial` or an image
with an execute bit. `Crash` loses the threads and keeps the files; a completed write is
assumed durable. `Fail` is an exception in any file operation: the handler answers 500
and leaves everything as it is, as the code does. systemd may restart a daemon that
died, and a `Flaky` image may die at any time. Whether to roll back is asked of systemd
once more after the health loop: `HealthyAppIsKept` says that this never costs an app that
cannot die, because between its launch and the decision such an app is running
(`HealthInv`). The other direction is not claimed, since it is not so: a flaky app that was
down for the whole loop may be up when it is asked, and the upload is answered with success.

Nothing keeps two uploads apart: each runs in a thread of the web server, over the same
files and the same unit. `overlapped` (history) holds the handlers whose upload met
another; a copy of one of them may find its target gone, cut short or written by the
other (`Filled`). `Meets` bounds, for TLC, the moments at which a second upload may begin;
the theorems hold for every value of it.

What the device promises depends on its past. `tainted` is set when two uploads meet, and
when a backup is deleted while the app is not the one on record (an earlier failure left
the two apart); the next upload that met no other and completes its hash file resets it.
That is the condition under which the updater is safe, and `BootAlwaysRecovers` shows that
without it it is not. `stripped` is set when an interruption falls between the data of
a copy and its mode while the app is already the recorded one: an image that is uploaded
again is on record from its first upload, so after such an interruption the app is recorded
and not executable, and the boot, which compares hashes only, leaves it so. `BootRuns`
says that, short of `tainted`, this is the only way to a boot without an executable app.
`UploadNearsEnd` bounds the steps of an upload whatever it meets.

`Committed` is what a boot would end with: the backup if the app is not the recorded one
and the backup is whole, else the app. `UpdateIsAtomic` maps the abstract `image` to it.
Through the deletion and copying of files it must not move; it moves in one step,
`HashEnd`, when the last byte of the hash file makes the new app the recorded one. An
upload that goes wrong before is `Abandon`, what follows the decision (`ending`: the version
file, a rollback) `End`, a power failure `PowerFails`, a boot stutters. `Forfeit`, and an
`Offer` beside another upload, give the promise up.

### RadioInit and Node
`RadioInit` is `create_radio`: opening the SPI device, five GPIO lines, `rf215_init`,
`rf215_probe`, `configure`. `err` is the local of `init` to which the error of `spi::open`
is added and that no return reads; that no thread ever runs on a closed device
(`RunsOnProbedRadio`) therefore rests on the probe, which the module assumes to succeed
only if the chip was read. A GPIO request that throws inside a `noexcept` helper ends the
process (`terminated`), an invalid one ends `init` (`failed`): the daemon then serves
without a radio and must refuse what needs one.

`Node` instantiates `MeshNetwork` and `GrpcStream` over its own variables. `main` is the
place of the main thread; it starts the network (`Mesh!StartSpawn`, `StartStore`) and only
then attaches the listener. The components meet in `Deliver`: `Mesh!UpdateDeliver`, with
the network's mutex held, is at the same time `Grpc!receive_frame`, which needs the
queue's. While main is in `attach_listener` the loop of `on_receive` may find the listener,
miss it, or crash over the vector that is being changed (`DeliverRaces`). After the end of
the process (`dead`) nothing moves. `ImplementsMesh` and `ImplementsGrpc` say that
each component, seen alone, still does only what its own module allows, so that the
theorems about the components hold in the daemon (`ComponentsInvariant`,
`DaemonKeepsPromises`). `HoldersGoOn` is the safety core of freedom from deadlock: whoever
holds one of the two mutexes is at a place from which the code releases it, waits at
most for the queue's, and is served by a process that runs.

### Hdlc, HdlcChannel, SerialLink
`HdlcChannel` pushes what `escape` pushes and feeds each byte to the body of
`unescape`'s loop, after bytes of any value (`Noise`). If none of them is a flag the
decoder holds exactly what was encoded (`InStep`). A stray flag (`stray`) opens a frame
for the decoder, which then returns at the next flag, the opening one of the frame at the
latest, with the noise or with nothing (`OutOfStep`): `unescape` has no other way to get
into step, and `RoundTrip` states both halves. `Functional` ties the steps back to the
functions `Escape` and `Unescape`.

`SerialLink` reads one byte per step and keeps the stale byte after a timeout or a failed
read (`ReadNothing`: `bytes_read = 0` assigns, and an unsigned `bytes_read` is never
negative). That no request is ever handled, because `hdlc_processor::update` closes every
frame with the flag that opens it, is a disagreement (`RequestIsHandled`, section 5) and
no part of any invariant: what the run `serial` checks does not depend on the defect. A packet header is cut to two bytes of one value each (`MCSerialLink`
explains its checksum); the reserved bytes, never read, and the escaped copy nobody
writes are left out.

### Rf215 and RadioControl
`Rf215` holds the tables of the two switches. `RadioControl` splits a configure at the
points where another thread can tell the difference: V1, V2, `_active_trx`, radio
interrupt masks, their enabling, power amplifier and front end (`frontEnd`), baseband
masks, their enabling, the radio half and the baseband half of the register set, the
channel. Every step dereferences the shared `_active_trx` anew except the baseband half,
whose addresses were computed with the radio half. Reading the pointer for an address and
writing to the address is one step.

`ToConfig` is what `grpc_service::Configure` makes of a request: the channel and the
fields of an FSK configuration are cut to a byte, the preamble length to two. `tx_power`
is not among what it passes on (section 5), so the registers of `frontEnd` get the same
values in every configure, and all there is to say of them is whether a transceiver has
them.

`Faults` says which writes may fail, `MaxFaults` in how many configures. What a write to a
common register returns is not looked at: any of those that would change something may be
lost (`Lost`), and the call is answered OK. A failing write of the register set ends the
set, and the channel is written in any case. `lossy` remembers the configures that lost a
common write and met no other, `intact` whether the one answered last did not:
`CommonApplied` says that a loss costs the call it happened to, and that the next one
that loses nothing has masks and front end right, of the other transceiver too. The
update thread is not a process of this model: it sends at any moment, so a statement
about a state is one about the frames sent in it. `Applied` covers those sent while an
answer stands; what goes out in the middle of a configure is under a mixture, as the code
has it.

## 3. Runs

Each passing run checks one question on its configuration; each expected violation
checks a statement found in the repository that the code does not keep (section 5).

| Run | Instance and why it is enough | Shows |
|---|---|---|
| `mesh` | two gRPC callers on one object, one serial caller, two payloads: every kind of overlap and a bystander | lock discipline, quiescence after stop, refinement of `Outbox`, pending frames kept, lone payloads intact; `stop` returns |
| `node` | two gRPC callers, one stream, a queue of one and two arrivals: the queue overflows, callers compete, and every step of the bring-up fails once | both components keep their specifications under nested mutexes; holders of a mutex go on; frames handed up are queued; delivery ends; somebody gets through `transmit` |
| `grpc` | two streams, capacity 2, three arrivals: the queue overflows, drains and refills | FIFO refinement, window, frames read in order, lone responses intact; cancelled streams take one frame more at most and end, the queue drains |
| `ota` | two handlers, two images (one flaky), one power failure, two health checks (10 in the code; one and more than one are all the code tells apart); a second upload may begin when the first starts to roll back (`MCMeets`): from there on the steps of both interleave | invariant, refinement of `AtomicUpdate`, recovery, executability, rollback, records, healthy apps kept; an upload only moves on, and is answered |
| `hdlc` | all payloads over the bytes that matter up to the length in `MCHdlcChannel`, two bytes before the frame, flags among them | transparency, and what a stray flag costs |
| `serial` | two requests whose body is a flag, which escaping changes; one received frame; any read may fail or time out | the loop ends for its flag only, thread life, `stop_tx` returns |
| `radio` | two handlers (symmetric), two requests that differ in everything and have fields beyond a byte; one configure whose writes fail in any combination, common registers included (with one there are states of every kind a loss leaves, and calls after it, alone or overlapped) | a lone configure answered OK is complete whatever came before; masks and front end too, if it lost no write itself |

Deadlock is checked in all of them but `hdlc`, whose channel carries one frame
and stops, and `node`, whose process may end. Bounds in guards: `MaxArrived` (arrivals), `MaxCrashes` (power failures),
`Meets` (when a second upload begins), `MaxFaults` (configures that meet failing writes),
`MaxNoise`, `MaxSends`, `MaxReceives`. `Capacity` stands for the literal 64 of the code
and `Checks` for its 10; the theorems hold for every value of both.

**Fairness** is stated per module beside `FairSpec`. Threads inside a call are scheduled
(weak fairness per action). A mutex is obtained by a thread that finds it free again and
again (strong fairness): every holder releases it within a bounded number of its own
steps and sleeps without it. `MeshNetwork` needs this of the update thread alone:
`StopReturns` asks nothing of the callers' luck. `Node` has it for the callers too, as
long as the process lives, and two more: `Deliver` is strongly fair, because it needs the
queue's mutex, and so is `UpdateSend`, because a pending frame finds its turn and a clear
channel in the end, which is rfnet's promise and not this code's. `SerialLink` lets the thread run, a join return once it can and sent bytes
arrive, and does not let reads fail for ever while bytes are there. No
fairness is given to clients, `stop`, `start`, power failures, exceptions or timeouts.
That a *particular* caller of `transmit` gets through is not claimed: nothing queues them,
and it may lose every race.

## 4. Proofs

| Theorem | Statement | Argument |
|---|---|---|
| `MeshNetworkProofs!Invariant`, `StopIsQuiet`, `PendingIsKept`, `AloneIsIntact` | `[]IInv`, `StopQuiesces`, `PendingNeverReplaced`, `AloneSendsOwn` | `LockInv`: between lock and unlock exactly the owner, and a caller at `send` has the slot free; `ControlInv`: what start and stop find; `RequestInv`: whoever packs beside another is in its `met`; `BufferInv`: a packed object holds the call's own payload or what it met |
| `MeshNetworkProofs!MeshIsOutbox` | `ImplementsOutbox` | `BufferInv` says what `Send` may put in the slot, `LockInv` that the slot is free then; each step of a call is `Ask`, `Accept`, `Refuse` or a stutter (`CallIsOut`) |
| `GrpcStreamProofs!Invariant`, `AloneIsIntact`, `QueueIsLossyFifo` | `[]IInv`, `ResponseIsPopped`, `ImplementsFifo` | the queue is the window of the latest arrivals (`WindowInv`), so `next` and `Len` determine its content |
| `GrpcStreamProofs!FramesKeepTheirOrder` | `HandedInOrder` | from the refinement: what was handed out lies before the window (`OrderInv`), and what is handed out is its head |
| `GrpcStreamProofs!ResponsesKeepTheirOrder` | `ResponsesInOrder` | `ResponseInv`: unless it is being assigned, `_rx_frame` is the youngest frame handed out, so it is no older than what the reader popped, and that is younger than what it sent before |
| `OtaUpdaterProofs!Invariant`, `AnImageSurvives`, `BootFindsAnImage` | `[]IInv`, `ImageSurvives`, `BootRecovers` | unless `tainted` the app is overwritten only over a whole backup and the backup only under a recorded app (`HandlerSafe`, `BootSafe`); hence `Recoverable` at every power failure. `Exclusive`: uploads that meet know it |
| `OtaUpdaterProofs!BootFindsAnExecutable` | `BootRuns` | `Executable`: unless `stripped` too, the recorded app, or else the backup, has its mode, or somebody is about to set it |
| `OtaUpdaterProofs!RollbackIsExact`, `SuccessIsWhole` | `RollbackRestores`, `SuccessIsRecorded` | `UploadInv`: what app, backup and records hold at each place of an upload, compared with the app of before and with the package |
| `OtaUpdaterProofs!OnlyTheFlakyGo` | `HealthyAppIsKept` | `HealthInv`: an app that cannot die runs from its launch to the decision |
| `OtaUpdaterProofs!Atomicity` | `UpdateIsAtomic` | `ImageInv`: what `Committed` is at each place of an upload; then every step is a step of `AtomicUpdate` or leaves `Committed`, phase and candidate alone |
| `HdlcProofs!Invariant`, `StuffingIsTransparent` | `[]IInv`, `RoundTrip` | `EncoderInv`: `escape` keeps its own account; `InStep`: without a stray flag the decoder holds exactly the bytes encoded; `OutOfStep`: after one it has returned at the opening flag. For payloads of any length and any bytes before |
| `HdlcProofs!FunctionsAgree` | `[]Functional` | the recursive functions are compared with the machine prefix by prefix: `RunInv` says that the decoder is the run of `DecodeByte` over the wire, `OutInv` that the wire is the escaped prefix, so that the induction over the data is the induction over the steps |
| `SerialLinkProofs!Invariant`, `StartIsSafe` | `[]IInv`, `RestartIsSafe` | `ThreadInv`: flag, thread and the caller of `stop_tx` go together, whatever the line and the reads do |
| `NodeProofs!DaemonImplementsMesh`, `DaemonImplementsGrpc` | `ImplementsMesh`, `ImplementsGrpc` | every step of the daemon is a step of the component or leaves its variables alone |
| `NodeProofs!ComponentsInvariant`, `DaemonKeepsPromises` | `[](Mesh!IInv /\ Grpc!IInv)`; `ImplementsOutbox`, `AloneSendsOwn`, `PendingNeverReplaced`, `ImplementsFifo`, `HandedInOrder`, `ResponsesInOrder`, `ResponseIsPopped` in the daemon | the two theorems above and the components' own, instantiated with the daemon's variables |
| `NodeProofs!NobodyHoldsInVain` | `[]HoldersGoOn` | `LockInv` and `MutexInv` of the components say where a holder is, `MainInv` that nobody is inside a call before the server runs |
| `NodeProofs!DaemonInvariant`, `OnlyProbedRadiosRun`, `EveryFrameIsQueued` | `[]IInv`, `RunsOnProbedRadio`, `HandedUpIsQueued` | `RadioInv`: what `init` has achieved at each step; `MainInv`: with a radio the listener is attached before the server starts, without one no call gets past the refusal |
| `MeshNetworkProofs!StopIsBounded`, `GrpcStreamProofs!CancelledIsBounded`, `OtaUpdaterProofs!UploadIsBounded`, `SerialLinkProofs!StopTxIsBounded` | `StopNearsEnd`, `CancelledTakesOneMore`, `UploadNearsEnd`, `StopTxNearsEnd` | a variant (`Left`) that each step of the thread decreases |
| `RadioControlProofs!Invariant`, `OkMeansApplied`, `OkMeansCommonApplied` | `[]IInv`, `Applied`, `CommonApplied` | requests that meet are marked overlapped; one that is not has done every step it passed (`Progress`), those on common registers if it lost none of them (`CommonProgress`), so a step concerns its own handler only (`Middle`) |

The assumptions are the named `ASSUME`s of the modules (distinct sentinels, non-zero
bounds, types of the constants), nothing else: the theorems hold for any number of
callers, streams, uploads and handlers, for any capacity and any number of arrivals,
crashes and faults. Each proof has the form `Init => IInv`,
`IInv /\ [Next]_vars => IInv'`, one step per action. The lemmas `Same...` of `NodeProofs`
are there because `MeshP` and `GrpcP` are instances of the proof modules and `Mesh` and
`Grpc` of the modules they extend: they say that the formulas are the same.

Only model-checked: liveness (`StopReturns`, `SomeTransmitProceeds`, `DeliveryEnds`,
`CancelEndsStream`, `QueueDrains`, `UploadAnswered`, `StopTxReturns`), since the prover has
neither fairness nor ENABLED. The half of these arguments that is safety is proved: who is
to end has a bounded number of steps left (the four variants above), and whoever holds a
mutex goes on to release it (`HoldersGoOn`). Every invariant, action property and
refinement of the passing runs is proved. `HandedInOrder`, `StopNearsEnd` and
`StopTxNearsEnd` are proved and part of no run.

## 5. Disagreements

Each is a run whose expected result is a violation; `PROJECT.json` has the details.

| Run | What the code does |
|---|---|
| `mesh_shared` | concurrent `Transmit` handlers mix frames through the shared `_tx_frame` |
| `mesh_start` | the update thread may end before `_running` is set, and `start` succeeds |
| `ota_power` | a power failure leaves a partial app that the boot restores or keeps |
| `serial_request` | no request is ever handled: the opening flag closes the frame |
| `radio_mixed` | two configures at once, both answered OK, leave a mixture of the two |

Seen while modelling, kept out of the runs because they follow from one line of code
each, or repeat one of the above elsewhere; the hazards in `PROJECT.json` list most of them:

- *Receive path*: `_rx_frame` is shared by the streams as `_tx_frame` is by the callers, so
  a stream that another pop overlaps may answer with the other's frame (`ResponseIsPopped`
  excludes just those); the module number of a `ReceiveRequest` is never used.
- *Radio*: the `tx_power` of a `ConfigurationRequest` is read (`grpc_service.cpp:58`) and
  not passed on (103-108), so every frame goes out with the power `radio_config` has by
  itself; fields are cut to a byte, so that channel 300 is set, and answered OK, as 44; a
  frame goes out half reconfigured; lost writes to the masks and the front end are answered
  OK (`CommonApplied` says what they cost); OFDM options beyond the table and the IFS bits
  of FSK give register values nobody recommends.
- *Updater*: power failing before the `chmod` leaves an app that cannot be executed if it
  is the recorded one already (`stripped`); power failing between the two record files
  leaves a version that names another image than the hash; what the health loop saw is not
  what decides, so an upload whose validation failed may be answered with success; two
  uploads share the files, and after they met the device may be without a whole app
  (`tainted`).
- *Serial*: a flag on the line before a frame costs that frame (`RoundTrip`); a read that
  fails or times out repeats the byte before; `receive_frame` writes the packet that was
  not escaped.

## 6. Not modelled

rfnet's protocol, the register-level driver, the gRPC runtime and systemd beyond what the
code relies on; SPI transfers beyond their success or failure (one ioctl on local buffers);
`serial::open` and `close`; statistics and identifiers; the package checks of the updater
(they change nothing); FSK fields that are copied one to one; the selection of the machine
configuration (names of devices); the delivery of a frame by several networks on one
broadcaster (main has one network); several threads that call `start_tx` and `stop_tx` (no
code creates a `serial_service`).

## 7. Plan

Done: `MeshNetwork`, `LossyFifo`/`GrpcStream`, `AtomicUpdate`/`OtaUpdater`,
`Hdlc`/`HdlcChannel`, `SerialLink`, `Rf215`/`RadioControl`, in this order (the core
concurrency first), their composition `RadioInit`/`Node`, uploads that meet, and `Outbox`,
with proofs for all of them: no safety property of a passing run is without its theorem.

Next, by what it adds:
1. `RadioControl` inside `Node`: frames that are sent while a `Configure` is under way.
2. Two nodes: a frame from one node's client to the other's stream, against an abstract
   lossy and at-most-once channel, with rfnet's slots as the medium.
3. The FSK fields that are copied one to one.
