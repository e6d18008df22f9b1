# Formal model of `caml`

`caml` compiles a YAML manifest into media pipelines (a source, transforms, a
sink) and runs each under a supervisor.  This directory holds TLA+ modules
translated from the Rust source, TLC configurations that model-check them on
small instances, and TLAPS proofs of the most important results for every
value of the constants.  All line numbers are those of the source files.

## Inventory

| Component | Source | State | Operations | What makes it correct |
|---|---|---|---|---|
| Buffer pool | `caml-core/src/runtime.rs` 71-355 | slots (vector, pointer, length, count), free stack, counters; per handle: slot index, moved-out vector | preallocate, acquire, write, freeze, clone, as_slice, drop | one owner per slot; counts exact; a slice stays valid while it is used; no panic; no growth without demand |
| Supervisor | `runtime.rs` 774-1124 | status map, event channel, cancellation token, join handles; per task: attempts, start of the run | start, status, subscribe, shutdown; build, poll, handle, watchdog, backoff | statuses tell the truth and end; budget exact; shutdown ends everything |
| Fan-out router | `runtime.rs` 558-680 | one bounded channel and one task per sink | consume, actor loop, drop | order; what each drop policy promises; isolation of sinks |
| WebRTC sink | `caml-webrtc/src/lib.rs` | queue, closed, error under a mutex; one `Notify`; a sender task | consume, close_and_flush, drop; dequeue, process, set error | order; nothing lost unreported; errors reach the pipeline; no lost wake-up |
| FFmpeg source | `caml-ffmpeg/src/source.rs`, `worker.rs` | worker thread, channel of 8, cancellation token | build, next, drop; demux loop with retries | failures classified; worker ends |
| libcamera source | `caml-linux-media/src/camera/native.rs` | camera thread, two channels, its own pool | open, next_payload, drop; request loop | thread ends on drop; errors reach the pipeline |
| FFmpeg transcoding | `caml-ffmpeg/src/{worker,transcode,hwaccel,capabilities}.rs` | per attempt: libav's decoder, filter graph, encoder; packets read, packets sent | open, read, three nested drain loops, flush | stages drained before they are fed, flushed at the end; order; nothing lost but what cannot be decoded |
| FFmpeg devices | `caml-ffmpeg/src/device.rs` | none | choose a demuxer and its options | the build has what is asked for |
| H.264 bitstream | `caml-ffmpeg/src/h264.rs` | none | AVCC and Annex B conversion | every unit kept, framing recognised, parameter sets before keyframes |
| Capability probes | `caml-linux-media/src/lib.rs`, `caml-ffmpeg/src/capabilities.rs`, `caml-core/src/compiler.rs` 49-113 | none | look at the host, merge the answers | what a probe says, the host has |
| Compiler | `caml-core/src/compiler.rs` | none | refuse, resolve backend and codec path, plan resources, choose recovery | limits respected, saturating sums, contradictions refused |
| Front end | `caml-core/src/{frontend,units}.rs` | none | parse, validate | what is valid can be compiled |
| Facade, adapters | `src/builder.rs`, `src/adapters.rs` | the builder: manifest or graph, probe, provider, tracks, factory | set up, compile, start; build the stages: no sink becomes a null sink, one is used directly, several become a fan-out | start refuses what the stages cannot be built from |
| Metrics, errors | `caml-core/src/{metrics,error}.rs` | none | report | |

How they interact: the facade compiles the manifest and calls
`RuntimeEngine::start`; the supervisor's task builds the stages, makes a pool,
and loops `source.next -> transforms -> sink.consume`.  Sources fill
`MediaBuffer`s of the pool and freeze them; payloads are `PooledBuffer`s, and a
fan-out clones them into its actors' channels.  Sources and the WebRTC sink
own a thread or a task each and talk to the loop through a channel or a shared
queue.  Recoverable errors and the watchdog lead to a restart with fresh
stages; everything else ends the pipeline.  Before all that the manifest is
validated, the probes are asked about the host, and the compiler turns both
into a graph, or refuses; what a graph promises is only put to the test when a
worker opens its input.

What is hard: handles used after the pool lock is released; wake-ups between
producer and sender; statuses and events published in two steps; cancellation,
watchdog and budget racing with sources and sinks; several concurrent shutdown
calls; panics; full queues; stages of libav that hold frames back and refuse
more; a graph compiled from what several probes said together; builder calls in
any order; sums that saturate.  `PROJECT.json` lists these hazards line by line.

## Modules

| Module | Models |
|---|---|
| `BufferValues` | abstract: every handle is a value of its own |
| `BufferPool` | the pool; refines `BufferValues` |
| `BufferPoolProofs` | the theorems about `BufferPool` |
| `Lifecycle` | abstract: the life of a pipeline as its status shows it |
| `Supervisor` | engine, handle and supervising tasks; refines `Lifecycle` |
| `WebRtcSink` | the sink's queue, producer and sender, with tokio's `Notify` |
| `FanoutRouter` | the router, its channels and actors |
| `LossyQueue` | abstract: a bounded queue in front of each receiver, which may lose one payload per offer |
| `FfmpegSource` | the FFmpeg source and the threads of successive builds |
| `CameraSource` | the libcamera provider, its threads and the camera |
| `Capabilities` | a host, and what each probe says of it |
| `Manifest` | the manifest's types, and what the front end refuses |
| `Compiler` | from a manifest to a compiled graph with its resource plan |
| `Adapters` | what building a pipeline's stages comes to |
| `Facade` | the two builders, compile and start |
| `H264` | conversions between AVCC and Annex B, on byte sequences |
| `Attempt` | one attempt of an FFmpeg worker: demuxing, or decoder, filter and encoder |
| `Ingest` | `Facade` and `Attempt` composed: from the manifest to the media |
| `H264Proofs` | the operators of `H264` against the units they are about, and `UnitsKept` of `Ingest` |
| other `*Proofs` | the theorems about the module of that name |
| `MCSilentRuns` | `Supervisor` with a count of runs that delivered nothing |
| `MCSinkFailures` | `FanoutRouter` with a memory of the sinks' failures |
| other `MC*` | instances for TLC |

`Manifest`, `Capabilities`, `Compiler`, `Adapters`, `H264` are pure operators;
`Facade` extends the first four, `Ingest` extends `Facade` and `Attempt`.
`BufferPool` refines `BufferValues`, `Supervisor` refines `Lifecycle`, and
`WebRtcSink` and `FanoutRouter` both refine `LossyQueue`.

### BufferPool

One action per critical section of the pool mutex; what a handle carries
between two sections (the vector acquire moved out, the slice `as_slice`
returns) is state of the handle, so every other operation interleaves with it.
A vector is whether it owns memory and one content; a slot's `ptr`/`len` are
the view of the vector frozen into it.  Operators named as mutants (a comment
says so) are the plausible bugs each property is tested against.
`preallocated`, `peak` and `emptied` are history.  `as_mut_vec` hands out
`&mut Vec<u8>`; moving the vector out (`TakeVec`) is the one use that matters.
Deadlock is not checked: `MaxSlots` bounds the model, and leaked slots use it
up.

### Supervisor

`pc` is where a task stands; publishing writes `statuses` and leaves the event
in `unsent` until the next step (lines 1114-1119).  Building, polling and
handling end in every way their types allow, or panic.  Time is ticks: those
since the run began (up to `ResetAfter`) and those since the source was asked
(up to `Watchdog`).  Backoff may take any time.  `quick` (recoverable failures
since a stable run, up to `HistoryCap`) and `recoverable` (the latest failure was
one) are history; `BudgetExact` compares the task's own count with them in both
directions: a task goes back to work only within the budget, and a recoverable
failure ends it only when the budget is spent.  `MCSilentRuns` adds one more
counter for the finding about silence.  Lagging of the 256-event broadcast
channel is not modelled.

Fairness: the executor runs ready tasks and timers fire; builds, transforms
and sinks return; `select!` picks among ready branches at random, hence strong
fairness for the cancellation branch; the source need never answer.  That sinks
return is an assumption: `WebRtcSink` shows where it fails.

### WebRtcSink

Each critical section is an action, and so is the first poll of a `Notified`
future, because code runs between creating it under the lock and polling it.
The future's states are those of tokio's `Notify`: `created`, `called` (a
`notify_waiters` came before the first poll), `waiting`, `woken`.  `executor`
says whether the other side can run between two await points.  Fairness: both
tasks are run when ready; a write ends, by its 500 ms timeout at the latest.

The sender may panic while it processes a packet (`SenderPanics`).  Nobody is
told: `close_and_flush` discards the `JoinError` (`lib.rs:380`) and returns Ok, for
no shared error is set.  `FlushedAll` says what Ok means: all accepted packets
written or reported as dropped, and, after a panic, all but the packet it
happened at and those behind it.  A Block producer that waits when the sender
panics waits for ever; the liveness properties except that.

### FanoutRouter

`visit` is the actor consume stands at; a full channel leads to waiting,
discarding, or one yield and a second try.  A sink's errors change nothing; a
panic closes its channel.  Only sinks behind `Block` are assumed to return.
`MCSinkFailures` remembers the errors the router throws away, for the finding
about them.

### LossyQueue

What every queue between a pipeline and a receiver promises, whatever its drop
policy: an offered payload is refused, joins, or takes the place of one that
waits; what waits is passed on from the oldest on; and nothing else is lost
unless the queue ends.  The refinement mappings are `queueOf` of the two
modules.  For the sink, what waits is the queue and the packet being sent, and
the queue ends when the sender fails or is gone.  For the router there is one
queue per sink, ended by the actor's panic or abort; `Due` says which payload
consume has offered to a sink while it is still visiting others.

### FfmpegSource

A pipeline builds a source, polls it, drops it and may build another while the
thread of the first still runs, so everything is indexed by generation.
`worker` is where a thread stands in `run_worker`; `demux` stands for
`demux_packets` and `transcode_packets` alike, whose loops differ only in what a
closed channel makes of the attempt (`AfterSend`).  Drop cancels and drops the
receiver in one action, since no step of another actor between the two can be
told apart.  After any answer that is not a packet the pipeline polls no more.
Fairness: threads run, sleeps end, and the pipeline polls.  A media call is only
assumed to return for RTSP, which is opened with a timeout of five seconds
(`device.rs:34-37`); a device or a file is opened with neither a timeout nor an
interrupt callback (`device.rs:62-99`), so its reads may never return, and the
token is looked at between two packets only.  `WorkersEnd` therefore says: a
thread left behind ends, unless it is in one such read for ever.  What the calls
return is free, so an input may fail for ever.  Two threads on one input at once
are not excluded, by the code or by the model.  The mock source (27-56), pacing
and the packets' bytes are left out.

### CameraSource

Again by generation.  `holder` is the camera as libcamera sees it: acquired by
at most one thread.  The joining drop is two actions, the command and the
return, and the receiver goes only with the second; the branch for a failed
`frame_tx.send` (203-210) cannot be taken: the receiver outlives the thread.  The
callback's `Disconnected` branch (219-223) is left out: the camera owns the
callback for as long as the loop runs.  Every libcamera call may fail where the
code looks at its result.  Fairness: the thread's calls return; the camera need
never complete a request, which is what makes `DropReturns` worth checking.
The channel is unbounded, as in the code: nothing bounds the pool behind it.

### Capabilities, Manifest, Compiler, Adapters

A host is the features the program was built with, the model each of the two
device-tree files names, the sysfs names the probe looks for, and the FFmpeg
build's parts.  The three probes (Linux, FFmpeg, WebRTC) and the composite that
joins their answers are operators on it.  A manifest is a record; its strings
are the classes the code tells apart (an input is a kind of URL or path, a
template the variables it names), an option is a sequence of at most one
element.  `Valid` is `validate`, check by check; `Compiler` gives the compiled
graph or a refusal, in the order of `compile_internal`, byte counts saturating at
`MaxWord`.  `Adapters` gives the verdict of building a pipeline's stages: `ok`,
`unbuilt`, `no_adapter`, `mismatch`, `profile`, `host`, or `panic` (a fan-out
with a queue limit of 0 reaches tokio's channel).

### Facade

A caller holds one builder and calls it in any order: the two constructors, the
setters, `with_feature_media_adapters` (which takes the provider and the tracks
set so far), the compile calls with and without a probe, `start`, `build`.  A
probe is what it answers for each target; the builder keeps the last one set,
with whose it is: `with_capability_probe` takes any of the caller's own, and only
`with_feature_capability_probe` asks the host.  A graph's `route` is how it was let
through: by the features' probe, by one of the caller's, by `compile` (generic
targets only), or unchecked.
`built` is what the task of each pipeline of the engine comes to.  Shutting down
is `Supervisor`'s.

### Attempt and Ingest

A packet is its place in the input, and so is the frame decoded, filtered and
encoded from it: `InOrder` compares what was sent and what the three stages
hold with what was read.  libav is external, modelled from how the code uses it:
a stage holds back at most `Delay` frames, refuses one more until it has been
drained, and gives up everything after its end-of-input call.  `phase` says how
far the end has got; each drain loop is a place of `pc` whose next step is the
loop's body or its exit.  All three loops (`transcode.rs:154`, 192, 210) end on
anything but a frame, so an error of the stage looks like its being dry:
`DecodeError`, `FilterError` and `EncoderError` lose the frame at fault and, after the
stage's end of input, all it still held (`lost`), and the attempt goes on.  The
assumption about libav is that a call that reports an error has dropped the
frame it is about.  `Ingest` composes: a
pipeline that was built opens its input against the same host, and from then on
the model follows that worker alone, for it owns a copy of all it needs.

## Runs

| Run | Instance | Shows |
|---|---|---|
| `pool` | 3 handles, 3 slots, 2 contents, symmetric handles | all pool invariants and the refinement of `BufferValues`: two readers of one slot with a third handle competing is the smallest interesting case |
| `supervisor` | 2 pipelines, budget 1, `ResetAfter` 2, `Watchdog` 1, 1 shutdown caller, 1 subscriber | refinement of `Lifecycle`, shutdown's Ok, no missed end, exact budget, shutdown completes, media or end |
| `supervisor_slow_watchdog` | 1 pipeline, `Watchdog` = `ResetAfter` = 2 | finding: silence restores the budget |
| `webrtc_sink` | queue of 3, 5 packets, 3 policies, 2 executors | order, flush with a sender that fails or panics, wake-ups; refinement of `LossyQueue` |
| `webrtc_block_hangs` | Block, multi-threaded, queue of 2 | finding: a stolen permit stops both sides |
| `webrtc_failure_unseen` | the same | finding: a failure between two looks is never seen |
| `fanout` | one sink of each policy, queues of 1, 4 payloads | order, losslessness of Block, isolation; refinement of `LossyQueue` |
| `fanout_drop_oldest` | one DropOldest sink, queue of 2 | finding: the newest payload is the one lost |
| `fanout_failure_unseen` | a Block and a DropNewest sink, queues of 2, 3 payloads | finding: a sink's failure behind a fan-out ends nothing |
| `ffmpeg_source` | 2 builds, channel of 2, 2 packets and 2 failures per thread | order and completeness across retries, ends and errors reported last, abandoned threads end |
| `ingest` | families of manifests that vary one thing at a time, on hosts that lack one thing each; streams of each container, length size and extradata; 5 packets, `Delay` 2 | limits kept by saturating sums, how far what the probes say can be counted on, start that refuses what cannot be built, no guardrail lost by the order of calls; order, flushing and no refusal in the worker, with errors in every stage; units kept by the conversions |
| `camera_source` | 2 opens, 3 requests, 5 frames | one owner of the camera across restarts, order, death reported, drop returns |

Bounds: two generations are enough for the new thread to meet the old one;
pipelines share only the token, the map and the handle list, so two
show every interaction; with a budget of one a task restarts, is given up after
a second quick failure, or restarts again after a stable run, which takes one
tick more than the watchdog; one shutdown caller keeps the liveness check within
a minute (with two it passes as well, in 823 661 states; the theorems hold for
any number); queues of one to three fill at once and a queue of
three has a middle to evict from; five packets through stages that hold two
back fill every stage, and flush each.  In `ingest` the largest word is
50 000 000, so that true sums can be computed beside the saturated ones, and the
manifests' limits and sizes lie on both sides of it.  Deadlock is not checked where a system
rightly stops (everything ended, the stream bound reached).

## Proofs

Each theorem holds for every value of the constants, from the module's named
ASSUMEs alone.  No invariant here is inductive by itself; what is proved
inductive is `IInv` of each proof module (`LInv`, `FInv`, `PInv` for `Ingest`),
with one lemma per action.

`BufferPoolProofs`: `TypeOK`, `OneOwner`, `RefCountExact`, `FreeSlotsHaveBytes`,
`SliceStable`, `SlotsAccounted`, and that the pool implements `BufferValues`.
`IInv` adds that handles name slots that exist; that the free stack has no
duplicates and is apart from the held slots; that the vector of a slot is in
exactly the place its state says (in the slot when free or frozen, in the handle
when writable); and that the view of a frozen slot, and every slice taken from
it, is the view of that vector.  `SlotsAccounted` needs a second invariant: the
pool has grown to its preallocation or its peak, and every slot is free, held,
or emptied by a client that moved the vector out.  Counting uses the library's
cardinality theorems.

`SupervisorProofs`: `TypeOK`, `BudgetExact`, `NoEndMissed`, `OkMeansEnded`, and
that the statuses implement `Lifecycle`.  The status fits the place the task is
at; the attempts counted are the recoverable failures since the last stable run,
and one that ended its task exceeded the budget; and the
handle of every unfinished task is held by somebody, the engine or a shutdown
call that awaits it.

`WebRtcSinkProofs`: `TypeOK`, `InOrder`, `FlushedAll`, and that the sink
implements `LossyQueue`.  Every accepted packet is in one place, written, in the
sender's hands, queued or reported as dropped, and each place comes before the
next; a sender that panicked leaves its hands and the queue as they are.

`FanoutRouterProofs`: `TypeOK`, `InOrder`, `BlockLosesNothing`, and that the router
implements one `LossyQueue` per sink.
The argument follows each sink's line (handled, worked on, buffered): a step
leaves it, appends the payload that is due, or cuts it when the actor dies.

`FfmpegSourceProofs`: `TypeOK`, `EndIsLast`, `Gapless`.  A thread's final message
ends its channel; a message is in hand only while it is being sent; a source
that was not dropped was never cancelled, so no packet of its thread is skipped.

`CameraSourceProofs`: `TypeOK`, `ExclusiveCamera`, `ErrorIsLast`, `Gapless`.  A
thread that runs belongs to the provider in place and only it holds the camera
(`Join`, which waits for the thread, is the step that needs this); frames
returned, in the channel and with the thread are together those completed.

`IngestProofs` has three invariants.  `IInv`, for `NeverRefused`: a stage has
been drained when it is fed: the decoder holds at most `Delay` frames where
packets are read, the encoder wherever it is not being drained; where an error
or a receiver that is gone cuts a drain short, that step took a frame out
itself.

`LInv`, for `InOrder` and `FlushedAll`: what is sent and what encoder, filter and
decoder hold are four increasing sequences (`Line`), each before the next,
together all that was read and not lost; and where an attempt stands and how far
it has flushed say which stages are empty.  Every step moves the head of one of
the four to the end of the next, drops it, or lengthens the last
(`LineMoves`, `LineLoses`, `LineGrows`).

`FInv`, for `TargetGuarded`, `AdaptersSuffice`, `HostServes` and `FitsLimit`: a
graph in the builder's hands or in an engine is `Vetted`: it is the plan of some
manifest, fits its limit, and was let through by the route it came, which for a
probe means that the builder's probe is the features' or one of the caller's; what
`CamlPipelineBuilder` has started is `Equipped` with the adapters its pipelines
ask for.  The four theorems then say what that means for a pipeline that is
built, from the operators alone: `ProbeSays` and `HasMeans` relate a capability
the composite probe reports to the host, `Required` and `PartsAsked` what a pipeline
uses to what `capability_requirements_for` lists; `FirstIsOneOf` and `BuildExpected` follow
the order in which stages are built; and `Saturates` says that a saturated sum
of saturated terms is the true sum, saturated.  That one is an induction over
the pipelines of a manifest, made by the least place where it would fail
(`LeastPlace`); that the recursive sums exist at all is `StepsExist`, by the same
means.

`H264Proofs` proves `UnitsKept`: whatever the container, what an attempt sends for
an H.264 packet has the packet's units, behind the parameter sets when the packet
is a keyframe that lacks one.  The invariant `PInv` is small: what was sent last is
`Normalize` of a payload of the open stream, with the configuration of that
stream's extradata.  The work is in the operators, which are recursive over the
bytes of a payload.  The library's induction theorems cannot be instantiated, so
each recursion is treated by the least place: `Recursion` says that a recursive
definition whose every step goes nearer the end has a solution, and `OneRecursion`
that it has only one (where two differ, take the place nearest the end: they agree
at the next one, so they agree there).  What the solution is follows likewise, by
the least place where it would be something else:

- `UnitsJoin`: the units of bytes put together are those of the one and then those
  of the other, if the other begins with a start code or is empty.  No start code
  can straddle the seam (`JoinStarts`), and the zero of a four-byte code is no
  part of the unit before it.
- `AvccConverts`, a theorem of its own: a payload in AVCC form becomes, in
  `avcc_to_annex_b`, Annex B of the same units.
- `ScanFinds`, another: `annex_b_parameter_sets` comes across exactly the parameter
  sets behind start codes, although its idea of where a unit ends is not that of
  the standard; `TypesAgree` carries that over to the units.
- `ConfigTypes`: what `extract_h264_config` returns has lengths of one to four bytes.
- `AvccAmbiguous`: an AVCC payload taken for Annex B begins with one of the lengths
  that `Ambiguous` names.

It rests on `StreamConstants`, which says what a demuxer may hand over: Annex B
with no empty unit; units behind their lengths, of the size the extradata states
(4 without any), none empty, ending in a zero, or with a start code in it, as
emulation prevention ensures; or bytes that `avcc_to_annex_b` gives up on.  TLC
evaluates it for the streams of `ingest`, which include lengths of 1, 2, 3 and 4
bytes and broken ones.

Only model-checked: the liveness properties (`ShutdownCompletes`, `MediaOrEnd`,
`QueueDrains`, `FlushReturns`, `ConsumeReturns`, `FailureReported`, `WorkersEnd`,
`DropReturns`, `DeathReported`), which need fairness and ENABLED.  `TypeOK` of the
modules whose types are proved is not run as well, except the pool's.

## Findings, and other observations

Five runs show a disagreement between the code and its own documents or
comments; `PROJECT.json` quotes the lines.  Less than that, but met on the way:

- `README.md:12` says that capability probing "strictly rejects unsupported
  configurations before execution".  With the features' probe a graph may still run where it is not
  supported, in the cases `HostServes` writes out: FFmpeg is not asked for at a
  device with backend `auto` or `v4l2` and no overlay (`compiler.rs:878`); no probe
  looks for `buffer`, `null`, `transpose`, `hflip`, `vflip`, `movie`, `format` or a software
  H.264 encoder (`transcode.rs:314-327`, 505-515, 581, 648); the composite probe joins
  its answers with "or" (`compiler.rs:98`), so a device the Linux probe saw vouches
  for a codec or an input that the FFmpeg build lacks, and one stateless decoder
  for the other.  Each case is reached in `ingest`; the theorem says there is no other.
- Any FFmpeg input whose text contains "mock" is replaced by the mock source
  (`caml-ffmpeg/src/source.rs:27`).
- A second `webrtc_rtp` output is built with the first one's configuration
  (`caml-webrtc/src/lib.rs:84`); a single recording's `queue_limit` and
  `drop_policy` are not looked at (`adapters.rs:125`).
- `queue_limit: 0` is valid for a recording, and with two outputs panics the
  build (`runtime.rs:601`).
- An error of decoder, filter or encoder is taken for a dry stage and costs frames,
  in the final drain all behind it, with an attempt that is Ok (`transcode.rs:154`,
  192, 210).
- A panic of the WebRTC sender goes unnoticed: `close_and_flush` returns Ok with
  packets lost (`lib.rs:380`), and a Block producer waits for ever.
- A silent device keeps the worker thread of a source that was dropped
  (`device.rs:62-99`, `worker.rs:184-187`).
- A worker that panics is reported as the end of the stream (`source.rs:118`).
- At the end of the stream the loop returns without telling the sink
  (`runtime.rs:1072`); dropping it aborts the sender with packets queued.

## Plan

Done: everything the inventory lists as modelled, the four refinements, and the
proofs above.  Left, in this order: the composition of the supervisor's loop
with a sink that it drops at the end of a stream, so that what is lost there is
stated; the capacity of the event channel, with a subscriber that lags; the mock
source and the pacing of local files.

## Not modelled

libav, libcamera, tokio's channels and the RTP packetizer are external: they
are modelled by what the code relies on, and their failures by a choice.
Timestamps, pacing and the text of filter graphs and device options decide no
control flow that a property is about.  YAML and the parsing of sizes and
durations are serde's and the unit tests'.  Reading sysfs, and resolving a
camera selector to a camera, are I/O.  Metrics change no state.  The 256-event
capacity of the broadcast channel is abstracted: a subscriber here never lags.
