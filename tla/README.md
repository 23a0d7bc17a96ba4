# A verification project for `stills`

`stills` is a header-only C++ library that extracts still images from video through FFmpeg: an
`AssetImageGenerator` is opened on a file and answers `imageAt(time)` synchronously and
`generateImages(times, handler)` asynchronously. This directory holds TLA+ models of its logic,
the TLC runs that check them on small instances, and TLAPS proofs of their main properties.

Paths below are relative to `src/include/stills/`; `detail/X.h` stands for
`src/include/stills/detail/stills_X.h`.

## 1. Inventory

| Part | State it keeps | Operations | Hard behaviour |
| --- | --- | --- | --- |
| Generator facade (`AssetImageGenerator.h`) | the shared pointer to the engine, the asset's description | `open`, `imageAt`, `generateImages`, `cancelAll`, `close`, destruction | callable from any thread and from inside handlers; `close` from a handler detaches the worker |
| Generation engine (`detail/Engine.h`) | batch queue, `current`, `stopping`/`stopFlag`/`workerDone`, `workerTurn`, `syncWaiters`, two mutexes, two condition variables | worker loop, `acquireDecoderForSyncCall`, `enqueue`, `cancelAll`, `requestStop`, `shutdown` | every one of them interleaves with the others; handlers re-enter |
| Request handles, completions (`Async.h`) | per batch: cursor, completed count, cancel flag, handler, done condition | `cancel`, `cancelBatch`, `wait`, `waitFor` | handler lifetime against waiters; waiting on the worker itself |
| Frame pipeline (`detail/FramePipeline.h`) | decode position, frontier, slots, index, decoder, source, last hardware failure | `open`, `imageAt`, `selectFor`, `positionFor`, `backOff`, `reopen`, recovery | the decoder's position survives from request to request; retries, rebuilds and reopens |
| Frame selector (`detail/FrameSelector.h`) | the frame slots, taint, drained flag, request | `answerFromHeld`, `select`, `onFrameReceived`, end-of-stream rules | look-ahead of one frame, corrupt frames, key-frame mode, tail of the stream |
| Packet reader (`detail/PacketReader.h`) | parked packets, landing buffer, demux error run | `readVideoPacket`, `readLanding`, replay | where did a seek land; demux errors; bounded buffer |
| Positioner, seek costs (`detail/Positioner.h`, `SeekCostModel.h`) | position enum, back-off ladder, cost averages | `canDecodeForwardTo`, `isForwardCheaperThanSeek`, `getScanAim`, `nextBackoff` | a seek is only a hint; ladder must end |
| Key-frame index (`detail/KeyframeIndex.h`) | map of key frames seen, contiguity, extent, bound | `notePacket`, `recordKey`, `findCoveringKey`, `hasKeyBetween`, `doesKeyCover` | stale coverage, eviction at the bound |
| Decode frontier (`detail/DecodeFrontier.h`) | newest times read, sent and received; skipped holes | `reset`, `note`, `hasHoleBetween` | bounded memory of holes |
| Frame slots (`detail/FrameSlot.h`) | `held`, `pending`, `corruptLast` and their times | `adopt`, `promote`, `reset` | stale held frame after a failure |
| Hardware ladder (`detail/VideoDecoder.h`, `HardwareSupport.h`, `FramePipeline.h`) | decoder, candidate, fault, published snapshot | build, probe, rebuild on hardware, fall back to software, restart | a fault mid-stream; one rebuild per run of failures; policy |
| Media source (`detail/MediaSource.h`) | format context, cancel token, seek-failure count, interrupt flag | `open`, `reopen`, `seekTo`, `recoverAfterInterrupt` | blocking I/O interrupted mid-packet |
| Request window (`detail/RequestWindow.h`) | none (pure) | `resolve`, `windowEdge` | tolerance sides, infinities, overflow at the edges |
| Time (`Time.h`) | none (pure) | `rescale`, comparison, arithmetic, conversion | 64-bit overflow and saturation |
| Converter, transform (`detail/Converter.h`, `Transform.h`) | most-recently-used sets of scalers and buffer pools, one context that rearranges planes | `convert`, `download`, `pooledFrame`, `transformInto` | rounding, chroma planes, eviction |
| Options (`Options.h`) | none (pure) | `validate` | – |
| Values and glue (`Image.h`, `Error.h`, `AssetInfo.h`, `PixelFormat.h`, `Geometry.h`, `Interop.h`, `Log.h`, `detail/FFmpeg.h`, `detail/AssetInfoBuilder.h`, …) | – | accessors, RAII wrappers, tables | – |

How they meet: any thread calls the facade; `imageAt` takes `decoderMutex` through the engine and
runs the pipeline on the caller's thread, `generateImages` queues a batch that the worker runs one
item at a time under the same mutex.  The pipeline is therefore sequential, but its state (where
the demuxer stands, what the decoder still holds, which key frames are known, whether hardware
has failed) is carried from each request to the next, and a request may be cancelled, fail or
throw half way through.  The selector, reader, positioner, index and frontier share one
`DecodeFrontier` and the slots.

What makes each part correct is stated with its module in section 3; the places where this code
can go wrong in ways a test hardly reaches are the `hazards` of `PROJECT.json`.


## 2. Plan

The order follows what a wrong step would cost: first the concurrent engine, then the state that
one request leaves to the next, then the decoder and the source underneath, then the pure code a
request's values pass through.

| Step | Modules | Composed with | Abstract specification or reference | State |
| --- | --- | --- | --- | --- |
| 1 | `Engine`, `EngineProperties`, `MCEngine` | implements `GenerationContract` | `GenerationContract`: batches, items and handlers without threads | done |
| 2 | `EngineProofs`, `EngineRefinementProofs` | `EngineProperties` | `GenerationContract` | done: types, delivery, teardown, turn; sleeping and waking; the refinement |
| 3 | `FramePipeline` over `KeyframeIndex`, `FramePipelineProperties`, `MCPipeline` | selector, reader, positioner, frontier, slots and index act on one state | the stream itself (`OnScreen`, `KeyTimes`, `StreamEnd`) | done |
| 4 | `HardwareLadder`, `HardwareLadderProperties`, `MCHardware`, `HardwareLadderProofs` | – | – | done: every safety property of its runs proved |
| 5 | `MediaSource`, `MediaSourceProperties`, `MCMedia`, `MediaSourceProofs` | – | the file: frame *i* is the *i*-th | done: every safety property proved |
| 6 | `Time`, `RequestWindow`, `Geometry`, `SourceOpening`, `Converter` | `RequestPath`, `RequestPathProperties`, `MCRequestPath` | exact fractions, the display matrix as a linear map, tolerances as inequalities | done |
| 7 | `RequestValueProofs`, `RequestPathProofs` | the pure modules; `RequestPathProperties` | – | done: sums, windows, ticks there and back, boxes, the turn as a bijection and as the matrix has it, the caches, the stream taken |
| 8 | `FramePipelineProofs`, `NearestKeyframeProofs` | `FramePipelineProperties` over `KeyframeIndex` | the stream itself | done: types and places, the index, exact requests on files that nothing disturbs, nearest-keyframe requests |

Every invariant and action property that a passing run checks is now the subject of a theorem.  Theorems
still worth proving are wider forms of two that stand: what exact requests get when nearest-keyframe
requests come between them, and what they get on a pipe and under refused seeks.

## 3. The modules and the code

`PROJECT.json` gives, for each definition, the lines it translates.  Operators marked `mutant` in
a comment are not part of the model: each is a plausible bug, and the run named with it in
`PROJECT.json` fails when the definition below it is replaced by it.

### 3.1 `Engine` – the generation engine, its handles and the facade

*State.* The members of `Engine` and of `Batch` under their own names; `wpc`, `batch`, `index`,
`result`, `claimedTurn` are the worker inside `run()`; `pc[t]`, `arg[t]` the call thread `t` has in
progress (a handler's calls are the worker's); `asleep` the threads blocked in a condition
variable; `delivered` and `published` are history.

*Steps.* A critical section of `queueMutex` or of a batch's mutex that does not wait is one step;
a store to an atomic, a notification, and taking or releasing `decoderMutex` are steps of their
own.  So are the two halves of `requestStop()` (`stopping` under the lock, `stopFlag` after it)
and the four steps after a delivery (the handler destroyed, the item counted, waiters notified,
`current` forgotten).  Condition variables may wake spuriously and may time out at any moment.
The decode of an item is one step with any outcome.  A handler makes up to `MaxHandlerOps` calls
before it returns.  `CallsDuringClose = FALSE` restricts clients to the documented use (nobody
inside the generator while somebody closes it).

*Properties* (`EngineProperties`).  Delivery: `ExactlyOnceInOrder`, `HandlerDiesBeforeFinish`,
`UndeliveredIsReachable` (whatever is still to be delivered can be cancelled), `NothingLeftBehind`;
`CloseReturnsDrained` follows from the last and from the worker's exit, and is proved rather than
run.  First-in first-out is what the refinement below says.  Scheduling: `TurnDiscipline`,
`HandlerNeverParks`, `NoLostWakeup`, `ClaimedTurnIsServed`.  Progress: `BatchesFinishInTurn`,
`CallsReturn`, `TeardownEnds`.

*Refinement.* `ImplementsContract`: under the mapping `Contract` the engine implements
`GenerationContract`, in which there are no threads: batches are served in the order accepted, an
item is either delivered as cancelled (only if cancellation was asked for) or was started first,
and a batch reads as finished only after its handler is gone.  `started` is the subtle part of the
mapping: an item counts as started once its token was found clear, and no longer if the decode
came back cancelled.

### 3.2 `FramePipeline` over `KeyframeIndex` – from a time to a frame

*State.* One record per object of the code: `source` (the demuxer's next packet, its I/O flags,
the failed seeks and whether seeking has been given up), `decoder` (pictures inside it), `position`,
`frontier`, `slots`, `mode` (the selector's members), `reader`, `keys` (the index) and `ladder`
(the back-off) all outlive a request; `window`, `ctl`, `landing` and `reply` belong to the request
in progress.

*Steps.* Reading a packet, receiving a picture, seeking, re-opening, or the decision between two
of them; each action is one path through its function, together with every assignment the code
makes on that path.  The groups of `Next` are the phases of `extract()`: `Starts` (answer from
what is held, promote the look-ahead, decode on, or reposition), `Moves` (positioner, seeks,
back-off), `Lands` (`readLanding` and how it settles), `Selects` (`select`: feed, receive, drain,
the end-of-stream rules) and `Ends` (`verifyKeyframeTail`, the answer, cancellation).  The probe
that `open()` makes is the first request.

*External.* The demuxer: a timestamp seek is a hint and may land on any packet; a container
without a trusted index is additionally allowed to seek by byte.  The decoder keeps back `Depth`
pictures and emits them in presentation order; a picture is *intact* if everything it refers to
was decoded intact.  Cancellation may be seen at every check.  Which of seeking and decoding
forward is cheaper is a free choice, so nothing checked depends on the cost model.

*Properties* (`FramePipelineProperties`) compare answers with the stream: `FrameAccuracy`,
`HonestClamps`, `HonestFailures`, `NearestKeyframe`, `NoSilentDamage`; and the remembered state with
it: `LookAheadIsAdjacent`, `IndexIsTrue`, `TailIsTrue`.  `Terminates` is the liveness property.  Three of
them are narrower than their names.  `NearestKeyframe` says nothing once seeking was given up on the
way, `TailIsTrue` nothing when the end of file may be libavio's sticky one or the last frames may be
dropped as corrupt, and `IndexIsTrue` nothing when reads may be cut short or lose a key frame's packet: the
code links the key frames before and after a lost one, which its key-frame index has no means to notice.

### 3.3 `HardwareLadder` – which decoder, and what is published of it

*State.* `source` (open, at the start or inside, broken), `codec` (the `VideoDecoder`: what was
built, on which device, what negotiation did, the recorded fault and the one retry), `positioned`,
`firstFrame` (what `firstFrameTs` was taken from), `published` (the `ActiveDecoder` snapshot),
`ctl` and `reply`; `history` counts rebuilds in a run of failures and notes whether anything other
than hardware failed.

*Steps.* `setupDecoder()` tries candidates in order of preference, each built, positioned and
probed; `imageAtImpl()` attempts, rebuilds hardware once, falls back to software, and finishes.
`Reopen` is inside the actions that call it, with all its outcomes.  A setting names the policy,
codec, size, device configurations, the kind of source and which failures may happen.

*Properties*: `FirstFrameAtOpen`, `FaultsAreAbsorbed`, `OneRebuildPerRun`, `PublishedPathIsInUse`,
`SoftwareIsFinal`.

### 3.4 `MediaSource` – the container, its interrupts and its re-openings

*State.* `source` (open, `interruptFired`, `seekFailures`), `io` (the two flags of `AVIOContext` that
stay set after an interrupt), `at` (the next frame of the demuxer), `info` (`StreamInfo`'s origin,
duration, seekable), `position`, the `request` in progress and the last `reply`.  `position` is the
`Position` together with the frontier's `lastReceivedTs` (`received`) and `eof` (`ended`) and the two
slots, `held` and `pending`: the time stamp of the last frame received and the frames held are kept
apart, as the code keeps them.  `file` holds the setting, the length now and at open, and how many
seeks in a row were really refused; `source.lost` notes that a failed re-open once left the source
closed.  `KeyFrames` are the frames a flushed decoder can begin with, and `Setting.stamped` says
whether the container carries time stamps; where it does not (a raw stream) the pipeline counts the
frames that come out (`NextStamp`).

*Steps.* A request is accepted or refused by its time, re-opens a closed source, recovers from an
interrupt (`recoverAfterInterrupt()`, in place where the layout of libavformat is known, otherwise by
re-opening), is answered from the held frame if that is proved to cover it, or positions itself (decode
on, seek, seek to the start, re-open) and reads one frame at a time.  The recovery flushes the decoder
and drops whatever was held (`Recover`).  A source that can seek then knows no position; of one that
cannot, only how far it had come is carried (`CarriedForward`, the code's best effort): the demuxer may
have lost what it had read ahead, and the decoder gives nothing before the next key frame
(`SkipToKeyFrame`).  An end of file before any frame makes a request back off to the start, and there
clear the I/O and try once more.  The token may be set before any of these; a seek or an open may be
refused, `std::bad_alloc` may unwind any step, and the file may grow.  A re-open's probe may itself be
interrupted, and then keeps whatever it had read.

*External.* libavformat: an interrupt leaves `eof_reached`, with or without `error`, set for
every later call, and a seek that succeeds clears at most one of the two.  The decoder: after a flush
its first frame is a key frame.

*Properties*: `FaultsStayWithTheirRequest`, `AssetStandsStill`, `SeekingIsGivenUpForCause`,
`EveryRequestEnds`.  The first says that a request nothing happened to is unharmed by what happened
before it: it gets its frame, or is refused because the stream, or a pipe, does not have it.  On a source
that had to be resumed in the middle (`Resumed`) the frames that went with the decoder cannot be had
again, and what is claimed is that no other one passes for them: the first frame still to be had, a key
frame past the target, is flagged `clampedToFirst`, or the request fails with `endOfStream`.

### 3.5 `RequestPath` over `SourceOpening`, `RequestWindow`, `Time`, `Geometry`, `Converter`

Each of the five is a module of operators; `RequestPath` puts them in the order of a generator's
life: `Open` admits a stream, `Step` is a caller who adds to its time, `Refuse` and `Ask` resolve the
window, and then `TakePooledFrame`, `ScaleFrame` and their failures carry one frame through
`convert()`: download, output, another plane layout, scale, transform.  Which frame of the window it is
stays free; `FramePipeline` is about that.

* `Time` – values are words of `MaxValue`, scales of `MaxScale`; the 128-bit intermediates of the code
  are exact here.  Rounding, saturation, sums over a common scale, the total order, what is hashed.
* `RequestWindow` – `resolve()`: the time rounded to a tick, refusals, clamping, the two edges, and the
  value that stands for nearest-keyframe mode.
* `Geometry` – the display size, the fit into a box, the display matrix split into a turn and a mirror,
  and where each cell of each plane goes.
* `SourceOpening` – the pixel cap on the declared and on the decoded size, cover art, the wished
  stream, streams nothing can decode.
* `Converter` – four pools of frames and four scaling contexts, least recently used replaced; a slot is
  given up before its new pool is had; a context kept by geometry is told its colours each time.  The
  planes of NV12 frames headed for RGB or gray are rearranged first, by a fifth context of which there
  is one (`replaner`): any other size builds it anew (`Replaned`), and a failure loses it
  (`ReplanerLost`).

*Properties* (`RequestPathProperties`): `TimesAreExact` (stepping does not drift, steps add up and lead
back, an image is found again by the time it reports), `WindowIsTight`, `PictureFitsUpright`,
`ScaledWithItsOwnColours`, `SteadyStreamBuildsNothing`, `AdmittedStreamIsUsable`.  What a steady stream
builds is stated for each kind of cache: the second of two requests alike builds nothing, and alternating
between two shapes builds no scaling context, but for the one that rearranges planes, which is built
again for each request exactly if both shapes need it and their sources differ.

`FramePipeline` and `HardwareLadder` meet at the request: in the first the decoder never changes
and a re-open always succeeds; in the second selection is one step that yields a frame or fails,
and a re-open may fail.  `MediaSource` looks at the same request from below: its decoder keeps nothing
back, so that positions are plain numbers, and its interrupts, failed opens and unwound steps are all
there.  `RequestPath` takes the frame as given.

## 4. The runs

Each run takes one `.cfg`; `tlc -config X.cfg M` reproduces it.

| Run | Module, configuration | States | What it shows |
| --- | --- | --- | --- |
| `engine_delivery` | `MCEngine`, `EngineDelivery.cfg` | 279 269 | delivery, teardown and the refinement: two batches of 2 and 1 items; a client and the handlers request, cancel, wait and close |
| `engine_progress` | `MCEngine`, `EngineProgress.cfg` | 39 185 | the decoder between the worker, its handlers and two synchronous callers, one of which waits on a batch and one of which closes; turns, wake-ups, and that everything ends |
| `engine_starvation` | `MCEngine`, `EngineStarvation.cfg` | violation | the last is not so with an unfair mutex |
| `pipeline_settled` | `MCPipeline`, `PipelineSettled.cfg` | 1 330 139 | any sequence of requests on six kinds of file without cancellation or damage, and on a damaged pipe |
| `pipeline_cut` | `MCPipeline`, `PipelineCut.cfg` | 387 880 | requests cancelled anywhere, reads and seeks interrupted or cut short, a false end of file |
| `pipeline_stale_landing` | `MCPipeline`, `PipelineStaleLanding.cfg` | violation | a cancelled landing |
| `pipeline_lost_tail` | `MCPipeline`, `PipelineLostTail.cfg` | violation | packets dropped by the tail check |
| `pipeline_leading` | `MCPipeline`, `PipelineLeading.cfg` | violation | a first key frame that is shown after the time asked for |
| `hardware_ladder` | `MCHardware`, `HardwareLadder.cfg` | 5 978 | every policy, three kinds of source, twelve settings |
| `hardware_closed_source` | `MCHardware`, `HardwareClosing.cfg` | violation | a re-open that fails inside a probe |
| `media_source` | `MCMedia`, `MediaSource.cfg` | 996 736 | any sequence of requests on nine kinds of source under interrupts, refused seeks, failed opens, failed allocations and growth |
| `request_path` | `MCRequestPath`, `RequestPath.cfg` | 395 548 | containers, timelines, display matrices and conversions, each through the whole path |

### Bounds, and why they are enough

* *Engine.* A batch of two items has a first and a last; a second batch is what FIFO and chaining
  need; two clients are what a turn, a lock and a close race over.  A handler makes one call per
  invocation (`MaxHandlerOps = 1`); as a batch has several items, the handlers together make
  several.  Each batch is submitted at most once; the calls without a batch are unbounded.
  In `engine_progress` a handler calls `imageAt` or `close` but not `wait`, which would double the
  states: that `wait` on the worker's own thread returns at once is exercised by `engine_delivery`, and
  that no call of a handler ever parks is proved for all of them (`HandlersRun`).  There is no
  symmetry: `Ops` tells the threads apart, `Size` the batches.
* *Pipeline.* Streams of two or three groups of three pictures, with pictures reordered inside a
  group, or a group of a single picture between two others: there is a key frame before, at and after
  any target, a GOP to skip, and a tail.  Requests fall on, between and past the frames, with and
  without a tolerance that reaches both ways.  The number of requests is not bounded: the runs exhaust
  all sequences.  The code's constants are scaled down to be met: `MaxGopPackets = 2` makes a GOP
  overflow the replay buffer, `MaxBackoffs = 3`, `MaxRounds = 2`, `MaxErrors = 1` and `MaxSeekFailures
  = 2` exhaust their ladders, `OneSecond = 2` makes the forward-scan limit one group
  long.  `MaxKeyEntries = 3` equals the number of key frames, so a full index is not met (the code
  puts its bound at 2^20; `PipelineFullIndex.cfg` shows what happens there).  `Depth` is 1 where
  streams reorder and 0 in the damaged setting; section 6 says why.
* *Hardware.* Two device types, listed out of the order of preference, one of them twice and once
  without a device context; sizes and codecs on both sides of the `automatic` threshold.
* *Source.* Files of up to three frames asked for the first, an inner one, one frame past the end (the
  slack `resolve()` allows) and beyond; the first and the last are key frames, so that a flushed decoder
  has a frame to skip and one to begin with.  Two refused seeks give up on seeking (`MaxSeekFailures = 2`),
  so that a run of them can be broken by a success, by an interrupt and by a re-open.  Requests are
  unbounded.
* *Request path.* `MaxValue = 127` and `MaxScale = 15` put both ends of the domain, and scales without
  a representable common multiple, within a caller's five steps; time bases are finer than, coarser
  than and incommensurable with the steps.  Pictures have odd and even sides below and above a box, and
  every display matrix of right angles (four turns, mirrored or not).  NV12 frames of two sizes, and of one
  size between frames that need no rearranging, go to RGB and to gray (`Rearranged`); RGB and YUV frames
  of both ranges go to each other and to gray (`Recoloured`).  Each kind of setting varies what
  its property reads and fixes the rest, as the parts meet only in the values handed on.  Seventeen
  lookups fill four pools, replace them and come back; seven where allocations may fail at each.

### What the passing runs leave out

They hold where the code keeps its promises; each exclusion below is a finding or a documented
disagreement, and removing it makes the run fail.

* `pipeline_settled` asks a container without a trusted index only `RequestsApart`: no exact answer
  there is a key frame that was answered before its look-ahead arrived and whose tail a
  nearest-keyframe request then verifies (`pipeline_lost_tail`).
* `pipeline_cut` checks what the pipeline remembers and that it ends, not the answers: those fail
  after a cancelled landing (`pipeline_stale_landing`), or once a read cut short has passed for the end
  of the file (`PipelineCutShort.cfg`).
* The damaged setting of `pipeline_settled` uses a decoder that does not reorder, and a pipe, on which
  no landing is scanned (`PipelineTaint.cfg`, `PipelineScanDamage.cfg`).
* `hardware_ladder` lets a re-open fail under software only (`hardware_closed_source`), and under
  `requireHardware` `PublishedPathIsInUse` says nothing of a software decoder (`HardwareSnapshot.cfg`).
* `media_source` says nothing of answers once a probe cut short has replaced the origin or the duration,
  which takes a re-open that failed before it (`AssetKnown`; `MediaForgets.cfg`; `KnownUntilLost` is the
  proof that nothing else does); nor of pipes on a
  libavformat whose I/O state cannot be cleared, for which the code promises its best effort only
  (`detail/FramePipeline.h:759`); nor of sources without time stamps once they were resumed
  (`MediaRestamps.cfg`).
* `request_path` takes a tolerance that reaches past half of the tick domain for infinite, and one of
  more ticks than a word holds for that many (`IsOpenBefore`, `IsOpenAfter`, `Reaches`); compares
  hashes only where a sum is exact and not the least value; lets the last tick of the domain, which
  stands for every time that does not fit, not be found again; and lets `PictureFitsUpright` compare sizes with the exact fraction where the code scales in doubles.

`CHECK_DEADLOCK FALSE` stands where `open()` may fail: no generator exists then and nothing can
follow.  In the engine the quiescent states are named (`Quiescent`), and in `RequestPath` those in which
there is nothing to ask for (`Rest`), so that every other state without a step is a deadlock, and is
checked.

### Fairness

* *Engine, `FairSpec`*: weak fairness of the worker and of each thread inside a call: the operating
  system runs every thread.  Strong fairness of `DeferTimeout`: the 20 ms deadline is measured on a
  clock and passes however often the wait is woken before it.  Nothing makes a client begin a call,
  and nothing says who wins `decoderMutex`: `std::mutex` promises no order.
* *Engine, `DecoderIsFair`*: strong fairness of taking the mutex.  This is more than the standard
  promises, so it is a hypothesis of `BatchesFinishInTurn` and `CallsReturn` and not part of the
  specification; `engine_starvation` shows what is left without it, and `ClaimedTurnIsServed` and
  `TeardownEnds` hold even then.
* *Pipeline, `FairSpec`*: weak fairness of the one thread that runs an accepted request, whatever
  its next step is; never of accepting one.
* *Source, `FairSpec`*: likewise; never of what the environment does, or of a client asking.
* *Hardware, request path*: safety only.

## 5. Findings

Each is a run that violates one property; the quoted lines are in `PROJECT.json`.

1. `engine_starvation`: the worker claims a turn only when its deferral times out.  When it finds no
   caller waiting at that instant, or the queue empty at the top of its loop, it goes for the
   decoder unclaimed, and a caller that loops on `imageAt()` may win the mutex for ever.
2. `pipeline_stale_landing`: a cancellation inside `readLanding()` leaves the position marked as
   good although packets were read past it; the next request decodes from there, and answers a
   later key frame as the first frame.
3. `pipeline_lost_tail`: `verifyKeyframeTail()` drops packets and marks the position invalid, but
   the shortcuts that continue from the held frame do not look at the position; a third request
   returns a frame that is not on screen.
4. `pipeline_leading`: without any fault, when the first key frame of a stream is shown after the
   target (pictures decoded after it come before it, or an audio stream sets the origin), the landing
   read after the seek to the start drops that key frame's packet, and the second key frame is returned
   as the clamped first frame (`detail/PacketReader.h:338`).  The probe at open reads no landing, so the
   same request made first is answered rightly.
5. `hardware_closed_source`: on a source that can only be re-opened, a re-open that fails in the
   probe of rebuilt hardware closes the source, and the fall back to software builds a decoder from
   a stream that is null.

## 6. Disagreements kept out of the runs

They were met in the same way and each has a configuration that shows it; they are weaker than the
findings because what the code promises there is less explicit.

| Configuration | Property violated | What happens |
| --- | --- | --- |
| `EngineDrain.cfg` | `DrainCancelsEverything` | a handler that chains a batch between `stopping` and `stopFlag` has its item decoded, not cancelled, and `close()` waits for it |
| `EngineCallersFirst.cfg` | `WaitingCallersGoFirst` | deferring and taking the item are two critical sections; a caller that arrives between them is overtaken |
| `EngineHandle.cfg` | `EngineOutlivesCalls` | `close()` resets the engine under another thread's call; the documented use forbids it |
| `PipelineStranded.cfg` | `HonestFailures` | in nearest-keyframe mode a corrupt key frame leaves `eof` and a held frame with nothing received after it; exact requests well inside the stream are then out of range (`detail/FrameSelector.h:864`) |
| `PipelineUnflagged.cfg` | `FrameAccuracy` | without reliable key flags nearest-keyframe mode decodes frame by frame and drops what is no key frame; a back-off leaves its key frame held with a look-ahead that is not the next frame, and an exact request between the two is answered with the key frame (`detail/FrameSelector.h:221`) |
| `PipelineGap.cfg` | `FrameAccuracy` | on a pipe decoding on is accepted without promoting the look-ahead first; when the next picture lies past the target, the one held before the look-ahead is the answer (`detail/FramePipeline.h:822`) |
| `PipelineGivenUp.cfg` | `ExactWithoutSeek` | seeking given up during positioning turns a request for the nearest key frame half way, and a frame that is neither the exact one nor the nearest key frame answers it (`detail/FramePipeline.h:928`) |
| `PipelineByteSeek.cfg` | `FailedSeekReopens` | a byte seek that fails is not retried by re-opening, a timestamp seek is (`detail/FramePipeline.h:912`) |
| `PipelineTaint.cfg` | `NoSilentDamage` | taint is set in packet order and cleared in presentation order, so with reordering a key frame clears the taint of a picture that comes out later (`detail/FrameSelector.h:488`) |
| `PipelineScanDamage.cfg` | `NoSilentDamage` | a packet lost while a landing is scanned taints the frontier, and the key frame the scan settles on clears it although it precedes the hole (`detail/FramePipeline.h:961`) |
| `PipelineFullIndex.cfg` | `NearestKeyframe` | a key frame that finds the index full leaves the cursor at the one before, so the next one already recorded is linked across it: the GOP recorded reaches over the missing key, and a later request is answered by a key frame that is not the nearest (`detail/KeyframeIndex.h:99`) |
| `PipelineCutShort.cfg` | `NearestKeyframe` | an interrupt that reaches the scan of a landing as an end of file closes the GOP in the index, before anybody looks at the token; a later request trusts that extent (`detail/PacketReader.h:381`) |
| `MediaForgets.cfg` | `AssetAlwaysStandsStill` | a re-open that fails leaves no stream to carry the origin and the duration from, so the next one, cut short, replaces both by what it happened to read (`detail/MediaSource.h:362`) |
| `MediaRestamps.cfg` | `AnswersShowTheirTime` | a source without time stamps that is resumed after an interrupt counts its frames from the start again, so an answer nothing flags shows a later frame (`detail/FrameSelector.h:506`, `detail/FramePipeline.h:757`), although the README has frames "stamped in display order" (`README.md:641`) and holes recorded so that no request that follows a cancelled one is answered "out of stale state" (`README.md:531`) |
| `HardwareFirstFrame.cfg` | `FirstFrameIsFirst` | a fault under a skip window forgets the position; the probe of the rebuilt decoder takes that for an unread source and remembers a frame from the middle as the first (`detail/FramePipeline.h:320`, `:559`) |
| `HardwareSnapshot.cfg` | `SnapshotIsTrue` | a device that cannot be created again leaves no candidate, so the next request re-opens in software, unpublished, under `requireHardware` too (`detail/VideoDecoder.h:255`) |

Three more were met in the pure code; they show as exceptions in the properties of `request_path`.
`Time::hash()` does not reduce the fraction of the least 64-bit value, although `Time.h:453` promises
that equal times hash alike.  An exact request whose target lies past half of the tick domain gets a
window open towards that end, because the edge saturates there whatever the tolerance.  And turned
hardware frames of two alternating sizes need more than the four pools there are, so that each
conversion allocates again.  Likewise there is one context to rearrange planes, and alternating NV12 frames
of two sizes headed for RGB or gray build it for each request, although a set of contexts was meant to keep
such streams from doing so; `SteadyStreamBuildsNothing` states exactly when.

## 7. Proofs

`tlapm M.tla` checks every step of `EngineProofs`, `EngineRefinementProofs`, `FramePipelineProofs`,
`NearestKeyframeProofs`, `HardwareLadderProofs`, `MediaSourceProofs`, `RequestValueProofs` and
`RequestPathProofs`.

### `EngineProofs`: any number of clients, batches, items and handler calls

Assumptions: `ThreadsAssumption` (the worker is not a client, `None` no thread),
`BatchesAssumption` (`None` is no batch, `Size` maps batches to naturals) and `OpsAssumption`.
Nothing is assumed of fairness or of how many calls there are.

*Why an invariant stronger than the properties is needed.* That a finished batch has had all its
deliveries does not survive a step by itself: the count of completions, the cursor and the history
move in different steps, and whether they agree depends on where the worker stands.  `DeliveryInv`
adds that: `InHandOK` (the worker has a batch in hand exactly between dispatching an item and
forgetting it, and that batch is `current`), `QueueOK` (the queue holds the batches with items left
to dispatch, once each), `AccountOK` (per batch, dispatched = delivered = counted, up to the item in
hand), and `ExitOK`, `DoneOK` (the worker has exited iff it says so, with an empty queue).

| Theorem | States |
| --- | --- |
| `DeliveryCorrect` | `[]DeliveryInv` |
| `TypeSafety` | `[]TypeOK` |
| `ExactlyOnce` | `[]ExactlyOnceInOrder` |
| `HandlerLifetime` | `[]HandlerDiesBeforeFinish` |
| `Reachable` | `[]UndeliveredIsReachable` |
| `NothingLeft` | `[]NothingLeftBehind` |
| `CloseDrains` | `CloseReturnsDrained`, from `[]DeliveryInv`: the worker has exited when a client's `join()` returns |
| `TurnIsTransient` | `[]TurnDiscipline`, inductive together with the types alone |

*Sleeping and waking.* `NoLostWakeup` is not inductive: that a sleeping worker's condition is
false, or announced, after a caller leaves depends on `syncWaiters` being the number of callers
between announcing themselves and leaving, on callers sleeping only at a turn or on a batch that was
accepted, and on the worker calling in from a handler only.  `Awaited` states those (`SleepersOK`,
`HandlerCallsOK`, `WaitsOK`, and `WaitersOK` with the library's facts on cardinalities), `Announced`
the four conditions somebody may sleep on, each with whoever owes the notification.  `ChangeIsOwed`
and `StillOwed` carry the argument: a step that makes a condition true leaves its thread at a
notification, and one that leaves a notification behind has given it or owes the next.

| Theorem | States |
| --- | --- |
| `WakeupCorrect` | `[](Awaited /\ Announced)` |
| `WakeupsAreNotLost` | `[]NoLostWakeup` |
| `HandlersRun` | `[]HandlerNeverParks` |

### `EngineRefinementProofs`: the engine keeps the contract

Over the same assumptions and `DeliveryInv`.  `EngineImplementsContract` is the refinement itself: the
initial states map to one another, and each action of `Next` is the one step of the contract it should
be, or none (`WorkerMaps`, `CallMaps`).  What the mapping needs beyond delivery is `ContractInv`:
`PublishedOK` (the order of the contract holds each accepted batch once), `ServiceOrderOK` (the queue is
the end of that order, and the batch in the worker's hands just before it), `CancelledOK` (an item on
its way out as cancelled has had its cancellation requested) and `TeardownOK` (what only teardown brings
about comes after `requestStop()`).

| Theorem | States |
| --- | --- |
| `EngineImplementsContract` | `Spec => ImplementsContract`, that is, `Contract!Spec` under the mapping of `EngineProperties` |

### `FramePipelineProofs`: any stream, any requests, any bounds

Assumptions: `PipelineAssumption`, `StreamAssumption` (every packet has its own presentation time) and
`IndexAssumption`.  Nothing bounds the stream, the requests, the depth of the decoder or the constants.

*Types and places.* `TypeInv` is `Shapes` (what each record can hold) and `Phases` (what a program point
says of the others: when a landing is being read the decoder is empty and nothing is left to replay, its
best key frame was the last one read; a byte seek aims at a time the index recorded; and so on).  It holds
of every setting with every fault.  One lemma per handler shows that it keeps the shapes, one per group of
actions that it leads to a place whose phase holds.

*The index.* `IndexInv` adds to the claim itself (`Truthful`) what makes it inductive: the key frame from
which the next link will start is the last one *before the packet to be read* (`Chained`), so that a
cursor left over from before a seek would be caught.  Its premise `ReadsAll` is that no packet is lost, no
end of file false, and the index is not full; `PipelineFullIndex.cfg` and `PipelineCutShort.cfg` show what
happens otherwise.

*Exact requests.* What an answer depends on is everything earlier requests left behind: the frame held
and the one looked ahead to, pictures inside the decoder, parked and replayed packets, the position and
the frontier.  The theorems are about the settings that `Undisturbed` describes:

* no faults, and I/O that can be seeked (an index or none, with or without edit lists, clamping and
  reliable key flags, any depth);
* the first packet is a key frame that is shown no later than the first presented frame and than any
  target (the finding of `pipeline_leading` is what happens otherwise);
* key frames cut the stream in presentation order as in decode order (pictures may refer across them:
  open groups are allowed), and a picture is overtaken by no more pictures than the decoder holds back
  (`Depth`; a decoder that keeps fewer gives them out in the wrong order, whatever the code does);
* exact requests only (`pipeline_lost_tail` and `PipelineUnflagged.cfg` show what a nearest-keyframe
  request may leave to an exact one) and none cancelled (`pipeline_stale_landing`).

`pipeline_settled` checks such a setting, `Stream2` without key flags, and the same requests mixed with
others on the rest.

`Exact` is the invariant.  `Calm` says which places are never reached and which values never change.
`InOrder`: what is parked and replayed are the packets just before the demuxer's, in order, so `Unfed` is
the next packet the decoder will see and `Ahead` the times from it on.  `Feed` ties decoder, reader and
frontier together: every frame later than the last received is in the decoder or ahead of it, or was
skipped and precedes a picture in the decoder that is passed over as well (`Kept`); before anything was
received that is so from some key frame at or before the target (`KeptFrom`); a decoder that is not synced
has nothing, and what it will be fed first may start it (`NotSynced`).  `Quiet` and `Selecting` say what that makes of the held
frame and the look-ahead between requests and during one, `Fresh`, `LandingTrue` and `LandingAtStart` what
a scan for a landing relies on, and `RightAnswer` what may be handed out.  It is inductive only as a whole:
that the answer is right rests on `Quiet`, which rests on `Feed`, which a seek re-establishes from
`LandingTrue`.  Three lemmas carry the argument:

* `NextToCome`: the picture the decoder gives out is the earliest still to come.  Those that precede it
  and are not in yet would all be overtaken by what is in; were there one, the decoder's contents would
  be more pictures than may overtake it.  This is a count of finite sets, not an induction.
* `LaterFramesFollow`: after it every later frame is still `Kept`, so nothing is skipped unnoticed.
* `NeverEmpty`: the end of the stream is not reached with nothing received, except after a seek into the
  tail, which is retried from further back; so no request fails without being out of range.

`Adjacent` and, for closed groups, `DecoderSound` (from some key frame on the decoder has all that the
packets to come refer to) are then inductive relative to `Exact`.

| Theorem | States |
| --- | --- |
| `PipelineKeepsItsPlace` | `[]TypeInv` |
| `PipelineTypeOK` | `[]TypeOK` |
| `PipelineIndexIsTrue` | `[](ReadsAll => IndexIsTrue)` |
| `PipelineAnswersExactly` | `[](Undisturbed => FrameAccuracy)` |
| `PipelineClampsHonestly` | `[](Undisturbed => HonestClamps)` |
| `PipelineFailsHonestly` | `[](Undisturbed => HonestFailures)` |
| `PipelineTailIsTrue` | `[](Undisturbed => TailIsTrue)` |
| `PipelineLooksOneAhead` | `[](Undisturbed => LookAheadIsAdjacent)` |
| `PipelineDecodesFromWhatItHas` | `[](Undisturbed /\ ClosedGroups => NoSilentDamage)` |

### `NearestKeyframeProofs`: the key frame asked for

Over the same assumptions, `TypeInv` and `IndexInv`.  Nearest-keyframe requests need far less than exact
ones: no order of frames, no depth of the decoder, and not
that nothing goes wrong.  `KeysFindable` lets seeks fail, requests be cancelled, frames come out
corrupt and exact requests come between.  What it does ask for is what the answer is known by:

* key flags mean something, every packet is read, and key frames are shown in the order they are decoded in
  (`ReadsAll`, as for the index; the findings
  `PipelineFullIndex.cfg` and `PipelineCutShort.cfg` are what happens otherwise);
* each such request has a key frame at or before its target;
* where the container's index is trusted, all key frames are shown equally long after they are decoded,
  and no target is so far past the end that the index is not asked.  The code looks a key frame up by
  decoding time, at the target less the one reorder delay it has learned, so this is its own assumption.

The invariant is `KeyInv`.  `Wants` is a nearest-keyframe request that has no note so far, while seeking
has not been given up; `Wanted` says of each place what such a request relies on there: that a landing
about to be read was aimed at the target (`LandingFinds`), that the best key frame met while reading it is
not past the target (`WhileLanding`), that it is the one asked for once the landing is over
(`OnceLanded`), and that all the decoder can give out afterwards is that picture (`Draining`).
`NotesKept` (a note on a request is a note on its answer) allows the invariant to forget a request that
became an exact one.  `DelayLearned` is what a single request could not show: the delay is learned from
the first key frame that is ever read, and until then there is nothing decoded, held, parked or looked
ahead to that an answer could come from (`Untaught`); that survives requests that fail or are cancelled
before they have read one.  The landing itself rests on `IndexInv`, for a group that is recorded tells
where the next key frame is.  TLC checked `KeyInv` beforehand on trusted, scanned and piped settings,
with each fault alone.

| Theorem | States |
| --- | --- |
| `PipelineFindsNearestKey` | `[](KeysFindable => NearestKeyframe)` |

### `HardwareLadderProofs`: any policy, devices in any order, failing in any way

Assumption: `SettingsAssumption` (three kinds of source; "none" is not the name of a device type).
No setting needs to be finite, and the re-open that `hardware_ladder` must leave out is included.

The inductive invariant `Good` joins `Typed` (`TypeOK` regrouped, one decoder's conjuncts as `Sane`),
`Rungs` (at every step the decoder at hand is the one of its rung: nothing rebuilds hardware from
software) and `RetryNoted` (a rebuild that no frame has followed is remembered by the
decoder).  `Lawful` says once what any re-open, start seek or probe may do to the decoder, and every
action cites it.

The three properties of what the caller sees rest on a second invariant over `Good`.  `Told` has `StartOK`
(while the source is being opened the position is known, and what is remembered as the first frame is
one), `DeviceKept` (no rebuild or re-open moves a hardware decoder to another candidate than the one
published), `SoftwareTold` (a software decoder is published, or about to be, or nobody is told of it) and
`DecoderAtHand`.  `Absorbed` has `PipeOK`, `InUseOK` and `BlameOK`: a failure on its way to the caller is a
hardware fault that a rung is left for, or something other than hardware is to blame.  The last one is
not true of every setting.  A request that re-opens its source (on its way to a frame, not in the ladder)
while a hardware decoder is in use, and then cannot have the device again or not open the decoder, ends
with that failure and no rung of the ladder absorbs it.  `Sheltered` excludes exactly those settings: it
says that if sources are re-opened in use at all, neither of these two can fail.  It is decided by the
setting, and the run's settings satisfy it, so that the run checks `FaultsAreAbsorbed` plainly.

| Theorem | States |
| --- | --- |
| `TypeCorrect` | `[]TypeOK` |
| `RebuildsOnce` | `[]OneRebuildPerRun` |
| `SoftwareStays` | `SoftwareIsFinal` |
| `OpenStartsAtFirst` | `[]FirstFrameAtOpen` |
| `HardwareIsAbsorbed` | `[](Sheltered => FaultsAreAbsorbed)` |
| `SnapshotNamesThePath` | `[]PublishedPathIsInUse` |

### `MediaSourceProofs`: any file, any limit of refused seeks, any growth

Assumption: `MediaAssumption`.  `Inv` is the conjunction of `Shapes`, `Bounds` (nothing points past
the end of the file), `Counted` (the run of refused seeks is true, and `seekable` up to date with it),
`Owned`, `Learned` (until a re-open has failed the origin is the file's and the duration no shorter
than declared), `Placed`, `Unharmed` and the property itself.  `FaultsStayWithTheirRequest` needs all of
them.  That a request gets its frame rests on `Placed`, which has three parts: what is held came out of the
decoder that is there now, and the demuxer stands right behind it (`FramesHeld`); with nothing held the
demuxer is at the start, or wherever a seek or an interrupt left it (`NoneHeld`); a frame bears its own time
stamp, unless frames had to be counted anew (`Stamps`).  That an end of file may be believed rests on
`Unharmed`.  Its part `Forgotten` is the one that is easy to miss: a re-open that was cancelled may leave an
end of file that no flag marks as an interrupt's; it is harmless because such a request has lost its
position and holds nothing, so the next one seeks, finds no frame, backs off to the start and clears it
before it concludes anything.  The lemma `GoForwardFacts` carries `Placed` over decoding on, `HoldFacts`
over a frame read, `EndFound` over an end of file.

| Theorem | States |
| --- | --- |
| `FaultsStay` | `[]FaultsStayWithTheirRequest` |
| `KnownUntilLost` | `[](~source.lost => AssetKnown)`, which is the premise of `FaultsStay` |
| `GivenUpForCause` | `[]SeekingIsGivenUpForCause` |
| `AssetStands` | `AssetStandsStill` |
| `TypeCorrectness` | `[]TypeOK` |

### `RequestValueProofs`: words of any width, planes and caches of any size

Facts about the operators that a request's values pass through, from `TimeAssumption`, `UnsetAssumption`
and `SlotsAssumption` (`Slots >= 4`; the code has 4).  Where a proof would go by induction over a number,
it takes the least element of a set of numbers instead: `LeastOf` gets it from the library's fact that
the strict inclusion of finite sets is well-founded.  On it rest `GcdIsGreatest`, `LowestTermsAreUnique`
(equal fractions are the same in lowest terms), and what `Min` and `Max` return.  `Quotient` (a quotient
is known by what it leaves) carries the arithmetic of rounding; `SumIsExact` says what `operator+` does
over a common scale that fits.  `SlotGivenUp` and `OneOfThreeIsNotGivenUp` say which entry of a cache is
replaced: never one of the last three used.

`PicturesFitTheirBox` compares the scale factors of the two sides as fractions (`NearestExact`: the side
that decides the scale comes out exactly; the other is rounded, and at most the box), and then clips to whole chroma
cells, which can take one pixel but never the last two.

| Theorem | States |
| --- | --- |
| `TicksComeBack` | a tick whose time can be represented is found again from that time, in every time base |
| `AcceptedRequestsHoldTheirTarget` | an accepted request's window is in the domain and holds its target; it starts at the least value exactly if it asks for the key frame before |
| `PicturesFitTheirBox` | a picture is in its box, not scaled up, as large as that allows and of whole chroma cells |
| `TurnStaysInside`, `TurnKeepsCellsApart`, `TurnFillsThePlane` | turning and mirroring a plane is a bijection onto the turned plane |

### `RequestPathProofs`: any source, any sequence of requests

Assumption: `SettingsAssumption`, that the values of a setting are of their types: ticks are words, a time
base is positive, a stream has an origin, a decoded frame has pixels; and that a header declares the size
its stream has, or none (external: a header that lies may be refused for it, and `AdmittedStreamIsUsable`
would then be about the lie).  `Base` (the generator has one setting and is open only with valid options;
a request under way is valid and its window is what it was resolved to; the converter is one) is
inductive and every theorem uses it.

*Times.* `WalkOK`: after *n* steps the time is the first one plus *n* times the step, over their common
scale, or is invalid for a reason that persists (`WalkStaysOver`: a sum that has left the domain does not
come back).  Drift is excluded by that, and what a time hashes to by `LowestTermsAreUnique`.

*Caches.* That two requests alike build nothing for the second is far from inductive: a pool is
found again only if it was not given up by a stage in between.  `CachesOK` says why it was not.  Stamps
are unique and none is ahead of the clock (`StampsOK`); a request knows by the clock which pools it has
taken itself (`StageOK`), and as it takes at most three before the last, the slot given up is none of
them; the context of the last image is the newest and that of the one before is still there
(`ScalersOK`); all that the last image took is there for one like it (`PoolsOK`); and what a request has
built so far is neither pool nor scaling context, if it repeats the last (`BuiltOK`).  The single context
that rearranges planes has an invariant of its own, `ReplanerOK`: between requests it is the one the last
image that needed it left behind (`IsLastSource`), and a request under way that has rearranged has built it
exactly if that was another one.  `StagesReplan` says what each stage does to it, `ReplanerFollows` that
every step keeps the invariant, and `ReplanerIsRebuilt` is the part of the property that follows.

*Pictures.* `TurnFollowsTheMatrix` sets the code's way of turning a picture (an angle and a mirror read
off four signs, then one of a few index formulas) against the matrix as a linear map on the corners of the
cells, for each of the eight matrices and planes of any size.  `ImageOK` (an image was made from the
setting's frame, under the request's overrides) carries it to every image, with `PicturesFitTheirBox`.

| Theorem | States |
| --- | --- |
| `TurnFollowsTheMatrix` | every cell goes where the display matrix puts it |
| `PicturesFitUpright` | `[]PictureFitsUpright` |
| `WalksAreExact` | `[]TimesAreExact` |
| `WindowsAreTight` | `[]WindowIsTight` |
| `ContextsAreToldTheirColours` | `[]ScaledWithItsOwnColours` |
| `SteadyStreamsBuildNothing` | `[]SteadyStreamBuildsNothing` |
| `StreamTakenIsUsable` | `[]AdmittedStreamIsUsable` |

### What is only model-checked

* Liveness (`BatchesFinishInTurn`, `CallsReturn`, `TeardownEnds`, `ClaimedTurnIsServed`, `Terminates`,
  `EveryRequestEnds`) and anything with `ENABLED`: out of the prover's reach.
* Of the pipeline, what exact requests get outside `Undisturbed`: on pipes, after refused seeks, damage
  or cancellation, and after nearest-keyframe requests.  Each would weaken `Exact` in its own place (a
  key frame decoded alone leaves a gap between the held frame and what follows, a cancelled seek a
  position nobody has read from).  And what nearest-keyframe requests get outside `KeysFindable`: with
  trusted indexes whose key frames are delayed unequally, and targets before the first key frame.
* What a recursive definition computes for every input: the library's induction theorems take an
  operator as a parameter, which the installed provers cannot instantiate.  Arguments by a least element
  take their place where the data are numbers.

## 8. What is not modelled, and why

* *In the pipeline and below.* In `FramePipeline` the time stamps synthesised for raw streams, and packets
  without any (`MediaSource` counts the frames of a raw stream); damaged frames that a decoder may give out
  between a flush and the next key frame;
  learning whether key flags are reliable (a constant of the setting); which way is cheaper (a free
  choice, of which the cost averages are one); cancelling `open()`; sizing of the surface pool.  I/O
  that stays stuck after a re-open is not assumed to recover, and nothing is claimed of it.
* *Of time.* Conversions to and from floating point, chrono durations and text: floating-point
  rounding is out of TLC's reach, and nothing else depends on them.
* *Of pictures.* The labels put on an output frame, padding and alignment of buffers, the download
  without a pool; what a scaler computes.  The code's double-precision scale factor is an exact
  fraction here, so a picture whose true side is within a rounding error of one half may differ by one
  pixel.
* *Of options.* Thread counts, device strings and demuxer option names: range checks without behaviour.
* *Components without behaviour over time.* The description copied from container fields at open
  (`AssetInfo.h`, `detail/AssetInfoBuilder.h`), immutable values, tables and conversions of
  representation (`Image.h`, `Error.h`, `PixelFormat.h`, `Interop.h`), RAII wrappers, error texts and
  log redirection (`detail/FFmpeg.h`, `Log.h`).
