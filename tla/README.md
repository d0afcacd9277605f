# TLA+ verification of the AutoStream Worker

The AutoStream Worker is a Go service that runs one *stream job* at a time for a
Control Panel: it renders a scene from Discord events, sends it as JPEG frames
over SRT to an Encoder/Recorder, forwards overlay and caption events to the same
Encoder over HTTP, and turns Discord voice packets into captions with Deepgram.
This directory models the parts of it in which operations, callbacks, retries,
timers and restarts meet, checks them with TLC and proves with TLAPS the safety
properties of the job lifecycle, the stop receipts, event delivery, the video
output, the caption audio, the Deepgram connections, the avatar cache and the
process.

`PROJECT.json` maps every definition to the lines it translates, lists the runs,
the mutants that show each property can fail, the findings, the hazards and the
theorems.

## 1. The system and its parts

| Part | Source | State it keeps | Operations | Hard because |
|---|---|---|---|---|
| Job lifecycle | `internal/jobs/manager.go`, `caption_runtime.go`, `scene.go` | the current stream, `stopping`, job and caption session generations, pointers to session, ingress, delivery loop, scene, video output | `Start`, `Stop`, `Close`, `UpdateCaptionRuntimeSettings`, `HandleVideoOutputFailure` | every operation unlocks `mu` several times; callbacks of earlier jobs arrive late; each step can fail |
| Stop receipts | `stopped_targets.go`, `stopped_target_receipts.go` | bounded list of (stream, time), file of it | remember, forget, load | crash or write error around the rename; expiry and eviction |
| Runtime configuration | `runtime_config.go` | assignment policy, defaults, caption profiles | `ApplyRuntimeConfig` | changes between the two checks of an operation; applied in separate critical sections |
| Event publishing and retries | `event_publishing.go`, `event_delivery.go` | retry queue, newest event per key, delivery context, recent events | publish, supersede, enqueue, delivery loop, stop | publishers and loop send concurrently; stop waits for the loop |
| Caption audio ingress | `caption_audio.go` | bounded queue of packet batches per session and voice connection | enqueue, replace, process, stop | check, copy, check again; reconnects; retries of a part of a batch |
| Deepgram session | `internal/deepgram` | connection per speaker, dials in progress, utterance being assembled, timers | `Ingest`, read, publish and keep-alive loops, `Close` | single-flight dials racing `Close`; reconnect generations; three timers on one loop |
| Caption transcripts | `caption_events.go` | none (bound to generations) | handler of a session | late transcripts of a replaced session; order of revisions |
| Scene | `internal/scene/state.go`, `avatar.go` | participants, speakers, chat, captions, conversation, avatar cache | `Reset`, `Clear`, `Apply`, `Snapshot`, `Prefetch`, `Lookup` | reordering window, expiry, bounded lists, asynchronous fetches |
| Scene appearance | `internal/sceneappearance/runtime.go` | generation bindings, decoded images | `Prepare`, `Close` | images are wiped while others hold them; bounded caches |
| Video output | `internal/videoout/manager.go`, `srt.go` | the running session, its goroutines | `Start`, `Stop`, `monitor`, render loop, dial | the monitor races `Stop` and the next `Start`; dials end late |
| Encoder client | `internal/encoder/client.go` | none | `Publish` | a request may arrive although an error returns |
| HTTP API and process | `internal/httpapi`, `cmd/worker/main.go`, `internal/control` | updater identity, registration, node file | requests, start-up, shutdown | the node file and the assignments change at any time; requests are served during shutdown |
| Rendering, fonts, tokens, metrics, installer | various | none that matters to the protocol | | |

How they interact: HTTP requests fetch and apply a runtime configuration and call
the job manager; it calls the Deepgram session factory, the scene, the appearance
runtime and the video output while holding `lifecycleMu` (released by no operation
before its last step, except the report of a failure); the video output calls back
through a goroutine that needs `lifecycleMu`; audio requests fill the ingress,
whose goroutine hands packets to the Deepgram session; transcripts and requests
publish under `mu` and `publisherMu` only and are applied to the scene.  `mu`
protects single critical sections; nothing protects the time between them except
the generations.

What makes each part correct:

- *Lifecycle*: whatever fails, an idle Worker owns nothing and an active job owns
  exactly its own resources; nothing of an earlier generation acts on a later
  one; `lifecycleMu` is always released.
- *Receipts*: an acknowledged stop stays acknowledged over restarts until its
  receipt may go; the file can always be loaded.
- *Events*: the Encoder never goes back to an older event of a key; the newest
  one is not lost; the queue is bounded; `Stop` never hangs.
- *Audio and captions*: audio reaches only sessions of its job, and nothing is sent
  twice; no socket is leaked; `Close` is complete; the
  timers lose no utterance; the revisions of a connection grow, and the scene takes
  none of its captions for a repetition of another of them.
- *Scene*: nothing is listed twice; captions and rows agree; a final caption is
  not taken back; avatars are fetched once and failures are remembered; the
  background shown is the one that was asked for.
- *Video*: at most one session, exactly one report for one that died, none for one
  that was stopped; no connection without an owner.
- *Process*: one identity, enforced assignments, a shutdown that stops the job.

## 2. Plan

Written: every module of the list in section 3.  The order was the lifecycle with
its receipts and proofs, event delivery, the video output with its contract, the
caption path from ingress to scene, the caches, the process; then the proofs about
event delivery, video output, process, Deepgram session, caption ingress, avatar
cache, speaker timers, scene appearance, scene and caption pipeline.

Next:

1. An abstract `JobService` (start, stop, end by failure, acknowledged stops)
   implemented by `JobLifecycle`.
2. The caption profile (`caption_config.go`) as an operator, so that the
   condition `TimersFit` of `SpeakerTimers` can be compared with what it admits.

## 3. Modules

| Module | Models |
|---|---|
| `StoppedTargets` | the receipt list as operators: a list in order of insertion is the set of its entries, because every insertion has a later time |
| `JobLifecycle` | the four operations, configuration, audio reconnects, death of the video output, crash and restart |
| `EventDelivery` | publishers, retry queue, delivery loop, reduced start and stop |
| `VideoContract` | what the video output promises the job manager (abstract) |
| `VideoOutput` | `videoout.Manager`: callers, dials, renderers, shutdown, monitors; implements `VideoContract` |
| `CaptionIngress` | the way of audio packets from a request to a session |
| `DeepgramSession` | the connections of a session |
| `SpeakerTimers` | the clocks of one connection |
| `Utterance` | the transcripts of one speaker, over several connections |
| `SceneState` | participants, speakers, chat, captions, conversation |
| `CaptionPipeline` | `Utterance` and `SceneState` composed |
| `AvatarCache` | `Prefetch`, `Lookup`, downloads, eviction |
| `SceneAppearance` | `Prepare`, bindings, image cache, wiping, and their use by `Start` |
| `WorkerService` | start-up, identity latch, requests with their configuration, shutdown |
| `MC...` | the TLC instance of each of them |
| `JobLifecycleProofs`, `EventDeliveryProofs`, `VideoOutputProofs`, `CaptionIngressProofs`, `DeepgramSessionProofs`, `SceneProofs`, `ImageCacheProofs`, `WorkerServiceProofs` | the theorems of section 5 about the module they are named after (`JobLifecycleProofs` also about `StoppedTargets`, `DeepgramSessionProofs` about `SpeakerTimers`, `SceneProofs` about `SceneState` and `CaptionPipeline`, `ImageCacheProofs` about `AvatarCache` and `SceneAppearance`) |

In every module an action is one critical section of the lock that protects the
state, together with the unshared work that follows it; locals that live across
critical sections are records per goroutine with a `step`.  History variables
are marked as such where they are declared; no guard reads them.

### JobLifecycle

`Start`, `Stop`, `UpdateCaptionRuntimeSettings` and `HandleVideoOutputFailure`
hold `lifecycleMu` from their first to their last step, so one variable `op` with
a step name and the locals of the running operation represents them all:

| Code | Actions |
|---|---|
| `Start` | `StartBegin`, `StartPrepare` / `StartPrepareFails`, `StartRefused` / `StartReceiptFails` / `StartUnsupported` / `StartCommit`, `StartVideo` / `StartVideoFails`, `StartUndo` |
| `Stop`, `Close` | `StopBegin`, `StopDelivery`, `StopOutputs`, `StopReceipt` / `StopReceiptFails`; the early returns change nothing and are the operator `StopAnswersAlreadyStopped` |
| `UpdateCaptionRuntimeSettings` | `UpdateBegin`, `UpdatePrepare` / `UpdatePrepareFails`, `UpdateSwap` / `UpdateRefused`, `UpdateCleanup` |
| `HandleVideoOutputFailure` | `HandleVideoOutputFailure`, `StaleVideoOutputFailure`, `FailureCleanup` |
| without `lifecycleMu` | `ApplyRuntimeConfig`, `AudioConnection`, `VideoOutputDies`, `Tick`, `CrashAndRestart` |

Resources are sets and bindings: `sessions` and `ingresses` hold every session
and ingress goroutine that exists, whether or not the manager still points to it,
so a leak is visible.  A session carries the generations its transcript handler
was bound to.  `receipts` is the list in memory, `disk` the file; a write that
reports an error may have changed the file or not.

Abstractions: a request is its stream and whether it asks for captions and video;
profiles, secrets and appearance are "preparation succeeds or fails"; reports and
metrics are left out; `videoout` is one binding that exists or not, which is what
`VideoContract` says of it.  Deadlines of clean-up calls are not represented:
cancelling and waiting is one step.

### EventDelivery

Publishers are goroutines inside `publishWithGenerations`; each of their actions,
and of the loop's, is one critical section of `mu` or of `publisherMu`.  Events of
one key are numbered in the order in which they were accepted, so "older" and
"newer" have a meaning.  `shown` is what the Encoder received last for a key.
`Publish` may deliver and still report an error; with a context that was cancelled
before the call it delivers nothing.  Backoff delays are abstracted to an entry
being due or not, which time makes true at any moment; `LoopSleepsLate` is the
moment between the scan's clock and `time.Until`.

### VideoContract and VideoOutput

`VideoContract` has four variables (the live session, sessions that were live,
reports owed, reports made) and four actions.  `VideoOutput` has the callers of
`Start` and `Stop`, `lifecycleMu`, and per session the dial goroutine (whose late
success is closed by `DialAbandoned`), the renderer with `writeMu`, the avatar
refresher, `shutdown` in its three waits, and the monitor.  A context may expire
at any moment (`Expire`).  The refinement maps `live` to `current`, `past` to the
sessions with a monitor, `owed` to those whose monitor found them current and has
not reported, `told` to those reported; `ImplementsContract` includes the fairness
of `Tell`.

### CaptionIngress, DeepgramSession, SpeakerTimers

`CaptionIngress` has the two critical sections of
`EnqueueCaptionAudioForGeneration` (`EnqueueFirst`, `EnqueueSecond` /
`EnqueueRefused`), the queue with its three limits and separate counters, and the
goroutine of each ingress from `TakeBatch` over the check, the later read of the
session, the packets one by one, and the backoff to `RecordDrop`.  A packet takes two
steps, the two halves of `Session.Ingest`: the lookup, which refuses closed sessions
and old voice connections and raises `latestConnectionGeneration` (`ConnectionFound`,
`ConnectionRefused`), and the write (`PacketWritten`, `PacketFails`).  Start, stop and
update of the job are reduced to what they do to session, ingress and generations.
That no packet of an older voice connection is written after one of a newer is not
claimed: between lookup and write of the old ingress the new one may do both, and
`Session` aborts the connections it evicts only after its unlock
(`connections.go:59`).  What holds is in `DeepgramSession`: once a newer generation was
seen, no connection of an older one is registered.

`DeepgramSession` has the callers of `Ingest`, the maps of connections and dials,
the loops of each connection and `Close`.  A *link* is a dial and the connection
it became, so a socket nobody owns is visible.  The provider answers, fails for a
while or for good.

`SpeakerTimers` keeps instants as ages in ticks of the publish loop, one connection
at a time: local finalization, the delay before publishing (which holds up the
loop), the idle close and the keep-alive.  Its behaviour is `TimerSpec`.
`IdleLosesNothing` needs `TimersFit`: the delay is shorter than the local
finalization, and the idle close is at least the local finalization plus the
provider's lag and the age of a marked packet.  The run uses the least admissible
idle close; with one tick less TLC finds a lost utterance, so that bound is tight.
With a delay as long as the local finalization (two ticks each, three places in the
queue) TLC finds a loss at an idle close of seven ticks, the finalization, both lags
and the delay: each finalization may hold up the loop until the next result is old
enough to be finalized at once, so results pile up.  The defaults (800 ms, 1.5 s, 8 s)
fit; `captionConfig` checks each setting on its own and does not establish it.

### Utterance, SceneState, CaptionPipeline

`Utterance` assembles results into utterances with identifier and revision, over
connections that follow each other.  `SceneState` is the reducer of
`internal/scene/state.go`, one action per event type, with pruning by age, the
limits of each list, the order of the conversation within its window, and the
attribution of captions to speakers that become known later.  Events carry their
own time stamp, at most `MaxLag` behind the clock.  Where the code iterates over a
Go map the model chooses.  `CaptionPipeline` joins the two in one step, as the
handler is synchronous.  The event has the time of the transcript's `UpdatedAt`, which
is set when the provider's result comes in, before the queue and the publish delay;
the model lets it be any time up to the clock, `MaxLag` old at most.

### AvatarCache, SceneAppearance

Both keep the instants and images that goroutines hold across an unlock:
`AvatarCache` the time a caller read before it took the lock, `SceneAppearance` the
decoded image that `Prepare` handed out and an eviction may zero.  Images are
numbered places of a heap, so wiping is visible to whoever still holds one.

### WorkerService

`main` step by step with every read of the node file (replaced by rename, removed
or unusable at any time), the identity latch, registration, the first
configuration, then requests that read the file, fetch, apply policy and profiles
separately and call the manager, and the shutdown (`manager.Close`, then
`server.Shutdown`).  The Control Panel changes the assignments at any time.

## 4. Runs

One run per module, and one for the finding.  Where a run checks an `...Inv` or
`...Progress`, it is the conjunction of the named parts above it in the module,
each with its own comment and mutant.

| Run | Checks | Bounds, and what they let happen |
|---|---|---|
| `job_lifecycle` | `TypeOK`, `OwnsExactlyItsJob`, `StopFence`, `SessionFence`, `FailureHitsOnlyItsJob`, `AckedStopIsDurable`, `StartsOnlyAssigned`, `EndedJobLeavesReceipt`, `LifecycleProgress` | two streams (a successor is the same or another one), one receipt place (eviction), three generations per process, two voice connections (a reconnect), four instants with a lifetime of one (expiry), crashes at any time |
| `event_delivery` | `DeliveryInv`, `NewestNotLost`, `NoRegression`, `StopCompletes` | two keys, one of them protected and with two events, one queue place (overflow), three attempts (a retry is retried, and put back into a full queue), two jobs |
| `event_same_key` | `RetryIsNewest`, violated | two publishers of one key |
| `video_output` | `ConnectionInv`, `ShutdownSparesFrames`, `ImplementsContract`, `OutputProgress` | two sessions, so that a monitor of the first meets the second; one caller, because the job manager calls under its own `lifecycleMu` |
| `caption_ingress` | `IngressInv`, `AudioFence`, `PacketsAccounted` | two batches of two packets, two ingresses, voice connections and jobs, two retries, a queue that a second batch overfills |
| `deepgram_session` | `ConnectionInv`, `CloseIsComplete`, `SessionProgress` | two callers, two voice connection generations, a source before and after its user is known, one connection place, two dials, two of the three loops of a connection (the other two differ in nothing the model keeps) |
| `speaker_timers` | `TimerInv`, `IdleLosesNothing`, `SilentSpeakerCloses` | delay, keep-alive interval, queue and the provider's lag of two, finalization of three ticks, idle close at its least admissible value of six |
| `scene_state` | `ListsInv`, `CaptionsAgree`, `FinalCaptionStays` | two users, an anonymous speaker, one utterance id with two revisions, two messages, lists of one and two places, events up to one instant late |
| `caption_pipeline` | `RevisionsGrow`, `NothingOfOneConnectionDropped` | two connections, two utterances each, three revisions, local finalization on, events up to one instant late |
| `avatar_cache` | `CacheInv`, `FailureRemembered`, `LoadsEnd` | three good addresses and a refused one, two places (eviction), so that two downloads may be admitted at once, of which one gets the only place of the semaphore; one caller, whose reading of the clock may be old when it is used; two instants, lifetimes of one |
| `scene_appearance` | `AppearanceInv`, `NeverOlder` | two starts, two streams, one binding (eviction), two pictures under one name and a large one, a cache of two |
| `worker_service` | `ServiceInv`, `StartsOnlyAssigned`, `ShutdownCompletes` | two nodes, two versions of the assignments, one request at a time, two jobs, Control Panel required |

`event_delivery` has one publisher, so a key has one request at a time: with two
the finding of `event_same_key` breaks `NoRegression`.  The Discord Bot, the usual
sender, awaits each answer, but nothing in the Worker enforces it.  In the same way
`worker_service` has one request at a time (section 6).  What no run reaches is left
to the theorems of section 5, which hold for every value of the constants: captions
without an utterance id (`Utterances` without `NoUtterance` in `scene_state`) and
several callers of the avatar cache.

Deadlock is checked where the system goes on for ever within its bounds
(`job_lifecycle`, `video_output`, `scene_state`).  Elsewhere the model rests when
the named bounds (`MaxEvents`, `MaxLinks`, `MaxImages`, `MaxJobs`, ...) are used up
or the process has exited.  `TimeLeft` in `JobLifecycle` keeps one instant for the
receipt of the job that runs, so that no stop is blocked by the bound.

### Fairness

Goroutines that can go on do so (weak fairness).  A goroutine that waits for a
`sync.Mutex` gets it in the end, because Go hands the lock to a waiter that has
waited for a millisecond (strong fairness of the lock steps); a place of the
avatar semaphore and a `select` case that stays ready are taken likewise.  Calls
that the code bounds end: `Publish` by the HTTP client's timeout, dials, writes and
the graceful close of Deepgram by theirs, downloads by theirs, the start of the
video output by its startup timeout.  That an SRT dial and write return is assumed
of the library, and that the Control Panel answers or its connection breaks is
assumed in `worker_service`, because the control client has no timeout of its own.
Requests, crashes, failures and the expiry of a caller's context are never required
to happen.

## 5. Proofs

A theorem holds for every value of the constants that its module's assumptions
admit: any number of goroutines, keys, streams, sessions and voice connections,
and any limits.  Each proof has the same shape: an inductive invariant, the
conjunction of one named part per piece of state, holds at first and is kept by
every action (a lemma per action or per part), and the properties follow from it.
The parts were checked by TLC on the run's instance before they were proved.

| Module | Theorem | States |
|---|---|---|
| `JobLifecycleProofs` | `TypeCorrectness`, `NothingLeftBehind`, `JobIsWhole`, `OwnsExactly` | `TypeOK`, the two parts of `OwnsExactlyItsJob` and the whole |
| | `StopIsFenced`, `TranscriptsAreFenced`, `FailuresAreFenced`, `OnlyAssignedStart` | `StopFence`, `SessionFence`, `FailureHitsOnlyItsJob`, `StartsOnlyAssigned` |
| | `FileLoads`, `EndLeavesReceipt` | the receipt file loads; a job that ends leaves its receipt |
| | `AckedStopsDurable` | `AckedStopIsDurable` |
| `EventDeliveryProofs` | `DeliveryIsBounded` | `DeliveryInv` |
| | `NewestKept`, `OrderKept` | `NewestNotLost`, `NoRegression`, both under `Exclusive` |
| `VideoOutputProofs` | `ConnectionsOwned`, `FramesSpared` | `ConnectionInv`, `ShutdownSparesFrames` |
| | `SafetyOfContract` | every step is a step of `VideoContract` or a stutter |
| `CaptionIngressProofs` | `AudioFenced`, `PacketsAreAccounted` | `AudioFence`, `PacketsAccounted` |
| | `IngressIsSafe` | `IngressInv`; `ReplacedEnds` and `RoomKept` are its parts |
| `DeepgramSessionProofs` | `ConnectionsKept`, `CloseComplete` | `ConnectionInv`, `CloseIsComplete` |
| | `TimersAreSafe` | `TimerInv` of `SpeakerTimers` |
| | `IdleCloseIsLate` | `IdleLosesNothing`, under `TimersFit` |
| `SceneProofs` | `SceneListsHold`, `CaptionsAlwaysAgree`, `FinalCaptionsStay` | `ListsInv`, `CaptionsAgree`, `FinalCaptionStays` |
| | `RevisionsAlwaysGrow`, `NothingIsDropped` | `RevisionsGrow`, `NothingOfOneConnectionDropped` of `CaptionPipeline` |
| `ImageCacheProofs` | `CacheIsSafe`, `FailuresRemembered` | `CacheInv`, `FailureRemembered` of `AvatarCache` |
| | `AppearanceIsSafe`, `NeverOlderHolds` | `AppearanceInv`, `NeverOlder` of `SceneAppearance` |
| `WorkerServiceProofs` | `ServiceIsSafe` | `ServiceInv` |
| | `StartsAssigned` | `StartsOnlyAssigned`, under `Single` |

### Job lifecycle and receipts

Assumptions: `StreamsAssumption` (the empty stream id is no stream),
`ReceiptBounds` (limit at least one, lifetime a natural number), `ModelBounds`.

`JobLifecycleProofs` proves `Spec => []Inv`.  `Inv` is the type invariant and:

- `JobInv`: which operation may run with and without an active job, and that
  `stopping` implies an active job and no caption session;
- `SessionInv`: the open sessions are exactly the manager's and the one the
  running operation still has to install or to close; the first is bound to the
  current generations, the second to others;
- `IngressInv`: the manager's ingress belongs to its session and is alive;
- `DeliveryInv`, `SceneInv`: loop and scene exist exactly for the active job or
  for an operation that is about to remove them;
- `VideoInv`: the output belongs to the current generation or to the one `Stop`
  is ending; a callback bound to the current generation belongs to a job that
  runs, whose output is dead.

None of the safety properties is inductive alone: `FailureHitsOnlyItsJob`, for
example, needs that generations only grow past every binding that exists, and
`NothingRunsWithoutAJob` needs to know, in the middle of an operation, what its
remaining steps will remove.  Types are not inductive alone either: that a
receipt names a stream depends on which operation is under way.

The second half of `JobLifecycleProofs` first proves about the cut of the list
(`StoppedTargets`) that it leaves at most `MaxReceipts` entries when all times differ,
and that it keeps the newest one.  It then shows that every receipt is older than the
clock and that times differ (`ReceiptInvariance`), and concludes `FileLoads` (about
`ReceiptFileLoads`, which no run repeats) and `EndLeavesReceipt`.

`AckedStopsDurable` needs a counting argument.  `AckInv` says of every acknowledged
stop that memory and file both hold its receipt as long as it counts, and that every
receipt of a later time in either list is of a stream that was stopped later
(`Holds`); the second part is what makes the first inductive.  The receipts in front
of an acknowledged one name different streams, all of them stopped later, so there
are fewer of them than fit and the cut keeps it (`NewestKeepsRecent`).  Memory and
file need the statement separately: a write that fails late leaves the new list in
the file and the old one in memory, and a restart replaces memory by the file.

### Event delivery

`DeliveryAssumption` asks for a finite set of protected keys that fits into the
queue and for at least two attempts.  In the code two keys are protected, the
participants and the active speaker of the stream (`event_delivery.go:140`), the
queue has 256 places and an event five attempts.  With more protected keys than places
nothing could be evicted and the bound would be wrong.

`QueueBase` (types, attempts, which entry the loop carries, what may exceed the
limit) gives `DeliveryInv` for any publishers.  `OrderInv` adds who holds
`publisherMu`, how the numbers of queued, carried, latest and shown events compare,
and `NewestNotLost` itself; it is inductive only under `Exclusive`, that no two
goroutines publish one key.  The condition is part of the statement of `NewestKept`
and `OrderKept` because the code does not enforce it: without it `NoRegression`
fails (the finding of section 6).

### Video output

`VideoAssumption`: callers and sessions are different things.  `VideoInv` says who
may be inside `lifecycleMu`, that an unused session is untouched, what a caller's
step implies about its session and its dial, that only the current session may be
reported, and that every open connection has an owner.  `SafetyOfContract` is the
step simulation of `VideoContract` under the mapping of section 3.  The fairness
of `Tell`, the other half of `ImplementsContract`, stays with TLC.

### Caption ingress

`IngressAssumption`: limits and bounds are natural numbers, at least one attempt,
and a request has at least one packet and fits into an empty queue (`enqueue`
refuses others, `caption_audio.go:42`).  The parts of `AudioInv`:

- `JobInv`, `CancelInv`: what the manager points to was made for the running
  generation, an odd one; an ingress that is neither the manager's nor about to be
  told has been told to end;
- `WorkerInv`: what a goroutine holds at each of its steps (packets left and
  packets failed are disjoint parts of its batch);
- `BatchInv`, `PlaceInv`: every batch is of the generation of its ingress, and is
  in one queue or in one goroutine's hands, never in two places;
- `HeardInv`: what waits or is in hand was not heard;
- `CountInv`: the packet counter beside the channel is the number of packets that
  wait, the batch between the channel and `markDequeued` included;
- `LossInv`: superseded and dropped packets and those still *unsettled* (waiting
  in an ingress that was not told to end, or in hand) together do not exceed the
  packets that the job accepted and nobody heard.

`LossNotOvercounted` is not inductive because the next drop may count any packet in
hand; `LossInv` reserves room for it.  Supersession is where it could fail: the
packets counted there must never be counted again by the old goroutine, which holds
because it drops a batch it finds cancelled at `markDequeued` (`Unsettled` loses
exactly `Waiting` of the old ingress).

`RoomKept` adds the limits of the queue.  The bytes of a batch are counted one by one
(`BytesOf`), so that the byte counter is the number of bytes that wait (`Held`); batches
of one ingress have different numbers (`PlaceInv`), so that a batch that comes or goes
makes the difference of exactly its bytes (`HeldWith`).  `IngressIsSafe` concludes that
the clamps of `markDequeued` at zero, which the model leaves out, are never needed.

### Deepgram session

`SessionAssumption`: speakers and sources are named differently, the read loop is
among the loops, and some caller has a packet.  `SessionInv` says that made links
and dials under way stay below the bound (`BoundInv`), that both maps are functions
on keys with entries of the right kind (`MapsInv`), that a dial has exactly one
owner and its entry is his (`DialInv`), what callers and loops hold (`HoldInv`,
`LoopInv`), what `Close` still has to visit (`CloseInv`), and `NoLeakedConnection`.
`CloseIsComplete` rests on `CloseInv`: what is still open when `Close` goes from one
wait to the next is in its list or in the hands of a goroutine it waits for.

### Speaker timers

`TimerAssumption`: durations are natural numbers of ticks, those that make no sense as
zero are positive.  `TimersAreSafe` needs no more.  Its invariant says that the frame
written last is never older than the packet marked last, so that a keep-alive left out
for recent audio leaves at most one interval behind it (`SilenceInv`).

`IdleCloseIsLate` has the hypothesis `TimersFit`.  `LagInv` states what provider and voice
bot promise as relations between ages; `WaitInv` says that results wait in the order in
which they came and that none, together with what is left of a hold, is older than the
delay; `OpenInv` says that when an utterance is due for finalization nothing has been
waiting behind it, which is where the delay must be shorter than the finalization.  With
these, at an idle check that closes, an open utterance would have been due before it and
a waiting result would be older than the delay.

### Scene

`SceneAssumption`: limits of lists are at least one, lifetimes and the reorder window
natural numbers, participant lists are sequences, and an utterance id is no user id
(the row of a caption without utterance id is named after its user with a suffix,
`state.go:714`).  The module states what it does to a sequence by places (`Only`,
`First`, `Newest`, `InsertAt`), because `SelectSeq` and the folds are defined by
recursion, of which the prover knows nothing.

`Sound` is what holds of a scene between two operations: the types, the limits, the
participants listed once, rows and captions there once, and every caption in agreement
with the row of its utterance (`RowsAgree`).  The agreement is of captions and rows in
any place of their lists, so it survives whatever is cut off either of them; it needs
that no utterance has two captions, or a new row would contradict the second one.
`StaysFinal` relates the scene before and after an operation.  Each operation is shown
to keep both, starting from what pruning leaves: `PrunedKeeps` says that nothing which
still lasts is lost there, and `FinalCaptionStays` follows because the time stamp of an
event is never ahead of the clock.  `SeenUpTo` is the one part that pruning has to
restore: a message makes the remembered ids one more than the limit.

### Caption pipeline

`PipelineAssumption`: the ids and revisions that are transcribed are among those the
scene takes, and the job's stream and speaker among its streams and users.  `Over(l, t)`
says that whatever connection `l` still publishes comes after the transcript `t`: what
it holds back is of a later utterance, or a higher revision of the same one while `t` is
not final, and `t` is past in the utterance the connection is assembling.  It is kept by
every step of the speech (`OverKept`), also when a local finalization overtakes a
provider result or the connection is replaced: a new connection has a new number, and
what the old one held back was assembled before.

`PipeInv` has it of the last transcript published (`OrderInv`), which gives
`RevisionsGrow`, and of every caption in the scene together with the connection that
made it (`CaptionInv`).  For the second, a transcript that arrives either leaves the
captions that pruning left, because one of them repeats it, or becomes the only caption of
its utterance (`Takes`).  `NothingOfOneConnectionDropped` follows: what comes after a caption
is no repetition of it.  Nothing is claimed over a reconnect, where ids start again and
`DroppedIsRepetition` fails (section 6).

### Avatar cache

`AvatarAssumption`: some address exists, the limits and lifetimes are positive, and
there are as many goroutines for downloads as the cache has entries.  `AvatarInv`
joins to the parts of `CacheInv` the finiteness that counting needs (`Types`), that
the places of the semaphore are those of the downloads under way (`PlaceInv`), that
the time a caller read before it took the lock is not ahead of the clock
(`CallerInv`), and that the entry of a failure carries its expiry until that has
passed (`FailInv`).  The last two belong together: `Lookup` deletes an entry that
has expired at the caller's own, possibly old time; because that time is not ahead of
the clock, the failure may then be forgotten by the clock too.

### Scene appearance

`AppearanceAssumption`: pictures have a size, the limits are natural numbers, the table
and the cache have at least one place, and the marks of a zeroed image and of no image
are no pictures.  `RuntimeInv` joins to `AppearanceInv` that one `Start` prepares at a
time and only while there is no job (`StartInv`, from `lifecycleMu`), what it holds
(`HandInv`: a decoded image that is not in the cache; then one that only `Close` may
have zeroed), and that no two entries share an image.  `HandInv` is why
`ShownIsAsked` holds: between `Prepare` and `ConfigureAppearance` no other `store`
can come.  The bytes of the cache are counted one by one (`BytesOf`), as in the caption
ingress: what an insertion removes and what it keeps are disjoint, so `cacheBytes` stays
exact and the clamp of `removeLocked` at zero is never needed.

`NeverOlderHolds` needs `FenceInv`: a stream's binding is in the table with nothing
behind it but streams bound since, or as many were bound since as the table holds.
An eviction leads from the first case to the second, by counting: when the binding
falls out of a full table, everything in the table was used later, and all of it names
different streams.

### Process

`ServiceAssumption`: names are no configurations.  `ProcessInv` (identity latch,
registration, job) gives `ServiceInv` for any number of requests.  `FetchInv`, that a
request which has applied a configuration still finds it in force, needs `Single`,
one request at a time; with two the property fails (section 6).

### Only model-checked

Every invariant and every safety action property of the runs is stated by a theorem.
What is left is liveness under fairness, which is outside the reach of the prover:
`LifecycleProgress`, `StopCompletes`, `OutputProgress`, `SessionProgress`,
`SilentSpeakerCloses`, `LoadsEnd`, `ShutdownCompletes`, and the fairness half of
`ImplementsContract`.  What does not hold is in section 6.

## 6. Findings and known disagreements

The finding with a run: *old event over its successor* (`event_same_key`).  A
failed publish queues its event without looking for a newer one of the key.

Other places where the code does not do what a comment, test or document of the
repository says.  Each is a property in its module whose comment says that it does
not hold; adding it to the run's configuration, with the change named here, shows
the counterexample.

| Property | What happens | Configuration |
|---|---|---|
| `JobLifecycle.IngressEndsWithJob` | `Start` waits for the video output without `mu`; a voice reconnect replaces the ingress; when the output fails, the rollback cancels the ingress `Start` created and the new one runs on (`manager.go:338`) | as it is |
| `JobLifecycle.FailedStartKeepsReceipt` | `Start` removes the stop receipt of its stream before it can know that it will succeed, and never restores it (`manager.go:242`) | as it is |
| `EventDelivery.RetryHappens` | the delay is computed after the scan with another reading of the clock; if it is no longer positive, no timer is set (`event_delivery.go:204`) | as it is |
| `SceneState.FinalRowStays` | a late interim overwrites the final row of an utterance whose caption was pushed out of the caption list, against the comment at `state.go:586` | `MaxCaptions = 1`, two utterances |
| `CaptionPipeline.DroppedIsRepetition` | `utteranceSeq` restarts with a connection (`transcript.go:144`), so a new utterance has the id of one still shown as final and is dropped as its repetition | as it is |
| `WorkerService.StartsOnlyAssigned` | a request that fetched the configuration early applies it last; another request's unassigned stream is started (`server.go:249`) | two handlers |
| `WorkerService.OwnAssignments` | the node file is read anew by every request; after it is replaced by another node's the process enforces that node's assignments (`main.go:173`) | as it is |
| `WorkerService.IdentityAgrees` without `compared` | the file is away while `main` compares the identity (`main.go:48`, `main.go:51`): the process registers with an unbound latch, which any later file binds | drop the premise |

Two more are limits of the protocol rather than of the Worker: `Stop` names a stream
and no generation, so a duplicate of an old stop ends a later job of the stream; and
job generations restart with the process.

## 7. Not modelled

- *Caption profile parsing, runtime configuration defaults*: pure functions that
  check one field at a time; their results are constants of the models.
- *Rendering, fonts, JPEG, SRT URL, encoder requests*: no protocol state; success
  or failure where it matters.
- *Authentication, ingest tokens, request decoding, status codes, event
  constructors, observability, host metrics, heartbeats, job status*: change
  nothing the other parts read.
- *The loop for a pending registration* (`main.go:177`): it is started only with an
  empty URL or token, which `loadNodeAgentConfig` refuses, and without a node file
  `main` stops before at the missing bind address.  It is not reached.
- *The format, permissions and dialogue of the node configuration*; the file is a
  value that is replaced, removed or unusable.
- *File permissions and JSON of the receipt file*: "the write fails", "the file does
  not load".  The 64 KiB limit on reading it has no counterpart on writing; stream
  ids have no length in the model.
- *Memory growth* (`latestEventByKey`, `speakingIDs`) and clocks of other hosts.
- *Installer and release scripts*: outside the running system.
