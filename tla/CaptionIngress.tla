--------------------------- MODULE CaptionIngress ---------------------------
(***************************************************************************)
(* Caption audio on its way from the HTTP requests to a Deepgram session:   *)
(* EnqueueCaptionAudioForGeneration, the bounded queue of an ingress and    *)
(* the goroutine that empties it (internal/jobs/caption_audio.go), against  *)
(* start, stop and caption update of the job, which are reduced to what     *)
(* they do to session, ingress and generations (JobLifecycle has the rest). *)
(*                                                                          *)
(* Each action is one critical section of Manager.mu or of the queue, or    *)
(* one half of Session.Ingest: the lookup of a connection or the write.  An *)
(* ingress and a session are named by their number.  Of a session only      *)
(* closing and the fence against older voice connections are kept           *)
(* (Session.connection; DeepgramSession has the connections themselves).    *)
(***************************************************************************)
EXTENDS Naturals, Sequences, SequencesExt, FiniteSets

CONSTANTS
  Callers,        \* concurrent HTTP requests
  QueueBatches,   \* captionAudioQueueBatches
  QueuePackets,   \* captionAudioQueuePackets
  QueueBytes,     \* captionAudioQueueBytes
  RetryMax,       \* captionAudioRetryMax
  Kinds,          \* <<packets, bytes>> of the requests
  MaxConnection,  \* bound: voice connection generations
  MaxJobs, MaxIngress, MaxBatches   \* bounds: jobs, ingresses, accepted batches

ASSUME IngressAssumption ==
  /\ QueueBatches \in Nat /\ QueuePackets \in Nat /\ QueueBytes \in Nat
  /\ RetryMax \in Nat \ {0}
  /\ Kinds \subseteq (1..QueuePackets) \X (0..QueueBytes)
  /\ MaxConnection \in Nat /\ MaxJobs \in Nat /\ MaxIngress \in Nat /\ MaxBatches \in Nat

Ingresses == 1..MaxIngress
Generations == 0..(2 * MaxJobs)
Packets == (1..MaxBatches) \X (1..QueuePackets)

Batch == [number : 0..MaxBatches, generation : Generations, connection : 0..MaxConnection,
          packets : SUBSET Packets, bytes : 0..QueueBytes]
NoBatch == [number |-> 0, generation |-> 0, connection |-> 0, packets |-> {}, bytes |-> 0]

VARIABLES
  job,         \* "none", "active", "stopping"
  generation,  \* m.jobGeneration
  connection,  \* m.captionAudioConnectionGeneration
  session,     \* m.captionSession (0: nil); a session has the number of its first ingress
  ingress,     \* m.captionIngress (0: nil)
  made,        \* ingresses made so far
  owner,       \* job generation each ingress and session was made for
  cleanup,     \* what a stop or an update still has to take down
  queue,       \* ingress.batches
  queued,      \* ingress.queuedPackets and queuedBytes
  cancelled,   \* ingress.ctx is done
  worker,      \* runCaptionAudioIngress and the locals of processCaptionAudioBatch
  caller,      \* locals of EnqueueCaptionAudioForGeneration
  closed,      \* sessions that are closed
  newest,      \* latestConnectionGeneration of the sessions
  heard,       \* history: packets written to some session's connection
  stats,       \* packets counted as dropped (the queue and retry counters are left
               \* out), and captionAudioStartedGeneration
  accepted     \* batches accepted so far; packets of them that this job accepted

managerVars == <<job, generation, connection, session, ingress, made, owner, cleanup>>
ingressVars == <<queue, queued, cancelled>>
sessionVars == <<closed, newest, heard>>
vars == <<managerVars, ingressVars, worker, caller, sessionVars, stats, accepted>>

NoCleanup == [step |-> "none", ingress |-> 0, session |-> 0]
NoStats == [superseded |-> 0, provider |-> 0, started |-> 0]
IdleWorker == [step |-> "idle", batch |-> NoBatch, attempt |-> 0, left |-> {}, tried |-> {},
               failed |-> {}, final |-> FALSE, session |-> 0]
IdleCaller == [step |-> "idle", generation |-> 0, connection |-> 0, ingress |-> 0,
               kind |-> <<0, 0>>]

WorkerSteps == {"off", "idle", "mark", "check", "read", "ingest", "send", "write",
                "backoff", "retry", "drop", "lateDrop", "exited"}

TypeOK ==
  /\ job \in {"none", "active", "stopping"}
  /\ generation \in Generations /\ connection \in 0..MaxConnection
  /\ session \in 0..made /\ ingress \in 0..made /\ made \in 0..MaxIngress
  /\ owner \in [Ingresses -> Generations]
  /\ cleanup \in [step : {"none", "cancel", "wait"}, ingress : 0..made, session : 0..made]
  /\ queue \in [Ingresses -> Seq(Batch)]
  /\ queued \in [Ingresses -> [packets : 0..QueuePackets, bytes : 0..QueueBytes]]
  /\ cancelled \in [Ingresses -> BOOLEAN]
  /\ worker \in [Ingresses -> [step : WorkerSteps, batch : Batch, attempt : 0..RetryMax,
                               left : SUBSET Packets, tried : SUBSET Packets,
                               failed : SUBSET Packets, final : BOOLEAN,
                               session : Ingresses \cup {0}]]
  /\ caller \in [Callers -> [step : {"idle", "copy"}, generation : Generations,
                             connection : 0..MaxConnection, ingress : Ingresses \cup {0},
                             kind : Kinds \cup {<<0, 0>>}]]
  /\ closed \subseteq Ingresses /\ newest \in [Ingresses -> 0..MaxConnection]
  /\ heard \subseteq Packets
  /\ stats \in [superseded : Nat, provider : Nat, started : Generations]
  /\ accepted \in [batches : 0..MaxBatches, packets : SUBSET Packets]

Init ==
  /\ job = "none" /\ generation = 0 /\ connection = 0
  /\ session = 0 /\ ingress = 0 /\ made = 0
  /\ owner = [i \in Ingresses |-> 0]
  /\ cleanup = NoCleanup
  /\ queue = [i \in Ingresses |-> <<>>]
  /\ queued = [i \in Ingresses |-> [packets |-> 0, bytes |-> 0]]
  /\ cancelled = [i \in Ingresses |-> FALSE]
  /\ worker = [i \in Ingresses |-> [IdleWorker EXCEPT !.step = "off"]]
  /\ caller = [c \in Callers |-> IdleCaller]
  /\ closed = {} /\ newest = [i \in Ingresses |-> 0] /\ heard = {}
  /\ stats = NoStats
  /\ accepted = [batches |-> 0, packets |-> {}]
-----------------------------------------------------------------------------
(* The job: start, caption update, stop.  cleanup stands for the operation *)
(* that holds lifecycleMu after its critical section.                      *)

NewIngress(i, g) ==
  /\ made' = i
  /\ owner' = [owner EXCEPT ![i] = g]
  /\ worker' = [worker EXCEPT ![i] = IdleWorker]

StartJob ==
  /\ job = "none" /\ cleanup.step = "none"
  /\ generation < 2 * MaxJobs /\ made < MaxIngress
  /\ job' = "active" /\ generation' = generation + 1
  /\ NewIngress(made + 1, generation + 1)
  /\ session' = made + 1 /\ ingress' = made + 1
  /\ connection' = 0
  /\ stats' = NoStats
  /\ accepted' = [accepted EXCEPT !.packets = {}]
  /\ UNCHANGED <<cleanup, ingressVars, caller, sessionVars>>

\* The swap of UpdateCaptionRuntimeSettings: the job and the voice connection
\* stay the same.
UpdateSwap ==
  /\ job = "active" /\ cleanup.step = "none"
  /\ made < MaxIngress
  /\ cleanup' = [step |-> "cancel", ingress |-> ingress, session |-> session]
  /\ NewIngress(made + 1, generation)
  /\ session' = made + 1 /\ ingress' = made + 1
  /\ stats' = [stats EXCEPT !.started = 0]
  /\ UNCHANGED <<job, generation, connection, ingressVars, caller, sessionVars, accepted>>

\* The fence of Stop, and (end = "none") of HandleVideoOutputFailure.
StopBegin(end) ==
  /\ job = "active" /\ cleanup.step = "none"
  /\ job' = end
  /\ generation' = generation + 1
  /\ cleanup' = [step |-> "cancel", ingress |-> ingress, session |-> session]
  /\ session' = 0 /\ ingress' = 0 /\ connection' = 0
  /\ UNCHANGED <<made, owner, ingressVars, worker, caller, sessionVars, stats, accepted>>

\* Mutant: the old ingress is left to run out.
LeaveIngress ==
  /\ cleanup.step = "cancel"
  /\ cleanup' = [cleanup EXCEPT !.step = "wait"]
  /\ UNCHANGED <<job, generation, connection, session, ingress, made, owner, ingressVars,
                 worker, caller, sessionVars, stats, accepted>>

\* stopCaptionAudioIngress
CancelIngress ==
  /\ cleanup.step = "cancel"
  /\ cancelled' = [cancelled EXCEPT ![cleanup.ingress] = TRUE]
  /\ cleanup' = [cleanup EXCEPT !.step = "wait"]
  /\ UNCHANGED <<job, generation, connection, session, ingress, made, owner, queue, queued,
                 worker, caller, sessionVars, stats, accepted>>

\* Its wait ends with the goroutine or with the context of the operation;
\* then the session is closed and the operation ends.
CloseSession ==
  /\ cleanup.step = "wait"
  /\ closed' = closed \cup {cleanup.session}
  /\ cleanup' = NoCleanup
  /\ job' = IF job = "stopping" THEN "none" ELSE job
  /\ UNCHANGED <<generation, connection, session, ingress, made, owner, ingressVars, worker,
                 caller, newest, heard, stats, accepted>>
-----------------------------------------------------------------------------
(* EnqueueCaptionAudioForGeneration.                                       *)

\* ensureStreamLocked, the generation and the session, checked in both
\* critical sections.
Serving(g) == job = "active" /\ g = generation /\ session # 0

\* The snapshot taken when a newer voice connection replaces the ingress.
Superseded(i) == queued[i].packets

EnqueueFirst(c, g, n, kind) ==
  /\ caller[c].step = "idle"
  /\ Serving(g) /\ connection <= n
  /\ IF connection # 0 /\ n > connection
     THEN /\ made < MaxIngress
          /\ NewIngress(made + 1, g)
          /\ ingress' = made + 1
          /\ cancelled' = [cancelled EXCEPT ![ingress] = TRUE]
          /\ stats' = [stats EXCEPT !.superseded = @ + Superseded(ingress)]
     ELSE UNCHANGED <<made, owner, worker, ingress, cancelled, stats>>
  /\ connection' = n
  /\ caller' = [caller EXCEPT ![c] = [step |-> "copy", generation |-> g, connection |-> n,
                                      ingress |-> ingress', kind |-> kind]]
  /\ UNCHANGED <<job, generation, session, cleanup, queue, queued, sessionVars, accepted>>

\* Neither the voice connection nor the ingress changed since.
SameIngress(n, i) == connection = n /\ ingress = i

\* Mutant: the batch being copied is not weighed.
FitsAlready(i, kind) == ~cancelled[i] /\ queued[i].packets <= QueuePackets
                        /\ queued[i].bytes <= QueueBytes /\ Len(queue[i]) < QueueBatches

\* captionAudioIngress.enqueue
Fits(i, kind) ==
  /\ ~cancelled[i]
  /\ queued[i].packets + kind[1] <= QueuePackets
  /\ queued[i].bytes + kind[2] <= QueueBytes
  /\ Len(queue[i]) < QueueBatches

NewBatch(n, c) == [number |-> n, generation |-> c.generation, connection |-> c.connection,
                   packets |-> {n} \X (1..c.kind[1]), bytes |-> c.kind[2]]

\* Mutant: the second critical section looks only whether there is room.
EnqueueUnchecked(c) ==
  LET i == ingress IN
  /\ caller[c].step = "copy" /\ i # 0
  /\ Fits(i, caller[c].kind)
  /\ accepted.batches < MaxBatches
  /\ LET b == NewBatch(accepted.batches + 1, caller[c]) IN
     /\ queue' = [queue EXCEPT ![i] = Append(@, b)]
     /\ queued' = [queued EXCEPT ![i].packets = @ + caller[c].kind[1],
                                 ![i].bytes = @ + caller[c].kind[2]]
     /\ accepted' = [batches |-> accepted.batches + 1,
                     packets |-> accepted.packets \cup b.packets]
  /\ caller' = [caller EXCEPT ![c] = IdleCaller]
  /\ UNCHANGED <<managerVars, cancelled, worker, sessionVars, stats>>

EnqueueSecond(c) ==
  LET i == ingress IN
  /\ caller[c].step = "copy"
  /\ Serving(caller[c].generation) /\ SameIngress(caller[c].connection, caller[c].ingress)
  /\ Fits(i, caller[c].kind)
  /\ accepted.batches < MaxBatches
  /\ LET b == NewBatch(accepted.batches + 1, caller[c]) IN
     /\ queue' = [queue EXCEPT ![i] = Append(@, b)]
     /\ queued' = [queued EXCEPT ![i].packets = @ + caller[c].kind[1],
                                 ![i].bytes = @ + caller[c].kind[2]]
     /\ accepted' = [batches |-> accepted.batches + 1,
                     packets |-> accepted.packets \cup b.packets]
  /\ caller' = [caller EXCEPT ![c] = IdleCaller]
  /\ UNCHANGED <<managerVars, cancelled, worker, sessionVars, stats>>

\* Stale, unavailable, no job any more, or the queue is full.
EnqueueRefused(c) ==
  /\ caller[c].step = "copy"
  /\ ~ (/\ Serving(caller[c].generation)
        /\ SameIngress(caller[c].connection, caller[c].ingress)
        /\ Fits(ingress, caller[c].kind)
        /\ accepted.batches < MaxBatches)
  /\ caller' = [caller EXCEPT ![c] = IdleCaller]
  /\ UNCHANGED <<managerVars, ingressVars, worker, sessionVars, stats, accepted>>
-----------------------------------------------------------------------------
(* runCaptionAudioIngress and processCaptionAudioBatch.                    *)

Goto(i, w) == worker' = [worker EXCEPT ![i] = w]

\* The select may pick a batch although the context is done.
TakeBatch(i) ==
  /\ worker[i].step = "idle" /\ queue[i] # <<>>
  /\ Goto(i, [IdleWorker EXCEPT !.step = "mark", !.batch = Head(queue[i])])
  /\ queue' = [queue EXCEPT ![i] = Tail(@)]
  /\ UNCHANGED <<managerVars, queued, cancelled, caller, sessionVars, stats, accepted>>

WorkerExits(i) ==
  /\ worker[i].step = "idle" /\ cancelled[i]
  /\ Goto(i, [IdleWorker EXCEPT !.step = "exited"])
  /\ UNCHANGED <<managerVars, ingressVars, caller, sessionVars, stats, accepted>>

\* Mutant: only the packets are given back.
MarkPacketsOnly(i) ==
  LET b == worker[i].batch IN
  /\ worker[i].step = "mark"
  /\ queued' = [queued EXCEPT ![i].packets = @ - Cardinality(b.packets)]
  /\ Goto(i, IF cancelled[i] THEN [IdleWorker EXCEPT !.step = "exited"]
             ELSE [worker[i] EXCEPT !.step = "check", !.attempt = 1, !.left = b.packets])
  /\ UNCHANGED <<managerVars, queue, cancelled, caller, sessionVars, stats, accepted>>

\* markDequeued.  The code clamps both counters at zero, which QueueCounted
\* shows to be unnecessary; a negative counter would violate TypeOK.
MarkDequeued(i) ==
  LET b == worker[i].batch IN
  /\ worker[i].step = "mark"
  /\ queued' = [queued EXCEPT ![i].packets = @ - Cardinality(b.packets),
                              ![i].bytes = @ - b.bytes]
  /\ Goto(i, IF cancelled[i] THEN [IdleWorker EXCEPT !.step = "exited"]
             ELSE [worker[i] EXCEPT !.step = "check", !.attempt = 1, !.left = b.packets])
  /\ UNCHANGED <<managerVars, queue, cancelled, caller, sessionVars, stats, accepted>>

OfCurrentJob(b) == job = "active" /\ generation = b.generation /\ connection = b.connection

\* captionAudioGenerationCurrent, recordCaptionAudioRetry
OfCurrentIngress(i) == OfCurrentJob(worker[i].batch) /\ ingress = i

CheckCurrent(i) ==
  /\ worker[i].step = "check"
  /\ Goto(i, IF OfCurrentIngress(i) THEN [worker[i] EXCEPT !.step = "read"] ELSE IdleWorker)
  /\ UNCHANGED <<managerVars, ingressVars, caller, sessionVars, stats, accepted>>

\* Mutant: the session is read without looking at the job again.
MayReadAny(b) == session # 0

\* The checks of ingestCaptionAudioAttempt; the ingress is not among them.
MayRead(b) == OfCurrentJob(b) /\ session # 0

ReadSession(i) ==
  /\ worker[i].step = "read"
  /\ Goto(i, IF MayRead(worker[i].batch)
             THEN [worker[i] EXCEPT !.step = "ingest", !.session = session, !.tried = worker[i].left,
                                    !.failed = {}, !.final = FALSE]
             ELSE IdleWorker)
  /\ UNCHANGED <<managerVars, ingressVars, caller, sessionVars, stats, accepted>>

NextPacket(i) == CHOOSE p \in worker[i].left : \A q \in worker[i].left : p[2] <= q[2]

\* Session.connection answers ErrStaleConnectionGeneration.
Stale(s, b) == b.connection < newest[s]

\* ctx.Err() before a packet finds nothing; the ingress may be cancelled now.
PacketBegins(i) ==
  /\ worker[i].step = "ingest" /\ worker[i].left # {} /\ ~cancelled[i]
  /\ Goto(i, [worker[i] EXCEPT !.step = "send"])
  /\ UNCHANGED <<managerVars, ingressVars, caller, sessionVars, stats, accepted>>

\* The lookup of Session.connection under its mutex; from here on the session
\* knows of the voice connection.  The packet is written in a step of its own:
\* in between the session may be closed, or hear of a newer voice connection.
ConnectionFound(i) ==
  LET w == worker[i] IN
  /\ w.step = "send"
  /\ w.session \notin closed /\ ~Stale(w.session, w.batch)
  /\ newest' = [newest EXCEPT ![w.session] = w.batch.connection]
  /\ Goto(i, [w EXCEPT !.step = "write"])
  /\ UNCHANGED <<managerVars, ingressVars, caller, closed, heard, stats, accepted>>

\* ErrClosed ends the batch, ErrStaleConnectionGeneration the packet; neither
\* is retried.
ConnectionRefused(i) ==
  LET w == worker[i]
      lost == IF w.session \in closed THEN w.left ELSE {NextPacket(i)} IN
  /\ w.step = "send"
  /\ w.session \in closed \/ Stale(w.session, w.batch)
  /\ Goto(i, [w EXCEPT !.step = "ingest", !.left = @ \ lost, !.failed = @ \cup lost,
                        !.final = TRUE])
  /\ UNCHANGED <<managerVars, ingressVars, caller, sessionVars, stats, accepted>>

PacketWritten(i) ==
  LET w == worker[i] p == NextPacket(i) IN
  /\ w.step = "write"
  /\ heard' = heard \cup {p}
  /\ Goto(i, [w EXCEPT !.step = "ingest", !.left = @ \ {p}])
  /\ UNCHANGED <<managerVars, ingressVars, caller, closed, newest, stats, accepted>>

\* No connection is to be had after all (a limit, a failed dial, a close or a
\* newer voice connection during the wait for one), or the write fails: this
\* packet, or with ErrUnavailable or ErrClosed it and all after it.
PacketFails(i) ==
  LET w == worker[i] IN
  /\ w.step = "write"
  /\ \E final \in BOOLEAN, lost \in {{NextPacket(i)}, w.left} :
       Goto(i, [w EXCEPT !.step = "ingest", !.left = @ \ lost, !.failed = @ \cup lost,
                         !.final = @ \/ final])
  /\ UNCHANGED <<managerVars, ingressVars, caller, sessionVars, stats, accepted>>

\* ctx.Err() before a packet, because the ingress was cancelled or the batch
\* timeout has struck, which it may at any time: the attempt returns an error
\* and the batch ends.  Every observation of the timeout ends the batch, so
\* that it has struck need not be remembered.
IngestCancelled(i) ==
  /\ worker[i].step = "ingest" /\ worker[i].left # {}
  /\ Goto(i, IdleWorker)
  /\ UNCHANGED <<managerVars, ingressVars, caller, sessionVars, stats, accepted>>

\* The end of an attempt: audio_started, and what processCaptionAudioBatch
\* makes of the failures.
AttemptEnds(i) ==
  LET w == worker[i] IN
  /\ w.step = "ingest" /\ w.left = {}
  /\ stats' = IF w.failed # w.tried /\ job = "active" /\ generation = w.batch.generation
              THEN [stats EXCEPT !.started = generation] ELSE stats
  /\ \/ (w.failed = {} \/ cancelled[i]) /\ Goto(i, IdleWorker)
     \/ /\ w.failed # {} /\ ~cancelled[i]
        /\ \E step \in {"drop", "backoff"} :   \* "drop": the timeout has struck
             /\ w.final \/ w.attempt = RetryMax => step = "drop"
             /\ Goto(i, [w EXCEPT !.step = step, !.session = 0, !.tried = {}])
  /\ UNCHANGED <<managerVars, ingressVars, caller, sessionVars, accepted>>

BackoffCancelled(i) ==
  /\ worker[i].step = "backoff" /\ cancelled[i]
  /\ Goto(i, IdleWorker)
  /\ UNCHANGED <<managerVars, ingressVars, caller, sessionVars, stats, accepted>>

BackoffEnds(i) ==
  /\ worker[i].step = "backoff"
  /\ \E step \in {"retry", "lateDrop"} : Goto(i, [worker[i] EXCEPT !.step = step])
  /\ UNCHANGED <<managerVars, ingressVars, caller, sessionVars, stats, accepted>>

\* Mutant: the whole batch is sent again.
RetryAll(w) == w.batch.packets

\* captionAudioFailurePackets
RetryPackets(w) == w.failed

RecordRetry(i) ==
  LET w == worker[i] IN
  /\ w.step = "retry"
  /\ Goto(i, IF OfCurrentIngress(i)
             THEN [w EXCEPT !.step = "check", !.attempt = @ + 1, !.left = RetryPackets(w),
                             !.failed = {}]
             ELSE IdleWorker)
  /\ UNCHANGED <<managerVars, ingressVars, caller, sessionVars, stats, accepted>>

\* Mutant: a batch that failed in part is counted in full.
DropsOfBatch(w) == Cardinality(w.batch.packets)

\* recordCaptionAudioProviderDrop, which looks at the job and the voice
\* connection but not at the ingress.
Drops(w) == Cardinality(w.failed)

RecordDrop(i) ==
  LET w == worker[i] IN
  /\ w.step \in {"drop", "lateDrop"}
  /\ stats' = IF OfCurrentJob(w.batch) /\ (w.step = "drop" => ~cancelled[i])
              THEN [stats EXCEPT !.provider = @ + Drops(w)] ELSE stats
  /\ Goto(i, IdleWorker)
  /\ UNCHANGED <<managerVars, ingressVars, caller, sessionVars, accepted>>
-----------------------------------------------------------------------------
WorkerNext(i) ==
  \/ TakeBatch(i) \/ WorkerExits(i) \/ MarkDequeued(i) \/ CheckCurrent(i) \/ ReadSession(i)
  \/ PacketBegins(i) \/ ConnectionFound(i) \/ ConnectionRefused(i) \/ PacketWritten(i)
  \/ PacketFails(i) \/ IngestCancelled(i) \/ AttemptEnds(i)
  \/ BackoffCancelled(i) \/ BackoffEnds(i) \/ RecordRetry(i) \/ RecordDrop(i)

JobNext == StartJob \/ UpdateSwap \/ CancelIngress \/ CloseSession
           \/ \E end \in {"stopping", "none"} : StopBegin(end)

CallerNext(c) ==
  \/ \E g \in Generations, n \in 1..MaxConnection, kind \in Kinds : EnqueueFirst(c, g, n, kind)
  \/ EnqueueSecond(c) \/ EnqueueRefused(c)

Next ==
  \/ JobNext
  \/ \E c \in Callers : CallerNext(c)
  \/ \E i \in Ingresses : WorkerNext(i)

Spec == Init /\ [][Next]_vars

-----------------------------------------------------------------------------
(* Properties.                                                             *)

InFlight(i) == IF worker[i].step = "mark" THEN {worker[i].batch} ELSE {}

\* The batches that count as queued.
Inside(i) == ToSet(queue[i]) \cup InFlight(i)

\* The bytes of a batch, one by one; no two batches have a number in common.
BytesOf(b) == {b.number} \X (1..b.bytes)

\* The counters kept beside the channel are exact between any two steps of
\* the requests and the goroutine, so the bounds they enforce are the real
\* ones and neither clamp of markDequeued is ever needed.
QueueCounted ==
  \A i \in Ingresses :
    /\ queued[i].packets = Cardinality(UNION {b.packets : b \in Inside(i)})
    /\ queued[i].bytes = Cardinality(UNION {BytesOf(b) : b \in Inside(i)})

\* Nothing that waits in the manager's ingress is of an earlier job or voice
\* connection, although its request checked both before it copied the packets.
QueuedIsCurrent ==
  ingress # 0 => \A b \in ToSet(queue[ingress]) : OfCurrentJob(b)

\* Audio of a job is heard only by sessions of that job, whatever stops,
\* restarts and updates happen between the checks and the read of the session.
AudioStaysInJob ==
  \A i \in Ingresses : worker[i].step \in {"ingest", "send", "write"} =>
    owner[worker[i].session] = worker[i].batch.generation

\* A retry sends only what failed: what a goroutine is about to hand over was
\* not accepted before, by this session or by one an update replaced.
NothingSentTwice ==
  \A i \in Ingresses : worker[i].step \in {"check", "read", "ingest", "send", "write"} =>
    worker[i].left \cap heard = {}

\* The status never reports more packets lost than were accepted and not
\* heard: supersession, retries and final drops do not count a packet twice.
LossNotOvercounted ==
  stats.superseded + stats.provider <= Cardinality(accepted.packets \ heard)

\* An ingress that the manager has given up, by a stop, an update or a newer
\* voice connection, is told to end before the operation that gave it up ends,
\* so its goroutine cannot stay behind with a retry in its hands.
ReplacedIsCancelled ==
  \A i \in 1..made :
    i = ingress \/ cancelled[i] \/ (cleanup.step = "cancel" /\ cleanup.ingress = i)

\* Types and limits, counters that agree with the queue, and no ingress left
\* running (enqueue, markDequeued, cancelCaptionAudioIngress).
IngressInv == TypeOK /\ QueueCounted /\ ReplacedIsCancelled

\* Neither the queue nor the session of a job gets audio of another job
\* (EnqueueCaptionAudioForGeneration, ingestCaptionAudioPackets).
AudioFence == QueuedIsCurrent /\ AudioStaysInJob

\* A packet is heard once or lost once: retries repeat nothing and the counters
\* of the status count no loss twice (captionAudioFailurePackets,
\* recordCaptionAudioDrop).
PacketsAccounted == NothingSentTwice /\ LossNotOvercounted
=============================================================================
