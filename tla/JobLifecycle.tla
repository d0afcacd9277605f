---------------------------- MODULE JobLifecycle ----------------------------
(***************************************************************************)
(* The life of a stream job in internal/jobs: Start, Stop,                  *)
(* UpdateCaptionRuntimeSettings and HandleVideoOutputFailure, the runtime   *)
(* configuration that changes under them, the audio requests that replace   *)
(* the caption ingress, the stop receipts and process restarts.             *)
(*                                                                          *)
(* The four operations run one at a time under Manager.lifecycleMu, so one  *)
(* variable, op, holds the local variables of the operation that has the    *)
(* lock.  Each action is one critical section of Manager.mu together with   *)
(* the unshared work the operation does before its next critical section.   *)
(* Everything else (ApplyRuntimeConfig, audio requests, the death of the    *)
(* video output, a crash) interleaves between those sections.  An early     *)
(* return that changes nothing is a stuttering step and has no action.      *)
(***************************************************************************)
EXTENDS StoppedTargets

CONSTANTS MaxClock,       \* bound: last instant of the model's time
          MaxGeneration,  \* bound: generations started in one process
          MaxConnection   \* bound: voice connection generations of a client

ASSUME ModelBounds == /\ MaxClock \in Nat
                      /\ MaxGeneration \in Nat
                      /\ MaxConnection \in Nat

\* A caption session with the generations its transcript handler is bound to.
Session == [stream : Streams \cup {NoStream}, job : Nat, cap : Nat]
NoSession == [stream |-> NoStream, job |-> 0, cap |-> 0]

\* A caption audio ingress, named after the session it was created for and
\* the connection generation it replaced an older ingress for (0: none).
Ingress == [session : Session, conn : Nat]
NoIngress == [session |-> NoSession, conn |-> 0]

\* A stream bound to a job generation: the scene, the video output.
Binding == [stream : Streams \cup {NoStream}, job : Nat]
NoBinding == [stream |-> NoStream, job |-> 0]

Steps == {"idle", "start.prepare", "start.commit", "start.video", "start.undo",
          "stop.delivery", "stop.outputs", "stop.receipt",
          "update.prepare", "update.swap", "update.cleanup", "failure.cleanup"}

\* The locals of the operation that holds lifecycleMu.
Operation == [step : Steps, stream : Streams \cup {NoStream}, video : BOOLEAN,
              caption : BOOLEAN, session : Session, ingress : Ingress]
Idle == [step |-> "idle", stream |-> NoStream, video |-> FALSE,
         caption |-> FALSE, session |-> NoSession, ingress |-> NoIngress]

VARIABLES
  op,                        \* the operation under lifecycleMu
  current, currentVideo,     \* m.current: its stream, whether it asked for video
  stopping,                  \* m.stopping
  jobGeneration,             \* m.jobGeneration
  captionSessionGeneration,  \* m.captionSessionGeneration
  captionSession,            \* m.captionSession
  captionIngress,            \* m.captionIngress
  connectionGeneration,      \* m.captionAudioConnectionGeneration
  delivering,                \* m.deliveryCancel # nil: the event delivery loop runs
  assigned,                  \* the streams streamAssignedLocked accepts
  sessions,                  \* caption sessions created and not yet closed
  ingresses,                 \* ingress loops started and not yet cancelled
  scene,                     \* the job the scene renderer shows
  videoOutput,               \* videoout.Manager.current
  videoFailures,             \* onFailure goroutines waiting for lifecycleMu
  receipts, disk,            \* m.stoppedOrder and the receipt file
  clock,                     \* time
  acked                      \* history: stops answered with success

jobVars == <<current, currentVideo, stopping, jobGeneration>>
captionVars == <<captionSessionGeneration, captionSession, captionIngress,
                 connectionGeneration>>
resourceVars == <<sessions, ingresses, delivering, scene, videoOutput>>
receiptVars == <<receipts, disk, clock, acked>>
vars == <<op, jobVars, captionVars, resourceVars, videoFailures, assigned, receiptVars>>

Ack == [stream : Streams, at : Nat, later : SUBSET Streams, rearmed : BOOLEAN]

JobTypes ==
  /\ op \in Operation
  /\ current \in Streams \cup {NoStream}
  /\ currentVideo \in BOOLEAN
  /\ stopping \in BOOLEAN
  /\ jobGeneration \in Nat
  /\ assigned \subseteq Streams

CaptionTypes ==
  /\ captionSessionGeneration \in Nat
  /\ captionSession \in Session
  /\ captionIngress \in Ingress
  /\ connectionGeneration \in Nat

ResourceTypes ==
  /\ delivering \in BOOLEAN
  /\ sessions \subseteq Session
  /\ ingresses \subseteq Ingress
  /\ scene \in Binding
  /\ videoOutput \in Binding
  /\ videoFailures \subseteq Binding

ReceiptTypes ==
  /\ receipts \subseteq Receipt
  /\ disk \subseteq Receipt
  /\ clock \in Nat
  /\ acked \subseteq Ack

TypeOK == JobTypes /\ CaptionTypes /\ ResourceTypes /\ ReceiptTypes

\* The fields newManager leaves: no policy is enforced until a runtime
\* configuration is applied, so every stream counts as assigned.
Init ==
  /\ op = Idle
  /\ current = NoStream /\ currentVideo = FALSE /\ stopping = FALSE
  /\ jobGeneration = 0 /\ captionSessionGeneration = 0
  /\ captionSession = NoSession /\ captionIngress = NoIngress
  /\ connectionGeneration = 0
  /\ delivering = FALSE
  /\ assigned = Streams
  /\ sessions = {} /\ ingresses = {}
  /\ scene = NoBinding /\ videoOutput = NoBinding /\ videoFailures = {}
  /\ receipts = {} /\ disk = {} /\ clock = 0 /\ acked = {}

-----------------------------------------------------------------------------
(* Helpers.                                                                *)

\* Leaves an instant for the receipt of the job that is running.
TimeLeft == clock + 1 < MaxClock

\* What a step of the code that writes a receipt for s does to the history:
\* the other acknowledged stops have one more stream written after them.
LaterStop(s) == {[a EXCEPT !.later = @ \cup {s}] : a \in {b \in acked : b.stream # s}}

\* A Start of s is about to remove the receipt of s.
Rearmed(s) == {[a EXCEPT !.rearmed = @ \/ a.stream = s] : a \in acked}

Restarted(s) == {a \in acked : a.stream # s}

\* Mutant: nothing is cleared.
NotCleared(s) == scene

\* renderer.Clear ignores a stream the scene does not show.
Cleared(s) == IF scene.stream = s THEN NoBinding ELSE scene

Goto(step) == op' = [op EXCEPT !.step = step]

\* Mutant: the stop boundary forgets the job generation.
NextCaptionGenerationOnly ==
  /\ jobGeneration' = jobGeneration
  /\ captionSessionGeneration' = captionSessionGeneration + 1

\* Ends the generations of the job: whatever is bound to them no longer matches.
NextGenerations ==
  /\ jobGeneration' = jobGeneration + 1
  /\ captionSessionGeneration' = captionSessionGeneration + 1

\* Mutant: the caption session generation is not compared.
AcceptsTranscriptOfJob(x) ==
  /\ current # NoStream
  /\ ~stopping
  /\ current = x.stream
  /\ jobGeneration = x.job

\* publishWithGenerations accepts a transcript of session x.
AcceptsTranscript(x) ==
  /\ current # NoStream
  /\ ~stopping
  /\ current = x.stream
  /\ jobGeneration = x.job
  /\ captionSessionGeneration = x.cap

\* Mutant: the stream alone is compared.
FailureMatchesStream(f) == current = f.stream /\ currentVideo

\* HandleVideoOutputFailure takes failure f for the active job.
FailureMatches(f) ==
  /\ current = f.stream
  /\ jobGeneration = f.job
  /\ currentVideo
-----------------------------------------------------------------------------
(* Start.                                                                  *)

\* First check, and the generations the caption session will be bound to.
StartBegin(s, caption, video) ==
  /\ op = Idle
  /\ jobGeneration < MaxGeneration /\ TimeLeft
  /\ s \in assigned
  /\ current = NoStream
  /\ op' = [step |-> "start.prepare", stream |-> s, video |-> video,
            caption |-> caption, ingress |-> NoIngress,
            session |-> [stream |-> s, job |-> jobGeneration + 1,
                         cap |-> captionSessionGeneration + 1]]
  /\ UNCHANGED <<jobVars, captionVars, resourceVars, videoFailures, assigned, receiptVars>>

\* The appearance, the profile or the secret is refused, or the session
\* cannot be created (a half-made session is closed at once).
StartPrepareFails ==
  /\ op.step = "start.prepare"
  /\ op' = Idle
  /\ UNCHANGED <<jobVars, captionVars, resourceVars, videoFailures, assigned, receiptVars>>

StartPrepare ==
  /\ op.step = "start.prepare"
  /\ Goto("start.commit")
  /\ sessions' = IF op.caption THEN sessions \cup {op.session} ELSE sessions
  /\ UNCHANGED <<jobVars, captionVars, ingresses, delivering, scene, videoOutput,
                 videoFailures, assigned, receiptVars>>

\* Mutant: the assignment is not checked again.
MayCommitAny == current = NoStream

MayCommit == op.stream \in assigned /\ current = NoStream

\* Mutant: the refusal handles only a stream that is already active.
StartRefusedIfActive ==
  /\ op.step = "start.commit"
  /\ current # NoStream
  /\ op' = Idle
  /\ sessions' = sessions \ {op.session}
  /\ UNCHANGED <<jobVars, captionVars, ingresses, delivering, scene, videoOutput,
                 videoFailures, assigned, receiptVars>>

\* The second check fails: the assignment was withdrawn during preparation.
StartRefused ==
  /\ op.step = "start.commit"
  /\ ~MayCommit
  /\ op' = Idle
  /\ sessions' = sessions \ {op.session}
  /\ UNCHANGED <<jobVars, captionVars, ingresses, delivering, scene, videoOutput,
                 videoFailures, assigned, receiptVars>>

\* forgetStoppedTargetLocked cannot write the receipt file.
StartReceiptFails ==
  /\ op.step = "start.commit"
  /\ MayCommit
  /\ WasStopped(receipts, op.stream, clock)
  /\ disk' \in PersistErrors(disk, Without(receipts, op.stream, clock))
  /\ op' = Idle
  /\ sessions' = sessions \ {op.session}
  /\ acked' = Rearmed(op.stream)
  /\ UNCHANGED <<jobVars, captionVars, ingresses, delivering, scene, videoOutput,
                 videoFailures, assigned, receipts, clock>>

\* forgetStoppedTargetLocked succeeds: it writes the file only when it
\* removes a receipt.
ForgetReceipt(s) ==
  /\ receipts' = Forgotten(receipts, s, clock)
  /\ disk' = IF WasStopped(receipts, s, clock) THEN Forgotten(receipts, s, clock) ELSE disk
  /\ UNCHANGED clock

\* The generations and the delivery loop every Start that passes the second
\* check takes, whether or not the job survives.
TakeGeneration ==
  /\ jobGeneration' = jobGeneration + 1
  /\ captionSessionGeneration' = op.session.cap
  /\ delivering' = TRUE

\* The renderer or the video output the request needs is missing, or the
\* renderer refuses the appearance after it was reset for the new job.
StartUnsupported ==
  /\ op.step = "start.commit"
  /\ MayCommit
  /\ ForgetReceipt(op.stream)
  /\ TakeGeneration
  /\ scene' \in {scene, [stream |-> op.stream, job |-> jobGeneration + 1]}
  /\ captionSession' = NoSession
  /\ Goto("start.undo")
  /\ acked' = Rearmed(op.stream)
  /\ UNCHANGED <<current, currentVideo, stopping, captionIngress, connectionGeneration,
                 sessions, ingresses, videoOutput, videoFailures, assigned>>

StartCommit ==
  /\ op.step = "start.commit"
  /\ MayCommit
  /\ ForgetReceipt(op.stream)
  /\ TakeGeneration
  /\ current' = op.stream
  /\ currentVideo' = op.video
  /\ connectionGeneration' = 0
  /\ scene' = [stream |-> op.stream, job |-> jobGeneration + 1]
  /\ IF op.caption
     THEN LET ingress == [session |-> op.session, conn |-> 0]
          IN  /\ captionSession' = op.session
              /\ captionIngress' = ingress
              /\ ingresses' = ingresses \cup {ingress}
     ELSE /\ captionSession' = NoSession
          /\ UNCHANGED <<captionIngress, ingresses>>
  /\ op' = IF op.video
           THEN [op EXCEPT !.step = "start.video", !.ingress = captionIngress']
           ELSE Idle
  /\ acked' = IF op.video THEN Rearmed(op.stream) ELSE Restarted(op.stream)
  /\ UNCHANGED <<stopping, sessions, videoOutput, videoFailures, assigned>>

\* videoOutput.Start delivered its first frame.
StartVideo ==
  /\ op.step = "start.video"
  /\ videoOutput = NoBinding
  /\ videoOutput' = [stream |-> op.stream, job |-> jobGeneration]
  /\ op' = Idle
  /\ acked' = Restarted(op.stream)
  /\ UNCHANGED <<jobVars, captionVars, sessions, ingresses, delivering, scene,
                 videoFailures, assigned, receipts, disk, clock>>

\* videoOutput.Start failed: the video output is stopped and the job cleared.
StartVideoFails ==
  /\ op.step = "start.video"
  /\ videoOutput' = NoBinding
  /\ IF current = op.stream
     THEN /\ current' = NoStream /\ currentVideo' = FALSE
          /\ captionSession' = NoSession /\ captionIngress' = NoIngress
          /\ connectionGeneration' = 0
     ELSE UNCHANGED <<current, currentVideo, captionSession, captionIngress,
                      connectionGeneration>>
  /\ Goto("start.undo")
  /\ UNCHANGED <<stopping, jobGeneration, captionSessionGeneration, sessions, ingresses,
                 delivering, scene, videoFailures, assigned, receiptVars>>

\* stopEventDelivery, then the ingress Start itself created is cancelled, the
\* scene cleared and the caption session closed.
StartUndo ==
  /\ op.step = "start.undo"
  /\ delivering' = FALSE
  /\ ingresses' = ingresses \ {op.ingress}
  /\ scene' = Cleared(op.stream)
  /\ sessions' = sessions \ {op.session}
  /\ op' = Idle
  /\ UNCHANGED <<jobVars, captionVars, videoOutput, videoFailures, assigned, receiptVars>>
-----------------------------------------------------------------------------
(* Stop.  A target that is not the active stream returns early: the answer  *)
(* depends on the receipts alone (StopAnswersAlreadyStopped).               *)

StopAnswersAlreadyStopped(s) == current # s /\ WasStopped(receipts, s, clock)

\* The stop boundary: the generations move on and the caption pointers are
\* taken before anything is torn down.  An empty target matches any job.
StopBegin(target) ==
  /\ op = Idle
  /\ current # NoStream
  /\ target \in {NoStream, current}
  /\ stopping' = TRUE
  /\ NextGenerations
  /\ captionSession' = NoSession
  /\ captionIngress' = NoIngress
  /\ connectionGeneration' = 0
  /\ op' = [step |-> "stop.delivery", stream |-> current, video |-> currentVideo,
            caption |-> FALSE, session |-> captionSession, ingress |-> captionIngress]
  /\ UNCHANGED <<current, currentVideo, resourceVars, videoFailures, assigned, receiptVars>>

StopDelivery ==
  /\ op.step = "stop.delivery"
  /\ delivering' = FALSE
  /\ ingresses' = ingresses \ {op.ingress}
  /\ Goto("stop.outputs")
  /\ UNCHANGED <<jobVars, captionVars, sessions, scene, videoOutput, videoFailures,
                 assigned, receiptVars>>

StopOutputs ==
  /\ op.step = "stop.outputs"
  /\ videoOutput' = IF op.video THEN NoBinding ELSE videoOutput
  /\ sessions' = sessions \ {op.session}
  /\ Goto("stop.receipt")
  /\ UNCHANGED <<jobVars, captionVars, ingresses, delivering, scene, videoFailures,
                 assigned, receiptVars>>

\* The receipt cannot be written: the job stays, fenced, for a retry.  Retries
\* are bounded by MaxGeneration, since each of them takes a generation.
StopReceiptFails ==
  /\ op.step = "stop.receipt"
  /\ jobGeneration < MaxGeneration
  /\ disk' \in PersistErrors(disk, Remembered(receipts, op.stream, clock))
  /\ acked' = LaterStop(op.stream)
  /\ op' = Idle
  /\ UNCHANGED <<jobVars, captionVars, resourceVars, videoFailures, assigned, receipts, clock>>

StopReceipt ==
  /\ op.step = "stop.receipt"
  /\ receipts' = Remembered(receipts, op.stream, clock)
  /\ disk' = receipts'
  /\ clock' = clock + 1
  /\ acked' = LaterStop(op.stream) \cup
                {[stream |-> op.stream, at |-> clock, later |-> {}, rearmed |-> FALSE]}
  /\ current' = NoStream /\ currentVideo' = FALSE
  /\ stopping' = FALSE
  /\ scene' = Cleared(op.stream)
  /\ op' = Idle
  /\ UNCHANGED <<jobGeneration, captionVars, sessions, ingresses, delivering, videoOutput,
                 videoFailures, assigned>>
-----------------------------------------------------------------------------
(* UpdateCaptionRuntimeSettings.                                           *)

UpdateBegin(s) ==
  /\ op = Idle
  /\ captionSessionGeneration < MaxGeneration
  /\ current = s /\ s # NoStream
  /\ ~stopping
  /\ op' = [step |-> "update.prepare", stream |-> s, video |-> FALSE, caption |-> TRUE,
            ingress |-> NoIngress,
            session |-> [stream |-> s, job |-> jobGeneration,
                         cap |-> captionSessionGeneration + 1]]
  /\ UNCHANGED <<jobVars, captionVars, resourceVars, videoFailures, assigned, receiptVars>>

\* The profile, the secret or the session is refused, or the request ended.
UpdatePrepareFails ==
  /\ op.step = "update.prepare"
  /\ op' = Idle
  /\ UNCHANGED <<jobVars, captionVars, resourceVars, videoFailures, assigned, receiptVars>>

UpdatePrepare ==
  /\ op.step = "update.prepare"
  /\ sessions' = sessions \cup {op.session}
  /\ Goto("update.swap")
  /\ UNCHANGED <<jobVars, captionVars, ingresses, delivering, scene, videoOutput,
                 videoFailures, assigned, receiptVars>>

MaySwap ==
  /\ current = op.stream
  /\ ~stopping
  /\ jobGeneration = op.session.job
  /\ op.stream \in assigned

UpdateRefused ==
  /\ op.step = "update.swap"
  /\ ~MaySwap
  /\ sessions' = sessions \ {op.session}
  /\ op' = Idle
  /\ UNCHANGED <<jobVars, captionVars, ingresses, delivering, scene, videoOutput,
                 videoFailures, assigned, receiptVars>>

UpdateSwap ==
  /\ op.step = "update.swap"
  /\ MaySwap
  /\ captionSession' = op.session
  /\ captionIngress' = [session |-> op.session, conn |-> 0]
  /\ captionSessionGeneration' = op.session.cap
  /\ ingresses' = ingresses \cup {captionIngress'}
  /\ op' = [op EXCEPT !.step = "update.cleanup", !.session = captionSession,
                      !.ingress = captionIngress]
  /\ UNCHANGED <<jobVars, connectionGeneration, sessions, delivering, scene, videoOutput,
                 videoFailures, assigned, receiptVars>>

UpdateCleanup ==
  /\ op.step = "update.cleanup"
  /\ ingresses' = ingresses \ {op.ingress}
  /\ sessions' = sessions \ {op.session}
  /\ op' = Idle
  /\ UNCHANGED <<jobVars, captionVars, delivering, scene, videoOutput, videoFailures,
                 assigned, receiptVars>>
-----------------------------------------------------------------------------
(* HandleVideoOutputFailure.                                               *)

\* Mutant: the receipt is dropped when it cannot be written.
RememberIfWritten(s) ==
  /\ \/ receipts' = Remembered(receipts, s, clock) /\ disk' = receipts'
     \/ receipts' = receipts /\ disk' \in PersistErrors(disk, Remembered(receipts, s, clock))
  /\ clock' = clock + 1

\* The receipt is kept in memory whether or not it could be written.
RememberInMemoryAtLeast(s) ==
  /\ receipts' = Remembered(receipts, s, clock)
  /\ disk' \in {receipts'} \cup PersistErrors(disk, receipts')
  /\ clock' = clock + 1

HandleVideoOutputFailure(f) ==
  /\ op = Idle
  /\ f \in videoFailures
  /\ videoFailures' = videoFailures \ {f}
  /\ FailureMatches(f)
  /\ RememberInMemoryAtLeast(f.stream)
  /\ acked' = LaterStop(f.stream)
  /\ current' = NoStream /\ currentVideo' = FALSE
  /\ captionSession' = NoSession /\ captionIngress' = NoIngress
  /\ connectionGeneration' = 0
  /\ NextGenerations
  /\ op' = [step |-> "failure.cleanup", stream |-> f.stream, video |-> FALSE,
            caption |-> FALSE, session |-> captionSession, ingress |-> captionIngress]
  /\ UNCHANGED <<stopping, resourceVars, assigned>>

\* A failure of an earlier job returns without touching anything.
StaleVideoOutputFailure(f) ==
  /\ op = Idle
  /\ f \in videoFailures
  /\ ~FailureMatches(f)
  /\ videoFailures' = videoFailures \ {f}
  /\ UNCHANGED <<op, jobVars, captionVars, resourceVars, assigned, receiptVars>>

FailureCleanup ==
  /\ op.step = "failure.cleanup"
  /\ delivering' = FALSE
  /\ scene' = Cleared(op.stream)
  /\ ingresses' = ingresses \ {op.ingress}
  /\ sessions' = sessions \ {op.session}
  /\ op' = Idle
  /\ UNCHANGED <<jobVars, captionVars, videoOutput, videoFailures, assigned, receiptVars>>
-----------------------------------------------------------------------------
(* What happens without lifecycleMu.                                       *)

\* Mutant: an assignment without a stream_id is kept.
ApplyRuntimeConfigBlank(S) ==
  /\ assigned' = S \cup {NoStream}
  /\ UNCHANGED <<op, jobVars, captionVars, resourceVars, videoFailures, receiptVars>>

\* ApplyRuntimeConfig: SetAssignmentPolicy is its only critical section that
\* decides which jobs may run.
ApplyRuntimeConfig(S) ==
  /\ assigned' = S
  /\ UNCHANGED <<op, jobVars, captionVars, resourceVars, videoFailures, receiptVars>>

\* EnqueueCaptionAudioForGeneration with a connection generation the job has
\* not seen.  The first one is only recorded; a later one cancels the ingress
\* and starts another in its place.
AudioConnection(c) ==
  /\ current # NoStream
  /\ ~stopping
  /\ captionSession # NoSession /\ captionIngress # NoIngress
  /\ c > connectionGeneration
  /\ connectionGeneration' = c
  /\ IF connectionGeneration = 0
     THEN UNCHANGED <<captionIngress, ingresses>>
     ELSE /\ captionIngress' = [session |-> captionSession, conn |-> c]
          /\ ingresses' = (ingresses \ {captionIngress}) \cup {captionIngress'}
  /\ UNCHANGED <<op, jobVars, captionSessionGeneration, captionSession, sessions,
                 delivering, scene, videoOutput, videoFailures, assigned, receiptVars>>

\* Mutant: the monitor starts no callback.
VideoOutputDiesSilently ==
  /\ videoOutput # NoBinding
  /\ videoOutput' = NoBinding
  /\ UNCHANGED <<op, jobVars, captionVars, sessions, ingresses, delivering, scene,
                 videoFailures, assigned, receiptVars>>

\* videoout's monitor takes its session out and starts the callback.
VideoOutputDies ==
  /\ videoOutput # NoBinding
  /\ videoFailures' = videoFailures \cup {videoOutput}
  /\ videoOutput' = NoBinding
  /\ UNCHANGED <<op, jobVars, captionVars, sessions, ingresses, delivering, scene,
                 assigned, receiptVars>>

Tick ==
  /\ TimeLeft
  /\ clock' = clock + 1
  /\ UNCHANGED <<op, jobVars, captionVars, resourceVars, videoFailures, assigned,
                 receipts, disk, acked>>

\* The process dies and NewManagerWithStoppedTargetReceiptFile loads the file.
CrashAndRestart ==
  /\ TimeLeft
  /\ Loadable(disk)
  /\ op' = Idle
  /\ current' = NoStream /\ currentVideo' = FALSE /\ stopping' = FALSE
  /\ jobGeneration' = 0 /\ captionSessionGeneration' = 0
  /\ captionSession' = NoSession /\ captionIngress' = NoIngress
  /\ connectionGeneration' = 0
  /\ delivering' = FALSE
  /\ assigned' = Streams
  /\ sessions' = {} /\ ingresses' = {}
  /\ scene' = NoBinding /\ videoOutput' = NoBinding /\ videoFailures' = {}
  /\ clock' = clock + 1
  /\ receipts' = Loaded(disk, clock + 1)
  /\ UNCHANGED <<disk, acked>>
-----------------------------------------------------------------------------
StartStep == \/ StartPrepareFails \/ StartPrepare \/ StartRefused \/ StartReceiptFails
             \/ StartUnsupported \/ StartCommit \/ StartVideo \/ StartVideoFails \/ StartUndo

StopStep == StopDelivery \/ StopOutputs \/ StopReceiptFails \/ StopReceipt

UpdateStep == UpdatePrepareFails \/ UpdatePrepare \/ UpdateRefused \/ UpdateSwap \/ UpdateCleanup

\* A step of the operation that holds lifecycleMu.
OperationStep == StartStep \/ StopStep \/ UpdateStep \/ FailureCleanup

Next ==
  \/ OperationStep
  \/ \E s \in Streams, caption, video \in BOOLEAN : StartBegin(s, caption, video)
  \/ \E target \in Streams \cup {NoStream} : StopBegin(target)
  \/ \E s \in Streams : UpdateBegin(s)
  \/ \E f \in videoFailures : HandleVideoOutputFailure(f) \/ StaleVideoOutputFailure(f)
  \/ \E S \in SUBSET Streams : ApplyRuntimeConfig(S)
  \/ \E c \in 1..MaxConnection : AudioConnection(c)
  \/ VideoOutputDies
  \/ Tick
  \/ CrashAndRestart

Spec == Init /\ [][Next]_vars

\* The goroutine of an operation keeps running, and Go's mutex hands the lock
\* to a waiter that has waited long enough, so a waiting failure callback gets
\* it although requests keep arriving.  Requests, crashes and the death of the
\* video output are never required to happen.
FairSpec ==
  /\ Spec
  /\ WF_vars(OperationStep)
  /\ SF_vars(\E f \in videoFailures : HandleVideoOutputFailure(f) \/ StaleVideoOutputFailure(f))
-----------------------------------------------------------------------------
(* Safety.                                                                 *)

\* While no operation runs and no job is active, nothing a job created is
\* left: no open caption session, no delivery loop, no scene, no video output.
\* Every failed Start, Stop and failure callback of the manager leads here.
NothingRunsWithoutAJob ==
  op = Idle /\ current = NoStream =>
    /\ sessions = {}
    /\ ~delivering
    /\ scene = NoBinding
    /\ videoOutput = NoBinding

\* While no operation runs, an active job that is not being stopped has its
\* delivery loop, its scene under its own generation, exactly one open caption
\* session (or none), that session's ingress loop alive, and a video output
\* that runs or whose failure callback for exactly this job is on its way.
ActiveJobIsWhole ==
  op = Idle /\ current # NoStream /\ ~stopping =>
    LET job == [stream |-> current, job |-> jobGeneration]
    IN  /\ delivering
        /\ scene = job
        /\ sessions = {captionSession} \ {NoSession}
        /\ captionIngress.session = captionSession
        /\ captionSession # NoSession => captionIngress \in ingresses
        /\ IF currentVideo
           THEN videoOutput = job \/ (videoOutput = NoBinding /\ job \in videoFailures)
           ELSE videoOutput = NoBinding

\* The stop fence of Stop: while stopping is set there is a job to retry the
\* stop on (HandleVideoOutputFailure, which never resets stopping, cannot have
\* cleared it), no caption pointer is reachable, and once Stop returned to wait
\* for a retry nothing of the job runs any more.
StopFence ==
  stopping =>
    /\ current # NoStream
    /\ captionSession = NoSession /\ captionIngress = NoIngress
    /\ op = Idle => sessions = {} /\ ~delivering /\ videoOutput = NoBinding

\* Of all caption sessions that still exist, publishWithGenerations accepts the
\* transcripts of the manager's own session and of no other: not of a session
\* a Stop or an update is still closing, nor of one that is only prepared.
SessionFence ==
  \A x \in sessions : AcceptsTranscript(x) <=> x = captionSession

\* A failure callback that HandleVideoOutputFailure would take for the active
\* job belongs to it: that job's own video output is dead, it has finished
\* starting and it is not being stopped.
FailureHitsOnlyItsJob ==
  \A f \in videoFailures : FailureMatches(f) =>
    /\ videoOutput = NoBinding
    /\ ~stopping
    /\ op.step \notin {"start.prepare", "start.commit", "start.video", "start.undo"}

\* The receipt file never names a stream twice, which would keep the Worker
\* from starting, and neither list outgrows its bound.
ReceiptFileLoads ==
  /\ Loadable(disk) /\ Cardinality(disk) <= MaxReceipts
  /\ Loadable(receipts) /\ Cardinality(receipts) <= MaxReceipts

\* A stop that was answered with success is answered with already_stopped
\* afterwards, and would be after a crash at any instant, until a Start of the
\* same stream reaches its receipt, the receipt is too old, or as many other
\* streams as fit in the list were stopped since.
AckedStopIsDurable ==
  \A a \in acked :
    (~a.rearmed /\ clock <= a.at + TTL /\ Cardinality(a.later) < MaxReceipts) =>
      /\ StopAnswersAlreadyStopped(a.stream)
      /\ WasStopped(Loaded(disk, clock), a.stream, clock)

\* A stop that was acknowledged stays acknowledged whatever Start did since.
\* Does not hold: a Start that fails after removing the receipt of its stream
\* leaves no job and no receipt, and the delayed stop of the earlier job,
\* answered with already_stopped before, now gets no_active_stream_job.
FailedStartKeepsReceipt ==
  op = Idle /\ current = NoStream =>
    \A a \in acked :
      (clock <= a.at + TTL /\ Cardinality(a.later) < MaxReceipts)
        => StopAnswersAlreadyStopped(a.stream)

\* No ingress loop outlives its job.  Does not hold: the rollback of Start does
\* not cancel an ingress that replaced the one Start created.
IngressEndsWithJob == op = Idle /\ current = NoStream => ingresses = {}

\* A stream becomes active only while it is assigned to this Worker, although
\* the assignment was first checked before the slow preparation.
StartsOnlyAssigned ==
  [][current = NoStream /\ current' # NoStream => current' \in assigned]_vars

\* A job that was fully started ends in this process only together with a
\* receipt for it in memory, so the Control Panel's next stop converges.
EndedJobLeavesReceipt ==
  [][(/\ current # NoStream /\ current' = NoStream
      /\ op.step # "start.video"
      /\ jobGeneration' >= jobGeneration) => WasStopped(receipts', current, clock)]_vars

\* Liveness: lifecycleMu is always released.
OperationEnds == op # Idle ~> op = Idle

\* Liveness: a job whose video output died does not stay active.
DeadVideoEndsJob ==
  \A s \in Streams, g \in 1..MaxGeneration :
    LET Dead == /\ current = s /\ jobGeneration = g
                /\ currentVideo /\ videoOutput = NoBinding
                /\ op.step # "start.video" /\ ~stopping
    IN  Dead ~> ~(current = s /\ jobGeneration = g)

\* The Worker owns exactly the resources of its job: none without a job, all
\* of them with one (Start and its rollbacks, Stop, HandleVideoOutputFailure).
OwnsExactlyItsJob == NothingRunsWithoutAJob /\ ActiveJobIsWhole

\* Nothing gets stuck: operations release lifecycleMu, and the callback of a
\* dead video output gets it and ends the job.
LifecycleProgress == OperationEnds /\ DeadVideoEndsJob
=============================================================================
