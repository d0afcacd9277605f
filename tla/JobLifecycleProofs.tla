------------------------- MODULE JobLifecycleProofs -------------------------
(***************************************************************************)
(* Proofs about JobLifecycle, for every set of streams and every bound.     *)
(*                                                                          *)
(* Each part of Inv says what one piece of the manager's state is, given    *)
(* how far the operation that holds lifecycleMu has come; together they are *)
(* inductive, and the safety properties of JobLifecycle are consequences.   *)
(* The second half is about the stop receipts, in memory and in the file,   *)
(* through failed writes, failed starts, crashes and restarts.              *)
(***************************************************************************)
EXTENDS JobLifecycle, FiniteSetTheorems, TLAPS

StopSteps == {"stop.delivery", "stop.outputs", "stop.receipt"}
UpdateSteps == {"update.prepare", "update.swap", "update.cleanup"}

\* Which operation may be under way with and without an active job.
JobInv ==
  IF current = NoStream
  THEN /\ op.step \in {"idle", "start.prepare", "start.commit", "start.undo", "failure.cleanup"}
       /\ ~currentVideo /\ ~stopping
       /\ captionSession = NoSession
  ELSE /\ jobGeneration > 0
       /\ op.step \in {"idle", "start.video"} \cup StopSteps \cup UpdateSteps
       /\ op.step # "idle" => op.stream = current
       /\ op.step \in StopSteps => stopping /\ op.video = currentVideo
       /\ stopping => op.step \in {"idle"} \cup StopSteps /\ captionSession = NoSession

\* A session the operation itself has to close or to install.
OwnSessions ==
  IF \/ op.step \in {"update.swap", "update.cleanup", "stop.delivery", "stop.outputs",
                     "failure.cleanup"}
     \/ op.step \in {"start.commit", "start.undo"} /\ op.caption
  THEN {op.session} ELSE {}

\* The open sessions are the manager's and the operation's; the manager's is
\* bound to the current generations, the operation's to other ones.
SessionInv ==
  /\ sessions = ({captionSession} \cup OwnSessions) \ {NoSession}
  /\ captionSession # NoSession =>
       captionSession = [stream |-> current, job |-> jobGeneration,
                         cap |-> captionSessionGeneration]
  /\ op.step \in {"start.prepare", "start.commit"} =>
       /\ op.stream \in Streams
       /\ op.session = [stream |-> op.stream, job |-> jobGeneration + 1,
                        cap |-> captionSessionGeneration + 1]
  /\ op.step = "start.video" =>
       captionSession = IF op.caption THEN op.session ELSE NoSession
  /\ op.step \in {"update.prepare", "update.swap"} =>
       op.session = [stream |-> current, job |-> jobGeneration,
                     cap |-> captionSessionGeneration + 1]
  /\ op.step = "update.cleanup" => op.session.cap < captionSessionGeneration

\* The manager's ingress is that of its session and its loop is alive.
IngressInv ==
  /\ captionIngress.session = captionSession
  /\ captionSession # NoSession => captionIngress \in ingresses
  /\ captionSession = NoSession => captionIngress = NoIngress
  /\ op.step = "update.cleanup" => op.ingress.session = op.session

DeliveryInv ==
  /\ current # NoStream /\ ~stopping => delivering
  /\ delivering => \/ current # NoStream /\ ~stopping
                   \/ op.step \in {"start.undo", "stop.delivery", "failure.cleanup"}

SceneInv ==
  /\ current # NoStream => scene.stream = current
  /\ current # NoStream /\ ~stopping => scene.job = jobGeneration
  /\ current = NoStream => \/ scene = NoBinding
                           \/ /\ op.step \in {"start.undo", "failure.cleanup"}
                              /\ scene.stream = op.stream

\* The video output belongs to the current job, or to the one Stop is ending;
\* a failure callback of the current generation belongs to a job that runs.
VideoInv ==
  /\ videoOutput # NoBinding =>
       /\ current # NoStream /\ currentVideo
       /\ \/ /\ ~stopping /\ op.step # "start.video"
             /\ videoOutput = [stream |-> current, job |-> jobGeneration]
          \/ /\ op.step \in {"stop.delivery", "stop.outputs"}
             /\ videoOutput.job < jobGeneration
  /\ \A f \in videoFailures :
       \/ f.job < jobGeneration
       \/ /\ f = [stream |-> current, job |-> jobGeneration]
          /\ videoOutput = NoBinding
          /\ current # NoStream /\ ~stopping /\ op.step # "start.video"
  /\ (current # NoStream /\ currentVideo /\ ~stopping /\ op.step # "start.video") =>
       \/ videoOutput # NoBinding
       \/ [stream |-> current, job |-> jobGeneration] \in videoFailures
  /\ op.step = "start.video" => op.video /\ currentVideo

Inv == TypeOK /\ JobInv /\ SessionInv /\ IngressInv /\ DeliveryInv /\ SceneInv /\ VideoInv
-----------------------------------------------------------------------------
(* What the operators on receipts and on the history return.               *)

\* The lists the receipt operators build are lists of receipts.
LEMMA ReceiptSets ==
  ASSUME NEW R \in SUBSET Receipt, NEW s \in Streams, NEW now \in Nat
  PROVE  /\ Remembered(R, s, now) \in SUBSET Receipt
         /\ Forgotten(R, s, now) \in SUBSET Receipt
         /\ Without(R, s, now) \in SUBSET Receipt
  BY DEF Receipt, Remembered, Forgotten, Without, Newest

\* Loading a list of receipts yields a list of receipts.
LEMMA LoadedSet ==
  ASSUME NEW R \in SUBSET Receipt, NEW now \in Nat
  PROVE  Loaded(R, now) \in SUBSET Receipt
  BY DEF Loaded, Newest

\* The history keeps its type.
LEMMA AckSets ==
  ASSUME acked \in SUBSET Ack, NEW s \in Streams
  PROVE  /\ LaterStop(s) \in SUBSET Ack
         /\ Rearmed(s) \in SUBSET Ack
         /\ Restarted(s) \in SUBSET Ack
  BY DEF Ack, LaterStop, Rearmed, Restarted

\* The locals when no operation runs have the type of an operation's.
LEMMA IdleType == Idle \in Operation
  BY DEF Idle, Operation, Steps, Session, Ingress, NoSession, NoIngress
-----------------------------------------------------------------------------
(* Every step preserves every part of Inv.                                 *)

\* Every step keeps the types of the job and of the operation under way.
LEMMA JobTypesStep ==
  ASSUME Inv, [Next]_vars
  PROVE  JobTypes'
<1>1. CASE \/ StartPrepareFails \/ StartRefused \/ StartReceiptFails \/ StartVideo
  BY <1>1, IdleType DEF StartPrepareFails, StartRefused, StartReceiptFails, StartVideo,
    jobVars, Inv, TypeOK, JobTypes
<1>2. CASE \/ StartPrepare \/ StopDelivery \/ StopOutputs \/ UpdatePrepare
  BY <1>2 DEF StartPrepare, StopDelivery, StopOutputs, UpdatePrepare, Goto, jobVars, Inv,
    TypeOK, JobTypes, Operation, Steps
<1>3. CASE StartUnsupported
  BY <1>3 DEF StartUnsupported, TakeGeneration, Goto, Inv, TypeOK, JobTypes, Operation,
    Steps
<1>4. CASE StartCommit
  <2>1. op.stream \in Streams /\ op \in Operation /\ Idle \in Operation
    BY <1>4 DEF Inv, TypeOK, JobTypes, SessionInv, StartCommit, Operation, Steps, Idle,
      Session, Ingress, NoSession, NoIngress
  <2>2. captionIngress' \in Ingress
    BY <1>4 DEF Inv, TypeOK, JobTypes, CaptionTypes, StartCommit, Operation, Ingress
  <2>3. op' \in Operation
    BY <2>1, <2>2, <1>4 DEF StartCommit, Operation, Steps
  <2> QED
    BY <2>1, <2>3, <1>4 DEF Inv, TypeOK, JobTypes, StartCommit, TakeGeneration, Operation
<1>5. CASE StartVideoFails
  <2>1. op' \in Operation
    BY <1>5 DEF Inv, TypeOK, JobTypes, StartVideoFails, Goto, Operation, Steps
  <2>2. current' \in Streams \cup {NoStream} /\ currentVideo' \in BOOLEAN
    BY <1>5 DEF Inv, TypeOK, JobTypes, StartVideoFails
  <2> QED
    BY <2>1, <2>2, <1>5 DEF Inv, TypeOK, JobTypes, StartVideoFails
<1>6. CASE \/ StartUndo \/ StopReceiptFails \/ UpdatePrepareFails \/ UpdateRefused
  BY <1>6, IdleType DEF StartUndo, StopReceiptFails, UpdatePrepareFails, UpdateRefused,
    jobVars, Inv, TypeOK, JobTypes
<1>7. CASE StopReceipt
  BY <1>7 DEF StopReceipt, Inv, TypeOK, JobTypes, Operation, Session, Ingress, Steps, Idle,
    NoSession, NoIngress
<1>8. CASE UpdateSwap
  BY <1>8 DEF UpdateSwap, jobVars, Inv, TypeOK, JobTypes, CaptionTypes, Operation, Steps
<1>9. CASE \/ UpdateCleanup \/ FailureCleanup
  BY <1>9, IdleType DEF UpdateCleanup, FailureCleanup, jobVars, Inv, TypeOK, JobTypes
<1>10. ASSUME NEW s \in Streams, NEW caption \in BOOLEAN, NEW video \in BOOLEAN,
             StartBegin(s, caption, video)
      PROVE  JobTypes'
  BY <1>10 DEF StartBegin, jobVars, Inv, TypeOK, JobTypes, CaptionTypes, Operation, Session,
    Steps, Idle
<1>11. ASSUME NEW target \in Streams \cup {NoStream}, StopBegin(target)
      PROVE  JobTypes'
  BY <1>11 DEF StopBegin, NextGenerations, Inv, TypeOK, JobTypes, CaptionTypes, Operation,
    Steps
<1>12. ASSUME NEW s \in Streams, UpdateBegin(s)
      PROVE  JobTypes'
  BY <1>12 DEF UpdateBegin, jobVars, Inv, TypeOK, JobTypes, CaptionTypes, Operation,
    Session, Steps, Idle
<1>13. ASSUME NEW f \in videoFailures, HandleVideoOutputFailure(f)
      PROVE  JobTypes'
  <2>1. f.stream \in Streams \cup {NoStream}
    BY <1>13 DEF Inv, TypeOK, ResourceTypes, Binding
  <2>2. op' \in Operation
    BY <2>1, <1>13 DEF Inv, TypeOK, CaptionTypes, HandleVideoOutputFailure, Operation, Steps
  <2>3. current' = NoStream /\ currentVideo' = FALSE /\ UNCHANGED <<stopping, assigned>>
    BY <1>13 DEF HandleVideoOutputFailure
  <2>4. jobGeneration' \in Nat
    BY <1>13 DEF Inv, TypeOK, JobTypes, HandleVideoOutputFailure, NextGenerations
  <2> QED
    BY <2>2, <2>3, <2>4 DEF Inv, TypeOK, JobTypes
<1>14. ASSUME NEW f \in videoFailures, StaleVideoOutputFailure(f)
      PROVE  JobTypes'
  BY <1>14 DEF StaleVideoOutputFailure, jobVars, Inv, TypeOK, JobTypes
<1>15. ASSUME NEW S \in SUBSET Streams, ApplyRuntimeConfig(S)
      PROVE  JobTypes'
  BY <1>15 DEF ApplyRuntimeConfig, jobVars, Inv, TypeOK, JobTypes
<1>16. ASSUME NEW c \in 1..MaxConnection, AudioConnection(c)
      PROVE  JobTypes'
  BY <1>16 DEF AudioConnection, jobVars, Inv, TypeOK, JobTypes
<1>17. CASE \/ VideoOutputDies \/ Tick
  BY <1>17 DEF VideoOutputDies, Tick, jobVars, Inv, TypeOK, JobTypes
<1>18. CASE CrashAndRestart
  BY <1>18 DEF CrashAndRestart, JobTypes, Operation, Session, Ingress, Steps, Idle,
    NoSession, NoIngress
<1>19. CASE UNCHANGED vars
  BY <1>19 DEF Inv, TypeOK, JobTypes, vars, jobVars
<1> QED
  BY <1>1, <1>2, <1>3, <1>4, <1>5, <1>6, <1>7, <1>8, <1>9, <1>10, <1>11, <1>12, <1>13,
     <1>14, <1>15, <1>16, <1>17, <1>18, <1>19
  DEF Next, OperationStep, StartStep, StopStep, UpdateStep

\* Every step keeps the types of the caption pointers and generations.
LEMMA CaptionTypesStep ==
  ASSUME Inv, [Next]_vars
  PROVE  CaptionTypes'
<1>1. CASE \/ StartPrepareFails \/ StartPrepare \/ StartRefused \/ StartReceiptFails
  BY <1>1 DEF StartPrepareFails, StartPrepare, StartRefused, StartReceiptFails, captionVars,
    Inv, TypeOK, CaptionTypes
<1>2. CASE StartUnsupported
  BY <1>2 DEF StartUnsupported, TakeGeneration, Inv, TypeOK, JobTypes, CaptionTypes,
    Operation, Session, NoSession
<1>3. CASE StartCommit
  BY <1>3 DEF StartCommit, TakeGeneration, Inv, TypeOK, JobTypes, CaptionTypes, Operation,
    Session, Ingress, NoSession
<1>4. CASE \/ StartVideo \/ StartUndo \/ StopDelivery \/ StopOutputs
  BY <1>4 DEF StartVideo, StartUndo, StopDelivery, StopOutputs, captionVars, Inv, TypeOK,
    CaptionTypes
<1>5. CASE StartVideoFails
  <2>1. current = op.stream
    BY <1>5 DEF Inv, JobInv, StartVideoFails
  <2>2. NoSession \in Session /\ NoIngress \in Ingress
    BY DEF NoSession, NoIngress, Session, Ingress
  <2> QED
    BY <2>1, <2>2, <1>5 DEF Inv, TypeOK, CaptionTypes, StartVideoFails
<1>6. CASE \/ StopReceiptFails \/ StopReceipt \/ UpdatePrepareFails \/ UpdatePrepare
  BY <1>6 DEF StopReceiptFails, StopReceipt, UpdatePrepareFails, UpdatePrepare, captionVars,
    Inv, TypeOK, CaptionTypes
<1>7. CASE \/ UpdateRefused \/ UpdateCleanup \/ FailureCleanup \/ VideoOutputDies
  BY <1>7 DEF UpdateRefused, UpdateCleanup, FailureCleanup, VideoOutputDies, captionVars,
    Inv, TypeOK, CaptionTypes
<1>8. CASE UpdateSwap
  BY <1>8 DEF UpdateSwap, Inv, TypeOK, JobTypes, CaptionTypes, Operation, Session, Ingress
<1>9. ASSUME NEW s \in Streams, NEW caption \in BOOLEAN, NEW video \in BOOLEAN,
             StartBegin(s, caption, video)
      PROVE  CaptionTypes'
  BY <1>9 DEF StartBegin, captionVars, Inv, TypeOK, CaptionTypes
<1>10. ASSUME NEW target \in Streams \cup {NoStream}, StopBegin(target)
      PROVE  CaptionTypes'
  BY <1>10 DEF StopBegin, NextGenerations, Inv, TypeOK, JobTypes, CaptionTypes, Operation,
    Idle
<1>11. ASSUME NEW s \in Streams, UpdateBegin(s)
      PROVE  CaptionTypes'
  BY <1>11 DEF UpdateBegin, captionVars, Inv, TypeOK, CaptionTypes
<1>12. ASSUME NEW f \in videoFailures, HandleVideoOutputFailure(f)
      PROVE  CaptionTypes'
  BY <1>12 DEF HandleVideoOutputFailure, NextGenerations, Inv, TypeOK, JobTypes,
    CaptionTypes, Operation, Idle
<1>13. ASSUME NEW f \in videoFailures, StaleVideoOutputFailure(f)
      PROVE  CaptionTypes'
  BY <1>13 DEF StaleVideoOutputFailure, captionVars, Inv, TypeOK, CaptionTypes
<1>14. ASSUME NEW S \in SUBSET Streams, ApplyRuntimeConfig(S)
      PROVE  CaptionTypes'
  BY <1>14 DEF ApplyRuntimeConfig, captionVars, Inv, TypeOK, CaptionTypes
<1>15. ASSUME NEW c \in 1..MaxConnection, AudioConnection(c)
      PROVE  CaptionTypes'
  BY <1>15 DEF AudioConnection, Inv, TypeOK, CaptionTypes, Ingress
<1>16. CASE Tick
  BY <1>16 DEF Tick, captionVars, Inv, TypeOK, CaptionTypes
<1>17. CASE CrashAndRestart
  BY <1>17 DEF CrashAndRestart, CaptionTypes, Session, Ingress, NoSession, NoIngress
<1>18. CASE UNCHANGED vars
  BY <1>18 DEF Inv, TypeOK, CaptionTypes, vars, captionVars
<1> QED
  BY <1>1, <1>2, <1>3, <1>4, <1>5, <1>6, <1>7, <1>8, <1>9, <1>10, <1>11, <1>12, <1>13,
     <1>14, <1>15, <1>16, <1>17, <1>18
  DEF Next, OperationStep, StartStep, StopStep, UpdateStep

\* Every step keeps the types of what the job owns.
LEMMA ResourceTypesStep ==
  ASSUME Inv, [Next]_vars
  PROVE  ResourceTypes'
<1>1. CASE \/ StartPrepareFails \/ StopReceiptFails \/ UpdatePrepareFails \/ Tick
  BY <1>1 DEF StartPrepareFails, StopReceiptFails, UpdatePrepareFails, Tick, resourceVars,
    Inv, TypeOK, ResourceTypes
<1>2. CASE \/ StartPrepare \/ UpdatePrepare
  BY <1>2 DEF StartPrepare, UpdatePrepare, Inv, TypeOK, JobTypes, ResourceTypes, Operation
<1>3. CASE \/ StartRefused \/ StartReceiptFails \/ StopDelivery \/ UpdateRefused
  BY <1>3 DEF StartRefused, StartReceiptFails, StopDelivery, UpdateRefused, Inv, TypeOK,
    ResourceTypes
<1>4. CASE StartUnsupported
  BY <1>4 DEF StartUnsupported, MayCommit, TakeGeneration, Inv, TypeOK, JobTypes,
    ResourceTypes, Binding
<1>5. CASE StartCommit
  BY <1>5 DEF StartCommit, TakeGeneration, Inv, TypeOK, JobTypes, ResourceTypes, Operation,
    Ingress, Binding
<1>6. CASE StartVideo
  BY <1>6 DEF StartVideo, Inv, TypeOK, JobTypes, ResourceTypes, Operation, Binding
<1>7. CASE \/ StartVideoFails \/ StopOutputs \/ VideoOutputDies
  BY <1>7 DEF StartVideoFails, StopOutputs, VideoOutputDies, Inv, TypeOK, ResourceTypes,
    Binding, NoBinding
<1>8. CASE StartUndo
  BY <1>8 DEF StartUndo, Cleared, Inv, TypeOK, ResourceTypes, Binding, NoBinding
<1>9. CASE StopReceipt
  BY <1>9 DEF StopReceipt, Cleared, Inv, TypeOK, ResourceTypes, Binding, NoBinding
<1>10. CASE UpdateSwap
  BY <1>10 DEF UpdateSwap, Inv, TypeOK, JobTypes, ResourceTypes, Operation, Ingress
<1>11. CASE UpdateCleanup
  BY <1>11 DEF UpdateCleanup, Inv, TypeOK, ResourceTypes
<1>12. CASE FailureCleanup
  BY <1>12 DEF FailureCleanup, Cleared, Inv, TypeOK, ResourceTypes, Binding, NoBinding
<1>13. ASSUME NEW s \in Streams, NEW caption \in BOOLEAN, NEW video \in BOOLEAN,
             StartBegin(s, caption, video)
      PROVE  ResourceTypes'
  BY <1>13 DEF StartBegin, resourceVars, Inv, TypeOK, ResourceTypes
<1>14. ASSUME NEW target \in Streams \cup {NoStream}, StopBegin(target)
      PROVE  ResourceTypes'
  BY <1>14 DEF StopBegin, resourceVars, Inv, TypeOK, ResourceTypes
<1>15. ASSUME NEW s \in Streams, UpdateBegin(s)
      PROVE  ResourceTypes'
  BY <1>15 DEF UpdateBegin, resourceVars, Inv, TypeOK, ResourceTypes
<1>16. ASSUME NEW f \in videoFailures, HandleVideoOutputFailure(f)
      PROVE  ResourceTypes'
  BY <1>16 DEF HandleVideoOutputFailure, resourceVars, Inv, TypeOK, ResourceTypes
<1>17. ASSUME NEW f \in videoFailures, StaleVideoOutputFailure(f)
      PROVE  ResourceTypes'
  BY <1>17 DEF StaleVideoOutputFailure, resourceVars, Inv, TypeOK, ResourceTypes
<1>18. ASSUME NEW S \in SUBSET Streams, ApplyRuntimeConfig(S)
      PROVE  ResourceTypes'
  BY <1>18 DEF ApplyRuntimeConfig, resourceVars, Inv, TypeOK, ResourceTypes
<1>19. ASSUME NEW c \in 1..MaxConnection, AudioConnection(c)
      PROVE  ResourceTypes'
  BY <1>19 DEF AudioConnection, Inv, TypeOK, CaptionTypes, ResourceTypes, Ingress
<1>20. CASE CrashAndRestart
  BY <1>20 DEF CrashAndRestart, ResourceTypes, Binding, NoBinding
<1>21. CASE UNCHANGED vars
  BY <1>21 DEF Inv, TypeOK, ResourceTypes, vars, resourceVars
<1> QED
  BY <1>1, <1>2, <1>3, <1>4, <1>5, <1>6, <1>7, <1>8, <1>9, <1>10, <1>11, <1>12, <1>13,
     <1>14, <1>15, <1>16, <1>17, <1>18, <1>19, <1>20, <1>21
  DEF Next, OperationStep, StartStep, StopStep, UpdateStep

\* Every step keeps the types of the receipts; none names the empty stream_id.
LEMMA ReceiptTypesStep ==
  ASSUME Inv, [Next]_vars
  PROVE  ReceiptTypes'
<1>1. CASE \/ StartPrepareFails \/ StartPrepare \/ StartRefused \/ StartVideoFails
  BY <1>1 DEF StartPrepareFails, StartPrepare, StartRefused, StartVideoFails, receiptVars,
    Inv, TypeOK, ReceiptTypes
<1>2. CASE StartReceiptFails
  BY <1>2, ReceiptSets, AckSets DEF StartReceiptFails, PersistErrors, Inv, TypeOK,
    SessionInv, ReceiptTypes
<1>3. CASE \/ StartUnsupported \/ StartCommit
  BY <1>3, ReceiptSets, AckSets DEF StartUnsupported, StartCommit, MayCommit, ForgetReceipt,
    Inv, TypeOK, JobTypes, ReceiptTypes
<1>4. CASE StartVideo
  BY <1>4, AckSets DEF StartVideo, Inv, TypeOK, JobTypes, JobInv, ReceiptTypes
<1>5. CASE \/ StartUndo \/ StopDelivery \/ StopOutputs \/ UpdatePrepareFails
  BY <1>5 DEF StartUndo, StopDelivery, StopOutputs, UpdatePrepareFails, receiptVars, Inv,
    TypeOK, ReceiptTypes
<1>6. CASE StopReceiptFails
  BY <1>6, ReceiptSets, AckSets DEF StopReceiptFails, PersistErrors, Inv, TypeOK, JobTypes,
    JobInv, ReceiptTypes
<1>7. CASE StopReceipt
  <2>1. op.stream \in Streams /\ clock \in Nat
    BY <1>7 DEF Inv, TypeOK, JobTypes, ReceiptTypes, JobInv, StopReceipt, StopSteps
  <2>2. receipts' \in SUBSET Receipt
    BY <2>1, <1>7, ReceiptSets DEF Inv, TypeOK, ReceiptTypes, StopReceipt
  <2>3. LaterStop(op.stream) \in SUBSET Ack
    BY <2>1, AckSets DEF Inv, TypeOK, ReceiptTypes
  <2>4. [stream |-> op.stream, at |-> clock, later |-> {}, rearmed |-> FALSE] \in Ack
    BY <2>1 DEF Ack
  <2>5. acked' \in SUBSET Ack
    BY <2>3, <2>4, <1>7 DEF StopReceipt
  <2>6. disk' = receipts' /\ clock' \in Nat
    BY <2>1, <1>7 DEF StopReceipt
  <2> QED
    BY <2>2, <2>5, <2>6 DEF ReceiptTypes
<1>8. CASE \/ UpdatePrepare \/ UpdateRefused \/ UpdateSwap \/ UpdateCleanup
  BY <1>8 DEF UpdatePrepare, UpdateRefused, UpdateSwap, UpdateCleanup, receiptVars, Inv,
    TypeOK, ReceiptTypes
<1>9. CASE \/ FailureCleanup \/ VideoOutputDies
  BY <1>9 DEF FailureCleanup, VideoOutputDies, receiptVars, Inv, TypeOK, ReceiptTypes
<1>10. ASSUME NEW s \in Streams, NEW caption \in BOOLEAN, NEW video \in BOOLEAN,
             StartBegin(s, caption, video)
      PROVE  ReceiptTypes'
  BY <1>10 DEF StartBegin, receiptVars, Inv, TypeOK, ReceiptTypes
<1>11. ASSUME NEW target \in Streams \cup {NoStream}, StopBegin(target)
      PROVE  ReceiptTypes'
  BY <1>11 DEF StopBegin, receiptVars, Inv, TypeOK, ReceiptTypes
<1>12. ASSUME NEW s \in Streams, UpdateBegin(s)
      PROVE  ReceiptTypes'
  BY <1>12 DEF UpdateBegin, receiptVars, Inv, TypeOK, ReceiptTypes
<1>13. ASSUME NEW f \in videoFailures, HandleVideoOutputFailure(f)
      PROVE  ReceiptTypes'
  <2>1. f.stream \in Streams /\ clock \in Nat
    BY <1>13 DEF Inv, TypeOK, JobTypes, ReceiptTypes, VideoInv, HandleVideoOutputFailure,
      FailureMatches
  <2>2. receipts' \in SUBSET Receipt
    BY <2>1, <1>13, ReceiptSets DEF Inv, TypeOK, ReceiptTypes, HandleVideoOutputFailure,
      RememberInMemoryAtLeast
  <2>3. disk' \in SUBSET Receipt
    BY <2>2, <1>13 DEF Inv, TypeOK, ReceiptTypes, HandleVideoOutputFailure,
      RememberInMemoryAtLeast, PersistErrors
  <2>4. acked' \in SUBSET Ack
    BY <2>1, <1>13, AckSets DEF Inv, TypeOK, ReceiptTypes, HandleVideoOutputFailure
  <2> QED
    BY <2>1, <2>2, <2>3, <2>4, <1>13 DEF ReceiptTypes, HandleVideoOutputFailure,
      RememberInMemoryAtLeast
<1>14. ASSUME NEW f \in videoFailures, StaleVideoOutputFailure(f)
      PROVE  ReceiptTypes'
  BY <1>14 DEF StaleVideoOutputFailure, receiptVars, Inv, TypeOK, ReceiptTypes
<1>15. ASSUME NEW S \in SUBSET Streams, ApplyRuntimeConfig(S)
      PROVE  ReceiptTypes'
  BY <1>15 DEF ApplyRuntimeConfig, receiptVars, Inv, TypeOK, ReceiptTypes
<1>16. ASSUME NEW c \in 1..MaxConnection, AudioConnection(c)
      PROVE  ReceiptTypes'
  BY <1>16 DEF AudioConnection, receiptVars, Inv, TypeOK, ReceiptTypes
<1>17. CASE Tick
  BY <1>17 DEF Tick, Inv, TypeOK, ReceiptTypes
<1>18. CASE CrashAndRestart
  BY <1>18, LoadedSet DEF CrashAndRestart, Inv, TypeOK, ReceiptTypes
<1>19. CASE UNCHANGED vars
  BY <1>19 DEF Inv, TypeOK, ReceiptTypes, vars, receiptVars
<1> QED
  BY <1>1, <1>2, <1>3, <1>4, <1>5, <1>6, <1>7, <1>8, <1>9, <1>10, <1>11, <1>12, <1>13,
     <1>14, <1>15, <1>16, <1>17, <1>18, <1>19
  DEF Next, OperationStep, StartStep, StopStep, UpdateStep

\* Every step leaves an operation that fits the job, and stopping only with one.
LEMMA JobInvStep ==
  ASSUME Inv, [Next]_vars
  PROVE  JobInv'
<1>1. CASE \/ StartPrepareFails \/ StartRefused \/ StartReceiptFails \/ StartUndo
  BY <1>1 DEF StartPrepareFails, StartRefused, StartReceiptFails, StartUndo, jobVars,
    captionVars, Inv, JobInv, StopSteps, Idle
<1>2. CASE StartPrepare
  BY <1>2 DEF StartPrepare, Goto, jobVars, captionVars, Inv, JobInv, StopSteps, UpdateSteps
<1>3. CASE StartUnsupported
  BY <1>3 DEF StartUnsupported, MayCommit, Goto, Inv, JobInv
<1>4. CASE StartCommit
  BY <1>4, StreamsAssumption DEF StartCommit, MayCommit, TakeGeneration, Inv, TypeOK,
    JobTypes, JobInv, StopSteps, Idle
<1>5. CASE \/ StartVideo \/ UpdatePrepareFails \/ UpdateRefused \/ UpdateCleanup
  BY <1>5 DEF StartVideo, UpdatePrepareFails, UpdateRefused, UpdateCleanup, jobVars, Inv,
    JobInv, StopSteps, Idle
<1>6. CASE StartVideoFails
  BY <1>6 DEF StartVideoFails, Goto, Inv, JobInv, StopSteps
<1>7. CASE StopDelivery
  BY <1>7 DEF StopDelivery, Goto, jobVars, captionVars, Inv, JobInv, StopSteps
<1>8. CASE StopOutputs
  BY <1>8 DEF StopOutputs, Goto, jobVars, captionVars, Inv, JobInv, StopSteps
<1>9. CASE \/ StopReceiptFails \/ FailureCleanup
  BY <1>9 DEF StopReceiptFails, FailureCleanup, jobVars, captionVars, Inv, JobInv,
    StopSteps, Idle
<1>10. CASE StopReceipt
  BY <1>10 DEF StopReceipt, captionVars, Inv, JobInv, UpdateSteps, Idle
<1>11. CASE UpdatePrepare
  BY <1>11 DEF UpdatePrepare, Goto, jobVars, Inv, JobInv, StopSteps, UpdateSteps
<1>12. CASE UpdateSwap
  BY <1>12 DEF UpdateSwap, jobVars, Inv, JobInv, StopSteps, UpdateSteps
<1>13. ASSUME NEW s \in Streams, NEW caption \in BOOLEAN, NEW video \in BOOLEAN,
             StartBegin(s, caption, video)
      PROVE  JobInv'
  BY <1>13 DEF StartBegin, jobVars, captionVars, Inv, JobInv
<1>14. ASSUME NEW target \in Streams \cup {NoStream}, StopBegin(target)
      PROVE  JobInv'
  BY <1>14 DEF StopBegin, NextGenerations, Inv, TypeOK, JobTypes, JobInv, StopSteps
<1>15. ASSUME NEW s \in Streams, UpdateBegin(s)
      PROVE  JobInv'
  BY <1>15 DEF UpdateBegin, jobVars, Inv, JobInv, StopSteps, UpdateSteps
<1>16. ASSUME NEW f \in videoFailures, HandleVideoOutputFailure(f)
      PROVE  JobInv'
  BY <1>16 DEF HandleVideoOutputFailure, FailureMatches, Inv, TypeOK, JobTypes, JobInv,
    VideoInv
<1>17. ASSUME NEW f \in videoFailures, StaleVideoOutputFailure(f)
      PROVE  JobInv'
  BY <1>17 DEF StaleVideoOutputFailure, jobVars, captionVars, Inv, JobInv
<1>18. ASSUME NEW S \in SUBSET Streams, ApplyRuntimeConfig(S)
      PROVE  JobInv'
  BY <1>18 DEF ApplyRuntimeConfig, jobVars, captionVars, Inv, JobInv
<1>19. ASSUME NEW c \in 1..MaxConnection, AudioConnection(c)
      PROVE  JobInv'
  BY <1>19 DEF AudioConnection, jobVars, Inv, JobInv
<1>20. CASE \/ VideoOutputDies \/ Tick
  BY <1>20 DEF VideoOutputDies, Tick, jobVars, captionVars, Inv, JobInv
<1>21. CASE CrashAndRestart
  BY <1>21 DEF CrashAndRestart, JobInv, Idle
<1>22. CASE UNCHANGED vars
  BY <1>22 DEF Inv, JobInv, vars, jobVars, captionVars
<1> QED
  BY <1>1, <1>2, <1>3, <1>4, <1>5, <1>6, <1>7, <1>8, <1>9, <1>10, <1>11, <1>12, <1>13,
     <1>14, <1>15, <1>16, <1>17, <1>18, <1>19, <1>20, <1>21, <1>22
  DEF Next, OperationStep, StartStep, StopStep, UpdateStep

\* Every step leaves open the sessions of the manager and of the operation only,
\* under the right generations.
LEMMA SessionInvStep ==
  ASSUME Inv, [Next]_vars
  PROVE  SessionInv'
<1>1. CASE \/ StartPrepareFails \/ StopReceiptFails \/ UpdatePrepareFails
  BY <1>1 DEF StartPrepareFails, StopReceiptFails, UpdatePrepareFails, jobVars, captionVars,
    resourceVars, Inv, SessionInv, Idle, OwnSessions
<1>2. CASE StartPrepare
  BY <1>2 DEF StartPrepare, Goto, jobVars, captionVars, Inv, TypeOK, JobTypes, SessionInv,
    NoSession, OwnSessions
<1>3. CASE \/ StartRefused \/ StartReceiptFails
  BY <1>3 DEF StartRefused, StartReceiptFails, jobVars, captionVars, Inv, TypeOK, JobTypes,
    SessionInv, Idle, OwnSessions
<1>4. CASE StartUnsupported
  BY <1>4 DEF StartUnsupported, MayCommit, Goto, Inv, JobInv, SessionInv, OwnSessions
<1>5. CASE StartCommit
  BY <1>5 DEF StartCommit, MayCommit, TakeGeneration, Inv, JobInv, SessionInv, Idle,
    OwnSessions
<1>6. CASE StartVideo
  BY <1>6 DEF StartVideo, jobVars, captionVars, Inv, SessionInv, Idle, OwnSessions
<1>7. CASE StartVideoFails
  BY <1>7 DEF StartVideoFails, Goto, Inv, SessionInv, OwnSessions
<1>8. CASE \/ StartUndo \/ StopReceipt \/ FailureCleanup
  BY <1>8 DEF StartUndo, StopReceipt, FailureCleanup, captionVars, Inv, JobInv, SessionInv,
    UpdateSteps, Idle, OwnSessions
<1>9. CASE StopDelivery
  BY <1>9 DEF StopDelivery, Goto, jobVars, captionVars, Inv, SessionInv, OwnSessions
<1>10. CASE StopOutputs
  BY <1>10 DEF StopOutputs, Goto, captionVars, Inv, JobInv, SessionInv, UpdateSteps,
    OwnSessions
<1>11. CASE UpdatePrepare
  BY <1>11 DEF UpdatePrepare, Goto, jobVars, captionVars, Inv, TypeOK, CaptionTypes,
    SessionInv, NoSession, OwnSessions
<1>12. CASE \/ UpdateRefused \/ UpdateCleanup
  BY <1>12 DEF UpdateRefused, UpdateCleanup, jobVars, captionVars, Inv, TypeOK,
    CaptionTypes, SessionInv, Idle, OwnSessions
<1>13. CASE UpdateSwap
  BY <1>13 DEF UpdateSwap, jobVars, Inv, TypeOK, CaptionTypes, SessionInv, NoSession,
    OwnSessions
<1>14. ASSUME NEW s \in Streams, NEW caption \in BOOLEAN, NEW video \in BOOLEAN,
             StartBegin(s, caption, video)
      PROVE  SessionInv'
  BY <1>14 DEF StartBegin, jobVars, captionVars, resourceVars, Inv, SessionInv, Idle,
    OwnSessions
<1>15. ASSUME NEW target \in Streams \cup {NoStream}, StopBegin(target)
      PROVE  SessionInv'
  BY <1>15 DEF StopBegin, resourceVars, Inv, SessionInv, Idle, OwnSessions
<1>16. ASSUME NEW s \in Streams, UpdateBegin(s)
      PROVE  SessionInv'
  BY <1>16 DEF UpdateBegin, jobVars, captionVars, resourceVars, Inv, SessionInv, Idle,
    OwnSessions
<1>17. ASSUME NEW f \in videoFailures, HandleVideoOutputFailure(f)
      PROVE  SessionInv'
  BY <1>17 DEF HandleVideoOutputFailure, resourceVars, Inv, SessionInv, Idle, OwnSessions
<1>18. ASSUME NEW f \in videoFailures, StaleVideoOutputFailure(f)
      PROVE  SessionInv'
  BY <1>18 DEF StaleVideoOutputFailure, jobVars, captionVars, resourceVars, Inv, SessionInv,
    OwnSessions
<1>19. ASSUME NEW S \in SUBSET Streams, ApplyRuntimeConfig(S)
      PROVE  SessionInv'
  BY <1>19 DEF ApplyRuntimeConfig, jobVars, captionVars, resourceVars, Inv, SessionInv,
    OwnSessions
<1>20. ASSUME NEW c \in 1..MaxConnection, AudioConnection(c)
      PROVE  SessionInv'
  BY <1>20 DEF AudioConnection, jobVars, Inv, SessionInv, OwnSessions
<1>21. CASE VideoOutputDies
  BY <1>21 DEF VideoOutputDies, jobVars, captionVars, Inv, SessionInv, OwnSessions
<1>22. CASE Tick
  BY <1>22 DEF Tick, jobVars, captionVars, resourceVars, Inv, SessionInv, OwnSessions
<1>23. CASE CrashAndRestart
  BY <1>23 DEF CrashAndRestart, SessionInv, Idle, OwnSessions
<1>24. CASE UNCHANGED vars
  BY <1>24 DEF Inv, SessionInv, OwnSessions, vars, jobVars, captionVars, resourceVars
<1> QED
  BY <1>1, <1>2, <1>3, <1>4, <1>5, <1>6, <1>7, <1>8, <1>9, <1>10, <1>11, <1>12, <1>13,
     <1>14, <1>15, <1>16, <1>17, <1>18, <1>19, <1>20, <1>21, <1>22, <1>23, <1>24
  DEF Next, OperationStep, StartStep, StopStep, UpdateStep

\* Every step leaves the manager with the live ingress of its session.
LEMMA IngressInvStep ==
  ASSUME Inv, [Next]_vars
  PROVE  IngressInv'
<1>1. CASE \/ StartPrepareFails \/ StopReceiptFails \/ UpdatePrepareFails
  BY <1>1 DEF StartPrepareFails, StopReceiptFails, UpdatePrepareFails, captionVars,
    resourceVars, Inv, Idle, IngressInv
<1>2. CASE StartPrepare
  BY <1>2 DEF StartPrepare, Goto, captionVars, Inv, IngressInv
<1>3. CASE \/ StartRefused \/ StartReceiptFails \/ StartVideo \/ StopReceipt
  BY <1>3 DEF StartRefused, StartReceiptFails, StartVideo, StopReceipt, captionVars, Inv,
    Idle, IngressInv
<1>4. CASE StartUnsupported
  BY <1>4 DEF StartUnsupported, Goto, Inv, IngressInv, MayCommit, JobInv
<1>5. CASE StartCommit
  BY <1>5 DEF StartCommit, MayCommit, Inv, JobInv, Idle, NoIngress, IngressInv
<1>6. CASE StartVideoFails
  <2>1. current = op.stream
    BY <1>6 DEF Inv, JobInv, StartVideoFails
  <2>2. op'.step = "start.undo"
    BY <1>6 DEF Inv, TypeOK, JobTypes, Operation, StartVideoFails, Goto
  <2>3. captionSession' = NoSession /\ captionIngress' = NoIngress
    BY <2>1, <1>6 DEF StartVideoFails
  <2> QED
    BY <2>2, <2>3 DEF IngressInv, NoIngress
<1>7. CASE \/ StartUndo \/ FailureCleanup
  BY <1>7 DEF StartUndo, FailureCleanup, captionVars, Inv, JobInv, UpdateSteps, Idle,
    IngressInv
<1>8. CASE StopDelivery
  BY <1>8 DEF StopDelivery, Goto, captionVars, Inv, JobInv, UpdateSteps, IngressInv
<1>9. CASE StopOutputs
  BY <1>9 DEF StopOutputs, Goto, captionVars, Inv, IngressInv
<1>10. CASE UpdatePrepare
  BY <1>10 DEF UpdatePrepare, Goto, captionVars, Inv, IngressInv
<1>11. CASE UpdateRefused
  BY <1>11 DEF UpdateRefused, captionVars, Inv, Idle, IngressInv
<1>12. CASE UpdateSwap
  BY <1>12 DEF UpdateSwap, Inv, NoIngress, IngressInv
<1>13. CASE UpdateCleanup
  BY <1>13 DEF UpdateCleanup, captionVars, Inv, TypeOK, CaptionTypes, SessionInv, Idle,
    IngressInv
<1>14. ASSUME NEW s \in Streams, NEW caption \in BOOLEAN, NEW video \in BOOLEAN,
             StartBegin(s, caption, video)
      PROVE  IngressInv'
  BY <1>14 DEF StartBegin, captionVars, resourceVars, Inv, IngressInv
<1>15. ASSUME NEW target \in Streams \cup {NoStream}, StopBegin(target)
      PROVE  IngressInv'
  BY <1>15 DEF StopBegin, NoIngress, IngressInv
<1>16. ASSUME NEW s \in Streams, UpdateBegin(s)
      PROVE  IngressInv'
  BY <1>16 DEF UpdateBegin, captionVars, resourceVars, Inv, IngressInv
<1>17. ASSUME NEW f \in videoFailures, HandleVideoOutputFailure(f)
      PROVE  IngressInv'
  BY <1>17 DEF HandleVideoOutputFailure, NoIngress, IngressInv
<1>18. ASSUME NEW f \in videoFailures, StaleVideoOutputFailure(f)
      PROVE  IngressInv'
  BY <1>18 DEF StaleVideoOutputFailure, captionVars, resourceVars, Inv, IngressInv
<1>19. ASSUME NEW S \in SUBSET Streams, ApplyRuntimeConfig(S)
      PROVE  IngressInv'
  BY <1>19 DEF ApplyRuntimeConfig, captionVars, resourceVars, Inv, IngressInv
<1>20. ASSUME NEW c \in 1..MaxConnection, AudioConnection(c)
      PROVE  IngressInv'
  BY <1>20 DEF AudioConnection, Inv, IngressInv
<1>21. CASE VideoOutputDies
  BY <1>21 DEF VideoOutputDies, captionVars, Inv, IngressInv
<1>22. CASE Tick
  BY <1>22 DEF Tick, captionVars, resourceVars, Inv, IngressInv
<1>23. CASE CrashAndRestart
  BY <1>23 DEF CrashAndRestart, Idle, NoIngress, IngressInv
<1>24. CASE UNCHANGED vars
  BY <1>24 DEF Inv, IngressInv, vars, captionVars, resourceVars
<1> QED
  BY <1>1, <1>2, <1>3, <1>4, <1>5, <1>6, <1>7, <1>8, <1>9, <1>10, <1>11, <1>12, <1>13,
     <1>14, <1>15, <1>16, <1>17, <1>18, <1>19, <1>20, <1>21, <1>22, <1>23, <1>24
  DEF Next, OperationStep, StartStep, StopStep, UpdateStep

\* Every step leaves the delivery loop to an active job or to its own removal.
LEMMA DeliveryInvStep ==
  ASSUME Inv, [Next]_vars
  PROVE  DeliveryInv'
<1>1. CASE \/ StartPrepareFails \/ StopReceiptFails \/ UpdatePrepareFails \/ Tick
  BY <1>1 DEF StartPrepareFails, StopReceiptFails, UpdatePrepareFails, Tick, jobVars,
    resourceVars, Inv, DeliveryInv
<1>2. CASE \/ StartPrepare \/ StartRefused \/ StartReceiptFails \/ StartVideo
  BY <1>2 DEF StartPrepare, StartRefused, StartReceiptFails, StartVideo, jobVars, Inv,
    DeliveryInv
<1>3. CASE StartUnsupported
  BY <1>3 DEF StartUnsupported, TakeGeneration, Goto, DeliveryInv
<1>4. CASE StartCommit
  BY <1>4, StreamsAssumption DEF StartCommit, MayCommit, TakeGeneration, Inv, TypeOK,
    JobTypes, JobInv, DeliveryInv
<1>5. CASE StartVideoFails
  BY <1>5 DEF StartVideoFails, Goto, Inv, DeliveryInv
<1>6. CASE \/ StartUndo \/ StopDelivery \/ FailureCleanup
  BY <1>6 DEF StartUndo, StopDelivery, FailureCleanup, jobVars, Inv, JobInv, UpdateSteps,
    DeliveryInv
<1>7. CASE \/ StopOutputs \/ UpdatePrepare \/ UpdateRefused \/ UpdateSwap
  BY <1>7 DEF StopOutputs, UpdatePrepare, UpdateRefused, UpdateSwap, jobVars, Inv,
    DeliveryInv
<1>8. CASE StopReceipt
  BY <1>8 DEF StopReceipt, Inv, JobInv, UpdateSteps, DeliveryInv
<1>9. CASE \/ UpdateCleanup \/ VideoOutputDies
  BY <1>9 DEF UpdateCleanup, VideoOutputDies, jobVars, Inv, DeliveryInv
<1>10. ASSUME NEW s \in Streams, NEW caption \in BOOLEAN, NEW video \in BOOLEAN,
             StartBegin(s, caption, video)
      PROVE  DeliveryInv'
  BY <1>10 DEF StartBegin, jobVars, resourceVars, Inv, Idle, DeliveryInv
<1>11. ASSUME NEW target \in Streams \cup {NoStream}, StopBegin(target)
      PROVE  DeliveryInv'
  BY <1>11 DEF StopBegin, DeliveryInv
<1>12. ASSUME NEW s \in Streams, UpdateBegin(s)
      PROVE  DeliveryInv'
  BY <1>12 DEF UpdateBegin, jobVars, resourceVars, Inv, DeliveryInv
<1>13. ASSUME NEW f \in videoFailures, HandleVideoOutputFailure(f)
      PROVE  DeliveryInv'
  BY <1>13 DEF HandleVideoOutputFailure, DeliveryInv
<1>14. ASSUME NEW f \in videoFailures, StaleVideoOutputFailure(f)
      PROVE  DeliveryInv'
  BY <1>14 DEF StaleVideoOutputFailure, jobVars, resourceVars, Inv, DeliveryInv
<1>15. ASSUME NEW S \in SUBSET Streams, ApplyRuntimeConfig(S)
      PROVE  DeliveryInv'
  BY <1>15 DEF ApplyRuntimeConfig, jobVars, resourceVars, Inv, DeliveryInv
<1>16. ASSUME NEW c \in 1..MaxConnection, AudioConnection(c)
      PROVE  DeliveryInv'
  BY <1>16 DEF AudioConnection, jobVars, Inv, DeliveryInv
<1>17. CASE CrashAndRestart
  BY <1>17 DEF CrashAndRestart, DeliveryInv
<1>18. CASE UNCHANGED vars
  BY <1>18 DEF Inv, DeliveryInv, vars, jobVars, resourceVars
<1> QED
  BY <1>1, <1>2, <1>3, <1>4, <1>5, <1>6, <1>7, <1>8, <1>9, <1>10, <1>11, <1>12, <1>13,
     <1>14, <1>15, <1>16, <1>17, <1>18
  DEF Next, OperationStep, StartStep, StopStep, UpdateStep

\* Every step leaves the scene to the active job or to its own clearing.
LEMMA SceneInvStep ==
  ASSUME Inv, [Next]_vars
  PROVE  SceneInv'
<1>1. CASE \/ StartPrepareFails \/ StopReceiptFails \/ UpdatePrepareFails \/ Tick
  BY <1>1 DEF StartPrepareFails, StopReceiptFails, UpdatePrepareFails, Tick, jobVars,
    resourceVars, Inv, SceneInv
<1>2. CASE \/ StartPrepare \/ StartRefused \/ StartReceiptFails \/ StartVideo
  BY <1>2 DEF StartPrepare, StartRefused, StartReceiptFails, StartVideo, jobVars, Inv,
    SceneInv
<1>3. CASE StartUnsupported
  BY <1>3 DEF StartUnsupported, MayCommit, Goto, Inv, SceneInv
<1>4. CASE StartCommit
  BY <1>4, StreamsAssumption DEF StartCommit, MayCommit, TakeGeneration, Inv, TypeOK,
    JobTypes, SceneInv
<1>5. CASE StartVideoFails
  BY <1>5 DEF StartVideoFails, Goto, Inv, SceneInv
<1>6. CASE \/ StartUndo \/ FailureCleanup
  BY <1>6 DEF StartUndo, FailureCleanup, Cleared, jobVars, Inv, JobInv, StopSteps,
    UpdateSteps, SceneInv
<1>7. CASE \/ StopDelivery \/ StopOutputs \/ UpdatePrepare \/ UpdateRefused
  BY <1>7 DEF StopDelivery, StopOutputs, UpdatePrepare, UpdateRefused, jobVars, Inv,
    SceneInv
<1>8. CASE StopReceipt
  BY <1>8 DEF StopReceipt, Cleared, Inv, JobInv, SceneInv
<1>9. CASE \/ UpdateSwap \/ UpdateCleanup \/ VideoOutputDies
  BY <1>9 DEF UpdateSwap, UpdateCleanup, VideoOutputDies, jobVars, Inv, SceneInv
<1>10. ASSUME NEW s \in Streams, NEW caption \in BOOLEAN, NEW video \in BOOLEAN,
             StartBegin(s, caption, video)
      PROVE  SceneInv'
  BY <1>10 DEF StartBegin, jobVars, resourceVars, Inv, Idle, SceneInv
<1>11. ASSUME NEW target \in Streams \cup {NoStream}, StopBegin(target)
      PROVE  SceneInv'
  BY <1>11 DEF StopBegin, resourceVars, Inv, SceneInv
<1>12. ASSUME NEW s \in Streams, UpdateBegin(s)
      PROVE  SceneInv'
  BY <1>12 DEF UpdateBegin, jobVars, resourceVars, Inv, SceneInv
<1>13. ASSUME NEW f \in videoFailures, HandleVideoOutputFailure(f)
      PROVE  SceneInv'
  BY <1>13 DEF HandleVideoOutputFailure, FailureMatches, resourceVars, Inv, Idle, SceneInv
<1>14. ASSUME NEW f \in videoFailures, StaleVideoOutputFailure(f)
      PROVE  SceneInv'
  BY <1>14 DEF StaleVideoOutputFailure, jobVars, resourceVars, Inv, SceneInv
<1>15. ASSUME NEW S \in SUBSET Streams, ApplyRuntimeConfig(S)
      PROVE  SceneInv'
  BY <1>15 DEF ApplyRuntimeConfig, jobVars, resourceVars, Inv, SceneInv
<1>16. ASSUME NEW c \in 1..MaxConnection, AudioConnection(c)
      PROVE  SceneInv'
  BY <1>16 DEF AudioConnection, jobVars, Inv, SceneInv
<1>17. CASE CrashAndRestart
  BY <1>17 DEF CrashAndRestart, SceneInv
<1>18. CASE UNCHANGED vars
  BY <1>18 DEF Inv, SceneInv, vars, jobVars, resourceVars
<1> QED
  BY <1>1, <1>2, <1>3, <1>4, <1>5, <1>6, <1>7, <1>8, <1>9, <1>10, <1>11, <1>12, <1>13,
     <1>14, <1>15, <1>16, <1>17, <1>18
  DEF Next, OperationStep, StartStep, StopStep, UpdateStep

\* Every step keeps the video output and its callbacks within their generation.
LEMMA VideoInvStep ==
  ASSUME Inv, [Next]_vars
  PROVE  VideoInv'
<1>1. CASE \/ StartPrepareFails \/ StopReceiptFails \/ UpdatePrepareFails
  BY <1>1 DEF StartPrepareFails, StopReceiptFails, UpdatePrepareFails, jobVars,
    resourceVars, Inv, VideoInv, Idle
<1>2. CASE StartPrepare
  BY <1>2 DEF StartPrepare, Goto, jobVars, Inv, VideoInv
<1>3. CASE \/ StartRefused \/ StartReceiptFails \/ StartUndo \/ UpdateRefused
  BY <1>3 DEF StartRefused, StartReceiptFails, StartUndo, UpdateRefused, jobVars, Inv,
    VideoInv, Idle
<1>4. CASE StartUnsupported
  BY <1>4 DEF StartUnsupported, MayCommit, TakeGeneration, Goto, Inv, TypeOK, JobTypes,
    ResourceTypes, Binding, VideoInv
<1>5. CASE StartCommit
  BY <1>5 DEF StartCommit, MayCommit, TakeGeneration, Inv, TypeOK, JobTypes, ResourceTypes,
    Binding, VideoInv, Idle
<1>6. CASE StartVideo
  BY <1>6 DEF StartVideo, jobVars, Inv, JobInv, VideoInv, StopSteps, Idle, NoBinding
<1>7. CASE StartVideoFails
  BY <1>7 DEF StartVideoFails, Goto, Inv, TypeOK, JobTypes, Operation, JobInv, VideoInv
<1>8. CASE StopDelivery
  BY <1>8 DEF StopDelivery, Goto, jobVars, Inv, VideoInv
<1>9. CASE StopOutputs
  BY <1>9 DEF StopOutputs, Goto, jobVars, Inv, JobInv, VideoInv, UpdateSteps
<1>10. CASE StopReceipt
  BY <1>10 DEF StopReceipt, Inv, JobInv, VideoInv, UpdateSteps, Idle
<1>11. CASE UpdatePrepare
  BY <1>11 DEF UpdatePrepare, Goto, jobVars, Inv, VideoInv
<1>12. CASE UpdateSwap
  BY <1>12 DEF UpdateSwap, jobVars, Inv, VideoInv
<1>13. CASE \/ UpdateCleanup \/ FailureCleanup
  BY <1>13 DEF UpdateCleanup, FailureCleanup, jobVars, Inv, VideoInv, Idle
<1>14. ASSUME NEW s \in Streams, NEW caption \in BOOLEAN, NEW video \in BOOLEAN,
             StartBegin(s, caption, video)
      PROVE  VideoInv'
  BY <1>14 DEF StartBegin, jobVars, resourceVars, Inv, VideoInv
<1>15. ASSUME NEW target \in Streams \cup {NoStream}, StopBegin(target)
      PROVE  VideoInv'
  BY <1>15 DEF StopBegin, NextGenerations, resourceVars, Inv, TypeOK, JobTypes,
    ResourceTypes, Binding, VideoInv
<1>16. ASSUME NEW s \in Streams, UpdateBegin(s)
      PROVE  VideoInv'
  BY <1>16 DEF UpdateBegin, jobVars, resourceVars, Inv, VideoInv, Idle
<1>17. ASSUME NEW f \in videoFailures, HandleVideoOutputFailure(f)
      PROVE  VideoInv'
  BY <1>17 DEF HandleVideoOutputFailure, NextGenerations, FailureMatches, resourceVars, Inv,
    TypeOK, ResourceTypes, Binding, VideoInv
<1>18. ASSUME NEW f \in videoFailures, StaleVideoOutputFailure(f)
      PROVE  VideoInv'
  BY <1>18 DEF StaleVideoOutputFailure, FailureMatches, jobVars, resourceVars, Inv, VideoInv
<1>19. ASSUME NEW S \in SUBSET Streams, ApplyRuntimeConfig(S)
      PROVE  VideoInv'
  BY <1>19 DEF ApplyRuntimeConfig, jobVars, resourceVars, Inv, VideoInv
<1>20. ASSUME NEW c \in 1..MaxConnection, AudioConnection(c)
      PROVE  VideoInv'
  BY <1>20 DEF AudioConnection, jobVars, Inv, VideoInv
<1>21. CASE VideoOutputDies
  BY <1>21 DEF VideoOutputDies, jobVars, Inv, JobInv, VideoInv, UpdateSteps
<1>22. CASE Tick
  BY <1>22 DEF Tick, jobVars, resourceVars, Inv, VideoInv
<1>23. CASE CrashAndRestart
  BY <1>23 DEF CrashAndRestart, VideoInv, Idle
<1>24. CASE UNCHANGED vars
  BY <1>24 DEF Inv, VideoInv, vars, jobVars, resourceVars
<1> QED
  BY <1>1, <1>2, <1>3, <1>4, <1>5, <1>6, <1>7, <1>8, <1>9, <1>10, <1>11, <1>12, <1>13,
     <1>14, <1>15, <1>16, <1>17, <1>18, <1>19, <1>20, <1>21, <1>22, <1>23, <1>24
  DEF Next, OperationStep, StartStep, StopStep, UpdateStep
-----------------------------------------------------------------------------
(* The invariant and what follows from it.                                 *)

\* The manager newManager returns satisfies Inv.
LEMMA InvInit == Init => Inv
<1> SUFFICES ASSUME Init PROVE Inv
  OBVIOUS
<1>1. JobTypes /\ CaptionTypes
  BY DEF Init, JobTypes, CaptionTypes, Operation, Steps, Session, Ingress, Idle,
    NoSession, NoIngress
<1>2. ResourceTypes /\ ReceiptTypes
  BY DEF Init, ResourceTypes, ReceiptTypes, Binding, NoBinding
<1>3. JobInv /\ SessionInv /\ IngressInv
  BY DEF Init, JobInv, SessionInv, OwnSessions, IngressInv, Idle, NoSession, NoIngress,
    StopSteps, UpdateSteps
<1>4. DeliveryInv /\ SceneInv /\ VideoInv
  BY DEF Init, DeliveryInv, SceneInv, VideoInv, Idle, NoBinding
<1> QED
  BY <1>1, <1>2, <1>3, <1>4 DEF Inv, TypeOK

\* Every step of the manager, its callbacks and its restarts preserves Inv.
LEMMA InvStep == Inv /\ [Next]_vars => Inv'
  BY JobTypesStep, CaptionTypesStep, ResourceTypesStep, ReceiptTypesStep, JobInvStep,
     SessionInvStep, IngressInvStep, DeliveryInvStep, SceneInvStep, VideoInvStep
  DEF Inv, TypeOK

\* Inv holds in every reachable state: the strengthening of the safety
\* properties of Start, Stop, UpdateCaptionRuntimeSettings and
\* HandleVideoOutputFailure below.
THEOREM Invariance == Spec => []Inv
  BY InvInit, InvStep, PTL DEF Spec

\* Type correctness.  It rests on Inv: that a receipt names a stream and not
\* the empty stream_id follows from which operation may be under way.
THEOREM TypeCorrectness == Spec => []TypeOK
<1>1. Inv => TypeOK
  BY DEF Inv
<1> QED
  BY <1>1, Invariance, PTL

\* No failed Start, Stop or failure callback leaves a session, a delivery
\* loop, a scene or a video output behind when no job is active.
THEOREM NothingLeftBehind == Spec => []NothingRunsWithoutAJob
<1>1. Inv => NothingRunsWithoutAJob
  BY DEF Inv, NothingRunsWithoutAJob, JobInv, SessionInv, OwnSessions, DeliveryInv, SceneInv,
    VideoInv, Idle
<1> QED
  BY <1>1, Invariance, PTL

\* An active job owns its delivery loop, its scene, its one caption session
\* with a live ingress, and its video output or that output's failure callback.
THEOREM JobIsWhole == Spec => []ActiveJobIsWhole
<1>1. Inv => ActiveJobIsWhole
  <2> SUFFICES ASSUME Inv, op = Idle, current # NoStream, ~stopping PROVE ActiveJobIsWhole
    BY DEF ActiveJobIsWhole
  <2> DEFINE job == [stream |-> current, job |-> jobGeneration]
  <2>1. delivering /\ scene = job
    BY DEF Inv, TypeOK, ResourceTypes, Binding, DeliveryInv, SceneInv
  <2>2. sessions = {captionSession} \ {NoSession}
    BY DEF Inv, SessionInv, OwnSessions, Idle
  <2>3. /\ captionIngress.session = captionSession
        /\ captionSession # NoSession => captionIngress \in ingresses
    BY DEF Inv, IngressInv
  <2>4. IF currentVideo
        THEN videoOutput = job \/ (videoOutput = NoBinding /\ job \in videoFailures)
        ELSE videoOutput = NoBinding
    BY DEF Inv, VideoInv, Idle
  <2> QED
    BY <2>1, <2>2, <2>3, <2>4 DEF ActiveJobIsWhole
<1> QED
  BY <1>1, Invariance, PTL

\* The two together: after every operation the Worker owns exactly what its job
\* needs, and nothing when there is no job.
THEOREM OwnsExactly == Spec => []OwnsExactlyItsJob
  BY NothingLeftBehind, JobIsWhole, PTL DEF OwnsExactlyItsJob

\* While a Stop waits for a retry the job is fenced and nothing of it runs;
\* no failure callback clears the job under the fence.
THEOREM StopIsFenced == Spec => []StopFence
<1>1. Inv => StopFence
  BY DEF Inv, StopFence, JobInv, SessionInv, OwnSessions, IngressInv, DeliveryInv, VideoInv,
    Idle, StopSteps
<1> QED
  BY <1>1, Invariance, PTL

\* publishWithGenerations accepts the transcripts of the manager's own session
\* and of no other session that is still open.
THEOREM TranscriptsAreFenced == Spec => []SessionFence
<1>1. Inv => SessionFence
  <2> SUFFICES ASSUME Inv, NEW x \in sessions
               PROVE  AcceptsTranscript(x) <=> x = captionSession
    BY DEF SessionFence
  <2>1. x # NoSession /\ x \in {captionSession} \cup OwnSessions
    BY DEF Inv, SessionInv
  <2>2. ASSUME x = captionSession
        PROVE  AcceptsTranscript(x)
    BY <2>1, <2>2 DEF Inv, JobInv, SessionInv, AcceptsTranscript
  <2>3. ASSUME AcceptsTranscript(x)
        PROVE  x = captionSession
    <3> SUFFICES ASSUME x \in OwnSessions PROVE FALSE
      BY <2>1
    <3>1. current # NoStream /\ ~stopping /\ captionSessionGeneration = x.cap
      BY <2>3 DEF AcceptsTranscript
    <3>2. op.step \in {"update.swap", "update.cleanup"} /\ x = op.session
      BY <3>1 DEF Inv, JobInv, OwnSessions, StopSteps, UpdateSteps
    <3> QED
      BY <3>1, <3>2 DEF Inv, TypeOK, CaptionTypes, SessionInv
  <2> QED
    BY <2>2, <2>3
<1> QED
  BY <1>1, Invariance, PTL

\* HandleVideoOutputFailure ends a job only for the death of that job's own
\* video output, and never while that job starts or stops.
THEOREM FailuresAreFenced == Spec => []FailureHitsOnlyItsJob
<1>1. Inv => FailureHitsOnlyItsJob
  <2> SUFFICES ASSUME Inv, NEW f \in videoFailures, FailureMatches(f)
               PROVE  /\ videoOutput = NoBinding
                      /\ ~stopping
                      /\ op.step \notin {"start.prepare", "start.commit", "start.video",
                                         "start.undo"}
    BY DEF FailureHitsOnlyItsJob
  <2>1. f.job = jobGeneration /\ jobGeneration \in Nat
    BY DEF FailureMatches, Inv, TypeOK, JobTypes
  <2>2. /\ videoOutput = NoBinding
        /\ current # NoStream /\ ~stopping /\ op.step # "start.video"
    BY <2>1 DEF Inv, VideoInv
  <2> QED
    BY <2>2 DEF Inv, JobInv, StopSteps, UpdateSteps
<1> QED
  BY <1>1, Invariance, PTL

\* Start makes a stream active only while it is assigned to this Worker.
THEOREM OnlyAssignedStart == Spec => StartsOnlyAssigned
<1>1. ASSUME [Next]_vars, current = NoStream, current' # NoStream
      PROVE  StartCommit
  BY <1>1
  DEF Next, OperationStep, StartStep, StopStep, UpdateStep, vars, jobVars, StartPrepareFails,
      StartPrepare, StartRefused, StartReceiptFails, StartUnsupported, StartVideo,
      StartVideoFails, StartUndo, StopDelivery, StopOutputs, StopReceiptFails, StopReceipt,
      UpdatePrepareFails, UpdatePrepare, UpdateRefused, UpdateSwap, UpdateCleanup,
      FailureCleanup, StartBegin, StopBegin, UpdateBegin, HandleVideoOutputFailure,
      StaleVideoOutputFailure, ApplyRuntimeConfig, AudioConnection, VideoOutputDies, Tick,
      CrashAndRestart
<1>2. StartCommit => current' \in assigned
  BY DEF StartCommit, MayCommit
<1>3. [Next]_vars => [current = NoStream /\ current' # NoStream => current' \in assigned]_vars
  BY <1>1, <1>2
<1> QED
  BY <1>3, PTL DEF Spec, StartsOnlyAssigned
-----------------------------------------------------------------------------
(* The stop receipts: first the operators of StoppedTargets, for every      *)
(* bound and every time to live.                                            *)

\* No two receipts were written at the same instant.
DistinctTimes(R) == \A p, q \in R : p.at = q.at => p = q

\* A receipt list as the code keeps it: finite, one receipt for a stream, one
\* receipt at an instant, not more than fit.
IsList(R) ==
  /\ R \in SUBSET Receipt
  /\ IsFiniteSet(R)
  /\ Loadable(R)
  /\ DistinctTimes(R)
  /\ Cardinality(R) <= MaxReceipts

\* A non-empty set of naturals has a least element.
LEMMA LeastNatural ==
  ASSUME NEW T, T \subseteq Nat, T # {}
  PROVE  \E m \in T : \A n \in T : m <= n
<1> DEFINE less == OpToRel(<, Nat)
<1>1. IsWellFoundedOn(less, Nat)
  BY NatLessThanWellFounded
<1>2. \A m, n \in Nat : n < m => <<n, m>> \in less
  BY DEF OpToRel
<1> HIDE DEF less
<1>3. PICK m \in T : \A n \in T : ~(<<n, m>> \in less)
  BY <1>1, WFMin
<1>4. ASSUME NEW n \in T PROVE m <= n
  <2>1. m \in Nat /\ n \in Nat
    OBVIOUS
  <2>2. ~(n < m)
    BY <1>2, <1>3, <2>1
  <2> QED
    BY <2>1, <2>2
<1> QED
  BY <1>4

\* Cutting a list to the newest receipts (the slice of the last
\* maxStoppedStreamTargets entries) leaves no more than that many.
LEMMA NewestIsBounded ==
  ASSUME NEW R \in SUBSET Receipt, IsFiniteSet(R), DistinctTimes(R)
  PROVE  IsFiniteSet(Newest(R)) /\ Cardinality(Newest(R)) <= MaxReceipts
<1>1. Newest(R) \in SUBSET R
  BY DEF Newest
<1>2. IsFiniteSet(Newest(R)) /\ Cardinality(Newest(R)) \in Nat
  BY <1>1, FS_Subset, FS_CardinalityType
<1>3. CASE Newest(R) = {}
  BY <1>3, FS_EmptySet, ReceiptBounds
<1>4. CASE Newest(R) # {}
  <2> DEFINE times == {r.at : r \in Newest(R)}
  <2>1. PICK m \in times : \A n \in times : m <= n
    <3>1. times \subseteq Nat /\ times # {}
      BY <1>1, <1>4 DEF Receipt
    <3> QED
      BY <3>1, LeastNatural
  <2>2. PICK r \in Newest(R) : r.at = m
    OBVIOUS
  <2> DEFINE later == {q \in R : q.at > r.at}
  <2>3. Newest(R) \ {r} \in SUBSET later
    <3> SUFFICES ASSUME NEW q \in Newest(R), q # r PROVE q \in later
      OBVIOUS
    <3>1. q \in R /\ r \in R /\ q.at \in Nat /\ r.at \in Nat
      BY <1>1 DEF Receipt
    <3>2. q.at # r.at
      BY <3>1 DEF DistinctTimes
    <3>3. r.at <= q.at
      BY <2>1, <2>2
    <3> QED
      BY <3>1, <3>2, <3>3
  <2>4. IsFiniteSet(later) /\ Cardinality(later) < MaxReceipts
    BY <2>2, FS_Subset DEF Newest
  <2>5. Cardinality(Newest(R) \ {r}) <= Cardinality(later)
    BY <2>3, <2>4, FS_Subset
  <2>6. Cardinality(Newest(R) \ {r}) = Cardinality(Newest(R)) - 1
    BY <1>2, FS_RemoveElement
  <2>7. Cardinality(later) \in Nat
    BY <2>4, FS_CardinalityType
  <2> QED
    BY <1>2, <2>4, <2>5, <2>6, <2>7, ReceiptBounds
<1> QED
  BY <1>2, <1>3, <1>4

\* A receipt later than all others survives the cut.
LEMMA NewestKeepsLast ==
  ASSUME NEW R \in SUBSET Receipt, NEW r \in R, \A q \in R : q.at <= r.at
  PROVE  r \in Newest(R)
<1>1. \A q \in R : ~(q.at > r.at)
  BY DEF Receipt
<1>2. {q \in R : q.at > r.at} = {}
  BY <1>1
<1> QED
  BY <1>2, FS_EmptySet, ReceiptBounds DEF Newest

\* A list without a stream is a list.
LEMMA SubList ==
  ASSUME NEW R, IsList(R), NEW Q \in SUBSET R
  PROVE  IsList(Q)
<1>1. IsFiniteSet(Q) /\ Cardinality(Q) <= Cardinality(R)
  BY FS_Subset DEF IsList
<1>2. Cardinality(Q) \in Nat /\ Cardinality(R) \in Nat
  BY <1>1, FS_CardinalityType DEF IsList
<1> QED
  BY <1>1, <1>2, ReceiptBounds DEF IsList, Loadable, DistinctTimes

\* rememberStoppedTargetLocked turns a list into a list that names the stream.
LEMMA RememberedList ==
  ASSUME NEW R, IsList(R), NEW s \in Streams, NEW now \in Nat, \A r \in R : r.at < now
  PROVE  /\ IsList(Remembered(R, s, now))
         /\ \A r \in Remembered(R, s, now) : r.at <= now
         /\ [stream |-> s, at |-> now] \in Remembered(R, s, now)
         /\ WasStopped(Remembered(R, s, now), s, now)
<1> DEFINE new == [stream |-> s, at |-> now]
           rest == Without(R, s, now)
           all == rest \cup {new}
<1>1. rest \in SUBSET R /\ \A r \in rest : r.stream # s
  BY DEF Without
<1>2. R \in SUBSET Receipt /\ new \in Receipt /\ new.stream = s /\ new.at = now
  BY DEF IsList, Receipt
<1>3. all \in SUBSET Receipt /\ IsFiniteSet(all)
  BY <1>1, <1>2, FS_Subset, FS_AddElement DEF IsList
<1>4. Loadable(all)
  BY <1>1, <1>2 DEF IsList, Loadable
<1>5. DistinctTimes(all) /\ \A r \in all : r.at <= now
  BY <1>1, <1>2 DEF IsList, DistinctTimes, Receipt
<1>6. new \in Newest(all)
  BY <1>2, <1>3, <1>5, NewestKeepsLast
<1>7. IsFiniteSet(Newest(all)) /\ Cardinality(Newest(all)) <= MaxReceipts
  BY <1>3, <1>5, NewestIsBounded
<1>8. Newest(all) \in SUBSET all
  BY DEF Newest
<1>9. Remembered(R, s, now) = Newest(all)
  BY DEF Remembered
<1>10. Fresh(new, now)
  BY <1>2, ReceiptBounds DEF Fresh
<1>11. IsList(Newest(all))
  BY <1>3, <1>4, <1>5, <1>7, <1>8 DEF IsList, Loadable, DistinctTimes
<1> QED
  BY <1>2, <1>5, <1>6, <1>8, <1>9, <1>10, <1>11 DEF WasStopped

-----------------------------------------------------------------------------

\* Memory and file hold well-formed lists.  What is in memory was written
\* before now; a write that failed late may have left a receipt of this very
\* instant in the file only.
ReceiptInv ==
  /\ IsList(receipts) /\ \A r \in receipts : r.at < clock
  /\ IsList(disk) /\ \A r \in disk : r.at <= clock

\* The empty list of a first start is well formed.
LEMMA ReceiptInvInit == Init => ReceiptInv
<1>1. IsList({})
  BY FS_EmptySet, ReceiptBounds DEF IsList, Loadable, DistinctTimes
<1> QED
  BY <1>1 DEF Init, ReceiptInv

\* forgetStoppedTargetLocked keeps a list well formed and adds nothing.
LEMMA ForgottenList ==
  ASSUME NEW R, IsList(R), NEW s, NEW now
  PROVE  /\ IsList(Forgotten(R, s, now)) /\ Forgotten(R, s, now) \in SUBSET R
         /\ IsList(Without(R, s, now)) /\ Without(R, s, now) \in SUBSET R
<1>1. Forgotten(R, s, now) \in SUBSET R /\ Without(R, s, now) \in SUBSET R
  BY DEF Forgotten, Without
<1> QED
  BY <1>1, SubList

\* loadStoppedTargetReceipts keeps a list well formed and adds nothing.
LEMMA LoadedList ==
  ASSUME NEW R, IsList(R), NEW now
  PROVE  IsList(Loaded(R, now)) /\ Loaded(R, now) \in SUBSET R
<1>1. Loaded(R, now) \in SUBSET R
  BY DEF Loaded, Newest
<1> QED
  BY <1>1, SubList

\* Every write of a receipt, complete or not, and every restart preserves the
\* lists.
LEMMA ReceiptInvStep ==
  ASSUME Inv, ReceiptInv, [Next]_vars
  PROVE  ReceiptInv'
<1>1. clock \in Nat
  BY DEF Inv, TypeOK, ReceiptTypes
<1>2. /\ IsList(receipts) /\ \A r \in receipts : r.at \in Nat /\ r.at < clock
      /\ IsList(disk) /\ \A r \in disk : r.at \in Nat /\ r.at <= clock
  BY DEF ReceiptInv, IsList, Receipt
<1>3. ASSUME NEW s \in Streams
      PROVE  LET new == Remembered(receipts, s, clock)
             IN  IsList(new) /\ \A r \in new : r.at \in Nat /\ r.at <= clock
  <2>1. /\ IsList(Remembered(receipts, s, clock))
        /\ \A r \in Remembered(receipts, s, clock) : r.at <= clock
    BY <1>1, <1>2, RememberedList
  <2> QED
    BY <2>1 DEF IsList, Receipt
<1>4. CASE StartReceiptFails
  <2>1. disk' \in {disk, Without(receipts, op.stream, clock)} /\ UNCHANGED <<receipts, clock>>
    BY <1>4 DEF StartReceiptFails, PersistErrors
  <2>2. /\ IsList(Without(receipts, op.stream, clock))
        /\ Without(receipts, op.stream, clock) \in SUBSET receipts
    BY <1>2, ForgottenList
  <2> QED
    BY <1>1, <1>2, <2>1, <2>2 DEF ReceiptInv
<1>5. CASE StartUnsupported \/ StartCommit
  <2> DEFINE new == Forgotten(receipts, op.stream, clock)
  <2>1. receipts' = new /\ disk' \in {disk, new} /\ UNCHANGED clock
    BY <1>5 DEF StartUnsupported, StartCommit, ForgetReceipt
  <2>2. IsList(new) /\ new \in SUBSET receipts
    BY <1>2, ForgottenList
  <2> HIDE DEF new
  <2> QED
    BY <1>1, <1>2, <2>1, <2>2 DEF ReceiptInv
<1>6. CASE StopReceiptFails
  <2>1. op.stream \in Streams
    BY <1>6 DEF Inv, TypeOK, JobTypes, JobInv, StopReceiptFails, StopSteps
  <2>2. /\ disk' \in {disk, Remembered(receipts, op.stream, clock)}
        /\ UNCHANGED <<receipts, clock>>
    BY <1>6 DEF StopReceiptFails, PersistErrors
  <2> QED
    BY <1>1, <1>2, <1>3, <2>1, <2>2 DEF ReceiptInv
<1>7. CASE StopReceipt
  <2>1. op.stream \in Streams
    BY <1>7 DEF Inv, TypeOK, JobTypes, JobInv, StopReceipt, StopSteps
  <2> DEFINE new == Remembered(receipts, op.stream, clock)
  <2>2. receipts' = new /\ disk' = new /\ clock' = clock + 1
    BY <1>7 DEF StopReceipt
  <2>3. IsList(new) /\ \A r \in new : r.at \in Nat /\ r.at <= clock
    BY <1>3, <2>1
  <2> HIDE DEF new
  <2> QED
    BY <1>1, <2>2, <2>3 DEF ReceiptInv
<1>8. ASSUME NEW f \in videoFailures, HandleVideoOutputFailure(f)
      PROVE  ReceiptInv'
  <2>1. f.stream \in Streams
    BY <1>8 DEF Inv, TypeOK, JobTypes, VideoInv, HandleVideoOutputFailure, FailureMatches
  <2> DEFINE new == Remembered(receipts, f.stream, clock)
  <2>2. receipts' = new /\ disk' \in {disk, new} /\ clock' = clock + 1
    BY <1>8 DEF HandleVideoOutputFailure, RememberInMemoryAtLeast, PersistErrors
  <2>3. IsList(new) /\ \A r \in new : r.at \in Nat /\ r.at <= clock
    BY <1>3, <2>1
  <2> HIDE DEF new
  <2> QED
    BY <1>1, <1>2, <2>2, <2>3 DEF ReceiptInv
<1>9. CASE Tick
  BY <1>1, <1>2, <1>9 DEF Tick, ReceiptInv
<1>10. CASE CrashAndRestart
  <2> DEFINE new == Loaded(disk, clock + 1)
  <2>1. receipts' = new /\ disk' = disk /\ clock' = clock + 1
    BY <1>10 DEF CrashAndRestart
  <2>2. IsList(new) /\ new \in SUBSET disk
    BY <1>2, LoadedList
  <2> HIDE DEF new
  <2> QED
    BY <1>1, <1>2, <2>1, <2>2 DEF ReceiptInv
<1>11. CASE UNCHANGED <<receipts, disk, clock>>
  BY <1>11 DEF ReceiptInv
<1> QED
  BY <1>4, <1>5, <1>6, <1>7, <1>8, <1>9, <1>10, <1>11
  DEF Next, OperationStep, StartStep, StopStep, UpdateStep, vars, receiptVars,
      StartPrepareFails, StartPrepare, StartRefused, StartVideo, StartVideoFails, StartUndo,
      StopDelivery, StopOutputs, UpdatePrepareFails, UpdatePrepare, UpdateRefused, UpdateSwap,
      UpdateCleanup, FailureCleanup, StartBegin, StopBegin, UpdateBegin,
      StaleVideoOutputFailure, ApplyRuntimeConfig, AudioConnection, VideoOutputDies

\* The receipt lists are well formed in every reachable state.
THEOREM ReceiptInvariance == Spec => []ReceiptInv
  BY Invariance, ReceiptInvInit, ReceiptInvStep, PTL DEF Spec

\* The receipt file can be loaded at any instant, so the Worker can always be
\* started again, and neither list outgrows maxStoppedStreamTargets.
THEOREM FileLoads == Spec => []ReceiptFileLoads
<1>1. ReceiptInv => ReceiptFileLoads
  BY DEF ReceiptInv, ReceiptFileLoads, IsList
<1> QED
  BY <1>1, ReceiptInvariance, PTL

\* A started job leaves the manager, by Stop or by HandleVideoOutputFailure,
\* only together with its receipt, even if that receipt cannot be written.
THEOREM EndLeavesReceipt == Spec => EndedJobLeavesReceipt
<1> DEFINE Ends == /\ current # NoStream /\ current' = NoStream
                   /\ op.step # "start.video"
                   /\ jobGeneration' >= jobGeneration
<1>1. ASSUME Inv, ReceiptInv, [Next]_vars, Ends
      PROVE  WasStopped(receipts', current, clock)
  <2>1. CASE StopReceipt
    <3>1. op.stream = current /\ current \in Streams /\ clock \in Nat
      BY <1>1, <2>1 DEF Inv, TypeOK, JobTypes, ReceiptTypes, JobInv, StopReceipt
    <3> QED
      BY <1>1, <2>1, <3>1, RememberedList DEF StopReceipt, ReceiptInv
  <2>2. ASSUME NEW f \in videoFailures, HandleVideoOutputFailure(f)
        PROVE  WasStopped(receipts', current, clock)
    <3>1. f.stream = current /\ current \in Streams /\ clock \in Nat
      BY <1>1, <2>2 DEF Inv, TypeOK, JobTypes, ReceiptTypes, HandleVideoOutputFailure,
        FailureMatches
    <3> QED
      BY <1>1, <2>2, <3>1, RememberedList
      DEF HandleVideoOutputFailure, RememberInMemoryAtLeast, ReceiptInv
  <2>3. ~CrashAndRestart
    BY <1>1 DEF Inv, TypeOK, JobTypes, JobInv, CrashAndRestart
  <2>4. ~StartVideoFails
    BY <1>1 DEF StartVideoFails
  <2>5. current' # current
    BY <1>1
  <2> QED
    BY <1>1, <2>1, <2>2, <2>3, <2>4, <2>5
    DEF Next, OperationStep, StartStep, StopStep, UpdateStep, vars, jobVars,
        StartPrepareFails, StartPrepare, StartRefused, StartReceiptFails, StartUnsupported,
        StartCommit, MayCommit, StartVideo, StartUndo, StopDelivery, StopOutputs,
        StopReceiptFails, UpdatePrepareFails, UpdatePrepare, UpdateRefused, UpdateSwap,
        UpdateCleanup, FailureCleanup, StartBegin, StopBegin, UpdateBegin,
        StaleVideoOutputFailure, ApplyRuntimeConfig, AudioConnection, VideoOutputDies, Tick
<1>2. Inv /\ ReceiptInv /\ [Next]_vars => [Ends => WasStopped(receipts', current, clock)]_vars
  BY <1>1
<1> QED
  BY <1>2, Invariance, ReceiptInvariance, PTL DEF Spec, EndedJobLeavesReceipt
-----------------------------------------------------------------------------
(* Acknowledged stops.                                                     *)

\* A receipt survives the cut if the streams stopped after it are fewer than fit.
LEMMA NewestKeepsRecent ==
  ASSUME NEW R \in SUBSET Receipt, IsFiniteSet(R), Loadable(R), NEW r \in R,
         NEW L, IsFiniteSet(L), Cardinality(L) < MaxReceipts,
         \A q \in R : q.at > r.at => q.stream \in L
  PROVE  r \in Newest(R)
<1> DEFINE later == {q \in R : q.at > r.at}
           name == [q \in later |-> q.stream]
<1>1. name \in Injection(later, L)
  BY DEF Injection, IsInjective, Loadable
<1>2. IsFiniteSet(later)
  BY FS_Subset
<1>3. Cardinality(later) <= Cardinality(L)
  BY <1>1, FS_Injection
<1>4. Cardinality(later) \in Nat /\ Cardinality(L) \in Nat
  BY <1>2, FS_CardinalityType
<1> QED
  BY <1>3, <1>4, ReceiptBounds DEF Newest

\* The receipt that acknowledges a.
ReceiptOf(a) == [stream |-> a.stream, at |-> a.at]

\* The premise of AckedStopIsDurable for a at the time t.
Counts(a, t) == ~a.rearmed /\ t <= a.at + TTL /\ Cardinality(a.later) < MaxReceipts

\* A list has the receipts of the acknowledged stops, and what it has of a later
\* time is of streams stopped later.
Holds(R, a, t) ==
  /\ Counts(a, t) => ReceiptOf(a) \in R
  /\ \A r \in R : r.at > a.at => r.stream \in a.later

\* The history is in the past and finite, and no job runs for a stream whose
\* stop counts.
AckInv ==
  \A a \in acked :
    /\ a.at < clock /\ IsFiniteSet(a.later)
    /\ ~a.rearmed => current # a.stream
    /\ Holds(receipts, a, clock) /\ Holds(disk, a, clock)

\* a with a later stop of another stream.
After(a, s) == [a EXCEPT !.later = @ \cup {s}]

\* a with a start of stream s after it.
Again(a, s) == [a EXCEPT !.rearmed = @ \/ a.stream = s]

\* What an acknowledged stop is after a later stop and after a start.
LEMMA AckChanges ==
  ASSUME NEW a \in Ack, NEW s \in Streams
  PROVE  /\ After(a, s) \in Ack /\ ReceiptOf(After(a, s)) = ReceiptOf(a)
         /\ After(a, s).at = a.at /\ After(a, s).later = a.later \cup {s}
         /\ After(a, s).stream = a.stream /\ After(a, s).rearmed = a.rearmed
         /\ Again(a, s) \in Ack /\ ReceiptOf(Again(a, s)) = ReceiptOf(a)
         /\ Again(a, s).at = a.at /\ Again(a, s).later = a.later
         /\ Again(a, s).stream = a.stream
         /\ Again(a, s).rearmed <=> a.rearmed \/ a.stream = s
  BY DEF After, Again, Ack, ReceiptOf

\* Time only ends promises.
LEMMA HoldsOn ==
  ASSUME NEW R, NEW a \in Ack, NEW t \in Nat, NEW u \in Nat, t <= u, Holds(R, a, t)
  PROVE  Holds(R, a, u)
<1>1. a.at \in Nat
  BY DEF Ack
<1> QED
  BY <1>1, ReceiptBounds DEF Holds, Counts

\* A later stop that did not reach the list.
LEMMA HoldsUnwritten ==
  ASSUME NEW R, NEW a \in Ack, NEW s \in Streams, NEW t \in Nat, IsFiniteSet(a.later),
         Holds(R, a, t)
  PROVE  Holds(R, After(a, s), t)
<1>1. Counts(After(a, s), t) => Counts(a, t)
  <2>1. IsFiniteSet(a.later \cup {s})
    BY FS_AddElement
  <2>2. a.later \in SUBSET (a.later \cup {s})
    OBVIOUS
  <2>3. Cardinality(a.later) <= Cardinality(a.later \cup {s})
    BY <2>1, <2>2, FS_Subset
  <2>4. Cardinality(a.later) \in Nat /\ Cardinality(a.later \cup {s}) \in Nat
    BY <2>1, FS_CardinalityType
  <2>5. /\ After(a, s).at = a.at /\ After(a, s).later = a.later \cup {s}
        /\ After(a, s).rearmed = a.rearmed
    BY AckChanges
  <2> QED
    BY <2>3, <2>4, <2>5, ReceiptBounds DEF Counts
<1> QED
  BY <1>1, AckChanges DEF Holds

\* rememberStoppedTargetLocked of another stream.
LEMMA HoldsRemembered ==
  ASSUME NEW R, IsList(R), NEW a \in Ack, NEW s \in Streams, NEW t \in Nat,
         \A r \in R : r.at < t, IsFiniteSet(a.later), a.stream # s, Holds(R, a, t)
  PROVE  Holds(Remembered(R, s, t), After(a, s), t)
<1> DEFINE new == [stream |-> s, at |-> t]
           all == Without(R, s, t) \cup {new}
           b == After(a, s)
<1>1. /\ b.later = a.later \cup {s} /\ b.at = a.at /\ ReceiptOf(b) = ReceiptOf(a)
      /\ IsFiniteSet(b.later)
  <2>1. IsFiniteSet(a.later \cup {s})
    BY FS_AddElement
  <2> QED
    BY <2>1, AckChanges
<1>2. Holds(R, b, t)
  BY HoldsUnwritten
<1>3. all \in SUBSET Receipt /\ IsFiniteSet(all) /\ Loadable(all)
  <2>1. Without(R, s, t) \in SUBSET R /\ \A r \in Without(R, s, t) : r.stream # s
    BY DEF Without
  <2>2. IsFiniteSet(Without(R, s, t))
    BY <2>1, FS_Subset DEF IsList
  <2>3. IsFiniteSet(all)
    BY <2>2, FS_AddElement
  <2> QED
    BY <2>1, <2>3 DEF IsList, Loadable, Receipt
<1>4. \A r \in all : r.at > b.at => r.stream \in b.later
  BY <1>1, <1>2 DEF Holds, Without
<1>5. ASSUME Counts(b, t) PROVE ReceiptOf(b) \in Newest(all)
  <2>1. ReceiptOf(a) \in R
    BY <1>1, <1>2, <1>5 DEF Holds
  <2>2. ReceiptOf(a).stream = a.stream /\ ReceiptOf(a).at = a.at
    BY DEF ReceiptOf
  <2>3. ReceiptOf(a) \in all
    BY <1>1, <1>5, <2>1, <2>2 DEF Without, Fresh, Counts
  <2>4. Cardinality(b.later) < MaxReceipts
    BY <1>5 DEF Counts
  <2> HIDE DEF all, b
  <2> QED
    BY <1>1, <1>3, <1>4, <2>2, <2>3, <2>4, NewestKeepsRecent
<1>6. Newest(all) \in SUBSET all /\ Remembered(R, s, t) = Newest(all)
  BY DEF Newest, Remembered
<1> QED
  BY <1>4, <1>5, <1>6 DEF Holds

\* forgetStoppedTargetLocked, which removes only the receipt of its stream and
\* receipts that are too old.
LEMMA HoldsForgotten ==
  ASSUME NEW R, NEW a \in Ack, NEW s \in Streams, NEW t \in Nat, Holds(R, a, t)
  PROVE  /\ Holds(R, Again(a, s), t)
         /\ Holds(Without(R, s, t), Again(a, s), t)
         /\ Holds(Forgotten(R, s, t), Again(a, s), t)
<1> DEFINE b == Again(a, s)
<1>1. /\ b.later = a.later /\ b.at = a.at /\ ReceiptOf(b) = ReceiptOf(a)
      /\ b.rearmed <=> a.rearmed \/ a.stream = s
  BY AckChanges
<1>2. Counts(b, t) => Counts(a, t) /\ a.stream # s
  BY <1>1 DEF Counts
<1> HIDE DEF b
<1>3. Holds(R, b, t)
  BY <1>1, <1>2 DEF Holds
<1>4. Holds(Without(R, s, t), b, t)
  <2>1. ASSUME Counts(b, t) PROVE ReceiptOf(b) \in Without(R, s, t)
    BY <1>1, <1>2, <2>1 DEF Holds, Without, Fresh, Counts, ReceiptOf
  <2>2. Without(R, s, t) \in SUBSET R
    BY DEF Without
  <2> QED
    BY <1>3, <2>1, <2>2 DEF Holds
<1> QED
  BY <1>3, <1>4 DEF Forgotten, b

\* loadStoppedTargetReceipts keeps the receipts of the stops that count.
LEMMA HoldsLoaded ==
  ASSUME NEW R, IsList(R), NEW a \in Ack, NEW t \in Nat, IsFiniteSet(a.later), Holds(R, a, t)
  PROVE  Holds(Loaded(R, t), a, t)
<1> DEFINE fresh == {r \in R : Fresh(r, t)}
<1>1. fresh \in SUBSET Receipt /\ IsFiniteSet(fresh) /\ Loadable(fresh)
  BY FS_Subset DEF IsList, Loadable
<1>2. \A r \in fresh : r.at > a.at => r.stream \in a.later
  BY DEF Holds
<1>3. ASSUME Counts(a, t) PROVE ReceiptOf(a) \in Newest(fresh)
  <2>1. ReceiptOf(a) \in fresh /\ ReceiptOf(a).at = a.at
    BY <1>3 DEF Holds, Fresh, Counts, ReceiptOf
  <2>2. Cardinality(a.later) < MaxReceipts
    BY <1>3 DEF Counts
  <2> HIDE DEF fresh
  <2> QED
    BY <1>1, <1>2, <2>1, <2>2, NewestKeepsRecent
<1>4. Newest(fresh) \in SUBSET fresh /\ Loaded(R, t) = Newest(fresh)
  BY DEF Newest, Loaded
<1> QED
  BY <1>2, <1>3, <1>4 DEF Holds

\* The history of a step that writes a receipt for s, and of one that starts s.
LEMMA AckSteps ==
  ASSUME NEW s
  PROVE  /\ LaterStop(s) = {After(a, s) : a \in {b \in acked : b.stream # s}}
         /\ Rearmed(s) = {Again(a, s) : a \in acked}
  BY DEF LaterStop, Rearmed, After, Again

\* A receipt written for s, in memory or not, leaves the stops of other streams
\* their receipts; t is the clock afterwards.
LEMMA AckLater ==
  ASSUME Inv, ReceiptInv, AckInv, NEW s \in Streams, NEW a \in LaterStop(s),
         NEW t \in Nat, clock <= t
  PROVE  /\ a \in Ack /\ a.at < clock /\ IsFiniteSet(a.later) /\ a.stream # s
         /\ ~a.rearmed => current # a.stream
         /\ Holds(Remembered(receipts, s, clock), a, t)
         /\ Holds(receipts, a, t) /\ Holds(disk, a, t)
<1>1. PICK b \in acked : b.stream # s /\ a = After(b, s)
  BY AckSteps
<1>2. /\ b \in Ack /\ b.at < clock /\ IsFiniteSet(b.later)
      /\ ~b.rearmed => current # b.stream
      /\ Holds(receipts, b, clock) /\ Holds(disk, b, clock) /\ clock \in Nat
  BY DEF AckInv, Inv, TypeOK, ReceiptTypes
<1>3. /\ a \in Ack /\ a.at = b.at /\ a.later = b.later \cup {s} /\ a.stream = b.stream
      /\ a.rearmed = b.rearmed
  BY <1>1, <1>2, AckChanges
<1>4. IsFiniteSet(a.later)
  BY <1>2, <1>3, FS_AddElement
<1>5. /\ Holds(Remembered(receipts, s, clock), a, clock)
      /\ Holds(receipts, a, clock) /\ Holds(disk, a, clock)
  BY <1>1, <1>2, HoldsRemembered, HoldsUnwritten DEF ReceiptInv
<1> QED
  BY <1>1, <1>2, <1>3, <1>4, <1>5, HoldsOn

\* A start of s leaves the stops of other streams their receipts.
LEMMA AckAgain ==
  ASSUME Inv, AckInv, NEW s \in Streams, NEW a \in Rearmed(s)
  PROVE  /\ a.at < clock /\ IsFiniteSet(a.later)
         /\ ~a.rearmed => current # a.stream /\ a.stream # s
         /\ Holds(receipts, a, clock) /\ Holds(disk, a, clock)
         /\ Holds(Without(receipts, s, clock), a, clock)
         /\ Holds(Forgotten(receipts, s, clock), a, clock)
<1>1. PICK b \in acked : a = Again(b, s)
  BY AckSteps
<1>2. /\ b \in Ack /\ b.at < clock /\ IsFiniteSet(b.later)
      /\ ~b.rearmed => current # b.stream
      /\ Holds(receipts, b, clock) /\ Holds(disk, b, clock) /\ clock \in Nat
  BY DEF AckInv, Inv, TypeOK, ReceiptTypes
<1>3. /\ a.at = b.at /\ a.later = b.later /\ a.stream = b.stream
      /\ a.rearmed <=> b.rearmed \/ b.stream = s
  BY <1>1, <1>2, AckChanges
<1> QED
  BY <1>1, <1>2, <1>3, HoldsForgotten

\* Every step keeps the acknowledged stops in memory and in the file.
LEMMA AckInvStep ==
  ASSUME Inv, ReceiptInv, AckInv, [Next]_vars
  PROVE  AckInv'
<1>1. /\ clock \in Nat /\ acked \in SUBSET Ack
      /\ \A a \in Ack : a.stream \in Streams /\ a.at \in Nat
  BY DEF Inv, TypeOK, ReceiptTypes, Ack
<1>2. CASE StartReceiptFails
  <2>1. op.stream \in Streams
    BY <1>2 DEF Inv, SessionInv, StartReceiptFails
  <2>2. /\ disk' \in {disk, Without(receipts, op.stream, clock)}
        /\ acked' = Rearmed(op.stream) /\ UNCHANGED <<current, receipts, clock>>
    BY <1>2 DEF StartReceiptFails, PersistErrors, jobVars
  <2> SUFFICES ASSUME NEW a \in Rearmed(op.stream)
               PROVE  /\ a.at < clock /\ IsFiniteSet(a.later)
                      /\ ~a.rearmed => current # a.stream
                      /\ Holds(receipts, a, clock) /\ Holds(disk', a, clock)
    BY <2>2 DEF AckInv
  <2> QED
    BY <2>1, <2>2, AckAgain
<1>3. CASE StartUnsupported \/ StartCommit
  <2> DEFINE s == op.stream
  <2>1. s \in Streams
    BY <1>3 DEF Inv, SessionInv, StartUnsupported, StartCommit
  <2>2. /\ receipts' = Forgotten(receipts, s, clock)
        /\ disk' \in {disk, Forgotten(receipts, s, clock)}
        /\ current' \in {current, s} /\ clock' = clock
        /\ acked' \in {Rearmed(s), Restarted(s)}
    BY <1>3 DEF StartUnsupported, StartCommit, ForgetReceipt
  <2>3. ASSUME NEW a \in Restarted(s) PROVE a \in Rearmed(s)
    <3>1. a \in Ack /\ a \in acked /\ a.stream # s
      BY <1>1 DEF Restarted
    <3>2. Again(a, s) = a
      BY <3>1 DEF Again, Ack
    <3> QED
      BY <3>1, <3>2, AckSteps
  <2> SUFFICES ASSUME NEW a \in Rearmed(s)
               PROVE  /\ a.at < clock /\ IsFiniteSet(a.later)
                      /\ ~a.rearmed => current' # a.stream
                      /\ Holds(receipts', a, clock) /\ Holds(disk', a, clock)
    BY <2>2, <2>3 DEF AckInv
  <2> QED
    BY <2>1, <2>2, AckAgain
<1>4. CASE StartVideo
  BY <1>4 DEF AckInv, StartVideo, Restarted, jobVars
<1>5. CASE StopReceiptFails
  <2>1. op.stream \in Streams
    BY <1>5 DEF Inv, TypeOK, JobTypes, JobInv, StopReceiptFails, StopSteps
  <2>2. /\ disk' \in {disk, Remembered(receipts, op.stream, clock)}
        /\ acked' = LaterStop(op.stream) /\ UNCHANGED <<current, receipts, clock>>
    BY <1>5 DEF StopReceiptFails, PersistErrors, jobVars
  <2> SUFFICES ASSUME NEW a \in LaterStop(op.stream)
               PROVE  /\ a.at < clock /\ IsFiniteSet(a.later)
                      /\ ~a.rearmed => current # a.stream
                      /\ Holds(receipts, a, clock) /\ Holds(disk', a, clock)
    BY <2>2 DEF AckInv
  <2> QED
    BY <1>1, <2>1, <2>2, AckLater
<1>6. CASE StopReceipt
  <2> DEFINE s == op.stream
             all == Remembered(receipts, s, clock)
             new == [stream |-> s, at |-> clock, later |-> {}, rearmed |-> FALSE]
  <2>1. s \in Streams
    BY <1>6 DEF Inv, TypeOK, JobTypes, JobInv, StopReceipt, StopSteps
  <2>2. /\ receipts' = all /\ disk' = all /\ clock' = clock + 1 /\ current' = NoStream
        /\ acked' = LaterStop(s) \cup {new}
    BY <1>6 DEF StopReceipt
  <2>3. ASSUME NEW a \in LaterStop(s)
        PROVE  /\ a.at < clock + 1 /\ IsFiniteSet(a.later) /\ a.stream # NoStream
               /\ Holds(all, a, clock + 1)
    <3>1. a \in Ack /\ a.at < clock /\ IsFiniteSet(a.later) /\ Holds(all, a, clock + 1)
      BY <1>1, <2>1, AckLater
    <3> QED
      BY <1>1, <3>1, StreamsAssumption
  <2>4. Holds(all, new, clock + 1)
    <3>1. /\ IsList(all) /\ \A r \in all : r.at <= clock
          /\ [stream |-> s, at |-> clock] \in all
      BY <1>1, <2>1, RememberedList DEF ReceiptInv
    <3>2. \A r \in all : r.at \in Nat
      BY <3>1 DEF IsList, Receipt
    <3>3. new.at = clock /\ ReceiptOf(new) = [stream |-> s, at |-> clock]
      BY DEF ReceiptOf
    <3> HIDE DEF all, new
    <3> QED
      BY <1>1, <3>1, <3>2, <3>3 DEF Holds
  <2>5. new.at < clock + 1 /\ IsFiniteSet(new.later) /\ new.stream # NoStream
    BY <1>1, <2>1, FS_EmptySet, StreamsAssumption
  <2> HIDE DEF all, new, s
  <2> QED
    BY <2>2, <2>3, <2>4, <2>5 DEF AckInv
<1>7. ASSUME NEW f \in videoFailures, HandleVideoOutputFailure(f)
      PROVE  AckInv'
  <2> DEFINE s == f.stream
             all == Remembered(receipts, s, clock)
  <2>1. s \in Streams
    BY <1>7 DEF Inv, TypeOK, JobTypes, VideoInv, HandleVideoOutputFailure, FailureMatches
  <2>2. /\ receipts' = all /\ disk' \in {disk, all} /\ clock' = clock + 1
        /\ current' = NoStream /\ acked' = LaterStop(s)
    BY <1>7 DEF HandleVideoOutputFailure, RememberInMemoryAtLeast, PersistErrors
  <2>3. ASSUME NEW a \in LaterStop(s)
        PROVE  /\ a.at < clock + 1 /\ IsFiniteSet(a.later) /\ a.stream # NoStream
               /\ Holds(all, a, clock + 1) /\ Holds(disk, a, clock + 1)
    <3>1. /\ a \in Ack /\ a.at < clock /\ IsFiniteSet(a.later)
          /\ Holds(all, a, clock + 1) /\ Holds(disk, a, clock + 1)
      BY <1>1, <2>1, AckLater
    <3> QED
      BY <1>1, <3>1, StreamsAssumption
  <2> HIDE DEF all, s
  <2> QED
    BY <2>2, <2>3 DEF AckInv
<1>8. CASE Tick \/ CrashAndRestart
  <2>1. /\ clock' = clock + 1 /\ acked' = acked /\ disk' = disk
        /\ receipts' \in {receipts, Loaded(disk, clock + 1)}
        /\ current' \in {current, NoStream}
    BY <1>8 DEF Tick, CrashAndRestart, jobVars
  <2> SUFFICES ASSUME NEW a \in acked
               PROVE  /\ a.at < clock + 1 /\ IsFiniteSet(a.later)
                      /\ ~a.rearmed => current' # a.stream
                      /\ Holds(receipts', a, clock + 1) /\ Holds(disk, a, clock + 1)
    BY <2>1 DEF AckInv
  <2>2. /\ a \in Ack /\ a.at < clock /\ IsFiniteSet(a.later)
        /\ ~a.rearmed => current # a.stream
        /\ Holds(receipts, a, clock) /\ Holds(disk, a, clock)
    BY <1>1 DEF AckInv
  <2>3. Holds(receipts, a, clock + 1) /\ Holds(disk, a, clock + 1)
    BY <1>1, <2>2, HoldsOn
  <2>4. Holds(Loaded(disk, clock + 1), a, clock + 1)
    BY <1>1, <2>2, <2>3, HoldsLoaded DEF ReceiptInv
  <2> QED
    BY <1>1, <2>1, <2>2, <2>3, <2>4, StreamsAssumption
<1>9. CASE UNCHANGED receiptVars /\ current' \in {current, NoStream}
  BY <1>1, <1>9, StreamsAssumption DEF AckInv, receiptVars
<1> QED
  BY <1>2, <1>3, <1>4, <1>5, <1>6, <1>7, <1>8, <1>9
  DEF Next, OperationStep, StartStep, StopStep, UpdateStep, vars, jobVars,
      StartPrepareFails, StartPrepare, StartRefused, StartVideoFails, StartUndo,
      StopDelivery, StopOutputs, UpdatePrepareFails, UpdatePrepare, UpdateRefused, UpdateSwap,
      UpdateCleanup, FailureCleanup, StartBegin, StopBegin, UpdateBegin,
      StaleVideoOutputFailure, ApplyRuntimeConfig, AudioConnection, VideoOutputDies

\* The history, the lists and the active job agree in every reachable state.
THEOREM AckInvariance == Spec => []AckInv
<1>1. Init => AckInv
  BY DEF Init, AckInv
<1> QED
  BY <1>1, Invariance, ReceiptInvariance, AckInvStep, PTL DEF Spec

\* A stop that was answered with success is answered with already_stopped, also
\* after a crash at any instant, until its stream is started again, its receipt
\* is too old, or maxStoppedStreamTargets other streams were stopped since.
THEOREM AckedStopsDurable == Spec => []AckedStopIsDurable
<1>1. ASSUME Inv, ReceiptInv, AckInv
      PROVE  AckedStopIsDurable
  <2> SUFFICES ASSUME NEW a \in acked, Counts(a, clock)
               PROVE  /\ StopAnswersAlreadyStopped(a.stream)
                      /\ WasStopped(Loaded(disk, clock), a.stream, clock)
    BY DEF AckedStopIsDurable, Counts
  <2>1. /\ a \in Ack /\ clock \in Nat /\ IsFiniteSet(a.later) /\ current # a.stream
        /\ Holds(receipts, a, clock) /\ Holds(disk, a, clock)
    BY <1>1 DEF Inv, TypeOK, ReceiptTypes, AckInv, Counts
  <2>2. Holds(Loaded(disk, clock), a, clock)
    BY <1>1, <2>1, HoldsLoaded DEF ReceiptInv
  <2>3. ASSUME NEW R, ReceiptOf(a) \in R PROVE WasStopped(R, a.stream, clock)
    BY <2>3 DEF WasStopped, Fresh, Counts, ReceiptOf
  <2> QED
    BY <2>1, <2>2, <2>3 DEF Holds, StopAnswersAlreadyStopped
<1> QED
  BY <1>1, Invariance, ReceiptInvariance, AckInvariance, PTL
=============================================================================
