--------------------------- MODULE CaptionPipeline ---------------------------
(***************************************************************************)
(* The transcripts of one speaker on their way into the scene: Utterance    *)
(* composed with SceneState.  The handler is synchronous: a published       *)
(* transcript is applied to the scene before the publish loop goes on       *)
(* (captionTranscriptHandler, publishWithGenerations; internal/jobs).       *)
(***************************************************************************)
EXTENDS SceneState, Utterance

CONSTANTS TheStream, TheSpeaker  \* of the one job

\* What is transcribed is what the scene takes.
ASSUME PipelineAssumption ==
  /\ TheStream \in Streams /\ TheSpeaker \in Users
  /\ 1..MaxSeq \subseteq Utterances \ {NoUtterance} /\ 1..MaxRevision \subseteq Revisions

VARIABLES
  shown,    \* history: connection that made the caption of each utterance id
  last      \* history: the transcript that was published last

pipelineVars == <<vars, speechVars, shown, last>>

PipelineInit ==
  /\ Init /\ SpeechInit
  /\ shown = [id \in Utterances |-> 0]
  /\ last = NoTranscript

\* An event of this time is dropped: the scene takes it for a repetition.
Dropped(t, now) ==
  \E i \in OfUtterance(scene, t.id) :
    /\ scene.captions[i].expires > now
    /\ Repeats(scene.captions[i], t.revision, t.final)

\* The time of the event is the transcript's UpdatedAt, at which its result was
\* received: before the queue and the publish delay, so any time up to now.
Deliver(l, now) ==
  LET t == waiting[l] IN
  /\ Publish(l)
  /\ ApplyCaption(TheStream, generation, now, t.id, TheSpeaker, t.revision, t.final)
  /\ shown' = IF Dropped(t, now) THEN shown ELSE [shown EXCEPT ![t.id] = l]
  /\ last' = t

\* The job is over: the manager refuses the event.
DeliverRefused(l) ==
  /\ Publish(l)
  /\ stream # TheStream
  /\ last' = waiting[l]
  /\ UNCHANGED <<vars, shown>>

\* publishTranscript calls the handler.
Handed(l) == DeliverRefused(l) \/ \E now \in 0..clock : Deliver(l, now)

SceneNext == Reset(TheStream) \/ Clear \/ Snapshot \/ Tick

PipelineNext ==
  \/ \E l \in Links : Handed(l)
  \/ SpeechNext /\ UNCHANGED <<vars, shown, last>>
  \/ SceneNext /\ UNCHANGED <<speechVars, shown, last>>

PipelineSpec == PipelineInit /\ [][PipelineNext]_pipelineVars
-----------------------------------------------------------------------------
(* Properties.                                                             *)

Follows(t, before) ==
  \/ t.id > before.id
  \/ t.id = before.id /\ t.revision > before.revision /\ ~before.final

\* The transcripts of a connection are published in order: revisions of an
\* utterance grow, nothing follows its final one, nothing is published twice,
\* and later utterances have later ids, also when a local finalization
\* overtakes a provider result.
RevisionsGrow ==
  [][\A l \in Links : Handed(l) /\ last.link = l => Follows(waiting[l], last)]_pipelineVars

\* A transcript is never taken for a repetition of one of the same connection,
\* whatever the times of the two: where the scene shows an utterance of a
\* connection, it takes every later transcript of it.  (What another connection
\* showed under the same id is DroppedIsRepetition.)
NothingOfOneConnectionDropped ==
  [][\A l \in Links, now \in 0..clock :
       Deliver(l, now) /\ shown[waiting[l].id] = l => ~Dropped(waiting[l], now)]_pipelineVars

\* "Equal or unversioned final deliveries are duplicate state": what the scene
\* drops is a repetition of the utterance it shows.  Does not hold over a
\* reconnect, where utteranceSeq starts again and ids repeat.
DroppedIsRepetition ==
  [][\A l \in Links, now \in 0..clock :
       Deliver(l, now) /\ Dropped(waiting[l], now) => shown[waiting[l].id] = l]_pipelineVars
=============================================================================
