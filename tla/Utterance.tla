------------------------------ MODULE Utterance ------------------------------
(***************************************************************************)
(* Transcripts of one speaker (internal/deepgram/transcript.go and the      *)
(* publish loop): provider results are queued by the read loop, assembled   *)
(* into utterances and handed to the session's handler after a delay.       *)
(*                                                                          *)
(* The speaker's connections follow each other: the provider drops one, or  *)
(* it is closed for idleness, and the next packet dials another.  The id of *)
(* an utterance is "<user>-<ssrc>-<utteranceSeq>"; user and source are      *)
(* those of the speaker, so only the sequence number is kept.  Texts are    *)
(* members of a small set, times and confidence are left out.               *)
(***************************************************************************)
EXTENDS Naturals, Sequences

CONSTANTS
  Texts, NoText,
  InterimResults,  \* config.InterimResults
  LocalFinalize,   \* config.LocalFinalize > 0
  QueueLength,     \* capacity of c.results
  MaxSeq, MaxLinks, MaxRevision  \* bounds: utterances of a connection, connections, revisions

ASSUME UtteranceAssumption ==
  /\ NoText \notin Texts /\ InterimResults \in BOOLEAN /\ LocalFinalize \in BOOLEAN
  /\ QueueLength \in Nat \ {0} /\ MaxSeq \in Nat /\ MaxLinks \in Nat /\ MaxRevision \in Nat

VARIABLES
  current,  \* number of the speaker's connection; up: it has not ended
  utter,    \* utteranceSeq, utteranceID (0: none), utteranceText, utteranceRevision
  results,  \* c.results
  waiting   \* per connection: the transcript publishTranscript holds back (id 0: none)

speechVars == <<current, utter, results, waiting>>

NoUtter == [seq |-> 0, id |-> 0, text |-> NoText, revision |-> 0]
NoTranscript == [link |-> 0, id |-> 0, revision |-> 0, final |-> FALSE]

Links == 1..MaxLinks

SpeechInit ==
  /\ current = [link |-> 0, up |-> FALSE]
  /\ utter = NoUtter /\ results = <<>>
  /\ waiting = [l \in Links |-> NoTranscript]

\* newSpeakerConnection
Connect ==
  /\ ~current.up /\ current.link < MaxLinks
  /\ current' = [link |-> current.link + 1, up |-> TRUE]
  /\ utter' = NoUtter /\ results' = <<>>
  /\ UNCHANGED waiting

\* The context of the connection is done: what is queued is lost, what is held
\* back may be.
Disconnect ==
  /\ current.up
  /\ current' = [current EXCEPT !.up = FALSE]
  /\ UNCHANGED <<utter, results, waiting>>

\* parseMessage: empty texts and unwanted interims are ignored.
Result == [end : {FALSE}, text : Texts, final : IF InterimResults THEN BOOLEAN ELSE {TRUE}]
          \cup [end : {TRUE}, text : {NoText}, final : {FALSE}]

\* readLoop; it waits while the queue is full.
Receive(result) ==
  /\ current.up /\ Len(results) < QueueLength
  /\ results' = Append(results, result)
  /\ UNCHANGED <<current, utter, waiting>>

\* resetUtteranceLocked
ResetUtterance(u) == [u EXCEPT !.id = 0, !.text = NoText, !.revision = 0]

\* Mutant: a final transcript repeats the revision of the last interim.
FinalRevisionAgain(u) == u.revision

\* buildTranscriptLocked
FinalRevision(u) == u.revision + 1

Transcript(u, revision, final) ==
  [link |-> current.link, id |-> u.id, revision |-> revision, final |-> final]

\* publishLoop is free, and the connection has not ended.
Ready == current.up /\ waiting[current.link] = NoTranscript

HoldBack(t) == waiting' = [waiting EXCEPT ![current.link] = t]

Finalize(u) ==
  /\ HoldBack(Transcript(u, FinalRevision(u), TRUE))
  /\ utter' = ResetUtterance(u)

\* applyResult for a result with a text: the utterance it belongs to.
Begun(text) ==
  IF utter.id # 0 THEN [utter EXCEPT !.text = text]
  ELSE [utter EXCEPT !.seq = @ + 1, !.id = utter.seq + 1, !.text = text]

\* applyResult
ApplyResult ==
  /\ Ready /\ results # <<>>
  /\ utter.seq < MaxSeq \/ utter.id # 0
  /\ utter.revision + 1 < MaxRevision
  /\ results' = Tail(results)
  /\ LET r == Head(results) u == Begun(r.text) IN
     IF r.end
     THEN IF utter.text = NoText THEN UNCHANGED <<utter, waiting>> ELSE Finalize(utter)
     ELSE IF r.final THEN Finalize(u)
     ELSE IF r.text = utter.text THEN utter' = u /\ UNCHANGED waiting
     ELSE /\ utter' = [u EXCEPT !.revision = @ + 1]
          /\ HoldBack(Transcript(u, u.revision + 1, FALSE))
  /\ UNCHANGED current

\* localFinalizeDue, after enough silence.
FinalizeLocally ==
  /\ LocalFinalize /\ Ready /\ utter.text # NoText
  /\ Finalize(utter)
  /\ UNCHANGED <<current, results>>

\* publishTranscript calls the handler when the delay is over, or gives up
\* because the connection ended meanwhile.
Publish(l) ==
  /\ waiting[l] # NoTranscript
  /\ waiting' = [waiting EXCEPT ![l] = NoTranscript]
  /\ UNCHANGED <<current, utter, results>>

GiveUp(l) ==
  /\ current # [link |-> l, up |-> TRUE]
  /\ Publish(l)

SpeechNext ==
  \/ Connect \/ Disconnect \/ ApplyResult \/ FinalizeLocally
  \/ \E r \in Result : Receive(r)
  \/ \E l \in Links : GiveUp(l)
=============================================================================
