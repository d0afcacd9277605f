----------------------------- MODULE SceneState -----------------------------
(***************************************************************************)
(* The scene of a job (internal/scene/state.go): participants, chat,        *)
(* captions and the conversation, reduced from the events the manager       *)
(* applies and pruned by their age.  Every operation is one critical        *)
(* section of Scene.mu.                                                     *)
(*                                                                          *)
(* Texts, avatars and bot marks are left out; a name is "none" (empty or    *)
(* MIC), "id" (the user id) or "display".  Time is a small clock; an event  *)
(* carries its own time stamp, which may be older than the clock.           *)
(***************************************************************************)
EXTENDS Integers, Sequences, SequencesExt, FiniteSets

CONSTANTS
  Streams, NoStream,
  Users, NoUser,
  Lists,            \* participant lists: sequences of [user, name, speaking]
  Utterances, NoUtterance, Speakers, Revisions,  \* what captions carry
  Talkers,          \* users that active speaker events name (NoUser clears)
  Messages,         \* ids of chat messages
  Displays,         \* [maxItems, window, interimTTL, finalTTL, show] of the profiles
  MaxParticipants, MaxChat, MaxCaptions, MaxSeen, ChatTTL, SeenTTL,
  MaxGeneration, MaxTime, MaxLag  \* bounds: jobs, clock, age of an event

Names == {"none", "id", "display"}

\* The row of a speaker without an utterance id is "<user>:active", which is no
\* utterance id.
ASSUME SceneAssumption ==
  /\ NoStream \notin Streams /\ NoUser \notin Users
  /\ Speakers \subseteq Users \cup {NoUser} /\ Talkers \subseteq Users \cup {NoUser}
  /\ Lists \subseteq Seq([user : Users \cup {NoUser}, name : Names, speaking : BOOLEAN])
  /\ Revisions \subseteq Nat
  /\ \A u \in Utterances \ {NoUtterance} : u \notin Users \cup {NoUser}
  /\ \A n \in {MaxParticipants, MaxChat, MaxCaptions, MaxSeen, SeenTTL} : n \in Nat \ {0}
  /\ \A n \in {ChatTTL, MaxGeneration, MaxTime, MaxLag} : n \in Nat
  /\ \A d \in Displays : /\ d.maxItems \in Nat \ {0} /\ d.window \in Nat
                         /\ d.interimTTL \in Nat /\ d.finalTTL \in Nat
                         /\ d.show \in BOOLEAN

VARIABLES
  stream, generation,  \* streamID and generation
  display,             \* what ConfigureDisplay sets
  scene,               \* the reduced state
  clock

vars == <<stream, generation, display, scene, clock>>

\* resetStateLocked
EmptyScene ==
  [participants |-> <<>>, ids |-> <<>>, speaking |-> {},
   chat |-> <<>>, captions |-> <<>>, conversation |-> <<>>, seen |-> <<>>]

Init ==
  /\ stream = NoStream /\ generation = 0 /\ clock = 0
  /\ display \in Displays
  /\ scene = EmptyScene

\* Mutant: one too many is kept.
NewestAndOne(seq, n) == IF Len(seq) > n + 1 THEN SubSeq(seq, Len(seq) - n, Len(seq)) ELSE seq

Newest(seq, n) == IF Len(seq) > n THEN SubSeq(seq, Len(seq) - n + 1, Len(seq)) ELSE seq

First(seq, n) == IF Len(seq) > n THEN SubSeq(seq, 1, n) ELSE seq

\* The elements of seq at the places P, in their order.
Place(P, i) == CHOOSE k \in P : Cardinality({j \in P : j <= k}) = i
Only(seq, P) == [i \in 1..Cardinality(P) |-> seq[Place(P, i)]]

\* map[key] = value
With(map, key, value) ==
  [k \in DOMAIN map \cup {key} |-> IF k = key THEN value ELSE map[k]]
-----------------------------------------------------------------------------
(* pruneLocked.                                                            *)

Never == 0 - 1   \* ExpiresAt.IsZero()
Fresh(seq, now) == {i \in DOMAIN seq : seq[i].expires = Never \/ seq[i].expires > now}
Lasting(seq, now) == {i \in DOMAIN seq : seq[i].expires > now}

\* Ids that may stay: the oldest beyond the limit are forgotten, ties are
\* broken by the iteration order of a map.
Remembered(map, now) ==
  LET fresh == {id \in DOMAIN map : map[id] > now} IN
  IF Cardinality(fresh) <= MaxSeen THEN {fresh}
  ELSE {ids \in SUBSET fresh : /\ Cardinality(ids) = MaxSeen
                               /\ \A i \in ids, j \in fresh \ ids : map[j] <= map[i]}

\* The possible results of pruneLocked.
Pruned(s, now) ==
  {[s EXCEPT !.chat = Only(@, Fresh(@, now)),
             !.captions = Only(@, Lasting(@, now)),
             !.conversation = Only(@, Fresh(@, now)),
             !.seen = [id \in ids |-> @[id]]] : ids \in Remembered(s.seen, now)}
-----------------------------------------------------------------------------
(* Who speaks.                                                             *)

Known(s) == DOMAIN s.participants

\* uniqueVoiceSpeakerLocked
UniqueVoiceSpeaker(s) ==
  LET candidates == s.speaking \cap Known(s) IN
  IF Cardinality(candidates) = 1 THEN CHOOSE u \in candidates : TRUE
  ELSE IF candidates = {} /\ Len(s.ids) = 1 THEN s.ids[1] ELSE NoUser

Resolved(s, user) == IF user = NoUser THEN UniqueVoiceSpeaker(s) ELSE user

\* The name shown for a user: an unknown name, or the id, gives way to the
\* participant's.
NameOf(s, user, name) ==
  IF user \in Known(s) /\ name \in {"none", "id"} THEN s.participants[user].name ELSE name

\* A caption, and a row, once their speaker is known.
CaptionOf(s, c) ==
  LET u == Resolved(s, c.speaker) IN
  IF u \in Known(s) THEN [c EXCEPT !.speaker = u, !.name = NameOf(s, u, @)] ELSE c

RowOf(s, r) ==
  LET u == Resolved(s, r.author) IN
  IF r.kind = "voice" /\ u \in Known(s)
  THEN [r EXCEPT !.author = u, !.name = NameOf(s, u, @)] ELSE r

\* refreshVoiceSpeakerIdentityLocked
Refreshed(s) ==
  [s EXCEPT !.captions = [i \in DOMAIN @ |-> CaptionOf(s, @[i])],
            !.conversation = [i \in DOMAIN @ |-> RowOf(s, @[i])]]

\* The first items of each user that count, up to the limit.
Listed(list) ==
  First(Only(list, {i \in DOMAIN list : /\ list[i].user # NoUser
                                       /\ \A j \in 1..(i - 1) : list[j].user # list[i].user}),
        MaxParticipants)

\* applyParticipantsLocked
WithParticipants(s, list) ==
  LET kept == Listed(list)
      ids == [i \in DOMAIN kept |-> kept[i].user]
      item(u) == kept[CHOOSE i \in DOMAIN kept : kept[i].user = u]
  IN  Refreshed([s EXCEPT
        !.participants = [u \in ToSet(ids) |-> [name |-> item(u).name, speaking |-> item(u).speaking]],
        !.ids = ids,
        !.speaking = {u \in ToSet(ids) : item(u).speaking}])

\* Mutant: a speaker is added to the list whether he is on it or not.
NewSpeakerAlways(s, user, on) == on /\ Len(s.ids) < MaxParticipants

\* A speaker who is not on the list is added while there is room.
NewSpeaker(s, user, on) == user \notin Known(s) /\ on /\ Len(s.ids) < MaxParticipants

\* applyActiveSpeakerLocked for a user; name is that of an added participant.
\* (speaking without a user is refused.)
WithSpeaker(s, user, on, name) ==
  LET new == NewSpeaker(s, user, on)
      mark == [speaking |-> on,
               name |-> IF user \in Known(s) THEN s.participants[user].name ELSE name]
  IN  Refreshed([s EXCEPT
        !.speaking = IF on THEN @ \cup {user} ELSE @ \ {user},
        !.ids = IF new THEN Append(@, user) ELSE @,
        !.participants = IF new \/ user \in Known(s) THEN With(@, user, mark) ELSE @])

\* ... and the clear operation without a user.
WithoutSpeakers(s) ==
  [s EXCEPT !.speaking = {},
            !.participants = [u \in DOMAIN @ |-> [@[u] EXCEPT !.speaking = FALSE]]]
-----------------------------------------------------------------------------
(* The conversation.                                                       *)

\* Mutant: a row is added although its id is there.
PlaceOf(seq, id) == 0

\* Position of the row with this id, or 0.
RowAt(seq, id) ==
  IF \E i \in DOMAIN seq : seq[i].id = id THEN CHOOSE i \in DOMAIN seq : seq[i].id = id ELSE 0

\* insertConversationLocked: rows within the reorder window are placed by
\* creation time, later ones at the end.
Inserted(seq, row) ==
  LET at == RowAt(seq, row.id)
      after == {i \in DOMAIN seq : row.created < seq[i].created}
      place == IF seq = <<>> \/ row.created < seq[Len(seq)].created - display.window \/ after = {}
               THEN Len(seq) + 1 ELSE CHOOSE i \in after : \A j \in after : i <= j
  IN  IF at # 0 THEN [seq EXCEPT ![at] = row]
      ELSE Newest(InsertAt(seq, place, row), display.maxItems)

VoiceId(utterance, user) == <<"voice", IF utterance = NoUtterance THEN user ELSE utterance>>

\* upsertConversationVoiceLocked
WithVoice(seq, c, now) ==
  IF ~display.show THEN seq
  ELSE Inserted(seq, [id |-> VoiceId(c.utterance, c.speaker), kind |-> "voice",
                      author |-> c.speaker, name |-> c.name, final |-> c.final,
                      revision |-> c.revision, created |-> now, expires |-> c.expires])

\* removeConversationVoiceLocked
WithoutVoice(seq, utterance, user) ==
  LET gone(r) == /\ r.kind = "voice"
                 /\ IF utterance # NoUtterance THEN r.id = VoiceId(utterance, user)
                    ELSE ~r.final /\ r.author = user
  IN  Only(seq, {i \in DOMAIN seq : ~gone(seq[i])})

\* applyChatLocked
WithMessage(s, id, created, now) ==
  LET expires == IF ChatTTL > 0 THEN now + ChatTTL ELSE Never IN
  IF id \in DOMAIN s.seen THEN s
  ELSE [s EXCEPT
         !.chat = Newest(Append(@, [id |-> id, expires |-> expires]), MaxChat),
         !.seen = With(@, id, now + SeenTTL),
         !.conversation = Inserted(@, [id |-> <<"chat", id>>, kind |-> "chat", author |-> NoUser,
                                       name |-> "none", final |-> FALSE, revision |-> 0,
                                       created |-> created, expires |-> expires])]
-----------------------------------------------------------------------------
(* applyCaptionLocked.                                                     *)

OfUtterance(s, u) == {i \in DOMAIN s.captions : u # NoUtterance /\ s.captions[i].utterance = u}

\* Mutant: a repeated final delivery is let through.
RepeatsUnlessFinal(old, revision, final) ==
  (old.final /\ ~final) \/ (revision > 0 /\ old.revision > revision)

\* Mutant: the next revision counts as seen.
RepeatsNext(old, revision, final) ==
  (old.final /\ ~final) \/ (revision > 0 /\ old.revision + 1 >= revision)

\* A late interim, an older revision, or a final that was seen.
Repeats(old, revision, final) ==
  \/ old.final /\ ~final
  \/ revision > 0 /\ old.revision > revision
  \/ final /\ old.final /\ (revision = 0 \/ old.revision >= revision)

\* Mutant: only interim captions give way.
InterimReplacedBy(c, caption) ==
  ~caption.final /\ (caption.utterance = c.utterance \/ caption.speaker = c.speaker)

\* Captions that a final one replaces.
ReplacedBy(c, caption) ==
  IF c.utterance # NoUtterance THEN caption.utterance = c.utterance
  ELSE ~caption.final /\ caption.speaker = c.speaker

WithCaption(s, utterance, user, revision, final, now) ==
  LET speaker == Resolved(s, user)
      shown == NameOf(s, speaker, "none")
      same == OfUtterance(s, utterance)
      at == CHOOSE i \in same : \A j \in same : j <= i
      c == [utterance |-> utterance, revision |-> revision, speaker |-> speaker,
            name |-> IF shown = "none" /\ speaker # NoUser THEN "id" ELSE shown, final |-> final,
            expires |-> now + (IF final THEN display.finalTTL ELSE display.interimTTL)]
  IN  IF same # {} /\ Repeats(s.captions[at], revision, final) THEN s
      ELSE IF final
      THEN [s EXCEPT
             !.captions = Newest(Append(Only(@, {i \in DOMAIN @ : ~ReplacedBy(c, @[i])}), c), MaxCaptions),
             !.conversation = WithVoice(WithoutVoice(@, utterance, speaker), c, now)]
      ELSE [s EXCEPT
             !.captions = IF same # {} THEN [@ EXCEPT ![at] = c] ELSE Newest(Append(@, c), MaxCaptions),
             !.conversation = WithVoice(@, c, now)]
-----------------------------------------------------------------------------
(* Operations.                                                             *)

Reset(st) ==
  /\ generation < MaxGeneration
  /\ stream' = st /\ generation' = generation + 1
  /\ scene' = EmptyScene
  /\ UNCHANGED <<display, clock>>

\* Clear(""), or of the stream that is shown.
Clear ==
  /\ stream # NoStream
  /\ stream' = NoStream
  /\ scene' = EmptyScene
  /\ UNCHANGED <<generation, display, clock>>

Close ==
  /\ stream' = NoStream /\ generation' = 0
  /\ scene' = EmptyScene
  /\ UNCHANGED <<display, clock>>

ConfigureDisplay(d) ==
  /\ display' = d
  /\ scene' = [scene EXCEPT !.conversation = Newest(@, d.maxItems)]
  /\ UNCHANGED <<stream, generation, clock>>

\* Apply: the event is of the stream that is shown and of generation g (0: it
\* names none); now is its time stamp, and results what may become of the scene
\* once it is pruned.
Applied(st, g, now, results) ==
  /\ stream # NoStream /\ st = stream /\ g \in {0, generation}
  /\ now \in (clock - MaxLag)..clock /\ now >= 0
  /\ scene' \in results
  /\ UNCHANGED <<stream, generation, display, clock>>

ApplyParticipants(st, g, now, list) ==
  Applied(st, g, now, {WithParticipants(s, list) : s \in Pruned(scene, now)})

ApplyActiveSpeaker(st, g, now, user, on, name) ==
  Applied(st, g, now, {IF user # NoUser THEN WithSpeaker(s, user, on, name)
                       ELSE IF on THEN s ELSE WithoutSpeakers(s) : s \in Pruned(scene, now)})

ApplyChat(st, g, now, id, created) ==
  Applied(st, g, now, {WithMessage(s, id, created, now) : s \in Pruned(scene, now)})

ApplyCaption(st, g, now, utterance, user, revision, final) ==
  Applied(st, g, now,
          {WithCaption(s, utterance, user, revision, final, now) : s \in Pruned(scene, now)})

\* Snapshot of the renderer, and overlay.current_time.
Snapshot ==
  /\ scene' \in Pruned(scene, clock)
  /\ UNCHANGED <<stream, generation, display, clock>>

Tick ==
  /\ clock < MaxTime
  /\ clock' = clock + 1
  /\ UNCHANGED <<stream, generation, display, scene>>

Next ==
  \/ \E st \in Streams : Reset(st)
  \/ Clear \/ Close \/ Snapshot \/ Tick
  \/ \E d \in Displays : ConfigureDisplay(d)
  \/ \E st \in Streams, g \in 0..MaxGeneration, now \in 0..clock :
       \/ \E list \in Lists : ApplyParticipants(st, g, now, list)
       \/ \E user \in Talkers, on \in BOOLEAN : ApplyActiveSpeaker(st, g, now, user, on, "id")
       \/ \E id \in Messages, created \in 0..now : ApplyChat(st, g, now, id, created)
       \/ \E u \in Utterances, user \in Speakers, revision \in Revisions, final \in BOOLEAN :
            ApplyCaption(st, g, now, u, user, revision, final)

Spec == Init /\ [][Next]_vars
-----------------------------------------------------------------------------
(* Properties.                                                             *)

Participant == [name : Names, speaking : BOOLEAN]
Message == [id : Messages, expires : Int]
Caption == [utterance : Utterances, revision : Revisions,
            speaker : Users \cup {NoUser}, name : Names, final : BOOLEAN, expires : Int]
Row == [id : ({"voice"} \X (Utterances \cup Users \cup {NoUser})) \cup ({"chat"} \X Messages),
        kind : {"voice", "chat"}, author : Users \cup {NoUser}, name : Names, final : BOOLEAN,
        revision : Revisions \cup {0}, created : Int, expires : Int]

\* Types, and the limits of every list between any two operations.
TypeOK ==
  /\ stream \in Streams \cup {NoStream} /\ generation \in 0..MaxGeneration
  /\ display \in Displays /\ clock \in 0..MaxTime
  /\ scene.captions \in Seq(Caption) /\ Len(scene.captions) <= MaxCaptions
  /\ scene.chat \in Seq(Message) /\ Len(scene.chat) <= MaxChat
  /\ scene.conversation \in Seq(Row) /\ Len(scene.conversation) <= display.maxItems
  /\ scene.seen \in [DOMAIN scene.seen -> Int]
  /\ DOMAIN scene.seen \subseteq Messages /\ Cardinality(DOMAIN scene.seen) <= MaxSeen + 1
  /\ scene.participants \in [DOMAIN scene.participants -> Participant]
  /\ scene.speaking \subseteq Users
  /\ scene.ids \in Seq(Users) /\ Len(scene.ids) <= MaxParticipants

\* Participants are listed once each, whatever mix of full lists and single
\* speaker events arrives.
ParticipantsListed ==
  /\ ToSet(scene.ids) = DOMAIN scene.participants
  /\ Len(scene.ids) = Cardinality(DOMAIN scene.participants)

\* No row is shown twice.
RowsUnique ==
  \A i, j \in DOMAIN scene.conversation :
    scene.conversation[i].id = scene.conversation[j].id => i = j

\* No utterance has two captions, and if it also has a row in the
\* conversation both show the same revision of the same speaker (in profiles
\* that show voice transcripts).
CaptionsAgree ==
  (\A d \in Displays : d.show) =>
  \A i \in DOMAIN scene.captions : LET c == scene.captions[i] IN c.utterance # NoUtterance =>
    /\ OfUtterance(scene, c.utterance) = {i}
    /\ \A r \in ToSet(scene.conversation) : r.id = VoiceId(c.utterance, c.speaker) =>
         /\ r.final = c.final /\ r.revision = c.revision
         /\ r.author = c.speaker /\ r.name = c.name /\ r.expires = c.expires

\* A final caption that is shown does not lose its place to a repetition: only
\* a higher revision of the utterance changes it while it lasts.
FinalCaptionStays ==
  [][\A c \in ToSet(scene.captions), d \in ToSet(scene'.captions) :
       /\ c.utterance # NoUtterance /\ c.utterance = d.utterance
       /\ c.final /\ c.expires > clock /\ stream' = stream /\ generation' = generation
       => d.final /\ d.revision >= c.revision
          /\ (d.revision = c.revision => d.expires = c.expires)]_vars

\* "A late interim must never reopen a durable final utterance": a final row
\* of the conversation stays final while it lasts.  Does not hold once other
\* captions pushed its caption out of the caption list.
FinalRowStays ==
  [][\A r \in ToSet(scene.conversation), q \in ToSet(scene'.conversation) :
       /\ r.id = q.id /\ r.kind = "voice" /\ r.id[2] \in Utterances \ {NoUtterance}
       /\ r.final /\ r.expires > clock /\ stream' = stream /\ generation' = generation
       => q.final]_vars

\* Types and limits, and nothing is listed twice: no row of the conversation
\* and no participant (insertConversationLocked, applyActiveSpeakerLocked).
ListsInv == TypeOK /\ RowsUnique /\ ParticipantsListed
=============================================================================
