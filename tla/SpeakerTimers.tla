---------------------------- MODULE SpeakerTimers ----------------------------
(***************************************************************************)
(* The clocks of one speaker connection (internal/deepgram):                *)
(* publishLoop with its 100 ms ticker, the delay of publishTranscript, the  *)
(* local finalization and the idle close, and keepAliveLoop.                *)
(*                                                                          *)
(* Instants are kept as ages in ticks of the publish loop; Never is the     *)
(* zero time.  A goroutine that can go on does so before the next tick.     *)
(* The provider answers audio within ResultLag, and a packet is marked with *)
(* the instant the voice bot received it, at most MarkLag ago.              *)
(***************************************************************************)
EXTENDS Integers, Sequences

CONSTANTS
  LocalFinalize, SpeakerIdleClose, KeepAliveInterval, Delay,  \* of deepgram.Config
  QueueLength,        \* capacity of c.results
  ResultLag, MarkLag  \* bounds on the provider and on the age of a packet

ASSUME TimerAssumption ==
  /\ {LocalFinalize, Delay, ResultLag, MarkLag} \subseteq Nat
  /\ {SpeakerIdleClose, KeepAliveInterval, QueueLength} \subseteq Nat \ {0}

VARIABLES
  state,    \* up, idle (closed by the publish loop), failed
  talking,  \* packets may still come
  marking,  \* a packet is written and not marked yet
  heard,    \* age of the last packet written
  sent,     \* age of the last frame written, keep-alives included
  audio,    \* age of lastAudioAt
  result,   \* age of lastResultAt
  open,     \* utteranceText is not empty
  queue,    \* c.results: [kind, age]
  tick,     \* age of the tick in the ticker's channel
  publisher,  \* publishLoop: [held: ticks left, idle: idleDue is next, now: age of its tick]
  beat      \* ticks until the keep-alive ticker fires

timerVars ==
  <<state, talking, marking, heard, sent, audio, result, open, queue, tick, publisher, beat>>

Never == 0 - 1
Kinds == {"interim", "final", "end"}

\* Beyond this age nothing distinguishes two instants.
Old == SpeakerIdleClose + LocalFinalize + 2 * KeepAliveInterval + 2 * Delay + MarkLag + 3
Ages == 0..Old

Free == [held |-> 0, idle |-> FALSE, now |-> 0]

TimerTypeOK ==
  /\ state \in {"up", "idle", "failed"} /\ {talking, marking, open} \subseteq BOOLEAN
  /\ {heard, sent} \subseteq Ages /\ {audio, result, tick} \subseteq Ages \cup {Never}
  /\ queue \in Seq([kind : Kinds, age : Ages]) /\ Len(queue) <= QueueLength
  /\ publisher \in [held : 0..Delay, idle : BOOLEAN, now : Ages]
  /\ beat \in 0..KeepAliveInterval

TimerInit ==
  /\ state = "up" /\ talking = TRUE /\ marking = FALSE /\ open = FALSE
  /\ heard = Old /\ sent = 0 /\ audio = Never /\ result = Never
  /\ queue = <<>> /\ tick = Never /\ publisher = Free /\ beat = KeepAliveInterval
-----------------------------------------------------------------------------
(* Ingest: writeAudio, then markAudio with the packet's ReceivedAt.         *)

WriteAudio ==
  /\ state = "up" /\ talking /\ ~marking
  /\ heard' = 0 /\ sent' = 0 /\ marking' = TRUE
  /\ UNCHANGED <<state, talking, audio, result, open, queue, tick, publisher, beat>>

MarkAudio(lag) ==
  /\ marking /\ marking' = FALSE
  /\ audio' = lag
  /\ UNCHANGED <<state, talking, heard, sent, result, open, queue, tick, publisher, beat>>

FallSilent ==
  /\ talking /\ ~marking /\ talking' = FALSE
  /\ UNCHANGED <<state, marking, heard, sent, audio, result, open, queue, tick, publisher, beat>>

\* Mutant: the read loop does not wait for room.
RoomAlways == TRUE

Room == Len(queue) < QueueLength

\* readLoop; bound: one result within a tick.
Receive(kind) ==
  /\ state = "up" /\ heard <= ResultLag /\ Room
  /\ result # 0 /\ \A i \in DOMAIN queue : queue[i].age # 0
  /\ queue' = Append(queue, [kind |-> kind, age |-> 0])
  /\ UNCHANGED <<state, talking, marking, heard, sent, audio, result, open, tick, publisher, beat>>
-----------------------------------------------------------------------------
(* publishLoop.                                                             *)

Selecting == state = "up" /\ publisher.held = 0 /\ ~publisher.idle

\* Mutant: the delay starts when the transcript is taken from the queue.
WaitInFull(age) == Delay

\* publishTranscript waits until the delay since ReceivedAt is over.
Wait(age) == IF age < Delay THEN Delay - age ELSE 0

Holding(age) == [held |-> Wait(age), idle |-> FALSE, now |-> 0]

\* applyResult; an interim without a change is not published.
ApplyResult ==
  /\ Selecting /\ queue # <<>>
  /\ queue' = Tail(queue)
  /\ LET r == Head(queue) IN
     /\ result' = r.age
     /\ open' = (r.kind = "interim")
     /\ \/ r.kind = "interim" /\ publisher' \in {Free, Holding(r.age)}
        \/ r.kind = "final" /\ publisher' = Holding(r.age)
        \/ r.kind = "end" /\ publisher' = IF open THEN Holding(r.age) ELSE Free
  /\ UNCHANGED <<state, talking, marking, heard, sent, audio, tick, beat>>

\* An instant is set and lies at least a duration before the loop's tick.
Since(age, now, duration) == age # Never /\ age - now >= duration

\* localFinalizeDue
LocalFinalizeDue(now) ==
  /\ LocalFinalize > 0 /\ open
  /\ Since(result, now, LocalFinalize)
  /\ audio = Never \/ Since(audio, now, LocalFinalize)

TakeTick ==
  /\ Selecting /\ tick # Never
  /\ tick' = Never
  /\ LET due == LocalFinalizeDue(tick) IN
     /\ open' = (open /\ ~due)
     /\ publisher' = [held |-> IF due THEN Wait(tick) ELSE 0, idle |-> TRUE, now |-> tick]
  /\ UNCHANGED <<state, talking, marking, heard, sent, audio, result, queue, beat>>

\* Mutant: silence is counted from the last result, which may never come.
IdleSinceResult(now) == Since(result, now, SpeakerIdleClose)

\* idleDue
IdleDue(now) == Since(audio, now, SpeakerIdleClose)

IdleCheck ==
  /\ state = "up" /\ publisher.held = 0 /\ publisher.idle
  /\ state' = IF IdleDue(publisher.now) THEN "idle" ELSE "up"
  /\ publisher' = Free
  /\ UNCHANGED <<talking, marking, heard, sent, audio, result, open, queue, tick, beat>>
-----------------------------------------------------------------------------
(* keepAliveLoop.                                                           *)

\* Mutant: a packet as old as the interval still counts.
RecentAudioStill == audio # Never /\ audio <= KeepAliveInterval

\* hasRecentAudio
HasRecentAudio == audio # Never /\ audio < KeepAliveInterval

KeepAlive ==
  /\ state = "up" /\ beat = 0
  /\ beat' = KeepAliveInterval
  /\ sent' = IF HasRecentAudio THEN sent ELSE 0
  /\ UNCHANGED <<state, talking, marking, heard, audio, result, open, queue, tick, publisher>>

\* The keep-alive cannot be written, or the read loop meets an error.
Breaks ==
  /\ state = "up"
  /\ state' = "failed"
  /\ UNCHANGED <<talking, marking, heard, sent, audio, result, open, queue, tick, publisher, beat>>
-----------------------------------------------------------------------------
Aged(age) == IF age = Never \/ age >= Old THEN age ELSE age + 1

\* 100 ms pass.  The ticker's channel keeps the tick it holds.
Pass ==
  /\ state = "up" /\ ~marking /\ beat > 0
  /\ publisher.held > 0 \/ (queue = <<>> /\ tick = Never /\ ~publisher.idle)
  /\ heard' = Aged(heard) /\ sent' = Aged(sent)
  /\ audio' = Aged(audio) /\ result' = Aged(result)
  /\ queue' = [i \in DOMAIN queue |-> [queue[i] EXCEPT !.age = Aged(@)]]
  /\ tick' = IF tick = Never THEN 0 ELSE Aged(tick)
  /\ publisher' = IF publisher.held = 0 THEN publisher
                  ELSE [publisher EXCEPT !.held = @ - 1, !.now = Aged(@)]
  /\ beat' = beat - 1
  /\ UNCHANGED <<state, talking, marking, open>>

PublishStep == ApplyResult \/ TakeTick \/ IdleCheck

TimerNext ==
  \/ WriteAudio \/ FallSilent \/ PublishStep \/ KeepAlive \/ Breaks \/ Pass
  \/ \E lag \in 0..MarkLag : MarkAudio(lag)
  \/ \E kind \in Kinds : Receive(kind)

TimerSpec == TimerInit /\ [][TimerNext]_timerVars

\* Time passes, and the goroutines of the connection run.
Fairness ==
  /\ WF_timerVars(Pass) /\ WF_timerVars(KeepAlive) /\ WF_timerVars(ApplyResult)
  /\ WF_timerVars(TakeTick) /\ WF_timerVars(IdleCheck)
  /\ \A lag \in 0..MarkLag : WF_timerVars(MarkAudio(lag))

TimerFairSpec == TimerSpec /\ Fairness
-----------------------------------------------------------------------------
(* Properties.                                                              *)

\* How the three settings must fit together, which captionConfig does not
\* require: the delay is shorter than the local finalization, and the idle close
\* leaves time for the last result and the finalization.
TimersFit ==
  /\ Delay < LocalFinalize
  /\ SpeakerIdleClose >= LocalFinalize + ResultLag + MarkLag

\* When the timers fit together, the idle close loses no utterance: what a
\* speaker said last was published as final before his connection is closed,
\* and no result of the provider is left in the queue, unless he speaks again
\* at that very moment (publishLoop, localFinalizeDue, idleDue).
IdleLosesNothing == state = "idle" /\ heard > ResultLag => ~open /\ queue = <<>>

\* While the connection is up the provider hears something, audio or a
\* keep-alive, before two intervals have passed (keepAliveLoop,
\* hasRecentAudio).
SilenceBounded == state = "up" => sent < 2 * KeepAliveInterval

\* The connection of a speaker who was heard and has fallen silent is given
\* back (publishLoop, idleDue).
SilentSpeakerCloses == (~talking /\ audio # Never) ~> (state # "up")

\* Types, the capacity of the result queue, and the bound on the silence
\* (readLoop, keepAliveLoop).
TimerInv == TimerTypeOK /\ SilenceBounded
=============================================================================
