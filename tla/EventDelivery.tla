--------------------------- MODULE EventDelivery ----------------------------
(***************************************************************************)
(* Worker events on their way to the encoder: publishWithGenerations        *)
(* (internal/jobs/event_publishing.go), the retry queue and its delivery    *)
(* loop (event_delivery.go), against the start and the stop of jobs.        *)
(*                                                                          *)
(* A publisher is a goroutine that handles one request or transcript at a   *)
(* time.  Each of its actions is one critical section of Manager.mu or of   *)
(* publisherMu; so is each action of the loop.  Events with the same        *)
(* workerEventKey replace one another (participants, active speaker, one    *)
(* chat message, one utterance); an event is its key and its number in the  *)
(* order in which the events of that key were accepted.                     *)
(*                                                                          *)
(* Start and Stop are reduced to what delivery sees of them (JobLifecycle   *)
(* has the rest): the generation, the delivery context and the scene.       *)
(***************************************************************************)
EXTENDS Naturals, FiniteSets

CONSTANTS
  Publishers,     \* goroutines that publish
  Keys,           \* values of workerEventKey
  Protected,      \* keys of participants and active_speaker events
  KeysOf,         \* the keys each publisher publishes for
  Loop, NoOne,    \* holders of publisherMu besides publishers
  MaxPending,     \* maxPendingWorkerEvents
  MaxAttempts,    \* maxWorkerEventAttempts
  MaxEvents,      \* bound: events of each key
  MaxGeneration   \* bound: generations

ASSUME DeliveryAssumption ==
  /\ Keys # {} /\ Protected \subseteq Keys
  /\ IsFiniteSet(Protected) /\ Cardinality(Protected) <= MaxPending
  /\ KeysOf \in [Publishers -> SUBSET Keys]
  /\ Loop \notin Publishers /\ NoOne \notin Publishers /\ Loop # NoOne
  /\ MaxPending \in Nat /\ MaxAttempts \in Nat \ {0, 1}
  /\ MaxEvents \in [Keys -> Nat] /\ MaxGeneration \in Nat

\* One retry-queue entry; number 0 stands for "no entry".
Entry == [number : Nat, generation : Nat, attempts : 0..MaxAttempts, due : BOOLEAN, queued : Nat]
NoEntry == [number |-> 0, generation |-> 0, attempts |-> 0, due |-> FALSE, queued |-> 0]

PublisherSteps == {"idle", "supersede", "scene", "lock", "sending", "sent", "failed"}
LoopSteps == {"off", "scan", "timer", "wait", "check", "lock", "sending", "sent",
              "failed", "exited"}

\* The locals of publishWithGenerations.  dead: the context was already
\* cancelled when Publish was called.
PublisherState == [step : PublisherSteps, key : Keys, number : Nat, generation : Nat,
                   ctx : Nat, dead : BOOLEAN]

VARIABLES
  job,              \* "none", "active" or how far Stop has come
  generation,       \* m.jobGeneration
  sceneGeneration,  \* generation the scene was reset for (0: cleared)
  delivery,         \* m.deliveryCancel and m.deliveryCtx, named by their job (0: nil)
  liveCtx,          \* the job whose delivery context is not cancelled (0: none)
  wake,             \* a token is in m.deliveryWake
  pending,          \* m.pendingEvents
  latest,           \* m.latestEventByKey (0: absent)
  publisherMu,      \* holder of publisherMu
  publisher,        \* locals of the publishers
  loop,             \* locals of eventDeliveryLoop
  recent,           \* m.events
  issued,           \* events accepted so far, by key
  shown,            \* the last event of each key that reached the encoder
  gaveUp,           \* history: events whose failure was final
  dropped           \* history: events the full queue lost

jobVars == <<job, generation, sceneGeneration, delivery, liveCtx>>
queueVars == <<wake, pending, latest>>
encoderVars == <<shown, gaveUp, dropped>>
vars == <<jobVars, queueVars, publisherMu, publisher, loop, recent, issued, encoderVars>>

JobSteps == {"none", "active", "fenced", "cleared", "cancelled"}

TypeOK ==
  /\ job \in JobSteps
  /\ generation \in Nat /\ sceneGeneration \in Nat
  /\ delivery \in Nat /\ liveCtx \in Nat
  /\ wake \in BOOLEAN
  /\ pending \in [Keys -> Entry]
  /\ latest \in [Keys -> Nat]
  /\ publisherMu \in Publishers \cup {Loop, NoOne}
  /\ publisher \in [Publishers -> PublisherState]
  /\ loop \in [step : LoopSteps, ctx : Nat, key : Keys, entry : Entry, dead : BOOLEAN]
  /\ recent \subseteq (Keys \X Nat \X Nat)
  /\ issued \in [Keys -> Nat]
  /\ shown \in [Keys -> Nat]
  /\ gaveUp \subseteq (Keys \X Nat)
  /\ dropped \subseteq (Keys \X Nat)

AnyKey == CHOOSE k \in Keys : TRUE
IdlePublisher == [step |-> "idle", key |-> AnyKey, number |-> 0, generation |-> 0,
                  ctx |-> 0, dead |-> FALSE]
NoLoop == [step |-> "off", ctx |-> 0, key |-> AnyKey, entry |-> NoEntry, dead |-> FALSE]

Init ==
  /\ job = "none" /\ generation = 0 /\ sceneGeneration = 0
  /\ delivery = 0 /\ liveCtx = 0
  /\ wake = FALSE
  /\ pending = [k \in Keys |-> NoEntry]
  /\ latest = [k \in Keys |-> 0]
  /\ publisherMu = NoOne
  /\ publisher = [p \in Publishers |-> IdlePublisher]
  /\ loop = NoLoop
  /\ recent = {}
  /\ issued = [k \in Keys |-> 0]
  /\ shown = [k \in Keys |-> 0]
  /\ gaveUp = {} /\ dropped = {}
-----------------------------------------------------------------------------
(* Start and Stop, as delivery sees them.                                  *)

StartJob ==
  /\ job = "none"
  /\ generation < MaxGeneration
  /\ job' = "active"
  /\ generation' = generation + 1
  /\ sceneGeneration' = generation + 1
  /\ delivery' = generation + 1
  /\ liveCtx' = generation + 1
  /\ wake' = FALSE
  /\ loop' = [NoLoop EXCEPT !.step = "scan", !.ctx = generation + 1]
  /\ recent' = {}
  /\ UNCHANGED <<pending, latest, publisherMu, publisher, issued, encoderVars>>

\* The stop boundary: from here on no publisher's generation matches.
StopFences ==
  /\ job = "active"
  /\ job' = "fenced"
  /\ generation' = generation + 1
  /\ UNCHANGED <<sceneGeneration, delivery, liveCtx, queueVars, publisherMu, publisher,
                 loop, recent, issued, encoderVars>>

\* stopEventDelivery: its critical section, the cancellation, the wait.
StopClears ==
  /\ job = "fenced"
  /\ job' = "cleared"
  /\ delivery' = 0
  /\ pending' = [k \in Keys |-> NoEntry]
  /\ latest' = [k \in Keys |-> 0]
  /\ UNCHANGED <<generation, sceneGeneration, liveCtx, wake, publisherMu, publisher,
                 loop, recent, issued, encoderVars>>

\* Mutant: the loop is woken but its context stays alive.
StopWakes ==
  /\ job = "cleared"
  /\ job' = "cancelled"
  /\ wake' = TRUE
  /\ UNCHANGED <<generation, sceneGeneration, delivery, liveCtx, pending, latest,
                 publisherMu, publisher, loop, recent, issued, encoderVars>>

StopCancels ==
  /\ job = "cleared"
  /\ job' = "cancelled"
  /\ liveCtx' = 0
  /\ wake' = TRUE
  /\ UNCHANGED <<generation, sceneGeneration, delivery, pending, latest, publisherMu,
                 publisher, loop, recent, issued, encoderVars>>

\* deliveryWG.Wait returns; the rest of Stop clears the job and the scene.
StopEnds ==
  /\ job = "cancelled"
  /\ loop.step = "exited"
  /\ job' = "none"
  /\ sceneGeneration' = 0
  /\ loop' = NoLoop
  /\ wake' = FALSE
  /\ UNCHANGED <<generation, delivery, liveCtx, pending, latest, publisherMu, publisher,
                 recent, issued, encoderVars>>
-----------------------------------------------------------------------------
(* publishWithGenerations.                                                 *)

\* ensureStreamLocked and the generation checks pass; the event takes the
\* next number of its key, and generation and context are captured.
PublishBegin(p, k) ==
  /\ publisher[p].step = "idle"
  /\ k \in KeysOf[p]
  /\ job = "active"
  /\ issued[k] < MaxEvents[k]
  /\ issued' = [issued EXCEPT ![k] = @ + 1]
  /\ publisher' = [publisher EXCEPT ![p] =
       [step |-> "supersede", key |-> k, number |-> issued[k] + 1,
        generation |-> generation, ctx |-> delivery, dead |-> FALSE]]
  /\ UNCHANGED <<jobVars, queueVars, publisherMu, loop, recent, encoderVars>>

At(p, step) == publisher[p].step = step
GoTo(p, step) == publisher' = [publisher EXCEPT ![p].step = step]
Finish(p) == publisher' = [publisher EXCEPT ![p] = IdlePublisher]
EventOf(p) == <<publisher[p].key, publisher[p].number>>

\* supersedePendingWorkerEvent.
Supersede(p) ==
  /\ At(p, "supersede")
  /\ IF publisher[p].generation = generation
     THEN /\ latest' = [latest EXCEPT ![publisher[p].key] = publisher[p].number]
          /\ pending' = [pending EXCEPT ![publisher[p].key] = NoEntry]
     ELSE UNCHANGED <<latest, pending>>
  /\ GoTo(p, "scene")
  /\ UNCHANGED <<jobVars, wake, publisherMu, loop, recent, issued, encoderVars>>

\* sceneRenderer.Apply refuses another generation, and may refuse the payload.
SceneApplies(p) ==
  /\ At(p, "scene")
  /\ publisher[p].generation = sceneGeneration
  /\ GoTo(p, "lock")
  /\ UNCHANGED <<jobVars, queueVars, publisherMu, loop, recent, issued, encoderVars>>

SceneRefuses(p) ==
  /\ At(p, "scene")
  /\ Finish(p)
  /\ gaveUp' = gaveUp \cup {EventOf(p)}
  /\ UNCHANGED <<jobVars, queueVars, publisherMu, loop, recent, issued, shown, dropped>>

\* publisherMu is taken and Publish called with the captured context.
PublishLock(p) ==
  /\ At(p, "lock")
  /\ publisherMu = NoOne
  /\ publisherMu' = p
  /\ publisher' = [publisher EXCEPT ![p].step = "sending",
                                    ![p].dead = publisher[p].ctx # liveCtx]
  /\ UNCHANGED <<jobVars, queueVars, loop, recent, issued, encoderVars>>

\* What one call of Publish may do: with a context cancelled beforehand the
\* request is never sent; otherwise it may arrive although an error returns.
Outcome == [arrived : BOOLEAN, result : {"ok", "retryable", "final"}]
Outcomes(dead) == {o \in Outcome : /\ o.result = "ok" => o.arrived
                                   /\ dead => ~o.arrived}
Shown(o, k, n) == IF o.arrived THEN [shown EXCEPT ![k] = n] ELSE shown

\* Publish returns and publisherMu is released.
PublishReturns(p, o) ==
  /\ At(p, "sending")
  /\ o \in Outcomes(publisher[p].dead)
  /\ publisherMu' = NoOne
  /\ shown' = Shown(o, publisher[p].key, publisher[p].number)
  /\ CASE o.result = "ok"        -> GoTo(p, "sent") /\ UNCHANGED gaveUp
       [] o.result = "retryable" -> GoTo(p, "failed") /\ UNCHANGED gaveUp
       [] o.result = "final"     -> Finish(p) /\ gaveUp' = gaveUp \cup {EventOf(p)}
  /\ UNCHANGED <<jobVars, queueVars, loop, recent, issued, dropped>>

\* Mutant: delivered events are recorded whatever job runs.
RecordAlways(k, n, g) == recent' = recent \cup {<<k, n, g>>}

\* recordDeliveredWorkerEvent.
RecordIfCurrent(k, n, g) ==
  recent' = IF g = generation THEN recent \cup {<<k, n, g>>} ELSE recent

PublishRecords(p) ==
  /\ At(p, "sent")
  /\ RecordIfCurrent(publisher[p].key, publisher[p].number, publisher[p].generation)
  /\ Finish(p)
  /\ UNCHANGED <<jobVars, queueVars, publisherMu, loop, issued, encoderVars>>
-----------------------------------------------------------------------------
(* The retry queue.                                                        *)

Queued == {k \in Keys : pending[k] # NoEntry}

\* The loop works on the entry it took from the queue.
Held(k) == loop.key = k /\ loop.step \in {"check", "lock", "sending", "sent", "failed"}

\* A queuedAt later than that of every entry there is.
NextStamp ==
  LET stamps == {pending[k].queued : k \in Keys} \cup {loop.entry.queued}
  IN  1 + (CHOOSE n \in stamps : \A m \in stamps : m <= n)

Oldest(S) == CHOOSE k \in S : \A j \in S : pending[k].queued <= pending[j].queued

\* Mutant: the oldest entry is deleted whatever its type.
VictimsOfAnyType == IF Queued = {} THEN {} ELSE {Oldest(Queued)}

\* The entry dropOldestPendingLocked deletes to make room: the oldest one that
\* is no participants or active-speaker event.
Victims == IF Queued \ Protected = {} THEN {} ELSE {Oldest(Queued \ Protected)}

\* Mutant: the limit is off by one.
FullTooLate(k) == pending[k] = NoEntry /\ Cardinality(Queued) > MaxPending

\* A new entry for k needs room.
Full(k) == pending[k] = NoEntry /\ Cardinality(Queued) >= MaxPending

\* enqueueWorkerEvent, after a first attempt that failed in a retryable way.
Enqueue(p) ==
  LET k == publisher[p].key
      n == publisher[p].number
      victims == IF Full(k) THEN Victims ELSE {}
      entry == [number |-> n, generation |-> generation, attempts |-> 1,
                due |-> FALSE, queued |-> NextStamp]
  IN  /\ At(p, "failed")
      /\ publisher[p].generation = generation /\ delivery # 0
      /\ latest' = [latest EXCEPT ![k] = n]
      /\ IF Full(k) /\ victims = {}
         THEN /\ dropped' = dropped \cup {<<k, n>>}
              /\ UNCHANGED <<pending, wake>>
         ELSE /\ dropped' = dropped \cup {<<v, pending[v].number>> : v \in victims}
              /\ pending' = [j \in Keys |-> IF j = k THEN entry
                                            ELSE IF j \in victims THEN NoEntry
                                            ELSE pending[j]]
              /\ wake' = TRUE
      /\ Finish(p)
      /\ UNCHANGED <<jobVars, publisherMu, loop, recent, issued, shown, gaveUp>>

\* The job of the event has ended meanwhile.
EnqueueRefused(p) ==
  /\ At(p, "failed")
  /\ publisher[p].generation # generation \/ delivery = 0
  /\ Finish(p)
  /\ UNCHANGED <<jobVars, queueVars, publisherMu, loop, recent, issued, encoderVars>>

\* Time passes nextTryAt of the entry.
BecomesDue(k) ==
  /\ pending[k] # NoEntry /\ ~pending[k].due
  /\ pending' = [pending EXCEPT ![k].due = TRUE]
  /\ UNCHANGED <<jobVars, wake, latest, publisherMu, publisher, loop, recent, issued,
                 encoderVars>>
-----------------------------------------------------------------------------
(* eventDeliveryLoop.                                                      *)

Due == {k \in Queued : pending[k].due}
Cancelled == loop.ctx # liveCtx
LoopGoTo(step) == loop' = [loop EXCEPT !.step = step]
LoopRestart == loop' = [NoLoop EXCEPT !.step = "scan", !.ctx = loop.ctx]

\* nextPendingWorkerEvent takes the due entry that was queued first.
LoopTakes ==
  /\ loop.step = "scan"
  /\ Due # {}
  /\ LET k == Oldest(Due)
     IN  /\ pending' = [pending EXCEPT ![k] = NoEntry]
         /\ loop' = [loop EXCEPT !.step = "check", !.key = k, !.entry = pending[k]]
  /\ UNCHANGED <<jobVars, wake, latest, publisherMu, publisher, recent, issued, encoderVars>>

\* Nothing is due: the loop waits for the wake channel, with a timer for the
\* next entry if there is one.
LoopSleeps ==
  /\ loop.step = "scan"
  /\ Due = {}
  /\ LoopGoTo(IF Queued = {} THEN "wait" ELSE "timer")
  /\ UNCHANGED <<jobVars, queueVars, publisherMu, publisher, recent, issued, encoderVars>>

\* Nothing was due at the instant the scan read, but time.Until(next) finds
\* that instant passed: the wait is not positive and no timer is set.
LoopSleepsLate(k) ==
  /\ loop.step = "scan"
  /\ Due = {} /\ k \in Queued
  /\ pending' = [pending EXCEPT ![k].due = TRUE]
  /\ LoopGoTo("wait")
  /\ UNCHANGED <<jobVars, wake, latest, publisherMu, publisher, recent, issued, encoderVars>>

LoopTimer ==
  /\ loop.step = "timer"
  /\ LoopRestart
  /\ UNCHANGED <<jobVars, queueVars, publisherMu, publisher, recent, issued, encoderVars>>

LoopWoken ==
  /\ loop.step \in {"timer", "wait"}
  /\ wake
  /\ wake' = FALSE
  /\ LoopRestart
  /\ UNCHANGED <<jobVars, pending, latest, publisherMu, publisher, recent, issued, encoderVars>>

LoopExits ==
  /\ loop.step \in {"timer", "wait"}
  /\ Cancelled
  /\ LoopGoTo("exited")
  /\ UNCHANGED <<jobVars, queueVars, publisherMu, publisher, recent, issued, encoderVars>>

\* Mutant: the newest event of the key is not compared.
IsOfCurrentJob(k, e) == e.generation = generation /\ delivery # 0

\* isCurrentPendingEvent
IsCurrent(k, e) ==
  /\ e.generation = generation
  /\ latest[k] = e.number
  /\ delivery # 0

\* deliverPendingWorkerEvent: the check before publisherMu is taken.
LoopChecks ==
  /\ loop.step = "check"
  /\ IF IsCurrent(loop.key, loop.entry)
     THEN loop' = [loop EXCEPT !.step = "lock", !.entry.attempts = @ + 1]
     ELSE LoopRestart
  /\ UNCHANGED <<jobVars, queueVars, publisherMu, publisher, recent, issued, encoderVars>>

\* The same check under publisherMu, which excludes every other Publish.
LoopLocks ==
  /\ loop.step = "lock"
  /\ publisherMu = NoOne
  /\ IF IsCurrent(loop.key, loop.entry)
     THEN /\ publisherMu' = Loop
          /\ loop' = [loop EXCEPT !.step = "sending", !.dead = Cancelled]
     ELSE LoopRestart /\ UNCHANGED publisherMu
  /\ UNCHANGED <<jobVars, queueVars, publisher, recent, issued, encoderVars>>

\* Mutant: one attempt too many.
FinalTooLate(o) == o.result = "final" \/ loop.entry.attempts > MaxAttempts

\* No further attempt follows.
Final(o) == o.result = "final" \/ loop.entry.attempts >= MaxAttempts

LoopReturns(o) ==
  /\ loop.step = "sending"
  /\ o \in Outcomes(loop.dead)
  /\ publisherMu' = NoOne
  /\ shown' = Shown(o, loop.key, loop.entry.number)
  /\ IF o.result = "ok" THEN LoopGoTo("sent") /\ UNCHANGED gaveUp
     ELSE IF Final(o)
          THEN LoopRestart /\ gaveUp' = gaveUp \cup {<<loop.key, loop.entry.number>>}
          ELSE LoopGoTo("failed") /\ UNCHANGED gaveUp
  /\ UNCHANGED <<jobVars, queueVars, publisher, recent, issued, dropped>>

LoopRecords ==
  /\ loop.step = "sent"
  /\ RecordIfCurrent(loop.key, loop.entry.number, loop.entry.generation)
  /\ LoopRestart
  /\ UNCHANGED <<jobVars, queueVars, publisherMu, publisher, issued, encoderVars>>

\* Mutant: an entry queued meanwhile is overwritten.
MayOverwrite ==
  /\ ~Cancelled
  /\ loop.entry.generation = generation /\ delivery # 0

MayRequeue ==
  /\ ~Cancelled
  /\ loop.entry.generation = generation /\ delivery # 0
  /\ pending[loop.key] = NoEntry

\* The entry goes back to the queue, with a longer delay, unless its job ended
\* or an entry of its key was queued meanwhile.  The queue's limit is not
\* looked at here.
LoopRequeues ==
  /\ loop.step = "failed"
  /\ pending' = IF MayRequeue
                THEN [pending EXCEPT ![loop.key] = [loop.entry EXCEPT !.due = FALSE]]
                ELSE pending
  /\ LoopRestart
  /\ UNCHANGED <<jobVars, wake, latest, publisherMu, publisher, recent, issued, encoderVars>>
-----------------------------------------------------------------------------
PublisherStep(p) ==
  \/ Supersede(p) \/ SceneApplies(p) \/ SceneRefuses(p) \/ PublishLock(p)
  \/ \E o \in Outcome : PublishReturns(p, o)
  \/ PublishRecords(p) \/ Enqueue(p) \/ EnqueueRefused(p)

LoopStep ==
  \/ LoopTakes \/ LoopSleeps \/ LoopTimer \/ LoopWoken \/ LoopExits
  \/ \E k \in Keys : LoopSleepsLate(k)
  \/ LoopChecks \/ LoopLocks
  \/ \E o \in Outcome : LoopReturns(o)
  \/ LoopRecords \/ LoopRequeues

StopStep == StopClears \/ StopCancels \/ StopEnds

Next ==
  \/ StartJob \/ StopFences \/ StopStep
  \/ \E p \in Publishers : PublisherStep(p) \/ \E k \in Keys : PublishBegin(p, k)
  \/ LoopStep
  \/ \E k \in Keys : BecomesDue(k)

Spec == Init /\ [][Next]_vars

\* Goroutines keep running, time passes, and every Publish returns because the
\* HTTP client has a timeout.  sync.Mutex does not starve a waiter, hence the
\* strong fairness of the two Lock calls.  A select that stays ready is taken
\* (a closed Done channel stays ready).  Requests and stops need not happen.
FairSpec ==
  /\ Spec
  /\ WF_vars(StopStep) /\ WF_vars(LoopStep)
  /\ SF_vars(LoopLocks) /\ SF_vars(LoopExits)
  /\ \A p \in Publishers : WF_vars(PublisherStep(p)) /\ SF_vars(PublishLock(p))
  /\ \A k \in Keys : WF_vars(BecomesDue(k))
-----------------------------------------------------------------------------
\* The queue holds at most one entry more than its limit: the entry the loop
\* took out frees a place that a publisher may fill before the loop puts its
\* entry back.
QueueIsBounded ==
  Cardinality(Queued) + (IF \E k \in Keys : Held(k) THEN 1 ELSE 0) <= MaxPending + 1

\* What the encoder was sent last for a key is never replaced by an older
\* event of that key: a retry does not overtake the event that superseded it,
\* although both the loop and the publishers send.
NoRegression == [][\A k \in Keys : shown'[k] >= shown[k]]_shown

\* m.events holds events of the job it is shown with only: a Publish that
\* returns after Stop, or after the next Start, is not recorded.
RecentOnlyCurrentJob == job = "active" => \A e \in recent : e[3] = generation

\* The newest event of a key is not forgotten while its job runs: once its
\* request has returned it was delivered, is queued, is being retried, or was
\* given up for good; only the overflow of the queue drops it otherwise, and
\* never a participants or active-speaker event.
NewestNotLost ==
  job = "active" =>
    \A k \in Keys :
      (latest[k] # 0 /\ \A p \in Publishers : At(p, "idle") \/ publisher[p].key # k) =>
        \/ shown[k] = latest[k]
        \/ pending[k].number = latest[k]
        \/ Held(k) /\ loop.entry.number = latest[k]
        \/ <<k, latest[k]>> \in gaveUp
        \/ k \notin Protected /\ <<k, latest[k]>> \in dropped

\* The event that would be retried for a key is not older than what the
\* encoder already shows for it.
RetryIsNewest ==
  \A k \in Queued : pending[k].number = latest[k] => pending[k].number >= shown[k]

\* Liveness: a Stop that has fenced the job ends; the delivery loop is never
\* left waiting while deliveryWG.Wait waits for it.
StopCompletes == job = "fenced" ~> job = "none"

\* Liveness: an entry of the queue is taken out again.  Does not hold: after
\* LoopSleepsLate the loop waits without a timer.
RetryHappens == \A k \in Keys : pending[k] # NoEntry ~> pending[k] = NoEntry

\* The state of the delivery is well formed: types, the limit of the queue, and
\* no event of an earlier job among the recent ones (enqueueWorkerEvent,
\* deliverPendingWorkerEvent, recordDeliveredWorkerEvent).
DeliveryInv == TypeOK /\ QueueIsBounded /\ RecentOnlyCurrentJob
=============================================================================
