------------------------ MODULE EventDeliveryProofs -------------------------
(***************************************************************************)
(* Proofs about EventDelivery, for any number of publishers, keys, events   *)
(* and jobs.                                                                *)
(***************************************************************************)
EXTENDS EventDelivery, FiniteSetTheorems, TLAPS

\* The loop works on an entry it took from the queue.
Carrying == loop.step \in {"check", "lock", "sending", "sent", "failed"}

\* An entry in the queue has an attempt left; so has one the loop may try.
AttemptsInv ==
  /\ \A k \in Keys : pending[k].attempts < MaxAttempts
  /\ loop.step \in {"check", "failed"} => loop.entry.attempts < MaxAttempts

\* The queue is finite, and its times have a bound.
QueueInv ==
  /\ IsFiniteSet(Queued)
  /\ \E b \in Nat : /\ \A k \in Keys : pending[k].queued <= b
                    /\ loop.entry.queued <= b

\* The invariant that needs nothing of the publishers: bounds and recent events.
QueueBase == TypeOK /\ AttemptsInv /\ QueueInv /\ QueueIsBounded /\ RecentOnlyCurrentJob
-----------------------------------------------------------------------------
\* The publisher handles an event.
Busy(p) == publisher[p].step # "idle"

\* What Start and Stop leave behind: a stopped job has no queue and its loop is
\* gone; entries belong to the active job, publishers to it or an earlier one.
JobInv ==
  /\ job = "none" <=> loop.step = "off"
  /\ job = "active" => delivery # 0 /\ liveCtx = loop.ctx
  /\ job \in {"none", "cleared", "cancelled"} =>
       delivery = 0 /\ \A k \in Keys : latest[k] = 0 /\ pending[k] = NoEntry
  /\ \A p \in Publishers : Busy(p) =>
       /\ publisher[p].generation <= generation
       /\ job # "active" => publisher[p].generation # generation
  /\ \A k \in Keys : pending[k] # NoEntry =>
       (job = "active" <=> pending[k].generation = generation)
  /\ Carrying => (job = "active" <=> loop.entry.generation = generation)

\* publisherMu is held while a request is out.
LockInv ==
  /\ \A p \in Publishers : At(p, "sending") <=> publisherMu = p
  /\ loop.step = "sending" <=> publisherMu = Loop

\* A busy publisher has the newest event of its key; what is queued, retried or
\* shown for the key is older.
NumberInv ==
  /\ \A p \in Publishers : Busy(p) =>
       LET k == publisher[p].key IN
       /\ k \in KeysOf[p] /\ publisher[p].number = issued[k] /\ issued[k] > 0
       /\ pending[k].number < issued[k]
       /\ Carrying /\ loop.key = k => loop.entry.number < issued[k]
  /\ \A k \in Keys : /\ pending[k].number <= issued[k]
                     /\ pending[k] # NoEntry => pending[k].number > 0
                     /\ shown[k] <= issued[k] /\ latest[k] <= issued[k]
  /\ Carrying => loop.entry.number \in 1..issued[loop.key]

\* latestEventByKey while a publisher works: its own event from Supersede on;
\* nothing if the publisher is left over from an earlier job.
LatestInv ==
  /\ job = "active" =>
       \A p \in Publishers : Busy(p) =>
         IF publisher[p].generation = generation
         THEN ~At(p, "supersede") => latest[publisher[p].key] = publisher[p].number
         ELSE latest[publisher[p].key] = 0
  /\ Carrying /\ pending[loop.key] # NoEntry => latest[loop.key] # loop.entry.number

\* The encoder's last event against latestEventByKey and the entry the loop has.
ShownInv ==
  /\ job = "active" => \A k \in Keys : latest[k] # 0 => shown[k] <= latest[k]
  /\ loop.step = "sending" =>
       /\ shown[loop.key] <= loop.entry.number
       /\ job = "active" => loop.entry.number <= latest[loop.key]
  /\ job = "active" =>
       \A p \in Publishers :
         At(p, "sent") /\ publisher[p].generation = generation =>
           /\ shown[publisher[p].key] = publisher[p].number
           /\ ~(loop.step = "sending" /\ loop.key = publisher[p].key)
  /\ job = "active" /\ loop.step = "sent" /\ loop.entry.number = latest[loop.key] =>
       shown[loop.key] = loop.entry.number

\* The invariant behind the order of events.
OrderInv ==
  QueueBase /\ JobInv /\ LockInv /\ NumberInv /\ LatestInv /\ ShownInv /\ NewestNotLost
-----------------------------------------------------------------------------
(* The operators.                                                          *)

\* A non-empty set of naturals has a least element.
LEMMA LeastNatural ==
  ASSUME NEW T, T \subseteq Nat, T # {}
  PROVE  \E m \in T : \A n \in T : m <= n
<1> DEFINE less == OpToRel(<, Nat)
<1>1. IsWellFoundedOn(less, Nat)
  BY NatLessThanWellFounded
<1>2. \A m, n \in Nat : n < m => <<n, m>> \in less
  BY DEF OpToRel
<1> HIDE DEF less
<1>3. PICK m \in T : \A n \in T : ~(<<n, m>> \in less)
  BY <1>1, WFMin
<1>4. ASSUME NEW n \in T PROVE m <= n
  <2>1. m \in Nat /\ n \in Nat
    OBVIOUS
  <2>2. ~(n < m)
    BY <1>2, <1>3, <2>1
  <2> QED
    BY <2>1, <2>2
<1> QED
  BY <1>4

\* A bounded set of naturals that is not empty has a greatest element.
LEMMA GreatestNatural ==
  ASSUME NEW S, S \subseteq Nat, S # {}, NEW b \in Nat, \A n \in S : n <= b
  PROVE  \E n \in S : \A m \in S : m <= n
<1> DEFINE T == {n \in Nat : \A m \in S : m <= n}
<1>1. PICK x \in T : \A y \in T : x <= y
  <2>1. b \in T /\ T \subseteq Nat
    OBVIOUS
  <2> QED
    BY <2>1, LeastNatural
<1>2. x \in S
  <2>1. SUFFICES ASSUME x \notin S PROVE FALSE
    OBVIOUS
  <2>2. \A m \in S : m \in Nat /\ m < x
    BY <2>1
  <2>3. x - 1 \in Nat /\ \A m \in S : m <= x - 1
    <3>1. PICK m \in S : TRUE
      OBVIOUS
    <3>2. x \in Nat /\ m \in Nat /\ m < x
      BY <2>2
    <3>3. x - 1 \in Nat
      BY <3>2
    <3> QED
      BY <2>2, <3>2, <3>3
  <2>4. x - 1 \in T /\ x \in Nat
    BY <2>3
  <2>5. x <= x - 1
    BY <1>1, <2>4
  <2> QED
    BY <2>4, <2>5
<1> QED
  BY <1>1, <1>2

\* NextStamp is a time, later than the time of every entry.
LEMMA NextStampIsLater ==
  ASSUME TypeOK, QueueInv
  PROVE  /\ NextStamp \in Nat
         /\ \A k \in Keys : pending[k].queued <= NextStamp
         /\ loop.entry.queued <= NextStamp
<1> DEFINE stamps == {pending[k].queued : k \in Keys} \cup {loop.entry.queued}
<1>1. stamps \subseteq Nat /\ stamps # {}
  <2>1. \A k \in Keys : pending[k].queued \in Nat
    BY DEF TypeOK, Entry
  <2>2. loop.entry \in Entry
    BY DEF TypeOK
  <2> QED
    BY <2>1, <2>2 DEF Entry
<1>2. PICK b \in Nat : \A n \in stamps : n <= b
  BY DEF QueueInv
<1>3. \E n \in stamps : \A m \in stamps : m <= n
  BY <1>1, <1>2, GreatestNatural
<1> DEFINE last == CHOOSE n \in stamps : \A m \in stamps : m <= n
<1>4. last \in stamps /\ \A m \in stamps : m <= last
  BY <1>3
<1>5. NextStamp = 1 + last
  BY DEF NextStamp
<1> HIDE DEF last
<1>6. /\ loop.entry.queued \in stamps
      /\ \A k \in Keys : pending[k].queued \in stamps
  OBVIOUS
<1> HIDE DEF stamps
<1>7. last \in Nat /\ \A m \in stamps : m \in Nat /\ m <= last
  BY <1>1, <1>4
<1>8. \A m \in stamps : m <= 1 + last
  BY <1>7
<1> QED
  BY <1>5, <1>6, <1>7, <1>8

\* The oldest entry of a set is one of it.
LEMMA OldestIsMember ==
  ASSUME TypeOK, NEW S, S \subseteq Keys, S # {}
  PROVE  Oldest(S) \in S
<1> DEFINE times == {pending[k].queued : k \in S}
<1>1. PICK m \in times : \A n \in times : m <= n
  <2>1. times \subseteq Nat /\ times # {}
    BY DEF TypeOK, Entry
  <2> QED
    BY <2>1, LeastNatural
<1>2. PICK k \in S : m = pending[k].queued
  BY <1>1
<1>3. \A j \in S : pending[k].queued <= pending[j].queued
  BY <1>1, <1>2
<1> QED
  BY <1>3 DEF Oldest

\* What makes room is at most one entry of the queue, and not a protected one.
LEMMA VictimIsQueued ==
  ASSUME TypeOK
  PROVE  \/ Victims = {} /\ Queued \subseteq Protected
         \/ \E v \in Queued \ Protected : Victims = {v}
<1>1. Queued \ Protected \subseteq Keys
  BY DEF Queued
<1> QED
  BY <1>1, OldestIsMember DEF Victims
-----------------------------------------------------------------------------
(* Types.                                                                  *)

\* The locals of eventDeliveryLoop.
LoopState == [step : LoopSteps, ctx : Nat, key : Keys, entry : Entry, dead : BOOLEAN]

\* The initial values have their types.
LEMMA Defaults ==
  NoEntry \in Entry /\ IdlePublisher \in PublisherState /\ NoLoop \in LoopState
<1>1. AnyKey \in Keys
  BY DeliveryAssumption DEF AnyKey
<1>2. NoEntry \in Entry
  BY DeliveryAssumption DEF NoEntry, Entry
<1>3. IdlePublisher \in PublisherState
  BY <1>1 DEF IdlePublisher, PublisherState, PublisherSteps
<1> QED
  BY <1>1, <1>2, <1>3 DEF NoLoop, LoopState, LoopSteps

\* The locals of eventDeliveryLoop.
LEMMA LoopTypes ==
  ASSUME QueueBase, [Next]_vars
  PROVE  loop' \in LoopState
<1>1. /\ loop \in LoopState /\ loop.entry \in Entry /\ loop.ctx \in Nat
      /\ generation \in Nat /\ liveCtx \in Nat /\ pending \in [Keys -> Entry]
  BY DEF QueueBase, TypeOK, LoopState
<1>2. /\ \A x \in LoopSteps : [loop EXCEPT !.step = x] \in LoopState
      /\ \A c \in Nat : [NoLoop EXCEPT !.step = "scan", !.ctx = c] \in LoopState
  BY <1>1, Defaults DEF LoopState, LoopSteps
<1>3. LoopRestart => loop' \in LoopState
  BY <1>1, <1>2 DEF LoopRestart
<1>4. \A x \in LoopSteps : LoopGoTo(x) => loop' \in LoopState
  BY <1>2 DEF LoopGoTo
<1>5. CASE StartJob
  <2>1. generation + 1 \in Nat
    BY <1>1
  <2> QED
    BY <1>2, <1>5, <2>1 DEF StartJob
<1>6. CASE StopEnds
  BY <1>6, Defaults DEF StopEnds
<1>7. CASE LoopTakes
  <2>1. Oldest(Due) \in Keys
    <3>1. Due \subseteq Keys /\ Due # {}
      BY <1>7 DEF LoopTakes, Due, Queued
    <3> QED
      BY <3>1, OldestIsMember DEF QueueBase
  <2>2. ASSUME NEW k \in Keys
        PROVE  [loop EXCEPT !.step = "check", !.key = k, !.entry = pending[k]] \in LoopState
    BY <1>1 DEF LoopState, LoopSteps
  <2> QED
    BY <1>7, <2>1, <2>2 DEF LoopTakes
<1>8. CASE LoopSleeps \/ LoopExits \/ \E k \in Keys : LoopSleepsLate(k)
  BY <1>4, <1>8 DEF LoopSleeps, LoopExits, LoopSleepsLate, LoopSteps
<1>9. CASE LoopTimer \/ LoopWoken \/ LoopRecords \/ LoopRequeues
  BY <1>3, <1>9 DEF LoopTimer, LoopWoken, LoopRecords, LoopRequeues
<1>10. CASE LoopChecks
  <2>1. loop.entry.attempts \in 0..MaxAttempts /\ loop.entry.attempts < MaxAttempts
    BY <1>1, <1>10 DEF LoopChecks, QueueBase, AttemptsInv, Entry
  <2>2. [loop.entry EXCEPT !.attempts = @ + 1] \in Entry
    BY <1>1, <2>1, DeliveryAssumption DEF Entry
  <2>3. [loop EXCEPT !.step = "lock", !.entry.attempts = @ + 1] \in LoopState
    BY <1>1, <2>2 DEF LoopState, LoopSteps
  <2> QED
    BY <1>3, <1>10, <2>3 DEF LoopChecks
<1>11. CASE LoopLocks
  <2>1. [loop EXCEPT !.step = "sending", !.dead = Cancelled] \in LoopState
    BY <1>1 DEF LoopState, LoopSteps, Cancelled
  <2> QED
    BY <1>3, <1>11, <2>1 DEF LoopLocks
<1>12. CASE \E o \in Outcome : LoopReturns(o)
  BY <1>3, <1>4, <1>12 DEF LoopReturns, LoopSteps
<1>13. CASE \/ StopFences \/ StopClears \/ StopCancels \/ \E k \in Keys : BecomesDue(k)
            \/ \E p \in Publishers : PublisherStep(p) \/ \E k \in Keys : PublishBegin(p, k)
            \/ UNCHANGED vars
  BY <1>1, <1>13 DEF StopFences, StopClears, StopCancels, BecomesDue, PublishBegin,
     PublisherStep, Supersede, SceneApplies, SceneRefuses, PublishLock, PublishReturns,
     PublishRecords, Enqueue, EnqueueRefused, vars
<1> QED
  BY <1>5, <1>6, <1>7, <1>8, <1>9, <1>10, <1>11, <1>12, <1>13 DEF Next, LoopStep, StopStep

\* The locals of publishWithGenerations.
LEMMA PublisherTypes ==
  ASSUME QueueBase, [Next]_vars
  PROVE  publisher' \in [Publishers -> PublisherState]
<1>1. publisher \in [Publishers -> PublisherState] /\ generation \in Nat /\ delivery \in Nat
      /\ issued \in [Keys -> Nat]
  BY DEF QueueBase, TypeOK
<1>2. ASSUME NEW p \in Publishers
      PROVE  /\ \A x \in PublisherSteps :
                  GoTo(p, x) => publisher' \in [Publishers -> PublisherState]
             /\ Finish(p) => publisher' \in [Publishers -> PublisherState]
  BY <1>1, Defaults DEF GoTo, Finish, PublisherState
<1>3. ASSUME NEW p \in Publishers, Supersede(p) \/ SceneApplies(p)
      PROVE  publisher' \in [Publishers -> PublisherState]
  BY <1>2, <1>3 DEF Supersede, SceneApplies, PublisherSteps
<1>4. ASSUME NEW p \in Publishers,
             SceneRefuses(p) \/ PublishRecords(p) \/ Enqueue(p) \/ EnqueueRefused(p)
      PROVE  publisher' \in [Publishers -> PublisherState]
  BY <1>2, <1>4 DEF SceneRefuses, PublishRecords, Enqueue, EnqueueRefused
<1>5. ASSUME NEW p \in Publishers, PublishLock(p)
      PROVE  publisher' \in [Publishers -> PublisherState]
  <2>1. ASSUME NEW d \in BOOLEAN
        PROVE  [publisher EXCEPT ![p].step = "sending", ![p].dead = d]
                 \in [Publishers -> PublisherState]
    BY <1>1 DEF PublisherState, PublisherSteps
  <2> QED
    BY <1>5, <2>1 DEF PublishLock
<1>6. ASSUME NEW p \in Publishers, NEW o \in Outcome, PublishReturns(p, o)
      PROVE  publisher' \in [Publishers -> PublisherState]
  BY <1>2, <1>6 DEF PublishReturns, PublisherSteps, Outcome
<1>7. ASSUME NEW p \in Publishers, NEW k \in Keys, PublishBegin(p, k)
      PROVE  publisher' \in [Publishers -> PublisherState]
  BY <1>1, <1>7 DEF PublishBegin, PublisherState, PublisherSteps
<1>8. CASE StartJob \/ StopFences \/ StopStep \/ LoopStep \/ \E k \in Keys : BecomesDue(k)
  BY <1>1, <1>8 DEF StartJob, StopFences, StopStep, StopClears, StopCancels, StopEnds, LoopStep,
     LoopTakes, LoopSleeps, LoopTimer, LoopWoken, LoopExits, LoopSleepsLate, LoopChecks,
     LoopLocks, LoopReturns, LoopRecords, LoopRequeues, BecomesDue
<1>9. CASE UNCHANGED vars
  BY <1>1, <1>9 DEF vars
<1> QED
  BY <1>3, <1>4, <1>5, <1>6, <1>7, <1>8, <1>9 DEF Next, PublisherStep

\* The retry queue.
LEMMA PendingTypes ==
  ASSUME QueueBase, [Next]_vars
  PROVE  pending' \in [Keys -> Entry]
<1>1. pending \in [Keys -> Entry] /\ loop.entry \in Entry /\ generation \in Nat
  BY DEF QueueBase, TypeOK
<1>2. \A k \in Keys : [pending EXCEPT ![k].due = TRUE] \in [Keys -> Entry]
  BY <1>1 DEF Entry
<1>3. \A e \in Entry : \A k \in Keys : [pending EXCEPT ![k] = e] \in [Keys -> Entry]
  BY <1>1
<1>4. ASSUME NEW p \in Publishers, Enqueue(p)
      PROVE  pending' \in [Keys -> Entry]
  <2>1. [number |-> publisher[p].number, generation |-> generation, attempts |-> 1,
         due |-> FALSE, queued |-> NextStamp] \in Entry
    BY <1>1, NextStampIsLater, DeliveryAssumption DEF QueueBase, TypeOK, PublisherState, Entry
  <2> QED
    BY <1>1, <1>4, <2>1, Defaults DEF Enqueue
<1>5. CASE LoopRequeues
  <2>1. [loop.entry EXCEPT !.due = FALSE] \in Entry
    BY <1>1 DEF Entry
  <2> QED
    BY <1>1, <1>3, <1>5, <2>1 DEF LoopRequeues
<1>6. CASE LoopTakes \/ StopClears
  BY <1>1, <1>6, Defaults DEF LoopTakes, StopClears
<1>7. CASE \E k \in Keys : BecomesDue(k) \/ LoopSleepsLate(k)
  BY <1>2, <1>7 DEF BecomesDue, LoopSleepsLate
<1>8. CASE \E p \in Publishers : Supersede(p)
  BY <1>1, <1>8, Defaults DEF Supersede
<1>9. CASE \/ StartJob \/ StopFences \/ StopCancels \/ StopEnds
           \/ \E p \in Publishers : \/ \E k \in Keys : PublishBegin(p, k)
                                    \/ SceneApplies(p) \/ SceneRefuses(p) \/ PublishLock(p)
                                    \/ \E o \in Outcome : PublishReturns(p, o)
                                    \/ PublishRecords(p) \/ EnqueueRefused(p)
           \/ LoopSleeps \/ LoopTimer \/ LoopWoken \/ LoopExits \/ LoopChecks \/ LoopLocks
           \/ \E o \in Outcome : LoopReturns(o)
           \/ LoopRecords
           \/ UNCHANGED vars
  BY <1>1, <1>9 DEF StartJob, StopFences, StopCancels, StopEnds, PublishBegin, SceneApplies,
     SceneRefuses, PublishLock, PublishReturns, PublishRecords, EnqueueRefused, LoopSleeps,
     LoopTimer, LoopWoken, LoopExits, LoopChecks, LoopLocks, LoopReturns, LoopRecords,
     queueVars, vars
<1> QED
  BY <1>4, <1>5, <1>6, <1>7, <1>8, <1>9 DEF Next, PublisherStep, LoopStep, StopStep

\* All the types: the step of a job, of a publisher, of the loop.
LEMMA TypeStep ==
  ASSUME QueueBase, [Next]_vars
  PROVE  TypeOK'
<1>1. /\ loop' \in LoopState /\ publisher' \in [Publishers -> PublisherState]
      /\ pending' \in [Keys -> Entry]
  BY LoopTypes, PublisherTypes, PendingTypes
<1>2. TypeOK /\ loop.key \in Keys /\ loop.entry \in Entry
  BY DEF QueueBase, TypeOK
<1> HIDE DEF QueueBase
<1> USE <1>1 DEF TypeOK, LoopState, jobVars, queueVars, encoderVars
<1>3. CASE StartJob \/ StopFences
  <2>1. CASE StartJob
    BY <1>2, <2>1 DEF StartJob, JobSteps
  <2>2. CASE StopFences
    BY <1>2, <2>2 DEF StopFences, JobSteps
  <2> QED
    BY <1>3, <2>1, <2>2
<1>4. CASE StopStep
  <2>1. CASE StopClears
    BY <1>2, <2>1 DEF StopClears, JobSteps
  <2>2. CASE StopCancels
    BY <1>2, <2>2 DEF StopCancels, JobSteps
  <2>3. CASE StopEnds
    BY <1>2, <2>3 DEF StopEnds, JobSteps
  <2> QED
    BY <1>4, <2>1, <2>2, <2>3 DEF StopStep
<1>5. ASSUME NEW p \in Publishers
      PROVE  publisher[p].key \in Keys /\ publisher[p].number \in Nat
             /\ publisher[p].generation \in Nat /\ publisher[p] \in PublisherState
  BY <1>2 DEF PublisherState
<1>6. ASSUME NEW p \in Publishers, NEW k \in Keys, PublishBegin(p, k)
      PROVE  TypeOK'
  BY <1>2, <1>6 DEF PublishBegin
<1>7. ASSUME NEW p \in Publishers, Supersede(p)
      PROVE  TypeOK'
  BY <1>2, <1>5, <1>7 DEF Supersede
<1>8. ASSUME NEW p \in Publishers, SceneApplies(p) \/ SceneRefuses(p) \/ PublishLock(p)
      PROVE  TypeOK'
  BY <1>2, <1>5, <1>8 DEF SceneApplies, SceneRefuses, PublishLock, EventOf
<1>9. ASSUME NEW p \in Publishers, NEW o \in Outcome, PublishReturns(p, o)
      PROVE  TypeOK'
  <2>1. shown' \in [Keys -> Nat]
    BY <1>2, <1>5, <1>9 DEF PublishReturns, Shown
  <2>2. gaveUp' \subseteq (Keys \X Nat)
    <3>1. EventOf(p) \in Keys \X Nat
      BY <1>5 DEF EventOf
    <3>2. gaveUp' = gaveUp \/ gaveUp' = gaveUp \cup {EventOf(p)}
      BY <1>9 DEF PublishReturns, Outcome
    <3> QED
      BY <1>2, <3>1, <3>2
  <2> QED
    BY <1>2, <1>9, <2>1, <2>2 DEF PublishReturns
<1>10. ASSUME NEW p \in Publishers, PublishRecords(p) \/ EnqueueRefused(p)
      PROVE  TypeOK'
  BY <1>2, <1>5, <1>10 DEF PublishRecords, EnqueueRefused, RecordIfCurrent
<1>11. ASSUME NEW p \in Publishers, Enqueue(p)
       PROVE  TypeOK'
  <2>1. dropped' \subseteq (Keys \X Nat)
    <3>1. Victims \subseteq Keys
      BY <1>2, VictimIsQueued DEF Queued
    <3>2. \A v \in Keys : pending[v].number \in Nat
      BY <1>2 DEF Entry
    <3> QED
      BY <1>2, <1>5, <1>11, <3>1, <3>2 DEF Enqueue
  <2>2. latest' \in [Keys -> Nat] /\ wake' \in BOOLEAN
    BY <1>2, <1>5, <1>11 DEF Enqueue
  <2> QED
    BY <1>2, <1>11, <2>1, <2>2 DEF Enqueue
<1>12. CASE \/ LoopTakes \/ LoopSleeps \/ LoopTimer \/ LoopWoken \/ LoopExits
            \/ LoopChecks \/ LoopLocks \/ LoopRequeues
            \/ \E k \in Keys : LoopSleepsLate(k) \/ BecomesDue(k)
  BY <1>2, <1>12 DEF LoopTakes, LoopSleeps, LoopTimer, LoopWoken, LoopExits, LoopChecks,
     LoopLocks, LoopRequeues, LoopSleepsLate, BecomesDue
<1>13. ASSUME NEW o \in Outcome, LoopReturns(o)
       PROVE  TypeOK'
  <2>1. loop.entry.number \in Nat
    BY <1>2 DEF Entry
  <2>2. shown' \in [Keys -> Nat] /\ gaveUp' \subseteq (Keys \X Nat)
    BY <1>2, <1>13, <2>1 DEF LoopReturns, Shown
  <2> QED
    BY <1>2, <1>13, <2>2 DEF LoopReturns
<1>14. CASE LoopRecords
  <2>1. loop.entry.number \in Nat /\ loop.entry.generation \in Nat
    BY <1>2 DEF Entry
  <2> QED
    BY <1>2, <1>14, <2>1 DEF LoopRecords, RecordIfCurrent
<1>15. CASE UNCHANGED vars
  BY <1>2, <1>15 DEF vars
<1> QED
  BY <1>3, <1>4, <1>6, <1>7, <1>8, <1>9, <1>10, <1>11, <1>12, <1>13, <1>14, <1>15
     DEF Next, PublisherStep, LoopStep
-----------------------------------------------------------------------------
(* The queue and the recent events, whoever publishes.                     *)

\* Actions that leave the queue and the entry the loop carries alone, or give
\* up the latter.
QueueKept == UNCHANGED pending /\ (loop'.entry = loop.entry \/ loop'.entry = NoEntry)
             /\ (Carrying' => Carrying)

\* The actions that are of this kind.
LEMMA QueueKeptBy ==
  ASSUME QueueBase,
         \/ StartJob \/ StopFences \/ StopCancels \/ StopEnds
         \/ \E p \in Publishers : \/ \E k \in Keys : PublishBegin(p, k)
                                  \/ SceneApplies(p) \/ SceneRefuses(p) \/ PublishLock(p)
                                  \/ \E o \in Outcome : PublishReturns(p, o)
                                  \/ PublishRecords(p) \/ EnqueueRefused(p)
         \/ LoopSleeps \/ LoopTimer \/ LoopWoken \/ LoopExits \/ LoopLocks
         \/ \E o \in Outcome : LoopReturns(o)
         \/ LoopRecords
         \/ UNCHANGED vars
  PROVE  QueueKept
<1>1. loop \in LoopState
  BY DEF QueueBase, TypeOK, LoopState
<1> USE <1>1 DEF QueueKept, Carrying, LoopState, queueVars
<1>2. LoopRestart => /\ loop'.entry = NoEntry /\ ~Carrying'
  BY DEF LoopRestart, NoLoop
<1>3. \A x : LoopGoTo(x) => loop'.entry = loop.entry /\ loop'.step = x
  BY DEF LoopGoTo
<1>4. CASE StartJob \/ StopEnds
  <2>1. UNCHANGED pending
    BY <1>4 DEF StartJob, StopEnds
  <2>2. loop'.entry = NoEntry /\ loop'.step \in {"scan", "off"}
    <3>1. CASE StartJob
      BY <3>1 DEF StartJob, NoLoop
    <3>2. CASE StopEnds
      BY <3>2 DEF StopEnds, NoLoop
    <3> QED
      BY <1>4, <3>1, <3>2
  <2> QED
    BY <2>1, <2>2
<1>5. CASE \/ StopFences \/ StopCancels
           \/ \E p \in Publishers : \/ \E k \in Keys : PublishBegin(p, k)
                                    \/ SceneApplies(p) \/ SceneRefuses(p) \/ PublishLock(p)
                                    \/ \E o \in Outcome : PublishReturns(p, o)
                                    \/ PublishRecords(p) \/ EnqueueRefused(p)
           \/ UNCHANGED vars
  BY <1>5 DEF StopFences, StopCancels, PublishBegin, SceneApplies, SceneRefuses, PublishLock,
     PublishReturns, PublishRecords, EnqueueRefused, vars
<1>6. CASE LoopSleeps \/ LoopTimer \/ LoopWoken \/ LoopExits \/ LoopRecords
  BY <1>2, <1>3, <1>6 DEF LoopSleeps, LoopTimer, LoopWoken, LoopExits, LoopRecords
<1>7. CASE LoopLocks
  BY <1>2, <1>7 DEF LoopLocks
<1>8. CASE \E o \in Outcome : LoopReturns(o)
  BY <1>2, <1>3, <1>8 DEF LoopReturns
<1> QED
  BY <1>4, <1>5, <1>6, <1>7, <1>8

\* Number of entries, the one the loop carries included.
Load == Cardinality(Queued) + (IF Carrying THEN 1 ELSE 0)

\* Held by the loop means carried by it.
LEMMA LoadIsQueue ==
  ASSUME TypeOK
  PROVE  QueueIsBounded <=> Load <= MaxPending + 1
<1>1. (\E k \in Keys : Held(k)) <=> Carrying
  BY DEF TypeOK, Held, Carrying
<1> QED
  BY <1>1 DEF QueueIsBounded, Load

\* The bound on the entries is preserved: what a publisher adds, the limit or
\* a victim pays for; what the loop puts back, it had taken out.
LEMMA LoadStep ==
  ASSUME QueueBase, TypeOK', [Next]_vars
  PROVE  IsFiniteSet(Queued') /\ Load' <= MaxPending + 1
<1>1. /\ TypeOK /\ IsFiniteSet(Queued) /\ Cardinality(Queued) \in Nat
      /\ Load <= MaxPending + 1 /\ MaxPending \in Nat
  BY LoadIsQueue, FS_CardinalityType, DeliveryAssumption DEF QueueBase, QueueInv
<1>2. ASSUME Queued' \subseteq Queued, Carrying' => Carrying
      PROVE  IsFiniteSet(Queued') /\ Load' <= MaxPending + 1
  <2>1. IsFiniteSet(Queued') /\ Cardinality(Queued') <= Cardinality(Queued)
    BY <1>1, <1>2, FS_Subset
  <2>2. Cardinality(Queued') \in Nat
    BY <2>1, FS_CardinalityType
  <2> QED
    BY <1>1, <1>2, <2>1, <2>2 DEF Load
<1>3. QueueKept => Queued' \subseteq Queued /\ (Carrying' => Carrying)
  BY DEF QueueKept, Queued
<1>4. ASSUME NEW p \in Publishers, Supersede(p)
      PROVE  Queued' \subseteq Queued /\ (Carrying' => Carrying)
  BY <1>1, <1>4 DEF Supersede, Queued, Carrying, TypeOK
<1>6. CASE LoopTakes
  <2>1. PICK k \in Queued : /\ pending' = [pending EXCEPT ![k] = NoEntry]
                            /\ loop'.step = "check"
    <3>1. Due \subseteq Keys /\ Due \subseteq Queued /\ Due # {}
      BY <1>6 DEF LoopTakes, Due, Queued
    <3>2. Oldest(Due) \in Queued
      BY <1>1, <3>1, OldestIsMember
    <3> QED
      BY <1>1, <1>6, <3>2 DEF LoopTakes, TypeOK
  <2>2. Queued' = Queued \ {k}
    BY <1>1, <2>1 DEF Queued, TypeOK
  <2>3. IsFiniteSet(Queued') /\ Cardinality(Queued') = Cardinality(Queued) - 1
    BY <1>1, <2>1, <2>2, FS_RemoveElement
  <2>4. ~Carrying
    BY <1>6 DEF LoopTakes, Carrying
  <2> QED
    BY <1>1, <2>3, <2>4 DEF Load
<1>7. ASSUME NEW p \in Publishers, Enqueue(p)
      PROVE  IsFiniteSet(Queued') /\ Load' <= MaxPending + 1
  <2> DEFINE k == publisher[p].key
  <2>1. k \in Keys
    BY <1>1 DEF TypeOK, PublisherState
  <2>2. Carrying' <=> Carrying
    BY <1>7 DEF Enqueue, Carrying
  <2>3. CASE Full(k) /\ Victims = {}
    BY <1>2, <1>7, <2>2, <2>3 DEF Enqueue, Queued
  <2>4. CASE Full(k) /\ Victims # {}
    <3>1. PICK v \in Queued : Victims = {v}
      BY <1>1, <2>4, VictimIsQueued
    <3>2. Queued' \subseteq (Queued \ {v}) \cup {k}
      BY <1>1, <1>7, <2>1, <2>4, <3>1 DEF Enqueue, Queued, TypeOK
    <3>3. /\ IsFiniteSet(Queued \ {v}) /\ Cardinality(Queued \ {v}) = Cardinality(Queued) - 1
          /\ k \notin Queued \ {v}
      BY <1>1, <2>4, <3>1, FS_RemoveElement DEF Full, Queued
    <3>4. /\ IsFiniteSet((Queued \ {v}) \cup {k})
          /\ Cardinality((Queued \ {v}) \cup {k}) = Cardinality(Queued)
      <4> HIDE DEF k
      <4>1. Cardinality((Queued \ {v}) \cup {k}) = Cardinality(Queued \ {v}) + 1
        BY <3>3, FS_AddElement
      <4>2. IsFiniteSet((Queued \ {v}) \cup {k})
        BY <3>3, FS_AddElement
      <4> QED
        BY <1>1, <3>3, <4>1, <4>2
    <3>5. IsFiniteSet(Queued') /\ Cardinality(Queued') <= Cardinality(Queued)
      BY <3>2, <3>4, FS_Subset
    <3>6. Cardinality(Queued') \in Nat
      BY <3>5, FS_CardinalityType
    <3> QED
      BY <1>1, <2>2, <3>5, <3>6 DEF Load
  <2>5. CASE ~Full(k)
    <3>1. Queued' \subseteq Queued \cup {k}
      BY <1>1, <1>7, <2>1, <2>5 DEF Enqueue, Queued, TypeOK
    <3>2. CASE k \in Queued
      <4>1. Queued' \subseteq Queued
        BY <3>1, <3>2
      <4> QED
        BY <1>2, <2>2, <4>1
    <3>3. CASE k \notin Queued
      <4>1. Cardinality(Queued) < MaxPending
        BY <1>1, <2>1, <2>5, <3>3 DEF Full, Queued
      <4>2. IsFiniteSet(Queued \cup {k}) /\ Cardinality(Queued \cup {k}) = Cardinality(Queued) + 1
        BY <1>1, <3>3, FS_AddElement
      <4>3. IsFiniteSet(Queued') /\ Cardinality(Queued') <= Cardinality(Queued) + 1
        BY <3>1, <4>2, FS_Subset
      <4>4. Cardinality(Queued') \in Nat
        BY <4>3, FS_CardinalityType
      <4> QED
        BY <1>1, <4>1, <4>3, <4>4 DEF Load
    <3> QED
      BY <3>2, <3>3
  <2> QED
    BY <2>3, <2>4, <2>5
<1>8. CASE LoopRequeues
  <2>1. /\ loop.key \in Keys /\ Carrying /\ ~Carrying'
        /\ Queued' \subseteq Queued \cup {loop.key}
    BY <1>1, <1>8 DEF LoopRequeues, LoopRestart, NoLoop, Carrying, Queued, TypeOK
  <2>2. /\ IsFiniteSet(Queued \cup {loop.key})
        /\ Cardinality(Queued \cup {loop.key}) <= Cardinality(Queued) + 1
        /\ Cardinality(Queued \cup {loop.key}) \in Nat
    BY <1>1, FS_AddElement, FS_CardinalityType
  <2>3. IsFiniteSet(Queued') /\ Cardinality(Queued') <= Cardinality(Queued) + 1
    BY <1>1, <2>1, <2>2, FS_Subset, FS_CardinalityType
  <2>4. Cardinality(Queued') \in Nat
    BY <2>3, FS_CardinalityType
  <2> QED
    BY <1>1, <2>1, <2>3, <2>4 DEF Load
<1>9. ASSUME NEW k \in Keys, BecomesDue(k) \/ LoopSleepsLate(k)
      PROVE  Queued' \subseteq Queued /\ (Carrying' => Carrying)
  BY <1>1, <1>9 DEF BecomesDue, LoopSleepsLate, LoopGoTo, Queued, Carrying, TypeOK, NoEntry
<1>10. CASE LoopChecks
  <2>1. Queued' \subseteq Queued /\ (Carrying' => Carrying)
    BY <1>10 DEF LoopChecks, queueVars, Queued, Carrying
  <2> QED
    BY <1>2, <2>1
<1>11. StopClears => Queued' \subseteq Queued /\ (Carrying' => Carrying)
  BY DEF StopClears, Queued, Carrying
<1> QED
  BY <1>2, <1>3, <1>4, <1>6, <1>7, <1>8, <1>9, <1>10, <1>11, QueueKeptBy
     DEF Next, PublisherStep, LoopStep, StopStep

\* The times of the entries stay bounded.
LEMMA StampStep ==
  ASSUME QueueBase, [Next]_vars
  PROVE  \E b \in Nat : (\A k \in Keys : pending'[k].queued <= b) /\ loop'.entry.queued <= b
<1>1. /\ TypeOK /\ pending \in [Keys -> Entry] /\ loop.entry \in Entry
      /\ \A k \in Keys : pending[k].queued \in Nat
      /\ loop.entry.queued \in Nat /\ loop.key \in Keys /\ loop \in LoopState
  BY DEF QueueBase, TypeOK, Entry, LoopState
<1>2. PICK b \in Nat : (\A k \in Keys : pending[k].queued <= b) /\ loop.entry.queued <= b
  BY DEF QueueBase, QueueInv
<1>3. NoEntry.queued = 0
  BY DEF NoEntry
<1>4. QueueKept => (\A k \in Keys : pending'[k].queued <= b) /\ loop'.entry.queued <= b
  BY <1>2, <1>3 DEF QueueKept
<1>5. ASSUME NEW p \in Publishers, Enqueue(p)
      PROVE  \E c \in Nat : (\A k \in Keys : pending'[k].queued <= c) /\ loop'.entry.queued <= c
  <2>1. /\ NextStamp \in Nat /\ \A k \in Keys : pending[k].queued <= NextStamp
        /\ loop.entry.queued <= NextStamp
    BY <1>1, NextStampIsLater DEF QueueBase
  <2>2. loop' = loop /\ \A k \in Keys : pending'[k] = pending[k] \/ pending'[k] = NoEntry
                                         \/ pending'[k].queued = NextStamp
    BY <1>1, <1>5 DEF Enqueue
  <2>3. \A k \in Keys : pending'[k].queued <= NextStamp
    BY <1>3, <2>1, <2>2
  <2> QED
    BY <2>1, <2>2, <2>3
<1>6. ASSUME NEW p \in Publishers, Supersede(p)
      PROVE  (\A k \in Keys : pending'[k].queued <= b) /\ loop'.entry.queued <= b
  BY <1>1, <1>2, <1>3, <1>6 DEF Supersede
<1>7. CASE StopClears
  BY <1>2, <1>3, <1>7 DEF StopClears
<1>8. CASE LoopTakes
  <2>1. Due \subseteq Keys /\ Due # {}
    BY <1>8 DEF LoopTakes, Due, Queued
  <2>2. Oldest(Due) \in Keys
    BY <1>1, <2>1, OldestIsMember
  <2>3. loop'.entry = pending[Oldest(Due)]
    BY <1>1, <1>8 DEF LoopTakes, LoopState
  <2>4. \A k \in Keys : pending'[k].queued <= b
    BY <1>1, <1>2, <1>3, <1>8 DEF LoopTakes
  <2> QED
    BY <1>2, <2>2, <2>3, <2>4
<1>9. ASSUME NEW k \in Keys, BecomesDue(k) \/ LoopSleepsLate(k)
      PROVE  (\A j \in Keys : pending'[j].queued <= b) /\ loop'.entry.queued <= b
  <2>1. \A j \in Keys : pending'[j].queued = pending[j].queued
    BY <1>1, <1>9 DEF BecomesDue, LoopSleepsLate, Entry
  <2>2. loop'.entry = loop.entry
    BY <1>1, <1>9 DEF BecomesDue, LoopSleepsLate, LoopGoTo, LoopState
  <2> QED
    BY <1>2, <2>1, <2>2
<1>10. CASE LoopChecks
  <2>1. loop'.entry.queued = loop.entry.queued \/ loop'.entry = NoEntry
    <3>1. LoopRestart => loop'.entry = NoEntry
      BY DEF LoopRestart, NoLoop
    <3>2. loop' = [loop EXCEPT !.step = "lock", !.entry.attempts = @ + 1] =>
            loop'.entry = [loop.entry EXCEPT !.attempts = @ + 1]
      BY <1>1 DEF LoopState
    <3>3. [loop.entry EXCEPT !.attempts = @ + 1].queued = loop.entry.queued
      BY <1>1 DEF Entry
    <3> QED
      BY <1>10, <3>1, <3>2, <3>3 DEF LoopChecks
  <2> QED
    BY <1>2, <1>3, <1>10, <2>1 DEF LoopChecks, queueVars
<1>11. CASE LoopRequeues
  <2>1. loop'.entry = NoEntry
    BY <1>11 DEF LoopRequeues, LoopRestart, NoLoop
  <2>2. [loop.entry EXCEPT !.due = FALSE].queued = loop.entry.queued
    BY <1>1 DEF Entry
  <2>3. \A k \in Keys : pending'[k].queued <= b
    BY <1>1, <1>2, <1>11, <2>2 DEF LoopRequeues
  <2> QED
    BY <1>2, <1>3, <2>1, <2>3
<1> QED
  BY <1>4, <1>5, <1>6, <1>7, <1>8, <1>9, <1>10, <1>11, QueueKeptBy
     DEF Next, PublisherStep, LoopStep, StopStep

\* An entry never runs out of attempts while it is queued.
LEMMA AttemptsStep ==
  ASSUME QueueBase, [Next]_vars
  PROVE  AttemptsInv'
<1>1. /\ pending \in [Keys -> Entry] /\ loop.entry \in Entry /\ loop \in LoopState
      /\ loop.entry.attempts \in Nat /\ MaxAttempts \in Nat \ {0, 1}
      /\ NoEntry.attempts = 0 /\ AttemptsInv /\ TypeOK
  BY DeliveryAssumption DEF QueueBase, TypeOK, LoopState, Entry, NoEntry
<1> USE <1>1 DEF AttemptsInv
<1>2. CASE UNCHANGED <<pending, loop>>
  BY <1>2
<1>3. CASE \/ StopFences \/ StopCancels \/ UNCHANGED vars
           \/ \E p \in Publishers : \/ \E k \in Keys : PublishBegin(p, k)
                                    \/ SceneApplies(p) \/ SceneRefuses(p) \/ PublishLock(p)
                                    \/ \E o \in Outcome : PublishReturns(p, o)
                                    \/ PublishRecords(p) \/ EnqueueRefused(p)
  BY <1>2, <1>3 DEF StopFences, StopCancels, PublishBegin, SceneApplies, SceneRefuses,
     PublishLock, PublishReturns, PublishRecords, EnqueueRefused, queueVars, vars
<1>4. CASE StartJob \/ StopEnds
  <2>1. CASE StartJob
    BY <2>1 DEF StartJob, NoLoop
  <2>2. CASE StopEnds
    BY <2>2 DEF StopEnds, NoLoop
  <2> QED
    BY <1>4, <2>1, <2>2
<1>5. CASE StopClears
  BY <1>5 DEF StopClears
<1>6. ASSUME NEW p \in Publishers, Supersede(p) \/ Enqueue(p)
      PROVE  AttemptsInv'
  BY <1>6 DEF Supersede, Enqueue
<1>7. CASE LoopTakes
  <2>1. Due \subseteq Keys /\ Due # {}
    BY <1>7 DEF LoopTakes, Due, Queued
  <2>2. Oldest(Due) \in Keys
    BY <2>1, OldestIsMember
  <2>3. loop'.entry = pending[Oldest(Due)]
    BY <1>7 DEF LoopTakes, LoopState
  <2> QED
    BY <1>7, <2>2, <2>3 DEF LoopTakes
<1>8. ASSUME NEW k \in Keys, BecomesDue(k) \/ LoopSleepsLate(k)
      PROVE  AttemptsInv'
  <2>1. \A j \in Keys : pending'[j].attempts = pending[j].attempts
    BY <1>8 DEF BecomesDue, LoopSleepsLate, Entry
  <2>2. loop' = loop \/ loop'.step = "wait"
    BY <1>8 DEF BecomesDue, LoopSleepsLate, LoopGoTo, LoopState
  <2> QED
    BY <2>1, <2>2
<1>9. CASE \/ LoopSleeps \/ LoopTimer \/ LoopWoken \/ LoopExits
           \/ LoopChecks \/ LoopLocks \/ LoopRecords
  <2>1. LoopRestart => loop'.step = "scan"
    BY DEF LoopRestart, NoLoop
  <2>2. \A x : LoopGoTo(x) => loop'.step = x
    BY DEF LoopGoTo, LoopState
  <2>3. pending' = pending /\ loop'.step \notin {"check", "failed"}
    BY <1>9, <2>1, <2>2 DEF LoopSleeps, LoopTimer, LoopWoken, LoopExits, LoopChecks, LoopLocks,
       LoopRecords, LoopState, queueVars
  <2> QED
    BY <2>3
<1>10. ASSUME NEW o \in Outcome, LoopReturns(o)
       PROVE  AttemptsInv'
  <2>1. LoopRestart => loop'.step = "scan"
    BY DEF LoopRestart, NoLoop
  <2>2. \A x : LoopGoTo(x) => loop'.step = x /\ loop'.entry = loop.entry
    BY DEF LoopGoTo, LoopState
  <2>3. pending' = pending
    BY <1>10 DEF LoopReturns, queueVars
  <2>4. loop'.step = "failed" => ~Final(o) /\ loop'.entry = loop.entry
    BY <1>10, <2>1, <2>2 DEF LoopReturns
  <2>5. loop'.step # "check"
    BY <1>10, <2>1, <2>2 DEF LoopReturns
  <2> QED
    BY <2>3, <2>4, <2>5 DEF Final
<1>11. CASE LoopRequeues
  <2>1. loop'.step = "scan"
    BY <1>11 DEF LoopRequeues, LoopRestart, NoLoop
  <2>2. [loop.entry EXCEPT !.due = FALSE].attempts = loop.entry.attempts
    BY DEF Entry
  <2> QED
    BY <1>11, <2>1, <2>2 DEF LoopRequeues
<1> QED
  BY <1>3, <1>4, <1>5, <1>6, <1>7, <1>8, <1>9, <1>10, <1>11
     DEF Next, PublisherStep, LoopStep, StopStep

\* recordDeliveredWorkerEvent compares the generation; Start empties the list.
LEMMA RecentStep ==
  ASSUME QueueBase, [Next]_vars
  PROVE  RecentOnlyCurrentJob'
<1>1. RecentOnlyCurrentJob
  BY DEF QueueBase
<1>2. CASE StartJob
  BY <1>2 DEF StartJob, RecentOnlyCurrentJob
<1>3. CASE StopFences \/ StopStep
  BY <1>3 DEF StopFences, StopStep, StopClears, StopCancels, StopEnds, RecentOnlyCurrentJob
<1>4. CASE \E p \in Publishers : PublisherStep(p) \/ \E k \in Keys : PublishBegin(p, k)
  <2>1. /\ UNCHANGED <<job, generation>>
        /\ recent' = recent \/ \E k, n : recent' = recent \cup {<<k, n, generation>>}
    BY <1>4 DEF PublisherStep, PublishBegin, Supersede, SceneApplies, SceneRefuses, PublishLock,
       PublishReturns, PublishRecords, RecordIfCurrent, Enqueue, EnqueueRefused, jobVars
  <2> QED
    BY <1>1, <2>1 DEF RecentOnlyCurrentJob
<1>5. CASE LoopStep \/ \E k \in Keys : BecomesDue(k)
  <2>1. /\ UNCHANGED <<job, generation>>
        /\ recent' = recent \/ \E k, n : recent' = recent \cup {<<k, n, generation>>}
    BY <1>5 DEF LoopStep, LoopTakes, LoopSleeps, LoopTimer, LoopWoken, LoopExits,
       LoopSleepsLate, LoopChecks, LoopLocks, LoopReturns, LoopRecords, RecordIfCurrent,
       LoopRequeues, BecomesDue, jobVars
  <2> QED
    BY <1>1, <2>1 DEF RecentOnlyCurrentJob
<1>6. CASE UNCHANGED vars
  BY <1>1, <1>6 DEF vars, jobVars, RecentOnlyCurrentJob
<1> QED
  BY <1>2, <1>3, <1>4, <1>5, <1>6 DEF Next

\* QueueBase is inductive.
LEMMA QueueBaseInit == Init => QueueBase
<1> SUFFICES ASSUME Init PROVE QueueBase
  OBVIOUS
<1>1. TypeOK
  BY Defaults DEF Init, TypeOK, JobSteps, LoopState
<1>2. AttemptsInv
  BY DeliveryAssumption DEF Init, AttemptsInv, NoEntry, NoLoop
<1>3. Queued = {} /\ ~Carrying
  BY DEF Init, Queued, Carrying, NoLoop
<1>4. IsFiniteSet(Queued) /\ QueueIsBounded
  <2>1. IsFiniteSet(Queued) /\ Cardinality(Queued) = 0
    BY <1>3, FS_EmptySet
  <2>2. Load <= MaxPending + 1
    BY <1>3, <2>1, DeliveryAssumption DEF Load
  <2> QED
    BY <1>1, <2>1, <2>2, LoadIsQueue
<1>5. QueueInv
  BY <1>4 DEF Init, QueueInv, NoEntry, NoLoop
<1> QED
  BY <1>1, <1>2, <1>4, <1>5 DEF QueueBase, RecentOnlyCurrentJob, Init

\* A step preserves QueueBase.
LEMMA QueueBaseNext ==
  ASSUME QueueBase, [Next]_vars
  PROVE  QueueBase'
<1>1. TypeOK'
  BY TypeStep
<1>2. IsFiniteSet(Queued') /\ Load' <= MaxPending + 1
  BY <1>1, LoadStep
<1>3. QueueIsBounded'
  <2>1. (\E k \in Keys : Held(k))' <=> Carrying'
    BY <1>1 DEF TypeOK, Held, Carrying
  <2> QED
    BY <1>2, <2>1 DEF QueueIsBounded, Load
<1>4. QueueInv'
  BY <1>2, StampStep DEF QueueInv
<1> QED
  BY <1>1, <1>3, <1>4, AttemptsStep, RecentStep DEF QueueBase

\* However many goroutines publish, for however many keys: the retry queue
\* never exceeds its limit by more than the entry the loop puts back, entries
\* keep within their attempts, and m.events shows the running job only
\* (enqueueWorkerEvent, deliverPendingWorkerEvent, recordDeliveredWorkerEvent).
THEOREM DeliveryIsBounded == Spec => []DeliveryInv
<1>1. QueueBase => DeliveryInv
  BY DEF QueueBase, DeliveryInv
<1> QED
  BY <1>1, QueueBaseInit, QueueBaseNext, PTL DEF Spec
-----------------------------------------------------------------------------
(* The order of events.                                                    *)

\* No two goroutines publish events of one key: the condition under which the
\* encoder sees the events of a key in order.
Exclusive == \A p, q \in Publishers : p # q => KeysOf[p] \cap KeysOf[q] = {}

\* OrderInv without QueueBase.
OrderParts == JobInv /\ LockInv /\ NumberInv /\ LatestInv /\ ShownInv /\ NewestNotLost

\* What a step does to a publisher, to the loop, to the entry of a key.
Stays(q) == publisher'[q] = publisher[q]
OthersStay(p) == \A q \in Publishers : q # p => Stays(q)
Moves(p, x) ==
  /\ OthersStay(p) /\ publisher'[p].step = x
  /\ publisher'[p].key = publisher[p].key /\ publisher'[p].number = publisher[p].number
  /\ publisher'[p].generation = publisher[p].generation
Ends(p) == OthersStay(p) /\ publisher'[p].step = "idle"
LoopMoves(x) ==
  /\ loop'.step = x /\ loop'.ctx = loop.ctx /\ loop'.key = loop.key
  /\ loop'.entry.number = loop.entry.number /\ loop'.entry.generation = loop.entry.generation
LoopScans == loop'.step = "scan" /\ loop'.ctx = loop.ctx
SameEntry(k) ==
  /\ (pending'[k] = NoEntry) <=> (pending[k] = NoEntry)
  /\ pending'[k].number = pending[k].number /\ pending'[k].generation = pending[k].generation

\* The numbers are numbers.
Numbers ==
  /\ generation \in Nat
  /\ \A k \in Keys : /\ issued[k] \in Nat /\ shown[k] \in Nat /\ latest[k] \in Nat
                     /\ pending[k].number \in Nat /\ pending[k].generation \in Nat
  /\ \A p \in Publishers : /\ publisher[p].key \in Keys /\ publisher[p].number \in Nat
                           /\ publisher[p].generation \in Nat
  /\ loop.key \in Keys /\ loop.entry.number \in Nat /\ loop.entry.generation \in Nat

\* Types give numbers.
LEMMA NumbersTyped == TypeOK => Numbers
<1> SUFFICES ASSUME TypeOK PROVE Numbers
  OBVIOUS
<1>1. loop.entry \in Entry /\ loop.key \in Keys
  BY DEF TypeOK
<1>2. \A k \in Keys : pending[k] \in Entry
  BY DEF TypeOK
<1>3. \A p \in Publishers : publisher[p] \in PublisherState
  BY DEF TypeOK
<1> QED
  BY <1>1, <1>2, <1>3 DEF TypeOK, Numbers, Entry, PublisherState

\* The steps of the locals, field by field.
LEMMA Effects ==
  ASSUME TypeOK
  PROVE  /\ \A p \in Publishers : /\ \A x : GoTo(p, x) => Moves(p, x)
                                  /\ Finish(p) => Ends(p)
         /\ \A x : LoopGoTo(x) => LoopMoves(x)
         /\ LoopRestart => LoopScans
         /\ NoEntry.number = 0
<1>1. loop \in LoopState /\ publisher \in [Publishers -> PublisherState]
  BY DEF TypeOK, LoopState
<1>2. ASSUME NEW p \in Publishers, NEW x PROVE GoTo(p, x) => Moves(p, x)
  BY <1>1 DEF GoTo, Moves, OthersStay, Stays, PublisherState
<1>3. ASSUME NEW p \in Publishers PROVE Finish(p) => Ends(p)
  BY <1>1 DEF Finish, Ends, OthersStay, Stays, IdlePublisher
<1>4. ASSUME NEW x PROVE LoopGoTo(x) => LoopMoves(x)
  BY <1>1 DEF LoopGoTo, LoopMoves, LoopState
<1>5. LoopRestart => LoopScans
  BY DEF LoopRestart, LoopScans, NoLoop
<1> QED
  BY <1>2, <1>3, <1>4, <1>5 DEF NoEntry

\* Start and Stop.
LEMMA JobOrder ==
  ASSUME QueueBase, OrderParts, Numbers, Numbers', StartJob \/ StopFences \/ StopStep
  PROVE  OrderParts'
<1> USE DeliveryAssumption DEF OrderParts, Numbers
<1>1. CASE StartJob
  <2>1. /\ job = "none" /\ job' = "active" /\ generation' = generation + 1
        /\ delivery' = generation + 1 /\ liveCtx' = generation + 1
        /\ loop'.step = "scan" /\ loop'.ctx = generation + 1
        /\ UNCHANGED <<pending, latest, publisherMu, publisher, issued, shown, gaveUp, dropped>>
    BY <1>1 DEF StartJob, NoLoop, encoderVars
  <2>2. JobInv'
    BY <2>1 DEF JobInv, Busy, Carrying
  <2>3. LockInv'
    BY <2>1 DEF LockInv, JobInv, At
  <2>4. NumberInv'
    BY <2>1 DEF NumberInv, Busy, Carrying
  <2>5. LatestInv' /\ ShownInv' /\ NewestNotLost'
    BY <2>1 DEF LatestInv, ShownInv, NewestNotLost, JobInv, Busy, Carrying, At
  <2> QED
    BY <2>2, <2>3, <2>4, <2>5
<1>2. CASE StopFences
  <2>1. /\ job = "active" /\ job' = "fenced" /\ generation' = generation + 1
        /\ UNCHANGED <<delivery, liveCtx, pending, latest, publisherMu, publisher, loop, issued,
                       shown, gaveUp, dropped>>
    BY <1>2 DEF StopFences, queueVars, encoderVars
  <2>2. JobInv'
    BY <2>1 DEF JobInv, Busy, Carrying
  <2>3. LockInv' /\ NumberInv'
    BY <2>1 DEF LockInv, NumberInv, Busy, Carrying, At
  <2>4. LatestInv' /\ ShownInv' /\ NewestNotLost'
    BY <2>1 DEF LatestInv, ShownInv, NewestNotLost, Carrying
  <2> QED
    BY <2>2, <2>3, <2>4
<1>3. CASE StopClears
  <2>1. /\ job = "fenced" /\ job' = "cleared" /\ delivery' = 0
        /\ \A k \in Keys : pending'[k] = NoEntry /\ latest'[k] = 0 /\ NoEntry.number = 0
        /\ UNCHANGED <<generation, liveCtx, publisherMu, publisher, loop, issued, shown,
                       gaveUp, dropped>>
    BY <1>3 DEF StopClears, encoderVars, NoEntry
  <2>2. JobInv' /\ LockInv'
    BY <2>1 DEF JobInv, LockInv, Busy, Carrying, At
  <2>3. NumberInv'
    BY <2>1 DEF NumberInv, Busy, Carrying
  <2>4. LatestInv' /\ ShownInv' /\ NewestNotLost'
    BY <2>1 DEF LatestInv, ShownInv, NewestNotLost
  <2> QED
    BY <2>2, <2>3, <2>4
<1>4. CASE StopCancels
  <2>1. /\ job = "cleared" /\ job' = "cancelled"
        /\ UNCHANGED <<generation, delivery, pending, latest, publisherMu, publisher, loop,
                       issued, shown, gaveUp, dropped>>
    BY <1>4 DEF StopCancels, encoderVars
  <2>2. JobInv' /\ LockInv' /\ NumberInv'
    BY <2>1 DEF JobInv, LockInv, NumberInv, Busy, Carrying, At
  <2>3. LatestInv' /\ ShownInv' /\ NewestNotLost'
    BY <2>1 DEF LatestInv, ShownInv, NewestNotLost, Carrying
  <2> QED
    BY <2>2, <2>3
<1>5. CASE StopEnds
  <2>1. /\ job = "cancelled" /\ job' = "none" /\ loop.step = "exited" /\ loop'.step = "off"
        /\ UNCHANGED <<generation, delivery, pending, latest, publisherMu, publisher,
                       issued, shown, gaveUp, dropped>>
    BY <1>5 DEF StopEnds, encoderVars, NoLoop
  <2>2. JobInv' /\ LockInv' /\ NumberInv'
    BY <2>1 DEF JobInv, LockInv, NumberInv, Busy, Carrying, At
  <2>3. LatestInv' /\ ShownInv' /\ NewestNotLost'
    BY <2>1 DEF LatestInv, ShownInv, NewestNotLost, Carrying
  <2> QED
    BY <2>2, <2>3
<1> QED
  BY <1>1, <1>2, <1>3, <1>4, <1>5 DEF StopStep

\* A request is accepted: its event is the newest of the key.
LEMMA BeginOrder ==
  ASSUME OrderParts, Numbers, Numbers', Exclusive,
         NEW p \in Publishers, NEW k \in Keys, PublishBegin(p, k), TypeOK
  PROVE  OrderParts'
<1> USE DEF OrderParts, Numbers
<1>1. /\ ~Busy(p) /\ k \in KeysOf[p] /\ job = "active" /\ OthersStay(p)
      /\ publisher'[p].step = "supersede" /\ publisher'[p].key = k
      /\ publisher'[p].number = issued[k] + 1 /\ publisher'[p].generation = generation
      /\ issued'[k] = issued[k] + 1
      /\ \A j \in Keys : j # k => issued'[j] = issued[j]
      /\ UNCHANGED <<job, generation, delivery, liveCtx, pending, latest, publisherMu, loop,
                     shown, gaveUp, dropped>>
  BY DEF PublishBegin, TypeOK, Busy, OthersStay, Stays, jobVars, queueVars, encoderVars
<1>2. \A q \in Publishers : Busy(q) /\ q # p => publisher[q].key # k
  BY <1>1 DEF Exclusive, NumberInv
<1>3. JobInv'
  BY <1>1 DEF JobInv, Busy, Carrying, OthersStay, Stays
<1>4. LockInv'
  BY <1>1 DEF LockInv, At, Busy, OthersStay, Stays
<1>5. NumberInv'
  BY <1>1, <1>2 DEF NumberInv, Busy, Carrying, OthersStay, Stays
<1>6. LatestInv'
  BY <1>1 DEF LatestInv, Busy, Carrying, At, OthersStay, Stays
<1>7. ShownInv'
  BY <1>1 DEF ShownInv, At, Busy, OthersStay, Stays
<1>8. NewestNotLost'
  BY <1>1 DEF NewestNotLost, At, Busy, Held, OthersStay, Stays
<1> QED
  BY <1>3, <1>4, <1>5, <1>6, <1>7, <1>8

\* supersedePendingWorkerEvent: what was queued for the key is obsolete.
LEMMA SupersedeOrder ==
  ASSUME OrderParts, Numbers, Numbers', Exclusive, NEW p \in Publishers, Supersede(p), TypeOK
  PROVE  OrderParts'
<1> USE DEF OrderParts, Numbers
<1>1. PICK k \in Keys : k = publisher[p].key
  OBVIOUS
<1>2. /\ At(p, "supersede") /\ Moves(p, "scene")
      /\ UNCHANGED <<job, generation, delivery, liveCtx, publisherMu, loop, issued, shown,
                     gaveUp, dropped>>
  BY Effects DEF Supersede, jobVars, encoderVars
<1>3. \A q \in Publishers : Busy(q) /\ q # p => publisher[q].key # k
  BY <1>1, <1>2 DEF Exclusive, NumberInv, Busy, At
<1>4. CASE publisher[p].generation # generation
  <2>1. UNCHANGED <<latest, pending>>
    BY <1>4 DEF Supersede
  <2>2. JobInv' /\ LockInv'
    BY <1>2, <2>1 DEF JobInv, LockInv, Busy, At, Carrying, Moves, OthersStay, Stays
  <2>3. NumberInv' /\ LatestInv'
    BY <1>2, <1>4, <2>1 DEF NumberInv, LatestInv, Busy, At, Carrying, Moves, OthersStay, Stays
  <2>4. ShownInv' /\ NewestNotLost'
    BY <1>2, <2>1 DEF ShownInv, NewestNotLost, Held, Busy, At, Moves, OthersStay, Stays
  <2> QED
    BY <2>2, <2>3, <2>4
<1>5. CASE publisher[p].generation = generation
  <2>1. /\ latest'[k] = publisher[p].number /\ pending'[k] = NoEntry /\ NoEntry.number = 0
        /\ \A j \in Keys : j # k => latest'[j] = latest[j] /\ pending'[j] = pending[j]
    BY <1>1, <1>5, Effects DEF Supersede, TypeOK
  <2>2. job = "active" /\ publisher[p].number = issued[k] /\ issued[k] > 0
        /\ (Carrying /\ loop.key = k => loop.entry.number < issued[k])
    BY <1>1, <1>2, <1>5 DEF JobInv, NumberInv, Busy, At
  <2>3. JobInv' /\ LockInv'
    BY <1>1, <1>2, <2>1, <2>2 DEF JobInv, LockInv, Busy, At, Carrying, Moves, OthersStay, Stays
  <2>4. NumberInv'
    BY <1>1, <1>2, <1>3, <2>1, <2>2 DEF NumberInv, Busy, At, Carrying, Moves, OthersStay, Stays
  <2>5. LatestInv'
    <3>1. (Carrying /\ pending[loop.key] # NoEntry => latest[loop.key] # loop.entry.number)'
      BY <1>2, <2>1 DEF LatestInv, Carrying
    <3>2. ASSUME NEW q \in Publishers, Busy(q)'
          PROVE  IF publisher'[q].generation = generation'
                 THEN ~At(q, "supersede")' => latest'[publisher'[q].key] = publisher'[q].number
                 ELSE latest'[publisher'[q].key] = 0
      <4>1. CASE q = p
        BY <1>1, <1>2, <1>5, <2>1, <4>1 DEF Moves
      <4>2. CASE q # p
        <5>1. publisher'[q] = publisher[q] /\ Busy(q) /\ publisher[q].key # k
          BY <1>2, <1>3, <3>2, <4>2 DEF Moves, OthersStay, Stays, Busy
        <5> QED
          BY <1>2, <2>1, <2>2, <5>1 DEF LatestInv, At
      <4> QED
        BY <4>1, <4>2
    <3> QED
      BY <3>1, <3>2 DEF LatestInv
  <2>6. ShownInv'
    BY <1>1, <1>2, <1>3, <2>1, <2>2
       DEF ShownInv, NumberInv, Busy, At, Carrying, Moves, OthersStay, Stays
  <2>7. NewestNotLost'
    BY <1>1, <1>2, <2>1, <2>2 DEF NewestNotLost, Held, Busy, At, Moves, OthersStay, Stays
  <2> QED
    BY <2>3, <2>4, <2>5, <2>6, <2>7
<1> QED
  BY <1>4, <1>5

\* The scene refuses the event, or the publisher queues for publisherMu.
LEMMA SceneOrder ==
  ASSUME OrderParts, Numbers, Numbers', NEW p \in Publishers, TypeOK,
         SceneApplies(p) \/ SceneRefuses(p) \/ PublishLock(p)
  PROVE  OrderParts'
<1> USE DEF OrderParts, Numbers
<1>1. UNCHANGED <<job, generation, delivery, liveCtx, pending, latest, loop, issued, shown,
                  dropped>>
  BY DEF SceneApplies, SceneRefuses, PublishLock, jobVars, queueVars, encoderVars
<1>2. CASE SceneApplies(p)
  <2>1. At(p, "scene") /\ Moves(p, "lock") /\ UNCHANGED <<publisherMu, gaveUp>>
    BY <1>2, Effects DEF SceneApplies, encoderVars
  <2>2. JobInv' /\ LockInv' /\ NumberInv'
    BY <1>1, <2>1 DEF JobInv, LockInv, NumberInv, Busy, At, Carrying, Moves, OthersStay, Stays
  <2>3. LatestInv' /\ ShownInv' /\ NewestNotLost'
    BY <1>1, <2>1 DEF LatestInv, ShownInv, NewestNotLost, Held, Busy, At, Carrying, Moves,
       OthersStay, Stays
  <2> QED
    BY <2>2, <2>3
<1>3. CASE SceneRefuses(p)
  <2>1. /\ At(p, "scene") /\ Ends(p) /\ gaveUp' = gaveUp \cup {EventOf(p)}
        /\ UNCHANGED publisherMu
    BY <1>3, Effects DEF SceneRefuses
  <2>2. JobInv' /\ LockInv' /\ NumberInv'
    BY <1>1, <2>1 DEF JobInv, LockInv, NumberInv, Busy, At, Carrying, Ends, OthersStay, Stays
  <2>3. LatestInv' /\ ShownInv'
    BY <1>1, <2>1 DEF LatestInv, ShownInv, Busy, At, Carrying, Ends, OthersStay, Stays
  <2>4. NewestNotLost'
    BY <1>1, <2>1 DEF NewestNotLost, LatestInv, Held, Busy, At, Ends, OthersStay, Stays, EventOf
  <2> QED
    BY <2>2, <2>3, <2>4
<1>4. CASE PublishLock(p)
  <2>1. At(p, "lock") /\ publisherMu = NoOne /\ publisherMu' = p /\ UNCHANGED gaveUp
    BY <1>4 DEF PublishLock, encoderVars
  <2>2. Moves(p, "sending")
    BY <1>4 DEF PublishLock, TypeOK, PublisherState, Moves, OthersStay, Stays
  <2>3. LockInv'
    BY <1>1, <2>1, <2>2, DeliveryAssumption DEF LockInv, At, Moves, OthersStay, Stays
  <2>4. JobInv' /\ NumberInv'
    BY <1>1, <2>1, <2>2 DEF JobInv, NumberInv, Busy, At, Carrying, Moves, OthersStay, Stays
  <2>5. LatestInv' /\ ShownInv' /\ NewestNotLost'
    BY <1>1, <2>1, <2>2 DEF LatestInv, ShownInv, NewestNotLost, Held, Busy, At, Carrying, Moves,
       OthersStay, Stays
  <2> QED
    BY <2>3, <2>4, <2>5
<1> QED
  BY <1>2, <1>3, <1>4

\* Publish returns: publisherMu kept the loop out, so that nothing older can
\* have been sent for the key meanwhile.
LEMMA ReturnOrder ==
  ASSUME OrderParts, Numbers, Numbers', Exclusive, NEW p \in Publishers, TypeOK,
         NEW o \in Outcome, PublishReturns(p, o)
  PROVE  OrderParts' /\ \A j \in Keys : shown'[j] >= shown[j]
<1> USE DEF OrderParts, Numbers
<1>1. PICK k \in Keys : k = publisher[p].key
  OBVIOUS
<1>2. /\ At(p, "sending") /\ publisherMu = p /\ loop.step # "sending" /\ publisherMu' = NoOne
      /\ UNCHANGED <<job, generation, delivery, liveCtx, pending, latest, loop, issued, dropped>>
  BY DeliveryAssumption DEF PublishReturns, LockInv, jobVars, queueVars
<1>3. \A q \in Publishers : Busy(q) /\ q # p => publisher[q].key # k
  BY <1>1, <1>2 DEF Exclusive, NumberInv, Busy, At
<1>4. /\ publisher[p].number = issued[k] /\ issued[k] > 0 /\ shown[k] <= issued[k]
      /\ Carrying /\ loop.key = k => loop.entry.number < issued[k]
      /\ job = "active" /\ latest[k] # 0 => latest[k] = issued[k]
  BY <1>1, <1>2 DEF NumberInv, LatestInv, Busy, At
<1>5. /\ shown'[k] \in {shown[k], issued[k]} /\ (o.result = "ok" => shown'[k] = issued[k])
      /\ \A j \in Keys : j # k => shown'[j] = shown[j]
  BY <1>1, <1>4 DEF PublishReturns, Shown, Outcomes, TypeOK
<1>6. \/ o.result = "ok" /\ Moves(p, "sent") /\ gaveUp' = gaveUp
      \/ Moves(p, "failed") /\ gaveUp' = gaveUp
      \/ Ends(p) /\ gaveUp' = gaveUp \cup {<<k, issued[k]>>}
  <2>1. o.result \in {"ok", "retryable", "final"}
    BY DEF Outcome
  <2>2. EventOf(p) = <<k, issued[k]>>
    BY <1>1, <1>4 DEF EventOf
  <2> QED
    BY <2>1, <2>2, Effects DEF PublishReturns
<1>7. /\ OthersStay(p) /\ Busy(p)
      /\ \/ publisher'[p].step = "idle"
         \/ /\ publisher'[p].key = k /\ publisher'[p].number = publisher[p].number
            /\ publisher'[p].generation = publisher[p].generation
            /\ publisher'[p].step \in {"sent", "failed"}
      /\ publisher'[p].step = "sent" => shown'[k] = issued[k]
  BY <1>1, <1>2, <1>5, <1>6 DEF Moves, Ends, Busy, At
<1>8. JobInv'
  BY <1>1, <1>2, <1>7 DEF JobInv, Busy, Carrying, OthersStay, Stays
<1>9. LockInv'
  BY <1>2, <1>7, DeliveryAssumption DEF LockInv, At, OthersStay, Stays
<1>10. NumberInv'
  BY <1>1, <1>2, <1>4, <1>5, <1>7 DEF NumberInv, Busy, Carrying, OthersStay, Stays
<1>11. LatestInv'
  BY <1>1, <1>2, <1>7 DEF LatestInv, Busy, Carrying, At, OthersStay, Stays
<1>12. ShownInv'
  <2>1. (job = "active" => \A j \in Keys : latest[j] # 0 => shown[j] <= latest[j])'
    BY <1>2, <1>4, <1>5 DEF ShownInv
  <2>2. (job = "active" => \A q \in Publishers :
           At(q, "sent") /\ publisher[q].generation = generation =>
             /\ shown[publisher[q].key] = publisher[q].number
             /\ ~(loop.step = "sending" /\ loop.key = publisher[q].key))'
    BY <1>1, <1>2, <1>3, <1>4, <1>5, <1>7 DEF ShownInv, At, Busy, OthersStay, Stays
  <2>3. (job = "active" /\ loop.step = "sent" /\ loop.entry.number = latest[loop.key] =>
           shown[loop.key] = loop.entry.number)'
    BY <1>2, <1>4, <1>5 DEF ShownInv, NumberInv, Carrying
  <2> QED
    BY <1>2, <2>1, <2>2, <2>3 DEF ShownInv
<1>13. NewestNotLost'
  <2>1. SUFFICES ASSUME job' = "active", NEW j \in Keys, latest'[j] # 0,
                        \A q \in Publishers : At(q, "idle")' \/ publisher'[q].key # j
                 PROVE  \/ shown'[j] = latest'[j]
                        \/ pending'[j].number = latest'[j]
                        \/ Held(j)' /\ loop'.entry.number = latest'[j]
                        \/ <<j, latest'[j]>> \in gaveUp'
                        \/ j \notin Protected /\ <<j, latest'[j]>> \in dropped'
    BY DEF NewestNotLost
  <2>2. CASE j = k
    <3>1. publisher'[p].step = "idle"
      BY <1>7, <2>1, <2>2 DEF At
    <3>2. gaveUp' = gaveUp \cup {<<k, issued[k]>>}
      BY <1>6, <3>1 DEF Moves
    <3> QED
      BY <1>2, <1>4, <2>1, <2>2, <3>2
  <2>3. CASE j # k
    <3>1. \A q \in Publishers : At(q, "idle") \/ publisher[q].key # j
      BY <1>1, <1>7, <2>1, <2>3 DEF At, OthersStay, Stays
    <3>2. gaveUp \subseteq gaveUp'
      BY <1>6
    <3> QED
      BY <1>2, <1>5, <2>1, <2>3, <3>1, <3>2 DEF NewestNotLost, Held
  <2> QED
    BY <2>2, <2>3
<1>14. \A j \in Keys : shown'[j] >= shown[j]
  BY <1>4, <1>5
<1> QED
  BY <1>8, <1>9, <1>10, <1>11, <1>12, <1>13, <1>14

\* A delivered event is recorded; one whose job has ended is forgotten.
LEMMA EndOrder ==
  ASSUME OrderParts, Numbers, Numbers', NEW p \in Publishers, TypeOK,
         PublishRecords(p) \/ EnqueueRefused(p)
  PROVE  OrderParts'
<1> USE DEF OrderParts, Numbers
<1>1. /\ Ends(p)
      /\ UNCHANGED <<job, generation, delivery, liveCtx, pending, latest, loop, issued, shown,
                     gaveUp, dropped, publisherMu>>
  BY Effects DEF PublishRecords, EnqueueRefused, jobVars, queueVars, encoderVars
<1>2. \/ At(p, "sent")
      \/ At(p, "failed") /\ (publisher[p].generation # generation \/ delivery = 0)
  BY DEF PublishRecords, EnqueueRefused
<1>3. JobInv' /\ LockInv' /\ NumberInv'
  BY <1>1, <1>2 DEF JobInv, LockInv, NumberInv, Busy, At, Carrying, Ends, OthersStay, Stays
<1>4. LatestInv' /\ ShownInv'
  BY <1>1, <1>2 DEF LatestInv, ShownInv, Busy, At, Carrying, Ends, OthersStay, Stays
<1>5. NewestNotLost'
  <2>1. job = "active" => \/ latest[publisher[p].key] = 0
                          \/ shown[publisher[p].key] = latest[publisher[p].key]
    BY <1>2 DEF JobInv, LatestInv, ShownInv, Busy, At
  <2>2. \A q \in Publishers : q # p => publisher'[q] = publisher[q]
    BY <1>1 DEF Ends, OthersStay, Stays
  <2> QED
    BY <1>1, <2>1, <2>2 DEF NewestNotLost, Held, At
<1> QED
  BY <1>3, <1>4, <1>5

\* A queue that is full of protected events has room for no other key's.
LEMMA ProtectedFit ==
  ASSUME TypeOK, NEW k \in Keys, Full(k), Queued \subseteq Protected
  PROVE  k \notin Protected
<1> SUFFICES ASSUME k \in Protected PROVE FALSE
  OBVIOUS
<1>1. /\ IsFiniteSet(Protected) /\ Cardinality(Protected) <= MaxPending /\ MaxPending \in Nat
      /\ Cardinality(Protected) \in Nat
  BY DeliveryAssumption, FS_CardinalityType
<1>2. Queued \subseteq Protected \ {k} /\ Cardinality(Queued) >= MaxPending
  BY DEF Full, Queued
<1>3. /\ IsFiniteSet(Protected \ {k})
      /\ Cardinality(Protected \ {k}) = Cardinality(Protected) - 1
  BY <1>1, FS_RemoveElement
<1>4. IsFiniteSet(Queued) /\ Cardinality(Queued) <= Cardinality(Protected \ {k})
  BY <1>2, <1>3, FS_Subset
<1>5. Cardinality(Queued) \in Nat
  BY <1>4, FS_CardinalityType
<1> QED
  BY <1>1, <1>2, <1>3, <1>4, <1>5

\* enqueueWorkerEvent, key by key: another key loses its entry only if it is
\* not protected and the loss is recorded; so does the key itself.
LEMMA EnqueueEffects ==
  ASSUME TypeOK, NEW p \in Publishers, Enqueue(p)
  PROVE  LET k == publisher[p].key
             n == publisher[p].number IN
         /\ dropped \subseteq dropped'
         /\ \A j \in Keys \ {k} :
              \/ pending'[j] = pending[j]
              \/ /\ pending'[j] = NoEntry /\ j \notin Protected
                 /\ <<j, pending[j].number>> \in dropped'
         /\ \/ pending'[k] = pending[k] /\ k \notin Protected /\ <<k, n>> \in dropped'
            \/ pending'[k].number = n /\ pending'[k].generation = generation
<1> DEFINE k == publisher[p].key
           n == publisher[p].number
<1>1. k \in Keys
  BY DEF TypeOK, PublisherState
<1>2. CASE Full(k) /\ Victims = {}
  <2>1. pending' = pending /\ dropped' = dropped \cup {<<k, n>>}
    BY <1>2 DEF Enqueue
  <2>2. Queued \subseteq Protected
    BY <1>2, VictimIsQueued
  <2>3. k \notin Protected
    BY <1>1, <1>2, <2>2, ProtectedFit
  <2> QED
    BY <2>1, <2>3
<1>3. CASE Full(k) /\ Victims # {}
  <2>1. PICK v \in Queued \ Protected : Victims = {v}
    BY <1>3, VictimIsQueued
  <2>2. /\ dropped' = dropped \cup {<<w, pending[w].number>> : w \in {v}}
        /\ pending'[k].number = n /\ pending'[k].generation = generation
        /\ \A j \in Keys \ {k} : pending'[j] = IF j \in {v} THEN NoEntry ELSE pending[j]
    BY <1>1, <1>3, <2>1 DEF Enqueue
  <2> QED
    BY <2>1, <2>2
<1>4. CASE ~Full(k)
  <2>1. /\ dropped' = dropped \cup {<<w, pending[w].number>> : w \in {}}
        /\ pending'[k].number = n /\ pending'[k].generation = generation
        /\ \A j \in Keys \ {k} : pending'[j] = pending[j]
    BY <1>1, <1>4 DEF Enqueue
  <2> QED
    BY <2>1
<1> QED
  BY <1>2, <1>3, <1>4

\* A failed event enters the queue: it is the newest of its key.
LEMMA EnqueueOrder ==
  ASSUME OrderParts, Numbers, Numbers', Exclusive, NEW p \in Publishers, TypeOK, Enqueue(p)
  PROVE  OrderParts'
<1> USE DEF OrderParts, Numbers
<1>1. PICK k \in Keys : k = publisher[p].key
  OBVIOUS
<1>2. /\ At(p, "failed") /\ Ends(p) /\ publisher[p].generation = generation
      /\ UNCHANGED <<job, generation, delivery, liveCtx, publisherMu, loop, issued, shown, gaveUp>>
  BY Effects DEF Enqueue, jobVars
<1>3. \A q \in Publishers : Busy(q) /\ q # p => publisher[q].key # k
  BY <1>1, <1>2 DEF Exclusive, NumberInv, Busy, At
<1>4. /\ publisher[p].number = issued[k] /\ issued[k] > 0 /\ job = "active"
      /\ pending[k].number < issued[k]
      /\ Carrying /\ loop.key = k => loop.entry.number < issued[k]
      /\ latest[k] = issued[k]
  BY <1>1, <1>2 DEF JobInv, NumberInv, LatestInv, Busy, At
<1>5. \A j \in Keys : latest'[j] = latest[j]
  BY <1>1, <1>4 DEF Enqueue, TypeOK
<1>6. /\ dropped \subseteq dropped'
      /\ \A j \in Keys \ {k} :
           \/ pending'[j] = pending[j]
           \/ /\ pending'[j] = NoEntry /\ j \notin Protected
              /\ <<j, pending[j].number>> \in dropped'
      /\ \/ pending'[k] = pending[k] /\ k \notin Protected /\ <<k, issued[k]>> \in dropped'
         \/ pending'[k].number = issued[k] /\ pending'[k].generation = generation
  BY <1>1, <1>4, EnqueueEffects
<1>7. /\ NoEntry.number = 0
      /\ \A q \in Publishers : Busy(q)' =>
           /\ publisher'[q] = publisher[q] /\ Busy(q) /\ publisher[q].key # k
           /\ \/ pending'[publisher[q].key] = pending[publisher[q].key]
              \/ pending'[publisher[q].key] = NoEntry
      /\ \A q \in Publishers : q # p => publisher'[q] = publisher[q]
      /\ publisher'[p].step = "idle"
  BY <1>2, <1>3, <1>6, Effects DEF Ends, OthersStay, Stays, Busy
<1>7a. \A j \in Keys : /\ pending'[j].number \in {pending[j].number, 0, issued[j]}
                       /\ \/ pending'[j] = pending[j] \/ pending'[j] = NoEntry
                          \/ j = k /\ pending'[j].number = issued[j]
                             /\ pending'[j].generation = generation
  BY <1>6, <1>7
<1>8. JobInv'
  <2>1. ASSUME NEW j \in Keys, pending'[j] # NoEntry
        PROVE  pending'[j].generation = generation
    BY <1>4, <1>7a, <2>1 DEF JobInv
  <2> QED
    BY <1>2, <1>4, <1>7, <2>1 DEF JobInv, Busy, Carrying
<1>9. LockInv'
  BY <1>2, <1>7 DEF LockInv, At
<1>10. NumberInv'
  <2>1. ASSUME NEW q \in Publishers, Busy(q)'
        PROVE  (LET j == publisher[q].key IN
                 /\ j \in KeysOf[q] /\ publisher[q].number = issued[j] /\ issued[j] > 0
                 /\ pending[j].number < issued[j]
                 /\ Carrying /\ loop.key = j => loop.entry.number < issued[j])'
    BY <1>2, <1>7, <2>1 DEF NumberInv, Carrying
  <2>2. ASSUME NEW j \in Keys
        PROVE  (/\ pending[j].number <= issued[j]
                /\ pending[j] # NoEntry => pending[j].number > 0
                /\ shown[j] <= issued[j] /\ latest[j] <= issued[j])'
    BY <1>2, <1>4, <1>5, <1>7a DEF NumberInv
  <2> QED
    BY <1>2, <2>1, <2>2 DEF NumberInv, Carrying
<1>11. LatestInv'
  <2>1. ASSUME NEW q \in Publishers, Busy(q)'
        PROVE  IF publisher'[q].generation = generation'
               THEN ~At(q, "supersede")' => latest'[publisher'[q].key] = publisher'[q].number
               ELSE latest'[publisher'[q].key] = 0
    BY <1>2, <1>4, <1>5, <1>7, <2>1 DEF LatestInv, At
  <2>2. (Carrying /\ pending[loop.key] # NoEntry => latest[loop.key] # loop.entry.number)'
    <3>1. CASE loop.key = k
      BY <1>2, <1>4, <1>5, <3>1 DEF Carrying
    <3>2. CASE loop.key # k
      BY <1>2, <1>5, <1>7a, <3>2 DEF LatestInv, Carrying
    <3> QED
      BY <3>1, <3>2
  <2> QED
    BY <2>1, <2>2 DEF LatestInv
<1>12. ShownInv'
  BY <1>2, <1>5, <1>7 DEF ShownInv, At
<1>13. NewestNotLost'
  <2>1. SUFFICES ASSUME NEW j \in Keys, latest'[j] # 0,
                        \A q \in Publishers : At(q, "idle")' \/ publisher'[q].key # j
                 PROVE  \/ shown'[j] = latest'[j]
                        \/ pending'[j].number = latest'[j]
                        \/ Held(j)' /\ loop'.entry.number = latest'[j]
                        \/ <<j, latest'[j]>> \in gaveUp'
                        \/ j \notin Protected /\ <<j, latest'[j]>> \in dropped'
    BY DEF NewestNotLost
  <2>2. CASE j = k
    BY <1>4, <1>5, <1>6, <2>2
  <2>3. CASE j # k
    <3>1. \A q \in Publishers : At(q, "idle") \/ publisher[q].key # j
      BY <1>1, <1>7, <2>1, <2>3 DEF At
    <3> QED
      BY <1>2, <1>4, <1>5, <1>6, <2>1, <2>3, <3>1 DEF NewestNotLost, Held
  <2> QED
    BY <2>2, <2>3
<1> QED
  BY <1>8, <1>9, <1>10, <1>11, <1>12, <1>13

\* Time passes, or the loop has nothing to send: no entry changes hands.
LEMMA WaitOrder ==
  ASSUME OrderParts, Numbers, Numbers', TypeOK,
         \/ \E k \in Keys : BecomesDue(k) \/ LoopSleepsLate(k)
         \/ LoopSleeps \/ LoopTimer \/ LoopWoken \/ LoopExits
  PROVE  OrderParts' /\ UNCHANGED shown
<1> USE DEF OrderParts, Numbers
<1>1. UNCHANGED <<job, generation, delivery, liveCtx, latest, publisherMu, publisher, issued,
                  shown, gaveUp, dropped>>
  BY DEF BecomesDue, LoopSleepsLate, LoopSleeps, LoopTimer, LoopWoken, LoopExits, jobVars,
     queueVars, encoderVars
<1>2. \A j \in Keys : SameEntry(j)
  <2>1. CASE \E k \in Keys : BecomesDue(k) \/ LoopSleepsLate(k)
    <3>1. PICK k \in Queued : pending' = [pending EXCEPT ![k].due = TRUE]
      BY <2>1 DEF BecomesDue, LoopSleepsLate, Queued
    <3>2. pending \in [Keys -> Entry] /\ k \in Keys
      BY <3>1 DEF TypeOK, Queued
    <3>3. /\ pending'[k].number = pending[k].number /\ pending'[k].due = TRUE
          /\ pending'[k].generation = pending[k].generation
      BY <3>1, <3>2 DEF Entry
    <3>4. pending[k] # NoEntry /\ pending'[k] # NoEntry
      BY <3>1, <3>3 DEF Queued, NoEntry
    <3>5. \A j \in Keys : j # k => pending'[j] = pending[j]
      BY <3>1, <3>2
    <3> QED
      BY <3>3, <3>4, <3>5 DEF SameEntry
  <2>2. CASE LoopSleeps \/ LoopTimer \/ LoopWoken \/ LoopExits
    BY <2>2 DEF LoopSleeps, LoopTimer, LoopWoken, LoopExits, queueVars, SameEntry
  <2> QED
    BY <2>1, <2>2
<1>3. \/ loop' = loop
      \/ /\ loop.step \in {"scan", "timer", "wait"} /\ loop'.ctx = loop.ctx
         /\ loop'.step \in {"scan", "timer", "wait", "exited"}
  BY Effects DEF BecomesDue, LoopSleepsLate, LoopSleeps, LoopTimer, LoopWoken, LoopExits,
     LoopMoves, LoopScans
<1>4. JobInv'
  BY <1>1, <1>2, <1>3 DEF JobInv, Busy, Carrying, SameEntry
<1>5. LockInv' /\ ShownInv'
  BY <1>1, <1>3 DEF LockInv, ShownInv, At
<1>6. NumberInv'
  BY <1>1, <1>2, <1>3 DEF NumberInv, Busy, Carrying, SameEntry
<1>7. LatestInv'
  BY <1>1, <1>2, <1>3 DEF LatestInv, Busy, At, Carrying, SameEntry
<1>8. NewestNotLost'
  BY <1>1, <1>2, <1>3 DEF NewestNotLost, Held, At, SameEntry
<1> QED
  BY <1>1, <1>4, <1>5, <1>6, <1>7, <1>8

\* The loop takes an entry out of the queue and carries it.
LEMMA TakeOrder ==
  ASSUME OrderParts, Numbers, Numbers', TypeOK, LoopTakes
  PROVE  OrderParts' /\ UNCHANGED shown
<1> USE DEF OrderParts, Numbers
<1>1. UNCHANGED <<job, generation, delivery, liveCtx, latest, publisherMu, publisher, issued,
                  shown, gaveUp, dropped>>
  BY DEF LoopTakes, jobVars, encoderVars
<1>2. PICK k \in Keys : /\ pending[k] # NoEntry /\ pending'[k] = NoEntry /\ NoEntry.number = 0
                        /\ \A j \in Keys : j # k => pending'[j] = pending[j]
                        /\ loop.step = "scan" /\ loop'.step = "check" /\ loop'.ctx = loop.ctx
                        /\ loop'.key = k /\ loop'.entry = pending[k]
  <2>1. Due \subseteq Keys /\ Due \subseteq Queued /\ Due # {}
    BY DEF LoopTakes, Due, Queued
  <2>2. Oldest(Due) \in Queued
    BY <2>1, OldestIsMember
  <2>3. pending \in [Keys -> Entry] /\ loop \in LoopState
    BY DEF TypeOK, LoopState
  <2> QED
    BY <2>2, <2>3, Effects DEF LoopTakes, Queued, LoopState
<1>3. JobInv'
  BY <1>1, <1>2 DEF JobInv, Busy, Carrying
<1>4. LockInv' /\ ShownInv'
  BY <1>1, <1>2 DEF LockInv, ShownInv, At
<1>5. NumberInv'
  BY <1>1, <1>2 DEF NumberInv, Busy, Carrying
<1>6. LatestInv'
  BY <1>1, <1>2 DEF LatestInv, Busy, At, Carrying
<1>7. NewestNotLost'
  BY <1>1, <1>2 DEF NewestNotLost, Held, At
<1> QED
  BY <1>1, <1>3, <1>4, <1>5, <1>6, <1>7

\* An entry the loop carries is forgotten only if it is not the newest event.
LEMMA ForgetOrder ==
  ASSUME OrderParts, Numbers, Numbers', TypeOK, Carrying, LoopScans,
         loop.step # "sending",
         \/ job # "active" \/ loop.entry.number # latest[loop.key]
         \/ shown[loop.key] = latest[loop.key],
         UNCHANGED <<jobVars, pending, latest, publisherMu, publisher, issued, encoderVars>>
  PROVE  OrderParts'
<1> USE DEF OrderParts, Numbers
<1>1. UNCHANGED <<job, generation, delivery, liveCtx, pending, latest, publisherMu, publisher,
                  issued, shown, gaveUp, dropped>>
  BY DEF jobVars, encoderVars
<1>2. JobInv'
  BY <1>1 DEF JobInv, Busy, Carrying, LoopScans
<1>3. LockInv' /\ ShownInv'
  BY <1>1 DEF LockInv, ShownInv, At, LoopScans
<1>4. NumberInv' /\ LatestInv'
  BY <1>1 DEF NumberInv, LatestInv, Busy, At, Carrying, LoopScans
<1>5. NewestNotLost'
  BY <1>1 DEF NewestNotLost, Held, At, LoopScans
<1> QED
  BY <1>2, <1>3, <1>4, <1>5

\* The check before publisherMu is taken.
LEMMA CheckOrder ==
  ASSUME OrderParts, Numbers, Numbers', TypeOK, LoopChecks
  PROVE  OrderParts' /\ UNCHANGED shown
<1> USE DEF OrderParts, Numbers
<1>1. /\ UNCHANGED <<job, generation, delivery, liveCtx, pending, latest, publisherMu, publisher,
                     issued, shown, gaveUp, dropped>>
      /\ loop.step = "check"
  BY DEF LoopChecks, jobVars, queueVars, encoderVars
<1>2. CASE IsCurrent(loop.key, loop.entry)
  <2>1. LoopMoves("lock")
    <3>1. loop' = [loop EXCEPT !.step = "lock", !.entry.attempts = @ + 1]
      BY <1>2 DEF LoopChecks
    <3>2. loop \in LoopState /\ loop.entry \in Entry
      BY DEF TypeOK, LoopState
    <3>3. loop'.entry = [loop.entry EXCEPT !.attempts = @ + 1]
      BY <3>1, <3>2 DEF LoopState
    <3> QED
      BY <3>1, <3>2, <3>3 DEF LoopState, Entry, LoopMoves
  <2>2. JobInv' /\ LockInv'
    BY <1>1, <2>1 DEF JobInv, LockInv, Busy, At, Carrying, LoopMoves
  <2>3. NumberInv' /\ LatestInv'
    BY <1>1, <2>1 DEF NumberInv, LatestInv, Busy, At, Carrying, LoopMoves
  <2>4. ShownInv' /\ NewestNotLost'
    BY <1>1, <2>1 DEF ShownInv, NewestNotLost, Held, At, LoopMoves
  <2> QED
    BY <1>1, <2>2, <2>3, <2>4
<1>3. CASE ~IsCurrent(loop.key, loop.entry)
  <2>1. LoopScans
    BY <1>3, Effects DEF LoopChecks
  <2>2. job # "active" \/ loop.entry.number # latest[loop.key]
    BY <1>1, <1>3 DEF IsCurrent, JobInv, Carrying
  <2>3. Carrying
    BY <1>1 DEF Carrying
  <2> QED
    BY <1>1, <2>1, <2>2, <2>3, ForgetOrder DEF LoopChecks, queueVars
<1> QED
  BY <1>2, <1>3

\* The check under publisherMu: what is sent is the newest event of its key.
LEMMA LockOrder ==
  ASSUME OrderParts, Numbers, Numbers', TypeOK, LoopLocks
  PROVE  OrderParts' /\ UNCHANGED shown
<1> USE DEF OrderParts, Numbers
<1>1. /\ UNCHANGED <<job, generation, delivery, liveCtx, pending, latest, publisher,
                     issued, shown, gaveUp, dropped>>
      /\ loop.step = "lock" /\ publisherMu = NoOne
  BY DEF LoopLocks, jobVars, queueVars, encoderVars
<1>2. CASE IsCurrent(loop.key, loop.entry)
  <2>1. LoopMoves("sending") /\ publisherMu' = Loop
    <3>1. loop \in LoopState
      BY DEF TypeOK, LoopState
    <3> QED
      BY <1>2, <3>1 DEF LoopLocks, LoopState, LoopMoves
  <2>2. /\ job = "active" /\ loop.entry.number = latest[loop.key]
        /\ latest[loop.key] # 0 /\ shown[loop.key] <= loop.entry.number
    BY <1>1, <1>2 DEF IsCurrent, JobInv, NumberInv, ShownInv, Carrying
  <2>3. JobInv'
    BY <1>1, <2>1 DEF JobInv, Busy, Carrying, LoopMoves
  <2>4. LockInv'
    BY <1>1, <2>1, DeliveryAssumption DEF LockInv, At, LoopMoves
  <2>5. NumberInv' /\ LatestInv'
    BY <1>1, <2>1 DEF NumberInv, LatestInv, Busy, At, Carrying, LoopMoves
  <2>6. ShownInv'
    <3>1. \A p \in Publishers :
            At(p, "sent") /\ publisher[p].generation = generation => loop.key # publisher[p].key
      BY <1>1, <2>2 DEF NumberInv, LatestInv, Busy, At, Carrying
    <3> QED
      BY <1>1, <2>1, <2>2, <3>1 DEF ShownInv, At, LoopMoves
  <2>7. NewestNotLost'
    BY <1>1, <2>1 DEF NewestNotLost, Held, At, LoopMoves
  <2> QED
    BY <1>1, <2>3, <2>4, <2>5, <2>6, <2>7
<1>3. CASE ~IsCurrent(loop.key, loop.entry)
  <2>1. LoopScans /\ UNCHANGED publisherMu
    BY <1>3, Effects DEF LoopLocks
  <2>2. job # "active" \/ loop.entry.number # latest[loop.key]
    BY <1>1, <1>3 DEF IsCurrent, JobInv, Carrying
  <2>3. Carrying
    BY <1>1 DEF Carrying
  <2> QED
    BY <1>1, <2>1, <2>2, <2>3, ForgetOrder DEF LoopLocks, queueVars
<1> QED
  BY <1>2, <1>3

\* The loop's Publish returns: publisherMu kept the publishers out.
LEMMA LoopReturnOrder ==
  ASSUME OrderParts, Numbers, Numbers', TypeOK, NEW o \in Outcome, LoopReturns(o)
  PROVE  OrderParts' /\ \A j \in Keys : shown'[j] >= shown[j]
<1> USE DEF OrderParts, Numbers
<1>1. PICK k \in Keys : k = loop.key
  OBVIOUS
<1>2. PICK m \in Nat : m = loop.entry.number
  OBVIOUS
<1>3. /\ UNCHANGED <<job, generation, delivery, liveCtx, pending, latest, publisher, issued,
                     dropped>>
      /\ loop.step = "sending" /\ publisherMu = Loop /\ publisherMu' = NoOne
      /\ \A p \in Publishers : ~At(p, "sending")
  BY DeliveryAssumption DEF LoopReturns, LockInv, jobVars, queueVars
<1>4. /\ shown'[k] \in {shown[k], m} /\ (o.result = "ok" => shown'[k] = m)
      /\ \A j \in Keys : j # k => shown'[j] = shown[j]
  BY <1>1, <1>2 DEF LoopReturns, Shown, Outcomes, TypeOK
<1>5. /\ shown[k] <= m /\ m \in 1..issued[k]
      /\ job = "active" => m <= latest[k]
  BY <1>1, <1>2, <1>3 DEF ShownInv, NumberInv, Carrying
<1>6. \/ LoopMoves("sent") /\ shown'[k] = m /\ gaveUp' = gaveUp
      \/ LoopMoves("failed") /\ gaveUp' = gaveUp
      \/ LoopScans /\ gaveUp' = gaveUp \cup {<<k, m>>}
  BY <1>1, <1>2, <1>4, Effects DEF LoopReturns
<1>7. /\ loop'.ctx = loop.ctx /\ loop'.step \in {"sent", "failed", "scan"}
      /\ Carrying' => loop'.key = k /\ loop'.entry.number = m
                      /\ loop'.entry.generation = loop.entry.generation
      /\ loop'.step = "sent" => shown'[k] = m
  BY <1>1, <1>2, <1>6 DEF LoopMoves, LoopScans, Carrying
<1>8. JobInv'
  BY <1>3, <1>7 DEF JobInv, Busy, Carrying
<1>9. LockInv'
  BY <1>3, <1>7, DeliveryAssumption DEF LockInv, At
<1>10. NumberInv'
  BY <1>1, <1>2, <1>3, <1>4, <1>5, <1>7 DEF NumberInv, Busy, Carrying
<1>11. LatestInv'
  BY <1>1, <1>2, <1>3, <1>7 DEF LatestInv, Busy, At, Carrying
<1>12. ShownInv'
  <2>1. (job = "active" => \A j \in Keys : latest[j] # 0 => shown[j] <= latest[j])'
    BY <1>3, <1>4, <1>5 DEF ShownInv
  <2>2. (job = "active" => \A q \in Publishers :
           At(q, "sent") /\ publisher[q].generation = generation =>
             /\ shown[publisher[q].key] = publisher[q].number
             /\ ~(loop.step = "sending" /\ loop.key = publisher[q].key))'
    BY <1>1, <1>3, <1>4, <1>7 DEF ShownInv, At
  <2>3. (job = "active" /\ loop.step = "sent" /\ loop.entry.number = latest[loop.key] =>
           shown[loop.key] = loop.entry.number)'
    BY <1>7 DEF Carrying
  <2> QED
    BY <1>7, <2>1, <2>2, <2>3 DEF ShownInv
<1>13. NewestNotLost'
  <2>1. SUFFICES ASSUME job' = "active", NEW j \in Keys, latest'[j] # 0,
                        \A q \in Publishers : At(q, "idle")' \/ publisher'[q].key # j
                 PROVE  \/ shown'[j] = latest'[j]
                        \/ pending'[j].number = latest'[j]
                        \/ Held(j)' /\ loop'.entry.number = latest'[j]
                        \/ <<j, latest'[j]>> \in gaveUp'
                        \/ j \notin Protected /\ <<j, latest'[j]>> \in dropped'
    BY DEF NewestNotLost
  <2>2. \A q \in Publishers : At(q, "idle") \/ publisher[q].key # j
    BY <1>3, <2>1 DEF At
  <2>3. \/ shown[j] = latest[j]
        \/ pending[j].number = latest[j]
        \/ Held(j) /\ loop.entry.number = latest[j]
        \/ <<j, latest[j]>> \in gaveUp
        \/ j \notin Protected /\ <<j, latest[j]>> \in dropped
    BY <1>3, <2>1, <2>2 DEF NewestNotLost
  <2>4. gaveUp \subseteq gaveUp'
    BY <1>6
  <2>5. CASE j # k
    BY <1>1, <1>3, <1>4, <2>3, <2>4, <2>5 DEF Held
  <2>6. CASE j = k /\ shown[j] = latest[j]
    BY <1>3, <1>4, <1>5, <2>1, <2>6
  <2>7. CASE j = k /\ Held(j) /\ loop.entry.number = latest[j]
    BY <1>1, <1>2, <1>3, <1>6, <2>7 DEF Held, LoopMoves
  <2> QED
    BY <1>3, <2>3, <2>4, <2>5, <2>6, <2>7
<1>14. \A j \in Keys : shown'[j] >= shown[j]
  BY <1>4, <1>5
<1> QED
  BY <1>8, <1>9, <1>10, <1>11, <1>12, <1>13, <1>14

\* A delivered retry is recorded.
LEMMA RecordOrder ==
  ASSUME OrderParts, Numbers, Numbers', TypeOK, LoopRecords
  PROVE  OrderParts' /\ UNCHANGED shown
<1> USE DEF OrderParts, Numbers
<1>1. /\ UNCHANGED <<jobVars, pending, latest, publisherMu, publisher, issued, encoderVars>>
      /\ loop.step = "sent" /\ LoopScans
  BY Effects DEF LoopRecords, queueVars
<1>2. \/ job # "active" \/ loop.entry.number # latest[loop.key]
      \/ shown[loop.key] = latest[loop.key]
  BY <1>1 DEF ShownInv
<1>3. Carrying
  BY <1>1 DEF Carrying
<1> QED
  BY <1>1, <1>2, <1>3, ForgetOrder DEF encoderVars

\* A failed retry goes back to the queue, if it is still the newest event.
LEMMA RequeueOrder ==
  ASSUME OrderParts, Numbers, Numbers', TypeOK, LoopRequeues
  PROVE  OrderParts' /\ UNCHANGED shown
<1> USE DEF OrderParts, Numbers
<1>1. /\ UNCHANGED <<jobVars, latest, publisherMu, publisher, issued, encoderVars>>
      /\ loop.step = "failed" /\ LoopScans /\ Carrying
  BY Effects DEF LoopRequeues, Carrying
<1>2. CASE MayRequeue
  <2>1. PICK k \in Keys : k = loop.key
    OBVIOUS
  <2>2. /\ UNCHANGED <<job, generation, delivery, liveCtx, latest, publisherMu, publisher,
                       issued, shown, gaveUp, dropped>>
        /\ loop.entry.generation = generation /\ pending[k] = NoEntry /\ job = "active"
    BY <1>1, <1>2, <2>1 DEF MayRequeue, JobInv, jobVars, encoderVars
  <2>3. /\ pending'[k].number = loop.entry.number
        /\ pending'[k].generation = generation
        /\ \A j \in Keys : j # k => pending'[j] = pending[j]
        /\ loop.entry.number > 0 /\ NoEntry.number = 0
    <3>1. pending \in [Keys -> Entry] /\ loop.entry \in Entry
      BY DEF TypeOK
    <3>2. pending' = [pending EXCEPT ![k] = [loop.entry EXCEPT !.due = FALSE]]
      BY <1>2, <2>1 DEF LoopRequeues
    <3>3. /\ [loop.entry EXCEPT !.due = FALSE].number = loop.entry.number
          /\ [loop.entry EXCEPT !.due = FALSE].generation = loop.entry.generation
      BY <3>1 DEF Entry
    <3>4. loop.entry.number > 0
      BY <1>1 DEF NumberInv
    <3> QED
      BY <2>2, <3>1, <3>2, <3>3, <3>4, Effects
  <2>4. JobInv'
    BY <1>1, <2>1, <2>2, <2>3 DEF JobInv, Busy, Carrying, LoopScans
  <2>5. LockInv' /\ ShownInv'
    BY <1>1, <2>2 DEF LockInv, ShownInv, At, LoopScans
  <2>6. NumberInv'
    BY <1>1, <2>1, <2>2, <2>3 DEF NumberInv, Busy, Carrying, LoopScans
  <2>7. LatestInv'
    BY <1>1, <2>2 DEF LatestInv, Busy, At, Carrying, LoopScans
  <2>8. NewestNotLost'
    BY <1>1, <2>1, <2>2, <2>3 DEF NewestNotLost, Held, At
  <2> QED
    BY <2>2, <2>4, <2>5, <2>6, <2>7, <2>8
<1>3. CASE ~MayRequeue
  <2>1. UNCHANGED pending
    BY <1>3 DEF LoopRequeues
  <2>2. job # "active" \/ loop.entry.number # latest[loop.key]
    BY <1>1, <1>3 DEF MayRequeue, Cancelled, JobInv, LatestInv
  <2> QED
    BY <1>1, <2>1, <2>2, ForgetOrder DEF encoderVars
<1> QED
  BY <1>2, <1>3

\* OrderInv is inductive, provided no two publishers share a key.
LEMMA OrderInit == Init => OrderInv
<1> SUFFICES ASSUME Init PROVE OrderInv
  OBVIOUS
<1>1. QueueBase
  BY QueueBaseInit
<1>2. /\ \A p \in Publishers : publisher[p].step = "idle"
      /\ loop.step = "off" /\ publisherMu = NoOne /\ job = "none" /\ delivery = 0
      /\ \A k \in Keys : /\ pending[k] = NoEntry /\ pending[k].number = 0
                         /\ latest[k] = 0 /\ issued[k] = 0 /\ shown[k] = 0
  BY DEF Init, IdlePublisher, NoLoop, NoEntry
<1> QED
  BY <1>1, <1>2, DeliveryAssumption DEF OrderInv, JobInv, LockInv, NumberInv, LatestInv, ShownInv,
     NewestNotLost, Busy, At, Carrying

\* A step preserves OrderInv, and the encoder's events do not go back.
LEMMA OrderNext ==
  ASSUME Exclusive, OrderInv, [Next]_vars
  PROVE  OrderInv' /\ ((\A k \in Keys : shown'[k] >= shown[k]) \/ UNCHANGED shown)
<1>1. QueueBase' /\ TypeOK /\ TypeOK' /\ QueueBase /\ OrderParts
  BY QueueBaseNext DEF OrderInv, QueueBase, OrderParts
<1>2. Numbers
  BY <1>1, NumbersTyped
<1>3. Numbers'
  <2>1. (loop.entry \in Entry /\ loop.key \in Keys)'
    BY <1>1 DEF TypeOK
  <2>2. (\A k \in Keys : pending[k] \in Entry)'
    BY <1>1 DEF TypeOK
  <2>3. (\A p \in Publishers : publisher[p] \in PublisherState)'
    BY <1>1 DEF TypeOK
  <2> QED
    BY <1>1, <2>1, <2>2, <2>3 DEF TypeOK, Numbers, Entry, PublisherState
<1> DEFINE Good == OrderParts' /\ ((\A k \in Keys : shown'[k] >= shown[k]) \/ UNCHANGED shown)
<1> SUFFICES Good
  BY <1>1 DEF OrderInv, OrderParts
<1>4. CASE StartJob \/ StopFences \/ StopStep
  <2>1. UNCHANGED shown
    BY <1>4 DEF StartJob, StopFences, StopStep, StopClears, StopCancels, StopEnds, encoderVars
  <2> QED
    BY <1>1, <1>2, <1>3, <1>4, <2>1, JobOrder
<1>5. ASSUME NEW p \in Publishers, NEW k \in Keys, PublishBegin(p, k) PROVE Good
  <2>1. UNCHANGED shown
    BY <1>5 DEF PublishBegin, encoderVars
  <2> QED
    BY <1>1, <1>2, <1>3, <1>5, <2>1, BeginOrder
<1>6. ASSUME NEW p \in Publishers, PublisherStep(p) PROVE Good
  <2>1. CASE Supersede(p)
    <3>1. UNCHANGED shown
      BY <2>1 DEF Supersede, encoderVars
    <3> QED
      BY <1>1, <1>2, <1>3, <2>1, <3>1, SupersedeOrder
  <2>2. CASE SceneApplies(p) \/ SceneRefuses(p) \/ PublishLock(p)
    <3>1. UNCHANGED shown
      BY <2>2 DEF SceneApplies, SceneRefuses, PublishLock, encoderVars
    <3> QED
      BY <1>1, <1>2, <1>3, <2>2, <3>1, SceneOrder
  <2>3. ASSUME NEW o \in Outcome, PublishReturns(p, o) PROVE Good
    BY <1>1, <1>2, <1>3, <2>3, ReturnOrder
  <2>4. CASE PublishRecords(p) \/ EnqueueRefused(p)
    <3>1. UNCHANGED shown
      BY <2>4 DEF PublishRecords, EnqueueRefused, encoderVars
    <3> QED
      BY <1>1, <1>2, <1>3, <2>4, <3>1, EndOrder
  <2>5. CASE Enqueue(p)
    <3>1. UNCHANGED shown
      BY <2>5 DEF Enqueue
    <3> QED
      BY <1>1, <1>2, <1>3, <2>5, <3>1, EnqueueOrder
  <2> QED
    BY <1>6, <2>1, <2>2, <2>3, <2>4, <2>5 DEF PublisherStep
<1>7. CASE \/ \E k \in Keys : BecomesDue(k) \/ LoopSleepsLate(k)
           \/ LoopSleeps \/ LoopTimer \/ LoopWoken \/ LoopExits
  BY <1>1, <1>2, <1>3, <1>7, WaitOrder
<1>8. CASE LoopTakes \/ LoopChecks \/ LoopLocks
  BY <1>1, <1>2, <1>3, <1>8, TakeOrder, CheckOrder, LockOrder
<1>9. ASSUME NEW o \in Outcome, LoopReturns(o) PROVE Good
  BY <1>1, <1>2, <1>3, <1>9, LoopReturnOrder
<1>10. CASE LoopRecords \/ LoopRequeues
  BY <1>1, <1>2, <1>3, <1>10, RecordOrder, RequeueOrder
<1>11. CASE UNCHANGED vars
  <2>1. UNCHANGED <<job, generation, delivery, liveCtx, pending, latest, publisherMu, publisher,
                    loop, issued, shown, gaveUp, dropped>>
    BY <1>11 DEF vars, jobVars, queueVars, encoderVars
  <2> QED
    BY <1>1, <2>1 DEF OrderParts, JobInv, LockInv, NumberInv, LatestInv, ShownInv, NewestNotLost,
       Busy, At, Held, Carrying
<1> QED
  BY <1>4, <1>5, <1>6, <1>7, <1>8, <1>9, <1>10, <1>11 DEF Next, LoopStep

\* If no two goroutines publish for one key, the newest event of a key is never
\* forgotten while its job runs, and a protected one not even by a full queue
\* (supersedePendingWorkerEvent, enqueueWorkerEvent, deliverPendingWorkerEvent).
THEOREM NewestKept ==
  ASSUME Exclusive
  PROVE  Spec => []NewestNotLost
<1>1. Init => OrderInv
  BY OrderInit
<1>2. OrderInv /\ [Next]_vars => OrderInv'
  BY OrderNext
<1>3. OrderInv => NewestNotLost
  BY DEF OrderInv
<1> QED
  BY <1>1, <1>2, <1>3, PTL DEF Spec

\* Under the same condition the encoder never sees an older event of a key
\* after a newer one, although publishers and the delivery loop both send
\* (publishWithGenerations, deliverPendingWorkerEvent, publisherMu).
THEOREM OrderKept ==
  ASSUME Exclusive
  PROVE  Spec => NoRegression
<1>1. Init => OrderInv
  BY OrderInit
<1>2. OrderInv /\ [Next]_vars => OrderInv'
  BY OrderNext
<1>3. OrderInv /\ [Next]_vars => [\A k \in Keys : shown'[k] >= shown[k]]_shown
  BY OrderNext
<1> QED
  BY <1>1, <1>2, <1>3, PTL DEF Spec, NoRegression
=============================================================================
