------------------------ MODULE CaptionIngressProofs ------------------------
(***************************************************************************)
(* Proofs about CaptionIngress, for any number of requests, jobs, voice     *)
(* connections, ingresses and batches.                                      *)
(***************************************************************************)
EXTENDS CaptionIngress, Integers, FiniteSetTheorems, WellFoundedInduction, TLAPS

\* The goroutine has a batch.
Busy(i) == worker[i].step \notin {"off", "idle", "exited"}

\* The batch counts as queued until markDequeued.
Marking(i) == worker[i].step = "mark"

\* Packets that wait in an ingress.
Waiting(i) == {p \in Packets : \/ \E b \in ToSet(queue[i]) : p \in b.packets
                               \/ Marking(i) /\ p \in worker[i].batch.packets}

\* Packets its goroutine has in hand.
InHand(i) == worker[i].left \cup worker[i].failed

\* The locals of processCaptionAudioBatch.
WorkerState == [step : WorkerSteps, batch : Batch, attempt : 0..RetryMax, left : SUBSET Packets,
                tried : SUBSET Packets, failed : SUBSET Packets, final : BOOLEAN,
                session : Ingresses \cup {0}]

\* The locals of EnqueueCaptionAudioForGeneration.
CallerState == [step : {"idle", "copy"}, generation : Generations, connection : 0..MaxConnection,
                ingress : Ingresses \cup {0}, kind : Kinds \cup {<<0, 0>>}]

\* TypeOK without the limits of the counters beside the queue.
Types ==
  /\ job \in {"none", "active", "stopping"}
  /\ generation \in Generations /\ connection \in 0..MaxConnection
  /\ session \in 0..made /\ ingress \in 0..made /\ made \in 0..MaxIngress
  /\ owner \in [Ingresses -> Generations]
  /\ cleanup \in [step : {"none", "cancel", "wait"}, ingress : 0..made, session : 0..made]
  /\ queue \in [Ingresses -> Seq(Batch)]
  /\ queued \in [Ingresses -> [packets : Int, bytes : Int]]
  /\ cancelled \in [Ingresses -> BOOLEAN]
  /\ worker \in [Ingresses -> WorkerState] /\ caller \in [Callers -> CallerState]
  /\ closed \subseteq Ingresses /\ newest \in [Ingresses -> 0..MaxConnection]
  /\ heard \subseteq Packets
  /\ stats \in [superseded : Nat, provider : Nat, started : Generations]
  /\ accepted \in [batches : 0..MaxBatches, packets : SUBSET Packets]

\* What the manager points to, and for which generation it was made.  A job has
\* an odd generation.
JobInv ==
  /\ generation % 2 = (IF job = "active" THEN 1 ELSE 0)
  /\ IF job = "active" THEN /\ session # 0 /\ owner[session] = generation
                            /\ ingress # 0 /\ owner[ingress] = generation
     ELSE session = 0 /\ ingress = 0
  /\ \A i \in 1..made : owner[i] <= generation /\ owner[i] % 2 = 1
  /\ cleanup.step # "none" =>
       cleanup.ingress # 0 /\ cleanup.ingress # ingress /\ cleanup.session # 0

\* Which ingresses were told to end.
CancelInv ==
  /\ ReplacedIsCancelled
  /\ \A i \in Ingresses : cancelled[i] => i <= made /\ i # ingress
  /\ \A i \in Ingresses : i > made => worker[i].step = "off" /\ queue[i] = <<>>

\* Where the goroutine is, and what it has then.
WellFormed(i) ==
  /\ worker[i].step \in {"off", "idle", "exited", "mark"} => InHand(i) = {}
  /\ worker[i].step \in {"check", "read"} => worker[i].failed = {}
  /\ worker[i].step \in {"backoff", "retry", "drop", "lateDrop"} => worker[i].left = {}
  /\ worker[i].step \in {"send", "write"} => worker[i].left # {}
  /\ worker[i].step \in {"backoff", "retry"} => worker[i].attempt < RetryMax
  /\ worker[i].left \cap worker[i].failed = {}
  /\ Busy(i) => InHand(i) \subseteq worker[i].batch.packets

\* Every goroutine is.
WorkerInv == \A i \in Ingresses : WellFormed(i)

\* What is known of a batch of the ingress.
BatchOf(i, b) ==
  /\ b.number \in 1..accepted.batches /\ b.connection # 0 /\ b.generation = owner[i]
  /\ \A p \in b.packets : p[1] = b.number
  /\ job = "active" /\ owner[i] = generation => b.packets \subseteq accepted.packets

\* Every batch is of the job of its ingress, and in one place.
BatchInv ==
  /\ \A i \in Ingresses : \A b \in ToSet(queue[i]) : BatchOf(i, b)
  /\ \A i \in Ingresses : Busy(i) => BatchOf(i, worker[i].batch)
  /\ \A p \in accepted.packets \cup heard : p[1] <= accepted.batches

\* No two places have a batch of the same number.
PlaceInv ==
  /\ \A i \in Ingresses, m, n \in Nat :
       m \in DOMAIN queue[i] /\ n \in DOMAIN queue[i] /\ m # n =>
         queue[i][m].number # queue[i][n].number
  /\ \A i \in Ingresses : Busy(i) =>
       \A b \in ToSet(queue[i]) : b.number # worker[i].batch.number
  /\ \A i, j \in Ingresses : i # j =>
       /\ \A b \in ToSet(queue[i]), c \in ToSet(queue[j]) : b.number # c.number
       /\ Busy(i) => \A c \in ToSet(queue[j]) : worker[i].batch.number # c.number
       /\ Busy(i) /\ Busy(j) => worker[i].batch.number # worker[j].batch.number

\* A request that copies its packets has found a voice connection.
CallerInv ==
  \A c \in Callers : caller[c].step = "copy" => caller[c].connection # 0 /\ caller[c].kind \in Kinds

\* AudioFence, and that a session which is used exists.
FenceInv ==
  /\ AudioFence
  /\ \A i \in Ingresses : worker[i].step \in {"ingest", "send", "write"} => worker[i].session \in 1..made

\* No packet that waits or is in hand was heard before.
HeardInv == \A i \in Ingresses : (Waiting(i) \cup InHand(i)) \cap heard = {}

\* The counter of packets beside the queue is exact.
CountInv == \A i \in Ingresses : queued[i].packets = Cardinality(Waiting(i))

\* Packets of this job that may still be heard or counted as lost.
Unsettled ==
  {p \in accepted.packets :
     \E i \in Ingresses : (p \in Waiting(i) /\ ~cancelled[i]) \/ p \in InHand(i)}

\* They were not counted yet.
LossInv ==
  stats.superseded + stats.provider + Cardinality(Unsettled)
    <= Cardinality(accepted.packets \ heard)

\* The inductive invariant.
AudioInv ==
  /\ Types /\ JobInv /\ CancelInv /\ WorkerInv /\ BatchInv /\ PlaceInv /\ CallerInv
  /\ FenceInv /\ HeardInv /\ CountInv /\ LossInv
-----------------------------------------------------------------------------
(* Sets of packets, queues, and the moves of a goroutine.                   *)

\* Sets of packets are finite.
LEMMA PacketSets ==
  ASSUME NEW T, T \subseteq Packets
  PROVE  IsFiniteSet(T) /\ Cardinality(T) \in Nat
<1>1. MaxBatches \in Int /\ QueuePackets \in Int /\ 1 \in Int
  BY IngressAssumption
<1>2. IsFiniteSet(1..MaxBatches) /\ IsFiniteSet(1..QueuePackets)
  BY <1>1, FS_Interval
<1>3. IsFiniteSet(Packets)
  BY <1>2, FS_Product DEF Packets
<1>4. IsFiniteSet(T)
  BY <1>3, FS_Subset
<1> QED
  BY <1>4, FS_CardinalityType

\* Counting when a part goes.
LEMMA Taking ==
  ASSUME NEW S, NEW T, S \subseteq Packets, T \subseteq S
  PROVE  Cardinality(S \ T) = Cardinality(S) - Cardinality(T)
<1>1. IsFiniteSet(S) /\ S \cap T = T
  BY PacketSets
<1> QED
  BY <1>1, FS_Difference

\* Counting when a part comes.
LEMMA Adding ==
  ASSUME NEW S, NEW T, S \subseteq Packets, T \subseteq Packets, S \cap T = {}
  PROVE  Cardinality(S \cup T) = Cardinality(S) + Cardinality(T)
<1>1. /\ IsFiniteSet(S) /\ IsFiniteSet(T)
      /\ Cardinality(S) \in Nat /\ Cardinality(T) \in Nat
  BY PacketSets
<1>2. Cardinality(S \cup T) = Cardinality(S) + Cardinality(T) - Cardinality(S \cap T)
  BY <1>1, FS_Union
<1>3. Cardinality(S \cap T) = 0
  BY FS_EmptySet
<1> QED
  BY <1>1, <1>2, <1>3

\* A part is not more than the whole.
LEMMA Fewer ==
  ASSUME NEW S, NEW T, S \subseteq Packets, T \subseteq S
  PROVE  Cardinality(T) <= Cardinality(S)
BY PacketSets, FS_Subset

\* A set of numbers that is not empty has a least one.
LEMMA Smallest ==
  ASSUME NEW T \in SUBSET Nat, T # {}
  PROVE  \E x \in T : \A y \in T : x <= y
<1>1. PICK x \in T : \A y \in T : ~ (<<y, x>> \in OpToRel(<, Nat))
  BY NatLessThanWellFounded, WFMin
<1>2. \A y \in T : ~(y < x)
  BY <1>1 DEF OpToRel
<1> QED
  BY <1>2

\* The next packet is one that is left.
LEMMA NextIsLeft ==
  ASSUME NEW i \in Ingresses, worker[i].left \subseteq Packets, worker[i].left # {}
  PROVE  NextPacket(i) \in worker[i].left
<1> DEFINE left == worker[i].left
<1> DEFINE T == {p[2] : p \in left}
<1>1. T \subseteq Nat /\ T # {}
  BY DEF Packets
<1> HIDE DEF T
<1>2. PICK x \in T : \A y \in T : x <= y
  BY <1>1, Smallest
<1>3. PICK p \in left : \A q \in left : p[2] <= q[2]
  BY <1>2 DEF T
<1> QED
  BY <1>3 DEF NextPacket

\* The batches of a queue, before and after.
LEMMA Queues ==
  ASSUME NEW q \in Seq(Batch)
  PROVE  /\ ToSet(q) \subseteq Batch
         /\ \A b \in Batch : /\ Append(q, b) \in Seq(Batch)
                             /\ ToSet(Append(q, b)) = ToSet(q) \cup {b}
         /\ q # <<>> => /\ Head(q) \in Batch /\ Tail(q) \in Seq(Batch)
                        /\ Head(q) \in ToSet(q) /\ ToSet(Tail(q)) \subseteq ToSet(q)
                        /\ ToSet(q) \subseteq ToSet(Tail(q)) \cup {Head(q)}
<1>1. ToSet(q) \subseteq Batch
  BY DEF ToSet
<1>2. ASSUME NEW b \in Batch
      PROVE  Append(q, b) \in Seq(Batch) /\ ToSet(Append(q, b)) = ToSet(q) \cup {b}
  <2>1. Append(q, b) \in Seq(Batch)
    OBVIOUS
  <2>2. /\ Len(q) \in Nat /\ DOMAIN q = 1..Len(q) /\ DOMAIN Append(q, b) = 1..(Len(q) + 1)
        /\ \A n \in 1..Len(q) : Append(q, b)[n] = q[n]
        /\ Append(q, b)[Len(q) + 1] = b
    OBVIOUS
  <2>3. \A n \in 1..(Len(q) + 1) : n \in 1..Len(q) \/ n = Len(q) + 1
    BY <2>2
  <2>4. ToSet(Append(q, b)) \subseteq ToSet(q) \cup {b}
    BY <2>2, <2>3 DEF ToSet
  <2>5. ToSet(q) \subseteq ToSet(Append(q, b)) /\ b \in ToSet(Append(q, b))
    <3>1. Len(q) + 1 \in 1..(Len(q) + 1) /\ \A n \in 1..Len(q) : n \in 1..(Len(q) + 1)
      BY <2>2
    <3> QED
      BY <2>2, <3>1 DEF ToSet
  <2> QED
    BY <2>1, <2>4, <2>5
<1>3. ASSUME q # <<>>
      PROVE  /\ Head(q) \in Batch /\ Tail(q) \in Seq(Batch)
             /\ Head(q) \in ToSet(q) /\ ToSet(Tail(q)) \subseteq ToSet(q)
             /\ ToSet(q) \subseteq ToSet(Tail(q)) \cup {Head(q)}
  <2>1. /\ Len(q) \in Nat /\ Len(q) > 0 /\ DOMAIN q = 1..Len(q)
        /\ Head(q) = q[1] /\ Tail(q) \in Seq(Batch) /\ Len(Tail(q)) = Len(q) - 1
        /\ \A n \in 1..(Len(q) - 1) : Tail(q)[n] = q[n + 1]
    BY <1>3
  <2>2. DOMAIN Tail(q) = 1..(Len(q) - 1)
    BY <2>1
  <2>3. Head(q) \in Batch /\ Head(q) \in ToSet(q)
    BY <2>1 DEF ToSet
  <2>4. ToSet(Tail(q)) \subseteq ToSet(q)
    <3> SUFFICES ASSUME NEW b \in ToSet(Tail(q)) PROVE b \in ToSet(q)
      OBVIOUS
    <3>1. PICK n \in 1..(Len(q) - 1) : b = Tail(q)[n]
      BY <2>2 DEF ToSet
    <3>2. n + 1 \in DOMAIN q /\ b = q[n + 1]
      BY <2>1, <3>1
    <3> QED
      BY <3>2 DEF ToSet
  <2>5. ToSet(q) \subseteq ToSet(Tail(q)) \cup {Head(q)}
    <3> SUFFICES ASSUME NEW b \in ToSet(q) PROVE b \in ToSet(Tail(q)) \cup {Head(q)}
      OBVIOUS
    <3>1. PICK n \in 1..Len(q) : b = q[n]
      BY <2>1 DEF ToSet
    <3>2. CASE n # 1
      <4>1. n - 1 \in DOMAIN Tail(q) /\ Tail(q)[n - 1] = b
        BY <2>1, <2>2, <3>1, <3>2
      <4> QED
        BY <4>1 DEF ToSet
    <3> QED
      BY <2>1, <3>1, <3>2
  <2> QED
    BY <2>1, <2>3, <2>4, <2>5
<1> QED
  BY <1>1, <1>2, <1>3

\* What is known of the batches of an ingress.
LEMMA BatchTyped ==
  ASSUME Types, NEW i \in Ingresses
  PROVE  /\ queue[i] \in Seq(Batch) /\ worker[i] \in WorkerState
         /\ \A b \in ToSet(queue[i]) : b \in Batch /\ b.packets \subseteq Packets
         /\ worker[i].batch \in Batch /\ worker[i].batch.packets \subseteq Packets
         /\ worker[i].left \subseteq Packets /\ worker[i].failed \subseteq Packets
         /\ InHand(i) \subseteq Packets /\ Waiting(i) \subseteq Packets
<1>1. queue[i] \in Seq(Batch) /\ worker[i] \in WorkerState
  BY DEF Types
<1>2. ToSet(queue[i]) \subseteq Batch
  BY <1>1, Queues
<1> QED
  BY <1>1, <1>2 DEF Batch, WorkerState, InHand, Waiting

\* A goroutine at rest.
LEMMA Rest ==
  /\ IdleWorker \in WorkerState /\ IdleWorker.step = "idle"
  /\ IdleWorker.left = {} /\ IdleWorker.failed = {}
  /\ NoBatch \in Batch /\ IdleCaller \in CallerState /\ IdleCaller.step = "idle"
<1>1. NoBatch \in Batch
  BY IngressAssumption DEF NoBatch, Batch, Generations
<1>2. IdleCaller \in CallerState /\ IdleCaller.step = "idle"
  BY IngressAssumption DEF IdleCaller, CallerState, Generations
<1>3. IdleWorker \in WorkerState
  BY <1>1, IngressAssumption DEF IdleWorker, WorkerState, WorkerSteps
<1> QED
  BY <1>1, <1>2, <1>3 DEF IdleWorker

\* Goto moves one goroutine.
LEMMA Moves ==
  ASSUME Types, NEW i \in Ingresses, NEW w \in WorkerState, Goto(i, w)
  PROVE  /\ worker' \in [Ingresses -> WorkerState] /\ worker'[i] = w
         /\ \A j \in Ingresses : j # i => worker'[j] = worker[j]
BY DEF Types, Goto
-----------------------------------------------------------------------------
(* Steps of a goroutine with its batch.                                     *)

\* The goroutine goes on with the batch it has taken out of the queue, or is done
\* with it.
Advances(i) ==
  /\ UNCHANGED <<managerVars, ingressVars, caller, closed, accepted>>
  /\ worker' \in [Ingresses -> WorkerState]
  /\ \A j \in Ingresses : j # i => worker'[j] = worker[j]
  /\ worker[i].step \notin {"off", "mark"} /\ worker'[i].step \notin {"off", "mark"}
  /\ Busy(i)' => Busy(i) /\ worker'[i].batch = worker[i].batch
  /\ InHand(i)' \subseteq InHand(i) /\ WellFormed(i)'
  /\ worker'[i].step \in {"ingest", "send", "write"} =>
       /\ worker'[i].session \in 1..made
       /\ owner[worker'[i].session] = worker'[i].batch.generation
  /\ newest' \in [Ingresses -> 0..MaxConnection] /\ heard' \subseteq heard \cup InHand(i)
  /\ stats' \in [superseded : Nat, provider : Nat, started : Generations]

\* What such a step keeps.
LEMMA AdvancesStep ==
  ASSUME AudioInv, NEW i \in Ingresses, Advances(i)
  PROVE  /\ Types' /\ JobInv' /\ CancelInv' /\ WorkerInv' /\ BatchInv' /\ PlaceInv' /\ CallerInv'
         /\ FenceInv' /\ CountInv'
         /\ \A j \in Ingresses : Waiting(j)' = Waiting(j) /\ InHand(j)' \subseteq InHand(j)
         /\ \A j \in Ingresses : j # i => InHand(j)' = InHand(j)
         /\ UNCHANGED <<cancelled, accepted>>
<1>1. /\ UNCHANGED <<job, generation, connection, session, ingress, made, owner, cleanup>>
      /\ UNCHANGED <<queue, queued, cancelled, caller, closed, accepted>>
      /\ \A j \in Ingresses : j # i => worker'[j] = worker[j]
  BY DEF Advances, managerVars, ingressVars
<1>2. InHand(i) \subseteq Packets
  BY BatchTyped DEF AudioInv
<1>3. Types'
  BY <1>1, <1>2 DEF AudioInv, Types, Advances
<1>4. \A j \in Ingresses : /\ Busy(j)' => Busy(j) /\ worker'[j].batch = worker[j].batch
                           /\ Marking(j)' <=> Marking(j)
                           /\ Marking(j) => worker'[j].batch = worker[j].batch
                           /\ InHand(j)' \subseteq InHand(j)
                           /\ j # i => InHand(j)' = InHand(j)
  BY <1>1 DEF Advances, Busy, Marking, InHand
<1>5. \A j \in Ingresses : Waiting(j)' = Waiting(j)
  BY <1>1, <1>4 DEF Waiting
<1>6. JobInv'
  BY <1>1 DEF AudioInv, JobInv
<1>7. CancelInv'
  BY <1>1 DEF AudioInv, CancelInv, ReplacedIsCancelled, Advances
<1>8. WorkerInv'
  <2>1. \A j \in Ingresses : j # i => (WellFormed(j)' <=> WellFormed(j))
    BY <1>1 DEF WellFormed, Busy, InHand
  <2> QED
    BY <2>1 DEF AudioInv, WorkerInv, Advances
<1>9. BatchInv'
  <2>1. \A j \in Ingresses : \A b : BatchOf(j, b)' <=> BatchOf(j, b)
    BY <1>1 DEF BatchOf
  <2>2. \A j \in Ingresses : \A b \in ToSet(queue'[j]) : BatchOf(j, b)'
    BY <1>1, <2>1 DEF AudioInv, BatchInv
  <2>3. ASSUME NEW j \in Ingresses, Busy(j)' PROVE BatchOf(j, worker[j].batch)'
    <3>1. PICK b : b = worker[j].batch
      OBVIOUS
    <3>2. BatchOf(j, b) /\ worker'[j].batch = b
      BY <1>4, <2>3, <3>1 DEF AudioInv, BatchInv
    <3>3. BatchOf(j, b)'
      BY <2>1, <3>2
    <3> QED
      BY <3>2, <3>3 DEF BatchOf
  <2>4. \A p \in accepted'.packets \cup heard' : p[1] <= accepted'.batches
    <3>1. \A p \in InHand(i) : p[1] <= accepted.batches
      <4>1. CASE Busy(i)
        <5>1. InHand(i) \subseteq worker[i].batch.packets
          BY <4>1 DEF AudioInv, WorkerInv, WellFormed
        <5>2. BatchOf(i, worker[i].batch) /\ accepted.batches \in Nat
          BY <4>1, IngressAssumption DEF AudioInv, BatchInv, Types
        <5> QED
          BY <5>1, <5>2 DEF BatchOf
      <4>2. CASE ~Busy(i)
        BY <4>2 DEF AudioInv, WorkerInv, WellFormed, Busy
      <4> QED
        BY <4>1, <4>2
    <3>2. heard' \subseteq heard \cup InHand(i)
      BY DEF Advances
    <3>3. \A p \in accepted.packets \cup heard : p[1] <= accepted.batches
      BY DEF AudioInv, BatchInv
    <3> QED
      BY <1>1, <3>1, <3>2, <3>3
  <2> QED
    BY <2>2, <2>3, <2>4 DEF BatchInv
<1>10. PlaceInv'
  BY <1>1, <1>4 DEF AudioInv, PlaceInv
<1>11. CallerInv'
  BY <1>1 DEF AudioInv, CallerInv
<1>12. FenceInv'
  <2>1. QueuedIsCurrent'
    BY <1>1 DEF AudioInv, FenceInv, AudioFence, QueuedIsCurrent, OfCurrentJob
  <2>2. /\ AudioStaysInJob'
        /\ \A j \in Ingresses : worker'[j].step \in {"ingest", "send", "write"} =>
             worker'[j].session \in 1..made'
    BY <1>1 DEF AudioInv, FenceInv, AudioFence, AudioStaysInJob, Advances
  <2> QED
    BY <2>1, <2>2 DEF FenceInv, AudioFence
<1>13. CountInv'
  BY <1>1, <1>5 DEF AudioInv, CountInv
<1> QED
  BY <1>1, <1>3, <1>4, <1>5, <1>6, <1>7, <1>8, <1>9, <1>10, <1>11, <1>12, <1>13

\* Nothing more is heard or counted, and no packet turns up.
LEMMA LossKept ==
  ASSUME AudioInv, UNCHANGED <<heard, accepted>>, Unsettled' \subseteq Unsettled,
         stats'.superseded = stats.superseded, stats'.provider = stats.provider
  PROVE  LossInv'
<1>1. Unsettled \subseteq Packets /\ accepted.packets \ heard \subseteq Packets
  BY DEF AudioInv, Types, Unsettled
<1>2. /\ Cardinality(Unsettled') <= Cardinality(Unsettled)
      /\ Cardinality(Unsettled') \in Nat /\ Cardinality(Unsettled) \in Nat
  <2>1. Unsettled' \subseteq Packets
    BY <1>1
  <2> QED
    BY <1>1, <2>1, Fewer, PacketSets
<1>3. stats.superseded \in Nat /\ stats.provider \in Nat
  BY DEF AudioInv, Types
<1>4. Cardinality(accepted.packets \ heard) \in Nat
  BY <1>1, PacketSets
<1>5. stats.superseded + stats.provider + Cardinality(Unsettled)
        <= Cardinality(accepted.packets \ heard)
  BY DEF AudioInv, LossInv
<1> QED
  BY <1>2, <1>3, <1>4, <1>5 DEF LossInv

\* A step of the goroutine in which nothing is heard or counted.
LEMMA QuietAdvance ==
  ASSUME AudioInv, NEW i \in Ingresses, Advances(i), UNCHANGED heard,
         stats'.superseded = stats.superseded, stats'.provider = stats.provider
  PROVE  AudioInv'
<1>1. /\ Types' /\ JobInv' /\ CancelInv' /\ WorkerInv' /\ BatchInv' /\ PlaceInv' /\ CallerInv'
      /\ FenceInv' /\ CountInv'
      /\ \A j \in Ingresses : Waiting(j)' = Waiting(j) /\ InHand(j)' \subseteq InHand(j)
      /\ UNCHANGED <<cancelled, accepted>>
  BY AdvancesStep
<1>2. HeardInv'
  BY <1>1 DEF AudioInv, HeardInv
<1>3. LossInv'
  <2>1. Unsettled' \subseteq Unsettled
    BY <1>1 DEF Unsettled
  <2> QED
    BY <1>1, <2>1, LossKept
<1> QED
  BY <1>1, <1>2, <1>3 DEF AudioInv

\* The goroutine is done with its batch.
LEMMA GoesIdle ==
  ASSUME AudioInv, NEW i \in Ingresses, Goto(i, IdleWorker), worker[i].step \notin {"off", "mark"},
         UNCHANGED <<managerVars, ingressVars, caller, closed, newest, heard, accepted>>,
         stats' \in [superseded : Nat, provider : Nat, started : Generations]
  PROVE  Advances(i)
<1>1. /\ worker' \in [Ingresses -> WorkerState] /\ worker'[i] = IdleWorker
      /\ \A j \in Ingresses : j # i => worker'[j] = worker[j]
  BY Rest, Moves DEF AudioInv
<1>2. worker'[i].step = "idle" /\ worker'[i].left = {} /\ worker'[i].failed = {}
  BY <1>1, Rest
<1>3. InHand(i)' = {} /\ ~Busy(i)' /\ WellFormed(i)'
  BY <1>2 DEF InHand, Busy, WellFormed
<1>4. newest' \in [Ingresses -> 0..MaxConnection]
  BY DEF AudioInv, Types
<1> QED
  BY <1>1, <1>2, <1>3, <1>4 DEF Advances

\* The goroutine goes on with its batch.
LEMMA GoesOn ==
  ASSUME AudioInv, NEW i \in Ingresses, NEW w \in WorkerState, Goto(i, w),
         worker[i].step \notin {"off", "idle", "exited", "mark"},
         w.step \notin {"off", "idle", "exited", "mark"}, w.batch = worker[i].batch,
         w.left \cup w.failed \subseteq InHand(i), w.left \cap w.failed = {},
         w.step \in {"check", "read"} => w.failed = {},
         w.step \in {"backoff", "retry", "drop", "lateDrop"} => w.left = {},
         w.step \in {"send", "write"} => w.left # {},
         w.step \in {"backoff", "retry"} => w.attempt < RetryMax,
         w.step \in {"ingest", "send", "write"} =>
           w.session \in 1..made /\ owner[w.session] = w.batch.generation,
         UNCHANGED <<managerVars, ingressVars, caller, closed, accepted>>,
         newest' \in [Ingresses -> 0..MaxConnection], heard' \subseteq heard \cup InHand(i),
         stats' \in [superseded : Nat, provider : Nat, started : Generations]
  PROVE  Advances(i)
<1>1. /\ worker' \in [Ingresses -> WorkerState] /\ worker'[i] = w
      /\ \A j \in Ingresses : j # i => worker'[j] = worker[j]
  BY Moves DEF AudioInv
<1>2. InHand(i)' \subseteq InHand(i) /\ Busy(i)' /\ Busy(i)
  BY <1>1 DEF InHand, Busy
<1>3. InHand(i) \subseteq worker[i].batch.packets
  BY <1>2 DEF AudioInv, WorkerInv, WellFormed
<1>4. WellFormed(i)'
  BY <1>1, <1>2, <1>3 DEF WellFormed
<1> QED
  BY <1>1, <1>2, <1>4 DEF Advances

\* The steps in which nothing is heard or counted.
LEMMA QuietSteps ==
  ASSUME AudioInv, NEW i \in Ingresses,
         \/ WorkerExits(i) \/ CheckCurrent(i) \/ ReadSession(i) \/ PacketBegins(i)
         \/ ConnectionFound(i) \/ ConnectionRefused(i) \/ PacketFails(i) \/ IngestCancelled(i)
         \/ AttemptEnds(i) \/ BackoffCancelled(i) \/ BackoffEnds(i) \/ RecordRetry(i)
  PROVE  AudioInv'
<1> DEFINE w == worker[i]
<1>1. /\ w \in WorkerState /\ WellFormed(i)
      /\ w.left \subseteq Packets /\ w.failed \subseteq Packets
      /\ InHand(i) = w.left \cup w.failed
  BY BatchTyped DEF AudioInv, WorkerInv, InHand
<1>2. /\ newest \in [Ingresses -> 0..MaxConnection]
      /\ stats \in [superseded : Nat, provider : Nat, started : Generations]
  BY DEF AudioInv, Types
<1>3. w.step \in {"ingest", "send", "write"} => /\ w.session \in 1..made
                                       /\ owner[w.session] = w.batch.generation
  BY DEF AudioInv, FenceInv, AudioFence, AudioStaysInJob
<1>4. ASSUME Goto(i, IdleWorker), w.step \notin {"off", "mark"},
             UNCHANGED <<managerVars, ingressVars, caller, sessionVars, stats, accepted>>
      PROVE  AudioInv'
  <2>1. Advances(i)
    BY <1>2, <1>4, GoesIdle DEF sessionVars
  <2> QED
    BY <1>4, <2>1, QuietAdvance DEF sessionVars
<1>5. CASE WorkerExits(i)
  <2> DEFINE x == [IdleWorker EXCEPT !.step = "exited"]
  <2>1. x \in WorkerState /\ x.step = "exited" /\ x.left = {} /\ x.failed = {}
    BY Rest DEF WorkerState, WorkerSteps
  <2>2. /\ worker[i].step = "idle" /\ Goto(i, x)
        /\ UNCHANGED <<managerVars, ingressVars, caller, sessionVars, stats, accepted>>
    BY <1>5 DEF WorkerExits
  <2> HIDE DEF x
  <2>3. /\ worker' \in [Ingresses -> WorkerState] /\ worker'[i] = x
        /\ \A j \in Ingresses : j # i => worker'[j] = worker[j]
    BY <2>1, <2>2, Moves DEF AudioInv
  <2>4. InHand(i)' = {} /\ ~Busy(i)' /\ WellFormed(i)'
    BY <2>1, <2>3 DEF InHand, Busy, WellFormed
  <2>5. Advances(i)
    BY <1>2, <2>1, <2>2, <2>3, <2>4 DEF Advances, sessionVars
  <2> QED
    BY <2>2, <2>5, QuietAdvance DEF sessionVars
<1>6. ASSUME NEW x \in {"read", "send", "retry", "lateDrop"}, Goto(i, [w EXCEPT !.step = x]),
             w.step \notin {"off", "idle", "exited", "mark"},
             x = "read" => w.failed = {},
             x \in {"retry", "lateDrop"} => w.left = {} /\ w.attempt < RetryMax,
             x = "send" => w.left # {} /\ w.step = "ingest",
             UNCHANGED <<managerVars, ingressVars, caller, sessionVars, stats, accepted>>
      PROVE  AudioInv'
  <2> DEFINE v == [w EXCEPT !.step = x]
  <2>1. /\ v \in WorkerState /\ v.step = x /\ v.batch = w.batch /\ v.left = w.left
        /\ v.failed = w.failed /\ v.attempt = w.attempt /\ v.session = w.session
    BY <1>1 DEF WorkerState, WorkerSteps
  <2>2. w.left \cap w.failed = {} /\ Goto(i, v)
    BY <1>1, <1>6 DEF WellFormed
  <2> HIDE DEF v
  <2>3. Advances(i)
    BY <1>1, <1>2, <1>3, <1>6, <2>1, <2>2, GoesOn DEF sessionVars
  <2> QED
    BY <1>6, <2>3, QuietAdvance DEF sessionVars
<1>7. CASE CheckCurrent(i)
  <2>1. /\ worker[i].step = "check" /\ (Goto(i, [w EXCEPT !.step = "read"]) \/ Goto(i, IdleWorker))
        /\ UNCHANGED <<managerVars, ingressVars, caller, sessionVars, stats, accepted>>
    BY <1>7 DEF CheckCurrent
  <2>2. w.failed = {}
    BY <1>1, <2>1 DEF WellFormed
  <2> QED
    BY <1>4, <1>6, <2>1, <2>2
<1>8. CASE PacketBegins(i)
  <2>1. /\ worker[i].step = "ingest" /\ w.left # {} /\ Goto(i, [w EXCEPT !.step = "send"])
        /\ UNCHANGED <<managerVars, ingressVars, caller, sessionVars, stats, accepted>>
    BY <1>8 DEF PacketBegins
  <2> QED
    BY <1>6, <2>1
<1>9. CASE IngestCancelled(i) \/ BackoffCancelled(i)
  BY <1>4, <1>9 DEF IngestCancelled, BackoffCancelled
<1>10. CASE BackoffEnds(i)
  <2>1. PICK x \in {"retry", "lateDrop"} : Goto(i, [w EXCEPT !.step = x])
    BY <1>10 DEF BackoffEnds
  <2>2. /\ worker[i].step = "backoff"
        /\ UNCHANGED <<managerVars, ingressVars, caller, sessionVars, stats, accepted>>
    BY <1>10 DEF BackoffEnds
  <2>3. w.left = {} /\ w.attempt < RetryMax
    BY <1>1, <2>2 DEF WellFormed
  <2> QED
    BY <1>6, <2>1, <2>2, <2>3
<1>11. CASE ReadSession(i)
  <2> DEFINE v == [w EXCEPT !.step = "ingest", !.session = session, !.tried = w.left,
                            !.failed = {}, !.final = FALSE]
  <2>1. /\ worker[i].step = "read"
        /\ UNCHANGED <<managerVars, ingressVars, caller, sessionVars, stats, accepted>>
        /\ \/ MayRead(w.batch) /\ Goto(i, v)
           \/ Goto(i, IdleWorker)
    BY <1>11 DEF ReadSession
  <2>2. ASSUME MayRead(w.batch), Goto(i, v) PROVE AudioInv'
    <3>1. session \in 1..made /\ owner[session] = w.batch.generation /\ session \in Ingresses
      <4>1. job = "active" /\ generation = w.batch.generation /\ session # 0
        BY <2>2 DEF MayRead, OfCurrentJob
      <4>2. owner[session] = generation
        BY <4>1 DEF AudioInv, JobInv
      <4>3. session \in 0..made /\ made \in 0..MaxIngress
        BY DEF AudioInv, Types
      <4>4. session \in 1..made /\ session \in 1..MaxIngress
        BY <4>1, <4>3, IngressAssumption
      <4> QED
        BY <4>1, <4>2, <4>4 DEF Ingresses
    <3>2. /\ v \in WorkerState /\ v.step = "ingest" /\ v.batch = w.batch /\ v.left = w.left
          /\ v.failed = {} /\ v.session = session
      BY <1>1, <3>1 DEF WorkerState, WorkerSteps
    <3>3. Goto(i, v)
      BY <2>2
    <3> HIDE DEF v
    <3>4. Advances(i)
      BY <1>1, <1>2, <2>1, <3>1, <3>2, <3>3, GoesOn DEF sessionVars
    <3> QED
      BY <2>1, <3>4, QuietAdvance DEF sessionVars
  <2> QED
    BY <1>4, <2>1, <2>2
<1>12. ASSUME NEW f \in BOOLEAN, NEW lost \in {{NextPacket(i)}, w.left},
              worker[i].step \in {"send", "write"},
              Goto(i, [w EXCEPT !.step = "ingest", !.left = @ \ lost, !.failed = @ \cup lost,
                                !.final = f]),
              UNCHANGED <<managerVars, ingressVars, caller, sessionVars, stats, accepted>>
       PROVE  AudioInv'
  <2>1. NextPacket(i) \in w.left /\ lost \subseteq w.left
    BY <1>1, <1>12, NextIsLeft DEF WellFormed
  <2> DEFINE v == [w EXCEPT !.step = "ingest", !.left = @ \ lost, !.failed = @ \cup lost,
                            !.final = f]
  <2>2. /\ v \in WorkerState /\ v.step = "ingest" /\ v.batch = w.batch /\ v.left = w.left \ lost
        /\ v.failed = w.failed \cup lost /\ v.session = w.session
    BY <1>1, <2>1 DEF WorkerState, WorkerSteps
  <2>3. Goto(i, v) /\ w.left \cap w.failed = {}
    BY <1>1, <1>12 DEF WellFormed
  <2> HIDE DEF v
  <2>4. Advances(i)
    BY <1>1, <1>2, <1>3, <1>12, <2>1, <2>2, <2>3, GoesOn DEF sessionVars
  <2> QED
    BY <1>12, <2>4, QuietAdvance DEF sessionVars
<1>15. CASE ConnectionRefused(i)
  <2>1. PICK lost : lost = IF w.session \in closed THEN w.left ELSE {NextPacket(i)}
    OBVIOUS
  <2>2. /\ lost \in {{NextPacket(i)}, w.left} /\ worker[i].step \in {"send", "write"}
        /\ Goto(i, [w EXCEPT !.step = "ingest", !.left = @ \ lost, !.failed = @ \cup lost,
                             !.final = TRUE])
        /\ UNCHANGED <<managerVars, ingressVars, caller, sessionVars, stats, accepted>>
    BY <1>15, <2>1 DEF ConnectionRefused
  <2> QED
    BY <1>12, <2>2
<1>16. CASE PacketFails(i)
  <2>1. PICK final \in BOOLEAN, lost \in {{NextPacket(i)}, w.left} :
          Goto(i, [w EXCEPT !.step = "ingest", !.left = @ \ lost, !.failed = @ \cup lost,
                            !.final = @ \/ final])
    BY <1>16 DEF PacketFails
  <2>2. PICK f \in BOOLEAN : f = (w.final \/ final)
    OBVIOUS
  <2>3. /\ worker[i].step \in {"send", "write"}
        /\ Goto(i, [w EXCEPT !.step = "ingest", !.left = @ \ lost, !.failed = @ \cup lost,
                             !.final = f])
        /\ UNCHANGED <<managerVars, ingressVars, caller, sessionVars, stats, accepted>>
    BY <1>16, <2>1, <2>2 DEF PacketFails
  <2> QED
    BY <1>12, <2>3
<1>17. CASE ConnectionFound(i)
  <2> DEFINE v == [w EXCEPT !.step = "write"]
  <2>1. /\ worker[i].step = "send" /\ Goto(i, v)
        /\ newest' = [newest EXCEPT ![w.session] = w.batch.connection]
        /\ UNCHANGED <<managerVars, ingressVars, caller, closed, heard, stats, accepted>>
    BY <1>17 DEF ConnectionFound
  <2>2. /\ v \in WorkerState /\ v.step = "write" /\ v.batch = w.batch /\ v.left = w.left
        /\ v.failed = w.failed /\ v.session = w.session
    BY <1>1 DEF WorkerState, WorkerSteps
  <2>3. w.left # {} /\ w.left \cap w.failed = {}
    BY <1>1, <2>1 DEF WellFormed
  <2>4. newest' \in [Ingresses -> 0..MaxConnection]
    <3>1. w.batch.connection \in 0..MaxConnection
      BY <1>1 DEF WorkerState, Batch
    <3> QED
      BY <1>2, <2>1, <3>1
  <2> HIDE DEF v
  <2>5. Advances(i)
    BY <1>1, <1>2, <1>3, <2>1, <2>2, <2>3, <2>4, GoesOn
  <2> QED
    BY <2>1, <2>5, QuietAdvance
<1>13. CASE AttemptEnds(i)
  <2>1. /\ worker[i].step = "ingest" /\ w.left = {}
        /\ UNCHANGED <<managerVars, ingressVars, caller, sessionVars, accepted>>
    BY <1>13 DEF AttemptEnds
  <2>2. /\ stats' \in [superseded : Nat, provider : Nat, started : Generations]
        /\ stats'.superseded = stats.superseded /\ stats'.provider = stats.provider
    <3>1. generation \in Generations
      BY DEF AudioInv, Types
    <3>2. stats' = stats \/ stats' = [stats EXCEPT !.started = generation]
      BY <1>13 DEF AttemptEnds
    <3> QED
      BY <1>2, <3>1, <3>2
  <2>3. CASE Goto(i, IdleWorker)
    <3>1. Advances(i)
      BY <2>1, <2>2, <2>3, GoesIdle DEF sessionVars
    <3> QED
      BY <2>1, <2>2, <3>1, QuietAdvance DEF sessionVars
  <2>4. ASSUME NEW x \in {"drop", "backoff"}, w.final \/ w.attempt = RetryMax => x = "drop",
               Goto(i, [w EXCEPT !.step = x, !.session = 0, !.tried = {}])
        PROVE  AudioInv'
    <3> DEFINE v == [w EXCEPT !.step = x, !.session = 0, !.tried = {}]
    <3>1. /\ v \in WorkerState /\ v.step = x /\ v.batch = w.batch /\ v.left = w.left
          /\ v.failed = w.failed /\ v.attempt = w.attempt
      BY <1>1 DEF WorkerState, WorkerSteps
    <3>2. Goto(i, v) /\ w.left \cap w.failed = {}
      BY <1>1, <2>4 DEF WellFormed
    <3>3. x = "backoff" => w.attempt < RetryMax
      BY <1>1, <2>4, IngressAssumption DEF WorkerState
    <3> HIDE DEF v
    <3>4. Advances(i)
      BY <1>1, <1>2, <2>1, <2>2, <3>1, <3>2, <3>3, GoesOn DEF sessionVars
    <3> QED
      BY <2>1, <2>2, <3>4, QuietAdvance DEF sessionVars
  <2> QED
    BY <1>13, <2>3, <2>4 DEF AttemptEnds
<1>14. CASE RecordRetry(i)
  <2> DEFINE v == [w EXCEPT !.step = "check", !.attempt = @ + 1, !.left = w.failed, !.failed = {}]
  <2>1. /\ worker[i].step = "retry" /\ (Goto(i, v) \/ Goto(i, IdleWorker))
        /\ UNCHANGED <<managerVars, ingressVars, caller, sessionVars, stats, accepted>>
    BY <1>14 DEF RecordRetry, RetryPackets
  <2>2. w.attempt < RetryMax
    BY <1>1, <2>1 DEF WellFormed
  <2>3. /\ v \in WorkerState /\ v.step = "check" /\ v.batch = w.batch /\ v.left = w.failed
        /\ v.failed = {}
    <3>1. w.attempt + 1 \in 0..RetryMax
      BY <1>1, <2>2, IngressAssumption DEF WorkerState
    <3> QED
      BY <1>1, <3>1 DEF WorkerState, WorkerSteps
  <2>4. CASE Goto(i, v)
    <3> HIDE DEF v
    <3>1. Advances(i)
      BY <1>1, <1>2, <2>1, <2>3, <2>4, GoesOn DEF sessionVars
    <3> QED
      BY <2>1, <3>1, QuietAdvance DEF sessionVars
  <2> QED
    BY <1>4, <2>1, <2>4
<1> QED
  BY <1>5, <1>7, <1>8, <1>9, <1>10, <1>11, <1>13, <1>14, <1>15, <1>16, <1>17

\* The packets of an ingress are of no other, and in one place of it.
LEMMA Apart ==
  ASSUME AudioInv, NEW i \in Ingresses, NEW p \in Waiting(i) \cup InHand(i)
  PROVE  /\ \A j \in Ingresses : j # i => p \notin Waiting(j) \cup InHand(j)
         /\ p \in InHand(i) => p \notin Waiting(i)
<1> DEFINE Has(j, b) == b \in ToSet(queue[j]) \/ (Busy(j) /\ b = worker[j].batch)
<1>1. ASSUME NEW j \in Ingresses, NEW q \in Waiting(j) \cup InHand(j)
      PROVE  /\ \E b : Has(j, b) /\ q \in b.packets /\ q[1] = b.number
             /\ q \in InHand(j) => /\ Busy(j) /\ ~Marking(j) /\ q[1] = worker[j].batch.number
  <2>1. ASSUME NEW b, Has(j, b), q \in b.packets PROVE q[1] = b.number
    <3>1. BatchOf(j, b)
      BY <2>1 DEF AudioInv, BatchInv
    <3> QED
      BY <2>1, <3>1 DEF BatchOf
  <2>2. q \in InHand(j) => Busy(j) /\ ~Marking(j) /\ q \in worker[j].batch.packets
    BY DEF AudioInv, WorkerInv, WellFormed, Busy, Marking
  <2>3. q \in InHand(j) => q[1] = worker[j].batch.number
    BY <2>1, <2>2
  <2>4. CASE q \in InHand(j)
    BY <2>2, <2>3, <2>4
  <2>5. CASE q \notin InHand(j)
    <3>1. q \in Waiting(j)
      BY <2>5
    <3>2. \E b : Has(j, b) /\ q \in b.packets
      BY <3>1 DEF Waiting, Marking, Busy
    <3> QED
      BY <2>1, <2>5, <3>2
  <2> QED
    BY <2>4, <2>5
<1>2. ASSUME NEW j \in Ingresses, NEW k \in Ingresses, j # k, NEW b, NEW c, Has(j, b), Has(k, c)
      PROVE  b.number # c.number
  BY <1>2 DEF AudioInv, PlaceInv
<1>3. ASSUME NEW j \in Ingresses, j # i, p \in Waiting(j) \cup InHand(j) PROVE FALSE
  <2>1. PICK b : Has(i, b) /\ p[1] = b.number
    BY <1>1
  <2>2. PICK c : Has(j, c) /\ p[1] = c.number
    BY <1>1, <1>3
  <2> HIDE DEF Has
  <2> QED
    BY <1>2, <1>3, <2>1, <2>2
<1>4. ASSUME p \in InHand(i), p \in Waiting(i) PROVE FALSE
  <2>1. Busy(i) /\ ~Marking(i) /\ p[1] = worker[i].batch.number
    BY <1>1, <1>4
  <2>2. PICK b \in ToSet(queue[i]) : p \in b.packets
    BY <1>4, <2>1 DEF Waiting
  <2>3. BatchOf(i, b)
    BY DEF AudioInv, BatchInv
  <2>4. p[1] = b.number /\ b.number # worker[i].batch.number
    BY <2>1, <2>2, <2>3 DEF BatchOf, AudioInv, PlaceInv
  <2> QED
    BY <2>1, <2>4
<1> QED
  BY <1>3, <1>4

\* The numbers of LossInv.
LEMMA LossTyped ==
  ASSUME AudioInv
  PROVE  /\ stats.superseded \in Nat /\ stats.provider \in Nat
         /\ Unsettled \subseteq Packets /\ Cardinality(Unsettled) \in Nat
         /\ accepted.packets \subseteq Packets /\ accepted.packets \ heard \subseteq Packets
         /\ Cardinality(accepted.packets \ heard) \in Nat
         /\ stats.superseded + stats.provider + Cardinality(Unsettled)
              <= Cardinality(accepted.packets \ heard)
<1>1. /\ stats.superseded \in Nat /\ stats.provider \in Nat /\ accepted.packets \subseteq Packets
  BY DEF AudioInv, Types
<1>2. Unsettled \subseteq Packets /\ accepted.packets \ heard \subseteq Packets
  BY <1>1 DEF Unsettled
<1>3. Cardinality(Unsettled) \in Nat /\ Cardinality(accepted.packets \ heard) \in Nat
  BY <1>2, PacketSets
<1> QED
  BY <1>1, <1>2, <1>3 DEF AudioInv, LossInv

\* A packet is heard: it is in hand no more, and cannot be counted as lost.
LEMMA AcceptStep ==
  ASSUME AudioInv, NEW i \in Ingresses, PacketWritten(i)
  PROVE  AudioInv'
<1> DEFINE w == worker[i]
<1> DEFINE p == NextPacket(i)
<1> DEFINE v == [w EXCEPT !.step = "ingest", !.left = @ \ {p}]
<1>1. /\ worker[i].step = "write" /\ heard' = heard \cup {p} /\ Goto(i, v)
      /\ UNCHANGED <<managerVars, ingressVars, caller, closed, newest, stats, accepted>>
  BY DEF PacketWritten
<1>2. /\ w \in WorkerState /\ WellFormed(i)
      /\ w.left \subseteq Packets /\ w.failed \subseteq Packets
      /\ InHand(i) = w.left \cup w.failed
      /\ w.session \in 1..made /\ owner[w.session] = w.batch.generation
  BY <1>1, BatchTyped
  DEF AudioInv, WorkerInv, InHand, FenceInv, AudioFence, AudioStaysInJob
<1>3. p \in w.left /\ p \in InHand(i) /\ p \notin w.failed /\ w.left \cap w.failed = {}
  BY <1>1, <1>2, NextIsLeft DEF WellFormed
<1>4. /\ v \in WorkerState /\ v.step = "ingest" /\ v.batch = w.batch /\ v.left = w.left \ {p}
      /\ v.failed = w.failed /\ v.session = w.session
  BY <1>2 DEF WorkerState, WorkerSteps
<1>5. /\ newest' \in [Ingresses -> 0..MaxConnection]
      /\ stats \in [superseded : Nat, provider : Nat, started : Generations]
  BY <1>1 DEF AudioInv, Types
<1> HIDE DEF v, p
<1>6. Advances(i)
  BY <1>1, <1>2, <1>3, <1>4, <1>5, GoesOn
<1>7. /\ Types' /\ JobInv' /\ CancelInv' /\ WorkerInv' /\ BatchInv' /\ PlaceInv' /\ CallerInv'
      /\ FenceInv' /\ CountInv'
      /\ \A j \in Ingresses : Waiting(j)' = Waiting(j) /\ InHand(j)' \subseteq InHand(j)
      /\ UNCHANGED <<cancelled, accepted>>
  BY <1>6, AdvancesStep
<1>8. InHand(i)' = InHand(i) \ {p}
  <2>1. worker'[i] = v
    BY <1>1, <1>4, Moves DEF AudioInv
  <2> QED
    BY <1>2, <1>3, <1>4, <2>1 DEF InHand
<1>9. /\ \A j \in Ingresses : p \notin Waiting(j)
      /\ \A j \in Ingresses : p \notin InHand(j)'
  <2>1. \A j \in Ingresses : j # i => p \notin Waiting(j) \cup InHand(j)
    BY <1>3, Apart
  <2>2. p \notin Waiting(i)
    BY <1>3, Apart
  <2> QED
    BY <1>7, <1>8, <2>1, <2>2
<1>10. HeardInv'
  BY <1>1, <1>7, <1>9 DEF AudioInv, HeardInv
<1>11. LossInv'
  <2>1. Unsettled' \subseteq Unsettled \ {p}
    BY <1>7, <1>9 DEF Unsettled
  <2>2. /\ stats.superseded \in Nat /\ stats.provider \in Nat
        /\ Unsettled \subseteq Packets /\ Cardinality(Unsettled) \in Nat
        /\ accepted.packets \subseteq Packets /\ accepted.packets \ heard \subseteq Packets
        /\ Cardinality(accepted.packets \ heard) \in Nat
        /\ stats.superseded + stats.provider + Cardinality(Unsettled)
             <= Cardinality(accepted.packets \ heard)
    BY LossTyped
  <2>3. /\ Cardinality(Unsettled') <= Cardinality(Unsettled \ {p})
        /\ Cardinality(Unsettled') \in Nat /\ Cardinality(Unsettled \ {p}) \in Nat
    <3>1. Unsettled' \subseteq Packets /\ Unsettled \ {p} \subseteq Packets
      BY <2>1, <2>2
    <3> QED
      BY <2>1, <3>1, Fewer, PacketSets
  <2>4. p \notin heard
    BY <1>3 DEF AudioInv, HeardInv
  <2>5. accepted'.packets \ heard' = (accepted.packets \ heard) \ {p} /\ stats' = stats
    BY <1>1
  <2> DEFINE u == Cardinality(Unsettled')
  <2> DEFINE r == Cardinality(accepted'.packets \ heard')
  <2>6. SUFFICES stats.superseded + stats.provider + u <= r
    BY <2>5 DEF LossInv
  <2>7. CASE p \in accepted.packets
    <3>1. p \in Unsettled /\ p \in accepted.packets \ heard
      BY <1>3, <2>4, <2>7 DEF Unsettled
    <3>2. IsFiniteSet(Unsettled) /\ IsFiniteSet(accepted.packets \ heard)
      BY <2>2, PacketSets
    <3>3. /\ Cardinality(Unsettled \ {p}) = Cardinality(Unsettled) - 1
          /\ Cardinality((accepted.packets \ heard) \ {p})
               = Cardinality(accepted.packets \ heard) - 1
      BY <3>1, <3>2, FS_RemoveElement
    <3>4. r = Cardinality(accepted.packets \ heard) - 1
      BY <2>5, <3>3
    <3> HIDE DEF u, r
    <3> QED
      BY <2>2, <2>3, <3>3, <3>4 DEF u
  <2>8. CASE p \notin accepted.packets
    <3>1. /\ Unsettled \ {p} \subseteq Unsettled
          /\ (accepted.packets \ heard) \ {p} = accepted.packets \ heard
      BY <2>8
    <3>2. Cardinality(Unsettled \ {p}) <= Cardinality(Unsettled)
      BY <2>2, <3>1, Fewer
    <3>3. r = Cardinality(accepted.packets \ heard)
      BY <2>5, <3>1
    <3> HIDE DEF u, r
    <3> QED
      BY <2>2, <2>3, <3>2, <3>3 DEF u
  <2> QED
    BY <2>7, <2>8
<1> QED
  BY <1>7, <1>10, <1>11 DEF AudioInv

\* The packets that failed are counted, and out of hand.
LEMMA DropStep ==
  ASSUME AudioInv, NEW i \in Ingresses, RecordDrop(i)
  PROVE  AudioInv'
<1> DEFINE w == worker[i]
<1>1. /\ worker[i].step \in {"drop", "lateDrop"} /\ Goto(i, IdleWorker)
      /\ \/ stats' = stats
         \/ /\ OfCurrentJob(w.batch)
            /\ stats' = [stats EXCEPT !.provider = @ + Cardinality(w.failed)]
      /\ UNCHANGED <<managerVars, ingressVars, caller, sessionVars, accepted>>
  BY DEF RecordDrop, Drops
<1>2. /\ w.left \subseteq Packets /\ w.failed \subseteq Packets /\ WellFormed(i) /\ w.left = {}
      /\ InHand(i) = w.failed /\ Busy(i)
  BY <1>1, BatchTyped DEF AudioInv, WorkerInv, WellFormed, InHand, Busy
<1>3. Cardinality(w.failed) \in Nat
  BY <1>2, PacketSets
<1>4. stats \in [superseded : Nat, provider : Nat, started : Generations]
  BY DEF AudioInv, Types
<1>5. CASE stats' = stats
  <2>1. Advances(i)
    BY <1>1, <1>4, <1>5, GoesIdle DEF sessionVars
  <2> QED
    BY <1>1, <1>5, <2>1, QuietAdvance DEF sessionVars
<1>6. CASE OfCurrentJob(w.batch) /\ stats' = [stats EXCEPT !.provider = @ + Cardinality(w.failed)]
  <2>1. /\ stats' \in [superseded : Nat, provider : Nat, started : Generations]
        /\ stats'.superseded = stats.superseded
        /\ stats'.provider = stats.provider + Cardinality(w.failed)
    BY <1>3, <1>4, <1>6
  <2>2. Advances(i)
    BY <1>1, <2>1, GoesIdle DEF sessionVars
  <2>3. /\ Types' /\ JobInv' /\ CancelInv' /\ WorkerInv' /\ BatchInv' /\ PlaceInv' /\ CallerInv'
        /\ FenceInv' /\ CountInv'
        /\ \A j \in Ingresses : Waiting(j)' = Waiting(j) /\ InHand(j)' \subseteq InHand(j)
        /\ UNCHANGED <<cancelled, accepted>>
    BY <2>2, AdvancesStep
  <2>4. InHand(i)' = {}
    <3>1. worker'[i] = IdleWorker
      BY <1>1, Rest, Moves DEF AudioInv
    <3> QED
      BY <3>1, Rest DEF InHand
  <2>5. HeardInv' /\ heard' = heard
    BY <1>1, <2>3 DEF AudioInv, HeardInv, sessionVars
  <2>6. w.failed \subseteq Unsettled
    <3>1. BatchOf(i, w.batch) /\ w.failed \subseteq w.batch.packets
      BY <1>2 DEF AudioInv, BatchInv, WellFormed
    <3>2. w.failed \subseteq accepted.packets
      BY <1>6, <3>1 DEF BatchOf, OfCurrentJob
    <3> QED
      BY <1>2, <3>2 DEF Unsettled
  <2>7. Unsettled' \subseteq Unsettled \ w.failed
    <3>1. \A q \in w.failed, j \in Ingresses : q \notin Waiting(j) /\ (j # i => q \notin InHand(j))
      BY <1>2, Apart
    <3> QED
      BY <2>3, <2>4, <3>1 DEF Unsettled
  <2>8. /\ stats.superseded \in Nat /\ stats.provider \in Nat
        /\ Unsettled \subseteq Packets /\ Cardinality(Unsettled) \in Nat
        /\ Cardinality(accepted.packets \ heard) \in Nat
        /\ stats.superseded + stats.provider + Cardinality(Unsettled)
             <= Cardinality(accepted.packets \ heard)
    BY LossTyped
  <2>9. Cardinality(Unsettled \ w.failed) = Cardinality(Unsettled) - Cardinality(w.failed)
    BY <2>6, <2>8, Taking
  <2>10. /\ Cardinality(Unsettled') <= Cardinality(Unsettled \ w.failed)
         /\ Cardinality(Unsettled') \in Nat /\ Cardinality(Unsettled \ w.failed) \in Nat
    <3>1. Unsettled' \subseteq Packets /\ Unsettled \ w.failed \subseteq Packets
      BY <2>7, <2>8
    <3> QED
      BY <2>7, <3>1, Fewer, PacketSets
  <2>11. LossInv'
    BY <1>3, <2>1, <2>3, <2>5, <2>8, <2>9, <2>10 DEF LossInv
  <2> QED
    BY <2>3, <2>5, <2>11 DEF AudioInv
<1> QED
  BY <1>1, <1>5, <1>6
-----------------------------------------------------------------------------
(* Steps that move batches.                                                 *)

\* The goroutine takes a batch out of the queue; it still counts as queued.
LEMMA TakeStep ==
  ASSUME AudioInv, NEW i \in Ingresses, TakeBatch(i)
  PROVE  AudioInv'
<1> DEFINE q == queue[i]
<1> DEFINE h == Head(queue[i])
<1> DEFINE v == [IdleWorker EXCEPT !.step = "mark", !.batch = h]
<1>1. /\ worker[i].step = "idle" /\ q # <<>> /\ Goto(i, v)
      /\ queue' = [queue EXCEPT ![i] = Tail(q)]
      /\ UNCHANGED <<managerVars, queued, cancelled, caller, sessionVars, stats, accepted>>
  BY DEF TakeBatch
<1>2. q \in Seq(Batch) /\ queue \in [Ingresses -> Seq(Batch)]
  BY DEF AudioInv, Types
<1>3. /\ h \in Batch /\ Tail(q) \in Seq(Batch) /\ h \in ToSet(q)
      /\ ToSet(Tail(q)) \subseteq ToSet(q) /\ ToSet(q) \subseteq ToSet(Tail(q)) \cup {h}
  BY <1>1, <1>2, Queues
<1>4. v \in WorkerState /\ v.step = "mark" /\ v.batch = h /\ v.left = {} /\ v.failed = {}
  BY <1>3, Rest DEF WorkerState, WorkerSteps
<1>5. /\ Len(q) \in Nat /\ DOMAIN q = 1..Len(q) /\ DOMAIN Tail(q) = 1..(Len(q) - 1)
      /\ h = q[1] /\ Len(q) > 0 /\ \A n \in 1..(Len(q) - 1) : Tail(q)[n] = q[n + 1]
  BY <1>1, <1>2
<1>6. \A m, n \in 1..Len(q) : m # n => q[m].number # q[n].number
  BY <1>5 DEF AudioInv, PlaceInv
<1>7. \A b \in ToSet(Tail(q)) : b.number # h.number
  <2> SUFFICES ASSUME NEW b \in ToSet(Tail(q)) PROVE b.number # h.number
    OBVIOUS
  <2>1. PICK n \in 1..(Len(q) - 1) : b = Tail(q)[n]
    BY <1>5 DEF ToSet
  <2>2. n + 1 \in 1..Len(q) /\ 1 \in 1..Len(q) /\ n + 1 # 1 /\ b = q[n + 1]
    BY <1>5, <2>1
  <2> QED
    BY <1>5, <1>6, <2>2
<1>8. /\ worker' \in [Ingresses -> WorkerState] /\ worker'[i] = v
      /\ \A j \in Ingresses : j # i => worker'[j] = worker[j]
  BY <1>1, <1>4, Moves DEF AudioInv
<1>9. /\ queue' \in [Ingresses -> Seq(Batch)] /\ queue'[i] = Tail(q)
      /\ \A j \in Ingresses : j # i => queue'[j] = queue[j]
      /\ \A j \in Ingresses : ToSet(queue'[j]) \subseteq ToSet(queue[j])
  <2>1. /\ queue' \in [Ingresses -> Seq(Batch)] /\ queue'[i] = Tail(q)
        /\ \A j \in Ingresses : j # i => queue'[j] = queue[j]
    BY <1>1, <1>2, <1>3
  <2>2. \A j \in Ingresses : ToSet(queue'[j]) \subseteq ToSet(queue[j])
    BY <1>3, <2>1
  <2> QED
    BY <2>1, <2>2
<1>10. /\ UNCHANGED <<job, generation, connection, session, ingress, made, owner, cleanup>>
       /\ UNCHANGED <<queued, cancelled, caller, closed, newest, heard, stats, accepted>>
  BY <1>1 DEF managerVars, sessionVars
<1>11. /\ worker'[i].step = "mark" /\ worker'[i].batch = h
       /\ worker'[i].left = {} /\ worker'[i].failed = {}
  BY <1>4, <1>8
<1> HIDE DEF q, h, v
<1>12. Types'
  BY <1>8, <1>9, <1>10 DEF AudioInv, Types
<1>13. /\ \A j \in Ingresses : j # i => /\ (Busy(j)' <=> Busy(j)) /\ (Marking(j)' <=> Marking(j))
                                        /\ InHand(j)' = InHand(j)
       /\ Busy(i)' /\ ~Busy(i) /\ Marking(i)' /\ ~Marking(i)
       /\ InHand(i)' = {} /\ InHand(i) = {}
  BY <1>1, <1>8, <1>11 DEF Busy, Marking, InHand, AudioInv, WorkerInv, WellFormed
<1>14. \A j \in Ingresses : Waiting(j)' = Waiting(j)
  <2>1. \A j \in Ingresses : j # i => Waiting(j)' = Waiting(j)
    BY <1>8, <1>9, <1>13 DEF Waiting
  <2>2. Waiting(i)' = Waiting(i)
    <3>1. \A p : (\E b \in ToSet(queue[i]) : p \in b.packets)
                   <=> p \in h.packets \/ \E b \in ToSet(queue'[i]) : p \in b.packets
      BY <1>3, <1>9 DEF q
    <3> QED
      BY <1>11, <1>13, <3>1 DEF Waiting
  <2> QED
    BY <2>1, <2>2
<1>15. JobInv' /\ CallerInv'
  BY <1>10 DEF AudioInv, JobInv, CallerInv
<1>16. CancelInv'
  <2>1. i <= made
    <3>1. made \in Nat /\ i \in Nat
      BY IngressAssumption DEF AudioInv, Types, Ingresses
    <3>2. ~(i > made)
      BY <1>1 DEF AudioInv, CancelInv
    <3> QED
      BY <3>1, <3>2
  <2>2. ReplacedIsCancelled'
    BY <1>10 DEF AudioInv, CancelInv, ReplacedIsCancelled
  <2>3. \A j \in Ingresses : j > made' => worker'[j].step = "off" /\ queue'[j] = <<>>
    <3>1. made \in Nat /\ i \in Nat
      BY IngressAssumption DEF AudioInv, Types, Ingresses
    <3> QED
      BY <1>8, <1>9, <1>10, <2>1, <3>1 DEF AudioInv, CancelInv, Ingresses
  <2> QED
    BY <1>10, <2>2, <2>3 DEF AudioInv, CancelInv
<1>17. WorkerInv'
  <2>1. \A j \in Ingresses : j # i => (WellFormed(j)' <=> WellFormed(j))
    BY <1>8 DEF WellFormed, Busy, InHand
  <2>2. WellFormed(i)'
    BY <1>11, <1>13 DEF WellFormed
  <2> QED
    BY <2>1, <2>2 DEF AudioInv, WorkerInv
<1>18. BatchInv'
  <2>1. \A j \in Ingresses : \A b : BatchOf(j, b)' <=> BatchOf(j, b)
    BY <1>10 DEF BatchOf
  <2>2. \A j \in Ingresses : \A b \in ToSet(queue'[j]) : BatchOf(j, b)'
    BY <1>9, <2>1 DEF AudioInv, BatchInv
  <2>3. ASSUME NEW j \in Ingresses, Busy(j)' PROVE BatchOf(j, worker[j].batch)'
    <3>1. PICK b : b = worker'[j].batch
      OBVIOUS
    <3>2. BatchOf(j, b)
      BY <1>3, <1>8, <1>11, <1>13, <2>3, <3>1 DEF AudioInv, BatchInv, q
    <3>3. BatchOf(j, b)'
      BY <2>1, <3>2
    <3> QED
      BY <3>1, <3>3 DEF BatchOf
  <2>4. \A p \in accepted'.packets \cup heard' : p[1] <= accepted'.batches
    BY <1>10 DEF AudioInv, BatchInv
  <2> QED
    BY <2>2, <2>3, <2>4 DEF BatchInv
<1>19. PlaceInv'
  <2>1. ASSUME NEW j \in Ingresses, NEW m \in Nat, NEW n \in Nat,
               m \in DOMAIN queue'[j], n \in DOMAIN queue'[j], m # n
        PROVE  queue'[j][m].number # queue'[j][n].number
    <3>1. CASE j = i
      <4>1. m + 1 \in 1..Len(q) /\ n + 1 \in 1..Len(q) /\ m + 1 # n + 1
        BY <1>5, <1>9, <2>1, <3>1
      <4>2. queue'[j][m] = q[m + 1] /\ queue'[j][n] = q[n + 1]
        BY <1>5, <1>9, <2>1, <3>1
      <4> QED
        BY <1>6, <4>1, <4>2
    <3>2. CASE j # i
      BY <1>9, <2>1, <3>2 DEF AudioInv, PlaceInv
    <3> QED
      BY <3>1, <3>2
  <2>2. ASSUME NEW j \in Ingresses, Busy(j)'
        PROVE  \A b \in ToSet(queue'[j]) : b.number # worker'[j].batch.number
    <3>1. CASE j = i
      BY <1>7, <1>9, <1>11, <3>1
    <3>2. CASE j # i
      <4>1. Busy(j) /\ worker'[j] = worker[j] /\ queue'[j] = queue[j]
        BY <1>8, <1>9, <1>13, <2>2, <3>2
      <4> QED
        BY <4>1 DEF AudioInv, PlaceInv
    <3> QED
      BY <3>1, <3>2
  <2>3. ASSUME NEW j \in Ingresses, NEW k \in Ingresses, j # k
        PROVE  /\ \A b \in ToSet(queue'[j]), c \in ToSet(queue'[k]) : b.number # c.number
               /\ Busy(j)' => \A c \in ToSet(queue'[k]) : worker'[j].batch.number # c.number
               /\ Busy(j)' /\ Busy(k)' => worker'[j].batch.number # worker'[k].batch.number
    <3>1. h \in ToSet(queue[i])
      BY <1>3 DEF q
    <3>2. \A b \in ToSet(queue[j]), c \in ToSet(queue[k]) : b.number # c.number
      BY <2>3 DEF AudioInv, PlaceInv
    <3>3. /\ Busy(j) => \A c \in ToSet(queue[k]) : worker[j].batch.number # c.number
          /\ Busy(k) => \A c \in ToSet(queue[j]) : worker[k].batch.number # c.number
          /\ Busy(j) /\ Busy(k) => worker[j].batch.number # worker[k].batch.number
      BY <2>3 DEF AudioInv, PlaceInv
    <3>4. \A b \in ToSet(queue'[j]), c \in ToSet(queue'[k]) : b.number # c.number
      BY <1>9, <3>2
    <3>5. Busy(j)' => \A c \in ToSet(queue'[k]) : worker'[j].batch.number # c.number
      BY <1>8, <1>9, <1>11, <1>13, <3>1, <3>2, <3>3
    <3>6. Busy(j)' /\ Busy(k)' => worker'[j].batch.number # worker'[k].batch.number
      BY <1>8, <1>11, <1>13, <2>3, <3>1, <3>3
    <3> QED
      BY <3>4, <3>5, <3>6
  <2> QED
    BY <2>1, <2>2, <2>3 DEF PlaceInv
<1>20. FenceInv'
  <2>1. QueuedIsCurrent'
    <3>1. ingress = 0 \/ ingress \in Ingresses
      BY IngressAssumption DEF AudioInv, Types, Ingresses
    <3> QED
      BY <1>9, <1>10, <3>1 DEF AudioInv, FenceInv, AudioFence, QueuedIsCurrent, OfCurrentJob
  <2>2. /\ AudioStaysInJob'
        /\ \A j \in Ingresses : worker'[j].step \in {"ingest", "send", "write"} =>
             worker'[j].session \in 1..made'
    BY <1>8, <1>10, <1>11 DEF AudioInv, FenceInv, AudioFence, AudioStaysInJob
  <2> QED
    BY <2>1, <2>2 DEF FenceInv, AudioFence
<1>21. HeardInv' /\ CountInv'
  BY <1>10, <1>13, <1>14 DEF AudioInv, HeardInv, CountInv
<1>22. LossInv'
  <2>1. Unsettled' \subseteq Unsettled
    BY <1>10, <1>13, <1>14 DEF Unsettled
  <2> QED
    BY <1>10, <2>1, LossKept
<1> QED
  BY <1>12, <1>15, <1>16, <1>17, <1>18, <1>19, <1>20, <1>21, <1>22 DEF AudioInv

\* New values for the counters beside one queue.
LEMMA Counters ==
  ASSUME Types, NEW i \in Ingresses, NEW m \in Int, NEW n \in Int,
         queued' = [queued EXCEPT ![i].packets = m, ![i].bytes = n]
  PROVE  /\ queued' \in [Ingresses -> [packets : Int, bytes : Int]]
         /\ queued'[i].packets = m /\ queued'[i].bytes = n
         /\ \A j \in Ingresses : j # i => queued'[j] = queued[j]
<1> DEFINE r == [queued[i] EXCEPT !.packets = m, !.bytes = n]
<1>1. queued \in [Ingresses -> [packets : Int, bytes : Int]]
  BY DEF Types
<1>2. r \in [packets : Int, bytes : Int] /\ r.packets = m /\ r.bytes = n
  BY <1>1
<1>3. queued' = [queued EXCEPT ![i] = r]
  BY <1>1
<1> HIDE DEF r
<1> QED
  BY <1>1, <1>2, <1>3

\* markDequeued gives the room back; the packets are in hand, or are given up with
\* the ingress.
LEMMA MarkStep ==
  ASSUME AudioInv, NEW i \in Ingresses, MarkDequeued(i)
  PROVE  AudioInv'
<1> DEFINE w == worker[i]
<1> DEFINE b == worker[i].batch
<1> DEFINE x == [IdleWorker EXCEPT !.step = "exited"]
<1> DEFINE y == [w EXCEPT !.step = "check", !.attempt = 1, !.left = b.packets]
<1>1. /\ w.step = "mark"
      /\ queued' = [queued EXCEPT ![i].packets = @ - Cardinality(b.packets),
                                  ![i].bytes = @ - b.bytes]
      /\ \/ cancelled[i] /\ Goto(i, x)
         \/ ~cancelled[i] /\ Goto(i, y)
      /\ UNCHANGED <<managerVars, queue, cancelled, caller, sessionVars, stats, accepted>>
  BY DEF MarkDequeued
<1>2. /\ w \in WorkerState /\ b \in Batch /\ b.packets \subseteq Packets /\ WellFormed(i)
      /\ InHand(i) = {} /\ w.left = {} /\ w.failed = {} /\ Busy(i) /\ Marking(i)
  BY <1>1, BatchTyped DEF AudioInv, WorkerInv, WellFormed, InHand, Busy, Marking
<1>3. x \in WorkerState /\ x.step = "exited" /\ x.left = {} /\ x.failed = {}
  BY Rest DEF WorkerState, WorkerSteps
<1>4. /\ y \in WorkerState /\ y.step = "check" /\ y.left = b.packets /\ y.failed = {}
      /\ y.batch = b
  <2>1. 1 \in 0..RetryMax
    BY IngressAssumption
  <2> QED
    BY <1>2, <2>1 DEF WorkerState, WorkerSteps
<1>5. PICK v \in WorkerState :
        /\ Goto(i, v) /\ v.failed = {}
        /\ \/ v.step = "exited" /\ v.left = {}
           \/ v.step = "check" /\ v.left = b.packets /\ v.batch = b /\ ~cancelled[i]
  BY <1>1, <1>3, <1>4
<1>6. /\ worker' \in [Ingresses -> WorkerState] /\ worker'[i] = v
      /\ \A j \in Ingresses : j # i => worker'[j] = worker[j]
  BY <1>5, Moves DEF AudioInv
<1>7. /\ queued' \in [Ingresses -> [packets : Int, bytes : Int]]
      /\ queued'[i].packets = queued[i].packets - Cardinality(b.packets)
      /\ \A j \in Ingresses : j # i => queued'[j] = queued[j]
  <2>1. Cardinality(b.packets) \in Nat /\ b.bytes \in Nat
    <3>1. Cardinality(b.packets) \in Nat
      BY <1>2, PacketSets
    <3>2. b.bytes \in Nat
      BY <1>2, IngressAssumption DEF Batch
    <3> QED
      BY <3>1, <3>2
  <2>2. queued \in [Ingresses -> [packets : Int, bytes : Int]]
    BY DEF AudioInv, Types
  <2>3. queued[i].packets - Cardinality(b.packets) \in Int /\ queued[i].bytes - b.bytes \in Int
    BY <2>1, <2>2
  <2> QED
    BY <1>1, <2>2, <2>3, Counters
<1>8. /\ UNCHANGED <<job, generation, connection, session, ingress, made, owner, cleanup>>
      /\ UNCHANGED <<queue, cancelled, caller, closed, newest, heard, stats, accepted>>
  BY <1>1 DEF managerVars, sessionVars
<1> HIDE DEF x, y
<1>9. Types'
  BY <1>6, <1>7, <1>8 DEF AudioInv, Types
<1>10. /\ \A j \in Ingresses : j # i => /\ (Busy(j)' <=> Busy(j)) /\ (Marking(j)' <=> Marking(j))
                                        /\ InHand(j)' = InHand(j)
       /\ ~Marking(i)' /\ InHand(i)' = v.left
       /\ Busy(i)' => v.step = "check" /\ worker'[i].batch = b
  BY <1>5, <1>6 DEF Busy, Marking, InHand
<1>11. /\ \A j \in Ingresses : j # i => Waiting(j)' = Waiting(j)
       /\ Waiting(i)' = Waiting(i) \ b.packets /\ b.packets \subseteq Waiting(i)
  <2>1. \A j \in Ingresses : j # i => Waiting(j)' = Waiting(j)
    BY <1>6, <1>8, <1>10 DEF Waiting
  <2>2. b.packets \subseteq Waiting(i)
    BY <1>2 DEF Waiting
  <2>3. \A c \in ToSet(queue[i]) : c.packets \cap b.packets = {}
    <3> SUFFICES ASSUME NEW c \in ToSet(queue[i]), NEW p \in c.packets, p \in b.packets PROVE FALSE
      OBVIOUS
    <3>1. BatchOf(i, c) /\ BatchOf(i, b) /\ c.number # b.number
      BY <1>2 DEF AudioInv, BatchInv, PlaceInv
    <3> QED
      BY <3>1 DEF BatchOf
  <2>4. Waiting(i)' = Waiting(i) \ b.packets
    BY <1>2, <1>8, <1>10, <2>3 DEF Waiting
  <2> QED
    BY <2>1, <2>2, <2>4
<1>12. JobInv' /\ CallerInv'
  BY <1>8 DEF AudioInv, JobInv, CallerInv
<1>13. CancelInv'
  <2>1. ReplacedIsCancelled'
    BY <1>8 DEF AudioInv, CancelInv, ReplacedIsCancelled
  <2>2. \A j \in Ingresses : j > made' => worker'[j].step = "off" /\ queue'[j] = <<>>
    BY <1>1, <1>6, <1>8 DEF AudioInv, CancelInv
  <2> QED
    BY <1>8, <2>1, <2>2 DEF AudioInv, CancelInv
<1>14. WorkerInv'
  <2>1. \A j \in Ingresses : j # i => (WellFormed(j)' <=> WellFormed(j))
    BY <1>6 DEF WellFormed, Busy, InHand
  <2>2. WellFormed(i)'
    BY <1>5, <1>6, <1>10 DEF WellFormed
  <2> QED
    BY <2>1, <2>2 DEF AudioInv, WorkerInv
<1>15. BatchInv'
  <2>1. \A j \in Ingresses : \A c : BatchOf(j, c)' <=> BatchOf(j, c)
    BY <1>8 DEF BatchOf
  <2>2. \A j \in Ingresses : \A c \in ToSet(queue'[j]) : BatchOf(j, c)'
    BY <1>8, <2>1 DEF AudioInv, BatchInv
  <2>3. ASSUME NEW j \in Ingresses, Busy(j)' PROVE BatchOf(j, worker[j].batch)'
    <3>1. PICK c : c = worker'[j].batch
      OBVIOUS
    <3>2. BatchOf(j, c)
      BY <1>2, <1>6, <1>10, <2>3, <3>1 DEF AudioInv, BatchInv
    <3>3. BatchOf(j, c)'
      BY <2>1, <3>2
    <3> QED
      BY <3>1, <3>3 DEF BatchOf
  <2>4. \A p \in accepted'.packets \cup heard' : p[1] <= accepted'.batches
    BY <1>8 DEF AudioInv, BatchInv
  <2> QED
    BY <2>2, <2>3, <2>4 DEF BatchInv
<1>16. PlaceInv'
  <2>1. \A j \in Ingresses : Busy(j)' => Busy(j) /\ worker'[j].batch = worker[j].batch
    BY <1>2, <1>6, <1>10
  <2> QED
    BY <1>8, <2>1 DEF AudioInv, PlaceInv
<1>17. FenceInv'
  <2>1. QueuedIsCurrent'
    BY <1>8 DEF AudioInv, FenceInv, AudioFence, QueuedIsCurrent, OfCurrentJob
  <2>2. /\ AudioStaysInJob'
        /\ \A j \in Ingresses : worker'[j].step \in {"ingest", "send", "write"} =>
             worker'[j].session \in 1..made'
    BY <1>5, <1>6, <1>8 DEF AudioInv, FenceInv, AudioFence, AudioStaysInJob
  <2> QED
    BY <2>1, <2>2 DEF FenceInv, AudioFence
<1>18. HeardInv'
  BY <1>5, <1>8, <1>10, <1>11 DEF AudioInv, HeardInv
<1>19. CountInv'
  <2>1. Waiting(i) \subseteq Packets /\ queued[i].packets = Cardinality(Waiting(i))
    BY BatchTyped DEF AudioInv, CountInv
  <2>2. Cardinality(Waiting(i) \ b.packets) = Cardinality(Waiting(i)) - Cardinality(b.packets)
    BY <1>11, <2>1, Taking
  <2> QED
    BY <1>7, <1>11, <2>1, <2>2 DEF AudioInv, CountInv
<1>20. LossInv'
  <2>1. Unsettled' \subseteq Unsettled
    BY <1>5, <1>8, <1>10, <1>11 DEF Unsettled
  <2> QED
    BY <1>8, <2>1, LossKept
<1> QED
  BY <1>9, <1>12, <1>13, <1>14, <1>15, <1>16, <1>17, <1>18, <1>19, <1>20 DEF AudioInv

\* A row of numbered things has as many as its last number.
LEMMA Row ==
  ASSUME NEW n, NEW k \in Nat
  PROVE  IsFiniteSet({n} \X (1..k)) /\ Cardinality({n} \X (1..k)) = k
<1>1. IsFiniteSet(1..k) /\ Cardinality(1..k) = k
  <2>1. PICK m \in Int : m = k
    OBVIOUS
  <2>2. IsFiniteSet(1..m) /\ Cardinality(1..m) = IF 1 > m THEN 0 ELSE m - 1 + 1
    BY FS_Interval
  <2> QED
    BY <2>1, <2>2
<1>2. IsFiniteSet({n}) /\ Cardinality({n}) = 1
  BY FS_Singleton
<1>3. PICK S, T : S = {n} /\ T = 1..k
  OBVIOUS
<1>4. IsFiniteSet(S \X T) /\ Cardinality(S \X T) = Cardinality(S) * Cardinality(T)
  BY <1>1, <1>2, <1>3, FS_Product
<1>5. Cardinality(S \X T) = 1 * k
  BY <1>1, <1>2, <1>3, <1>4
<1> QED
  BY <1>3, <1>4, <1>5

\* The batch of a request.
LEMMA BatchMade ==
  ASSUME AudioInv, NEW c \in Callers, caller[c].step = "copy", accepted.batches < MaxBatches
  PROVE  LET n == accepted.batches + 1
             b == NewBatch(n, caller[c])
         IN /\ b \in Batch /\ b.packets \subseteq Packets /\ b.number = n
            /\ n \in 1..MaxBatches
            /\ b.generation = caller[c].generation /\ b.connection = caller[c].connection
            /\ caller[c].connection # 0 /\ \A p \in b.packets : p[1] = n
            /\ Cardinality(b.packets) = caller[c].kind[1] /\ b.bytes = caller[c].kind[2]
            /\ caller[c].kind[1] \in Nat /\ caller[c].kind[2] \in Nat
<1> DEFINE n == accepted.batches + 1
<1> DEFINE k == caller[c].kind
<1> DEFINE b == NewBatch(n, caller[c])
<1>1. /\ caller[c].generation \in Generations /\ caller[c].connection \in 0..MaxConnection
      /\ caller[c].connection # 0 /\ k \in Kinds
  BY DEF AudioInv, Types, CallerState, CallerInv
<1>2. k[1] \in 1..QueuePackets /\ k[2] \in 0..QueueBytes
  BY <1>1, IngressAssumption
<1>3. n \in 1..MaxBatches
  <2>1. accepted.batches \in 0..MaxBatches
    BY DEF AudioInv, Types
  <2> QED
    BY <2>1, IngressAssumption
<1> HIDE DEF n, k
<1>4. {n} \X (1..k[1]) \subseteq Packets
  <2>1. 1..k[1] \subseteq 1..QueuePackets
    BY <1>2, IngressAssumption
  <2> QED
    BY <1>3, <2>1 DEF Packets
<1>5. /\ b.number = n /\ b.generation = caller[c].generation
      /\ b.connection = caller[c].connection /\ b.packets = {n} \X (1..k[1]) /\ b.bytes = k[2]
  BY DEF NewBatch, k
<1>6. b \in Batch
  <2>1. n \in 0..MaxBatches
    BY <1>3, IngressAssumption
  <2> QED
    BY <1>1, <1>2, <1>4, <2>1 DEF NewBatch, Batch, k
<1>7. Cardinality({n} \X (1..k[1])) = k[1]
  <2>1. PICK m \in Nat : m = k[1]
    BY <1>2, IngressAssumption
  <2> QED
    BY <2>1, Row
<1>8. \A p \in b.packets : p[1] = n
  BY <1>5
<1>9. k[1] \in Nat /\ k[2] \in Nat
  BY <1>2, IngressAssumption
<1> QED
  BY <1>1, <1>3, <1>4, <1>5, <1>6, <1>7, <1>8, <1>9 DEF n, k

\* The second critical section puts the batch into the queue of the manager's ingress.
LEMMA EnqueueStep ==
  ASSUME AudioInv, NEW c \in Callers, EnqueueSecond(c)
  PROVE  AudioInv'
<1>0. PICK i, n, b, q : /\ i = ingress /\ n = accepted.batches + 1
                        /\ b = NewBatch(n, caller[c]) /\ q = queue[i]
  OBVIOUS
<1>1. /\ caller[c].step = "copy" /\ job = "active" /\ caller[c].generation = generation
      /\ connection = caller[c].connection /\ ~cancelled[i] /\ accepted.batches < MaxBatches
      /\ queue' = [queue EXCEPT ![i] = Append(q, b)]
      /\ queued' = [queued EXCEPT ![i].packets = @ + caller[c].kind[1],
                                  ![i].bytes = @ + caller[c].kind[2]]
      /\ accepted' = [batches |-> n, packets |-> accepted.packets \cup b.packets]
      /\ caller' = [caller EXCEPT ![c] = IdleCaller]
      /\ UNCHANGED <<managerVars, cancelled, worker, sessionVars, stats>>
  BY <1>0 DEF EnqueueSecond, Serving, SameIngress, Fits
<1>2. /\ b \in Batch /\ b.packets \subseteq Packets /\ b.number = n /\ n \in 1..MaxBatches
      /\ b.generation = generation /\ b.connection = connection /\ connection # 0
      /\ \A p \in b.packets : p[1] = n
      /\ Cardinality(b.packets) = caller[c].kind[1]
      /\ caller[c].kind[1] \in Nat /\ caller[c].kind[2] \in Nat
  BY <1>0, <1>1, BatchMade
<1>3. i \in Ingresses /\ i \in 1..made /\ owner[i] = generation
  <2>1. ingress # 0 /\ owner[ingress] = generation
    BY <1>1 DEF AudioInv, JobInv
  <2>2. ingress \in 0..made /\ made \in 0..MaxIngress
    BY DEF AudioInv, Types
  <2> QED
    BY <1>0, <2>1, <2>2, IngressAssumption DEF Ingresses
<1>4. q \in Seq(Batch) /\ queue \in [Ingresses -> Seq(Batch)]
  BY <1>0, <1>3 DEF AudioInv, Types
<1>5. /\ Append(q, b) \in Seq(Batch) /\ ToSet(Append(q, b)) = ToSet(q) \cup {b}
  BY <1>2, <1>4, Queues
<1>6. /\ queue' \in [Ingresses -> Seq(Batch)] /\ queue'[i] = Append(q, b)
      /\ \A j \in Ingresses : j # i => queue'[j] = queue[j]
  BY <1>1, <1>3, <1>4, <1>5
<1>7. /\ UNCHANGED <<job, generation, connection, session, ingress, made, owner, cleanup>>
      /\ UNCHANGED <<cancelled, worker, closed, newest, heard, stats>>
      /\ accepted'.batches = n /\ accepted'.packets = accepted.packets \cup b.packets
  BY <1>1 DEF managerVars, sessionVars
<1>8. /\ queued' \in [Ingresses -> [packets : Int, bytes : Int]]
      /\ queued'[i].packets = queued[i].packets + Cardinality(b.packets)
      /\ \A j \in Ingresses : j # i => queued'[j] = queued[j]
  <2>1. queued[i] \in [packets : Int, bytes : Int]
    BY <1>3 DEF AudioInv, Types
  <2>2. queued[i].packets + caller[c].kind[1] \in Int /\ queued[i].bytes + caller[c].kind[2] \in Int
    BY <1>2, <2>1
  <2>3. queued' = [queued EXCEPT ![i].packets = queued[i].packets + caller[c].kind[1],
                                 ![i].bytes = queued[i].bytes + caller[c].kind[2]]
    BY <1>1
  <2> QED
    BY <1>2, <1>3, <2>2, <2>3, Counters DEF AudioInv
<1>9. /\ caller' \in [Callers -> CallerState]
      /\ \A d \in Callers : caller'[d].step = "copy" => caller'[d] = caller[d]
  BY <1>1, Rest DEF AudioInv, Types
<1>10. accepted.batches \in Nat /\ accepted.packets \subseteq Packets /\ n > accepted.batches
  BY <1>0, IngressAssumption DEF AudioInv, Types
<1>11. Types'
  <2>1. accepted' \in [batches : 0..MaxBatches, packets : SUBSET Packets]
    <3>1. n \in 0..MaxBatches
      BY <1>2, IngressAssumption
    <3> QED
      BY <1>1, <1>2, <1>10, <3>1
  <2> QED
    BY <1>6, <1>7, <1>8, <1>9, <2>1 DEF AudioInv, Types
<1>12. \A j \in Ingresses : (Busy(j)' <=> Busy(j)) /\ (Marking(j)' <=> Marking(j))
                            /\ InHand(j)' = InHand(j)
  BY <1>7 DEF Busy, Marking, InHand
<1>13. /\ \A j \in Ingresses : j # i => Waiting(j)' = Waiting(j)
       /\ Waiting(i)' = Waiting(i) \cup b.packets
  <2>1. \A j \in Ingresses : j # i => Waiting(j)' = Waiting(j)
    BY <1>6, <1>7, <1>12 DEF Waiting
  <2>2. ToSet(queue'[i]) = ToSet(queue[i]) \cup {b}
    BY <1>0, <1>5, <1>6
  <2>3. Waiting(i)' = Waiting(i) \cup b.packets
    BY <1>2, <1>3, <1>7, <1>12, <2>2 DEF Waiting
  <2> QED
    BY <2>1, <2>3
<1>14. JobInv' /\ WorkerInv'
  <2>1. JobInv'
    BY <1>7 DEF AudioInv, JobInv
  <2>2. \A j \in Ingresses : WellFormed(j)' <=> WellFormed(j)
    BY <1>7 DEF WellFormed, Busy, InHand
  <2> QED
    BY <2>1, <2>2 DEF AudioInv, WorkerInv
<1>15. CancelInv'
  <2>1. ReplacedIsCancelled'
    BY <1>7 DEF AudioInv, CancelInv, ReplacedIsCancelled
  <2>2. ~(i > made)
    <3>1. made \in Nat /\ i \in Nat
      BY <1>3, IngressAssumption DEF AudioInv, Types, Ingresses
    <3> QED
      BY <1>3, <3>1
  <2>3. \A j \in Ingresses : j > made' => worker'[j].step = "off" /\ queue'[j] = <<>>
    BY <1>6, <1>7, <2>2 DEF AudioInv, CancelInv
  <2> QED
    BY <1>7, <2>1, <2>3 DEF AudioInv, CancelInv
<1>16. \A j \in Ingresses : \A a \in ToSet(queue'[j]) : a \in ToSet(queue[j]) \/ (j = i /\ a = b)
  BY <1>0, <1>3, <1>5, <1>6
<1>17. BatchInv'
  <2>1. ASSUME NEW j \in Ingresses, NEW a, BatchOf(j, a) PROVE BatchOf(j, a)'
    <3>1. a.number \in 1..accepted'.batches
      <4>1. a.number \in 1..accepted.batches
        BY <2>1 DEF BatchOf
      <4> QED
        BY <1>0, <1>7, <1>10, <4>1
    <3> QED
      BY <1>7, <2>1, <3>1 DEF BatchOf
  <2>2. BatchOf(i, b)'
    <3>1. n \in 1..n
      BY <1>2, IngressAssumption
    <3> QED
      BY <1>2, <1>3, <1>7, <3>1 DEF BatchOf
  <2>3. \A j \in Ingresses : \A a \in ToSet(queue'[j]) : BatchOf(j, a)'
    BY <1>16, <2>1, <2>2 DEF AudioInv, BatchInv
  <2>4. ASSUME NEW j \in Ingresses, Busy(j)' PROVE BatchOf(j, worker[j].batch)'
    <3>1. PICK a : a = worker[j].batch
      OBVIOUS
    <3>2. BatchOf(j, a)
      BY <1>12, <2>4, <3>1 DEF AudioInv, BatchInv
    <3>3. BatchOf(j, a)'
      BY <2>1, <3>2
    <3> QED
      BY <1>7, <3>1, <3>3 DEF BatchOf
  <2>5. \A p \in accepted'.packets \cup heard' : p[1] <= accepted'.batches
    <3>1. \A p \in accepted.packets \cup heard : p[1] <= accepted.batches
      BY DEF AudioInv, BatchInv
    <3>2. \A p \in Packets : p[1] \in Nat
      BY DEF Packets
    <3>3. heard \subseteq Packets
      BY DEF AudioInv, Types
    <3>4. \A p \in accepted.packets \cup heard : p[1] <= n
      BY <1>0, <1>10, <3>1, <3>2, <3>3
    <3>5. n <= n
      BY <1>0, <1>10
    <3> QED
      BY <1>2, <1>7, <3>4, <3>5
  <2> QED
    BY <2>3, <2>4, <2>5 DEF BatchInv
<1>18. /\ \A j \in Ingresses : \A a \in ToSet(queue[j]) : a.number # b.number
       /\ \A j \in Ingresses : Busy(j) => worker[j].batch.number # b.number
  <2>1. \A j \in Ingresses : \A a : BatchOf(j, a) => a.number # b.number
    <3> SUFFICES ASSUME NEW j \in Ingresses, NEW a, BatchOf(j, a) PROVE a.number # b.number
      OBVIOUS
    <3>1. a.number \in 1..accepted.batches /\ b.number = n
      BY <1>2 DEF BatchOf
    <3> QED
      BY <1>0, <1>10, <3>1
  <2> QED
    BY <2>1 DEF AudioInv, BatchInv
<1>19. PlaceInv'
  <2>1. ASSUME NEW j \in Ingresses, NEW m \in Nat, NEW k \in Nat,
               m \in DOMAIN queue'[j], k \in DOMAIN queue'[j], m # k
        PROVE  queue'[j][m].number # queue'[j][k].number
    <3>1. CASE j = i
      <4>1. /\ Len(q) \in Nat /\ DOMAIN q = 1..Len(q) /\ DOMAIN queue'[j] = 1..(Len(q) + 1)
            /\ \A x \in 1..Len(q) : queue'[j][x] = q[x]
            /\ queue'[j][Len(q) + 1] = b
        BY <1>4, <1>6, <3>1
      <4>2. \A x \in DOMAIN q : q[x] \in ToSet(queue[i])
        BY <1>0 DEF ToSet
      <4>3. \A x, y \in Nat : x \in DOMAIN q /\ y \in DOMAIN q /\ x # y => q[x].number # q[y].number
        BY <1>0, <1>3 DEF AudioInv, PlaceInv
      <4>4. \A x \in DOMAIN q : q[x].number # b.number
        BY <1>3, <1>18, <4>2
      <4>5. /\ m \in 1..Len(q) \/ m = Len(q) + 1
            /\ k \in 1..Len(q) \/ k = Len(q) + 1
        BY <2>1, <4>1
      <4> QED
        BY <2>1, <4>1, <4>3, <4>4, <4>5
    <3>2. CASE j # i
      BY <1>6, <2>1, <3>2 DEF AudioInv, PlaceInv
    <3> QED
      BY <3>1, <3>2
  <2>2. ASSUME NEW j \in Ingresses, Busy(j)', NEW a \in ToSet(queue'[j])
        PROVE  a.number # worker'[j].batch.number
    <3>1. a \in ToSet(queue[j]) => a.number # worker[j].batch.number
      BY <1>12, <2>2 DEF AudioInv, PlaceInv
    <3> QED
      BY <1>7, <1>12, <1>16, <1>18, <2>2, <3>1
  <2>3. ASSUME NEW j \in Ingresses, NEW k \in Ingresses, j # k
        PROVE  /\ \A a \in ToSet(queue'[j]), d \in ToSet(queue'[k]) : a.number # d.number
               /\ Busy(j)' => \A d \in ToSet(queue'[k]) : worker'[j].batch.number # d.number
               /\ Busy(j)' /\ Busy(k)' => worker'[j].batch.number # worker'[k].batch.number
    <3>1. /\ \A a \in ToSet(queue[j]), d \in ToSet(queue[k]) : a.number # d.number
          /\ Busy(j) => \A d \in ToSet(queue[k]) : worker[j].batch.number # d.number
          /\ Busy(j) /\ Busy(k) => worker[j].batch.number # worker[k].batch.number
      BY <2>3 DEF AudioInv, PlaceInv
    <3>2. \A a \in ToSet(queue'[j]), d \in ToSet(queue'[k]) : a.number # d.number
      BY <1>16, <1>18, <2>3, <3>1
    <3>3. Busy(j)' => \A d \in ToSet(queue'[k]) : worker'[j].batch.number # d.number
      BY <1>7, <1>12, <1>16, <1>18, <3>1
    <3> QED
      BY <1>7, <1>12, <3>1, <3>2, <3>3
  <2> QED
    BY <2>1, <2>2, <2>3 DEF PlaceInv
<1>20. CallerInv'
  BY <1>9 DEF AudioInv, CallerInv
<1>21. FenceInv'
  <2>1. QueuedIsCurrent'
    <3>1. \A a \in ToSet(queue[i]) : OfCurrentJob(a)
      <4>1. ingress # 0
        BY <1>0, <1>3, IngressAssumption DEF Ingresses
      <4> QED
        BY <1>0, <4>1 DEF AudioInv, FenceInv, AudioFence, QueuedIsCurrent
    <3>2. \A a \in ToSet(queue'[i]) : a \in ToSet(queue[i]) \/ a = b
      BY <1>3, <1>16
    <3>3. \A a \in ToSet(queue'[i]) : OfCurrentJob(a)
      BY <1>1, <1>2, <3>1, <3>2 DEF OfCurrentJob
    <3>4. \A a \in ToSet(queue'[i]) : OfCurrentJob(a)'
      BY <1>7, <3>3 DEF OfCurrentJob
    <3> QED
      BY <1>0, <1>7, <3>4 DEF QueuedIsCurrent
  <2>2. /\ AudioStaysInJob'
        /\ \A j \in Ingresses : worker'[j].step \in {"ingest", "send", "write"} =>
             worker'[j].session \in 1..made'
    BY <1>7 DEF AudioInv, FenceInv, AudioFence, AudioStaysInJob
  <2> QED
    BY <2>1, <2>2 DEF FenceInv, AudioFence
<1>22. b.packets \cap (accepted.packets \cup heard) = {}
  <2> SUFFICES ASSUME NEW p \in b.packets, p \in accepted.packets \cup heard PROVE FALSE
    OBVIOUS
  <2>1. p[1] = n /\ p[1] <= accepted.batches
    BY <1>2 DEF AudioInv, BatchInv
  <2> QED
    BY <1>0, <1>10, <2>1
<1>23. HeardInv'
  BY <1>7, <1>12, <1>13, <1>22 DEF AudioInv, HeardInv
<1>24. b.packets \cap Waiting(i) = {}
  <2> SUFFICES ASSUME NEW p \in b.packets, p \in Waiting(i) PROVE FALSE
    OBVIOUS
  <2>1. PICK a : /\ p \in a.packets
                 /\ a \in ToSet(queue[i]) \/ (Busy(i) /\ a = worker[i].batch)
    BY DEF Waiting, Marking, Busy
  <2>2. BatchOf(i, a) /\ a.number # b.number
    BY <1>3, <1>18, <2>1 DEF AudioInv, BatchInv
  <2> QED
    BY <1>2, <2>1, <2>2 DEF BatchOf
<1>25. CountInv'
  <2>1. Waiting(i) \subseteq Packets /\ queued[i].packets = Cardinality(Waiting(i))
    BY <1>3, BatchTyped DEF AudioInv, CountInv
  <2>2. Cardinality(Waiting(i) \cup b.packets) = Cardinality(Waiting(i)) + Cardinality(b.packets)
    BY <1>2, <1>24, <2>1, Adding
  <2> QED
    BY <1>8, <1>13, <2>1, <2>2 DEF AudioInv, CountInv
<1>26. LossInv'
  <2>1. /\ stats.superseded \in Nat /\ stats.provider \in Nat
        /\ Unsettled \subseteq Packets /\ Cardinality(Unsettled) \in Nat
        /\ accepted.packets \ heard \subseteq Packets
        /\ Cardinality(accepted.packets \ heard) \in Nat
        /\ stats.superseded + stats.provider + Cardinality(Unsettled)
             <= Cardinality(accepted.packets \ heard)
    BY LossTyped
  <2>2. Unsettled' \subseteq Unsettled \cup b.packets /\ Unsettled \cap b.packets = {}
    <3>1. Unsettled \subseteq accepted.packets
      BY DEF Unsettled
    <3>2. ASSUME NEW p \in Unsettled', p \notin b.packets PROVE p \in Unsettled
      <4>1. p \in accepted.packets
        BY <1>7, <3>2 DEF Unsettled
      <4>2. PICK j \in Ingresses : (p \in Waiting(j)' /\ ~cancelled[j]) \/ p \in InHand(j)
        BY <1>7, <1>12 DEF Unsettled
      <4>3. (p \in Waiting(j) /\ ~cancelled[j]) \/ p \in InHand(j)
        BY <1>13, <3>2, <4>2
      <4> QED
        BY <4>1, <4>3 DEF Unsettled
    <3> QED
      BY <1>22, <3>1, <3>2
  <2>3. Cardinality(Unsettled \cup b.packets) = Cardinality(Unsettled) + Cardinality(b.packets)
    BY <1>2, <2>1, <2>2, Adding
  <2>4. /\ Cardinality(Unsettled') <= Cardinality(Unsettled \cup b.packets)
        /\ Cardinality(Unsettled') \in Nat
    <3>1. Unsettled \cup b.packets \subseteq Packets /\ Unsettled' \subseteq Packets
      BY <1>2, <2>1, <2>2
    <3> QED
      BY <2>2, <3>1, Fewer, PacketSets
  <2>5. Cardinality(accepted'.packets \ heard')
          = Cardinality(accepted.packets \ heard) + Cardinality(b.packets)
    <3>1. /\ accepted'.packets \ heard' = (accepted.packets \ heard) \cup b.packets
          /\ (accepted.packets \ heard) \cap b.packets = {}
      BY <1>7, <1>22
    <3> QED
      BY <1>2, <2>1, <3>1, Adding
  <2>6. Cardinality(b.packets) \in Nat
    BY <1>2
  <2> QED
    BY <1>7, <2>1, <2>3, <2>4, <2>5, <2>6 DEF LossInv
<1> QED
  BY <1>11, <1>14, <1>15, <1>17, <1>19, <1>20, <1>21, <1>23, <1>25, <1>26 DEF AudioInv
-----------------------------------------------------------------------------
(* Steps of the manager: nothing that waits or is in hand moves.            *)

\* No batch moves, ingresses are added, and what the job has accepted stays or is
\* forgotten with the job.
Still ==
  /\ UNCHANGED <<queue, queued, heard, newest>>
  /\ made' \in 0..MaxIngress /\ made <= made'
  /\ worker' \in [Ingresses -> WorkerState] /\ owner' \in [Ingresses -> Generations]
  /\ \A j \in Ingresses : worker'[j] = worker[j]
                          \/ (j > made /\ j <= made' /\ worker'[j] = IdleWorker)
  /\ \A j \in 1..made : owner'[j] = owner[j]
  /\ accepted' \in [batches : 0..MaxBatches, packets : SUBSET Packets]
  /\ accepted'.batches = accepted.batches /\ accepted'.packets \subseteq accepted.packets
  /\ \A j \in 1..made : job' = "active" /\ owner[j] = generation' =>
       job = "active" /\ owner[j] = generation /\ accepted' = accepted

\* What such a step keeps.
LEMMA StillStep ==
  ASSUME AudioInv, Still
  PROVE  /\ WorkerInv' /\ BatchInv' /\ PlaceInv' /\ HeardInv' /\ CountInv' /\ AudioStaysInJob'
         /\ \A j \in Ingresses : worker'[j].step \in {"ingest", "send", "write"} =>
              worker'[j].session \in 1..made'
         /\ \A j \in Ingresses : j > made' => worker'[j].step = "off" /\ queue'[j] = <<>>
         /\ \A j \in Ingresses : j > made => queue[j] = <<>> /\ queue'[j] = <<>>
         /\ \A j \in Ingresses : Waiting(j)' = Waiting(j) /\ InHand(j)' = InHand(j)
<1>1. made \in Nat /\ made' \in Nat /\ made <= made' /\ \A j \in Ingresses : j \in Nat /\ j >= 1
  BY IngressAssumption DEF AudioInv, Types, Ingresses, Still
<1>2. /\ \A j \in Ingresses : j > made => worker[j].step = "off" /\ queue[j] = <<>>
      /\ UNCHANGED <<queue, queued, heard>>
  BY DEF AudioInv, CancelInv, Still
<1>3. \A j \in Ingresses : \/ worker'[j] = worker[j]
                           \/ /\ j > made /\ j <= made'
                              /\ worker'[j] = IdleWorker /\ worker'[j].step = "idle"
                              /\ worker'[j].left = {} /\ worker'[j].failed = {}
                              /\ worker[j].step = "off"
  BY <1>2, Rest DEF Still
<1>4. \A j \in Ingresses : worker[j].step = "off" => InHand(j) = {}
  BY DEF AudioInv, WorkerInv, WellFormed
<1>5. \A j \in Ingresses : /\ Busy(j)' <=> Busy(j)
                           /\ Busy(j) => worker'[j] = worker[j]
                           /\ Marking(j)' <=> Marking(j)
                           /\ InHand(j)' = InHand(j)
  BY <1>3, <1>4 DEF Busy, Marking, InHand
<1>6. \A j \in Ingresses : Waiting(j)' = Waiting(j)
  <2>1. \A j \in Ingresses : Marking(j) => worker'[j] = worker[j]
    BY <1>5 DEF Marking, Busy
  <2> QED
    BY <1>2, <1>5, <2>1 DEF Waiting
<1>7. WorkerInv'
  <2>1. \A j \in Ingresses : worker'[j] = worker[j] => (WellFormed(j)' <=> WellFormed(j))
    BY DEF WellFormed, Busy, InHand
  <2>2. \A j \in Ingresses : worker'[j].step = "idle" /\ InHand(j)' = {} => WellFormed(j)'
    BY DEF WellFormed, Busy, InHand
  <2> QED
    BY <1>3, <1>4, <1>5, <2>1, <2>2 DEF AudioInv, WorkerInv
<1>8. BatchInv'
  <2>1. ASSUME NEW j \in Ingresses, NEW b, BatchOf(j, b), j <= made PROVE BatchOf(j, b)'
    <3>1. j \in 1..made
      BY <1>1, <2>1
    <3>2. /\ owner'[j] = owner[j] /\ accepted'.batches = accepted.batches
          /\ job' = "active" /\ owner[j] = generation' =>
               job = "active" /\ owner[j] = generation /\ accepted' = accepted
      BY <3>1 DEF Still
    <3> QED
      BY <2>1, <3>2 DEF BatchOf
  <2>2. ASSUME NEW j \in Ingresses, NEW b \in ToSet(queue'[j]) PROVE BatchOf(j, b)'
    <3>1. b \in ToSet(queue[j]) /\ BatchOf(j, b)
      BY <1>2, <2>2 DEF AudioInv, BatchInv
    <3>2. queue[j] # <<>>
      BY <3>1 DEF ToSet
    <3>3. j <= made
      BY <1>1, <1>2, <3>2
    <3> QED
      BY <2>1, <3>1, <3>3
  <2>3. ASSUME NEW j \in Ingresses, Busy(j)' PROVE BatchOf(j, worker[j].batch)'
    <3>1. PICK b : b = worker[j].batch
      OBVIOUS
    <3>2. BatchOf(j, b) /\ worker'[j].batch = b
      BY <1>5, <2>3, <3>1 DEF AudioInv, BatchInv
    <3>3. j <= made
      BY <1>1, <1>2, <1>5, <2>3 DEF Busy
    <3>4. BatchOf(j, b)'
      BY <2>1, <3>2, <3>3
    <3> QED
      BY <3>2, <3>4 DEF BatchOf
  <2>4. \A p \in accepted'.packets \cup heard' : p[1] <= accepted'.batches
    BY <1>2 DEF AudioInv, BatchInv, Still
  <2> QED
    BY <2>2, <2>3, <2>4 DEF BatchInv
<1>9. PlaceInv'
  BY <1>2, <1>5 DEF AudioInv, PlaceInv
<1>10. HeardInv' /\ CountInv'
  BY <1>2, <1>5, <1>6 DEF AudioInv, HeardInv, CountInv
<1>11. ASSUME NEW j \in Ingresses, worker'[j].step \in {"ingest", "send", "write"}
       PROVE  /\ worker'[j].session \in 1..made'
              /\ owner'[worker'[j].session] = worker'[j].batch.generation
  <2>1. worker'[j] = worker[j]
    BY <1>3, <1>11
  <2>2. worker[j].session \in 1..made /\ owner[worker[j].session] = worker[j].batch.generation
    BY <1>11, <2>1 DEF AudioInv, FenceInv, AudioFence, AudioStaysInJob
  <2>3. owner'[worker[j].session] = owner[worker[j].session]
    BY <2>2 DEF Still
  <2>4. worker[j].session \in 1..made'
    BY <1>1, <2>2
  <2> QED
    BY <2>1, <2>2, <2>3, <2>4
<1>12. AudioStaysInJob'
  BY <1>11 DEF AudioStaysInJob
<1>13. \A j \in Ingresses : j > made' => worker'[j].step = "off" /\ queue'[j] = <<>>
  BY <1>1, <1>2, <1>3
<1> QED
  BY <1>2, <1>5, <1>6, <1>7, <1>8, <1>9, <1>10, <1>11, <1>12, <1>13

\* Nothing new may be heard or counted when nothing moves.
LEMMA StillLoss ==
  ASSUME AudioInv, Still, UNCHANGED accepted, \A j \in Ingresses : cancelled[j] => cancelled'[j],
         stats'.superseded = stats.superseded, stats'.provider = stats.provider
  PROVE  LossInv'
<1>1. \A j \in Ingresses : Waiting(j)' = Waiting(j) /\ InHand(j)' = InHand(j)
  BY StillStep
<1>2. Unsettled' \subseteq Unsettled
  BY <1>1 DEF Unsettled
<1> QED
  BY <1>2, LossKept DEF Still

\* A new ingress, with its queue and goroutine.
LEMMA NewIngressStep ==
  ASSUME AudioInv, NEW g \in Generations, made < MaxIngress, NewIngress(made + 1, g)
  PROVE  /\ made' = made + 1 /\ made \in Nat /\ made + 1 \in Ingresses /\ made' \in 0..MaxIngress
         /\ worker' \in [Ingresses -> WorkerState] /\ owner' \in [Ingresses -> Generations]
         /\ owner'[made + 1] = g /\ \A j \in Ingresses : j # made + 1 => owner'[j] = owner[j]
         /\ \A j \in Ingresses : worker'[j] = worker[j]
                                 \/ (j > made /\ j <= made' /\ worker'[j] = IdleWorker)
         /\ \A j \in 1..made : j \in Ingresses /\ j # made + 1 /\ j \in 1..made'
         /\ queue[made + 1] = <<>>
<1>1. made' = made + 1 /\ made \in Nat /\ made + 1 \in Ingresses /\ made' \in 0..MaxIngress
  BY IngressAssumption DEF AudioInv, Types, Ingresses, NewIngress
<1>2. /\ worker' \in [Ingresses -> WorkerState] /\ worker'[made + 1] = IdleWorker
      /\ \A j \in Ingresses : j # made + 1 => worker'[j] = worker[j]
  <2>1. worker \in [Ingresses -> WorkerState] /\ worker' = [worker EXCEPT ![made + 1] = IdleWorker]
    BY DEF AudioInv, Types, NewIngress
  <2> QED
    BY <1>1, <2>1, Rest
<1>3. /\ owner' \in [Ingresses -> Generations] /\ owner'[made + 1] = g
      /\ \A j \in Ingresses : j # made + 1 => owner'[j] = owner[j]
  <2>1. owner \in [Ingresses -> Generations] /\ owner' = [owner EXCEPT ![made + 1] = g]
    BY DEF AudioInv, Types, NewIngress
  <2> QED
    BY <1>1, <2>1
<1>4. made + 1 > made /\ made + 1 <= made'
  BY <1>1
<1>5. \A j \in Ingresses : worker'[j] = worker[j]
                           \/ (j > made /\ j <= made' /\ worker'[j] = IdleWorker)
  BY <1>2, <1>4
<1>6. \A j \in 1..made : j \in Ingresses /\ j # made + 1 /\ j \in 1..made'
  BY <1>1, IngressAssumption DEF Ingresses
<1>7. queue[made + 1] = <<>>
  BY <1>1, <1>4 DEF AudioInv, CancelInv
<1> QED
  BY <1>1, <1>2, <1>3, <1>5, <1>6, <1>7

\* A job has an odd generation.
LEMMA Parity ==
  ASSUME NEW g \in Generations
  PROVE  /\ g \in Nat
         /\ g % 2 = 0 => (g + 1) % 2 = 1
         /\ g % 2 = 1 => (g + 1) % 2 = 0 /\ g + 1 \in Generations
<1>1. g \in Nat /\ MaxJobs \in Nat /\ g <= 2 * MaxJobs
  BY IngressAssumption DEF Generations
<1>2. g % 2 = 0 => (g + 1) % 2 = 1
  BY <1>1
<1>3. g % 2 = 1 => (g + 1) % 2 = 0
  BY <1>1
<1>4. (2 * MaxJobs) % 2 = 0
  BY <1>1
<1>5. g % 2 = 1 => g + 1 <= 2 * MaxJobs
  BY <1>1, <1>4
<1> QED
  BY <1>1, <1>2, <1>3, <1>5 DEF Generations

\* A job starts.
LEMMA StartStep ==
  ASSUME AudioInv, StartJob
  PROVE  AudioInv'
<1>1. /\ job = "none" /\ cleanup.step = "none" /\ generation < 2 * MaxJobs /\ made < MaxIngress
      /\ job' = "active" /\ generation' = generation + 1
      /\ NewIngress(made + 1, generation + 1)
      /\ session' = made + 1 /\ ingress' = made + 1 /\ connection' = 0
      /\ stats' = NoStats /\ accepted' = [accepted EXCEPT !.packets = {}]
      /\ UNCHANGED <<cleanup, queue, queued, cancelled, caller, closed, newest, heard>>
  BY DEF StartJob, ingressVars, sessionVars
<1>2. generation \in Nat /\ generation + 1 \in Generations
  <2>1. generation \in Generations /\ MaxJobs \in Nat
    BY IngressAssumption DEF AudioInv, Types
  <2> QED
    BY <1>1, <2>1 DEF Generations
<1>3. /\ made' = made + 1 /\ made \in Nat /\ made + 1 \in Ingresses /\ made' \in 0..MaxIngress
      /\ worker' \in [Ingresses -> WorkerState] /\ owner' \in [Ingresses -> Generations]
      /\ owner'[made + 1] = generation + 1
      /\ \A j \in Ingresses : j # made + 1 => owner'[j] = owner[j]
      /\ \A j \in Ingresses : worker'[j] = worker[j]
                              \/ (j > made /\ j <= made' /\ worker'[j] = IdleWorker)
      /\ \A j \in 1..made : j \in Ingresses /\ j # made + 1 /\ j \in 1..made'
      /\ queue[made + 1] = <<>>
  BY <1>1, <1>2, NewIngressStep
<1>4. \A j \in 1..made : owner'[j] = owner[j] /\ owner[j] \in Nat /\ owner[j] <= generation
                         /\ owner[j] % 2 = 1
  <2>1. \A j \in 1..made : owner[j] \in Nat
    BY <1>3, IngressAssumption DEF AudioInv, Types, Generations
  <2> QED
    BY <1>3, <2>1 DEF AudioInv, JobInv
<1>5. /\ accepted' \in [batches : 0..MaxBatches, packets : SUBSET Packets]
      /\ accepted'.batches = accepted.batches /\ accepted'.packets = {}
  BY <1>1 DEF AudioInv, Types
<1>6. \A j \in 1..made : owner[j] # generation'
  BY <1>1, <1>2, <1>4
<1>7. Still
  <2>1. made <= made'
    BY <1>3
  <2> QED
    BY <1>1, <1>3, <1>4, <1>5, <1>6, <2>1 DEF Still
<1>8. /\ WorkerInv' /\ BatchInv' /\ PlaceInv' /\ HeardInv' /\ CountInv' /\ AudioStaysInJob'
      /\ \A j \in Ingresses : worker'[j].step \in {"ingest", "send", "write"} =>
           worker'[j].session \in 1..made'
      /\ \A j \in Ingresses : j > made' => worker'[j].step = "off" /\ queue'[j] = <<>>
  BY <1>7, StillStep
<1>9. Types'
  <2>1. /\ cleanup' \in [step : {"none", "cancel", "wait"}, ingress : 0..made', session : 0..made']
    <3>1. cleanup \in [step : {"none", "cancel", "wait"}, ingress : 0..made, session : 0..made]
      BY DEF AudioInv, Types
    <3>2. 0..made \subseteq 0..made'
      BY <1>3
    <3> QED
      BY <1>1, <3>1, <3>2
  <2>2. session' \in 0..made' /\ ingress' \in 0..made' /\ connection' \in 0..MaxConnection
    BY <1>1, <1>3, IngressAssumption
  <2>3. stats' \in [superseded : Nat, provider : Nat, started : Generations]
    BY <1>1, IngressAssumption DEF NoStats, Generations
  <2>4. /\ job' \in {"none", "active", "stopping"} /\ generation' \in Generations
    BY <1>1, <1>2
  <2> QED
    BY <1>1, <1>3, <1>5, <2>1, <2>2, <2>3, <2>4 DEF AudioInv, Types
<1>10. JobInv'
  <2>1. generation % 2 = 0
    BY <1>1 DEF AudioInv, JobInv
  <2>2. generation' % 2 = 1
    BY <1>1, <1>2, <2>1
  <2>3. \A j \in 1..made' : owner'[j] <= generation' /\ owner'[j] % 2 = 1
    <3>1. \A j \in 1..made' : j \in 1..made \/ j = made + 1
      BY <1>3
    <3>2. \A j \in 1..made : owner'[j] <= generation' /\ owner'[j] % 2 = 1
      BY <1>1, <1>2, <1>4
    <3>3. owner'[made + 1] = generation' /\ generation' <= generation'
      BY <1>1, <1>2, <1>3
    <3> QED
      BY <2>2, <3>1, <3>2, <3>3
  <2>4. /\ session' # 0 /\ owner'[session'] = generation'
        /\ ingress' # 0 /\ owner'[ingress'] = generation'
    BY <1>1, <1>3
  <2> QED
    BY <1>1, <2>2, <2>3, <2>4 DEF JobInv
<1>11. CancelInv'
  <2>1. ReplacedIsCancelled'
    <3>1. \A j \in 1..made : cancelled[j]
      <4>1. ingress = 0
        BY <1>1 DEF AudioInv, JobInv
      <4> QED
        BY <1>1, <4>1 DEF AudioInv, CancelInv, ReplacedIsCancelled
    <3>2. \A j \in 1..made' : j \in 1..made \/ j = made + 1
      BY <1>3
    <3> QED
      BY <1>1, <3>1, <3>2 DEF ReplacedIsCancelled
  <2>2. \A j \in Ingresses : cancelled'[j] => j <= made' /\ j # ingress'
    <3>1. \A j \in Ingresses : cancelled[j] => j <= made /\ j \in Nat
      BY IngressAssumption DEF AudioInv, CancelInv, Ingresses
    <3> QED
      BY <1>1, <1>3, <3>1
  <2> QED
    BY <1>8, <2>1, <2>2 DEF CancelInv
<1>12. CallerInv'
  BY <1>1 DEF AudioInv, CallerInv
<1>13. FenceInv'
  <2>1. QueuedIsCurrent'
    BY <1>1, <1>3 DEF QueuedIsCurrent, ToSet
  <2> QED
    BY <1>8, <2>1 DEF FenceInv, AudioFence
<1>14. LossInv'
  <2>1. Unsettled' = {} /\ accepted'.packets \ heard' = {}
    BY <1>5 DEF Unsettled
  <2>2. stats'.superseded = 0 /\ stats'.provider = 0 /\ Cardinality({}) = 0
    BY <1>1, FS_EmptySet DEF NoStats
  <2> QED
    BY <2>1, <2>2 DEF LossInv
<1> QED
  BY <1>8, <1>9, <1>10, <1>11, <1>12, <1>13, <1>14 DEF AudioInv

\* A caption update replaces session and ingress.
LEMMA UpdateStep ==
  ASSUME AudioInv, UpdateSwap
  PROVE  AudioInv'
<1>1. /\ job = "active" /\ cleanup.step = "none" /\ made < MaxIngress
      /\ cleanup' = [step |-> "cancel", ingress |-> ingress, session |-> session]
      /\ NewIngress(made + 1, generation)
      /\ session' = made + 1 /\ ingress' = made + 1
      /\ stats' = [stats EXCEPT !.started = 0]
      /\ UNCHANGED <<job, generation, connection, queue, queued, cancelled, caller,
                     closed, newest, heard, accepted>>
  BY DEF UpdateSwap, ingressVars, sessionVars
<1>2. generation \in Nat /\ generation \in Generations
  BY IngressAssumption DEF AudioInv, Types, Generations
<1>3. /\ made' = made + 1 /\ made \in Nat /\ made + 1 \in Ingresses /\ made' \in 0..MaxIngress
      /\ worker' \in [Ingresses -> WorkerState] /\ owner' \in [Ingresses -> Generations]
      /\ owner'[made + 1] = generation
      /\ \A j \in Ingresses : j # made + 1 => owner'[j] = owner[j]
      /\ \A j \in Ingresses : worker'[j] = worker[j]
                              \/ (j > made /\ j <= made' /\ worker'[j] = IdleWorker)
      /\ \A j \in 1..made : j \in Ingresses /\ j # made + 1 /\ j \in 1..made'
      /\ queue[made + 1] = <<>>
  BY <1>1, <1>2, NewIngressStep
<1>4. \A j \in 1..made : owner'[j] = owner[j]
  BY <1>3
<1>5. accepted \in [batches : 0..MaxBatches, packets : SUBSET Packets]
  BY DEF AudioInv, Types
<1>6. Still
  <2>1. made <= made'
    BY <1>3
  <2> QED
    BY <1>1, <1>3, <1>4, <1>5, <2>1 DEF Still
<1>7. /\ WorkerInv' /\ BatchInv' /\ PlaceInv' /\ HeardInv' /\ CountInv' /\ AudioStaysInJob'
      /\ \A j \in Ingresses : worker'[j].step \in {"ingest", "send", "write"} =>
           worker'[j].session \in 1..made'
      /\ \A j \in Ingresses : j > made' => worker'[j].step = "off" /\ queue'[j] = <<>>
  BY <1>6, StillStep
<1>8. ingress \in 0..made /\ ingress # 0 /\ session \in 0..made /\ session # 0
  BY <1>1 DEF AudioInv, Types, JobInv
<1>9. /\ stats' \in [superseded : Nat, provider : Nat, started : Generations]
      /\ stats'.superseded = stats.superseded /\ stats'.provider = stats.provider
  <2>1. stats \in [superseded : Nat, provider : Nat, started : Generations] /\ 0 \in Generations
    BY IngressAssumption DEF AudioInv, Types, Generations
  <2> QED
    BY <1>1, <2>1
<1>10. Types'
  <2>1. cleanup' \in [step : {"none", "cancel", "wait"}, ingress : 0..made', session : 0..made']
    <3>1. 0..made \subseteq 0..made'
      BY <1>3
    <3> QED
      BY <1>1, <1>8, <3>1
  <2>2. session' \in 0..made' /\ ingress' \in 0..made'
    BY <1>1, <1>3
  <2> QED
    BY <1>1, <1>3, <1>9, <2>1, <2>2 DEF AudioInv, Types
<1>11. JobInv'
  <2>1. generation' % 2 = 1
    BY <1>1 DEF AudioInv, JobInv
  <2>2. \A j \in 1..made' : owner'[j] <= generation' /\ owner'[j] % 2 = 1
    <3>1. \A j \in 1..made' : j \in 1..made \/ j = made + 1
      BY <1>3
    <3>2. \A j \in 1..made : owner[j] <= generation /\ owner[j] % 2 = 1
      BY DEF AudioInv, JobInv
    <3>3. generation <= generation
      BY <1>2
    <3> QED
      BY <1>1, <1>3, <1>4, <2>1, <3>1, <3>2, <3>3
  <2>3. session' # 0 /\ ingress' # 0 /\ ingress # made + 1
    BY <1>1, <1>3, <1>8
  <2> QED
    BY <1>1, <1>3, <1>8, <2>1, <2>2, <2>3 DEF JobInv
<1>12. CancelInv'
  <2>1. ReplacedIsCancelled'
    <3>1. \A j \in 1..made : j = ingress \/ cancelled[j]
      BY <1>1 DEF AudioInv, CancelInv, ReplacedIsCancelled
    <3>2. \A j \in 1..made' : j \in 1..made \/ j = made + 1
      BY <1>3
    <3> QED
      BY <1>1, <3>1, <3>2 DEF ReplacedIsCancelled
  <2>2. \A j \in Ingresses : cancelled'[j] => j <= made' /\ j # ingress'
    <3>1. \A j \in Ingresses : cancelled[j] => j <= made /\ j \in Nat
      BY IngressAssumption DEF AudioInv, CancelInv, Ingresses
    <3> QED
      BY <1>1, <1>3, <3>1
  <2> QED
    BY <1>7, <2>1, <2>2 DEF CancelInv
<1>13. CallerInv'
  BY <1>1 DEF AudioInv, CallerInv
<1>14. FenceInv'
  <2>1. QueuedIsCurrent'
    BY <1>1, <1>3 DEF QueuedIsCurrent, ToSet
  <2> QED
    BY <1>7, <2>1 DEF FenceInv, AudioFence
<1>15. LossInv'
  BY <1>1, <1>6, <1>9, StillLoss
<1> QED
  BY <1>7, <1>10, <1>11, <1>12, <1>13, <1>14, <1>15 DEF AudioInv

\* No ingress is made and nothing of the queues changes.
LEMMA SameIngresses ==
  ASSUME AudioInv, UNCHANGED <<made, owner, queue, queued, worker, newest, heard, accepted>>,
         job' = "active" => job = "active" /\ generation' = generation
  PROVE  Still
<1>1. /\ made \in 0..MaxIngress /\ worker \in [Ingresses -> WorkerState]
      /\ owner \in [Ingresses -> Generations]
      /\ accepted \in [batches : 0..MaxBatches, packets : SUBSET Packets]
  BY DEF AudioInv, Types
<1>2. made <= made
  BY <1>1, IngressAssumption
<1> QED
  BY <1>1, <1>2 DEF Still

\* Stop and the video failure give session and ingress up.
LEMMA StopStep ==
  ASSUME AudioInv, NEW end \in {"stopping", "none"}, StopBegin(end)
  PROVE  AudioInv'
<1>1. /\ job = "active" /\ cleanup.step = "none" /\ job' = end /\ generation' = generation + 1
      /\ cleanup' = [step |-> "cancel", ingress |-> ingress, session |-> session]
      /\ session' = 0 /\ ingress' = 0 /\ connection' = 0
      /\ UNCHANGED <<made, owner, queue, queued, cancelled, worker, caller, closed, newest, heard,
                     stats, accepted>>
  BY DEF StopBegin, ingressVars, sessionVars
<1>2. generation \in Generations /\ generation % 2 = 1 /\ made \in Nat
  BY <1>1, IngressAssumption DEF AudioInv, Types, JobInv
<1>3. generation \in Nat /\ generation' \in Generations /\ generation' % 2 = 0
  BY <1>1, <1>2, Parity
<1>4. Still
  BY <1>1, SameIngresses
<1>5. /\ WorkerInv' /\ BatchInv' /\ PlaceInv' /\ HeardInv' /\ CountInv' /\ AudioStaysInJob'
      /\ \A j \in Ingresses : worker'[j].step \in {"ingest", "send", "write"} =>
           worker'[j].session \in 1..made'
      /\ \A j \in Ingresses : j > made' => worker'[j].step = "off" /\ queue'[j] = <<>>
  BY <1>4, StillStep
<1>6. ingress \in 0..made /\ ingress # 0 /\ session \in 0..made /\ session # 0
  BY <1>1 DEF AudioInv, Types, JobInv
<1>7. Types'
  <2>1. cleanup' \in [step : {"none", "cancel", "wait"}, ingress : 0..made', session : 0..made']
    BY <1>1, <1>6
  <2>2. session' \in 0..made' /\ ingress' \in 0..made' /\ connection' \in 0..MaxConnection
    BY <1>1, <1>2, IngressAssumption
  <2>3. job' \in {"none", "active", "stopping"}
    BY <1>1
  <2> QED
    BY <1>1, <1>3, <2>1, <2>2, <2>3 DEF AudioInv, Types
<1>8. JobInv'
  <2>1. \A j \in 1..made' : owner'[j] <= generation' /\ owner'[j] % 2 = 1
    <3>1. \A j \in 1..made : owner[j] <= generation /\ owner[j] % 2 = 1 /\ owner[j] \in Nat
      <4>1. \A j \in 1..made : j \in Ingresses
        BY <1>2, IngressAssumption DEF AudioInv, Types, Ingresses
      <4>2. \A j \in 1..made : owner[j] \in Generations
        BY <4>1 DEF AudioInv, Types
      <4>3. \A g \in Generations : g \in Nat
        BY Parity
      <4> QED
        BY <4>2, <4>3 DEF AudioInv, JobInv
    <3> QED
      BY <1>1, <1>3, <3>1
  <2> QED
    BY <1>1, <1>3, <1>6, <2>1 DEF JobInv
<1>9. CancelInv'
  <2>1. ReplacedIsCancelled'
    BY <1>1 DEF AudioInv, CancelInv, ReplacedIsCancelled
  <2>2. \A j \in Ingresses : cancelled'[j] => j <= made' /\ j # ingress'
    <3>1. 0 \notin Ingresses
      BY IngressAssumption DEF Ingresses
    <3> QED
      BY <1>1, <3>1 DEF AudioInv, CancelInv
  <2> QED
    BY <1>5, <2>1, <2>2 DEF CancelInv
<1>10. CallerInv'
  BY <1>1 DEF AudioInv, CallerInv
<1>11. FenceInv'
  <2>1. QueuedIsCurrent'
    BY <1>1 DEF QueuedIsCurrent
  <2> QED
    BY <1>5, <2>1 DEF FenceInv, AudioFence
<1>12. LossInv'
  BY <1>1, <1>4, StillLoss
<1> QED
  BY <1>5, <1>7, <1>8, <1>9, <1>10, <1>11, <1>12 DEF AudioInv

\* The replaced ingress is told to end.
LEMMA CancelStep ==
  ASSUME AudioInv, CancelIngress
  PROVE  AudioInv'
<1>1. /\ cleanup.step = "cancel" /\ cancelled' = [cancelled EXCEPT ![cleanup.ingress] = TRUE]
      /\ cleanup' = [cleanup EXCEPT !.step = "wait"]
      /\ UNCHANGED <<job, generation, connection, session, ingress, made, owner, queue, queued,
                     worker, caller, closed, newest, heard, stats, accepted>>
  BY DEF CancelIngress, sessionVars
<1>2. PICK i : i = cleanup.ingress
  OBVIOUS
<1>3. i \in 1..made /\ i \in Ingresses /\ i # ingress /\ i <= made
  <2>1. cleanup.ingress \in 0..made /\ made \in 0..MaxIngress
    BY DEF AudioInv, Types
  <2>2. cleanup.ingress # 0 /\ cleanup.ingress # ingress
    BY <1>1 DEF AudioInv, JobInv
  <2> QED
    BY <1>2, <2>1, <2>2, IngressAssumption DEF Ingresses
<1>4. /\ cancelled' \in [Ingresses -> BOOLEAN] /\ cancelled'[i]
      /\ \A j \in Ingresses : j # i => cancelled'[j] = cancelled[j]
  <2>1. cancelled \in [Ingresses -> BOOLEAN]
    BY DEF AudioInv, Types
  <2> QED
    BY <1>1, <1>2, <1>3, <2>1
<1>5. /\ cleanup' \in [step : {"none", "cancel", "wait"}, ingress : 0..made, session : 0..made]
      /\ cleanup'.step = "wait" /\ cleanup'.ingress = cleanup.ingress
      /\ cleanup'.session = cleanup.session
  <2>1. cleanup \in [step : {"none", "cancel", "wait"}, ingress : 0..made, session : 0..made]
    BY DEF AudioInv, Types
  <2> QED
    BY <1>1, <2>1
<1>6. Still
  BY <1>1, SameIngresses
<1>7. /\ WorkerInv' /\ BatchInv' /\ PlaceInv' /\ HeardInv' /\ CountInv' /\ AudioStaysInJob'
      /\ \A j \in Ingresses : worker'[j].step \in {"ingest", "send", "write"} =>
           worker'[j].session \in 1..made'
      /\ \A j \in Ingresses : j > made' => worker'[j].step = "off" /\ queue'[j] = <<>>
  BY <1>6, StillStep
<1>8. Types'
  BY <1>1, <1>4, <1>5 DEF AudioInv, Types
<1>9. JobInv'
  BY <1>1, <1>5 DEF AudioInv, JobInv
<1>10. CancelInv'
  <2>1. ReplacedIsCancelled'
    <3>1. \A j \in 1..made : j = ingress \/ cancelled[j] \/ j = i
      BY <1>2 DEF AudioInv, CancelInv, ReplacedIsCancelled
    <3>2. \A j \in 1..made : j \in Ingresses
      BY IngressAssumption DEF AudioInv, Types, Ingresses
    <3> QED
      BY <1>1, <1>4, <3>1, <3>2 DEF ReplacedIsCancelled
  <2>2. \A j \in Ingresses : cancelled'[j] => j <= made' /\ j # ingress'
    BY <1>1, <1>3, <1>4 DEF AudioInv, CancelInv
  <2> QED
    BY <1>7, <2>1, <2>2 DEF CancelInv
<1>11. CallerInv'
  BY <1>1 DEF AudioInv, CallerInv
<1>12. FenceInv'
  <2>1. QueuedIsCurrent'
    BY <1>1 DEF AudioInv, FenceInv, AudioFence, QueuedIsCurrent, OfCurrentJob
  <2> QED
    BY <1>7, <2>1 DEF FenceInv, AudioFence
<1>13. LossInv'
  <2>1. \A j \in Ingresses : cancelled[j] => cancelled'[j]
    BY <1>4
  <2> QED
    BY <1>1, <1>6, <2>1, StillLoss
<1> QED
  BY <1>7, <1>8, <1>9, <1>10, <1>11, <1>12, <1>13 DEF AudioInv

\* The operation closes the session and ends.
LEMMA CloseStep ==
  ASSUME AudioInv, CloseSession
  PROVE  AudioInv'
<1>1. /\ cleanup.step = "wait" /\ closed' = closed \cup {cleanup.session}
      /\ cleanup' = NoCleanup /\ job' = (IF job = "stopping" THEN "none" ELSE job)
      /\ UNCHANGED <<generation, connection, session, ingress, made, owner, queue, queued,
                     cancelled, worker, caller, newest, heard, stats, accepted>>
  BY DEF CloseSession, ingressVars
<1>2. /\ job \in {"none", "active", "stopping"} /\ job' \in {"none", "active", "stopping"}
      /\ job' = "active" <=> job = "active"
  BY <1>1 DEF AudioInv, Types
<1>3. Still
  BY <1>1, <1>2, SameIngresses
<1>4. /\ WorkerInv' /\ BatchInv' /\ PlaceInv' /\ HeardInv' /\ CountInv' /\ AudioStaysInJob'
      /\ \A j \in Ingresses : worker'[j].step \in {"ingest", "send", "write"} =>
           worker'[j].session \in 1..made'
      /\ \A j \in Ingresses : j > made' => worker'[j].step = "off" /\ queue'[j] = <<>>
  BY <1>3, StillStep
<1>5. Types'
  <2>1. closed' \subseteq Ingresses
    <3>1. cleanup.session \in 0..made /\ made \in 0..MaxIngress /\ closed \subseteq Ingresses
      BY DEF AudioInv, Types
    <3>2. cleanup.session # 0
      BY <1>1 DEF AudioInv, JobInv
    <3>3. cleanup.session \in Ingresses
      BY <3>1, <3>2, IngressAssumption DEF Ingresses
    <3> QED
      BY <1>1, <3>1, <3>3
  <2>2. cleanup' \in [step : {"none", "cancel", "wait"}, ingress : 0..made, session : 0..made]
    <3>1. 0 \in 0..made
      BY IngressAssumption DEF AudioInv, Types
    <3> QED
      BY <1>1, <3>1 DEF NoCleanup
  <2> QED
    BY <1>1, <1>2, <2>1, <2>2 DEF AudioInv, Types
<1>6. JobInv'
  BY <1>1, <1>2 DEF AudioInv, JobInv, NoCleanup
<1>7. CancelInv'
  <2>1. ReplacedIsCancelled'
    BY <1>1 DEF AudioInv, CancelInv, ReplacedIsCancelled
  <2> QED
    BY <1>1, <1>4, <2>1 DEF AudioInv, CancelInv
<1>8. CallerInv'
  BY <1>1 DEF AudioInv, CallerInv
<1>9. FenceInv'
  <2>1. QueuedIsCurrent'
    BY <1>1, <1>2 DEF AudioInv, FenceInv, AudioFence, QueuedIsCurrent, OfCurrentJob
  <2> QED
    BY <1>4, <2>1 DEF FenceInv, AudioFence
<1>10. LossInv'
  BY <1>1, <1>3, StillLoss
<1> QED
  BY <1>4, <1>5, <1>6, <1>7, <1>8, <1>9, <1>10 DEF AudioInv

\* Only the request is affected, or nothing at all.
LEMMA NoneMoves ==
  ASSUME AudioInv, UNCHANGED <<managerVars, ingressVars, worker, sessionVars, stats, accepted>>,
         caller' \in [Callers -> CallerState],
         \A c \in Callers : caller'[c].step = "copy" => caller'[c] = caller[c]
  PROVE  AudioInv'
<1>1. UNCHANGED <<job, generation, connection, session, ingress, made, owner, cleanup, queue,
                  queued, cancelled, worker, closed, newest, heard, stats, accepted>>
  BY DEF managerVars, ingressVars, sessionVars
<1>2. Still
  BY <1>1, SameIngresses
<1>3. /\ WorkerInv' /\ BatchInv' /\ PlaceInv' /\ HeardInv' /\ CountInv' /\ AudioStaysInJob'
      /\ \A j \in Ingresses : worker'[j].step \in {"ingest", "send", "write"} =>
           worker'[j].session \in 1..made'
  BY <1>2, StillStep
<1>4. Types' /\ JobInv' /\ CallerInv'
  BY <1>1 DEF AudioInv, Types, JobInv, CallerInv
<1>5. CancelInv'
  BY <1>1 DEF AudioInv, CancelInv, ReplacedIsCancelled
<1>6. FenceInv'
  <2>1. QueuedIsCurrent'
    BY <1>1 DEF AudioInv, FenceInv, AudioFence, QueuedIsCurrent, OfCurrentJob
  <2> QED
    BY <1>3, <2>1 DEF FenceInv, AudioFence
<1>7. LossInv'
  BY <1>1, <1>2, StillLoss
<1> QED
  BY <1>3, <1>4, <1>5, <1>6, <1>7 DEF AudioInv

\* The first critical section: it notes the voice connection, and replaces the ingress
\* when that is a newer one.
LEMMA FirstStep ==
  ASSUME AudioInv, NEW c \in Callers, NEW g \in Generations, NEW n \in 1..MaxConnection,
         NEW kind \in Kinds, EnqueueFirst(c, g, n, kind)
  PROVE  AudioInv'
<1>1. /\ job = "active" /\ g = generation /\ connection <= n /\ connection' = n
      /\ caller' = [caller EXCEPT ![c] = [step |-> "copy", generation |-> g, connection |-> n,
                                          ingress |-> ingress', kind |-> kind]]
      /\ UNCHANGED <<job, generation, session, cleanup, queue, queued, closed, newest, heard,
                     accepted>>
      /\ \/ /\ UNCHANGED <<made, owner, worker, ingress, cancelled, stats>>
            /\ connection = 0 \/ ~(n > connection)
         \/ /\ made < MaxIngress /\ NewIngress(made + 1, g) /\ ingress' = made + 1
            /\ cancelled' = [cancelled EXCEPT ![ingress] = TRUE]
            /\ stats' = [stats EXCEPT !.superseded = @ + Superseded(ingress)]
  BY DEF EnqueueFirst, Serving, sessionVars
<1>2. PICK i : i = ingress
  OBVIOUS
<1>3. /\ i # 0 /\ i \in 1..made /\ i \in Ingresses /\ made \in 0..MaxIngress /\ made \in Nat
      /\ owner[i] = generation /\ ~cancelled[i] /\ session \in 0..made /\ session # 0
  <2>1. i # 0 /\ owner[i] = generation /\ session # 0
    BY <1>1, <1>2 DEF AudioInv, JobInv
  <2>2. i \in 0..made /\ made \in 0..MaxIngress /\ session \in 0..made
    BY <1>2 DEF AudioInv, Types
  <2>3. i \in 1..made /\ i \in Ingresses /\ made \in Nat
    BY <2>1, <2>2, IngressAssumption DEF Ingresses
  <2>4. ~cancelled[i]
    BY <1>2, <2>3 DEF AudioInv, CancelInv
  <2> QED
    BY <2>1, <2>2, <2>3, <2>4
<1>4. n # 0 /\ n \in 0..MaxConnection /\ connection \in 0..MaxConnection
  BY IngressAssumption DEF AudioInv, Types
<1>5. ASSUME ingress' \in Ingresses
      PROVE  caller' \in [Callers -> CallerState] /\ CallerInv'
  <2> DEFINE r == [step |-> "copy", generation |-> g, connection |-> n, ingress |-> ingress',
                   kind |-> kind]
  <2>1. r \in CallerState /\ r.connection # 0 /\ r.kind \in Kinds
    BY <1>4, <1>5 DEF CallerState
  <2>2. caller' = [caller EXCEPT ![c] = r] /\ caller \in [Callers -> CallerState]
    BY <1>1 DEF AudioInv, Types
  <2> HIDE DEF r
  <2> QED
    BY <2>1, <2>2 DEF AudioInv, CallerInv
<1>6. CASE /\ UNCHANGED <<made, owner, worker, ingress, cancelled, stats>>
           /\ connection = 0 \/ ~(n > connection)
  <2>1. Still
    BY <1>1, <1>6, SameIngresses
  <2>2. /\ WorkerInv' /\ BatchInv' /\ PlaceInv' /\ HeardInv' /\ CountInv' /\ AudioStaysInJob'
        /\ \A j \in Ingresses : worker'[j].step \in {"ingest", "send", "write"} =>
             worker'[j].session \in 1..made'
        /\ \A j \in Ingresses : j > made' => worker'[j].step = "off" /\ queue'[j] = <<>>
    BY <2>1, StillStep
  <2>3. caller' \in [Callers -> CallerState] /\ CallerInv'
    BY <1>2, <1>3, <1>5, <1>6
  <2>4. Types'
    BY <1>1, <1>4, <1>6, <2>3 DEF AudioInv, Types
  <2>5. JobInv'
    BY <1>1, <1>6 DEF AudioInv, JobInv
  <2>6. CancelInv'
    BY <1>1, <1>6, <2>2 DEF AudioInv, CancelInv, ReplacedIsCancelled
  <2>7. QueuedIsCurrent'
    <3>1. \A b \in ToSet(queue[i]) : OfCurrentJob(b) /\ b.connection # 0
      <4>1. \A b \in ToSet(queue[i]) : BatchOf(i, b)
        BY <1>3 DEF AudioInv, BatchInv
      <4> QED
        BY <1>2, <1>3, <4>1 DEF AudioInv, FenceInv, AudioFence, QueuedIsCurrent, BatchOf
    <3>2. connection = 0 \/ n = connection
      BY <1>1, <1>4, <1>6
    <3>3. \A b \in ToSet(queue[i]) : OfCurrentJob(b)'
      BY <1>1, <3>1, <3>2 DEF OfCurrentJob
    <3> QED
      BY <1>1, <1>2, <1>6, <3>3 DEF QueuedIsCurrent
  <2>8. FenceInv'
    BY <2>2, <2>7 DEF FenceInv, AudioFence
  <2>9. LossInv'
    BY <1>1, <1>6, <2>1, StillLoss
  <2> QED
    BY <2>2, <2>3, <2>4, <2>5, <2>6, <2>8, <2>9 DEF AudioInv
<1>7. CASE /\ made < MaxIngress /\ NewIngress(made + 1, g) /\ ingress' = made + 1
           /\ cancelled' = [cancelled EXCEPT ![ingress] = TRUE]
           /\ stats' = [stats EXCEPT !.superseded = @ + Superseded(ingress)]
  <2>1. /\ made' = made + 1 /\ made + 1 \in Ingresses /\ made' \in 0..MaxIngress
        /\ worker' \in [Ingresses -> WorkerState] /\ owner' \in [Ingresses -> Generations]
        /\ owner'[made + 1] = g
        /\ \A j \in Ingresses : j # made + 1 => owner'[j] = owner[j]
        /\ \A j \in Ingresses : worker'[j] = worker[j]
                                \/ (j > made /\ j <= made' /\ worker'[j] = IdleWorker)
        /\ \A j \in 1..made : j \in Ingresses /\ j # made + 1 /\ j \in 1..made'
        /\ queue[made + 1] = <<>>
    BY <1>7, NewIngressStep
  <2>2. \A j \in 1..made : owner'[j] = owner[j]
    BY <2>1
  <2>3. Still
    <3>1. made <= made'
      BY <1>3, <2>1
    <3>2. accepted \in [batches : 0..MaxBatches, packets : SUBSET Packets]
      BY DEF AudioInv, Types
    <3> QED
      BY <1>1, <2>1, <2>2, <3>1, <3>2 DEF Still
  <2>4. /\ WorkerInv' /\ BatchInv' /\ PlaceInv' /\ HeardInv' /\ CountInv' /\ AudioStaysInJob'
        /\ \A j \in Ingresses : worker'[j].step \in {"ingest", "send", "write"} =>
             worker'[j].session \in 1..made'
        /\ \A j \in Ingresses : j > made' => worker'[j].step = "off" /\ queue'[j] = <<>>
        /\ \A j \in Ingresses : Waiting(j)' = Waiting(j) /\ InHand(j)' = InHand(j)
    BY <2>3, StillStep
  <2>5. /\ cancelled' \in [Ingresses -> BOOLEAN] /\ cancelled'[i]
        /\ \A j \in Ingresses : j # i => cancelled'[j] = cancelled[j]
    <3>1. cancelled \in [Ingresses -> BOOLEAN]
      BY DEF AudioInv, Types
    <3> QED
      BY <1>2, <1>3, <1>7, <3>1
  <2>6. /\ Waiting(i) \subseteq Packets /\ queued[i].packets = Cardinality(Waiting(i))
        /\ Cardinality(Waiting(i)) \in Nat
    <3>1. Waiting(i) \subseteq Packets
      BY <1>3, BatchTyped DEF AudioInv
    <3> QED
      BY <1>3, <3>1, PacketSets DEF AudioInv, CountInv
  <2>7. /\ stats' \in [superseded : Nat, provider : Nat, started : Generations]
        /\ stats'.superseded = stats.superseded + Cardinality(Waiting(i))
        /\ stats'.provider = stats.provider
    <3>1. stats \in [superseded : Nat, provider : Nat, started : Generations]
      BY DEF AudioInv, Types
    <3> QED
      BY <1>2, <1>7, <2>6, <3>1 DEF Superseded
  <2>8. caller' \in [Callers -> CallerState] /\ CallerInv'
    BY <1>5, <1>7, <2>1
  <2>9. Types'
    <3>1. cleanup' \in [step : {"none", "cancel", "wait"}, ingress : 0..made', session : 0..made']
      <4>1. cleanup \in [step : {"none", "cancel", "wait"}, ingress : 0..made, session : 0..made]
        BY DEF AudioInv, Types
      <4>2. 0..made \subseteq 0..made'
        BY <1>3, <2>1
      <4> QED
        BY <1>1, <4>1, <4>2
    <3>2. session' \in 0..made' /\ ingress' \in 0..made'
      BY <1>1, <1>3, <1>7, <2>1
    <3> QED
      BY <1>1, <1>4, <2>1, <2>5, <2>7, <2>8, <3>1, <3>2 DEF AudioInv, Types
  <2>10. JobInv'
    <3>1. generation' % 2 = 1
      BY <1>1 DEF AudioInv, JobInv
    <3>2. \A j \in 1..made' : owner'[j] <= generation' /\ owner'[j] % 2 = 1
      <4>1. \A j \in 1..made' : j \in 1..made \/ j = made + 1
        BY <1>3, <2>1
      <4>2. \A j \in 1..made : owner[j] <= generation /\ owner[j] % 2 = 1
        BY DEF AudioInv, JobInv
      <4>3. generation <= generation
        BY <1>1, Parity
      <4> QED
        BY <1>1, <2>1, <2>2, <3>1, <4>1, <4>2, <4>3
    <3>3. ingress' # 0 /\ owner'[ingress'] = generation'
      BY <1>1, <1>3, <1>7, <2>1
    <3>4. session \in 1..made
      BY <1>3
    <3>5. session' # 0 /\ owner'[session'] = generation'
      BY <1>1, <1>3, <2>2, <3>4 DEF AudioInv, JobInv
    <3>6. cleanup'.step # "none" =>
            cleanup'.ingress # 0 /\ cleanup'.ingress # ingress' /\ cleanup'.session # 0
      <4>1. cleanup.step # "none" => cleanup.ingress # 0 /\ cleanup.session # 0
        BY DEF AudioInv, JobInv
      <4>2. cleanup.ingress \in 0..made
        BY DEF AudioInv, Types
      <4>3. cleanup.ingress # made + 1
        BY <1>3, <4>2
      <4> QED
        BY <1>1, <1>7, <4>1, <4>3
    <3> QED
      BY <1>1, <3>1, <3>2, <3>3, <3>5, <3>6 DEF JobInv
  <2>11. CancelInv'
    <3>1. ReplacedIsCancelled'
      <4>1. \A j \in 1..made' : j \in 1..made \/ j = made + 1
        BY <1>3, <2>1
      <4>2. \A j \in 1..made : j = i \/ cancelled[j]
                               \/ (cleanup.step = "cancel" /\ cleanup.ingress = j)
        BY <1>2 DEF AudioInv, CancelInv, ReplacedIsCancelled
      <4>3. \A j \in 1..made : cancelled'[j] \/ (cleanup'.step = "cancel" /\ cleanup'.ingress = j)
        BY <1>1, <2>1, <2>5, <4>2
      <4> QED
        BY <1>7, <4>1, <4>3 DEF ReplacedIsCancelled
    <3>2. \A j \in Ingresses : cancelled'[j] => j <= made' /\ j # ingress'
      <4>1. \A j \in Ingresses : cancelled'[j] => j <= made /\ j \in Nat
        BY <1>3, <2>5, IngressAssumption DEF AudioInv, CancelInv, Ingresses
      <4> QED
        BY <1>3, <1>7, <2>1, <4>1
    <3> QED
      BY <2>4, <3>1, <3>2 DEF CancelInv
  <2>12. FenceInv'
    <3>1. QueuedIsCurrent'
      BY <1>1, <1>7, <2>1 DEF QueuedIsCurrent, ToSet
    <3> QED
      BY <2>4, <3>1 DEF FenceInv, AudioFence
  <2>13. LossInv'
    <3>1. /\ stats.superseded \in Nat /\ stats.provider \in Nat
          /\ Unsettled \subseteq Packets /\ Cardinality(Unsettled) \in Nat
          /\ Cardinality(accepted.packets \ heard) \in Nat
          /\ stats.superseded + stats.provider + Cardinality(Unsettled)
               <= Cardinality(accepted.packets \ heard)
      BY LossTyped
    <3>2. Waiting(i) \subseteq Unsettled
      <4> SUFFICES ASSUME NEW p \in Waiting(i) PROVE p \in accepted.packets
        BY <1>3 DEF Unsettled
      <4>1. PICK b : /\ p \in b.packets
                     /\ b \in ToSet(queue[i]) \/ (Busy(i) /\ b = worker[i].batch)
        BY DEF Waiting, Marking, Busy
      <4>2. BatchOf(i, b)
        BY <1>3, <4>1 DEF AudioInv, BatchInv
      <4> QED
        BY <1>1, <1>3, <4>1, <4>2 DEF BatchOf
    <3>3. Unsettled' \subseteq Unsettled \ Waiting(i)
      <4> SUFFICES ASSUME NEW p \in Unsettled' PROVE p \in Unsettled \ Waiting(i)
        OBVIOUS
      <4>1. PICK j \in Ingresses : (p \in Waiting(j) /\ ~cancelled'[j]) \/ p \in InHand(j)
        BY <2>4 DEF Unsettled
      <4>2. p \in accepted.packets
        BY <1>1 DEF Unsettled
      <4>3. ~cancelled'[j] => ~cancelled[j] /\ j # i
        BY <2>5
      <4>4. p \in Unsettled
        BY <4>1, <4>2, <4>3 DEF Unsettled
      <4>5. p \notin Waiting(i)
        <5>1. CASE p \in InHand(j)
          BY <1>3, <5>1, Apart
        <5>2. CASE p \in Waiting(j) /\ ~cancelled'[j]
          BY <1>3, <4>3, <5>2, Apart
        <5> QED
          BY <4>1, <5>1, <5>2
      <4> QED
        BY <4>4, <4>5
    <3>4. Cardinality(Unsettled \ Waiting(i)) = Cardinality(Unsettled) - Cardinality(Waiting(i))
      BY <3>1, <3>2, Taking
    <3>5. /\ Cardinality(Unsettled') <= Cardinality(Unsettled \ Waiting(i))
          /\ Cardinality(Unsettled') \in Nat
      <4>1. Unsettled' \subseteq Packets /\ Unsettled \ Waiting(i) \subseteq Packets
        BY <3>1, <3>3
      <4> QED
        BY <3>3, <4>1, Fewer, PacketSets
    <3> QED
      BY <1>1, <2>6, <2>7, <3>1, <3>4, <3>5 DEF LossInv
  <2> QED
    BY <2>4, <2>8, <2>9, <2>10, <2>11, <2>12, <2>13 DEF AudioInv
<1> QED
  BY <1>1, <1>6, <1>7
-----------------------------------------------------------------------------
(* The theorems.                                                            *)

\* AudioInv holds at first.
LEMMA InitAudio == Init => AudioInv
<1> SUFFICES ASSUME Init PROVE AudioInv
  OBVIOUS
<1>1. /\ job = "none" /\ generation = 0 /\ connection = 0 /\ session = 0 /\ ingress = 0 /\ made = 0
      /\ owner = [i \in Ingresses |-> 0] /\ cleanup = NoCleanup
      /\ queue = [i \in Ingresses |-> <<>>]
      /\ queued = [i \in Ingresses |-> [packets |-> 0, bytes |-> 0]]
      /\ cancelled = [i \in Ingresses |-> FALSE]
      /\ worker = [i \in Ingresses |-> [IdleWorker EXCEPT !.step = "off"]]
      /\ caller = [c \in Callers |-> IdleCaller]
      /\ closed = {} /\ newest = [i \in Ingresses |-> 0] /\ heard = {} /\ stats = NoStats
      /\ accepted = [batches |-> 0, packets |-> {}]
  BY DEF Init
<1> DEFINE x == [IdleWorker EXCEPT !.step = "off"]
<1>2. x \in WorkerState /\ x.step = "off" /\ x.left = {} /\ x.failed = {}
  BY Rest DEF WorkerState, WorkerSteps
<1> HIDE DEF x
<1>3. \A i \in Ingresses : worker[i] = x
  BY <1>1 DEF x
<1>4. worker \in [Ingresses -> WorkerState]
  BY <1>1, <1>2 DEF x
<1>5. caller \in [Callers -> CallerState] /\ CallerInv
  BY <1>1, Rest DEF CallerInv
<1>6. 0 \in Generations /\ 0 \in 0..MaxConnection /\ 0 \in 0..MaxIngress /\ 0 \in 0..MaxBatches
      /\ 0 \in Int /\ 0 \in 0..0 /\ <<>> \in Seq(Batch)
  BY IngressAssumption DEF Generations
<1>7. Types
  <2>1. cleanup \in [step : {"none", "cancel", "wait"}, ingress : 0..made, session : 0..made]
    BY <1>1, <1>6 DEF NoCleanup
  <2>2. stats \in [superseded : Nat, provider : Nat, started : Generations]
    BY <1>1, <1>6 DEF NoStats
  <2>3. accepted \in [batches : 0..MaxBatches, packets : SUBSET Packets]
    BY <1>1, <1>6
  <2>4. /\ owner \in [Ingresses -> Generations] /\ queue \in [Ingresses -> Seq(Batch)]
        /\ queued \in [Ingresses -> [packets : Int, bytes : Int]]
        /\ cancelled \in [Ingresses -> BOOLEAN] /\ newest \in [Ingresses -> 0..MaxConnection]
    BY <1>1, <1>6
  <2> QED
    BY <1>1, <1>4, <1>5, <1>6, <2>1, <2>2, <2>3, <2>4 DEF Types
<1>8. JobInv
  <2>1. 1..made = {} /\ 0 % 2 = 0
    BY <1>1
  <2> QED
    BY <1>1, <2>1 DEF JobInv, NoCleanup
<1>9. CancelInv
  <2>1. 1..made = {}
    BY <1>1
  <2> QED
    BY <1>1, <1>2, <1>3, <2>1 DEF CancelInv, ReplacedIsCancelled
<1>10. \A i \in Ingresses : ~Busy(i) /\ ~Marking(i) /\ InHand(i) = {} /\ worker[i].step = "off"
  BY <1>2, <1>3 DEF Busy, Marking, InHand
<1>11. \A i \in Ingresses : queue[i] = <<>> /\ ToSet(queue[i]) = {} /\ DOMAIN queue[i] = {}
  BY <1>1 DEF ToSet
<1>12. \A i \in Ingresses : Waiting(i) = {}
  BY <1>10, <1>11 DEF Waiting
<1>13. WorkerInv
  BY <1>2, <1>3, <1>10 DEF WorkerInv, WellFormed
<1>14. BatchInv /\ PlaceInv
  BY <1>1, <1>10, <1>11 DEF BatchInv, PlaceInv
<1>15. FenceInv
  BY <1>1, <1>10 DEF FenceInv, AudioFence, QueuedIsCurrent, AudioStaysInJob
<1>16. HeardInv /\ CountInv
  BY <1>1, <1>12, FS_EmptySet DEF HeardInv, CountInv
<1>17. LossInv
  <2>1. Unsettled = {} /\ accepted.packets \ heard = {}
    BY <1>1 DEF Unsettled
  <2>2. stats.superseded = 0 /\ stats.provider = 0 /\ Cardinality({}) = 0
    BY <1>1, FS_EmptySet DEF NoStats
  <2> QED
    BY <2>1, <2>2 DEF LossInv
<1> QED
  BY <1>5, <1>7, <1>8, <1>9, <1>13, <1>14, <1>15, <1>16, <1>17 DEF AudioInv

\* Every step keeps it.
LEMMA NextAudio == AudioInv /\ [Next]_vars => AudioInv'
<1> SUFFICES ASSUME AudioInv, [Next]_vars PROVE AudioInv'
  OBVIOUS
<1>1. CASE JobNext
  BY <1>1, StartStep, UpdateStep, CancelStep, CloseStep, StopStep DEF JobNext
<1>2. ASSUME NEW c \in Callers, CallerNext(c) PROVE AudioInv'
  <2>1. CASE EnqueueRefused(c)
    <3>1. /\ caller' = [caller EXCEPT ![c] = IdleCaller]
          /\ UNCHANGED <<managerVars, ingressVars, worker, sessionVars, stats, accepted>>
      BY <2>1 DEF EnqueueRefused
    <3>2. caller \in [Callers -> CallerState]
      BY DEF AudioInv, Types
    <3>3. /\ caller' \in [Callers -> CallerState]
          /\ \A d \in Callers : caller'[d].step = "copy" => caller'[d] = caller[d]
      BY <3>1, <3>2, Rest
    <3> QED
      BY <3>1, <3>3, NoneMoves
  <2> QED
    BY <1>2, <2>1, FirstStep, EnqueueStep DEF CallerNext
<1>3. ASSUME NEW i \in Ingresses, WorkerNext(i) PROVE AudioInv'
  BY <1>3, TakeStep, MarkStep, QuietSteps, AcceptStep, DropStep DEF WorkerNext
<1>4. CASE UNCHANGED vars
  <2>1. caller \in [Callers -> CallerState]
    BY DEF AudioInv, Types
  <2> QED
    BY <1>4, <2>1, NoneMoves DEF vars
<1> QED
  BY <1>1, <1>2, <1>3, <1>4 DEF Next

\* The inductive invariant of the caption audio holds.
THEOREM AudioInvHolds == Spec => []AudioInv
BY InitAudio, NextAudio, PTL DEF Spec

\* Neither the queue nor the session of a job gets audio of another job, whatever stops,
\* starts, updates and voice connections come between the checks of a request or of the
\* goroutine and what they do next (EnqueueCaptionAudioForGeneration,
\* ingestCaptionAudioPackets).
THEOREM AudioFenced == Spec => []AudioFence
<1>1. AudioInv => AudioFence
  BY DEF AudioInv, FenceInv
<1> QED
  BY <1>1, AudioInvHolds, PTL

\* A packet is heard once or lost once (captionAudioFailurePackets,
\* recordCaptionAudioDrop): the packets a goroutine has in hand were never heard, and
\* those still to be settled have room between the counters and what was not heard.
THEOREM PacketsAreAccounted == Spec => []PacketsAccounted
<1>1. ASSUME AudioInv PROVE PacketsAccounted
  <2>1. NothingSentTwice
    BY <1>1 DEF AudioInv, HeardInv, NothingSentTwice, InHand
  <2>2. LossNotOvercounted
    <3>1. /\ stats.superseded \in Nat /\ stats.provider \in Nat /\ Cardinality(Unsettled) \in Nat
          /\ Cardinality(accepted.packets \ heard) \in Nat
          /\ stats.superseded + stats.provider + Cardinality(Unsettled)
               <= Cardinality(accepted.packets \ heard)
      BY <1>1, LossTyped
    <3> QED
      BY <3>1 DEF LossNotOvercounted
  <2> QED
    BY <2>1, <2>2 DEF PacketsAccounted
<1> QED
  BY <1>1, AudioInvHolds, PTL

\* An ingress that a stop, an update or a newer voice connection has replaced is told to
\* end before the operation that replaced it ends (stopCaptionAudioIngress,
\* cancelCaptionAudioIngress).
THEOREM ReplacedEnds == Spec => []ReplacedIsCancelled
<1>1. AudioInv => ReplacedIsCancelled
  BY DEF AudioInv, CancelInv
<1> QED
  BY <1>1, AudioInvHolds, PTL

-----------------------------------------------------------------------------
(* The counters beside the channel, and the limits they enforce.            *)

\* The bytes that wait in an ingress, one by one.
Held(i) == UNION {BytesOf(b) : b \in Inside(i)}

\* The counters are exact and within the limits.
RoomInv ==
  \A i \in Ingresses : /\ queued[i].packets = Cardinality(Waiting(i))
                       /\ queued[i].bytes = Cardinality(Held(i))
                       /\ queued[i].packets <= QueuePackets /\ queued[i].bytes <= QueueBytes
                       /\ Len(queue[i]) <= QueueBatches

\* The batches that count as queued, and what they hold.
LEMMA InsideTyped ==
  ASSUME Types, NEW i \in Ingresses
  PROVE  /\ Inside(i) \subseteq Batch /\ \A b \in Inside(i) : b.bytes \in Nat
         /\ Waiting(i) = UNION {b.packets : b \in Inside(i)}
         /\ IsFiniteSet(Held(i)) /\ Cardinality(Held(i)) \in Nat
<1>1. /\ \A b \in ToSet(queue[i]) : b \in Batch /\ b.packets \subseteq Packets
      /\ worker[i].batch \in Batch /\ worker[i].batch.packets \subseteq Packets
  BY BatchTyped
<1>2. Inside(i) \subseteq Batch
  BY <1>1 DEF Inside, InFlight
<1>3. \A b \in Batch : b.bytes \in 0..QueueBytes /\ b.bytes \in Nat /\ b.number \in 0..MaxBatches
  BY IngressAssumption DEF Batch
<1>4. Waiting(i) = UNION {b.packets : b \in Inside(i)}
  <2>1. CASE Marking(i)
    <3>1. Inside(i) = ToSet(queue[i]) \cup {worker[i].batch}
      BY <2>1 DEF Inside, InFlight, Marking
    <3> QED
      BY <1>1, <2>1, <3>1 DEF Waiting
  <2>2. CASE ~Marking(i)
    <3>1. Inside(i) = ToSet(queue[i])
      BY <2>2 DEF Inside, InFlight, Marking
    <3> QED
      BY <1>1, <2>2, <3>1 DEF Waiting
  <2> QED
    BY <2>1, <2>2
<1>5. Held(i) \subseteq (0..MaxBatches) \X (1..QueueBytes)
  <2> SUFFICES ASSUME NEW b \in Inside(i)
               PROVE  BytesOf(b) \subseteq (0..MaxBatches) \X (1..QueueBytes)
    BY DEF Held
  <2>1. b.number \in 0..MaxBatches /\ 1..b.bytes \subseteq 1..QueueBytes
    BY <1>2, <1>3, IngressAssumption
  <2> QED
    BY <2>1 DEF BytesOf
<1>6. IsFiniteSet((0..MaxBatches) \X (1..QueueBytes))
  <2>1. 0 \in Int /\ 1 \in Int /\ MaxBatches \in Int /\ QueueBytes \in Int
    BY IngressAssumption
  <2>2. IsFiniteSet(0..MaxBatches) /\ IsFiniteSet(1..QueueBytes)
    BY <2>1, FS_Interval
  <2> QED
    BY <2>2, FS_Product
<1>7. IsFiniteSet(Held(i))
  BY <1>5, <1>6, FS_Subset
<1> QED
  BY <1>2, <1>3, <1>4, <1>7, FS_CardinalityType

\* A batch that is not there yet, or no longer, makes the difference of its bytes.
LEMMA HeldWith ==
  ASSUME NEW I, NEW b, \A c \in I : c.number # b.number, b.bytes \in Nat,
         IsFiniteSet(UNION {BytesOf(c) : c \in I})
  PROVE  Cardinality(UNION {BytesOf(c) : c \in I \cup {b}})
           = Cardinality(UNION {BytesOf(c) : c \in I}) + b.bytes
<1> DEFINE H == UNION {BytesOf(c) : c \in I}
<1>1. UNION {BytesOf(c) : c \in I \cup {b}} = H \cup BytesOf(b)
  OBVIOUS
<1>2. H \cap BytesOf(b) = {}
  <2> SUFFICES ASSUME NEW x \in H, x \in BytesOf(b) PROVE FALSE
    OBVIOUS
  <2>1. PICK c \in I : x \in BytesOf(c)
    OBVIOUS
  <2>2. x[1] = c.number /\ x[1] = b.number
    BY <2>1 DEF BytesOf
  <2> QED
    BY <2>2
<1>3. IsFiniteSet(BytesOf(b)) /\ Cardinality(BytesOf(b)) = b.bytes
  BY Row DEF BytesOf
<1> HIDE DEF H
<1>4. IsFiniteSet(H)
  BY DEF H
<1>5. Cardinality(H) \in Nat
  BY <1>4, FS_CardinalityType
<1>6. Cardinality(H \cup BytesOf(b))
        = Cardinality(H) + Cardinality(BytesOf(b)) - Cardinality(H \cap BytesOf(b))
  BY <1>3, <1>4, FS_Union
<1>7. Cardinality(H \cap BytesOf(b)) = 0
  BY <1>2, FS_EmptySet
<1>8. Cardinality(H \cup BytesOf(b)) = Cardinality(H) + b.bytes
  BY <1>3, <1>5, <1>6, <1>7
<1> QED
  BY <1>1, <1>8 DEF H

\* A goroutine that neither takes a batch nor gives its room back holds what it held.
LEMMA StepsAside ==
  ASSUME Types, NEW i \in Ingresses, NEW w, Goto(i, w), worker[i].step # "mark",
         w.step # "mark", UNCHANGED queue
  PROVE  \A j \in Ingresses : Inside(j)' = Inside(j)
<1>1. worker \in [Ingresses -> WorkerState] /\ worker' = [worker EXCEPT ![i] = w]
  BY DEF Types, Goto
<1>2. worker'[i] = w /\ \A j \in Ingresses : j # i => worker'[j] = worker[j]
  BY <1>1
<1> QED
  BY <1>2 DEF Inside, InFlight

\* RoomInv when nothing is put in or taken out.
LEMMA RoomStays ==
  ASSUME AudioInv, AudioInv', RoomInv, UNCHANGED queued,
         \A i \in Ingresses : /\ Inside(i)' = Inside(i)
                              /\ Len(queue[i])' <= Len(queue[i])
  PROVE  RoomInv'
<1> SUFFICES ASSUME NEW i \in Ingresses
             PROVE  /\ queued'[i].packets = Cardinality(Waiting(i)')
                    /\ queued'[i].bytes = Cardinality(Held(i)')
                    /\ queued'[i].packets <= QueuePackets /\ queued'[i].bytes <= QueueBytes
                    /\ Len(queue[i])' <= QueueBatches
  BY DEF RoomInv
<1>1. Held(i)' = Held(i)
  BY DEF Held
<1>2. queued'[i].packets = Cardinality(Waiting(i)')
  BY DEF AudioInv, CountInv
<1>3. Len(queue[i])' <= QueueBatches
  <2>1. queue[i] \in Seq(Batch) /\ queue'[i] \in Seq(Batch)
    BY DEF AudioInv, Types
  <2>2. Len(queue[i]) \in Nat /\ Len(queue'[i]) \in Nat /\ Len(queue[i]) <= QueueBatches
    BY <2>1 DEF RoomInv
  <2> QED
    BY <2>2, IngressAssumption
<1> QED
  BY <1>1, <1>2, <1>3 DEF RoomInv

\* A request puts its batch in, if there is room.
LEMMA RoomForBatch ==
  ASSUME AudioInv, AudioInv', RoomInv, NEW c \in Callers, EnqueueSecond(c)
  PROVE  RoomInv'
<1>1. PICK i, b, m, n : i = ingress /\ b = NewBatch(accepted.batches + 1, caller[c])
                        /\ m = caller[c].kind[1] /\ n = caller[c].kind[2]
  OBVIOUS
<1>2. /\ queue' = [queue EXCEPT ![i] = Append(@, b)]
      /\ queued' = [queued EXCEPT ![i].packets = @ + m, ![i].bytes = @ + n]
      /\ queued[i].packets + m <= QueuePackets /\ queued[i].bytes + n <= QueueBytes
      /\ Len(queue[i]) < QueueBatches /\ UNCHANGED worker
      /\ caller[c].step = "copy" /\ accepted.batches < MaxBatches /\ Serving(caller[c].generation)
  BY <1>1 DEF EnqueueSecond, Fits
<1>3. b \in Batch /\ b.number = accepted.batches + 1 /\ b.bytes = n /\ m \in Nat /\ n \in Nat
  BY <1>1, <1>2, BatchMade
<1>4. i \in Ingresses
  <2>1. ingress \in 0..made /\ made \in 0..MaxIngress /\ ingress # 0
    BY <1>2 DEF AudioInv, Types, JobInv, Serving
  <2> QED
    BY <1>1, <2>1, IngressAssumption DEF Ingresses
<1>5. /\ queue \in [Ingresses -> Seq(Batch)]
      /\ queued \in [Ingresses -> [packets : Int, bytes : Int]]
      /\ QueuePackets \in Nat /\ QueueBatches \in Nat /\ QueueBytes \in Nat
      /\ accepted.batches \in Nat
  <2>1. /\ QueuePackets \in Nat /\ QueueBatches \in Nat /\ QueueBytes \in Nat /\ MaxBatches \in Nat
    BY IngressAssumption
  <2>2. /\ queue \in [Ingresses -> Seq(Batch)] /\ accepted.batches \in 0..MaxBatches
        /\ queued \in [Ingresses -> [packets : Int, bytes : Int]]
    BY DEF AudioInv, Types
  <2> QED
    BY <2>1, <2>2
<1>6. queued[i].packets + m \in Int /\ queued[i].bytes + n \in Int
  BY <1>3, <1>4, <1>5
<1>7. /\ queued'[i].packets = queued[i].packets + m /\ queued'[i].bytes = queued[i].bytes + n
      /\ \A j \in Ingresses : j # i => queued'[j] = queued[j]
  <2>1. Types
    BY DEF AudioInv
  <2>2. queued' = [queued EXCEPT ![i].packets = queued[i].packets + m,
                                 ![i].bytes = queued[i].bytes + n]
    BY <1>2, <1>4, <1>5
  <2> QED
    BY <1>4, <1>6, <2>1, <2>2, Counters
<1>8. /\ Len(queue'[i]) = Len(queue[i]) + 1 /\ Len(queue[i]) \in Nat
      /\ \A j \in Ingresses : j # i => queue'[j] = queue[j]
      /\ queue[i] \in Seq(Batch) /\ queue'[i] = Append(queue[i], b)
  BY <1>2, <1>3, <1>4, <1>5
<1>9. ToSet(queue'[i]) = ToSet(queue[i]) \cup {b}
  BY <1>3, <1>8, Queues
<1>10. Inside(i)' = Inside(i) \cup {b} /\ \A j \in Ingresses : j # i => Inside(j)' = Inside(j)
  BY <1>2, <1>8, <1>9 DEF Inside, InFlight
<1>11. \A x \in Inside(i) : x.number # b.number
  <2>1. \A x \in Inside(i) : BatchOf(i, x)
    BY <1>4 DEF AudioInv, BatchInv, Inside, InFlight, Busy
  <2> QED
    BY <1>3, <1>5, <2>1 DEF BatchOf
<1>12. Cardinality(Held(i)') = Cardinality(Held(i)) + n
  BY <1>3, <1>4, <1>10, <1>11, InsideTyped, HeldWith DEF Held, AudioInv
<1>13. \A j \in Ingresses : j # i => Held(j)' = Held(j)
  BY <1>10 DEF Held
<1>14. \A j \in Ingresses : queued'[j].packets = Cardinality(Waiting(j)')
  BY DEF AudioInv, CountInv
<1>15. /\ queued'[i].packets <= QueuePackets /\ queued'[i].bytes <= QueueBytes
       /\ queued'[i].bytes = Cardinality(Held(i)') /\ Len(queue'[i]) <= QueueBatches
  BY <1>2, <1>4, <1>5, <1>7, <1>8, <1>12 DEF RoomInv
<1> QED
  BY <1>4, <1>7, <1>8, <1>13, <1>14, <1>15 DEF RoomInv

\* markDequeued gives back the room of the batch, and of no other.
LEMMA RoomGivenBack ==
  ASSUME AudioInv, AudioInv', RoomInv, NEW i \in Ingresses, MarkDequeued(i)
  PROVE  RoomInv'
<1>1. PICK b : b = worker[i].batch
  OBVIOUS
<1> DEFINE x == [IdleWorker EXCEPT !.step = "exited"]
<1> DEFINE y == [worker[i] EXCEPT !.step = "check", !.attempt = 1, !.left = b.packets]
<1>2. /\ queued' = [queued EXCEPT ![i].packets = @ - Cardinality(b.packets),
                                  ![i].bytes = @ - b.bytes]
      /\ UNCHANGED queue /\ worker[i].step = "mark" /\ (Goto(i, x) \/ Goto(i, y))
  BY <1>1 DEF MarkDequeued
<1>3. Cardinality(b.packets) \in Nat /\ b.bytes \in Nat
  <2>1. b \in Batch /\ b.packets \subseteq Packets
    BY <1>1, BatchTyped DEF AudioInv
  <2>2. b.bytes \in Nat
    BY <2>1, IngressAssumption DEF Batch
  <2> QED
    BY <2>1, <2>2, PacketSets
<1>4. /\ queued \in [Ingresses -> [packets : Int, bytes : Int]]
      /\ QueuePackets \in Nat /\ QueueBytes \in Nat
  BY IngressAssumption DEF AudioInv, Types
<1>5. queued[i].packets - Cardinality(b.packets) \in Int /\ queued[i].bytes - b.bytes \in Int
  BY <1>3, <1>4
<1>6. /\ queued'[i].packets = queued[i].packets - Cardinality(b.packets)
      /\ queued'[i].bytes = queued[i].bytes - b.bytes
      /\ \A j \in Ingresses : j # i => queued'[j] = queued[j]
  <2>1. Types
    BY DEF AudioInv
  <2>2. queued' = [queued EXCEPT ![i].packets = queued[i].packets - Cardinality(b.packets),
                                 ![i].bytes = queued[i].bytes - b.bytes]
    BY <1>2, <1>4
  <2> QED
    BY <1>5, <2>1, <2>2, Counters
<1>7. /\ worker'[i].step # "mark" /\ \A j \in Ingresses : j # i => worker'[j] = worker[j]
  <2>1. worker \in [Ingresses -> WorkerState]
    BY DEF AudioInv, Types
  <2>2. x.step = "exited" /\ y.step = "check"
    BY <2>1 DEF WorkerState, IdleWorker
  <2> HIDE DEF x, y
  <2> QED
    BY <1>2, <2>1, <2>2 DEF Goto
<1>8. /\ Inside(i) = ToSet(queue[i]) \cup {b} /\ Inside(i)' = ToSet(queue[i])
      /\ \A j \in Ingresses : j # i => Inside(j)' = Inside(j)
  BY <1>1, <1>2, <1>7 DEF Inside, InFlight
<1>9. \A c \in Inside(i)' : c.number # b.number
  BY <1>1, <1>2, <1>8 DEF AudioInv, PlaceInv, Busy
<1>10. IsFiniteSet(Held(i)') /\ Cardinality(Held(i)') \in Nat
  <2>1. Held(i)' \subseteq Held(i)
    BY <1>8 DEF Held
  <2>2. IsFiniteSet(Held(i))
    BY InsideTyped DEF AudioInv
  <2> QED
    BY <2>1, <2>2, FS_Subset, FS_CardinalityType
<1>11. Cardinality(Held(i)) = Cardinality(Held(i)') + b.bytes
  <2>1. PICK I : I = Inside(i)'
    OBVIOUS
  <2>2. Held(i)' = UNION {BytesOf(c) : c \in I} /\ Held(i) = UNION {BytesOf(c) : c \in I \cup {b}}
    BY <1>8, <2>1 DEF Held
  <2> QED
    BY <1>3, <1>9, <1>10, <2>1, <2>2, HeldWith
<1>12. \A j \in Ingresses : j # i => Held(j)' = Held(j)
  BY <1>8 DEF Held
<1>13. \A j \in Ingresses : queued'[j].packets = Cardinality(Waiting(j)')
  BY DEF AudioInv, CountInv
<1>14. /\ queued'[i].packets <= QueuePackets /\ queued'[i].bytes <= QueueBytes
       /\ queued'[i].bytes = Cardinality(Held(i)')
  BY <1>3, <1>4, <1>6, <1>10, <1>11 DEF RoomInv
<1> QED
  BY <1>2, <1>6, <1>12, <1>13, <1>14 DEF RoomInv

\* The steps of a goroutine that leave the queue and its counters alone.
LEMMA RoomAside ==
  ASSUME AudioInv, AudioInv', RoomInv, NEW i \in Ingresses,
         \/ WorkerExits(i) \/ CheckCurrent(i) \/ ReadSession(i)
         \/ PacketBegins(i) \/ ConnectionFound(i) \/ ConnectionRefused(i) \/ PacketWritten(i)
         \/ PacketFails(i) \/ IngestCancelled(i) \/ AttemptEnds(i)
         \/ BackoffCancelled(i) \/ BackoffEnds(i) \/ RecordRetry(i) \/ RecordDrop(i)
  PROVE  RoomInv'
<1>1. UNCHANGED <<queue, queued>> /\ worker[i].step # "mark"
  BY DEF WorkerExits, CheckCurrent, ReadSession, PacketBegins, ConnectionFound,
         ConnectionRefused, PacketWritten, PacketFails, IngestCancelled, AttemptEnds, BackoffCancelled, BackoffEnds, RecordRetry, RecordDrop,
         ingressVars
<1>2. worker[i] \in WorkerState /\ IdleWorker \in WorkerState /\ IdleWorker.step = "idle"
  BY Rest DEF AudioInv, Types
<1>3. SUFFICES \E w : Goto(i, w) /\ w.step # "mark"
  <2>1. ASSUME NEW w, Goto(i, w), w.step # "mark" PROVE RoomInv'
    <3>1. \A j \in Ingresses : Inside(j)' = Inside(j)
      BY <1>1, <2>1, StepsAside DEF AudioInv
    <3>2. \A j \in Ingresses : Len(queue[j])' <= Len(queue[j])
      <4>1. \A j \in Ingresses : queue[j] \in Seq(Batch)
        BY DEF AudioInv, Types
      <4> QED
        BY <1>1, <4>1
    <3> QED
      BY <1>1, <3>1, <3>2, RoomStays
  <2> QED
    BY <2>1
<1>4. CASE Goto(i, IdleWorker)
  BY <1>2, <1>4
<1>5. CASE WorkerExits(i)
  <2>1. [IdleWorker EXCEPT !.step = "exited"].step = "exited"
    BY <1>2 DEF WorkerState
  <2> QED
    BY <1>5, <2>1 DEF WorkerExits
<1>6. CASE CheckCurrent(i)
  <2>1. [worker[i] EXCEPT !.step = "read"].step = "read"
    BY <1>2 DEF WorkerState
  <2> QED
    BY <1>4, <1>6, <2>1 DEF CheckCurrent
<1>7. CASE ReadSession(i)
  <2>1. [worker[i] EXCEPT !.step = "ingest", !.session = session, !.tried = worker[i].left,
                          !.failed = {}, !.final = FALSE].step = "ingest"
    BY <1>2 DEF WorkerState
  <2> QED
    BY <1>4, <1>7, <2>1 DEF ReadSession
<1>8. CASE PacketBegins(i)
  <2>1. [worker[i] EXCEPT !.step = "send"].step = "send"
    BY <1>2 DEF WorkerState
  <2> QED
    BY <1>8, <2>1 DEF PacketBegins
<1>9. CASE PacketWritten(i)
  <2>1. [worker[i] EXCEPT !.step = "ingest", !.left = @ \ {NextPacket(i)}].step = "ingest"
    BY <1>2 DEF WorkerState
  <2> QED
    BY <1>9, <2>1 DEF PacketWritten
<1>10. \A lost, f : [worker[i] EXCEPT !.step = "ingest", !.left = @ \ lost,
                                    !.failed = @ \cup lost, !.final = f].step = "ingest"
  BY <1>2 DEF WorkerState
<1>14. CASE ConnectionRefused(i)
  <2>1. PICK lost : Goto(i, [worker[i] EXCEPT !.step = "ingest", !.left = @ \ lost,
                                     !.failed = @ \cup lost, !.final = TRUE])
    BY <1>14 DEF ConnectionRefused
  <2> QED
    BY <1>10, <2>1
<1>15. CASE PacketFails(i)
  <2>1. PICK f, lost : Goto(i, [worker[i] EXCEPT !.step = "ingest", !.left = @ \ lost,
                                     !.failed = @ \cup lost, !.final = @ \/ f])
    BY <1>15 DEF PacketFails
  <2> QED
    BY <1>10, <2>1
<1>16. CASE ConnectionFound(i)
  <2>1. [worker[i] EXCEPT !.step = "write"].step = "write"
    BY <1>2 DEF WorkerState
  <2> QED
    BY <1>16, <2>1 DEF ConnectionFound
<1>11. CASE AttemptEnds(i)
  <2>1. Goto(i, IdleWorker) \/ \E s \in {"drop", "backoff"} :
          Goto(i, [worker[i] EXCEPT !.step = s, !.session = 0, !.tried = {}])
    BY <1>11 DEF AttemptEnds
  <2>2. \A s \in {"drop", "backoff"} :
          [worker[i] EXCEPT !.step = s, !.session = 0, !.tried = {}].step = s
    BY <1>2 DEF WorkerState
  <2> QED
    BY <1>4, <2>1, <2>2
<1>12. CASE BackoffEnds(i)
  <2>1. \E s \in {"retry", "lateDrop"} : Goto(i, [worker[i] EXCEPT !.step = s])
    BY <1>12 DEF BackoffEnds
  <2>2. \A s \in {"retry", "lateDrop"} : [worker[i] EXCEPT !.step = s].step = s
    BY <1>2 DEF WorkerState
  <2> QED
    BY <2>1, <2>2
<1>13. CASE RecordRetry(i)
  <2>1. [worker[i] EXCEPT !.step = "check", !.attempt = @ + 1, !.left = RetryPackets(worker[i]),
                          !.failed = {}].step = "check"
    BY <1>2 DEF WorkerState
  <2> QED
    BY <1>4, <1>13, <2>1 DEF RecordRetry
<1> QED
  BY <1>4, <1>5, <1>6, <1>7, <1>8, <1>9, <1>11, <1>12, <1>13, <1>14, <1>15, <1>16
     DEF IngestCancelled, BackoffCancelled, RecordDrop

\* A new ingress starts empty, and no step of the job or of a request that only reads moves
\* a batch.
LEMMA RoomOfNew ==
  ASSUME AudioInv, AudioInv', RoomInv, UNCHANGED <<queue, queued>>,
         \/ UNCHANGED worker
         \/ made < MaxIngress /\ \E g : NewIngress(made + 1, g)
  PROVE  RoomInv'
<1>1. \A j \in Ingresses : Len(queue[j])' <= Len(queue[j])
  <2>1. \A j \in Ingresses : queue[j] \in Seq(Batch)
    BY DEF AudioInv, Types
  <2> QED
    BY <2>1
<1>2. CASE UNCHANGED worker
  <2>1. \A j \in Ingresses : Inside(j)' = Inside(j)
    BY <1>2 DEF Inside, InFlight
  <2> QED
    BY <1>1, <2>1, RoomStays
<1>3. CASE made < MaxIngress /\ \E g : NewIngress(made + 1, g)
  <2>1. made \in Nat /\ MaxIngress \in Nat
    BY IngressAssumption DEF AudioInv, Types
  <2>2. Goto(made + 1, IdleWorker) /\ made + 1 \in Ingresses /\ made + 1 > made
    BY <1>3, <2>1 DEF NewIngress, Goto, Ingresses
  <2>3. worker[made + 1].step = "off"
    BY <2>2 DEF AudioInv, CancelInv
  <2>4. \A j \in Ingresses : Inside(j)' = Inside(j)
    BY <2>2, <2>3, Rest, StepsAside DEF AudioInv
  <2> QED
    BY <1>1, <2>4, RoomStays
<1> QED
  BY <1>2, <1>3

\* Both counters beside the channel are exact between any two steps, so that their limits
\* and that of the channel are the real ones (enqueue, markDequeued).
THEOREM RoomKept == Spec => []RoomInv
<1>1. Init => RoomInv
  <2> SUFFICES ASSUME Init PROVE RoomInv
    OBVIOUS
  <2>1. CountInv
    BY InitAudio DEF AudioInv
  <2>2. \A i \in Ingresses : queued[i].packets = 0 /\ queued[i].bytes = 0 /\ queue[i] = <<>>
    BY DEF Init
  <2>3. \A i \in Ingresses : worker[i] = [IdleWorker EXCEPT !.step = "off"]
    BY DEF Init
  <2>4. [IdleWorker EXCEPT !.step = "off"].step = "off"
    BY DEF IdleWorker
  <2>5. \A i \in Ingresses : Inside(i) = {}
    <3>1. ToSet(<<>>) = {}
      BY DEF ToSet
    <3>2. \A i \in Ingresses : InFlight(i) = {}
      BY <2>3, <2>4 DEF InFlight
    <3> QED
      BY <2>2, <3>1, <3>2 DEF Inside
  <2>6. \A i \in Ingresses : Held(i) = {}
    BY <2>5 DEF Held
  <2>7. Len(<<>>) = 0 /\ Cardinality({}) = 0
    BY FS_EmptySet
  <2>8. \A i \in Ingresses : queued[i].bytes = Cardinality(Held(i)) /\ Len(queue[i]) = 0
    BY <2>2, <2>6, <2>7
  <2>9. 0 <= QueuePackets /\ 0 <= QueueBytes /\ 0 <= QueueBatches
    BY IngressAssumption
  <2> QED
    BY <2>1, <2>2, <2>8, <2>9 DEF RoomInv, CountInv
<1>2. AudioInv /\ RoomInv /\ [Next]_vars => RoomInv'
  <2> SUFFICES ASSUME AudioInv, RoomInv, [Next]_vars PROVE RoomInv'
    OBVIOUS
  <2>1. AudioInv'
    BY NextAudio
  <2>2. CASE JobNext
    <3>1. CASE StartJob
      BY <2>1, <3>1, RoomOfNew DEF StartJob, ingressVars
    <3>2. CASE UpdateSwap
      BY <2>1, <3>2, RoomOfNew DEF UpdateSwap, ingressVars
    <3> QED
      BY <2>1, <2>2, <3>1, <3>2, RoomOfNew
         DEF JobNext, CancelIngress, CloseSession, StopBegin, ingressVars
  <2>3. ASSUME NEW c \in Callers, CallerNext(c) PROVE RoomInv'
    BY <2>1, <2>3, RoomForBatch, RoomOfNew DEF CallerNext, EnqueueFirst, EnqueueRefused, ingressVars
  <2>4. ASSUME NEW i \in Ingresses, WorkerNext(i) PROVE RoomInv'
    <3>1. CASE TakeBatch(i)
      <4>1. PICK q : q = queue[i]
        OBVIOUS
      <4>2. PICK w : w = [IdleWorker EXCEPT !.step = "mark", !.batch = Head(q)]
        OBVIOUS
      <4>3. /\ queue' = [queue EXCEPT ![i] = Tail(q)] /\ q # <<>> /\ UNCHANGED queued
            /\ worker[i].step = "idle" /\ Goto(i, w)
        BY <3>1, <4>1, <4>2 DEF TakeBatch
      <4>4. queue \in [Ingresses -> Seq(Batch)] /\ q \in Seq(Batch)
            /\ worker \in [Ingresses -> WorkerState]
        BY <4>1 DEF AudioInv, Types
      <4>5. w.step = "mark" /\ w.batch = Head(q)
        BY <4>2 DEF IdleWorker
      <4>6. /\ worker'[i] = w /\ queue'[i] = Tail(q)
            /\ \A j \in Ingresses : j # i => worker'[j] = worker[j] /\ queue'[j] = queue[j]
        BY <4>3, <4>4 DEF Goto
      <4>7. ToSet(q) = ToSet(Tail(q)) \cup {Head(q)}
        BY <4>3, <4>4, Queues
      <4>8. Inside(i)' = Inside(i) /\ \A j \in Ingresses : j # i => Inside(j)' = Inside(j)
        BY <4>1, <4>3, <4>5, <4>6, <4>7 DEF Inside, InFlight
      <4>9. \A j \in Ingresses : Len(queue[j])' <= Len(queue[j])
        <5>1. Len(q) \in Nat /\ Len(Tail(q)) = Len(q) - 1 /\ Len(q) > 0
          BY <4>3, <4>4
        <5> QED
          BY <4>1, <4>4, <4>6, <5>1
      <4> QED
        BY <2>1, <4>3, <4>8, <4>9, RoomStays
    <3> QED
      BY <2>1, <2>4, <3>1, RoomGivenBack, RoomAside DEF WorkerNext
  <2>5. CASE UNCHANGED vars
    BY <2>1, <2>5, RoomOfNew DEF vars, ingressVars
  <2> QED
    BY <2>2, <2>3, <2>4, <2>5 DEF Next
<1> QED
  BY <1>1, <1>2, AudioInvHolds, PTL DEF Spec

\* Types and limits, counters that agree with the queue, and no ingress left running
\* (enqueue, markDequeued, cancelCaptionAudioIngress): the bounds the counters enforce are
\* the real ones, and neither clamp of markDequeued is ever needed.
THEOREM IngressIsSafe == Spec => []IngressInv
<1>1. ASSUME AudioInv, RoomInv PROVE IngressInv
  <2>1. QueueCounted
    BY <1>1, InsideTyped DEF AudioInv, RoomInv, QueueCounted, Held
  <2>2. queued \in [Ingresses -> [packets : 0..QueuePackets, bytes : 0..QueueBytes]]
    <3>1. queued \in [Ingresses -> [packets : Int, bytes : Int]]
      BY <1>1 DEF AudioInv, Types
    <3>2. \A i \in Ingresses : Cardinality(Waiting(i)) \in Nat /\ Cardinality(Held(i)) \in Nat
      BY <1>1, BatchTyped, PacketSets, InsideTyped DEF AudioInv
    <3>3. \A i \in Ingresses : queued[i].packets \in 0..QueuePackets
                               /\ queued[i].bytes \in 0..QueueBytes
      BY <1>1, <3>2, IngressAssumption DEF RoomInv
    <3>4. \A i \in Ingresses : queued[i] \in [packets : 0..QueuePackets, bytes : 0..QueueBytes]
      BY <3>1, <3>3
    <3> QED
      BY <3>1, <3>4
  <2>3. TypeOK
    BY <1>1, <2>2 DEF AudioInv, Types, TypeOK, WorkerState, CallerState
  <2> QED
    BY <1>1, <2>1, <2>3 DEF IngressInv, AudioInv, CancelInv
<1> QED
  BY <1>1, AudioInvHolds, RoomKept, PTL
=============================================================================
