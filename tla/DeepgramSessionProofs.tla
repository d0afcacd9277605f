----------------------- MODULE DeepgramSessionProofs ------------------------
(***************************************************************************)
(* Proofs about DeepgramSession, for any number of goroutines that call     *)
(* Ingest, speakers, voice connections and dials, and about SpeakerTimers,  *)
(* for any settings of a connection.                                        *)
(***************************************************************************)
EXTENDS DeepgramSession, SpeakerTimers, FiniteSetTheorems, TLAPS

\* A dial that became a connection, whatever happened to it since.
Opened(d) == link[d].state \in {"open", "graceful", "closed"}

\* The goroutine dials d.
Dials(c, d) == caller[c].step = "dial" /\ caller[c].link = d

\* Every packet that was let in still has a dial left to it.
BoundInv == IsFiniteSet(Pending) /\ made + Cardinality(Pending) <= MaxLinks

\* The two maps: finite, apart, of the newest voice connection only.
MapsInv ==
  /\ IsFiniteSet(DOMAIN conns) /\ IsFiniteSet(DOMAIN dialing)
  /\ DOMAIN conns \cap DOMAIN dialing = {}
  /\ \A k \in DOMAIN conns \cup DOMAIN dialing : k[2] = latest
  /\ \A k \in DOMAIN conns : Opened(conns[k])
  /\ \A k \in DOMAIN dialing : link[dialing[k]].state = "dialing"

\* The goroutine is the only one that dials d; unless a newer voice connection
\* was seen, it is the dial registered for its key.
OwnDial(c, d) ==
  /\ d \in Links /\ link[d].state = "dialing"
  /\ link[d].key[2] = latest => link[d].key \in DOMAIN dialing /\ dialing[link[d].key] = d
  /\ \A b \in Callers : Dials(b, d) => b = c

\* Every dial has one goroutine, and none is of a voice connection to come.
DialInv ==
  /\ \A d \in Links : /\ d > made <=> link[d].state = "none"
                      /\ d <= made => link[d].key[2] <= latest
  /\ \A d \in Links : link[d].state = "dialing" => \E c \in Callers : Dials(c, d)
  /\ \A c \in Callers : caller[c].step = "dial" => OwnDial(c, caller[c].link)

\* Whoever is to write to, abort or close a connection has one.
HoldInv ==
  /\ \A c \in Callers :
       /\ caller[c].victims # {} => caller[c].step = "evict"
       /\ \A d \in caller[c].victims : Opened(d)
       /\ caller[c].step = "wait" => caller[c].link \in Links
       /\ caller[c].step \in {"write", "discard", "abort"} =>
            caller[c].link \in Links /\ Opened(caller[c].link)
  /\ \A d \in closer.todo : Opened(d)

\* A connection has its loops until it is closed.
LoopInv ==
  \A d \in Links :
    /\ Opened(d) <=> loop[d]["read"] # "off"
    /\ \A l \in Loops : loop[d][l] # "off" => Opened(d)
    /\ loop[d]["read"] = "done" => link[d].state = "closed"

\* How far Close has come.
CloseInv ==
  /\ closed <=> closer.step # "none"
  /\ closed => DOMAIN conns = {}
  /\ closer.step = "none" => closer.todo = {}
  /\ closer.step \in {"closes", "loops", "done"} => DialsDone
  /\ closer.step \in {"loops", "done"} => closer.todo = {}
  /\ closer.step = "done" => LoopsDone

\* The inductive invariant.
SessionInv ==
  /\ TypeOK /\ BoundInv /\ MapsInv /\ DialInv /\ HoldInv /\ LoopInv /\ CloseInv
  /\ NoLeakedConnection
-----------------------------------------------------------------------------
(* Types.                                                                   *)

\* The records of TypeOK.
LinkState == [key : Keys, ssrc : SSRCs,
              state : {"none", "dialing", "failed", "open", "graceful", "closed"}]

\* The locals of Ingest.
CallerState == [step : {"idle", "connect", "evict", "wait", "dial", "write", "discard", "abort"},
                link : 0..MaxLinks, victims : SUBSET Links, packet : Packets]

\* The locals of close.
CloserState == [step : {"none", "dials", "closes", "loops", "done"}, todo : SUBSET Links]

\* Where a loop may be.
LoopSteps == {"off", "run", "discard", "abort", "done"}

\* Everything but the two maps.
Records ==
  /\ closed \in BOOLEAN /\ latest \in 0..MaxGeneration /\ terminal \in BOOLEAN
  /\ made \in 0..MaxLinks
  /\ link \in [Links -> LinkState] /\ loop \in [Links -> [Loops -> LoopSteps]]
  /\ caller \in [Callers -> CallerState] /\ closer \in CloserState

\* The two maps.
Maps ==
  /\ DOMAIN conns \subseteq Keys /\ DOMAIN dialing \subseteq Keys
  /\ \A k \in DOMAIN conns : conns[k] \in Links /\ link[conns[k]].key = k
  /\ \A k \in DOMAIN dialing : dialing[k] \in Links /\ link[dialing[k]].key = k

\* The limit on them.
Limit == Cardinality(DOMAIN conns) + Cardinality(DOMAIN dialing) <= MaxConnections

\* TypeOK by its parts.
LEMMA TypeParts == TypeOK <=> Records /\ Maps /\ Limit
BY DEF TypeOK, Records, Maps, Limit, LinkState, CallerState, CloserState, LoopSteps

\* The key of a packet names its generation.
LEMMA PacketTyped ==
  ASSUME NEW p \in Packets
  PROVE  /\ KeyFor(p) \in Keys /\ KeyFor(p)[2] = GenerationOf(p)
         /\ GenerationOf(p) \in 1..MaxGeneration /\ SSRCOf(p) \in SSRCs
<1>1. p \in (Users \cup {NoUser}) \X SSRCs \X (1..MaxGeneration)
  BY SessionAssumption DEF Packets
<1> QED
  BY <1>1 DEF KeyFor, Keys, UserOf, SSRCOf, GenerationOf, Generation

\* There are packets, so there are keys.
LEMMA Defaults == Idle \in CallerState /\ NoLink \in LinkState /\ Idle.packet \in Packets
<1>1. PICK p \in Packets : TRUE
  BY SessionAssumption DEF Packets
<1>2. Idle.packet \in Packets
  BY <1>1 DEF Idle
<1>3. Some \in Keys /\ (CHOOSE s \in SSRCs : TRUE) \in SSRCs
  BY <1>1, PacketTyped DEF Some
<1>4. Idle \in CallerState
  <2>1. (CHOOSE q \in Packets : TRUE) \in Packets
    BY <1>1
  <2> QED
    BY <2>1, SessionAssumption DEF Idle, CallerState
<1>5. NoLink \in LinkState
  BY <1>3 DEF NoLink, LinkState
<1> QED
  BY <1>2, <1>4, <1>5

\* What a step leaves alone of the other goroutines.
OthersStay(c) == \A b \in Callers : b # c => caller'[b] = caller[b]

\* The moves of Ingest.
LEMMA CallerMoves ==
  ASSUME Records, NEW c \in Callers
  PROVE  /\ Return(c) => /\ OthersStay(c) /\ caller' \in [Callers -> CallerState]
                         /\ caller'[c].step = "idle" /\ caller'[c].victims = {}
         /\ \A x \in {"write", "discard", "abort", "dial"}, d \in 0..MaxLinks :
              Goto(c, x, d) => /\ OthersStay(c) /\ caller' \in [Callers -> CallerState]
                               /\ caller'[c].step = x /\ caller'[c].link = d
                               /\ caller'[c].victims = {}
         /\ \A x \in {"evict", "wait", "connect"}, d \in 0..MaxLinks, v \in SUBSET Links :
              Turn(c, x, d, v) => /\ OthersStay(c) /\ caller' \in [Callers -> CallerState]
                                  /\ caller'[c].step = x /\ caller'[c].link = d
                                  /\ caller'[c].victims = v
<1>1. caller \in [Callers -> CallerState] /\ caller[c] \in CallerState
  BY DEF Records
<1>2. Return(c) => /\ OthersStay(c) /\ caller' \in [Callers -> CallerState]
                   /\ caller'[c].step = "idle" /\ caller'[c].victims = {}
  <2>1. Idle.step = "idle" /\ Idle.victims = {}
    BY DEF Idle
  <2> QED
    BY <1>1, <2>1, Defaults DEF Return, OthersStay
<1>3. ASSUME NEW x \in {"write", "discard", "abort", "dial"}, NEW d \in 0..MaxLinks, Goto(c, x, d)
      PROVE  /\ OthersStay(c) /\ caller' \in [Callers -> CallerState]
             /\ caller'[c].step = x /\ caller'[c].link = d /\ caller'[c].victims = {}
  <2>1. caller'[c] = [step |-> x, link |-> d, victims |-> {}, packet |-> Idle.packet]
    BY <1>1, <1>3 DEF Goto, Idle
  <2>2. caller'[c] \in CallerState
    BY <2>1, Defaults DEF CallerState
  <2> QED
    BY <1>1, <1>3, <2>1, <2>2 DEF Goto, OthersStay
<1>4. ASSUME NEW x \in {"evict", "wait", "connect"}, NEW d \in 0..MaxLinks, NEW v \in SUBSET Links,
             Turn(c, x, d, v)
      PROVE  /\ OthersStay(c) /\ caller' \in [Callers -> CallerState]
             /\ caller'[c].step = x /\ caller'[c].link = d /\ caller'[c].victims = v
  <2>1. caller'[c] = [caller[c] EXCEPT !.step = x, !.link = d, !.victims = v]
    BY <1>1, <1>4 DEF Turn
  <2>2. /\ caller'[c] \in CallerState
        /\ caller'[c].step = x /\ caller'[c].link = d /\ caller'[c].victims = v
    BY <1>1, <2>1 DEF CallerState
  <2> QED
    BY <1>1, <1>4, <2>2 DEF Turn, OthersStay
<1> QED
  BY <1>2, <1>3, <1>4

\* The state of one link changes, and that of no other.
LinkTo(d, x) ==
  /\ \A e \in Links : link'[e].key = link[e].key /\ (e # d => link'[e].state = link[e].state)
  /\ link'[d].state = x

\* A change of state keeps the types.
LEMMA LinkMoves ==
  ASSUME Records, NEW d \in Links, NEW x \in {"failed", "open", "graceful", "closed"},
         link' = [link EXCEPT ![d].state = x]
  PROVE  link' \in [Links -> LinkState] /\ LinkTo(d, x)
<1>1. link \in [Links -> LinkState] /\ link[d] \in LinkState
  BY DEF Records
<1>2. link'[d] = [link[d] EXCEPT !.state = x]
  BY <1>1
<1>3. link'[d] \in LinkState /\ link'[d].key = link[d].key /\ link'[d].state = x
  BY <1>1, <1>2 DEF LinkState
<1> QED
  BY <1>1, <1>3 DEF LinkTo
-----------------------------------------------------------------------------
(* Steps of Ingest that leave the maps and the links alone.                 *)

\* SessionInv, with TypeOK in its parts.
Core ==
  /\ Records /\ Maps /\ Limit
  /\ BoundInv /\ MapsInv /\ DialInv /\ HoldInv /\ LoopInv /\ CloseInv /\ NoLeakedConnection

\* latest is the newest voice connection seen: it only grows, and the maps are
\* empty when it does.
LatestGrows ==
  /\ latest' \in 0..MaxGeneration /\ latest <= latest'
  /\ latest' # latest => DOMAIN conns' = {} /\ DOMAIN dialing' = {}

\* No step but the end of a dial or its begin adds to the maps, and no connection
\* becomes anything else.
Calm ==
  /\ UNCHANGED made /\ LatestGrows
  /\ DOMAIN conns' \subseteq DOMAIN conns /\ \A k \in DOMAIN conns' : conns'[k] = conns[k]
  /\ latest' = latest => dialing' = dialing
  /\ \A d \in Links : /\ link'[d].key = link[d].key
                      /\ link'[d].state = link[d].state \/ (Opened(d) /\ Opened(d)')
  /\ \A c \in Callers : /\ caller'[c].step = "dial" <=> caller[c].step = "dial"
                        /\ caller'[c].step = "dial" => caller'[c].link = caller[c].link

\* What such a step keeps.
LEMMA CalmStep ==
  ASSUME Core, Calm
  PROVE  /\ Maps' /\ Limit' /\ MapsInv' /\ DialInv'
         /\ \A d \in Links : Opened(d)' <=> Opened(d)
<1>1. /\ made' = made /\ latest' \in Nat /\ latest \in Nat /\ latest <= latest'
      /\ latest' # latest => DOMAIN conns' = {} /\ DOMAIN dialing' = {}
      /\ DOMAIN conns' \subseteq DOMAIN conns /\ \A k \in DOMAIN conns' : conns'[k] = conns[k]
      /\ DOMAIN dialing' \subseteq DOMAIN dialing
      /\ \A k \in DOMAIN dialing' : dialing'[k] = dialing[k]
  BY SessionAssumption DEF Calm, LatestGrows, Core, Records
<1>2. \A d \in Links : /\ link'[d].key = link[d].key /\ (Opened(d)' <=> Opened(d))
                       /\ link'[d].state = "none" <=> link[d].state = "none"
                       /\ link'[d].state = "dialing" <=> link[d].state = "dialing"
  BY DEF Calm, Opened
<1>3. Maps'
  BY <1>1, <1>2 DEF Core, Maps
<1>4. /\ IsFiniteSet(DOMAIN conns) /\ IsFiniteSet(DOMAIN dialing)
      /\ \A k \in DOMAIN conns : k[2] = latest
      /\ \A k \in DOMAIN dialing : k[2] = latest
  BY DEF Core, MapsInv
<1>5. /\ IsFiniteSet(DOMAIN conns') /\ IsFiniteSet(DOMAIN dialing')
      /\ Cardinality(DOMAIN conns') <= Cardinality(DOMAIN conns)
      /\ Cardinality(DOMAIN dialing') <= Cardinality(DOMAIN dialing)
  BY <1>1, <1>4, FS_Subset
<1>6. Limit'
  <2>1. /\ Cardinality(DOMAIN conns) \in Nat /\ Cardinality(DOMAIN dialing) \in Nat
        /\ Cardinality(DOMAIN conns') \in Nat /\ Cardinality(DOMAIN dialing') \in Nat
    BY <1>4, <1>5, FS_CardinalityType
  <2> QED
    BY <1>5, <2>1, SessionAssumption DEF Core, Limit
<1>7. MapsInv'
  <2>1. \A k \in DOMAIN conns' \cup DOMAIN dialing' : k[2] = latest'
    BY <1>1, <1>4
  <2>2. ASSUME NEW k \in DOMAIN conns'
        PROVE  link'[conns'[k]].state \in {"open", "graceful", "closed"}
    <3>1. conns'[k] = conns[k] /\ conns[k] \in Links /\ Opened(conns[k])
      BY <1>1 DEF Core, Maps, MapsInv
    <3> QED
      BY <1>2, <3>1 DEF Opened
  <2>3. \A k \in DOMAIN dialing' : link'[dialing'[k]].state = "dialing"
    BY <1>1, <1>2 DEF Core, Maps, MapsInv
  <2>4. DOMAIN conns' \cap DOMAIN dialing' = {}
    BY <1>1 DEF Core, MapsInv
  <2> QED
    BY <1>5, <2>1, <2>2, <2>3, <2>4 DEF MapsInv, Opened
<1>8. DialInv'
  <2>1. \A b \in Callers, d \in Links : Dials(b, d)' <=> Dials(b, d)
    BY DEF Calm, Dials
  <2>2. ASSUME NEW d \in Links
        PROVE  /\ d > made' <=> link'[d].state = "none"
               /\ d <= made' => link'[d].key[2] <= latest'
    <3>1. link[d].key[2] \in Nat
      BY SessionAssumption DEF Core, Records, LinkState, Keys, Generation
    <3>2. /\ d > made <=> link[d].state = "none"
          /\ d <= made => link[d].key[2] <= latest
      BY DEF Core, DialInv
    <3> QED
      BY <1>1, <1>2, <3>1, <3>2
  <2>3. ASSUME NEW d \in Links, link'[d].state = "dialing"
        PROVE  \E b \in Callers : Dials(b, d)'
    BY <1>2, <2>1, <2>3 DEF Core, DialInv
  <2>4. ASSUME NEW b \in Callers, caller'[b].step = "dial"
        PROVE  OwnDial(b, caller[b].link)'
    <3>1. caller[b].step = "dial" /\ caller'[b].link = caller[b].link
      BY <2>4 DEF Calm
    <3>2. OwnDial(b, caller[b].link)
      BY <3>1 DEF Core, DialInv
    <3>3. PICK d \in Links :
            /\ d = caller[b].link /\ link[d].state = "dialing"
            /\ link[d].key[2] = latest => link[d].key \in DOMAIN dialing /\ dialing[link[d].key] = d
            /\ \A a \in Callers : Dials(a, d) => a = b
      BY <3>2 DEF OwnDial
    <3>4. link[d].key[2] <= latest /\ link[d].key[2] \in Nat
      <4>1. d <= made
        BY <3>3, SessionAssumption DEF Core, DialInv, Links, Records
      <4> QED
        BY <4>1, SessionAssumption DEF Core, DialInv, Records, LinkState, Keys, Generation
    <3>5. link[d].key[2] = latest' => latest' = latest /\ dialing' = dialing
      BY <1>1, <3>4 DEF Calm
    <3>6. link'[d].state = "dialing" /\ link'[d].key = link[d].key
      BY <1>2, <3>3
    <3>7. OwnDial(b, d)'
      BY <2>1, <3>3, <3>5, <3>6 DEF OwnDial
    <3> QED
      BY <3>1, <3>3, <3>7 DEF OwnDial, Dials
  <2> QED
    BY <2>2, <2>3, <2>4 DEF DialInv
<1> QED
  BY <1>2, <1>3, <1>6, <1>7, <1>8

\* The goroutine moves on with nothing in its hands, or with a connection.
Quiet(c) ==
  /\ UNCHANGED <<closed, conns, dialing, made, link, loop, closer>>
  /\ terminal' \in BOOLEAN /\ LatestGrows
  /\ OthersStay(c) /\ caller' \in [Callers -> CallerState]
  /\ caller[c].step \in {"idle", "connect", "wait", "write", "evict"} /\ caller[c].victims = {}
  /\ caller'[c].step \in {"idle", "connect", "wait", "write", "discard"}
  /\ caller'[c].victims = {}
  /\ caller'[c].step = "wait" => caller'[c].link \in Links
  /\ caller'[c].step \in {"write", "discard"} =>
       caller'[c].link \in Links /\ Opened(caller'[c].link)

\* Such a step preserves the invariant.
LEMMA QuietStep ==
  ASSUME Core, NEW c \in Callers, Quiet(c), BoundInv'
  PROVE  Core'
<1>1. /\ UNCHANGED <<closed, conns, dialing, made, link, loop, closer>>
      /\ OthersStay(c) /\ LatestGrows /\ latest \in Nat /\ latest' \in Nat
  BY SessionAssumption DEF Quiet, Core, Records, LatestGrows
<1>2. Records'
  BY DEF Quiet, Core, Records, LatestGrows
<1>3. Calm
  BY <1>1 DEF Calm, Quiet, OthersStay
<1>4. Maps' /\ Limit' /\ MapsInv' /\ DialInv'
  BY <1>3, CalmStep
<1>6. HoldInv'
  BY <1>1 DEF Core, HoldInv, Quiet, OthersStay, Opened
<1>7. LoopInv'
  BY <1>1 DEF Core, LoopInv, Opened
<1>8. CloseInv'
  BY <1>1 DEF Core, CloseInv, DialsDone, LoopsDone, Quiet, OthersStay
<1>9. NoLeakedConnection'
  BY <1>1 DEF Core, NoLeakedConnection, Open, Registered, Quiet, OthersStay
<1> QED
  BY <1>2, <1>4, <1>6, <1>7, <1>8, <1>9 DEF Core

\* Fewer goroutines may still need a dial.
LEMMA FewerPending ==
  ASSUME Core, UNCHANGED made, Pending' \subseteq Pending
  PROVE  BoundInv'
<1>1. /\ IsFiniteSet(Pending) /\ made + Cardinality(Pending) <= MaxLinks
      /\ made \in Nat /\ MaxLinks \in Nat
  BY SessionAssumption DEF Core, BoundInv, Records
<1>2. IsFiniteSet(Pending') /\ Cardinality(Pending') <= Cardinality(Pending)
  BY <1>1, FS_Subset
<1>3. Cardinality(Pending) \in Nat /\ Cardinality(Pending') \in Nat
  BY <1>1, <1>2, FS_CardinalityType
<1> QED
  BY <1>1, <1>2, <1>3 DEF BoundInv

\* A goroutine that leaves the loop of connection, or stays in it.
LEMMA PendingMoves ==
  ASSUME NEW c \in Callers, OthersStay(c),
         caller[c].step \in {"connect", "evict", "wait"}
           \/ caller'[c].step \notin {"connect", "evict", "wait"}
  PROVE  Pending' \subseteq Pending
BY DEF Pending, OthersStay

\* A turn of connection that is not refused.
LEMMA TurnLatest ==
  ASSUME Core, NEW c \in Callers, ~Refuses(caller[c].packet)
  PROVE  LET g == GenerationOf(caller[c].packet) IN
         /\ g \in 1..MaxGeneration /\ g \in Nat /\ latest \in Nat /\ latest <= g
         /\ \A k \in DOMAIN conns \cup DOMAIN dialing : k[2] = latest
         /\ ~closed
<1>1. caller[c].packet \in Packets /\ latest \in Nat
  BY SessionAssumption DEF Core, Records, CallerState
<1>2. GenerationOf(caller[c].packet) \in 1..MaxGeneration
  BY <1>1, PacketTyped
<1> QED
  BY <1>1, <1>2, SessionAssumption DEF Core, MapsInv, Refuses

\* A turn that goes on sees a generation that is not older than the maps.
LEMMA SettledLatest ==
  ASSUME Core, NEW c \in Callers, Settled(c)
  PROVE  /\ latest' \in 0..MaxGeneration /\ latest' \in Nat /\ latest <= latest' /\ ~closed
         /\ latest' = GenerationOf(caller[c].packet)
         /\ latest' # latest => DOMAIN conns = {} /\ DOMAIN dialing = {}
         /\ caller[c].step = "connect"
<1>1. /\ caller[c].step = "connect" /\ ~Refuses(caller[c].packet)
      /\ OlderThan(conns, GenerationOf(caller[c].packet)) = {}
      /\ OlderThan(dialing, GenerationOf(caller[c].packet)) = {}
      /\ latest' = GenerationOf(caller[c].packet)
  BY DEF Settled
<1>2. /\ latest' \in 1..MaxGeneration /\ latest' \in Nat /\ latest \in Nat /\ latest <= latest'
      /\ \A k \in DOMAIN conns \cup DOMAIN dialing : k[2] = latest
      /\ ~closed
  BY <1>1, TurnLatest
<1>3. \A k \in DOMAIN conns \cup DOMAIN dialing : ~(k[2] < latest')
  BY <1>1 DEF OlderThan
<1>4. latest' # latest => DOMAIN conns = {} /\ DOMAIN dialing = {}
  <2>1. ASSUME latest' # latest, NEW k \in DOMAIN conns \cup DOMAIN dialing PROVE FALSE
    <3>1. k[2] = latest /\ ~(latest < latest')
      BY <1>2, <1>3
    <3> QED
      BY <1>2, <2>1, <3>1
  <2> QED
    BY <2>1
<1> QED
  BY <1>1, <1>2, <1>4, SessionAssumption

\* The steps of this kind.
LEMMA QuietActions ==
  ASSUME Core, NEW c \in Callers,
         \/ \E p \in PacketsOf[c] : Ingest(c, p)
         \/ ConnectRefused(c) \/ ConnectTerminal(c) \/ ConnectFound(c) \/ ConnectWaits(c)
         \/ ConnectFull(c) \/ WaitEnds(c) \/ WaitExpires(c) \/ WriteSucceeds(c) \/ WriteFails(c)
  PROVE  Core'
<1>1. /\ Records /\ latest \in 0..MaxGeneration /\ latest \in Nat /\ terminal \in BOOLEAN
      /\ HoldInv /\ 0 \in 0..MaxLinks /\ Links \subseteq 0..MaxLinks /\ {} \in SUBSET Links
  BY SessionAssumption DEF Core, Records, Links
<1>2. caller[c].step # "evict" => caller[c].victims = {}
  BY <1>1 DEF HoldInv
<1>3. ASSUME Settled(c), UNCHANGED <<conns, dialing>>
      PROVE  LatestGrows /\ caller[c].step = "connect"
  BY <1>3, SettledLatest DEF LatestGrows
<1>4. UNCHANGED <<latest, conns, dialing>> => LatestGrows
  BY <1>1 DEF LatestGrows
<1>5. ASSUME NEW p \in PacketsOf[c], Ingest(c, p) PROVE Core'
  <2>1. /\ caller[c].step = "idle" /\ UNCHANGED <<sessionVars, link, loop, closer>>
        /\ made + Cardinality(Pending) < MaxLinks
    BY <1>5 DEF Ingest
  <2>2. p \in Packets
    BY DEF Packets
  <2>3. /\ OthersStay(c) /\ caller' \in [Callers -> CallerState]
        /\ caller'[c].step = "connect" /\ caller'[c].victims = {}
    <3> DEFINE in == [Idle EXCEPT !.step = "connect", !.packet = p]
    <3>1. caller' = [caller EXCEPT ![c] = in]
      BY <1>5 DEF Ingest
    <3>2. in \in CallerState /\ in.step = "connect" /\ in.victims = Idle.victims
      BY <2>2, Defaults DEF CallerState
    <3>3. Idle.victims = {} /\ caller \in [Callers -> CallerState]
      BY <1>1 DEF Idle, Records
    <3> HIDE DEF in
    <3> QED
      BY <3>1, <3>2, <3>3 DEF OthersStay
  <2>6. Quiet(c)
    BY <1>1, <1>2, <1>4, <2>1, <2>3 DEF Quiet, sessionVars
  <2>7. BoundInv'
    <3>1. Pending' = Pending \cup {c} /\ c \notin Pending
      BY <2>1, <2>3 DEF Pending, OthersStay
    <3>2. IsFiniteSet(Pending)
      BY DEF Core, BoundInv
    <3>3. IsFiniteSet(Pending') /\ Cardinality(Pending') = Cardinality(Pending) + 1
      BY <3>1, <3>2, FS_AddElement
    <3>4. Cardinality(Pending) \in Nat /\ made \in Nat /\ MaxLinks \in Nat /\ made' = made
      BY <2>1, <3>2, FS_CardinalityType, SessionAssumption DEF Core, Records, sessionVars
    <3> QED
      BY <2>1, <3>3, <3>4 DEF BoundInv
  <2> QED
    BY <2>6, <2>7, QuietStep
<1>6. ASSUME Quiet(c), caller[c].step \in {"connect", "evict", "wait"}
               \/ caller'[c].step \notin {"connect", "evict", "wait"}
      PROVE  Core'
  BY <1>6, FewerPending, PendingMoves, QuietStep DEF Quiet
<1>7. CASE ConnectRefused(c) \/ WaitExpires(c) \/ WriteSucceeds(c)
  <2>1. /\ Return(c) /\ UNCHANGED <<sessionVars, link, loop, closer>>
        /\ caller[c].step \in {"connect", "wait", "write"}
    BY <1>7 DEF ConnectRefused, WaitExpires, WriteSucceeds
  <2>2. Quiet(c) /\ caller'[c].step = "idle"
    BY <1>1, <1>2, <1>4, <2>1, CallerMoves DEF Quiet, sessionVars
  <2> QED
    BY <1>6, <2>2
<1>8. CASE ConnectTerminal(c) \/ ConnectFull(c)
  <2>1. /\ Return(c) /\ UNCHANGED <<closed, terminal, conns, dialing, made, link, loop, closer>>
        /\ Settled(c)
    BY <1>8 DEF ConnectTerminal, ConnectFull, MustDial
  <2>2. Quiet(c) /\ caller'[c].step = "idle"
    BY <1>1, <1>2, <1>3, <2>1, CallerMoves DEF Quiet
  <2> QED
    BY <1>6, <2>2
<1>9. CASE ConnectFound(c)
  <2>1. PICK d \in Links : Goto(c, "write", d) /\ Opened(d)
    BY <1>9 DEF ConnectFound, Core, Maps, MapsInv
  <2>2. Settled(c) /\ UNCHANGED <<closed, terminal, conns, dialing, made, link, loop, closer>>
    BY <1>9 DEF ConnectFound
  <2>3. /\ OthersStay(c) /\ caller' \in [Callers -> CallerState] /\ caller'[c].step = "write"
        /\ caller'[c].link = d /\ caller'[c].victims = {}
    BY <1>1, <2>1, CallerMoves
  <2>4. Quiet(c)
    BY <1>1, <1>2, <1>3, <2>1, <2>2, <2>3 DEF Quiet
  <2> QED
    BY <1>6, <2>3, <2>4
<1>10. CASE ConnectWaits(c)
  <2>1. PICK d \in Links : Turn(c, "wait", d, {})
    BY <1>10 DEF ConnectWaits, Core, Maps
  <2>2. Settled(c) /\ UNCHANGED <<closed, terminal, conns, dialing, made, link, loop, closer>>
    BY <1>10 DEF ConnectWaits, MustDial
  <2>3. /\ OthersStay(c) /\ caller' \in [Callers -> CallerState] /\ caller'[c].step = "wait"
        /\ caller'[c].link = d /\ caller'[c].victims = {}
    BY <1>1, <2>1, CallerMoves
  <2>4. Quiet(c) /\ caller[c].step = "connect"
    BY <1>1, <1>2, <1>3, <2>2, <2>3 DEF Quiet
  <2> QED
    BY <1>6, <2>4
<1>11. CASE WaitEnds(c)
  <2>1. /\ caller[c].step = "wait" /\ (Return(c) \/ Turn(c, "connect", 0, {}))
        /\ UNCHANGED <<sessionVars, link, loop, closer>>
    BY <1>11 DEF WaitEnds
  <2>2. /\ OthersStay(c) /\ caller' \in [Callers -> CallerState]
        /\ caller'[c].step \in {"idle", "connect"} /\ caller'[c].victims = {}
    BY <1>1, <2>1, CallerMoves
  <2>3. Quiet(c)
    BY <1>1, <1>2, <1>4, <2>1, <2>2 DEF Quiet, sessionVars
  <2> QED
    BY <1>6, <2>1, <2>3
<1>12. CASE WriteFails(c)
  <2>1. PICK d \in Links : d = caller[c].link /\ Goto(c, "discard", d) /\ Opened(d)
    BY <1>1, <1>12 DEF WriteFails, HoldInv
  <2>2. caller[c].step = "write" /\ UNCHANGED <<sessionVars, link, loop, closer>>
    BY <1>12 DEF WriteFails
  <2>3. /\ OthersStay(c) /\ caller' \in [Callers -> CallerState] /\ caller'[c].step = "discard"
        /\ caller'[c].link = d /\ caller'[c].victims = {}
    BY <1>1, <2>1, CallerMoves
  <2>4. Quiet(c)
    BY <1>1, <1>2, <1>4, <2>1, <2>2, <2>3 DEF Quiet, sessionVars
  <2> QED
    BY <1>6, <2>3, <2>4
<1> QED
  BY <1>5, <1>7, <1>8, <1>9, <1>10, <1>11, <1>12
-----------------------------------------------------------------------------
(* Steps that take connections out of the map, and steps that abort them.   *)

\* The goroutine takes connections out, and will abort every one of them.
TakesOut(c) ==
  /\ UNCHANGED <<closed, terminal, made, link, loop, closer>> /\ LatestGrows
  /\ latest' = latest => dialing' = dialing
  /\ DOMAIN conns' \subseteq DOMAIN conns /\ \A k \in DOMAIN conns' : conns'[k] = conns[k]
  /\ OthersStay(c) /\ caller' \in [Callers -> CallerState]
  /\ caller[c].step \in {"connect", "discard"} /\ caller'[c].step \in {"evict", "abort"}
  /\ caller'[c].victims \subseteq Registered
  /\ caller'[c].step = "abort" => /\ caller[c].step = "discard" /\ caller'[c].victims = {}
                                  /\ caller'[c].link = caller[c].link
  /\ caller'[c].step = "evict" => caller[c].step = "connect"
  /\ \A d \in Registered : \/ d \in Registered' \/ d \in caller'[c].victims
                           \/ caller'[c].step = "abort" /\ d = caller'[c].link

\* Such a step preserves the invariant.
LEMMA TakesOutStep ==
  ASSUME Core, NEW c \in Callers, TakesOut(c)
  PROVE  Core'
<1>1. /\ UNCHANGED <<closed, terminal, made, link, loop, closer>>
      /\ OthersStay(c) /\ LatestGrows
  BY DEF TakesOut
<1>2. Records'
  BY <1>1 DEF TakesOut, Core, Records, LatestGrows
<1>3. Calm
  BY <1>1 DEF Calm, TakesOut, OthersStay
<1>4. Maps' /\ Limit' /\ MapsInv' /\ DialInv'
  BY <1>3, CalmStep
<1>5. BoundInv'
  <2>1. Pending' \subseteq Pending
    BY <1>1, PendingMoves DEF TakesOut
  <2> QED
    BY <1>1, <2>1, FewerPending
<1>6. HoldInv'
  <2>1. \A d \in Registered : Opened(d)
    BY DEF Core, MapsInv, Registered
  <2>2. \A b \in Callers : b # c => caller'[b] = caller[b]
    BY <1>1 DEF OthersStay
  <2>3. caller[c].step = "discard" => caller[c].link \in Links /\ Opened(caller[c].link)
    BY DEF Core, HoldInv
  <2>4. /\ caller'[c].step \in {"evict", "abort"}
        /\ caller'[c].step = "abort" => /\ caller[c].step = "discard" /\ caller'[c].victims = {}
                                        /\ caller'[c].link = caller[c].link
        /\ caller'[c].victims \subseteq Registered
    BY DEF TakesOut
  <2> QED
    BY <1>1, <2>1, <2>2, <2>3, <2>4 DEF Core, HoldInv, Opened
<1>7. LoopInv'
  BY <1>1 DEF Core, LoopInv, Opened
<1>8. CloseInv'
  <2>1. DialsDone => DialsDone'
    BY <1>1 DEF DialsDone, TakesOut, OthersStay
  <2>2. LoopsDone' <=> LoopsDone
    BY <1>1 DEF LoopsDone
  <2>3. DOMAIN conns = {} => DOMAIN conns' = {}
    BY DEF TakesOut
  <2> QED
    BY <1>1, <2>1, <2>2, <2>3 DEF Core, CloseInv
<1>9. NoLeakedConnection'
  <2>1. caller[c].victims = {} /\ caller[c].step # "abort"
    BY DEF Core, HoldInv, TakesOut
  <2>2. \A b \in Callers : b # c => caller'[b] = caller[b]
    BY <1>1 DEF OthersStay
  <2>3. \A d \in Registered : \/ d \in Registered' \/ d \in caller'[c].victims
                              \/ caller'[c].step = "abort" /\ d = caller'[c].link
    BY DEF TakesOut
  <2> SUFFICES ASSUME NEW d \in Links, Open(d)'
               PROVE  \/ d \in Registered' \/ d \in closer'.todo
                      \/ \E b \in Callers : d \in caller'[b].victims
                                            \/ (caller'[b].step = "abort" /\ caller'[b].link = d)
                      \/ \E l \in Loops : loop'[d][l] = "abort"
    BY DEF NoLeakedConnection
  <2>4. \/ d \in Registered \/ d \in closer.todo
        \/ \E b \in Callers : d \in caller[b].victims
                              \/ (caller[b].step = "abort" /\ caller[b].link = d)
        \/ \E l \in Loops : loop[d][l] = "abort"
    BY <1>1 DEF Core, NoLeakedConnection, Open
  <2>5. CASE d \in Registered
    BY <2>3, <2>5
  <2>6. CASE \E b \in Callers : d \in caller[b].victims
                                \/ (caller[b].step = "abort" /\ caller[b].link = d)
    BY <2>1, <2>2, <2>6
  <2> QED
    BY <1>1, <2>4, <2>5, <2>6
<1> QED
  BY <1>2, <1>4, <1>5, <1>6, <1>7, <1>8, <1>9 DEF Core

\* A newer voice connection was seen.
LEMMA EvictOlderStep ==
  ASSUME Core, NEW c \in Callers, EvictOlder(c)
  PROVE  Core'
<1> DEFINE g == GenerationOf(caller[c].packet)
<1>1. /\ caller[c].step = "connect" /\ ~Refuses(caller[c].packet)
      /\ OlderThan(conns, g) \cup OlderThan(dialing, g) # {}
      /\ latest' = g /\ conns' = Without(conns, OlderThan(conns, g))
      /\ dialing' = Without(dialing, OlderThan(dialing, g))
      /\ Turn(c, "evict", 0, {conns[k] : k \in OlderThan(conns, g)})
      /\ UNCHANGED <<closed, terminal, made, link, loop, closer>>
  BY DEF EvictOlder
<1>2. /\ g \in 0..MaxGeneration /\ g \in Nat /\ latest \in Nat /\ latest <= g
      /\ \A k \in DOMAIN conns \cup DOMAIN dialing : k[2] = latest
  BY <1>1, TurnLatest, SessionAssumption
<1> HIDE DEF g
<1>3. latest < g
  BY <1>1, <1>2 DEF OlderThan
<1>4. OlderThan(conns, g) = DOMAIN conns /\ OlderThan(dialing, g) = DOMAIN dialing
  BY <1>2, <1>3 DEF OlderThan
<1>5. DOMAIN conns' = {} /\ DOMAIN dialing' = {}
  BY <1>1, <1>4 DEF Without
<1>6. LatestGrows /\ latest' # latest
  BY <1>1, <1>2, <1>3, <1>5 DEF LatestGrows
<1>7. {conns[k] : k \in OlderThan(conns, g)} = Registered /\ Registered \subseteq Links
  BY <1>4 DEF Registered, Core, Maps
<1>8. /\ OthersStay(c) /\ caller' \in [Callers -> CallerState] /\ caller'[c].step = "evict"
      /\ caller'[c].victims = Registered
  <2>1. Turn(c, "evict", 0, Registered)
    BY <1>1, <1>7
  <2> QED
    BY <1>7, <2>1, CallerMoves, SessionAssumption DEF Core
<1>9. TakesOut(c)
  BY <1>1, <1>5, <1>6, <1>8 DEF TakesOut
<1> QED
  BY <1>9, TakesOutStep

\* A speaker comes back under another key.
LEMMA EvictSameStep ==
  ASSUME Core, NEW c \in Callers, EvictSame(c)
  PROVE  Core'
<1> DEFINE same == SameSpeaker(caller[c].packet)
<1>1. /\ Settled(c) /\ conns' = Without(conns, same)
      /\ Turn(c, "evict", 0, {conns[k] : k \in same})
      /\ UNCHANGED <<closed, terminal, dialing, made, link, loop, closer>>
  BY DEF EvictSame
<1>2. same \subseteq DOMAIN conns
  BY DEF SameSpeaker
<1> HIDE DEF same
<1>3. /\ DOMAIN conns' = DOMAIN conns \ same
      /\ \A k \in DOMAIN conns' : conns'[k] = conns[k]
  BY <1>1 DEF Without
<1>4. {conns[k] : k \in same} \subseteq Registered /\ Registered \subseteq Links
  BY <1>2 DEF Registered, Core, Maps
<1>5. /\ OthersStay(c) /\ caller' \in [Callers -> CallerState] /\ caller'[c].step = "evict"
      /\ caller'[c].victims = {conns[k] : k \in same}
  <2>1. {conns[k] : k \in same} \in SUBSET Links /\ 0 \in 0..MaxLinks /\ Records
    BY <1>4, SessionAssumption DEF Core
  <2> HIDE DEF same
  <2> QED
    BY <1>1, <2>1, CallerMoves
<1>6. LatestGrows /\ caller[c].step = "connect"
  <2>1. /\ latest' \in 0..MaxGeneration /\ latest <= latest' /\ caller[c].step = "connect"
        /\ latest' # latest => DOMAIN conns = {} /\ DOMAIN dialing = {}
    BY <1>1, SettledLatest
  <2> QED
    BY <1>1, <1>3, <2>1 DEF LatestGrows
<1>7. \A d \in Registered : d \in Registered' \/ d \in {conns[k] : k \in same}
  <2> TAKE d \in Registered
  <2>1. PICK k \in DOMAIN conns : d = conns[k]
    BY DEF Registered
  <2> QED
    BY <1>3, <2>1 DEF Registered
<1>8. TakesOut(c)
  BY <1>1, <1>3, <1>4, <1>5, <1>6, <1>7 DEF TakesOut
<1> QED
  BY <1>8, TakesOutStep

\* A connection is taken out of the map, unless it has left it already.
LEMMA RemovedOne ==
  ASSUME Core, NEW d \in Links, conns' = Removed(d)
  PROVE  /\ DOMAIN conns' \subseteq DOMAIN conns /\ \A k \in DOMAIN conns' : conns'[k] = conns[k]
         /\ \A e \in Registered : e \in Registered' \/ e = d
<1> DEFINE out == {k \in DOMAIN conns : k = link[d].key /\ conns[k] = d}
<1>1. conns' = Without(conns, out)
  BY DEF Removed
<1>2. /\ DOMAIN conns' = DOMAIN conns \ out /\ \A k \in DOMAIN conns' : conns'[k] = conns[k]
  BY <1>1 DEF Without
<1>3. ASSUME NEW e \in Registered PROVE e \in Registered' \/ e = d
  <2>1. PICK k \in DOMAIN conns : e = conns[k]
    BY DEF Registered
  <2> QED
    BY <1>2, <2>1 DEF Registered
<1> QED
  BY <1>2, <1>3

\* A write failed: the connection is taken out, to be aborted.
LEMMA IngestDiscardsStep ==
  ASSUME Core, NEW c \in Callers, IngestDiscards(c)
  PROVE  Core'
<1>1. PICK d \in Links : d = caller[c].link /\ caller[c].step = "discard"
  BY DEF IngestDiscards, Core, HoldInv
<1>2. /\ conns' = Removed(d) /\ Goto(c, "abort", d)
      /\ UNCHANGED <<closed, latest, terminal, dialing, made, link, loop, closer>>
  BY <1>1 DEF IngestDiscards
<1>3. /\ OthersStay(c) /\ caller' \in [Callers -> CallerState] /\ caller'[c].step = "abort"
      /\ caller'[c].link = d /\ caller'[c].victims = {}
  <2>1. d \in 0..MaxLinks
    BY SessionAssumption DEF Links
  <2> QED
    BY <1>2, <2>1, CallerMoves DEF Core
<1>4. LatestGrows
  BY <1>2, SessionAssumption DEF LatestGrows, Core, Records
<1>5. TakesOut(c)
  BY <1>1, <1>2, <1>3, <1>4, RemovedOne DEF TakesOut
<1> QED
  BY <1>5, TakesOutStep

\* The goroutine aborts a connection it took out.
Aborts(c, d) ==
  /\ link' = [link EXCEPT ![d].state = "closed"] /\ Opened(d)
  /\ UNCHANGED <<sessionVars, loop, closer>>
  /\ OthersStay(c) /\ caller' \in [Callers -> CallerState]
  /\ caller'[c].victims = caller[c].victims \ {d}
  /\ \/ caller[c].step = "evict" /\ caller'[c].step = "evict"
     \/ caller[c].step = "abort" /\ caller'[c].step = "idle" /\ caller[c].link = d

\* Such a step preserves the invariant.
LEMMA AbortsStep ==
  ASSUME Core, NEW c \in Callers, NEW d \in Links, Aborts(c, d)
  PROVE  Core'
<1>1. /\ UNCHANGED <<closed, latest, terminal, conns, dialing, made, loop, closer>>
      /\ OthersStay(c) /\ \A b \in Callers : b # c => caller'[b] = caller[b]
      /\ Opened(d)
  BY DEF Aborts, sessionVars, OthersStay
<1>2. link' \in [Links -> LinkState] /\ LinkTo(d, "closed")
  BY LinkMoves DEF Aborts, Core
<1>3. Records'
  BY <1>1, <1>2 DEF Aborts, Core, Records
<1>4. LatestGrows
  BY <1>1, SessionAssumption DEF LatestGrows, Core, Records
<1>5. Calm
  BY <1>1, <1>2, <1>4 DEF Calm, Aborts, LinkTo, Opened
<1>6. /\ Maps' /\ Limit' /\ MapsInv' /\ DialInv' /\ \A e \in Links : Opened(e)' <=> Opened(e)
  BY <1>5, CalmStep
<1>7. BoundInv'
  <2>1. Pending' \subseteq Pending
    BY <1>1, PendingMoves DEF Aborts
  <2> QED
    BY <1>1, <2>1, FewerPending
<1>8. HoldInv'
  <2>1. caller[c].victims \subseteq Links /\ closer.todo \subseteq Links
        /\ \A b \in Callers : caller[b].victims \subseteq Links
    BY DEF Core, Records, CallerState, CloserState
  <2>2. \A b \in Callers : caller'[b].victims # {} => caller'[b].step = "evict"
    BY <1>1 DEF Core, HoldInv, Aborts
  <2>3. \A b \in Callers, e \in Links : e \in caller'[b].victims => Opened(e)
    BY <1>1 DEF Core, HoldInv, Aborts
  <2>4. \A b \in Callers : caller'[b].step = "wait" => caller'[b].link \in Links
    BY <1>1 DEF Core, HoldInv, Aborts
  <2>5. \A b \in Callers : caller'[b].step \in {"write", "discard", "abort"} =>
            caller'[b].link \in Links /\ Opened(caller'[b].link)
    BY <1>1 DEF Core, HoldInv, Aborts
  <2>6. \A b \in Callers : caller'[b].victims \subseteq Links
    BY <1>1, <2>1 DEF Aborts
  <2>7. \A e \in closer'.todo : e \in Links /\ Opened(e)
    BY <1>1, <2>1 DEF Core, HoldInv
  <2>8. \A e \in Links : link'[e].state \in {"open", "graceful", "closed"} <=> Opened(e)
    BY <1>6 DEF Opened
  <2> QED
    BY <2>2, <2>3, <2>4, <2>5, <2>6, <2>7, <2>8 DEF HoldInv, Opened
<1>9. LoopInv'
  BY <1>1, <1>2, <1>6 DEF Core, LoopInv, LinkTo
<1>10. CloseInv'
  BY <1>1 DEF Core, CloseInv, DialsDone, LoopsDone, Aborts
<1>11. NoLeakedConnection'
  BY <1>1, <1>2 DEF Core, NoLeakedConnection, Open, Registered, LinkTo, Aborts
<1> QED
  BY <1>3, <1>6, <1>7, <1>8, <1>9, <1>10, <1>11 DEF Core

\* Evict and IngestAborts are such steps, and the end of Evict is the next turn.
LEMMA AbortingSteps ==
  ASSUME Core, NEW c \in Callers, Evict(c) \/ IngestAborts(c)
  PROVE  Core'
<1>1. Records /\ 0 \in 0..MaxLinks /\ caller[c].victims \subseteq Links
  BY SessionAssumption DEF Core, Records, CallerState
<1>2. ASSUME NEW d \in caller[c].victims, caller[c].step = "evict",
             link' = [link EXCEPT ![d].state = "closed"],
             Turn(c, "evict", 0, caller[c].victims \ {d}),
             UNCHANGED <<sessionVars, loop, closer>>
      PROVE  Core'
  <2>1. caller[c].victims \ {d} \in SUBSET Links /\ d \in Links /\ Opened(d)
    BY <1>1 DEF Core, HoldInv
  <2>2. /\ OthersStay(c) /\ caller' \in [Callers -> CallerState]
        /\ caller'[c].step = "evict" /\ caller'[c].victims = caller[c].victims \ {d}
    BY <1>1, <1>2, <2>1, CallerMoves
  <2>3. Aborts(c, d)
    BY <1>2, <2>1, <2>2 DEF Aborts
  <2> QED
    BY <2>1, <2>3, AbortsStep
<1>3. ASSUME caller[c].step = "evict", caller[c].victims = {}, Turn(c, "connect", 0, {}),
             UNCHANGED <<sessionVars, link, loop, closer>>
      PROVE  Core'
  <2>1. /\ OthersStay(c) /\ caller' \in [Callers -> CallerState]
        /\ caller'[c].step = "connect" /\ caller'[c].victims = {}
    BY <1>1, <1>3, CallerMoves
  <2>2. LatestGrows
    BY <1>3, SessionAssumption DEF LatestGrows, Core, Records, sessionVars
  <2>3. Quiet(c)
    BY <1>3, <2>1, <2>2 DEF Quiet, sessionVars, Core, Records
  <2>4. Pending' \subseteq Pending
    BY <1>3, <2>1, PendingMoves
  <2>5. BoundInv'
    BY <1>3, <2>4, FewerPending DEF sessionVars
  <2> QED
    BY <2>3, <2>5, QuietStep
<1>4. CASE IngestAborts(c)
  <2>1. PICK d \in Links : d = caller[c].link /\ Opened(d) /\ caller[c].victims = {}
    BY <1>4 DEF IngestAborts, Core, HoldInv
  <2>2. /\ caller[c].step = "abort" /\ link' = [link EXCEPT ![d].state = "closed"] /\ Return(c)
        /\ UNCHANGED <<sessionVars, loop, closer>>
    BY <1>4, <2>1 DEF IngestAborts
  <2>3. /\ OthersStay(c) /\ caller' \in [Callers -> CallerState]
        /\ caller'[c].step = "idle" /\ caller'[c].victims = {}
    BY <1>1, <2>2, CallerMoves
  <2>4. Aborts(c, d)
    BY <2>1, <2>2, <2>3 DEF Aborts
  <2> QED
    BY <2>4, AbortsStep
<1> QED
  BY <1>2, <1>3, <1>4 DEF Evict
-----------------------------------------------------------------------------
(* Steps of the loops of a connection, and of Close.                        *)

\* One loop of one connection moves.
LoopTo(d, l, x) ==
  /\ loop' \in [Links -> [Loops -> LoopSteps]] /\ loop'[d][l] = x
  /\ \A e \in Links, m \in Loops : e # d \/ m # l => loop'[e][m] = loop[e][m]

\* That is what the actions assign.
LEMMA LoopMoves ==
  ASSUME Records, NEW d \in Links, NEW l \in Loops, NEW x \in {"discard", "abort", "done"},
         loop' = [loop EXCEPT ![d][l] = x]
  PROVE  LoopTo(d, l, x)
<1>1. loop \in [Links -> [Loops -> LoopSteps]]
  BY DEF Records
<1> QED
  BY <1>1 DEF LoopTo, LoopSteps

\* A step that leaves Ingest alone, and the dials with it.
Aside ==
  /\ UNCHANGED <<latest, terminal, dialing, made, caller>>
  /\ DOMAIN conns' \subseteq DOMAIN conns /\ \A k \in DOMAIN conns' : conns'[k] = conns[k]
  /\ closed' \in BOOLEAN /\ closer' \in CloserState
  /\ link' \in [Links -> LinkState] /\ loop' \in [Links -> [Loops -> LoopSteps]]
  /\ \A d \in Links : /\ link'[d].key = link[d].key
                      /\ link'[d].state = link[d].state \/ (Opened(d) /\ Opened(d)')
  /\ \A d \in closer'.todo : d \in Links /\ Opened(d)

\* What such a step keeps.
LEMMA AsideStep ==
  ASSUME Core, Aside
  PROVE  /\ Records' /\ Maps' /\ Limit' /\ BoundInv' /\ MapsInv' /\ DialInv' /\ HoldInv'
         /\ \A d \in Links : Opened(d)' <=> Opened(d)
         /\ DialsDone' <=> DialsDone
<1>1. /\ UNCHANGED <<latest, terminal, dialing, made, caller>>
  BY DEF Aside
<1>2. LatestGrows
  BY <1>1, SessionAssumption DEF LatestGrows, Core, Records
<1>3. Calm
  BY <1>1, <1>2 DEF Calm, Aside
<1>4. /\ Maps' /\ Limit' /\ MapsInv' /\ DialInv' /\ \A d \in Links : Opened(d)' <=> Opened(d)
  BY <1>3, CalmStep
<1>5. Records'
  BY <1>1 DEF Aside, Core, Records
<1>6. BoundInv'
  BY <1>1 DEF Core, BoundInv, Pending
<1>7. HoldInv'
  <2>1. \A b \in Callers : caller[b].victims \subseteq Links
    BY DEF Core, Records, CallerState
  <2>2. \A e \in Links : link'[e].state \in {"open", "graceful", "closed"} <=> Opened(e)
    BY <1>4 DEF Opened
  <2>3. \A e \in closer'.todo : e \in Links /\ Opened(e)
    BY DEF Aside
  <2>4. ASSUME NEW b \in Callers
        PROVE  /\ caller'[b].victims # {} => caller'[b].step = "evict"
               /\ \A d \in caller'[b].victims : d \in Links /\ Opened(d)
               /\ caller'[b].step = "wait" => caller'[b].link \in Links
               /\ caller'[b].step \in {"write", "discard", "abort"} =>
                    caller'[b].link \in Links /\ Opened(caller'[b].link)
    BY <1>1, <2>1 DEF Core, HoldInv
  <2> QED
    BY <2>2, <2>3, <2>4 DEF HoldInv, Opened
<1>8. DialsDone' <=> DialsDone
  BY <1>1 DEF DialsDone
<1> QED
  BY <1>4, <1>5, <1>6, <1>7, <1>8

\* The loops.
LEMMA LoopStep ==
  ASSUME Core, NEW d \in Links, NEW l \in Loops, LoopGivesUp(d, l) \/ LoopEnds(d, l)
  PROVE  Core'
<1>1. /\ Records /\ closer \in CloserState /\ closed \in BOOLEAN /\ link \in [Links -> LinkState]
      /\ \A e \in closer.todo : e \in Links /\ Opened(e)
  BY DEF Core, Records, HoldInv, CloserState
<1>2. PICK x \in {"discard", "abort", "done"} : loop' = [loop EXCEPT ![d][l] = x]
  BY DEF LoopGivesUp, LoopEnds, LoopCancelled, LoopDiscards, LoopAborts
<1>3. LoopTo(d, l, x)
  BY <1>1, <1>2, LoopMoves
<1>4. loop[d][l] \in {"run", "discard", "abort"} /\ Opened(d) /\ ~LoopsDone
  <2>1. loop[d][l] \in {"run", "discard", "abort"}
    BY DEF LoopGivesUp, LoopEnds, LoopCancelled, LoopDiscards, LoopAborts
  <2> QED
    BY <2>1 DEF Core, LoopInv, LoopsDone
<1>5. UNCHANGED <<closed, latest, terminal, dialing, made, caller, closer>>
  BY DEF LoopGivesUp, LoopEnds, LoopCancelled, LoopDiscards, LoopAborts, sessionVars
<1>6. \/ UNCHANGED link /\ (l = "read" => x # "done")
      \/ /\ link' = [link EXCEPT ![d].state = "closed"] /\ link' \in [Links -> LinkState]
         /\ LinkTo(d, "closed")
  <2>1. CASE LoopAborts(d, l)
    BY <1>1, <2>1, LinkMoves DEF LoopAborts
  <2>2. loop[d][l] # "done" /\ loop \in [Links -> [Loops -> LoopSteps]]
    BY <1>1, <1>4 DEF Records
  <2>3. CASE LoopGivesUp(d, l) \/ LoopCancelled(d, l) \/ LoopDiscards(d, l)
    <3>1. UNCHANGED link
      BY <2>3 DEF LoopGivesUp, LoopCancelled, LoopDiscards
    <3>2. ASSUME l = "read" PROVE loop'[d][l] # "done"
      BY <2>2, <2>3, <3>2 DEF LoopGivesUp, LoopCancelled, LoopDiscards
    <3> QED
      BY <1>3, <3>1, <3>2 DEF LoopTo
  <2> QED
    BY <2>1, <2>3 DEF LoopEnds
<1>7. \/ UNCHANGED conns
      \/ conns' = Removed(d) /\ loop'[d][l] = "abort"
  <2>1. CASE LoopDiscards(d, l)
    <3>1. loop \in [Links -> [Loops -> LoopSteps]]
      BY <1>1 DEF Records
    <3> QED
      BY <2>1, <3>1 DEF LoopDiscards
  <2>2. CASE LoopGivesUp(d, l) \/ LoopCancelled(d, l) \/ LoopAborts(d, l)
    BY <2>2 DEF LoopGivesUp, LoopCancelled, LoopAborts, sessionVars
  <2> QED
    BY <2>1, <2>2 DEF LoopEnds
<1>8. /\ DOMAIN conns' \subseteq DOMAIN conns /\ \A k \in DOMAIN conns' : conns'[k] = conns[k]
      /\ \A e \in Registered : e \in Registered' \/ (e = d /\ loop'[d][l] = "abort")
  <2>1. CASE UNCHANGED conns
    <3>1. Registered' = Registered
      BY <2>1 DEF Registered
    <3> QED
      BY <2>1, <3>1
  <2> QED
    BY <1>7, <2>1, RemovedOne
<1>9. Aside
  <2>1. \A e \in Links : /\ link'[e].key = link[e].key
                         /\ link'[e].state = link[e].state \/ (Opened(e) /\ Opened(e)')
    BY <1>4, <1>6 DEF LinkTo, Opened
  <2> QED
    BY <1>1, <1>3, <1>5, <1>6, <1>8, <2>1 DEF Aside, LoopTo
<1>10. /\ Records' /\ Maps' /\ Limit' /\ BoundInv' /\ MapsInv' /\ DialInv' /\ HoldInv'
       /\ \A e \in Links : Opened(e)' <=> Opened(e)
       /\ DialsDone' <=> DialsDone
  BY <1>9, AsideStep
<1>11. LoopInv'
  <2>1. \A e \in Links, m \in Loops : loop'[e][m] # "off" <=> loop[e][m] # "off"
    BY <1>3, <1>4 DEF LoopTo
  <2>2. ASSUME NEW e \in Links, loop'[e]["read"] = "done" PROVE link'[e].state = "closed"
    <3>1. CASE e = d /\ l = "read"
      BY <1>3, <1>6, <2>2, <3>1 DEF LoopTo, LinkTo
    <3>2. CASE ~(e = d /\ l = "read")
      <4>1. loop[e]["read"] = "done"
        BY <1>3, <2>2, <3>2, SessionAssumption DEF LoopTo
      <4>2. link[e].state = "closed"
        BY <4>1 DEF Core, LoopInv
      <4> QED
        BY <1>6, <4>2 DEF LinkTo
    <3> QED
      BY <3>1, <3>2
  <2> QED
    BY <1>10, <2>1, <2>2, SessionAssumption DEF Core, LoopInv
<1>12. CloseInv'
  BY <1>4, <1>5, <1>8, <1>10 DEF Core, CloseInv
<1>13. NoLeakedConnection'
  <2> SUFFICES ASSUME NEW e \in Links, Open(e)'
               PROVE  \/ e \in Registered' \/ e \in closer'.todo
                      \/ \E b \in Callers : e \in caller'[b].victims
                                            \/ (caller'[b].step = "abort" /\ caller'[b].link = e)
                      \/ \E m \in Loops : loop'[e][m] = "abort"
    BY DEF NoLeakedConnection
  <2>1. Open(e)
    BY <1>6 DEF Open, LinkTo
  <2>2. \/ e \in Registered \/ e \in closer.todo
        \/ \E b \in Callers : e \in caller[b].victims
                              \/ (caller[b].step = "abort" /\ caller[b].link = e)
        \/ \E m \in Loops : loop[e][m] = "abort"
    BY <2>1 DEF Core, NoLeakedConnection
  <2>3. CASE \E m \in Loops : loop[e][m] = "abort"
    <3>1. PICK m \in Loops : loop[e][m] = "abort"
      BY <2>3
    <3>2. CASE e = d /\ m = l
      <4>1. LoopAborts(d, l)
        BY <3>1, <3>2 DEF LoopGivesUp, LoopEnds, LoopCancelled, LoopDiscards
      <4>2. link'[d].state = "closed"
        BY <1>1, <4>1, LinkMoves DEF LoopAborts, LinkTo
      <4> QED
        BY <3>2, <4>2 DEF Open
    <3> QED
      BY <1>3, <3>1, <3>2 DEF LoopTo
  <2> QED
    BY <1>5, <1>8, <2>2, <2>3
<1> QED
  BY <1>10, <1>11, <1>12, <1>13 DEF Core

\* Close takes all connections out.
LEMMA CloseBeginsStep ==
  ASSUME Core, CloseBegins
  PROVE  Core'
<1>1. /\ closer.step = "none" /\ closed' = TRUE /\ conns' = Without(conns, DOMAIN conns)
      /\ closer' = [step |-> "dials", todo |-> Registered]
      /\ UNCHANGED <<latest, terminal, dialing, made, link, loop, caller>>
  BY DEF CloseBegins
<1>2. DOMAIN conns' = {}
  BY <1>1 DEF Without
<1>3. \A d \in Registered : d \in Links /\ Opened(d)
  BY DEF Core, Maps, MapsInv, Registered
<1>4. closer'.step = "dials" /\ closer'.todo = Registered /\ closer' \in CloserState
  BY <1>1, <1>3 DEF CloserState
<1>5. Aside
  BY <1>1, <1>2, <1>3, <1>4 DEF Aside, Core, Records
<1>6. /\ Records' /\ Maps' /\ Limit' /\ BoundInv' /\ MapsInv' /\ DialInv' /\ HoldInv'
      /\ \A e \in Links : Opened(e)' <=> Opened(e)
  BY <1>5, AsideStep
<1>7. LoopInv'
  BY <1>1 DEF Core, LoopInv, Opened
<1>8. CloseInv'
  BY <1>1, <1>2, <1>4 DEF CloseInv
<1>9. NoLeakedConnection'
  <2>1. closer.todo = {}
    BY <1>1 DEF Core, CloseInv
  <2> QED
    BY <1>1, <1>4, <2>1 DEF Core, NoLeakedConnection, Open
<1> QED
  BY <1>6, <1>7, <1>8, <1>9 DEF Core

\* The graceful close of a connection.
LEMMA GracefulStep ==
  ASSUME Core, NEW d \in Links, GracefulBegins(d) \/ GracefulEnds(d)
  PROVE  Core'
<1>1. PICK x \in {"graceful", "closed"} :
        /\ link' = [link EXCEPT ![d].state = x]
        /\ x = "graceful" => link[d].state = "open" /\ UNCHANGED closer
        /\ x = "closed" => closer' = [closer EXCEPT !.todo = @ \ {d}]
  BY DEF GracefulBegins, GracefulEnds
<1>2. UNCHANGED <<closed, latest, terminal, conns, dialing, made, loop, caller>>
  BY DEF GracefulBegins, GracefulEnds, sessionVars
<1>3. link' \in [Links -> LinkState] /\ LinkTo(d, x) /\ closer \in CloserState
  BY <1>1, LinkMoves DEF Core, Records
<1>4. /\ closer' \in CloserState /\ closer'.step = closer.step
      /\ closer'.todo \subseteq closer.todo
      /\ x = "graceful" => closer'.todo = closer.todo
      /\ \A e \in closer.todo : e # d => e \in closer'.todo
  BY <1>1, <1>3 DEF CloserState
<1>5. Opened(d) /\ \A e \in closer.todo : e \in Links /\ Opened(e)
  BY DEF GracefulBegins, GracefulEnds, Opened, Core, HoldInv, Records, CloserState
<1>6. Aside
  <2>1. \A e \in Links : /\ link'[e].key = link[e].key
                         /\ link'[e].state = link[e].state \/ (Opened(e) /\ Opened(e)')
    BY <1>3, <1>5 DEF LinkTo, Opened
  <2> QED
    BY <1>2, <1>3, <1>4, <1>5, <2>1 DEF Aside, Core, Records
<1>7. /\ Records' /\ Maps' /\ Limit' /\ BoundInv' /\ MapsInv' /\ DialInv' /\ HoldInv'
      /\ \A e \in Links : Opened(e)' <=> Opened(e)
      /\ DialsDone' <=> DialsDone
  BY <1>6, AsideStep
<1>8. LoopInv'
  <2>1. \A e \in Links : link[e].state = "closed" => link'[e].state = "closed"
    BY <1>1, <1>3 DEF LinkTo
  <2> QED
    BY <1>2, <1>7, <2>1 DEF Core, LoopInv
<1>9. CloseInv'
  <2>1. LoopsDone' <=> LoopsDone
    BY <1>2 DEF LoopsDone
  <2> QED
    BY <1>2, <1>4, <1>7, <2>1 DEF Core, CloseInv
<1>10. NoLeakedConnection'
  <2>1. \A e \in Links : Open(e)' => Open(e) /\ e # d
    BY <1>1, <1>3 DEF LinkTo, Open
  <2>2. Registered' = Registered
    BY <1>2 DEF Registered
  <2> QED
    BY <1>2, <1>4, <2>1, <2>2 DEF Core, NoLeakedConnection
<1> QED
  BY <1>7, <1>8, <1>9, <1>10 DEF Core

\* Close waits for its groups.
LEMMA CloseWaitsStep ==
  ASSUME Core, CloseWaits
  PROVE  Core'
<1>1. UNCHANGED <<closed, latest, terminal, conns, dialing, made, link, loop, caller>>
  BY DEF CloseWaits, sessionVars
<1>2. closer \in CloserState
  BY DEF Core, Records
<1>3. /\ closer' \in CloserState /\ closer'.todo = closer.todo
      /\ \/ closer.step = "dials" /\ DialsDone /\ closer'.step = "closes"
         \/ closer.step = "closes" /\ closer.todo = {} /\ closer'.step = "loops"
         \/ closer.step = "loops" /\ LoopsDone /\ closer'.step = "done"
  BY <1>2 DEF CloseWaits, CloserState
<1>4. Aside
  BY <1>1, <1>3 DEF Aside, Core, Records, HoldInv, CloserState
<1>5. /\ Records' /\ Maps' /\ Limit' /\ BoundInv' /\ MapsInv' /\ DialInv' /\ HoldInv'
      /\ DialsDone' <=> DialsDone
  BY <1>4, AsideStep
<1>6. LoopInv'
  BY <1>1 DEF Core, LoopInv, Opened
<1>7. CloseInv'
  <2>1. LoopsDone' <=> LoopsDone
    BY <1>1 DEF LoopsDone
  <2> QED
    BY <1>1, <1>3, <1>5, <2>1 DEF Core, CloseInv
<1>8. NoLeakedConnection'
  BY <1>1, <1>3 DEF Core, NoLeakedConnection, Open, Registered
<1> QED
  BY <1>5, <1>6, <1>7, <1>8 DEF Core
-----------------------------------------------------------------------------
(* The dial of a connection.                                                *)

\* A dial begins: a new link, registered under the key of the packet.
LEMMA DialBeginsStep ==
  ASSUME Core, NEW c \in Callers, DialBegins(c)
  PROVE  Core'
<1> DEFINE p == caller[c].packet
<1> DEFINE k == KeyFor(p)
<1>1. /\ Settled(c) /\ k \notin DOMAIN conns /\ k \notin DOMAIN dialing /\ ~Full
      /\ made' = made + 1 /\ dialing' = With(dialing, k, made + 1)
      /\ link' = [link EXCEPT ![made + 1] = [key |-> k, ssrc |-> SSRCOf(p), state |-> "dialing"]]
      /\ Goto(c, "dial", made + 1)
      /\ UNCHANGED <<closed, terminal, conns, loop, closer>>
  BY DEF DialBegins, MustDial
<1>2. /\ latest' \in 0..MaxGeneration /\ latest' \in Nat /\ latest \in Nat /\ latest <= latest'
      /\ ~closed /\ caller[c].step = "connect"
      /\ latest' # latest => DOMAIN conns = {} /\ DOMAIN dialing = {}
      /\ k \in Keys /\ k[2] = latest' /\ SSRCOf(p) \in SSRCs
  <2>1. p \in Packets /\ latest \in Nat
    BY SessionAssumption DEF Core, Records, CallerState
  <2>2. /\ k \in Keys /\ k[2] = GenerationOf(p) /\ SSRCOf(p) \in SSRCs
    BY <2>1, PacketTyped
  <2> QED
    BY <1>1, <2>1, <2>2, SettledLatest
<1> HIDE DEF k, p
<1>3. /\ made \in Nat /\ made + 1 \in Links /\ MaxLinks \in Nat
      /\ \A d \in Links : d \in Nat
  <2>1. c \in Pending /\ IsFiniteSet(Pending) /\ made + Cardinality(Pending) <= MaxLinks
    BY <1>2 DEF Core, BoundInv, Pending
  <2>2. Cardinality(Pending) \in Nat /\ Cardinality(Pending) # 0
    BY <2>1, FS_CardinalityType, FS_EmptySet
  <2> QED
    BY <2>1, <2>2, SessionAssumption DEF Links, Core, Records
<1>4. PICK d \in Links : d = made + 1
  BY <1>3
<1>5. /\ OthersStay(c) /\ caller' \in [Callers -> CallerState] /\ caller'[c].step = "dial"
      /\ caller'[c].link = d /\ caller'[c].victims = {}
      /\ \A b \in Callers : b # c => caller'[b] = caller[b]
  <2>1. d \in 0..MaxLinks
    BY SessionAssumption DEF Links
  <2> QED
    BY <1>1, <1>4, <2>1, CallerMoves DEF Core, OthersStay
<1>6. /\ link \in [Links -> LinkState] /\ link' \in [Links -> LinkState]
      /\ link'[d].key = k /\ link'[d].state = "dialing"
      /\ \A e \in Links : e # d => link'[e] = link[e]
  <2>1. link \in [Links -> LinkState]
    BY DEF Core, Records
  <2>2. [key |-> k, ssrc |-> SSRCOf(p), state |-> "dialing"] \in LinkState
    BY <1>2 DEF LinkState
  <2> QED
    BY <1>1, <1>4, <2>1, <2>2
<1>7. /\ DOMAIN dialing' = DOMAIN dialing \cup {k} /\ dialing'[k] = d
      /\ \A j \in DOMAIN dialing : dialing'[j] = dialing[j]
  BY <1>1, <1>4 DEF With
<1>8. link[d].state = "none" /\ ~Opened(d)
  <2>1. d > made
    BY <1>3, <1>4
  <2> QED
    BY <2>1 DEF Core, DialInv, Opened
<1>9. \A e \in Links : Opened(e)' <=> Opened(e)
  BY <1>6, <1>8 DEF Opened
<1>10. Records'
  <2>1. made' \in 0..MaxLinks
    BY <1>1, <1>3, <1>4 DEF Links
  <2> QED
    BY <1>1, <1>2, <1>5, <1>6, <2>1 DEF Core, Records
<1>11. Maps'
  <2>1. \A j \in DOMAIN conns : conns[j] \in Links /\ conns[j] # d /\ link[conns[j]].key = j
    BY <1>8 DEF Core, Maps, MapsInv
  <2>2. \A j \in DOMAIN dialing : dialing[j] \in Links /\ dialing[j] # d /\ link[dialing[j]].key = j
    BY <1>8 DEF Core, Maps, MapsInv
  <2>3. DOMAIN conns \subseteq Keys /\ DOMAIN dialing \subseteq Keys
    BY DEF Core, Maps
  <2> QED
    BY <1>1, <1>2, <1>6, <1>7, <2>1, <2>2, <2>3 DEF Maps
<1>12. IsFiniteSet(DOMAIN conns) /\ IsFiniteSet(DOMAIN dialing)
  BY DEF Core, MapsInv
<1>13. /\ IsFiniteSet(DOMAIN dialing')
       /\ Cardinality(DOMAIN dialing') = Cardinality(DOMAIN dialing) + 1
  BY <1>1, <1>7, <1>12, FS_AddElement
<1>14. Limit'
  <2>1. Cardinality(DOMAIN conns) \in Nat /\ Cardinality(DOMAIN dialing) \in Nat
    BY <1>12, FS_CardinalityType
  <2>2. DOMAIN conns' = DOMAIN conns
    BY <1>1
  <2> QED
    BY <1>1, <1>13, <2>1, <2>2, SessionAssumption DEF Full, Limit
<1>15. BoundInv'
  <2>1. Pending' = Pending \ {c} /\ c \in Pending
    BY <1>2, <1>5 DEF Pending
  <2>2. IsFiniteSet(Pending) /\ made + Cardinality(Pending) <= MaxLinks
    BY DEF Core, BoundInv
  <2>3. IsFiniteSet(Pending') /\ Cardinality(Pending') = Cardinality(Pending) - 1
    BY <2>1, <2>2, FS_RemoveElement
  <2>4. Cardinality(Pending) \in Nat
    BY <2>2, FS_CardinalityType
  <2> QED
    BY <1>1, <1>3, <2>2, <2>3, <2>4 DEF BoundInv
<1>16. MapsInv'
  <2>1. \A j \in DOMAIN conns' \cup DOMAIN dialing' : j[2] = latest'
    BY <1>1, <1>2, <1>7 DEF Core, MapsInv
  <2>2. \A j \in DOMAIN conns' : link'[conns'[j]].state \in {"open", "graceful", "closed"}
    BY <1>1, <1>6, <1>8 DEF Core, Maps, MapsInv, Opened
  <2>3. \A j \in DOMAIN dialing' : link'[dialing'[j]].state = "dialing"
    BY <1>6, <1>7 DEF Core, Maps, MapsInv
  <2>4. DOMAIN conns' \cap DOMAIN dialing' = {}
    BY <1>1, <1>7 DEF Core, MapsInv
  <2>5. IsFiniteSet(DOMAIN conns')
    BY <1>1, <1>12
  <2> QED
    BY <1>13, <2>1, <2>2, <2>3, <2>4, <2>5 DEF MapsInv, Opened
<1>17. DialInv'
  <2>1. \A b \in Callers, e \in Links : Dials(b, e)' <=> Dials(b, e) \/ (b = c /\ e = d)
    BY <1>2, <1>5 DEF Dials
  <2>2. \A b \in Callers : ~Dials(b, d)
    BY <1>8 DEF Core, DialInv, OwnDial, Dials
  <2>3. ASSUME NEW e \in Links
        PROVE  /\ e > made' <=> link'[e].state = "none"
               /\ e <= made' => link'[e].key[2] <= latest'
    <3>1. /\ e > made <=> link[e].state = "none"
          /\ e <= made => link[e].key[2] <= latest
      BY DEF Core, DialInv
    <3>2. link[e].key[2] \in Nat /\ e \in Nat
      BY <1>3, SessionAssumption DEF Core, Records, LinkState, Keys, Generation
    <3>3. CASE e = d
      BY <1>1, <1>2, <1>3, <1>4, <1>6, <3>3
    <3>4. CASE e # d
      BY <1>1, <1>2, <1>3, <1>4, <1>6, <3>1, <3>2, <3>4
    <3> QED
      BY <3>3, <3>4
  <2>4. \A e \in Links : link'[e].state = "dialing" => \E b \in Callers : Dials(b, e)'
    BY <1>6, <2>1 DEF Core, DialInv
  <2>5. OwnDial(c, d)'
    BY <1>6, <1>7, <2>1, <2>2 DEF OwnDial
  <2>6. ASSUME NEW b \in Callers, caller'[b].step = "dial", b # c
        PROVE  OwnDial(b, caller[b].link)'
    <3>1. caller'[b] = caller[b] /\ OwnDial(b, caller[b].link)
      BY <1>5, <2>6 DEF Core, DialInv
    <3>2. PICK e \in Links :
            /\ e = caller[b].link /\ link[e].state = "dialing"
            /\ link[e].key[2] = latest => link[e].key \in DOMAIN dialing /\ dialing[link[e].key] = e
            /\ \A a \in Callers : Dials(a, e) => a = b
      BY <3>1 DEF OwnDial
    <3>3. e # d /\ link'[e] = link[e]
      BY <1>6, <1>8, <3>2
    <3>4. link[e].key[2] <= latest /\ link[e].key[2] \in Nat
      <4>1. e <= made
        BY <1>3, <3>2 DEF Core, DialInv
      <4> QED
        BY <4>1, SessionAssumption DEF Core, DialInv, Records, LinkState, Keys, Generation
    <3>5. link[e].key[2] = latest' => latest' = latest
      BY <1>2, <3>4
    <3>6. OwnDial(b, e)'
      BY <1>7, <2>1, <3>2, <3>3, <3>5 DEF OwnDial
    <3> QED
      BY <3>1, <3>2, <3>6 DEF OwnDial, Dials
  <2>7. OwnDial(c, caller[c].link)'
    BY <1>5, <2>5 DEF OwnDial, Dials
  <2> QED
    BY <2>3, <2>4, <2>6, <2>7 DEF DialInv
<1>18. HoldInv'
  <2>1. \A e \in Links : Opened(e) => link'[e].state \in {"open", "graceful", "closed"}
    BY <1>9 DEF Opened
  <2>2. /\ \A b \in Callers : caller[b].victims \subseteq Links
        /\ closer' = closer /\ closer.todo \subseteq Links
    BY <1>1 DEF Core, Records, CallerState, CloserState
  <2> QED
    BY <1>5, <2>1, <2>2 DEF Core, HoldInv, Opened
<1>19. LoopInv'
  <2>1. \A e \in Links : link[e].state = "closed" => link'[e].state = "closed"
    BY <1>6, <1>8
  <2> QED
    BY <1>1, <1>9, <2>1 DEF Core, LoopInv
<1>20. CloseInv'
  BY <1>1, <1>2 DEF Core, CloseInv
<1>21. NoLeakedConnection'
  <2>1. \A e \in Links : Open(e)' => Open(e)
    BY <1>6 DEF Open
  <2>2. Registered' = Registered
    BY <1>1 DEF Registered
  <2>3. caller[c].victims = {} /\ caller[c].step # "abort"
    BY <1>2 DEF Core, HoldInv
  <2> QED
    BY <1>1, <1>5, <2>1, <2>2, <2>3 DEF Core, NoLeakedConnection
<1> QED
  BY <1>10, <1>11, <1>14, <1>15, <1>16, <1>17, <1>18, <1>19, <1>20, <1>21 DEF Core

\* The goroutine of a dial knows which.
LEMMA OwnLink ==
  ASSUME Core, NEW c \in Callers, caller[c].step = "dial"
  PROVE  /\ OwnDial(c, caller[c].link) /\ caller[c].link \in Links
         /\ link[caller[c].link].state = "dialing" /\ caller[c].victims = {}
BY DEF Core, DialInv, HoldInv, OwnDial

\* The goroutine's dial d ends, as a connection or not.
DialEnds(c, d) ==
  /\ caller[c].step = "dial" /\ caller[c].link = d
  /\ UNCHANGED <<closed, latest, made, closer>> /\ terminal' \in BOOLEAN
  /\ DOMAIN dialing' = DOMAIN dialing \ {link[d].key}
  /\ \A k \in DOMAIN dialing' : dialing'[k] = dialing[k]
  /\ link' \in [Links -> LinkState] /\ loop' \in [Links -> [Loops -> LoopSteps]]
  /\ \A e \in Links : link'[e].key = link[e].key /\ (e # d => link'[e].state = link[e].state)
  /\ OthersStay(c) /\ caller' \in [Callers -> CallerState]
  /\ caller'[c].step \in {"idle", "write"} /\ caller'[c].victims = {}
  /\ caller'[c].step = "write" => caller'[c].link = d /\ link'[d].state = "open"
  /\ link'[d].state \in {"open", "failed"}

\* What the end of a dial keeps in any case.
LEMMA DialEndsStep ==
  ASSUME Core, NEW c \in Callers, NEW d \in Links, DialEnds(c, d)
  PROVE  /\ Records' /\ BoundInv' /\ DialInv' /\ HoldInv'
         /\ \A k \in DOMAIN dialing' : /\ dialing'[k] \in Links /\ dialing'[k] # d
                                       /\ link'[dialing'[k]].key = k
                                       /\ link'[dialing'[k]].state = "dialing"
<1>1. /\ caller[c].step = "dial" /\ caller[c].link = d /\ OwnDial(c, d)
      /\ caller[c].victims = {} /\ link[d].state = "dialing"
      /\ UNCHANGED <<closed, latest, made, closer>>
      /\ \A b \in Callers : b # c => caller'[b] = caller[b]
      /\ OthersStay(c) /\ caller'[c].step \in {"idle", "write"}
  BY OwnLink DEF DialEnds, OthersStay
<1>2. /\ \A e \in Links : link'[e].key = link[e].key /\ (e # d => link'[e].state = link[e].state)
      /\ link'[d].state \in {"open", "failed"}
      /\ DOMAIN dialing' = DOMAIN dialing \ {link[d].key}
      /\ \A k \in DOMAIN dialing' : dialing'[k] = dialing[k]
  BY DEF DialEnds
<1>3. Records'
  BY <1>1 DEF DialEnds, Core, Records
<1>4. BoundInv'
  <2>1. Pending' \subseteq Pending
    BY <1>1, PendingMoves
  <2> QED
    BY <1>1, <2>1, FewerPending
<1>5. DialInv'
  <2>1. \A b \in Callers, e \in Links : Dials(b, e)' <=> Dials(b, e) /\ b # c
    BY <1>1 DEF Dials
  <2>2. ASSUME NEW e \in Links
        PROVE  /\ e > made' <=> link'[e].state = "none"
               /\ e <= made' => link'[e].key[2] <= latest'
    BY <1>1, <1>2 DEF Core, DialInv
  <2>3. ASSUME NEW e \in Links, link'[e].state = "dialing"
        PROVE  \E b \in Callers : Dials(b, e)'
    <3>1. e # d /\ link[e].state = "dialing"
      BY <1>2, <2>3
    <3>2. PICK b \in Callers : Dials(b, e)
      BY <3>1 DEF Core, DialInv
    <3>3. b # c
      BY <1>1, <3>1, <3>2 DEF Dials
    <3> QED
      BY <2>1, <3>2, <3>3
  <2>4. ASSUME NEW b \in Callers, caller'[b].step = "dial"
        PROVE  OwnDial(b, caller[b].link)'
    <3>1. b # c /\ caller'[b] = caller[b]
      BY <1>1, <2>4
    <3>2. OwnDial(b, caller[b].link) /\ caller[b].step = "dial"
      BY <2>4, <3>1 DEF Core, DialInv
    <3>3. PICK e \in Links :
            /\ e = caller[b].link /\ link[e].state = "dialing"
            /\ link[e].key[2] = latest => link[e].key \in DOMAIN dialing /\ dialing[link[e].key] = e
            /\ \A a \in Callers : Dials(a, e) => a = b
      BY <3>2 DEF OwnDial
    <3>4. e # d
      <4>1. Dials(b, e)
        BY <3>2, <3>3 DEF Dials
      <4> QED
        BY <1>1, <3>1, <4>1 DEF OwnDial
    <3>5. link[e].key[2] = latest => link[e].key # link[d].key
      <4>1. link[d].key[2] = latest => dialing[link[d].key] = d
        BY <1>1 DEF OwnDial
      <4> QED
        BY <3>3, <3>4, <4>1
    <3>6. link'[e].state = "dialing" /\ link'[e].key = link[e].key
      BY <1>2, <3>3, <3>4
    <3>7. OwnDial(b, e)'
      BY <1>1, <1>2, <2>1, <3>3, <3>5, <3>6 DEF OwnDial
    <3> QED
      BY <3>1, <3>3, <3>7 DEF OwnDial, Dials
  <2> QED
    BY <2>2, <2>3, <2>4 DEF DialInv
<1>6. HoldInv'
  <2>1. \A e \in Links : Opened(e) => link'[e].state \in {"open", "graceful", "closed"}
    BY <1>1, <1>2 DEF Opened
  <2>2. /\ \A b \in Callers : caller[b].victims \subseteq Links
        /\ closer' = closer /\ closer.todo \subseteq Links
    BY <1>1 DEF Core, Records, CallerState, CloserState
  <2>3. /\ caller'[c].victims = {}
        /\ caller'[c].step = "write" => caller'[c].link = d /\ link'[d].state = "open"
    BY DEF DialEnds
  <2> QED
    BY <1>1, <2>1, <2>2, <2>3 DEF Core, HoldInv, Opened
<1>7. ASSUME NEW k \in DOMAIN dialing'
      PROVE  /\ dialing'[k] \in Links /\ dialing'[k] # d
             /\ link'[dialing'[k]].key = k /\ link'[dialing'[k]].state = "dialing"
  <2>1. /\ k \in DOMAIN dialing /\ k # link[d].key /\ dialing'[k] = dialing[k]
        /\ dialing[k] \in Links /\ link[dialing[k]].key = k
        /\ link[dialing[k]].state = "dialing"
    BY <1>2 DEF Core, Maps, MapsInv
  <2> QED
    BY <1>2, <2>1
<1> QED
  BY <1>3, <1>4, <1>5, <1>6, <1>7

\* A dial that fails, is too late or too old leaves nothing behind.
LEMMA DialFinishesStep ==
  ASSUME Core, NEW c \in Callers, caller[c].step = "dial", DialFinishes(caller[c].link), Return(c),
         terminal' \in {terminal, TRUE}, UNCHANGED <<closed, latest, conns, made, loop, closer>>
  PROVE  Core'
<1>1. PICK d \in Links : d = caller[c].link /\ link[d].state = "dialing"
  BY OwnLink
<1>2. /\ dialing' = Without(dialing, {link[d].key})
      /\ link' = [link EXCEPT ![d].state = "failed"]
  BY <1>1 DEF DialFinishes
<1>3. link' \in [Links -> LinkState] /\ LinkTo(d, "failed")
  BY <1>2, LinkMoves DEF Core
<1>4. /\ OthersStay(c) /\ caller' \in [Callers -> CallerState]
      /\ caller'[c].step = "idle" /\ caller'[c].victims = {}
      /\ \A b \in Callers : b # c => caller'[b] = caller[b]
  BY CallerMoves DEF Core, OthersStay
<1>5. /\ DOMAIN dialing' = DOMAIN dialing \ {link[d].key}
      /\ \A k \in DOMAIN dialing' : dialing'[k] = dialing[k]
  BY <1>2 DEF Without
<1>6. DialEnds(c, d)
  BY <1>1, <1>3, <1>4, <1>5 DEF DialEnds, LinkTo, Core, Records
<1>7. /\ Records' /\ BoundInv' /\ DialInv' /\ HoldInv'
      /\ \A k \in DOMAIN dialing' : /\ dialing'[k] \in Links /\ dialing'[k] # d
                                    /\ link'[dialing'[k]].key = k
                                    /\ link'[dialing'[k]].state = "dialing"
  BY <1>6, DialEndsStep
<1>8. \A e \in Links : /\ link'[e].key = link[e].key
                       /\ Opened(e) => e # d /\ link'[e].state = link[e].state
                       /\ Opened(e)' <=> Opened(e)
  BY <1>1, <1>3 DEF LinkTo, Opened
<1>9. Maps'
  BY <1>5, <1>7, <1>8 DEF Core, Maps
<1>10. Limit' /\ IsFiniteSet(DOMAIN conns') /\ IsFiniteSet(DOMAIN dialing')
  <2>1. IsFiniteSet(DOMAIN conns) /\ IsFiniteSet(DOMAIN dialing)
    BY DEF Core, MapsInv
  <2>2. /\ IsFiniteSet(DOMAIN dialing')
        /\ Cardinality(DOMAIN dialing') <= Cardinality(DOMAIN dialing)
    BY <1>5, <2>1, FS_Subset
  <2>3. /\ Cardinality(DOMAIN conns) \in Nat /\ Cardinality(DOMAIN dialing) \in Nat
        /\ Cardinality(DOMAIN dialing') \in Nat
    BY <2>1, <2>2, FS_CardinalityType
  <2>4. DOMAIN conns' = DOMAIN conns
    OBVIOUS
  <2>5. Cardinality(DOMAIN conns) + Cardinality(DOMAIN dialing) <= MaxConnections
    BY DEF Core, Limit
  <2> QED
    BY <2>1, <2>2, <2>3, <2>4, <2>5, SessionAssumption DEF Limit
<1>11. MapsInv'
  <2>1. \A k \in DOMAIN conns' : link'[conns'[k]].state \in {"open", "graceful", "closed"}
    BY <1>8 DEF Core, Maps, MapsInv, Opened
  <2> QED
    BY <1>5, <1>7, <1>10, <2>1 DEF Core, MapsInv, Opened
<1>12. LoopInv'
  BY <1>8 DEF Core, LoopInv, Opened
<1>13. CloseInv'
  <2>1. DialsDone => DialsDone'
    BY <1>4 DEF DialsDone
  <2>2. LoopsDone' <=> LoopsDone
    BY DEF LoopsDone
  <2> QED
    BY <2>1, <2>2 DEF Core, CloseInv
<1>14. NoLeakedConnection'
  <2>1. \A e \in Links : Open(e)' => Open(e)
    BY <1>1, <1>3 DEF Open, LinkTo
  <2>2. Registered' = Registered
    BY DEF Registered
  <2>3. caller[c].victims = {} /\ caller[c].step # "abort"
    BY DEF Core, HoldInv
  <2> QED
    BY <1>4, <2>1, <2>2, <2>3 DEF Core, NoLeakedConnection
<1> QED
  BY <1>7, <1>9, <1>10, <1>11, <1>12, <1>13, <1>14 DEF Core

\* A dial of the newest voice connection, while the session is open, becomes the
\* connection of its key.
LEMMA DialInstallsStep ==
  ASSUME Core, NEW c \in Callers, DialSucceeds(c), Installs(caller[c].link)
  PROVE  Core'
<1>1. PICK d \in Links : d = caller[c].link /\ link[d].state = "dialing" /\ OwnDial(c, d)
  BY OwnLink DEF DialSucceeds
<1>2. /\ caller[c].step = "dial" /\ dialing' = Without(dialing, {link[d].key})
      /\ conns' = With(conns, link[d].key, d)
      /\ link' = [link EXCEPT ![d].state = "open"]
      /\ loop' = [loop EXCEPT ![d] = [l \in Loops |-> "run"]]
      /\ Goto(c, "write", d)
      /\ UNCHANGED <<closed, latest, terminal, made, closer>>
      /\ ~closed /\ link[d].key[2] >= latest
  BY <1>1 DEF DialSucceeds, Installs
<1>3. link' \in [Links -> LinkState] /\ LinkTo(d, "open")
  BY <1>2, LinkMoves DEF Core
<1>4. PICK k \in Keys : k = link[d].key
  BY DEF Core, Records, LinkState
<1>5. k[2] = latest /\ k \in DOMAIN dialing /\ dialing[k] = d /\ k \notin DOMAIN conns
  <2>1. d <= made
    BY <1>1, SessionAssumption DEF Core, DialInv, Links, Records
  <2>2. link[d].key[2] <= latest
    BY <2>1 DEF Core, DialInv
  <2>3. k[2] \in Nat /\ latest \in Nat
    BY SessionAssumption DEF Keys, Generation, Core, Records
  <2>4. k[2] = latest
    BY <1>2, <1>4, <2>2, <2>3
  <2> QED
    BY <1>1, <1>4, <2>4 DEF OwnDial, Core, MapsInv
<1>6. /\ OthersStay(c) /\ caller' \in [Callers -> CallerState]
      /\ caller'[c].step = "write" /\ caller'[c].link = d /\ caller'[c].victims = {}
      /\ \A b \in Callers : b # c => caller'[b] = caller[b]
  <2>1. d \in 0..MaxLinks
    BY SessionAssumption DEF Links
  <2> QED
    BY <1>2, <2>1, CallerMoves DEF Core, OthersStay
<1>7. /\ DOMAIN dialing' = DOMAIN dialing \ {k}
      /\ \A j \in DOMAIN dialing' : dialing'[j] = dialing[j]
      /\ DOMAIN conns' = DOMAIN conns \cup {k} /\ conns'[k] = d
      /\ \A j \in DOMAIN conns : conns'[j] = conns[j]
  BY <1>2, <1>4, <1>5 DEF Without, With
<1>8. /\ loop' \in [Links -> [Loops -> LoopSteps]]
      /\ \A l \in Loops : loop'[d][l] = "run"
      /\ \A e \in Links : e # d => loop'[e] = loop[e]
  <2>1. loop \in [Links -> [Loops -> LoopSteps]]
    BY DEF Core, Records
  <2>2. [l \in Loops |-> "run"] \in [Loops -> LoopSteps]
    BY DEF LoopSteps
  <2> QED
    BY <1>2, <2>1, <2>2
<1>9. DialEnds(c, d)
  BY <1>1, <1>2, <1>3, <1>4, <1>6, <1>7, <1>8 DEF DialEnds, LinkTo, Core, Records
<1>10. /\ Records' /\ BoundInv' /\ DialInv' /\ HoldInv'
       /\ \A j \in DOMAIN dialing' : /\ dialing'[j] \in Links /\ dialing'[j] # d
                                     /\ link'[dialing'[j]].key = j
                                     /\ link'[dialing'[j]].state = "dialing"
  BY <1>9, DialEndsStep
<1>11. \A j \in DOMAIN conns' : /\ conns'[j] \in Links /\ link'[conns'[j]].key = j
                                /\ link'[conns'[j]].state \in {"open", "graceful", "closed"}
  <2>1. \A j \in DOMAIN conns : /\ conns[j] \in Links /\ conns[j] # d /\ link[conns[j]].key = j
                                /\ link[conns[j]].state \in {"open", "graceful", "closed"}
    BY <1>1 DEF Core, Maps, MapsInv, Opened
  <2> QED
    BY <1>3, <1>4, <1>7, <2>1 DEF LinkTo
<1>12. Maps'
  BY <1>7, <1>10, <1>11 DEF Core, Maps
<1>13. Limit' /\ IsFiniteSet(DOMAIN conns') /\ IsFiniteSet(DOMAIN dialing')
  <2>1. IsFiniteSet(DOMAIN conns) /\ IsFiniteSet(DOMAIN dialing)
    BY DEF Core, MapsInv
  <2>2. /\ IsFiniteSet(DOMAIN dialing')
        /\ Cardinality(DOMAIN dialing') = Cardinality(DOMAIN dialing) - 1
    BY <1>5, <1>7, <2>1, FS_RemoveElement
  <2>3. /\ IsFiniteSet(DOMAIN conns')
        /\ Cardinality(DOMAIN conns') = Cardinality(DOMAIN conns) + 1
    BY <1>5, <1>7, <2>1, FS_AddElement
  <2>4. Cardinality(DOMAIN conns) \in Nat /\ Cardinality(DOMAIN dialing) \in Nat
    BY <2>1, FS_CardinalityType
  <2>5. Cardinality(DOMAIN conns) + Cardinality(DOMAIN dialing) <= MaxConnections
    BY DEF Core, Limit
  <2> QED
    BY <2>2, <2>3, <2>4, <2>5, SessionAssumption DEF Limit
<1>14. MapsInv'
  <2>1. DOMAIN conns' \cap DOMAIN dialing' = {}
    BY <1>7 DEF Core, MapsInv
  <2>2. \A j \in DOMAIN conns' \cup DOMAIN dialing' : j[2] = latest'
    BY <1>2, <1>5, <1>7 DEF Core, MapsInv
  <2> QED
    BY <1>10, <1>11, <1>13, <2>1, <2>2 DEF MapsInv, Opened
<1>15. LoopInv'
  <2>1. CASE "read" \in Loops
    <3>1. \A e \in Links : e # d => /\ loop'[e] = loop[e] /\ link'[e].state = link[e].state
      BY <1>3, <1>8 DEF LinkTo
    <3>2. link'[d].state = "open" /\ loop'[d]["read"] = "run"
      BY <1>3, <1>8, <2>1 DEF LinkTo
    <3> QED
      BY <3>1, <3>2 DEF Core, LoopInv, Opened
  <2> QED
    BY <2>1, SessionAssumption
<1>16. CloseInv'
  BY <1>2 DEF Core, CloseInv
<1>17. NoLeakedConnection'
  <2> SUFFICES ASSUME NEW e \in Links, Open(e)'
               PROVE  \/ e \in Registered' \/ e \in closer'.todo
                      \/ \E b \in Callers : e \in caller'[b].victims
                                            \/ (caller'[b].step = "abort" /\ caller'[b].link = e)
                      \/ \E m \in Loops : loop'[e][m] = "abort"
    BY DEF NoLeakedConnection
  <2>1. CASE e = d
    BY <1>7, <2>1 DEF Registered
  <2>2. CASE e # d
    <3>1. Open(e) /\ loop'[e] = loop[e]
      BY <1>3, <1>8, <2>2 DEF LinkTo, Open
    <3>2. \/ e \in Registered \/ e \in closer.todo
          \/ \E b \in Callers : e \in caller[b].victims
                                \/ (caller[b].step = "abort" /\ caller[b].link = e)
          \/ \E m \in Loops : loop[e][m] = "abort"
      BY <3>1 DEF Core, NoLeakedConnection
    <3>3. CASE e \in Registered
      BY <1>7, <3>3 DEF Registered
    <3>4. caller[c].victims = {} /\ caller[c].step # "abort"
      BY <1>2 DEF Core, HoldInv
    <3> QED
      BY <1>2, <1>6, <3>1, <3>2, <3>3, <3>4
  <2> QED
    BY <2>1, <2>2
<1> QED
  BY <1>10, <1>12, <1>13, <1>14, <1>15, <1>16, <1>17 DEF Core
-----------------------------------------------------------------------------
(* The theorems.                                                            *)

\* SessionInv is Core.
LEMMA CoreIsInv == SessionInv <=> Core
BY TypeParts DEF SessionInv, Core

\* The session begins with nothing.
LEMMA CoreInit == Init => Core
<1> SUFFICES ASSUME Init PROVE Core
  OBVIOUS
<1>1. /\ closed = FALSE /\ latest = 0 /\ terminal = FALSE /\ made = 0
      /\ DOMAIN conns = {} /\ DOMAIN dialing = {}
      /\ link = [d \in Links |-> NoLink] /\ loop = [d \in Links |-> [l \in Loops |-> "off"]]
      /\ caller = [c \in Callers |-> Idle] /\ closer = [step |-> "none", todo |-> {}]
  BY DEF Init
<1>2. /\ Idle.step = "idle" /\ Idle.victims = {} /\ NoLink.state = "none"
  BY DEF Idle, NoLink
<1>3. IsFiniteSet({}) /\ Cardinality({}) = 0
  BY FS_EmptySet
<1>4. Records
  <2>1. loop \in [Links -> [Loops -> LoopSteps]]
    BY <1>1 DEF LoopSteps
  <2>2. closer \in CloserState
    BY <1>1 DEF CloserState
  <2>3. link \in [Links -> LinkState]
    BY <1>1, Defaults
  <2>4. caller \in [Callers -> CallerState]
    BY <1>1, Defaults
  <2>5. closed \in BOOLEAN /\ terminal \in BOOLEAN
    BY <1>1
  <2>6. latest \in 0..MaxGeneration /\ made \in 0..MaxLinks
    BY <1>1, SessionAssumption
  <2> QED
    BY <2>1, <2>2, <2>3, <2>4, <2>5, <2>6 DEF Records
<1>5. Maps /\ Limit /\ MapsInv
  BY <1>1, <1>3, SessionAssumption DEF Maps, Limit, MapsInv
<1>6. BoundInv
  <2>1. Pending = {}
    BY <1>1, <1>2 DEF Pending
  <2> QED
    BY <1>1, <1>3, <2>1, SessionAssumption DEF BoundInv
<1>7. DialInv
  <2>1. \A d \in Links : d > made /\ ~(d <= made)
    BY <1>1, SessionAssumption DEF Links
  <2> QED
    BY <1>1, <1>2, <2>1 DEF DialInv
<1>8. HoldInv
  BY <1>1, <1>2 DEF HoldInv
<1>9. LoopInv
  BY <1>1, <1>2, SessionAssumption DEF LoopInv, Opened
<1>10. CloseInv
  BY <1>1 DEF CloseInv
<1>11. NoLeakedConnection
  BY <1>1, <1>2 DEF NoLeakedConnection, Open
<1> QED
  BY <1>4, <1>5, <1>6, <1>7, <1>8, <1>9, <1>10, <1>11 DEF Core

\* Every step preserves the invariant.
LEMMA CoreNext == Core /\ [Next]_vars => Core'
<1> SUFFICES ASSUME Core, [Next]_vars PROVE Core'
  OBVIOUS
<1>1. CASE UNCHANGED vars
  <2>1. UNCHANGED <<closed, latest, terminal, conns, dialing, made, link, loop, caller, closer>>
    BY <1>1 DEF vars, sessionVars
  <2>2. Aside
    BY <2>1 DEF Aside, Core, Records, HoldInv, CloserState
  <2>3. /\ Records' /\ Maps' /\ Limit' /\ BoundInv' /\ MapsInv' /\ DialInv' /\ HoldInv'
        /\ DialsDone' <=> DialsDone
    BY <2>2, AsideStep
  <2>4. LoopInv' /\ CloseInv' /\ NoLeakedConnection'
    BY <2>1, <2>3
    DEF Core, LoopInv, CloseInv, NoLeakedConnection, Opened, Open, Registered, LoopsDone
  <2> QED
    BY <2>3, <2>4 DEF Core
<1>2. ASSUME NEW c \in Callers,
             IngestNext(c) \/ WaitExpires(c) \/ \E p \in PacketsOf[c] : Ingest(c, p)
      PROVE  Core'
  <2>1. CASE DialSucceeds(c)
    <3>1. CASE Installs(caller[c].link)
      BY <2>1, <3>1, DialInstallsStep
    <3>2. CASE ~Installs(caller[c].link)
      <4>1. /\ caller[c].step = "dial" /\ DialFinishes(caller[c].link) /\ Return(c)
            /\ terminal' \in {terminal, TRUE}
            /\ UNCHANGED <<closed, latest, conns, made, loop, closer>>
        BY <2>1, <3>2 DEF DialSucceeds
      <4> QED
        BY <4>1, DialFinishesStep
    <3> QED
      BY <3>1, <3>2
  <2>2. CASE DialFails(c)
    <3>1. /\ caller[c].step = "dial" /\ DialFinishes(caller[c].link) /\ Return(c)
          /\ terminal' \in {terminal, TRUE}
          /\ UNCHANGED <<closed, latest, conns, made, loop, closer>>
      BY <2>2 DEF DialFails
    <3> QED
      BY <3>1, DialFinishesStep
  <2>3. CASE EvictOlder(c) \/ EvictSame(c) \/ IngestDiscards(c) \/ DialBegins(c)
    BY <2>3, EvictOlderStep, EvictSameStep, IngestDiscardsStep, DialBeginsStep
  <2>4. CASE Evict(c) \/ IngestAborts(c)
    BY <2>4, AbortingSteps
  <2> QED
    BY <1>2, <2>1, <2>2, <2>3, <2>4, QuietActions DEF IngestNext
<1>3. ASSUME NEW d \in Links, NEW l \in Loops, LoopGivesUp(d, l) \/ LoopEnds(d, l) PROVE Core'
  BY <1>3, LoopStep
<1>4. CASE CloseBegins \/ CloseNext
  BY <1>4, CloseBeginsStep, CloseWaitsStep, GracefulStep DEF CloseNext
<1> QED
  BY <1>1, <1>2, <1>3, <1>4 DEF Next

\* The session keeps its invariant (session.go, connections.go).
THEOREM SessionInvHolds == Spec => []SessionInv
<1>1. Init => Core
  BY CoreInit
<1>2. Core /\ [Next]_vars => Core'
  BY CoreNext
<1>3. Core <=> SessionInv
  BY CoreIsInv
<1> QED
  BY <1>1, <1>2, <1>3, PTL DEF Spec

\* The limit on connections holds with the dials counted in, no open connection
\* is forgotten, and none of an older voice connection is registered, for any
\* number of goroutines, speakers and dials (connectionFor, completeDial, discard).
THEOREM ConnectionsKept == Spec => []ConnectionInv
<1>1. SessionInv => ConnectionInv
  BY DEF SessionInv, ConnectionInv, MapsInv, NoOlderConnection
<1> QED
  BY <1>1, SessionInvHolds, PTL

\* When Close returns nothing of the session is left: no dial, no entry of a map,
\* no connection that is not closed (close).
THEOREM CloseComplete == Spec => []CloseIsComplete
<1>1. ASSUME SessionInv, closer.step = "done"
      PROVE  /\ \A c \in Callers : caller[c].step # "dial"
             /\ DOMAIN conns = {} /\ DOMAIN dialing = {}
             /\ \A d \in Links : link[d].state \in {"none", "failed", "closed"}
  <2>1. DialsDone /\ LoopsDone /\ DOMAIN conns = {}
    BY <1>1 DEF SessionInv, CloseInv
  <2>2. \A d \in Links : link[d].state # "dialing"
    BY <1>1, <2>1 DEF SessionInv, DialInv, Dials, DialsDone
  <2>3. DOMAIN dialing = {}
    <3>1. \A k \in DOMAIN dialing : dialing[k] \in Links /\ link[dialing[k]].state = "dialing"
      BY <1>1 DEF SessionInv, MapsInv, TypeOK
    <3> QED
      BY <2>2, <3>1
  <2>4. \A d \in Links : loop[d]["read"] \in {"off", "done"}
    BY <2>1, SessionAssumption DEF LoopsDone
  <2>5. \A d \in Links : link[d].state # "open" /\ link[d].state # "graceful"
    BY <1>1, <2>4 DEF SessionInv, LoopInv, Opened
  <2>6. \A d \in Links : link[d].state
          \in {"none", "dialing", "failed", "open", "graceful", "closed"}
    BY <1>1 DEF SessionInv, TypeOK
  <2> QED
    BY <2>1, <2>2, <2>3, <2>5, <2>6 DEF DialsDone
<1>2. SessionInv => CloseIsComplete
  BY <1>1 DEF CloseIsComplete
<1> QED
  BY <1>2, SessionInvHolds, PTL
-----------------------------------------------------------------------------
(* The clocks of one connection.                                            *)

\* A keep-alive is due before the silence can reach two intervals: hasRecentAudio looks at
\* the age of the audio, which is never less than that of what was written.
SilenceInv ==
  /\ state = "up" => sent + beat < 2 * KeepAliveInterval
  /\ marking => heard = 0 /\ sent = 0
  /\ audio # Never => sent <= audio

\* What the provider and the voice bot promise.
LagInv ==
  /\ \A i \in DOMAIN queue : heard <= queue[i].age + ResultLag
  /\ result # Never => heard <= result + ResultLag
  /\ audio # Never /\ ~marking => audio <= heard + MarkLag
  /\ open => result # Never

\* The results wait in the order in which they came, and none longer than the delay.
WaitInv ==
  /\ \A i, j \in DOMAIN queue : i <= j => queue[j].age <= queue[i].age
  /\ \A i \in DOMAIN queue : queue[i].age + publisher.held <= Delay
  /\ ~publisher.idle /\ publisher.held > 0 => result # Never /\ result + publisher.held <= Delay

\* An utterance still open at the idle check was too young for the tick; and when a result is
\* old enough for the tick, nothing has been waiting behind it.
OpenInv ==
  /\ publisher.idle /\ open =>
       /\ publisher.held = 0 /\ tick = Never
       /\ \/ result - publisher.now < LocalFinalize
          \/ audio # Never /\ audio - publisher.now < LocalFinalize
          \/ heard = 0
  /\ open /\ ~publisher.idle /\ publisher.held = 0 /\ tick # Never /\ result - tick > Delay =>
       \A i \in DOMAIN queue : queue[i].age = 0

\* The inductive invariant for any settings.
ClockInv == TimerTypeOK /\ SilenceInv

\* The inductive invariant for settings that fit together.
FitInv == ClockInv /\ LagInv /\ WaitInv /\ OpenInv /\ IdleLosesNothing
\* Ages, and how they grow.
LEMMA OldAge ==
  /\ Old \in Nat /\ MarkLag <= Old /\ 2 * KeepAliveInterval <= Old /\ Delay <= Old
  /\ 0 \in Ages /\ Old \in Ages /\ Never \notin Ages /\ \A a \in Ages : a \in Nat /\ a <= Old
  /\ LocalFinalize \in Nat /\ SpeakerIdleClose \in Nat /\ KeepAliveInterval \in Nat \ {0}
  /\ Delay \in Nat /\ ResultLag \in Nat /\ MarkLag \in Nat /\ QueueLength \in Nat \ {0}
BY TimerAssumption DEF Old, Ages, Never

\* One tick older, up to Old.
LEMMA Ageing ==
  /\ \A a \in Ages : /\ Aged(a) \in Ages /\ a <= Aged(a) /\ Aged(a) <= a + 1
                     /\ Aged(a) = a + 1 \/ Aged(a) = Old
  /\ Aged(Never) = Never
  /\ \A a, b \in Ages : a <= b => Aged(a) <= Aged(b)
  /\ \A a, b \in Ages, k \in Nat : a <= b + k => Aged(a) <= Aged(b) + k
BY OldAge DEF Aged, Ages, Never

\* Two intervals, and what is less.
LEMMA Halves ==
  ASSUME NEW k \in Nat, NEW s \in Nat
  PROVE  /\ s < k => s + k < 2 * k
         /\ \A a, b \in Nat : s <= a + 1 /\ a + b < 2 * k => s + (b - 1) < 2 * k
         /\ \A b \in Nat : s + b < 2 * k => s < 2 * k
OBVIOUS

\* The wait before publishing.
LEMMA Waits ==
  \A a \in Ages : /\ Wait(a) \in 0..Delay /\ (Wait(a) > 0 => a + Wait(a) = Delay)
                  /\ Holding(a) = [held |-> Wait(a), idle |-> FALSE, now |-> 0]
<1> TAKE a \in Ages
<1>1. Wait(a) \in 0..Delay /\ (Wait(a) > 0 => a + Wait(a) = Delay)
  BY OldAge DEF Wait
<1>2. Holding(a) = [held |-> Wait(a), idle |-> FALSE, now |-> 0]
  BY DEF Holding
<1> QED
  BY <1>1, <1>2

\* The queue of results: one more, one less, all a tick older.
LEMMA ResultQueue ==
  ASSUME NEW q \in Seq([kind : Kinds, age : Ages])
  PROVE  /\ Len(q) \in Nat /\ DOMAIN q = 1..Len(q) /\ \A n \in DOMAIN q : q[n].age \in Ages
         /\ \A k \in Kinds : LET p == Append(q, [kind |-> k, age |-> 0]) IN
              /\ p \in Seq([kind : Kinds, age : Ages]) /\ Len(p) = Len(q) + 1
              /\ DOMAIN p = 1..(Len(q) + 1)
              /\ p[Len(q) + 1].age = 0 /\ \A n \in DOMAIN q : p[n] = q[n]
         /\ q # <<>> => LET p == Tail(q) IN
              /\ p \in Seq([kind : Kinds, age : Ages]) /\ Len(p) = Len(q) - 1
              /\ DOMAIN p = 1..(Len(q) - 1) /\ 1 \in DOMAIN q
              /\ Head(q) = q[1] /\ \A n \in DOMAIN p : p[n] = q[n + 1] /\ n + 1 \in DOMAIN q
         /\ LET p == [n \in DOMAIN q |-> [q[n] EXCEPT !.age = Aged(@)]] IN
              /\ p \in Seq([kind : Kinds, age : Ages]) /\ Len(p) = Len(q) /\ DOMAIN p = DOMAIN q
              /\ \A n \in DOMAIN q : p[n].age = Aged(q[n].age)
<1>1. /\ Len(q) \in Nat /\ DOMAIN q = 1..Len(q)
      /\ \A n \in DOMAIN q : q[n] \in [kind : Kinds, age : Ages]
  <2>1. PICK T : T = [kind : Kinds, age : Ages]
    OBVIOUS
  <2>2. q \in Seq(T)
    BY <2>1
  <2>3. Len(q) \in Nat /\ DOMAIN q = 1..Len(q) /\ \A n \in DOMAIN q : q[n] \in T
    BY <2>2
  <2> QED
    BY <2>1, <2>3
<1>2. ASSUME NEW k \in Kinds
      PROVE  LET p == Append(q, [kind |-> k, age |-> 0]) IN
              /\ p \in Seq([kind : Kinds, age : Ages]) /\ Len(p) = Len(q) + 1
              /\ DOMAIN p = 1..(Len(q) + 1)
              /\ p[Len(q) + 1].age = 0 /\ \A n \in DOMAIN q : p[n] = q[n]
  <2>1. PICK r : r = [kind |-> k, age |-> 0]
    OBVIOUS
  <2>2. r \in [kind : Kinds, age : Ages] /\ r.age = 0
    BY <2>1, OldAge
  <2>3. LET p == Append(q, r) IN
          /\ p \in Seq([kind : Kinds, age : Ages]) /\ Len(p) = Len(q) + 1
          /\ DOMAIN p = 1..(Len(q) + 1)
          /\ p[Len(q) + 1] = r /\ \A n \in DOMAIN q : p[n] = q[n]
    BY <2>2
  <2> QED
    BY <2>1, <2>2, <2>3
<1>3. ASSUME q # <<>>
      PROVE  LET p == Tail(q) IN
              /\ p \in Seq([kind : Kinds, age : Ages]) /\ Len(p) = Len(q) - 1
              /\ DOMAIN p = 1..(Len(q) - 1) /\ 1 \in DOMAIN q
              /\ Head(q) = q[1] /\ \A n \in DOMAIN p : p[n] = q[n + 1] /\ n + 1 \in DOMAIN q
  BY <1>3
<1>4. LET p == [n \in DOMAIN q |-> [q[n] EXCEPT !.age = Aged(@)]] IN
        /\ p \in Seq([kind : Kinds, age : Ages]) /\ Len(p) = Len(q) /\ DOMAIN p = DOMAIN q
        /\ \A n \in DOMAIN q : p[n].age = Aged(q[n].age)
  <2> DEFINE p == [n \in DOMAIN q |-> [q[n] EXCEPT !.age = Aged(@)]]
  <2>1. \A n \in DOMAIN q : p[n] \in [kind : Kinds, age : Ages] /\ p[n].age = Aged(q[n].age)
    BY <1>1, Ageing
  <2>2. DOMAIN p = 1..Len(q)
    BY <1>1
  <2>3. p \in [1..Len(q) -> [kind : Kinds, age : Ages]]
    BY <1>1, <2>1, <2>2
  <2> HIDE DEF p
  <2>4. p \in Seq([kind : Kinds, age : Ages]) /\ Len(p) = Len(q)
    BY <1>1, <2>2, <2>3
  <2> QED
    BY <1>1, <2>1, <2>2, <2>4 DEF p
<1> QED
  BY <1>1, <1>2, <1>3, <1>4

\* Types and silence hold at first.
LEMMA ClockInit == TimerInit => ClockInv
<1> SUFFICES ASSUME TimerInit PROVE ClockInv
  OBVIOUS
<1>1. <<>> \in Seq([kind : Kinds, age : Ages]) /\ Len(<<>>) = 0
  OBVIOUS
<1>2. Free \in [held : 0..Delay, idle : BOOLEAN, now : Ages]
  BY OldAge DEF Free
<1>3. KeepAliveInterval \in 0..KeepAliveInterval /\ 0 + KeepAliveInterval < 2 * KeepAliveInterval
  BY OldAge
<1>4. TimerTypeOK
  <2>1. /\ {state} \subseteq {"up", "idle", "failed"} /\ {talking, marking, open} \subseteq BOOLEAN
        /\ heard \in Ages /\ sent \in Ages /\ audio = Never /\ result = Never /\ tick = Never
    BY OldAge DEF TimerInit
  <2>2. /\ queue \in Seq([kind : Kinds, age : Ages]) /\ Len(queue) <= QueueLength
        /\ publisher \in [held : 0..Delay, idle : BOOLEAN, now : Ages]
        /\ beat \in 0..KeepAliveInterval
    BY <1>1, <1>2, <1>3, OldAge DEF TimerInit
  <2> QED
    BY <2>1, <2>2 DEF TimerTypeOK
<1>5. SilenceInv
  BY <1>3 DEF TimerInit, SilenceInv
<1> QED
  BY <1>4, <1>5 DEF ClockInv

\* Every step keeps them.
LEMMA ClockNext == ClockInv /\ [TimerNext]_timerVars => ClockInv'
<1> SUFFICES ASSUME ClockInv, [TimerNext]_timerVars PROVE ClockInv'
  OBVIOUS
<1>0. TimerTypeOK /\ SilenceInv
  BY DEF ClockInv
<1>1. /\ heard \in Ages /\ sent \in Ages /\ audio \in Ages \cup {Never}
      /\ result \in Ages \cup {Never} /\ tick \in Ages \cup {Never}
      /\ queue \in Seq([kind : Kinds, age : Ages]) /\ Len(queue) <= QueueLength
      /\ publisher.held \in 0..Delay /\ publisher.idle \in BOOLEAN /\ publisher.now \in Ages
      /\ beat \in 0..KeepAliveInterval /\ state \in {"up", "idle", "failed"}
      /\ {talking, marking, open} \subseteq BOOLEAN
  BY <1>0 DEF TimerTypeOK
<1>2. /\ state = "up" => sent + beat < 2 * KeepAliveInterval
      /\ marking => heard = 0 /\ sent = 0
      /\ audio # Never => sent <= audio
  BY <1>0 DEF SilenceInv
<1>3. CASE WriteAudio
  <2>1. 0 + beat < 2 * KeepAliveInterval
    BY <1>1, OldAge
  <2>2. TimerTypeOK'
    BY <1>0, <1>3, OldAge DEF WriteAudio, TimerTypeOK
  <2>3. audio' # Never => 0 <= audio'
    BY <1>1, <1>3, OldAge DEF WriteAudio
  <2>4. SilenceInv'
    BY <1>3, <2>1, <2>3 DEF WriteAudio, SilenceInv
  <2> QED
    BY <2>2, <2>4 DEF ClockInv
<1>4. ASSUME NEW lag \in 0..MarkLag, MarkAudio(lag) PROVE ClockInv'
  <2>1. lag \in Ages /\ lag \in Nat
    BY OldAge DEF Ages
  <2>2. TimerTypeOK'
    BY <1>0, <1>4, <2>1 DEF MarkAudio, TimerTypeOK
  <2>3. sent = 0 /\ sent <= lag
    BY <1>2, <1>4, <2>1 DEF MarkAudio
  <2>4. SilenceInv'
    BY <1>2, <1>4, <2>3 DEF MarkAudio, SilenceInv
  <2> QED
    BY <2>2, <2>4 DEF ClockInv
<1>5. CASE FallSilent
  BY <1>0, <1>5 DEF FallSilent, TimerTypeOK, SilenceInv, ClockInv
<1>6. ASSUME NEW kind \in Kinds, Receive(kind) PROVE ClockInv'
  <2>1. /\ queue' \in Seq([kind : Kinds, age : Ages])
        /\ Len(queue') = Len(queue) + 1 /\ Len(queue) \in Nat
    BY <1>1, <1>6, ResultQueue DEF Receive
  <2>2. Len(queue') <= QueueLength
    BY <1>6, <2>1, OldAge DEF Receive, Room
  <2>3. TimerTypeOK'
    BY <1>0, <1>6, <2>1, <2>2 DEF Receive, TimerTypeOK
  <2>4. SilenceInv'
    BY <1>0, <1>6 DEF Receive, SilenceInv
  <2> QED
    BY <2>3, <2>4 DEF ClockInv
<1>7. CASE ApplyResult
  <2>1. PICK r : r = Head(queue)
    OBVIOUS
  <2>2. r.age \in Ages /\ queue' \in Seq([kind : Kinds, age : Ages]) /\ Len(queue') = Len(queue) - 1
    BY <1>1, <1>7, <2>1, ResultQueue DEF ApplyResult
  <2>3. publisher' \in {Free, Holding(r.age)} /\ result' = r.age /\ open' \in BOOLEAN
    BY <1>7, <2>1 DEF ApplyResult
  <2>4. publisher' \in [held : 0..Delay, idle : BOOLEAN, now : Ages]
    <3>1. Free \in [held : 0..Delay, idle : BOOLEAN, now : Ages]
      BY OldAge DEF Free
    <3>2. Holding(r.age) \in [held : 0..Delay, idle : BOOLEAN, now : Ages]
      <4>1. Wait(r.age) \in 0..Delay /\ 0 \in Ages
        BY <2>2, Waits, OldAge
      <4>2. Holding(r.age) = [held |-> Wait(r.age), idle |-> FALSE, now |-> 0]
        BY <2>2, Waits
      <4> QED
        BY <4>1, <4>2
    <3> QED
      BY <2>3, <3>1, <3>2
  <2>5. Len(queue') <= QueueLength
    BY <1>1, <2>2, OldAge, ResultQueue
  <2>6. TimerTypeOK'
    BY <1>0, <1>7, <2>2, <2>3, <2>4, <2>5 DEF ApplyResult, TimerTypeOK
  <2>7. SilenceInv'
    BY <1>0, <1>7 DEF ApplyResult, SilenceInv
  <2> QED
    BY <2>6, <2>7 DEF ClockInv
<1>8. CASE TakeTick
  <2>1. tick \in Ages /\ Wait(tick) \in 0..Delay /\ 0 \in 0..Delay
    BY <1>1, <1>8, Waits, OldAge DEF TakeTick
  <2>2. publisher' \in [held : 0..Delay, idle : BOOLEAN, now : Ages] /\ open' \in BOOLEAN
    BY <1>8, <2>1 DEF TakeTick
  <2>3. TimerTypeOK'
    BY <1>0, <1>8, <2>2 DEF TakeTick, TimerTypeOK
  <2>4. SilenceInv'
    BY <1>0, <1>8 DEF TakeTick, SilenceInv
  <2> QED
    BY <2>3, <2>4 DEF ClockInv
<1>9. CASE IdleCheck
  <2>1. Free \in [held : 0..Delay, idle : BOOLEAN, now : Ages]
    BY OldAge DEF Free
  <2>2. TimerTypeOK'
    BY <1>0, <1>9, <2>1 DEF IdleCheck, TimerTypeOK
  <2>3. SilenceInv'
    BY <1>0, <1>9 DEF IdleCheck, SilenceInv
  <2> QED
    BY <2>2, <2>3 DEF ClockInv
<1>10. CASE KeepAlive
  <2>1. sent' \in Ages /\ sent' < KeepAliveInterval /\ beat' = KeepAliveInterval
    <3>1. CASE HasRecentAudio
      <4>1. sent <= audio /\ audio \in Ages /\ audio < KeepAliveInterval
        BY <1>1, <1>2, <3>1 DEF HasRecentAudio
      <4> QED
        BY <1>1, <1>10, <3>1, <4>1, OldAge DEF KeepAlive
    <3>2. CASE ~HasRecentAudio
      BY <1>10, <3>2, OldAge DEF KeepAlive
    <3> QED
      BY <3>1, <3>2
  <2>2. sent' <= sent
    BY <1>1, <1>10, OldAge DEF KeepAlive
  <2>3. TimerTypeOK'
    BY <1>0, <1>10, <2>1, OldAge DEF KeepAlive, TimerTypeOK
  <2>4. sent' + beat' < 2 * KeepAliveInterval
    <3>1. sent' \in Nat /\ KeepAliveInterval \in Nat
      BY <2>1, OldAge
    <3> QED
      BY <2>1, <3>1, Halves
  <2>5. (marking => sent' = 0) /\ (audio # Never => sent' <= audio)
    BY <1>1, <1>2, <2>1, <2>2, OldAge
  <2>6. SilenceInv'
    BY <1>2, <1>10, <2>4, <2>5 DEF KeepAlive, SilenceInv
  <2> QED
    BY <2>3, <2>6 DEF ClockInv
<1>11. CASE Breaks
  BY <1>0, <1>11 DEF Breaks, TimerTypeOK, SilenceInv, ClockInv
<1>12. CASE Pass
  <2>1. /\ heard' \in Ages /\ sent' \in Ages /\ audio' \in Ages \cup {Never}
        /\ result' \in Ages \cup {Never} /\ tick' \in Ages \cup {Never}
    BY <1>1, <1>12, Ageing, OldAge DEF Pass
  <2>2. queue' \in Seq([kind : Kinds, age : Ages]) /\ Len(queue') <= QueueLength
    BY <1>1, <1>12, ResultQueue DEF Pass
  <2>3. publisher' \in [held : 0..Delay, idle : BOOLEAN, now : Ages]
    <3>1. CASE publisher.held = 0
      BY <1>0, <1>12, <3>1 DEF Pass, TimerTypeOK
    <3>2. CASE publisher.held # 0
      <4>1. publisher.held - 1 \in 0..Delay /\ Aged(publisher.now) \in Ages
        <5>1. Aged(publisher.now) \in Ages
          BY <1>1, Ageing
        <5>2. publisher.held - 1 \in 0..Delay
          BY <1>1, <3>2, TimerAssumption
        <5> QED
          BY <5>1, <5>2
      <4>2. publisher' = [publisher EXCEPT !.held = publisher.held - 1, !.now = Aged(publisher.now)]
        BY <1>12, <3>2 DEF Pass
      <4> QED
        BY <1>0, <4>1, <4>2 DEF TimerTypeOK
    <3> QED
      BY <3>1, <3>2
  <2>4. beat' \in 0..KeepAliveInterval
    <3>1. beat' = beat - 1 /\ beat > 0 /\ KeepAliveInterval \in Nat
      BY <1>12, OldAge DEF Pass
    <3> QED
      BY <1>1, <3>1
  <2>5. TimerTypeOK'
    BY <1>1, <1>12, <2>1, <2>2, <2>3, <2>4 DEF Pass, TimerTypeOK
  <2>6. sent' + beat' < 2 * KeepAliveInterval
    <3>1. sent' <= sent + 1 /\ beat' = beat - 1 /\ state = "up" /\ sent' \in Nat
      BY <1>1, <1>12, <2>1, Ageing, OldAge DEF Pass
    <3>2. sent \in Nat /\ beat \in Nat /\ KeepAliveInterval \in Nat
      BY <1>1, OldAge
    <3>3. sent + beat < 2 * KeepAliveInterval
      BY <1>2, <3>1
    <3> QED
      BY <3>1, <3>2, <3>3, Halves
  <2>7. audio' # Never => sent' <= audio'
    <3>1. CASE audio = Never
      BY <1>12, <3>1, Ageing DEF Pass
    <3>2. CASE audio # Never
      <4>1. audio \in Ages /\ sent <= audio
        BY <1>1, <1>2, <3>2
      <4> QED
        BY <1>1, <1>12, <4>1, Ageing DEF Pass
    <3> QED
      BY <3>1, <3>2
  <2>8. SilenceInv'
    BY <1>12, <2>6, <2>7 DEF Pass, SilenceInv
  <2> QED
    BY <2>5, <2>8 DEF ClockInv
<1>13. CASE UNCHANGED timerVars
  BY <1>0, <1>13 DEF timerVars, TimerTypeOK, SilenceInv, ClockInv
<1> QED
  BY <1>3, <1>4, <1>5, <1>6, <1>7, <1>8, <1>9, <1>10, <1>11, <1>12, <1>13 DEF TimerNext, PublishStep

\* What types say of the parts.
LEMMA TimerTyped ==
  ASSUME TimerTypeOK
  PROVE  /\ heard \in Nat /\ (audio # Never => audio \in Nat /\ audio \in Ages)
         /\ (result # Never => result \in Nat /\ result \in Ages)
         /\ (tick # Never => tick \in Nat /\ tick \in Ages)
         /\ heard \in Ages
         /\ queue \in Seq([kind : Kinds, age : Ages]) /\ Len(queue) \in Nat
         /\ DOMAIN queue = 1..Len(queue)
         /\ \A i \in DOMAIN queue : queue[i].age \in Nat /\ queue[i].age \in Ages
         /\ publisher.held \in 0..Delay /\ publisher.held \in Nat
         /\ publisher.idle \in BOOLEAN /\ publisher.now \in Ages /\ publisher.now \in Nat
<1>1. /\ heard \in Ages /\ audio \in Ages \cup {Never}
      /\ result \in Ages \cup {Never} /\ tick \in Ages \cup {Never}
      /\ queue \in Seq([kind : Kinds, age : Ages])
      /\ publisher.held \in 0..Delay /\ publisher.idle \in BOOLEAN /\ publisher.now \in Ages
  BY DEF TimerTypeOK
<1>2. \A a \in Ages : a \in Nat
  BY OldAge
<1>3. publisher.held \in Nat
  BY <1>1, OldAge
<1> QED
  BY <1>1, <1>2, <1>3, ResultQueue

\* When neither instants, queue nor loop change.
LEMMA StillFits ==
  ASSUME LagInv, WaitInv, OpenInv,
         UNCHANGED <<marking, heard, audio, result, open, queue, tick, publisher>>
  PROVE  LagInv' /\ WaitInv' /\ OpenInv'
<1>1. LagInv'
  BY DEF LagInv
<1>2. WaitInv'
  BY DEF WaitInv
<1>3. OpenInv'
  BY DEF OpenInv
<1> QED
  BY <1>1, <1>2, <1>3

\* Packets come.
LEMMA AudioFits ==
  ASSUME FitInv, WriteAudio \/ \E lag \in 0..MarkLag : MarkAudio(lag)
  PROVE  LagInv' /\ WaitInv' /\ OpenInv' /\ IdleLosesNothing'
<1>1. /\ heard' = 0 /\ UNCHANGED <<result, open, queue, tick, publisher>>
  BY DEF WriteAudio, MarkAudio, FitInv, ClockInv, SilenceInv
<1>2. \/ marking' = TRUE
      \/ audio' \in 0..MarkLag
  BY DEF WriteAudio, MarkAudio
<1>3. /\ \A i \in DOMAIN queue : queue[i].age \in Nat
      /\ result # Never => result \in Nat
  BY TimerTyped DEF FitInv, ClockInv
<1>4. LagInv'
  <2>1. /\ \A i \in DOMAIN queue : 0 <= queue[i].age + ResultLag
        /\ result # Never => 0 <= result + ResultLag
    BY <1>3, OldAge
  <2>2. audio' # Never /\ ~marking' => audio' <= 0 + MarkLag
    BY <1>2, OldAge
  <2>3. open => result # Never
    BY DEF FitInv, LagInv
  <2> QED
    BY <1>1, <2>1, <2>2, <2>3 DEF LagInv
<1>5. WaitInv'
  BY <1>1 DEF FitInv, WaitInv
<1>6. OpenInv'
  BY <1>1 DEF FitInv, OpenInv
<1>7. IdleLosesNothing'
  <2>1. ~(0 > ResultLag)
    BY OldAge
  <2> QED
    BY <1>1, <2>1 DEF IdleLosesNothing
<1> QED
  BY <1>4, <1>5, <1>6, <1>7

\* A result comes in.
LEMMA ReceiveFits ==
  ASSUME FitInv, NEW kind \in Kinds, Receive(kind)
  PROVE  LagInv' /\ WaitInv' /\ OpenInv' /\ IdleLosesNothing'
<1>1. /\ UNCHANGED <<state, marking, heard, audio, result, open, tick, publisher>>
      /\ state = "up" /\ heard <= ResultLag
      /\ queue' = Append(queue, [kind |-> kind, age |-> 0])
  BY DEF Receive
<1>2. TimerTypeOK /\ LagInv /\ WaitInv /\ OpenInv
  BY DEF FitInv, ClockInv
<1>3. /\ Len(queue) \in Nat /\ DOMAIN queue = 1..Len(queue)
      /\ DOMAIN queue' = 1..(Len(queue) + 1)
      /\ queue'[Len(queue) + 1].age = 0 /\ \A n \in DOMAIN queue : queue'[n] = queue[n]
  BY <1>1, <1>2, TimerTyped, ResultQueue
<1>4. \A i \in DOMAIN queue' : i \in DOMAIN queue \/ i = Len(queue) + 1
  BY <1>3
<1>5. \A i \in DOMAIN queue : queue[i].age \in Nat /\ i < Len(queue) + 1
  BY <1>2, <1>3, TimerTyped
<1>6. LagInv'
  <2>1. heard <= 0 + ResultLag
    BY <1>1, <1>2, TimerTyped, OldAge
  <2>2. \A i \in DOMAIN queue' : heard <= queue'[i].age + ResultLag
    BY <1>2, <1>3, <1>4, <2>1 DEF LagInv
  <2> QED
    BY <1>1, <1>2, <2>2 DEF LagInv
<1>7. WaitInv'
  <2>1. ASSUME NEW i \in DOMAIN queue', NEW j \in DOMAIN queue', i <= j
        PROVE  queue'[j].age <= queue'[i].age
    <3>1. CASE j = Len(queue) + 1
      BY <1>3, <1>4, <1>5, <3>1
    <3>2. CASE j \in DOMAIN queue
      <4>1. i \in DOMAIN queue
        BY <1>3, <2>1, <3>2
      <4> QED
        BY <1>2, <1>3, <2>1, <3>2, <4>1 DEF WaitInv
    <3> QED
      BY <1>4, <3>1, <3>2
  <2>2. 0 + publisher.held <= Delay
    BY <1>2, TimerTyped, OldAge
  <2>3. \A i \in DOMAIN queue' : queue'[i].age + publisher.held <= Delay
    BY <1>2, <1>3, <1>4, <2>2 DEF WaitInv
  <2> QED
    BY <1>1, <1>2, <2>1, <2>3 DEF WaitInv
<1>8. OpenInv'
  BY <1>1, <1>2, <1>3, <1>4 DEF OpenInv
<1> QED
  BY <1>1, <1>6, <1>7, <1>8 DEF IdleLosesNothing

\* The loop takes a result: what waits behind it came later.
LEMMA ApplyFits ==
  ASSUME FitInv, ApplyResult
  PROVE  LagInv' /\ WaitInv' /\ OpenInv' /\ IdleLosesNothing'
<1>1. PICK r : r = Head(queue)
  OBVIOUS
<1>2. /\ UNCHANGED <<state, marking, heard, audio, tick>> /\ state = "up"
      /\ publisher.held = 0 /\ ~publisher.idle /\ queue # <<>>
      /\ queue' = Tail(queue) /\ result' = r.age /\ publisher' \in {Free, Holding(r.age)}
  BY <1>1 DEF ApplyResult, Selecting
<1>3. TimerTypeOK /\ LagInv /\ WaitInv /\ OpenInv
  BY DEF FitInv, ClockInv
<1>4. /\ queue \in Seq([kind : Kinds, age : Ages]) /\ Len(queue) \in Nat
      /\ DOMAIN queue = 1..Len(queue) /\ DOMAIN queue' = 1..(Len(queue) - 1) /\ 1 \in DOMAIN queue
      /\ r = queue[1] /\ \A n \in DOMAIN queue' : queue'[n] = queue[n + 1] /\ n + 1 \in DOMAIN queue
  BY <1>1, <1>2, <1>3, TimerTyped, ResultQueue
<1>5. /\ r.age \in Nat /\ r.age \in Ages /\ r.age # Never /\ r.age <= Delay
      /\ heard <= r.age + ResultLag
  <2>1. r.age \in Nat /\ r.age \in Ages
    BY <1>3, <1>4, TimerTyped
  <2>2. r.age + 0 <= Delay
    BY <1>2, <1>3, <1>4 DEF WaitInv
  <2>3. heard <= r.age + ResultLag
    BY <1>3, <1>4 DEF LagInv
  <2> QED
    BY <2>1, <2>2, <2>3, OldAge
<1>6. /\ ~publisher'.idle /\ publisher'.held \in Nat
      /\ publisher'.held > 0 => r.age + publisher'.held = Delay
  BY <1>2, <1>5, Waits, OldAge DEF Free
<1>7. LagInv'
  BY <1>2, <1>3, <1>4, <1>5 DEF LagInv
<1>8. \A i \in DOMAIN queue' : queue'[i].age \in Nat /\ queue'[i].age <= r.age
  <2> TAKE i \in DOMAIN queue'
  <2>1. 1 \in DOMAIN queue /\ i + 1 \in DOMAIN queue /\ 1 <= i + 1 /\ queue'[i] = queue[i + 1]
    BY <1>4
  <2> QED
    BY <1>3, <1>4, <2>1, TimerTyped DEF WaitInv
<1>9. WaitInv'
  <2>1. ASSUME NEW i \in DOMAIN queue', NEW j \in DOMAIN queue', i <= j
        PROVE  queue'[j].age <= queue'[i].age
    <3>1. i + 1 \in DOMAIN queue /\ j + 1 \in DOMAIN queue /\ i + 1 <= j + 1
      BY <1>4, <2>1
    <3> QED
      BY <1>3, <1>4, <3>1 DEF WaitInv
  <2>2. \A i \in DOMAIN queue' : queue'[i].age + publisher'.held <= Delay
    BY <1>5, <1>6, <1>8, OldAge
  <2>3. publisher'.held > 0 => result' + publisher'.held <= Delay
    BY <1>2, <1>5, <1>6, OldAge
  <2> QED
    BY <1>2, <1>5, <2>1, <2>2, <2>3 DEF WaitInv
<1>10. OpenInv'
  <2>1. tick # Never => ~(r.age - tick > Delay)
    BY <1>3, <1>5, TimerTyped, OldAge
  <2> QED
    BY <1>2, <1>6, <2>1 DEF OpenInv
<1> QED
  BY <1>2, <1>7, <1>9, <1>10 DEF IdleLosesNothing

\* The loop takes a tick: a finalization makes results wait, but then none was waiting.
LEMMA TickFits ==
  ASSUME TimersFit, FitInv, TakeTick
  PROVE  LagInv' /\ WaitInv' /\ OpenInv' /\ IdleLosesNothing'
<1>1. PICK due \in BOOLEAN : due = LocalFinalizeDue(tick)
  BY DEF LocalFinalizeDue
<1>2. /\ UNCHANGED <<state, marking, heard, audio, result, queue>> /\ state = "up"
      /\ publisher.held = 0 /\ ~publisher.idle /\ tick # Never /\ tick' = Never
      /\ open' = (open /\ ~due)
      /\ publisher' = [held |-> IF due THEN Wait(tick) ELSE 0, idle |-> TRUE, now |-> tick]
  BY <1>1 DEF TakeTick, Selecting
<1>3. TimerTypeOK /\ LagInv /\ WaitInv /\ OpenInv
  BY DEF FitInv, ClockInv
<1>4. tick \in Ages /\ tick \in Nat /\ \A i \in DOMAIN queue : queue[i].age \in Nat
  BY <1>2, <1>3, TimerTyped
<1>5. publisher'.idle /\ publisher'.now = tick /\ publisher'.held = IF due THEN Wait(tick) ELSE 0
  BY <1>2
<1>6. LagInv'
  BY <1>2, <1>3 DEF LagInv
<1>7. ASSUME due PROVE \A i \in DOMAIN queue : queue[i].age = 0
  <2>1. open /\ result # Never /\ result - tick >= LocalFinalize
    BY <1>1, <1>7 DEF LocalFinalizeDue, Since
  <2>2. result - tick > Delay
    BY <1>3, <1>4, <2>1, TimerTyped, OldAge DEF TimersFit
  <2> QED
    BY <1>2, <1>3, <2>1, <2>2 DEF OpenInv
<1>8. WaitInv'
  <2>1. \A i \in DOMAIN queue : queue[i].age + publisher'.held <= Delay
    <3>1. CASE due
      <4>1. Wait(tick) \in 0..Delay
        BY <1>4, Waits
      <4> QED
        BY <1>5, <1>7, <3>1, <4>1, OldAge
    <3>2. CASE ~due
      BY <1>2, <1>3, <1>5, <3>2 DEF WaitInv
    <3> QED
      BY <3>1, <3>2
  <2> QED
    BY <1>2, <1>3, <1>5, <2>1 DEF WaitInv
<1>9. OpenInv'
  <2>1. ASSUME open' PROVE /\ publisher'.held = 0
                           /\ \/ result - tick < LocalFinalize
                              \/ audio # Never /\ audio - tick < LocalFinalize
    <3>1. open /\ ~due /\ result # Never
      BY <1>2, <1>3, <2>1 DEF LagInv
    <3>2. \/ ~(result - tick >= LocalFinalize)
          \/ audio # Never /\ ~(audio - tick >= LocalFinalize)
      BY <1>1, <3>1, OldAge DEF LocalFinalizeDue, Since, TimersFit
    <3>3. result \in Nat /\ (audio # Never => audio \in Nat)
      BY <1>3, <3>1, TimerTyped
    <3> QED
      BY <1>4, <1>5, <3>1, <3>2, <3>3, OldAge
  <2> QED
    BY <1>2, <1>5, <2>1 DEF OpenInv
<1> QED
  BY <1>2, <1>6, <1>8, <1>9 DEF IdleLosesNothing

\* The idle check.
LEMMA CheckFits ==
  ASSUME TimersFit, FitInv, IdleCheck
  PROVE  LagInv' /\ WaitInv' /\ OpenInv' /\ IdleLosesNothing'
<1>1. /\ UNCHANGED <<marking, heard, audio, result, open, queue, tick>>
      /\ publisher.held = 0 /\ publisher.idle /\ publisher' = Free
      /\ state' = IF IdleDue(publisher.now) THEN "idle" ELSE "up"
  BY DEF IdleCheck
<1>2. TimerTypeOK /\ LagInv /\ WaitInv /\ OpenInv /\ SilenceInv
  BY DEF FitInv, ClockInv
<1>3. publisher'.held = 0 /\ ~publisher'.idle
  BY <1>1 DEF Free
<1>4. LagInv'
  BY <1>1, <1>2 DEF LagInv
<1>5. WaitInv'
  BY <1>1, <1>2, <1>3 DEF WaitInv
<1>6. OpenInv'
  BY <1>1, <1>2, <1>3 DEF OpenInv
<1>7. IdleLosesNothing'
  <2> SUFFICES ASSUME IdleDue(publisher.now), heard > ResultLag
               PROVE  ~open /\ queue = <<>>
    BY <1>1 DEF IdleLosesNothing
  <2>1. audio # Never /\ audio - publisher.now >= SpeakerIdleClose
    BY DEF IdleDue, Since
  <2>2. heard # 0
    BY OldAge
  <2>3. audio <= heard + MarkLag
    BY <1>2, <2>1, <2>2 DEF LagInv, SilenceInv
  <2>4. audio \in Nat /\ heard \in Nat /\ publisher.now \in Nat
    BY <1>2, <2>1, TimerTyped
  <2>5. /\ heard >= LocalFinalize + ResultLag + publisher.now
        /\ audio - publisher.now >= LocalFinalize
    BY <2>1, <2>3, <2>4, OldAge DEF TimersFit
  <2>6. ~open
    <3> SUFFICES ASSUME open PROVE FALSE
      OBVIOUS
    <3>1. result # Never /\ result \in Nat /\ heard <= result + ResultLag
      BY <1>2, TimerTyped DEF LagInv
    <3>2. \/ result - publisher.now < LocalFinalize
          \/ audio - publisher.now < LocalFinalize
      BY <1>1, <1>2, <2>2 DEF OpenInv
    <3> QED
      BY <2>4, <2>5, <3>1, <3>2, OldAge
  <2>7. queue = <<>>
    <3> SUFFICES ASSUME queue # <<>> PROVE FALSE
      OBVIOUS
    <3>1. 1 \in DOMAIN queue /\ queue[1].age \in Nat
      BY <1>2, TimerTyped, ResultQueue
    <3>2. queue[1].age + 0 <= Delay /\ heard <= queue[1].age + ResultLag
      BY <1>1, <1>2, <3>1 DEF WaitInv, LagInv
    <3> QED
      BY <2>4, <2>5, <3>1, <3>2, OldAge DEF TimersFit
  <2> QED
    BY <2>6, <2>7
<1> QED
  BY <1>4, <1>5, <1>6, <1>7

\* Time passes only when nothing waits or the loop is held up.
LEMMA PassFits ==
  ASSUME FitInv, Pass
  PROVE  LagInv' /\ WaitInv' /\ OpenInv' /\ IdleLosesNothing'
<1>1. /\ UNCHANGED <<state, marking, open>> /\ state = "up" /\ ~marking
      /\ publisher.held > 0 \/ (queue = <<>> /\ tick = Never /\ ~publisher.idle)
      /\ heard' = Aged(heard) /\ audio' = Aged(audio) /\ result' = Aged(result)
      /\ queue' = [i \in DOMAIN queue |-> [queue[i] EXCEPT !.age = Aged(@)]]
      /\ tick' = IF tick = Never THEN 0 ELSE Aged(tick)
      /\ publisher' = IF publisher.held = 0 THEN publisher
                      ELSE [publisher EXCEPT !.held = @ - 1, !.now = Aged(@)]
  BY DEF Pass
<1>2. TimerTypeOK /\ LagInv /\ WaitInv /\ OpenInv
  BY DEF FitInv, ClockInv
<1>3. /\ DOMAIN queue' = DOMAIN queue
      /\ \A i \in DOMAIN queue : queue'[i].age = Aged(queue[i].age) /\ queue[i].age \in Ages
      /\ Len(queue') = Len(queue) /\ heard \in Ages
      /\ (result # Never => result \in Ages) /\ (audio # Never => audio \in Ages)
      /\ (tick # Never => tick \in Ages)
  BY <1>1, <1>2, TimerTyped, ResultQueue
<1>4. /\ \A i \in DOMAIN queue : /\ queue'[i].age \in Nat /\ queue[i].age \in Nat
                                 /\ queue'[i].age <= queue[i].age + 1
      /\ (result = Never => result' = Never) /\ (audio = Never => audio' = Never)
      /\ tick' # Never /\ tick' \in Nat
      /\ (result # Never => /\ result' # Never /\ result' \in Nat
                            /\ result' <= result + 1 /\ result \in Nat)
  <2>1. \A a \in Ages : Aged(a) \in Nat /\ a \in Nat /\ Aged(a) <= a + 1 /\ Aged(a) # Never
    BY Ageing, OldAge
  <2>2. 0 # Never /\ Aged(Never) = Never
    BY Ageing DEF Never
  <2> QED
    BY <1>1, <1>3, <2>1, <2>2
<1>5. LagInv'
  <2>1. \A i \in DOMAIN queue' : heard' <= queue'[i].age + ResultLag
    BY <1>1, <1>2, <1>3, Ageing, OldAge DEF LagInv
  <2>2. result' # Never => heard' <= result' + ResultLag
    BY <1>1, <1>2, <1>3, <1>4, Ageing, OldAge DEF LagInv
  <2>3. audio' # Never => audio' <= heard' + MarkLag
    BY <1>1, <1>2, <1>3, <1>4, Ageing, OldAge DEF LagInv
  <2>4. open' => result' # Never
    BY <1>1, <1>2, <1>4 DEF LagInv
  <2> QED
    BY <2>1, <2>2, <2>3, <2>4 DEF LagInv
<1>6. \A i, j \in DOMAIN queue' : i <= j => queue'[j].age <= queue'[i].age
  BY <1>2, <1>3, Ageing DEF WaitInv
<1>7. CASE publisher.held = 0
  <2>1. queue = <<>> /\ tick = Never /\ ~publisher.idle /\ publisher' = publisher
    BY <1>1, <1>7
  <2>2. DOMAIN queue' = {}
    BY <1>3, <2>1
  <2>3. WaitInv'
    BY <1>7, <2>1, <2>2 DEF WaitInv
  <2>4. OpenInv'
    BY <1>7, <2>1, <2>2 DEF OpenInv
  <2> QED
    BY <1>1, <1>5, <2>3, <2>4 DEF IdleLosesNothing
<1>8. CASE publisher.held # 0
  <2>1. /\ publisher'.held = publisher.held - 1 /\ publisher'.idle = publisher.idle
        /\ publisher.held \in Nat /\ publisher.held > 0 /\ publisher'.held \in Nat
    <3>1. publisher \in [held : 0..Delay, idle : BOOLEAN, now : Ages] /\ publisher.held \in Nat
      BY <1>2, TimerTyped DEF TimerTypeOK
    <3> QED
      BY <1>1, <1>8, <3>1
  <2>2. \A i \in DOMAIN queue' : queue'[i].age + publisher'.held <= Delay
    <3> TAKE i \in DOMAIN queue'
    <3>1. /\ queue'[i].age \in Nat /\ queue[i].age \in Nat /\ queue'[i].age <= queue[i].age + 1
          /\ queue[i].age + publisher.held <= Delay
      BY <1>2, <1>3, <1>4 DEF WaitInv
    <3> QED
      BY <2>1, <3>1, OldAge
  <2>3. ~publisher.idle => result' # Never /\ result' + publisher'.held <= Delay
    BY <1>2, <1>4, <2>1, OldAge DEF WaitInv
  <2>4. WaitInv'
    BY <1>6, <2>1, <2>2, <2>3 DEF WaitInv
  <2>5. ~(publisher.idle /\ open)
    BY <1>2, <1>8 DEF OpenInv
  <2>6. ~publisher.idle => ~(result' - tick' > Delay)
    BY <1>4, <2>1, <2>3, OldAge
  <2>7. OpenInv'
    BY <1>1, <2>1, <2>5, <2>6 DEF OpenInv
  <2> QED
    BY <1>1, <1>5, <2>4, <2>7 DEF IdleLosesNothing
<1> QED
  BY <1>7, <1>8

\* FitInv holds at first.
LEMMA FitInit == TimerInit => FitInv
<1> SUFFICES ASSUME TimerInit PROVE FitInv
  OBVIOUS
<1>1. /\ state = "up" /\ ~marking /\ ~open /\ audio = Never /\ result = Never
      /\ queue = <<>> /\ tick = Never /\ publisher.held = 0 /\ ~publisher.idle
  BY DEF TimerInit, Free
<1>2. DOMAIN queue = {}
  BY <1>1
<1>3. ClockInv
  BY ClockInit
<1>4. LagInv
  BY <1>1, <1>2 DEF LagInv
<1>5. WaitInv /\ OpenInv
  BY <1>1, <1>2 DEF WaitInv, OpenInv
<1> QED
  BY <1>1, <1>3, <1>4, <1>5 DEF FitInv, IdleLosesNothing

\* Every step keeps it, if the settings fit together.
LEMMA FitNext ==
  ASSUME TimersFit
  PROVE  FitInv /\ [TimerNext]_timerVars => FitInv'
<1> SUFFICES ASSUME FitInv, [TimerNext]_timerVars PROVE FitInv'
  OBVIOUS
<1>1. ClockInv'
  BY ClockNext DEF FitInv
<1>2. CASE KeepAlive \/ FallSilent \/ Breaks \/ UNCHANGED timerVars
  <2>1. /\ UNCHANGED <<marking, heard, audio, result, open, queue, tick, publisher>>
        /\ state' = state \/ state' = "failed"
    BY <1>2 DEF KeepAlive, FallSilent, Breaks, timerVars
  <2>2. LagInv' /\ WaitInv' /\ OpenInv'
    BY <2>1, StillFits DEF FitInv
  <2>3. IdleLosesNothing'
    BY <2>1 DEF FitInv, IdleLosesNothing
  <2> QED
    BY <1>1, <2>2, <2>3 DEF FitInv
<1> QED
  BY <1>1, <1>2, AudioFits, ReceiveFits, ApplyFits, TickFits, CheckFits, PassFits
     DEF FitInv, TimerNext, PublishStep

\* Types, the capacity of the result queue, and the bound on the silence on the wire, for any
\* settings (readLoop, keepAliveLoop, hasRecentAudio).
THEOREM TimersAreSafe == TimerSpec => []TimerInv
<1>1. ASSUME ClockInv PROVE TimerInv
  <2>1. state = "up" => sent < 2 * KeepAliveInterval
    <3>1. sent \in Nat /\ beat \in Nat /\ KeepAliveInterval \in Nat
      <4>1. sent \in Ages /\ beat \in 0..KeepAliveInterval
        BY <1>1 DEF ClockInv, TimerTypeOK
      <4> QED
        BY <4>1, OldAge
    <3>2. state = "up" => sent + beat < 2 * KeepAliveInterval
      BY <1>1 DEF ClockInv, SilenceInv
    <3> QED
      BY <3>1, <3>2, Halves
  <2> QED
    BY <1>1, <2>1 DEF ClockInv, TimerInv, SilenceBounded
<1> QED
  BY <1>1, ClockInit, ClockNext, PTL DEF TimerSpec

\* If the delay is shorter than the local finalization and the idle close leaves time for the
\* last result and the finalization, the idle close finds every utterance final and no result
\* in the queue (publishLoop, localFinalizeDue, idleDue).
THEOREM IdleCloseIsLate ==
  ASSUME TimersFit
  PROVE  TimerSpec => []IdleLosesNothing
<1>1. FitInv => IdleLosesNothing
  BY DEF FitInv
<1>2. FitInv /\ [TimerNext]_timerVars => FitInv'
  BY FitNext
<1> QED
  BY <1>1, <1>2, FitInit, PTL DEF TimerSpec
=============================================================================
