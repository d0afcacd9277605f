-------------------------- MODULE DeepgramSession --------------------------
(***************************************************************************)
(* A Deepgram session and its speaker connections (internal/deepgram:       *)
(* session.go, connections.go, speaker_connection.go, provider.go).         *)
(*                                                                          *)
(* Several goroutines hand packets to Ingest (the one of the current        *)
(* ingress and those of ingresses it replaced); every connection has three  *)
(* loops; Close runs once.  An action is one critical section of            *)
(* Session.mu, one closeOnce.Do, or one answer of the provider.  A link is  *)
(* a dial and, if it succeeds, the connection it became.  Payloads and      *)
(* counters are left out; Utterance has the transcripts.                    *)
(***************************************************************************)
EXTENDS Naturals, FiniteSets

CONSTANTS
  Callers,         \* goroutines that call Ingest
  PacketsOf,       \* what each may bring: <<user, source, generation of the voice connection>>
  Users, SSRCs,    \* who speaks; voice sources
  NoUser,          \* the user of a source is not resolved yet
  Loops,           \* "read" and others of "keepalive", "publish"
  MaxConnections,  \* options.maxConnections
  MaxGeneration,   \* bound: voice connection generations
  MaxLinks         \* bound: dials

ASSUME SessionAssumption ==
  /\ "read" \in Loops /\ Loops \subseteq {"read", "keepalive", "publish"}
  /\ PacketsOf \in [Callers -> SUBSET ((Users \cup {NoUser}) \X SSRCs \X (1..MaxGeneration))]
  /\ \E c \in Callers : PacketsOf[c] # {}
  /\ NoUser \notin Users /\ Users \cap SSRCs = {}
  /\ MaxConnections \in Nat /\ MaxGeneration \in Nat /\ MaxLinks \in Nat

Packets == UNION {PacketsOf[c] : c \in Callers}
Links == 1..MaxLinks
Generation == 1..MaxGeneration

UserOf(p) == p[1]
SSRCOf(p) == p[2]
GenerationOf(p) == p[3]

\* connectionKeyFor
KeyFor(p) == <<IF UserOf(p) # NoUser THEN UserOf(p) ELSE SSRCOf(p), GenerationOf(p)>>
Keys == (Users \cup SSRCs) \X Generation

VARIABLES
  closed,    \* s.closed
  latest,    \* s.latestConnectionGeneration
  terminal,  \* s.terminalProviderErr is set
  conns,     \* s.conns: links by key
  dialing,   \* s.dialing: links by key
  made,      \* dials so far
  link,      \* key, ssrc and state of the links.  That a dial is cancelled is not
             \* kept: it may fail at any time, and succeed although cancelled
  loop,      \* where the loops of a connection are
  caller,    \* locals of Ingest and connection
  closer     \* close(): its step, and the connections gracefulClose still has

sessionVars == <<closed, latest, terminal, conns, dialing, made>>
vars == <<sessionVars, link, loop, caller, closer>>

Some == CHOOSE k \in Keys : TRUE
NoLink == [key |-> Some, ssrc |-> CHOOSE s \in SSRCs : TRUE, state |-> "none"]
Idle == [step |-> "idle", link |-> 0, victims |-> {},
         packet |-> CHOOSE p \in Packets : TRUE]

Registered == {conns[k] : k \in DOMAIN conns}

TypeOK ==
  /\ closed \in BOOLEAN /\ latest \in 0..MaxGeneration /\ terminal \in BOOLEAN
  /\ DOMAIN conns \subseteq Keys /\ DOMAIN dialing \subseteq Keys
  /\ \A k \in DOMAIN conns : conns[k] \in Links /\ link[conns[k]].key = k
  /\ \A k \in DOMAIN dialing : dialing[k] \in Links /\ link[dialing[k]].key = k
  /\ Cardinality(DOMAIN conns) + Cardinality(DOMAIN dialing) <= MaxConnections
  /\ made \in 0..MaxLinks
  /\ link \in [Links -> [key : Keys, ssrc : SSRCs,
                         state : {"none", "dialing", "failed", "open", "graceful", "closed"}]]
  /\ loop \in [Links -> [Loops -> {"off", "run", "discard", "abort", "done"}]]
  /\ caller \in [Callers -> [step : {"idle", "connect", "evict", "wait", "dial", "write",
                                     "discard", "abort"},
                             link : 0..MaxLinks, victims : SUBSET Links, packet : Packets]]
  /\ closer \in [step : {"none", "dials", "closes", "loops", "done"}, todo : SUBSET Links]

Init ==
  /\ closed = FALSE /\ latest = 0 /\ terminal = FALSE /\ made = 0
  /\ conns = [k \in {} |-> 0] /\ dialing = [k \in {} |-> 0]
  /\ link = [d \in Links |-> NoLink]
  /\ loop = [d \in Links |-> [l \in Loops |-> "off"]]
  /\ caller = [c \in Callers |-> Idle]
  /\ closer = [step |-> "none", todo |-> {}]

Without(map, keys) == [k \in DOMAIN map \ keys |-> map[k]]
With(map, key, d) == [k \in DOMAIN map \cup {key} |-> IF k = key THEN d ELSE map[k]]
-----------------------------------------------------------------------------
(* Session.connection: one turn of its loop is one critical section.       *)

Return(c) == caller' = [caller EXCEPT ![c] = Idle]
Turn(c, step, d, victims) ==
  caller' = [caller EXCEPT ![c] = [@ EXCEPT !.step = step, !.link = d, !.victims = victims]]
Goto(c, step, d) == caller' = [caller EXCEPT ![c] = [Idle EXCEPT !.step = step, !.link = d]]

\* Goroutines whose packet may still need a dial.
Pending == {c \in Callers : caller[c].step \in {"connect", "evict", "wait"}}

\* The bound on dials is here: a packet that is let in dials at most once.
Ingest(c, p) ==
  /\ caller[c].step = "idle"
  /\ made + Cardinality(Pending) < MaxLinks
  /\ caller' = [caller EXCEPT ![c] = [Idle EXCEPT !.step = "connect", !.packet = p]]
  /\ UNCHANGED <<sessionVars, link, loop, closer>>

Refuses(p) == closed \/ GenerationOf(p) < latest

ConnectRefused(c) ==
  /\ caller[c].step = "connect" /\ Refuses(caller[c].packet)
  /\ Return(c)
  /\ UNCHANGED <<sessionVars, link, loop, closer>>

OlderThan(map, g) == {k \in DOMAIN map : k[2] < g}

\* A newer voice connection takes the older dials and connections away.
EvictOlder(c) ==
  LET g == GenerationOf(caller[c].packet)
      older == OlderThan(conns, g)  olderDials == OlderThan(dialing, g) IN
  /\ caller[c].step = "connect" /\ ~Refuses(caller[c].packet)
  /\ older \cup olderDials # {}
  /\ latest' = g
  /\ conns' = Without(conns, older) /\ dialing' = Without(dialing, olderDials)
  /\ Turn(c, "evict", 0, {conns[k] : k \in older})
  /\ UNCHANGED <<closed, terminal, made, link, loop, closer>>

\* The turn goes on with nothing older registered.
Settled(c) ==
  /\ caller[c].step = "connect" /\ ~Refuses(caller[c].packet)
  /\ OlderThan(conns, GenerationOf(caller[c].packet)) = {}
  /\ OlderThan(dialing, GenerationOf(caller[c].packet)) = {}
  /\ latest' = GenerationOf(caller[c].packet)

ConnectTerminal(c) ==
  /\ Settled(c) /\ terminal
  /\ Return(c)
  /\ UNCHANGED <<closed, terminal, conns, dialing, made, link, loop, closer>>

ConnectFound(c) ==
  LET k == KeyFor(caller[c].packet) IN
  /\ Settled(c) /\ ~terminal
  /\ k \in DOMAIN conns
  /\ Goto(c, "write", conns[k])
  /\ UNCHANGED <<closed, terminal, conns, dialing, made, link, loop, closer>>

\* Connections of the same user or voice source under another key.
SameSpeaker(p) ==
  {k \in DOMAIN conns : /\ k # KeyFor(p)
                        /\ (UserOf(p) # NoUser /\ k[1] = UserOf(p)) \/ link[conns[k]].ssrc = SSRCOf(p)}

EvictSame(c) ==
  LET p == caller[c].packet IN
  /\ Settled(c) /\ ~terminal
  /\ KeyFor(p) \notin DOMAIN conns /\ SameSpeaker(p) # {}
  /\ conns' = Without(conns, SameSpeaker(p))
  /\ Turn(c, "evict", 0, {conns[k] : k \in SameSpeaker(p)})
  /\ UNCHANGED <<closed, terminal, dialing, made, link, loop, closer>>

MustDial(c) ==
  /\ Settled(c) /\ ~terminal
  /\ KeyFor(caller[c].packet) \notin DOMAIN conns /\ SameSpeaker(caller[c].packet) = {}

ConnectWaits(c) ==
  LET k == KeyFor(caller[c].packet) IN
  /\ MustDial(c) /\ k \in DOMAIN dialing
  /\ Turn(c, "wait", dialing[k], {})
  /\ UNCHANGED <<closed, terminal, conns, dialing, made, link, loop, closer>>

\* Mutant: dials in progress do not count.
FullOfConnections == Cardinality(DOMAIN conns) >= MaxConnections

Full == Cardinality(DOMAIN conns) + Cardinality(DOMAIN dialing) >= MaxConnections

ConnectFull(c) ==
  /\ MustDial(c) /\ KeyFor(caller[c].packet) \notin DOMAIN dialing /\ Full
  /\ Return(c)
  /\ UNCHANGED <<closed, terminal, conns, dialing, made, link, loop, closer>>

DialBegins(c) ==
  LET p == caller[c].packet IN
  /\ MustDial(c) /\ KeyFor(p) \notin DOMAIN dialing /\ ~Full
  /\ made' = made + 1
  /\ dialing' = With(dialing, KeyFor(p), made')
  /\ link' = [link EXCEPT ![made'] = [key |-> KeyFor(p), ssrc |-> SSRCOf(p),
                                      state |-> "dialing"]]
  /\ Goto(c, "dial", made')
  /\ UNCHANGED <<closed, terminal, conns, loop, closer>>

\* abort: closeOnce.Do waits while gracefulClose is inside.
MayAbort(d) == link[d].state # "graceful"

\* The connections that were taken out are aborted; then the next turn.
Evict(c) ==
  /\ caller[c].step = "evict"
  /\ \/ \E d \in caller[c].victims :
          /\ MayAbort(d)
          /\ link' = [link EXCEPT ![d].state = "closed"]
          /\ Turn(c, "evict", 0, caller[c].victims \ {d})
     \/ /\ caller[c].victims = {}
        /\ Turn(c, "connect", 0, {}) /\ UNCHANGED link
  /\ UNCHANGED <<sessionVars, loop, closer>>

\* The wait for another goroutine's dial: its error, or another turn.
WaitEnds(c) ==
  /\ caller[c].step = "wait" /\ link[caller[c].link].state # "dialing"
  /\ IF link[caller[c].link].state = "failed" THEN Return(c) ELSE Turn(c, "connect", 0, {})
  /\ UNCHANGED <<sessionVars, link, loop, closer>>

WaitExpires(c) ==
  /\ caller[c].step = "wait"
  /\ Return(c)
  /\ UNCHANGED <<sessionVars, link, loop, closer>>
-----------------------------------------------------------------------------
(* completeDial.                                                           *)

\* Mutant: a dial that ends after Close installs its connection.
InstallsLate(d) == link[d].key[2] >= latest

\* Mutant: a delayed dial of an older voice connection installs it.
InstallsOlder(d) == ~closed

\* What the critical section after the dial makes of a socket.
Installs(d) == ~closed /\ link[d].key[2] >= latest

\* Mutant: the key stays marked as being dialled when the session has closed.
FinishesUnlessClosed(d) ==
  /\ dialing' = Without(dialing, {link[d].key})
  /\ link' = [link EXCEPT ![d].state = IF closed THEN "dialing" ELSE "failed"]

\* delete(s.dialing, key), call.err and close(call.done).
DialFinishes(d) ==
  /\ dialing' = Without(dialing, {link[d].key})
  /\ link' = [link EXCEPT ![d].state = "failed"]

DialSucceeds(c) ==
  LET d == caller[c].link IN
  /\ caller[c].step = "dial"
  /\ IF Installs(d)
     THEN /\ dialing' = Without(dialing, {link[d].key})
          /\ conns' = With(conns, link[d].key, d)
          /\ link' = [link EXCEPT ![d].state = "open"]
          /\ loop' = [loop EXCEPT ![d] = [l \in Loops |-> "run"]]
          /\ Goto(c, "write", d)
     ELSE /\ DialFinishes(d)
          /\ Return(c)
          /\ UNCHANGED <<conns, loop>>
  /\ UNCHANGED <<closed, latest, terminal, made, closer>>

\* classifyDialFailure: rejections are final for the session, the rest (and
\* a cancelled dial) is not.
DialFails(c) ==
  /\ caller[c].step = "dial"
  /\ DialFinishes(caller[c].link)
  /\ terminal' \in {terminal, TRUE}
  /\ Return(c)
  /\ UNCHANGED <<closed, latest, conns, made, loop, closer>>
-----------------------------------------------------------------------------
(* writeAudio and discard.                                                 *)

\* Mutant: whatever is registered under the key is taken out.
TakenOut(d) == Without(conns, {link[d].key})

\* discard takes out this connection only.
Removed(d) == Without(conns, {k \in DOMAIN conns : k = link[d].key /\ conns[k] = d})

WriteSucceeds(c) ==
  /\ caller[c].step = "write" /\ link[caller[c].link].state # "closed"
  /\ Return(c)
  /\ UNCHANGED <<sessionVars, link, loop, closer>>

WriteFails(c) ==
  /\ caller[c].step = "write"
  /\ Goto(c, "discard", caller[c].link)
  /\ UNCHANGED <<sessionVars, link, loop, closer>>

IngestDiscards(c) ==
  /\ caller[c].step = "discard"
  /\ conns' = Removed(caller[c].link)
  /\ Goto(c, "abort", caller[c].link)
  /\ UNCHANGED <<closed, latest, terminal, dialing, made, link, loop, closer>>

IngestAborts(c) ==
  /\ caller[c].step = "abort" /\ MayAbort(caller[c].link)
  /\ link' = [link EXCEPT ![caller[c].link].state = "closed"]
  /\ Return(c)
  /\ UNCHANGED <<sessionVars, loop, closer>>
-----------------------------------------------------------------------------
(* readLoop, keepAliveLoop and publishLoop of a connection.                *)

\* The provider closes, answers with an error, or the context is done; a
\* KeepAlive fails; the speaker was idle for too long.
LoopGivesUp(d, l) ==
  /\ loop[d][l] = "run"
  /\ loop' = [loop EXCEPT ![d][l] = "discard"]
  /\ UNCHANGED <<sessionVars, link, caller, closer>>

\* The two other loops just end when the context is done.
LoopCancelled(d, l) ==
  /\ l # "read"
  /\ loop[d][l] = "run" /\ link[d].state = "closed"
  /\ loop' = [loop EXCEPT ![d][l] = "done"]
  /\ UNCHANGED <<sessionVars, link, caller, closer>>

LoopDiscards(d, l) ==
  /\ loop[d][l] = "discard"
  /\ conns' = Removed(d)
  /\ loop' = [loop EXCEPT ![d][l] = "abort"]
  /\ UNCHANGED <<closed, latest, terminal, dialing, made, link, caller, closer>>

LoopAborts(d, l) ==
  /\ loop[d][l] = "abort" /\ MayAbort(d)
  /\ link' = [link EXCEPT ![d].state = "closed"]
  /\ loop' = [loop EXCEPT ![d][l] = "done"]
  /\ UNCHANGED <<sessionVars, caller, closer>>
-----------------------------------------------------------------------------
(* Session.close.                                                          *)

CloseBegins ==
  /\ closer.step = "none"
  /\ closed' = TRUE
  /\ closer' = [step |-> "dials", todo |-> Registered]
  /\ conns' = Without(conns, DOMAIN conns)
  /\ UNCHANGED <<latest, terminal, dialing, made, link, loop, caller>>

GracefulBegins(d) ==
  /\ d \in closer.todo /\ link[d].state = "open"
  /\ link' = [link EXCEPT ![d].state = "graceful"]
  /\ UNCHANGED <<sessionVars, loop, caller, closer>>

\* Finalize or CloseStream fails, the read loop ends (readDone) or
\* closeTimeout passes; or somebody aborted the connection first.
GracefulEnds(d) ==
  /\ d \in closer.todo /\ link[d].state \in {"graceful", "closed"}
  /\ link' = [link EXCEPT ![d].state = "closed"]
  /\ closer' = [closer EXCEPT !.todo = @ \ {d}]
  /\ UNCHANGED <<sessionVars, loop, caller>>

\* Mutant: dials in progress are left behind.
DialsIgnored == TRUE

\* dialWG
DialsDone == \A c \in Callers : caller[c].step # "dial"

\* loopWG
LoopsDone == \A d \in Links, l \in Loops : loop[d][l] \in {"off", "done"}

\* dialWG.Wait, closeWG.Wait, loopWG.Wait; then the key is zeroed.
CloseWaits ==
  /\ \/ closer.step = "dials" /\ DialsDone /\ closer' = [closer EXCEPT !.step = "closes"]
     \/ closer.step = "closes" /\ closer.todo = {} /\ closer' = [closer EXCEPT !.step = "loops"]
     \/ closer.step = "loops" /\ LoopsDone /\ closer' = [closer EXCEPT !.step = "done"]
  /\ UNCHANGED <<sessionVars, link, loop, caller>>
-----------------------------------------------------------------------------
IngestNext(c) ==
  \/ ConnectRefused(c) \/ EvictOlder(c) \/ ConnectTerminal(c) \/ ConnectFound(c)
  \/ EvictSame(c) \/ ConnectWaits(c) \/ ConnectFull(c) \/ DialBegins(c) \/ Evict(c)
  \/ WaitEnds(c) \/ DialSucceeds(c) \/ DialFails(c) \/ WriteSucceeds(c) \/ WriteFails(c)
  \/ IngestDiscards(c) \/ IngestAborts(c)

LoopEnds(d, l) == LoopCancelled(d, l) \/ LoopDiscards(d, l) \/ LoopAborts(d, l)

CloseNext == CloseWaits \/ \E d \in Links : GracefulBegins(d) \/ GracefulEnds(d)

Next ==
  \/ \E c \in Callers : IngestNext(c) \/ WaitExpires(c) \/ \E p \in PacketsOf[c] : Ingest(c, p)
  \/ \E d \in Links, l \in Loops : LoopGivesUp(d, l) \/ LoopEnds(d, l)
  \/ CloseBegins \/ CloseNext

Spec == Init /\ [][Next]_vars

\* Dials, writes and the graceful close have deadlines (dialTimeout,
\* writeTimeout, closeTimeout), and a read returns once the socket is closed.
\* That the caller's own context ends a wait is not assumed.
FairSpec ==
  /\ Spec
  /\ \A c \in Callers : WF_vars(IngestNext(c))
  /\ WF_vars(\E d \in Links, l \in Loops :
               LoopEnds(d, l) \/ (link[d].state = "closed" /\ LoopGivesUp(d, l)))
  /\ WF_vars(CloseNext)
-----------------------------------------------------------------------------
(* Properties.                                                             *)

Open(d) == link[d].state = "open"

\* A connection that is open is registered, or somebody who took it out is on
\* the way to abort it: no eviction, failed write, loop or Close forgets a
\* socket, and none takes a newer connection's entry for its own.
NoLeakedConnection ==
  \A d \in Links : Open(d) =>
    \/ d \in Registered \/ d \in closer.todo
    \/ \E c \in Callers : d \in caller[c].victims
                          \/ (caller[c].step = "abort" /\ caller[c].link = d)
    \/ \E l \in Loops : loop[d][l] = "abort"

\* After audio of a newer voice connection was seen no connection of an older
\* one is registered, however late its dial ends.
NoOlderConnection == \A k \in DOMAIN conns : k[2] = latest

\* When Close returns no dial, loop or socket of the session is left, so
\* nothing reads the key that was zeroed and no transcript follows.
CloseIsComplete ==
  closer.step = "done" =>
    /\ \A c \in Callers : caller[c].step # "dial"
    /\ DOMAIN conns = {} /\ DOMAIN dialing = {}
    /\ \A d \in Links : link[d].state \in {"none", "failed", "closed"}

\* Close returns, although read loops, evictions and writes want to abort the
\* connections it is closing.
CloseReturns == closed ~> closer.step = "done"

\* Ingest returns, also for those who wait for another goroutine's dial.
IngestReturns == \A c \in Callers : caller[c].step # "idle" ~> caller[c].step = "idle"

\* Types and limits, and every connection that is open or registered is where
\* it belongs (connectionFor, discard).
ConnectionInv == TypeOK /\ NoLeakedConnection /\ NoOlderConnection

\* Ingest and Close return (connectionFor, close).
SessionProgress == CloseReturns /\ IngestReturns
=============================================================================
