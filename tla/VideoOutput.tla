----------------------------- MODULE VideoOutput ----------------------------
(***************************************************************************)
(* The scene frame output: videoout.Manager with its sessions (manager.go)  *)
(* and the cancellable SRT dial (srt.go).                                   *)
(*                                                                          *)
(* Callers are the goroutines of the job manager that call Start and Stop.  *)
(* A session has a dial goroutine, a renderer (renderFrames), an avatar     *)
(* refresher and a monitor, and is named by its number.  lifecycleMu is     *)
(* explicit; m.mu and writeMu guard single steps, except that a renderer    *)
(* whose step is "write" holds writeMu.  m.starting is set and cleared      *)
(* inside lifecycleMu, so the step of the caller that holds it stands for   *)
(* it.                                                                      *)
(***************************************************************************)
EXTENDS Naturals

CONSTANTS Callers, NoOne,
          MaxSessions   \* bound: sessions ever dialled

ASSUME VideoAssumption ==
  /\ MaxSessions \in Nat
  /\ NoOne \notin Callers \cup (1..MaxSessions)
  /\ Callers \cap (1..MaxSessions) = {}

Sessions == 1..MaxSessions

Failures == {"scene_render", "srt_write", "transport_stopped"}

CallerSteps == {"idle", "start", "dialing", "startup", "aborting", "stop", "stopping"}

VARIABLES
  lifecycleMu,  \* its holder: a caller, the number of a session (its monitor) or NoOne
  current,      \* m.current (0: nil)
  used,         \* sessions dialled so far
  caller,       \* [step, session, expired]: expired is its context, with the startup timeout
  conn,         \* SRT connection: none, dialing, offered, refused, open, closed
  render,       \* renderFrames: off, render, lock, write, idle, done
  first,        \* s.first is closed
  error,        \* what s.errors holds ("none": empty)
  stopping,     \* s.stopping, set together with the cancellation of runCtx
  shut,         \* progress of shutdown inside stopOnce: no, writer, join, done
  refresher,    \* refreshAvatars runs
  monitor,      \* monitor goroutine: off, watch, lock, shutdown, report, done
  failed,       \* the monitor's local: it found its session current
  reports       \* calls of OnFailure, by session

sessionVars == <<conn, render, first, error, stopping, shut, refresher, monitor, failed>>
vars == <<lifecycleMu, current, used, caller, sessionVars, reports>>

TypeOK ==
  /\ lifecycleMu \in Callers \cup Sessions \cup {NoOne}
  /\ current \in Sessions \cup {0}
  /\ used \in 0..MaxSessions
  /\ caller \in [Callers -> [step : CallerSteps, session : Sessions \cup {0}, expired : BOOLEAN]]
  /\ conn \in [Sessions -> {"none", "dialing", "offered", "refused", "open", "closed"}]
  /\ render \in [Sessions -> {"off", "render", "lock", "write", "idle", "done"}]
  /\ first \in [Sessions -> BOOLEAN]
  /\ error \in [Sessions -> Failures \cup {"none"}]
  /\ stopping \in [Sessions -> BOOLEAN]
  /\ shut \in [Sessions -> {"no", "writer", "join", "done"}]
  /\ refresher \in [Sessions -> BOOLEAN]
  /\ monitor \in [Sessions -> {"off", "watch", "lock", "shutdown", "report", "done"}]
  /\ failed \in [Sessions -> BOOLEAN]
  /\ reports \in [Sessions -> 0..1]

Idle == [step |-> "idle", session |-> 0, expired |-> FALSE]

Init ==
  /\ lifecycleMu = NoOne /\ current = 0 /\ used = 0
  /\ caller = [c \in Callers |-> Idle]
  /\ conn = [s \in Sessions |-> "none"]
  /\ render = [s \in Sessions |-> "off"]
  /\ first = [s \in Sessions |-> FALSE]
  /\ error = [s \in Sessions |-> "none"]
  /\ stopping = [s \in Sessions |-> FALSE]
  /\ shut = [s \in Sessions |-> "no"]
  /\ refresher = [s \in Sessions |-> FALSE]
  /\ monitor = [s \in Sessions |-> "off"]
  /\ failed = [s \in Sessions |-> FALSE]
  /\ reports = [s \in Sessions |-> 0]
-----------------------------------------------------------------------------
(* The calls and their contexts.                                           *)

Call(c) ==
  /\ caller[c].step = "idle"
  /\ \E op \in {"start", "stop"} : caller' = [caller EXCEPT ![c].step = op]
  /\ UNCHANGED <<lifecycleMu, current, used, sessionVars, reports>>

\* The caller's context is cancelled, or the startup timeout strikes.
Expire(c) ==
  /\ caller[c].step # "idle" /\ ~caller[c].expired
  /\ caller' = [caller EXCEPT ![c].expired = TRUE]
  /\ UNCHANGED <<lifecycleMu, current, used, sessionVars, reports>>

Return(c) == caller' = [caller EXCEPT ![c] = Idle]

\* Start returns ErrAlreadyRunning, or refuses the configuration.
StartRefused(c) ==
  /\ caller[c].step = "start" /\ lifecycleMu = NoOne
  /\ Return(c)
  /\ UNCHANGED <<lifecycleMu, current, used, sessionVars, reports>>

StartDials(c) ==
  /\ caller[c].step = "start" /\ lifecycleMu = NoOne
  /\ current = 0
  /\ used < MaxSessions
  /\ lifecycleMu' = c
  /\ used' = used + 1
  /\ caller' = [caller EXCEPT ![c].step = "dialing", ![c].session = used + 1]
  /\ conn' = [conn EXCEPT ![used + 1] = "dialing"]
  /\ UNCHANGED <<current, render, first, error, stopping, shut, refresher, monitor,
                 failed, reports>>
-----------------------------------------------------------------------------
(* goSRTDialer.Dial: the dial goroutine offers its result until the        *)
(* context of the caller is done, and then closes the connection itself.   *)

DialEnds(s) ==
  /\ conn[s] = "dialing"
  /\ \E r \in {"offered", "refused"} : conn' = [conn EXCEPT ![s] = r]
  /\ UNCHANGED <<lifecycleMu, current, used, caller, render, first, error, stopping, shut,
                 refresher, monitor, failed, reports>>

Awaited(s) == \E c \in Callers : caller[c].step = "dialing" /\ caller[c].session = s
                                 /\ ~caller[c].expired

\* Mutant: the goroutine whose caller has given up drops the connection.
DialForgotten(s) ==
  /\ conn[s] \in {"offered", "refused"} /\ ~Awaited(s)
  /\ conn' = [conn EXCEPT ![s] = IF @ = "offered" THEN "open" ELSE "none"]
  /\ UNCHANGED <<lifecycleMu, current, used, caller, render, first, error, stopping, shut,
                 refresher, monitor, failed, reports>>

DialAbandoned(s) ==
  /\ conn[s] \in {"offered", "refused"} /\ ~Awaited(s)
  /\ conn' = [conn EXCEPT ![s] = IF @ = "offered" THEN "closed" ELSE "none"]
  /\ UNCHANGED <<lifecycleMu, current, used, caller, render, first, error, stopping, shut,
                 refresher, monitor, failed, reports>>

\* Dial receives the result, and looks at the context once more.
DialFails(c) ==
  LET s == caller[c].session IN
  /\ caller[c].step = "dialing"
  /\ \/ conn[s] = "refused" /\ conn' = [conn EXCEPT ![s] = "none"]
     \/ conn[s] = "offered" /\ caller[c].expired /\ conn' = [conn EXCEPT ![s] = "closed"]
     \/ caller[c].expired /\ conn' = conn
  /\ lifecycleMu' = NoOne
  /\ Return(c)
  /\ UNCHANGED <<current, used, render, first, error, stopping, shut, refresher, monitor,
                 failed, reports>>

DialSucceeds(c) ==
  LET s == caller[c].session IN
  /\ caller[c].step = "dialing" /\ conn[s] = "offered" /\ ~caller[c].expired
  /\ conn' = [conn EXCEPT ![s] = "open"]
  /\ render' = [render EXCEPT ![s] = "render"]
  /\ refresher' = [refresher EXCEPT ![s] = TRUE]
  /\ caller' = [caller EXCEPT ![c].step = "startup"]
  /\ UNCHANGED <<lifecycleMu, current, used, first, error, stopping, shut, monitor, failed,
                 reports>>
-----------------------------------------------------------------------------
(* The select at the end of Start.                                         *)

\* Mutant: Start returns with lifecycleMu held once the output is up.
StartStaysLocked(c) ==
  LET s == caller[c].session IN
  /\ caller[c].step = "startup" /\ first[s]
  /\ current' = s
  /\ monitor' = [monitor EXCEPT ![s] = "watch"]
  /\ Return(c)
  /\ UNCHANGED <<lifecycleMu, used, conn, render, first, error, stopping, shut, refresher,
                 failed, reports>>

StartReady(c) ==
  LET s == caller[c].session IN
  /\ caller[c].step = "startup" /\ first[s]
  /\ current' = s
  /\ monitor' = [monitor EXCEPT ![s] = "watch"]
  /\ lifecycleMu' = NoOne
  /\ Return(c)
  /\ UNCHANGED <<used, conn, render, first, error, stopping, shut, refresher, failed, reports>>

StartFails(c) ==
  LET s == caller[c].session IN
  /\ caller[c].step = "startup"
  /\ \/ error[s] # "none" /\ error' = [error EXCEPT ![s] = "none"]
     \/ caller[c].expired /\ error' = error
  /\ caller' = [caller EXCEPT ![c].step = "aborting"]
  /\ UNCHANGED <<lifecycleMu, current, used, conn, render, first, stopping, shut, refresher,
                 monitor, failed, reports>>

StopFindsNothing(c) ==
  /\ caller[c].step = "stop" /\ lifecycleMu = NoOne
  /\ current = 0
  /\ Return(c)
  /\ UNCHANGED <<lifecycleMu, current, used, sessionVars, reports>>

StopTakes(c) ==
  /\ caller[c].step = "stop" /\ lifecycleMu = NoOne
  /\ current # 0
  /\ lifecycleMu' = c
  /\ caller' = [caller EXCEPT ![c].step = "stopping", ![c].session = current]
  /\ current' = 0
  /\ UNCHANGED <<used, sessionVars, reports>>
-----------------------------------------------------------------------------
(* session.shutdown.  Start and the monitor call it with a context that is *)
(* never done, Stop with its own.                                          *)

ShuttingDown(s) ==
  \/ \E c \in Callers : caller[c].step \in {"aborting", "stopping"} /\ caller[c].session = s
  \/ monitor[s] = "shutdown"

GivesUp(s) == \E c \in Callers : caller[c].step = "stopping" /\ caller[c].session = s
                                 /\ caller[c].expired

\* Mutant: the renderer is told to stop only by the cancellation.
ShutUnannounced(s) ==
  /\ ShuttingDown(s) /\ shut[s] = "no"
  /\ shut' = [shut EXCEPT ![s] = "writer"]
  /\ UNCHANGED <<lifecycleMu, current, used, caller, conn, render, first, error, stopping,
                 refresher, monitor, failed, reports>>

ShutBegins(s) ==
  /\ ShuttingDown(s) /\ shut[s] = "no"
  /\ stopping' = [stopping EXCEPT ![s] = TRUE]
  /\ shut' = [shut EXCEPT ![s] = "writer"]
  /\ UNCHANGED <<lifecycleMu, current, used, caller, conn, render, first, error, refresher,
                 monitor, failed, reports>>

\* Mutant: the connection is closed without waiting for the writer.
ShutHastily(s) ==
  /\ shut[s] = "writer"
  /\ conn' = [conn EXCEPT ![s] = "closed"]
  /\ shut' = [shut EXCEPT ![s] = "join"]
  /\ UNCHANGED <<lifecycleMu, current, used, caller, render, first, error, stopping,
                 refresher, monitor, failed, reports>>

\* writerIdle or ctx.Done(), then conn.Close.
ShutCloses(s) ==
  /\ shut[s] = "writer"
  /\ render[s] # "write" \/ GivesUp(s)
  /\ conn' = [conn EXCEPT ![s] = "closed"]
  /\ shut' = [shut EXCEPT ![s] = "join"]
  /\ UNCHANGED <<lifecycleMu, current, used, caller, render, first, error, stopping,
                 refresher, monitor, failed, reports>>

ShutJoins(s) ==
  /\ shut[s] = "join"
  /\ render[s] = "done" \/ GivesUp(s)
  /\ shut' = [shut EXCEPT ![s] = "done"]
  /\ UNCHANGED <<lifecycleMu, current, used, caller, conn, render, first, error, stopping,
                 refresher, monitor, failed, reports>>

ShutdownReturns(c) ==
  /\ caller[c].step \in {"aborting", "stopping"} /\ shut[caller[c].session] = "done"
  /\ lifecycleMu' = NoOne
  /\ Return(c)
  /\ UNCHANGED <<current, used, sessionVars, reports>>
-----------------------------------------------------------------------------
(* renderFrames and refreshAvatars.                                        *)

\* signalError and the close of s.done.
Dies(s, e) ==
  /\ render' = [render EXCEPT ![s] = "done"]
  /\ error' = [error EXCEPT ![s] = e]

RenderFrame(s) ==
  /\ render[s] = "render"
  /\ \/ render' = [render EXCEPT ![s] = "lock"] /\ error' = error
     \/ Dies(s, "scene_render")
  /\ UNCHANGED <<lifecycleMu, current, used, caller, conn, first, stopping, shut, refresher,
                 monitor, failed, reports>>

TakeWriteMu(s) ==
  /\ render[s] = "lock"
  /\ IF stopping[s] THEN Dies(s, "transport_stopped")
     ELSE render' = [render EXCEPT ![s] = "write"] /\ error' = error
  /\ UNCHANGED <<lifecycleMu, current, used, caller, conn, first, stopping, shut, refresher,
                 monitor, failed, reports>>

WriteReturns(s) ==
  /\ render[s] = "write"
  /\ \/ /\ conn[s] = "open"
        /\ render' = [render EXCEPT ![s] = "idle"]
        /\ first' = [first EXCEPT ![s] = TRUE]
        /\ error' = error
     \/ Dies(s, "srt_write") /\ first' = first
  /\ UNCHANGED <<lifecycleMu, current, used, caller, conn, stopping, shut, refresher,
                 monitor, failed, reports>>

\* The ticker and the cancelled context may both be ready.
Tick(s) ==
  /\ render[s] = "idle"
  /\ render' = [render EXCEPT ![s] = "render"]
  /\ UNCHANGED <<lifecycleMu, current, used, caller, conn, first, error, stopping, shut,
                 refresher, monitor, failed, reports>>

RenderCancelled(s) ==
  /\ render[s] = "idle" /\ stopping[s]
  /\ render' = [render EXCEPT ![s] = "done"]
  /\ UNCHANGED <<lifecycleMu, current, used, caller, conn, first, error, stopping, shut,
                 refresher, monitor, failed, reports>>

RefresherQuits(s) ==
  /\ refresher[s] /\ stopping[s]
  /\ refresher' = [refresher EXCEPT ![s] = FALSE]
  /\ UNCHANGED <<lifecycleMu, current, used, caller, conn, render, first, error, stopping,
                 shut, monitor, failed, reports>>
-----------------------------------------------------------------------------
(* monitor.                                                                *)

\* Mutant: the monitor waits for an error only.
MonitorNeedsError(s) ==
  /\ monitor[s] = "watch"
  /\ error[s] # "none"
  /\ monitor' = [monitor EXCEPT ![s] = "lock"]
  /\ error' = [error EXCEPT ![s] = "none"]
  /\ UNCHANGED <<lifecycleMu, current, used, caller, conn, render, first, stopping, shut,
                 refresher, failed, reports>>

MonitorWakes(s) ==
  /\ monitor[s] = "watch"
  /\ error[s] # "none" \/ render[s] = "done"
  /\ monitor' = [monitor EXCEPT ![s] = "lock"]
  /\ error' = [error EXCEPT ![s] = "none"]
  /\ UNCHANGED <<lifecycleMu, current, used, caller, conn, render, first, stopping, shut,
                 refresher, failed, reports>>

\* Mutant: the monitor does not look whether its session is still current.
MonitorBlames(s) ==
  /\ monitor[s] = "lock" /\ lifecycleMu = NoOne
  /\ lifecycleMu' = s
  /\ failed' = [failed EXCEPT ![s] = TRUE]
  /\ current' = 0
  /\ monitor' = [monitor EXCEPT ![s] = "shutdown"]
  /\ UNCHANGED <<used, caller, conn, render, first, error, stopping, shut, refresher, reports>>

MonitorLocks(s) ==
  /\ monitor[s] = "lock" /\ lifecycleMu = NoOne
  /\ lifecycleMu' = s
  /\ failed' = [failed EXCEPT ![s] = current = s]
  /\ current' = IF current = s THEN 0 ELSE current
  /\ monitor' = [monitor EXCEPT ![s] = "shutdown"]
  /\ UNCHANGED <<used, caller, conn, render, first, error, stopping, shut, refresher, reports>>

MonitorUnlocks(s) ==
  /\ monitor[s] = "shutdown" /\ shut[s] = "done"
  /\ lifecycleMu' = NoOne
  /\ monitor' = [monitor EXCEPT ![s] = IF failed[s] THEN "report" ELSE "done"]
  /\ UNCHANGED <<current, used, caller, conn, render, first, error, stopping, shut,
                 refresher, failed, reports>>

\* Mutant: the report is repeated.
ReportAgain(s) ==
  /\ monitor[s] = "report"
  /\ reports' = [reports EXCEPT ![s] = @ + 1]
  /\ UNCHANGED <<lifecycleMu, current, used, caller, sessionVars>>

Report(s) ==
  /\ monitor[s] = "report"
  /\ reports' = [reports EXCEPT ![s] = @ + 1]
  /\ monitor' = [monitor EXCEPT ![s] = "done"]
  /\ UNCHANGED <<lifecycleMu, current, used, caller, conn, render, first, error, stopping,
                 shut, refresher, failed>>
-----------------------------------------------------------------------------
LifecycleSteps(c) ==
  \/ StartRefused(c) \/ StartDials(c) \/ DialFails(c) \/ DialSucceeds(c)
  \/ StartReady(c) \/ StartFails(c) \/ StopFindsNothing(c) \/ StopTakes(c)
  \/ ShutdownReturns(c)

ShutdownSteps(s) == ShutBegins(s) \/ ShutCloses(s) \/ ShutJoins(s)

RendererSteps(s) ==
  RenderFrame(s) \/ TakeWriteMu(s) \/ WriteReturns(s) \/ Tick(s) \/ RenderCancelled(s)

MonitorSteps(s) == MonitorWakes(s) \/ MonitorLocks(s) \/ MonitorUnlocks(s) \/ Report(s)

Next ==
  \/ \E c \in Callers : Call(c) \/ Expire(c) \/ LifecycleSteps(c)
  \/ \E s \in Sessions :
        DialEnds(s) \/ DialAbandoned(s) \/ ShutdownSteps(s) \/ RendererSteps(s)
        \/ RefresherQuits(s) \/ MonitorSteps(s)

(***************************************************************************)
(* Every goroutine keeps running; a mutex is granted in the end to whoever *)
(* waits for it (Go's starvation mode), which takes strong fairness; the   *)
(* startup timeout strikes, but a context given to Stop need not.  That a  *)
(* dial and a write return is assumed of the SRT library.                  *)
(***************************************************************************)
Fairness ==
  /\ \A c \in Callers :
       /\ SF_vars(LifecycleSteps(c))
       /\ WF_vars(caller[c].step \in {"start", "dialing", "startup"} /\ Expire(c))
  /\ \A s \in Sessions :
       /\ WF_vars(DialEnds(s)) /\ WF_vars(DialAbandoned(s))
       /\ WF_vars(ShutdownSteps(s)) /\ WF_vars(RendererSteps(s))
       /\ SF_vars(RenderCancelled(s)) /\ WF_vars(RefresherQuits(s))
       /\ SF_vars(MonitorSteps(s))

Spec == Init /\ [][Next]_vars /\ Fairness
-----------------------------------------------------------------------------
(* Properties.                                                             *)

Contract == INSTANCE VideoContract WITH
  Sessions <- Sessions, None <- 0,
  live <- current,
  past <- {s \in Sessions : monitor[s] # "off"},
  owed <- {s \in Sessions : failed[s] /\ reports[s] = 0},
  told <- {s \in Sessions : reports[s] > 0}

\* The job manager sees one session at a time, hears exactly once of a
\* session that died, and hears nothing of one it stopped or that never came
\* up, whatever the order of errors, stops and timeouts (Start, Stop, monitor).
ImplementsContract == Contract!Spec

\* No SRT connection outlives its session: an open one is current or belongs
\* to a Start, Stop or monitor that still holds lifecycleMu.  A dial that
\* answers after Start gave up is the hard case.
NoOrphanConnection ==
  \A s \in Sessions : conn[s] = "open" =>
    \/ s = current
    \/ lifecycleMu = s
    \/ \E c \in Callers : caller[c].session = s /\ lifecycleMu = c

\* shutdown closes the connection under a frame that is being written only if
\* the context of Stop is done.
WritesAreNotCut ==
  [][\A s \in Sessions : (conn[s] = "open" /\ conn'[s] = "closed" /\ render[s] = "write")
                          => GivesUp(s)]_vars

\* No frame is started on a connection that shutdown has closed or is about
\* to close: s.stopping, read under writeMu, keeps the renderer out.
NoWriteAfterShutdown ==
  [][\A s \in Sessions : (render[s] # "write" /\ render'[s] = "write")
                          => conn[s] = "open" /\ shut[s] = "no"]_vars

\* Start and Stop return: the waits of shutdown, the monitor and the two
\* mutexes never block one another for ever.
CallsReturn == \A c \in Callers : caller[c].step # "idle" ~> caller[c].step = "idle"

\* Once a session is being shut down, all that belongs to it ends.
SessionsEnd ==
  \A s \in Sessions : stopping[s] ~> /\ render[s] = "done" /\ conn[s] = "closed"
                                     /\ ~refresher[s] /\ monitor[s] \in {"off", "done"}

\* Types, at most one report per session, and no connection without an owner
\* (Start, goSRTDialer.Dial, shutdown).
ConnectionInv == TypeOK /\ NoOrphanConnection

\* Shutdown and the renderer do not meet on the connection: a frame is neither
\* cut off nor begun too late (shutdown, renderFrame).
ShutdownSparesFrames == WritesAreNotCut /\ NoWriteAfterShutdown

\* Calls return and the goroutines of a session end (Start, Stop, monitor).
OutputProgress == CallsReturn /\ SessionsEnd
=============================================================================
