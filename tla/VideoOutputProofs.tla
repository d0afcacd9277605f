------------------------- MODULE VideoOutputProofs --------------------------
(***************************************************************************)
(* Proofs about VideoOutput, for any number of callers and of sessions: no  *)
(* connection without an owner, no frame cut off or begun too late, and the *)
(* safety part of VideoContract.                                            *)
(***************************************************************************)
EXTENDS VideoOutput, TLAPS

\* The caller is inside lifecycleMu.
Inside(c) == caller[c].step \in {"dialing", "startup", "aborting", "stopping"}

\* lifecycleMu is held by exactly the goroutine whose step is inside it, and
\* that goroutine works on a session that has been dialled.
LockInv ==
  /\ \A c \in Callers : Inside(c) <=> lifecycleMu = c
  /\ \A s \in Sessions : monitor[s] = "shutdown" <=> lifecycleMu = s
  /\ \A c \in Callers : Inside(c) => caller[c].session \in 1..used

\* Nothing but its dial has begun for the session.
Untouched(s) ==
  render[s] = "off" /\ ~stopping[s] /\ shut[s] = "no" /\ monitor[s] = "off"

\* A session not yet created has no connection and nothing happened to it.
FreshInv == \A s \in Sessions : s > used => conn[s] = "none" /\ Untouched(s)

\* While a caller is inside, no session is current; how far Start has come
\* tells how far its session has.
CallerInv == \A c \in Callers :
  LET s == caller[c].session IN
  /\ Inside(c) => current = 0
  /\ caller[c].step = "dialing" => conn[s] # "open" /\ Untouched(s)
  /\ caller[c].step = "startup" => conn[s] = "open" /\ shut[s] = "no" /\ monitor[s] = "off"

\* The current session is up and watched.
CurrentInv == \A s \in Sessions : current = s =>
  conn[s] = "open" /\ shut[s] = "no" /\ monitor[s] \in {"watch", "lock"}

\* The connection follows the progress of shutdown, which is announced to the
\* renderer before it begins.
ConnInv == \A s \in Sessions :
  /\ shut[s] # "no" => stopping[s]
  /\ shut[s] \in {"join", "done"} => conn[s] = "closed"
  /\ render[s] # "off" =>
       conn[s] = "open" \/ (conn[s] = "closed" /\ shut[s] \in {"join", "done"})

\* What the monitor knows and what it has said.
ReportInv == \A s \in Sessions :
  /\ failed[s] => monitor[s] \in {"shutdown", "report", "done"}
  /\ monitor[s] = "report" => failed[s]
  /\ reports[s] # 0 => monitor[s] = "done"

\* The inductive invariant.
VideoInv ==
  /\ TypeOK /\ LockInv /\ FreshInv /\ CallerInv /\ CurrentInv /\ ConnInv /\ ReportInv
  /\ NoOrphanConnection
-----------------------------------------------------------------------------
\* The locals of a caller.
CallerState == [step : CallerSteps, session : Sessions \cup {0}, expired : BOOLEAN]

\* Start, Stop and their contexts keep the types.
LEMMA CallerTypes ==
  ASSUME VideoInv, NEW c \in Callers, Call(c) \/ Expire(c) \/ LifecycleSteps(c)
  PROVE  TypeOK'
<1>1. caller \in [Callers -> CallerState] /\ caller[c] \in CallerState
  BY DEF VideoInv, TypeOK, CallerState
<1>2. caller' \in [Callers -> CallerState]
  <2>1. ASSUME NEW x \in CallerSteps, NEW n \in Sessions \cup {0}
        PROVE  /\ [caller EXCEPT ![c].step = x] \in [Callers -> CallerState]
               /\ [caller EXCEPT ![c].step = x, ![c].session = n] \in [Callers -> CallerState]
    BY <1>1 DEF CallerState
  <2>2. /\ [caller EXCEPT ![c].expired = TRUE] \in [Callers -> CallerState]
        /\ [caller EXCEPT ![c] = Idle] \in [Callers -> CallerState]
    BY <1>1 DEF CallerState, CallerSteps, Idle
  <2>3. current \in Sessions \cup {0} /\ (used < MaxSessions => used + 1 \in Sessions \cup {0})
    BY VideoAssumption DEF VideoInv, TypeOK, Sessions
  <2>4. CASE Call(c)
    <3>1. PICK x \in {"start", "stop"} : caller' = [caller EXCEPT ![c].step = x]
      BY <2>4 DEF Call
    <3> QED
      BY <2>1, <3>1 DEF CallerSteps
  <2>5. CASE StartDials(c) \/ StopTakes(c)
    <3>1. PICK x \in CallerSteps, n \in Sessions \cup {0} :
            caller' = [caller EXCEPT ![c].step = x, ![c].session = n]
      BY <2>3, <2>5 DEF StartDials, StopTakes, CallerSteps
    <3> QED
      BY <2>1, <3>1
  <2>6. CASE DialSucceeds(c) \/ StartFails(c)
    BY <2>1, <2>6 DEF DialSucceeds, StartFails, CallerSteps
  <2>7. CASE \/ StartRefused(c) \/ DialFails(c) \/ StartReady(c) \/ StopFindsNothing(c)
             \/ ShutdownReturns(c)
    BY <2>2, <2>7 DEF StartRefused, DialFails, StartReady, StopFindsNothing, ShutdownReturns,
                      Return
  <2> QED
    BY <2>2, <2>4, <2>5, <2>6, <2>7 DEF Expire, LifecycleSteps
<1>3. Inside(c) => caller[c].session \in Sessions
  BY VideoAssumption DEF VideoInv, LockInv, Inside, TypeOK, Sessions
<1>4. CASE Call(c) \/ Expire(c) \/ StartRefused(c) \/ StopFindsNothing(c)
  BY <1>2, <1>4 DEF VideoInv, TypeOK, CallerState, sessionVars, Call, Expire, StartRefused,
     StopFindsNothing
<1>5. CASE StartDials(c)
  BY <1>2, <1>5, VideoAssumption DEF VideoInv, TypeOK, CallerState, Sessions, StartDials
<1>6. CASE DialFails(c)
  BY <1>2, <1>3, <1>6 DEF VideoInv, TypeOK, CallerState, DialFails, Inside
<1>7. CASE DialSucceeds(c)
  BY <1>2, <1>3, <1>7 DEF VideoInv, TypeOK, CallerState, DialSucceeds, Inside
<1>8. CASE StartReady(c)
  BY <1>2, <1>3, <1>8 DEF VideoInv, TypeOK, CallerState, StartReady, Inside
<1>9. CASE StartFails(c)
  BY <1>2, <1>3, <1>9 DEF VideoInv, TypeOK, CallerState, StartFails, Inside
<1>10. CASE StopTakes(c) \/ ShutdownReturns(c)
  BY <1>2, <1>10 DEF VideoInv, TypeOK, CallerState, sessionVars, StopTakes, ShutdownReturns
<1> QED
  BY <1>4, <1>5, <1>6, <1>7, <1>8, <1>9, <1>10 DEF LifecycleSteps

\* The dial, shutdown, the renderer and the monitor keep the types.
LEMMA SessionTypes ==
  ASSUME VideoInv, NEW s \in Sessions,
         \/ DialEnds(s) \/ DialAbandoned(s) \/ ShutdownSteps(s) \/ RendererSteps(s)
         \/ RefresherQuits(s) \/ MonitorSteps(s)
  PROVE  TypeOK'
<1> USE DEF VideoInv, TypeOK
<1>1. CASE DialEnds(s) \/ DialAbandoned(s)
  BY <1>1 DEF DialEnds, DialAbandoned
<1>2. CASE ShutdownSteps(s)
  <2>1. CASE ShutBegins(s)
    BY <2>1 DEF ShutBegins
  <2>2. CASE ShutCloses(s)
    BY <2>2 DEF ShutCloses
  <2>3. CASE ShutJoins(s)
    BY <2>3 DEF ShutJoins
  <2> QED
    BY <1>2, <2>1, <2>2, <2>3 DEF ShutdownSteps
<1>3. CASE RendererSteps(s) \/ RefresherQuits(s)
  <2>1. \A e \in Failures : Dies(s, e) =>
          /\ render' \in [Sessions -> {"off", "render", "lock", "write", "idle", "done"}]
          /\ error' \in [Sessions -> Failures \cup {"none"}]
    BY DEF Dies
  <2>2. CASE RenderFrame(s) \/ TakeWriteMu(s)
    BY <2>1, <2>2 DEF RenderFrame, TakeWriteMu, Failures
  <2>3. CASE WriteReturns(s)
    BY <2>1, <2>3 DEF WriteReturns, Failures
  <2>4. CASE Tick(s)
    BY <2>4 DEF Tick
  <2>5. CASE RenderCancelled(s)
    BY <2>5 DEF RenderCancelled
  <2>6. CASE RefresherQuits(s)
    BY <2>6 DEF RefresherQuits
  <2> QED
    BY <1>3, <2>2, <2>3, <2>4, <2>5, <2>6 DEF RendererSteps
<1>4. CASE MonitorWakes(s) \/ MonitorLocks(s) \/ MonitorUnlocks(s)
  <2>1. CASE MonitorWakes(s)
    BY <2>1 DEF MonitorWakes
  <2>2. CASE MonitorLocks(s)
    BY <2>2 DEF MonitorLocks
  <2>3. CASE MonitorUnlocks(s)
    BY <2>3 DEF MonitorUnlocks
  <2> QED
    BY <1>4, <2>1, <2>2, <2>3
<1>5. CASE Report(s)
  <2>1. reports[s] = 0
    BY <1>5 DEF Report, ReportInv
  <2>2. reports' \in [Sessions -> 0..1]
    BY <1>5, <2>1 DEF Report
  <2> QED
    BY <1>5, <2>2 DEF Report
<1> QED
  BY <1>1, <1>2, <1>3, <1>4, <1>5 DEF MonitorSteps

\* A goroutine is a caller or a monitor, never both, and never NoOne.
LEMMA Goroutines ==
  /\ \A c \in Callers : c \notin Sessions /\ c # NoOne
  /\ \A s \in Sessions : s # NoOne /\ s # 0 /\ s \notin Callers
BY VideoAssumption DEF Sessions

\* VideoInv without the types.
StepInv ==
  LockInv /\ FreshInv /\ CallerInv /\ CurrentInv /\ ConnInv /\ ReportInv /\ NoOrphanConnection

\* Start and Stop.  Where a caller lets go of lifecycleMu, the only connection
\* that could be open is that of the session it worked on.
LEMMA CallerStep ==
  ASSUME VideoInv, NEW c \in Callers, Call(c) \/ Expire(c) \/ LifecycleSteps(c)
  PROVE  StepInv'
<1>0. current # 0 => current \in 1..used
  BY VideoAssumption DEF CurrentInv, FreshInv, Untouched, TypeOK, VideoInv, Sessions
<1> USE VideoAssumption, Goroutines DEF VideoInv, Sessions
<1> USE DEF TypeOK, StepInv, LockInv, Inside, FreshInv, Untouched, CallerInv, CurrentInv,
            ConnInv, ReportInv, NoOrphanConnection
<1>1. lifecycleMu = c => \A s \in Sessions : conn[s] = "open" => s = caller[c].session
  <2>1. SUFFICES ASSUME lifecycleMu = c, NEW s \in Sessions, conn[s] = "open"
                 PROVE  s = caller[c].session
    OBVIOUS
  <2>2. s # current /\ lifecycleMu # s
    BY <2>1, Goroutines DEF CallerInv, LockInv
  <2> QED
    BY <2>1, <2>2 DEF NoOrphanConnection
<1>2. CASE Call(c)
  BY <1>2 DEF Call, sessionVars
<1>3. CASE Expire(c)
  BY <1>3 DEF Expire, sessionVars
<1>4. CASE StartRefused(c)
  BY <1>4 DEF StartRefused, Return, Idle, sessionVars
<1>5. CASE StopFindsNothing(c)
  BY <1>5 DEF StopFindsNothing, Return, Idle, sessionVars
<1>6. CASE StartDials(c)
  BY <1>6 DEF StartDials
<1>7. CASE DialFails(c)
  <2>1. \A s \in Sessions : conn[s] # "open" /\ conn'[s] # "open"
    BY <1>1, <1>7 DEF DialFails
  <2>2. \A d \in Callers : ~Inside(d)'
    BY <1>7 DEF DialFails, Return, Idle
  <2>3. LockInv'
    <3>1. lifecycleMu' = NoOne /\ \A s \in Sessions : monitor'[s] # "shutdown"
      BY <1>7 DEF DialFails
    <3> QED
      BY <2>2, <3>1 DEF LockInv
  <2>4. FreshInv' /\ ConnInv' /\ ReportInv'
    BY <1>7 DEF DialFails
  <2> QED
    BY <1>7, <2>1, <2>2, <2>3, <2>4 DEF DialFails
<1>8. CASE DialSucceeds(c)
  BY <1>8 DEF DialSucceeds
<1>9. CASE StartReady(c)
  <2>1. lifecycleMu = c /\ caller[c].session \in Sessions
    BY <1>9 DEF StartReady
  <2>2. NoOrphanConnection'
    BY <1>1, <1>9, <2>1 DEF StartReady
  <2>3. \A d \in Callers : ~Inside(d)'
    BY <1>9 DEF StartReady, Return, Idle
  <2>4. LockInv'
    BY <1>9, <2>1, <2>3 DEF StartReady
  <2>5. FreshInv' /\ CallerInv' /\ CurrentInv' /\ ConnInv' /\ ReportInv'
    BY <1>9 DEF StartReady, Return, Idle
  <2> QED
    BY <2>2, <2>4, <2>5
<1>10. CASE StartFails(c)
  BY <1>10 DEF StartFails
<1>11. CASE StopTakes(c)
  <2>1. \A d \in Callers : Inside(d)' <=> d = c
    BY <1>11 DEF StopTakes
  <2>2. LockInv'
    <3>1. lifecycleMu' = c /\ \A s \in Sessions : monitor'[s] # "shutdown"
      BY <1>11 DEF StopTakes, sessionVars
    <3>2. current \in 1..used
      BY <1>0, <1>11 DEF StopTakes
    <3>3. caller'[c].session = current /\ used' = used
      BY <1>11 DEF StopTakes
    <3> QED
      BY <2>1, <3>1, <3>2, <3>3 DEF LockInv
  <2>3. FreshInv' /\ CallerInv' /\ CurrentInv' /\ ConnInv' /\ ReportInv'
    BY <1>11 DEF StopTakes, sessionVars
  <2>4. NoOrphanConnection'
    BY <1>11 DEF StopTakes, sessionVars
  <2> QED
    BY <2>2, <2>3, <2>4
<1>12. CASE ShutdownReturns(c)
  <2>1. lifecycleMu = c /\ \A s \in Sessions : conn[s] # "open"
    BY <1>1, <1>12 DEF ShutdownReturns
  <2>2. \A d \in Callers : ~Inside(d)'
    BY <1>12, <2>1 DEF ShutdownReturns, Return, Idle
  <2>3. LockInv'
    <3>1. lifecycleMu' = NoOne /\ \A s \in Sessions : monitor'[s] # "shutdown"
      BY <1>12, <2>1 DEF ShutdownReturns, sessionVars
    <3> QED
      BY <2>2, <3>1 DEF LockInv
  <2>4. FreshInv' /\ CallerInv' /\ CurrentInv' /\ ConnInv' /\ ReportInv'
    BY <1>12, <2>1, <2>2 DEF ShutdownReturns, sessionVars
  <2> QED
    BY <1>12, <2>1, <2>3, <2>4 DEF ShutdownReturns, sessionVars
<1> QED
  BY <1>2, <1>3, <1>4, <1>5, <1>6, <1>7, <1>8, <1>9, <1>10, <1>11, <1>12 DEF LifecycleSteps

\* The goroutines of a session.
LEMMA SessionStep ==
  ASSUME VideoInv, NEW s \in Sessions,
         \/ DialEnds(s) \/ DialAbandoned(s) \/ ShutdownSteps(s) \/ RendererSteps(s)
         \/ RefresherQuits(s) \/ MonitorSteps(s)
  PROVE  StepInv'
<1> USE VideoAssumption, Goroutines DEF VideoInv, Sessions
<1> USE DEF TypeOK, StepInv, LockInv, Inside, FreshInv, Untouched, CallerInv, CurrentInv,
            ConnInv, ReportInv, NoOrphanConnection
<1>1. CASE DialEnds(s)
  BY <1>1 DEF DialEnds
<1>2. CASE DialAbandoned(s)
  BY <1>2 DEF DialAbandoned
<1>3. CASE ShutBegins(s)
  BY <1>3 DEF ShutBegins, ShuttingDown
<1>4. CASE ShutCloses(s)
  BY <1>4 DEF ShutCloses
<1>5. CASE ShutJoins(s)
  BY <1>5 DEF ShutJoins
<1>6. CASE RenderFrame(s)
  BY <1>6 DEF RenderFrame, Dies
<1>7. CASE TakeWriteMu(s)
  BY <1>7 DEF TakeWriteMu, Dies
<1>8. CASE WriteReturns(s)
  BY <1>8 DEF WriteReturns, Dies
<1>9. CASE Tick(s)
  BY <1>9 DEF Tick
<1>10. CASE RenderCancelled(s)
  BY <1>10 DEF RenderCancelled
<1>11. CASE RefresherQuits(s)
  BY <1>11 DEF RefresherQuits
<1>12. CASE MonitorWakes(s)
  BY <1>12 DEF MonitorWakes
<1>13. CASE MonitorLocks(s)
  <2>1. \A d \in Callers : ~Inside(d) /\ ~Inside(d)'
    BY <1>13 DEF MonitorLocks
  <2>2. LockInv'
    BY <1>13, <2>1 DEF MonitorLocks
  <2>3. FreshInv' /\ CallerInv' /\ CurrentInv' /\ ConnInv'
    BY <1>13 DEF MonitorLocks
  <2>4. ReportInv' /\ NoOrphanConnection'
    BY <1>13 DEF MonitorLocks
  <2> QED
    BY <2>2, <2>3, <2>4
<1>14. CASE MonitorUnlocks(s)
  <2>1. lifecycleMu = s /\ conn[s] = "closed"
    BY <1>14 DEF MonitorUnlocks
  <2>2. LockInv' /\ FreshInv' /\ CallerInv' /\ CurrentInv' /\ ConnInv' /\ ReportInv'
    BY <1>14, <2>1 DEF MonitorUnlocks
  <2>3. NoOrphanConnection'
    BY <1>14, <2>1 DEF MonitorUnlocks
  <2> QED
    BY <2>2, <2>3
<1>15. CASE Report(s)
  BY <1>15 DEF Report
<1> QED
  BY <1>1, <1>2, <1>3, <1>4, <1>5, <1>6, <1>7, <1>8, <1>9, <1>10, <1>11, <1>12, <1>13,
     <1>14, <1>15 DEF ShutdownSteps, RendererSteps, MonitorSteps

\* VideoInv is inductive.
LEMMA VideoInvInit == Init => VideoInv
<1> SUFFICES ASSUME Init PROVE VideoInv
  OBVIOUS
<1>1. TypeOK
  BY VideoAssumption DEF Init, TypeOK, Idle, CallerSteps, Failures, Sessions
<1>2. /\ LockInv /\ FreshInv /\ CallerInv /\ CurrentInv
      /\ ConnInv /\ ReportInv /\ NoOrphanConnection
  BY VideoAssumption DEF Init, Idle, Sessions, LockInv, Inside, FreshInv, Untouched, CallerInv,
     CurrentInv, ConnInv, ReportInv, NoOrphanConnection
<1> QED
  BY <1>1, <1>2 DEF VideoInv

\* A step preserves VideoInv.
LEMMA VideoInvNext ==
  ASSUME VideoInv, [Next]_vars
  PROVE  VideoInv'
<1>1. ASSUME NEW c \in Callers, Call(c) \/ Expire(c) \/ LifecycleSteps(c)
      PROVE  VideoInv'
  BY <1>1, CallerTypes, CallerStep DEF VideoInv, StepInv
<1>2. ASSUME NEW s \in Sessions,
             \/ DialEnds(s) \/ DialAbandoned(s) \/ ShutdownSteps(s) \/ RendererSteps(s)
             \/ RefresherQuits(s) \/ MonitorSteps(s)
      PROVE  VideoInv'
  BY <1>2, SessionTypes, SessionStep DEF VideoInv, StepInv
<1>3. CASE UNCHANGED vars
  BY <1>3 DEF vars, sessionVars, VideoInv, TypeOK, LockInv, Inside, FreshInv, Untouched,
     CallerInv, CurrentInv, ConnInv, ReportInv, NoOrphanConnection
<1> QED
  BY <1>1, <1>2, <1>3 DEF Next

\* The strengthened invariant holds in every state of every behaviour.
THEOREM VideoInvHolds == Spec => []VideoInv
<1> QED
  BY VideoInvInit, VideoInvNext, PTL DEF Spec

\* For any number of callers and sessions, an open SRT connection is current
\* or belongs to the goroutine inside lifecycleMu (Start, Stop, monitor), and
\* no session is reported twice.
THEOREM ConnectionsOwned == Spec => []ConnectionInv
<1>1. VideoInv => ConnectionInv
  BY DEF VideoInv, ConnectionInv
<1> QED
  BY <1>1, VideoInvHolds, PTL
-----------------------------------------------------------------------------
(* Shutdown and the renderer.                                              *)

\* Only ShutCloses closes an open connection, and it waits for the writer
\* unless the context of Stop is done.
LEMMA CutStep ==
  ASSUME VideoInv, [Next]_vars, NEW s \in Sessions,
         conn[s] = "open", conn'[s] = "closed", render[s] = "write"
  PROVE  GivesUp(s)
<1> USE DEF VideoInv, TypeOK
<1>1. CASE \E c \in Callers : Call(c) \/ Expire(c) \/ LifecycleSteps(c)
  <2>1. PICK c \in Callers : Call(c) \/ Expire(c) \/ LifecycleSteps(c)
    BY <1>1
  <2>2. conn' = conn \/ DialFails(c) \/ DialSucceeds(c) \/ StartDials(c)
    BY <2>1 DEF Call, Expire, LifecycleSteps, StartRefused, StartReady, StartFails,
       StopFindsNothing, StopTakes, ShutdownReturns, sessionVars
  <2> QED
    BY <2>2 DEF DialFails, DialSucceeds, StartDials
<1>2. CASE \E r \in Sessions : ShutdownSteps(r)
  BY <1>2 DEF ShutdownSteps, ShutBegins, ShutCloses, ShutJoins
<1>3. CASE \E r \in Sessions : DialEnds(r) \/ DialAbandoned(r)
  BY <1>3 DEF DialEnds, DialAbandoned
<1>4. CASE \E r \in Sessions : RendererSteps(r) \/ RefresherQuits(r) \/ MonitorSteps(r)
  BY <1>4 DEF RendererSteps, RenderFrame, TakeWriteMu, WriteReturns, Tick, RenderCancelled,
     RefresherQuits, MonitorSteps, MonitorWakes, MonitorLocks, MonitorUnlocks, Report
<1>5. CASE UNCHANGED vars
  BY <1>5 DEF vars, sessionVars
<1> QED
  BY <1>1, <1>2, <1>3, <1>4, <1>5 DEF Next

\* Only TakeWriteMu begins a frame, and s.stopping keeps it out of a session
\* whose shutdown has begun.
LEMMA WriteStep ==
  ASSUME VideoInv, [Next]_vars, NEW s \in Sessions,
         render[s] # "write", render'[s] = "write"
  PROVE  conn[s] = "open" /\ shut[s] = "no"
<1> USE DEF VideoInv, TypeOK
<1>1. CASE \E c \in Callers : Call(c) \/ Expire(c) \/ LifecycleSteps(c)
  <2>1. PICK c \in Callers : Call(c) \/ Expire(c) \/ LifecycleSteps(c)
    BY <1>1
  <2>2. render' = render \/ render' = [render EXCEPT ![caller[c].session] = "render"]
    BY <2>1 DEF Call, Expire, LifecycleSteps, StartRefused, StartReady, StartFails,
       StartDials, DialFails, DialSucceeds, StopFindsNothing, StopTakes, ShutdownReturns,
       sessionVars
  <2> QED
    BY <2>2
<1>2. CASE \E r \in Sessions : RendererSteps(r)
  <2>1. PICK r \in Sessions : RendererSteps(r)
    BY <1>2
  <2>2. r = s /\ render[s] = "lock" /\ ~stopping[s]
    BY <2>1 DEF RendererSteps, RenderFrame, TakeWriteMu, WriteReturns, Tick, RenderCancelled,
       Dies
  <2> QED
    BY <2>2 DEF ConnInv
<1>3. CASE \E r \in Sessions : \/ ShutdownSteps(r) \/ DialEnds(r) \/ DialAbandoned(r)
                               \/ RefresherQuits(r) \/ MonitorSteps(r)
  BY <1>3 DEF ShutdownSteps, ShutBegins, ShutCloses, ShutJoins, DialEnds, DialAbandoned,
     RefresherQuits, MonitorSteps, MonitorWakes, MonitorLocks, MonitorUnlocks, Report
<1>4. CASE UNCHANGED vars
  BY <1>4 DEF vars, sessionVars
<1> QED
  BY <1>1, <1>2, <1>3, <1>4 DEF Next

\* In every behaviour shutdown spares the frames: it cuts one off only for a
\* Stop whose context is done, and none begins once it has started (shutdown,
\* renderFrame).
THEOREM FramesSpared == Spec => ShutdownSparesFrames
<1>1. VideoInv /\ [Next]_vars =>
        /\ [\A s \in Sessions : (conn[s] = "open" /\ conn'[s] = "closed" /\ render[s] = "write")
                                 => GivesUp(s)]_vars
        /\ [\A s \in Sessions : (render[s] # "write" /\ render'[s] = "write")
                                 => conn[s] = "open" /\ shut[s] = "no"]_vars
  BY CutStep, WriteStep
<1> QED
  BY <1>1, VideoInvHolds, PTL DEF Spec, ShutdownSparesFrames, WritesAreNotCut,
     NoWriteAfterShutdown
-----------------------------------------------------------------------------
(* The refinement of VideoContract, without its fairness.                  *)

\* Steps that neither change the current session nor bring a monitor up, find
\* a failure or report one are invisible to the job manager.
LEMMA Invisible ==
  ASSUME UNCHANGED <<current, failed, reports>>,
         \A s \in Sessions : (monitor'[s] = "off") <=> (monitor[s] = "off")
  PROVE  UNCHANGED Contract!vars
BY DEF Contract!vars

\* Every step of the detailed specification is a step of the contract.
LEMMA ContractStep ==
  ASSUME VideoInv, [Next]_vars
  PROVE  [Contract!Next]_(Contract!vars)
<1> USE DEF VideoInv, TypeOK
<1>1. ASSUME NEW c \in Callers, StartReady(c)
      PROVE  Contract!Next
  <2>1. PICK s \in Sessions : s = caller[c].session
    BY <1>1, VideoAssumption DEF StartReady, LockInv, Inside, Sessions
  <2>2. current = 0 /\ monitor[s] = "off"
    BY <1>1, <2>1 DEF StartReady, Inside, CallerInv
  <2>3. /\ current' = s /\ monitor' = [monitor EXCEPT ![s] = "watch"]
        /\ UNCHANGED <<failed, reports>>
    BY <1>1, <2>1 DEF StartReady
  <2>4. Contract!Open(s)
    BY <2>2, <2>3 DEF Contract!Open
  <2> QED
    BY <2>4 DEF Contract!Next
<1>2. ASSUME NEW c \in Callers, StopTakes(c)
      PROVE  Contract!Next
  BY <1>2 DEF StopTakes, sessionVars, Contract!Next, Contract!Stop
<1>3. ASSUME NEW s \in Sessions, MonitorLocks(s)
      PROVE  [Contract!Next]_(Contract!vars)
  <2>1. ~failed[s] /\ reports[s] = 0 /\ monitor[s] = "lock"
    BY <1>3 DEF MonitorLocks, ReportInv
  <2>2. /\ monitor' = [monitor EXCEPT ![s] = "shutdown"]
        /\ failed' = [failed EXCEPT ![s] = current = s]
        /\ UNCHANGED reports
    BY <1>3 DEF MonitorLocks
  <2>3. CASE current = s
    <3>1. current' = 0 /\ current # 0
      BY <1>3, <2>3, Goroutines DEF MonitorLocks
    <3>2. Contract!Die
      <4>1. {r \in Sessions : monitor[r] # "off"}' = {r \in Sessions : monitor[r] # "off"}
        BY <2>1, <2>2
      <4>2. {r \in Sessions : failed[r] /\ reports[r] = 0}'
              = {r \in Sessions : failed[r] /\ reports[r] = 0} \cup {current}
        <5>1. \A r \in Sessions : failed'[r] = (failed[r] \/ r = s) /\ reports'[r] = reports[r]
          BY <2>1, <2>2, <2>3
        <5> QED
          BY <2>1, <2>3, <5>1
      <4>3. {r \in Sessions : reports[r] > 0}' = {r \in Sessions : reports[r] > 0}
        BY <2>2
      <4> QED
        BY <3>1, <4>1, <4>2, <4>3 DEF Contract!Die
    <3> QED
      BY <3>2 DEF Contract!Next
  <2>4. CASE current # s
    <3>1. UNCHANGED <<current, failed, reports>>
      BY <1>3, <2>1, <2>2, <2>4 DEF MonitorLocks
    <3> QED
      BY <2>1, <2>2, <3>1, Invisible
  <2> QED
    BY <2>3, <2>4
<1>4. ASSUME NEW s \in Sessions, Report(s)
      PROVE  Contract!Next
  <2>1. failed[s] /\ reports[s] = 0 /\ monitor[s] = "report"
    BY <1>4 DEF Report, ReportInv
  <2>2. /\ reports' = [reports EXCEPT ![s] = 1] /\ monitor' = [monitor EXCEPT ![s] = "done"]
        /\ UNCHANGED <<current, failed>>
    BY <1>4, <2>1 DEF Report
  <2>3. Contract!Tell(s)
    BY <2>1, <2>2 DEF Contract!Tell
  <2> QED
    BY <2>3 DEF Contract!Next
<1>5. ASSUME NEW c \in Callers,
             \/ Call(c) \/ Expire(c) \/ StartRefused(c) \/ StartDials(c) \/ DialFails(c)
             \/ DialSucceeds(c) \/ StartFails(c) \/ StopFindsNothing(c) \/ ShutdownReturns(c)
      PROVE  UNCHANGED Contract!vars
  BY <1>5, Invisible DEF Call, Expire, StartRefused, StartDials, DialFails, DialSucceeds,
     StartFails, StopFindsNothing, ShutdownReturns, sessionVars
<1>6. ASSUME NEW s \in Sessions,
             \/ DialEnds(s) \/ DialAbandoned(s) \/ ShutdownSteps(s) \/ RendererSteps(s)
             \/ RefresherQuits(s) \/ MonitorWakes(s) \/ MonitorUnlocks(s)
      PROVE  UNCHANGED Contract!vars
  <2>1. UNCHANGED <<current, failed, reports>>
    BY <1>6 DEF DialEnds, DialAbandoned, ShutdownSteps, ShutBegins, ShutCloses, ShutJoins,
       RendererSteps, RenderFrame, TakeWriteMu, WriteReturns, Tick, RenderCancelled,
       RefresherQuits, MonitorWakes, MonitorUnlocks
  <2>2. monitor' = monitor \/ MonitorWakes(s) \/ MonitorUnlocks(s)
    BY <1>6 DEF DialEnds, DialAbandoned, ShutdownSteps, ShutBegins, ShutCloses, ShutJoins,
       RendererSteps, RenderFrame, TakeWriteMu, WriteReturns, Tick, RenderCancelled,
       RefresherQuits
  <2>3. \A r \in Sessions : (monitor'[r] = "off") <=> (monitor[r] = "off")
    BY <2>2 DEF MonitorWakes, MonitorUnlocks
  <2> QED
    BY <2>1, <2>3, Invisible
<1>7. CASE UNCHANGED vars
  BY <1>7, Invisible DEF vars, sessionVars
<1> QED
  BY <1>1, <1>2, <1>3, <1>4, <1>5, <1>6, <1>7 DEF Next, LifecycleSteps, MonitorSteps

\* Whatever the order of errors, stops and timeouts, the job manager sees what
\* VideoContract allows: one live session at a time, at most one report of a
\* session that died, none of one that was stopped or never came up (Start,
\* Stop, monitor).  ImplementsContract adds that the report arrives.
THEOREM SafetyOfContract == Spec => Contract!Init /\ [][Contract!Next]_(Contract!vars)
<1>1. Init => Contract!Init
  BY DEF Init, Contract!Init
<1> QED
  BY <1>1, ContractStep, VideoInvHolds, PTL DEF Spec
=============================================================================
