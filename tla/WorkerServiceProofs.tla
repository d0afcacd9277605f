------------------------ MODULE WorkerServiceProofs -------------------------
(***************************************************************************)
(* Proofs about WorkerService, for any number of requests, streams, nodes   *)
(* and versions of the assignments.                                         *)
(***************************************************************************)
EXTENDS WorkerService, FiniteSetTheorems, TLAPS

\* The process answers, or has answered, requests.
Served == {"serve", "close", "stop", "drain", "exited"}

\* The identity: what main has read and compared, step by step.
IdentityInv ==
  /\ main.step \notin {"read", "fatal"} => boot \in Config
  /\ main.step \in {"read", "resolve", "match"} => ~compared /\ registered = None
  /\ registered # None => boot \in Config /\ registered = boot.node
  /\ compared /\ main.step # "fatal" => latch \in Config /\ latch.node = boot.node
  /\ answered # {} => main.step \in Served /\ latch \in Config
  /\ answered \subseteq {latch}

\* The Control Panel: where it is required, main does not get past it.
PanelInv ==
  /\ Required /\ main.step \in {"config", "listen"} \cup Served => registered # None
  /\ Required /\ main.step \in {"listen"} \cup Served => policy # None
  /\ \A h \in Handlers : handler[h].step \in {"policy", "profiles"} => handler[h].config # None

\* The job: numbers are used once, and the shutdown stops the job it found.
JobInv ==
  /\ job.number <= jobs /\ main.job <= jobs
  /\ job.number = 0 <=> job = NoJob
  /\ job # NoJob => job.stream \in Streams
  /\ \A h \in Handlers : handler[h].step # "idle" => handler[h].stream \in Streams
  /\ main.step = "stop" =>
       /\ main.found \in Streams
       /\ main.job # 0 /\ job.number = main.job => job.stream = main.found
  /\ main.step \in {"drain", "exited"} /\ main.job # 0 =>
       job.number # main.job \/ job.stopping

\* The inductive invariant, for any number of requests.
ProcessInv == TypeOK /\ IdentityInv /\ PanelInv /\ JobInv

\* One request at a time.
Single == \A g, h \in Handlers : g = h

\* The steps of a request after it fetched.
Fetching == {"policy", "profiles", "call", "locked"}

\* The configuration a request fetched is not older than the request; once
\* applied it is the one that is enforced until the request is answered.
FetchInv ==
  /\ main.step \notin Served => \A h \in Handlers : handler[h].step = "idle"
  /\ \A h \in Handlers :
       /\ handler[h].step = "fetch" => handler[h].since <= panel
       /\ handler[h].step # "idle" => handler[h].kind \in {"start", "stop", "update"}
       /\ handler[h].step \in Fetching /\ handler[h].kind # "stop" =>
            /\ handler[h].config \in RuntimeConfig
            /\ handler[h].config.version \in handler[h].since..panel
       /\ handler[h].step \in {"profiles", "call", "locked"} /\ handler[h].kind # "stop" =>
            policy = handler[h].config
-----------------------------------------------------------------------------
(* Types.                                                                   *)

\* The locals of main.
MainState == [step : MainSteps, job : 0..MaxJobs, found : Streams \cup {None}]

\* The locals of a request.
HandlerState == [step : {"idle", "fetch", "policy", "profiles", "call", "locked"},
                 kind : {"none", "start", "stop", "update"},
                 stream : Streams \cup {None}, config : RuntimeConfig \cup {None},
                 since : 0..MaxVersion]

\* The current job.
JobState == [number : 0..MaxJobs, stream : Streams \cup {None}, stopping : BOOLEAN]

\* TypeOK without the two records.
Rest ==
  /\ file \in Files /\ panel \in Versions
  /\ boot \in Config \cup {None} /\ latch \in Config \cup {None}
  /\ registered \in Nodes \cup {None} /\ compared \in BOOLEAN
  /\ policy \in RuntimeConfig \cup {None} /\ profiles \in RuntimeConfig \cup {None}
  /\ lifecycle \in Handlers \cup {None}
  /\ job \in JobState /\ jobs \in 0..MaxJobs
  /\ answered \subseteq Config

\* The request inside Start, Stop or the update has lifecycleMu.
LockInv == \A h \in Handlers : handler[h].step = "locked" => lifecycle = h

\* TypeOK by its parts.
LEMMA TypeParts ==
  TypeOK <=> /\ main \in MainState /\ handler \in [Handlers -> HandlerState]
             /\ Rest /\ LockInv
BY DEF TypeOK, MainState, HandlerState, JobState, Rest, LockInv

\* The steps of main keep its type.
LEMMA StepTyped ==
  ASSUME main \in MainState, NEW to \in MainSteps, NEW from, Step(from, to)
  PROVE  main' \in MainState /\ main.step = from /\ main'.step = to
         /\ main'.job = main.job /\ main'.found = main.found
BY DEF MainState, Step

\* A configuration has a node.
LEMMA NodeOf ==
  ASSUME IdentityInv, main.step \notin {"read", "fatal"}
  PROVE  boot \in Config /\ boot.node \in Nodes
BY DEF IdentityInv, Config

\* An applied configuration names the node and the version it was read at.
LEMMA FetchedTyped ==
  ASSUME NEW n \in Nodes, NEW v \in Versions
  PROVE  [node |-> n, version |-> v] \in RuntimeConfig
BY DEF RuntimeConfig

\* Both ends of a Stop leave a job.
LEMMA StoppedTyped ==
  ASSUME job \in JobState
  PROVE  \A j \in Stopped : j = NoJob \/ (/\ j \in JobState /\ j.number = job.number
                                         /\ j.stream = job.stream /\ j.stopping)
BY DEF Stopped, JobState

\* Steps of main and of the environment.
LEMMA MainTypes ==
  ASSUME ProcessInv,
         \/ MainStep \/ Signal \/ PanelReassigns \/ UpdaterVersion \/ JobFails
         \/ \E new \in Files : ConfigReplaced(new)
         \/ UNCHANGED vars
  PROVE  TypeOK'
<1>1. /\ main \in MainState /\ handler \in [Handlers -> HandlerState] /\ Rest /\ LockInv
      /\ IdentityInv
  BY TypeParts DEF ProcessInv
<1>2. /\ "read" \in MainSteps /\ "resolve" \in MainSteps /\ "match" \in MainSteps
      /\ "register" \in MainSteps /\ "config" \in MainSteps /\ "listen" \in MainSteps
      /\ "serve" \in MainSteps /\ "close" \in MainSteps /\ "stop" \in MainSteps
      /\ "drain" \in MainSteps /\ "exited" \in MainSteps /\ "fatal" \in MainSteps
  BY DEF MainSteps
<1>3. handler' = handler
  BY DEF MainStep, ReadConfig, ResolveIdentity, MatchIdentity, Register, StartsWithoutPanel,
     BootConfig, Listen, CloseBegins, CloseStops, ShutdownEnds, Signal, PanelReassigns,
     UpdaterVersion, JobFails, ConfigReplaced, vars
<1>4. lifecycle' = lifecycle
  BY DEF MainStep, ReadConfig, ResolveIdentity, MatchIdentity, Register, StartsWithoutPanel,
     BootConfig, Listen, CloseBegins, CloseStops, ShutdownEnds, Signal, PanelReassigns,
     UpdaterVersion, JobFails, ConfigReplaced, vars, managerVars
<1>5. main' \in MainState
  <2>1. CASE \/ ReadConfig \/ ResolveIdentity \/ MatchIdentity \/ Register \/ StartsWithoutPanel
             \/ BootConfig \/ Listen \/ CloseStops \/ ShutdownEnds
    <3>1. PICK from, to \in MainSteps : Step(from, to)
      BY <1>2, <2>1 DEF ReadConfig, ResolveIdentity, MatchIdentity, Register, StartsWithoutPanel,
         BootConfig, Listen, CloseStops, ShutdownEnds, Identifies, WithoutPanel
    <3> QED
      BY <1>1, <3>1, StepTyped
  <2>2. CASE CloseBegins
    BY <1>1, <1>2, <2>2 DEF CloseBegins, CloseFinds, MainState, Rest, JobState
  <2>3. CASE Signal
    BY <1>1, <1>2, <2>3 DEF Signal, MainState, Rest, JobState
  <2>4. CASE \/ PanelReassigns \/ UpdaterVersion \/ JobFails
             \/ \E new \in Files : ConfigReplaced(new)
             \/ UNCHANGED vars
    BY <1>1, <2>4 DEF PanelReassigns, UpdaterVersion, JobFails, ConfigReplaced, vars
  <2> QED
    BY <2>1, <2>2, <2>3, <2>4 DEF MainStep
<1>6. Rest'
  <2> USE <1>1 DEF Rest, bootVars, managerVars
  <2>1. CASE ReadConfig
    BY <2>1 DEF ReadConfig
  <2>2. CASE ResolveIdentity \/ MatchIdentity \/ Listen
    BY <2>2 DEF ResolveIdentity, MatchIdentity, Listen, Identifies, Resolves
  <2>3. CASE Register \/ BootConfig
    <3>1. main.step \notin {"read", "fatal"}
      BY <2>3 DEF Register, BootConfig, Step
    <3>2. boot.node \in Nodes
      BY <3>1, NodeOf
    <3> QED
      BY <2>3, <3>2, FetchedTyped DEF Register, BootConfig
  <2>9. NoJob \in JobState
    BY ServiceAssumption DEF NoJob, JobState
  <2>4. CASE CloseStops \/ JobFails
    <3>1. job' \in JobState
      BY <2>4, <2>9, StoppedTyped DEF CloseStops, JobFails
    <3> QED
      BY <2>4, <3>1 DEF CloseStops, JobFails
  <2>5. CASE StartsWithoutPanel \/ CloseBegins \/ ShutdownEnds \/ Signal
             \/ \E new \in Files : ConfigReplaced(new)
    BY <2>5 DEF StartsWithoutPanel, CloseBegins, ShutdownEnds, Signal, ConfigReplaced
  <2>6. CASE PanelReassigns
    BY <2>6, ServiceAssumption DEF PanelReassigns, Versions
  <2>7. CASE UpdaterVersion
    BY <2>7 DEF UpdaterVersion, Resolves
  <2>8. CASE UNCHANGED vars
    BY <2>8 DEF vars
  <2> QED
    BY <2>1, <2>2, <2>3, <2>4, <2>5, <2>6, <2>7, <2>8 DEF MainStep
<1> QED
  BY <1>1, <1>3, <1>4, <1>5, <1>6 DEF TypeOK, MainState, HandlerState, JobState, Rest, LockInv

\* Steps of a request.
LEMMA HandlerTypes ==
  ASSUME ProcessInv, NEW h \in Handlers,
         \/ HandlerStep(h)
         \/ \E kind \in {"start", "stop", "update"}, s \in Streams : Request(h, kind, s)
  PROVE  TypeOK' /\ \A g \in Handlers : g # h => handler'[g] = handler[g]
<1>1. /\ main \in MainState /\ handler \in [Handlers -> HandlerState] /\ Rest /\ LockInv
      /\ handler[h] \in HandlerState
  BY TypeParts DEF ProcessInv
<1>2. Idle \in HandlerState
  BY ServiceAssumption DEF HandlerState, Idle
<1>3. /\ \A g \in Handlers : g # h => handler'[g] = handler[g]
      /\ handler' = [handler EXCEPT ![h] = handler'[h]]
  BY <1>1 DEF HandlerStep, FetchConfig, FetchFails, ApplyPolicy, ApplyProfiles, Lock, StartJob,
     StopJob, LeavesJob, Request, Return, Go, Unlock
<1>4. handler'[h] \in HandlerState
  <2>1. CASE FetchConfig(h)
    <3>1. [node |-> file.node, version |-> panel] \in RuntimeConfig
      BY <1>1, <2>1 DEF FetchConfig, Rest, Config, RuntimeConfig
    <3> QED
      BY <1>1, <2>1, <3>1 DEF FetchConfig, HandlerState
  <2>2. CASE ApplyPolicy(h) \/ ApplyProfiles(h) \/ Lock(h)
    <3>1. PICK x \in {"profiles", "call", "locked"} : Go(h, x)
      BY <2>2 DEF ApplyPolicy, ApplyProfiles, Lock
    <3>2. handler'[h] = [handler[h] EXCEPT !.step = x]
      BY <1>1, <3>1 DEF Go
    <3> QED
      BY <1>1, <3>2 DEF HandlerState
  <2>3. CASE FetchFails(h) \/ StartJob(h) \/ StopJob(h) \/ LeavesJob(h)
    BY <1>1, <1>2, <2>3 DEF FetchFails, StartJob, StopJob, LeavesJob, Unlock, Return
  <2>4. ASSUME NEW kind \in {"start", "stop", "update"}, NEW s \in Streams, Request(h, kind, s)
        PROVE  handler'[h] \in HandlerState
    <3>1. handler'[h] = [step |-> IF kind = "stop" THEN "call" ELSE "fetch", kind |-> kind,
                         stream |-> s, config |-> None, since |-> panel]
      BY <1>1, <2>4 DEF Request, Idle
    <3> QED
      BY <1>1, <3>1, ServiceAssumption DEF HandlerState, Rest, Versions
  <2> QED
    BY <2>1, <2>2, <2>3, <2>4 DEF HandlerStep
<1>5. handler' \in [Handlers -> HandlerState]
  BY <1>1, <1>3, <1>4
<1>6. main' = main
  BY DEF HandlerStep, FetchConfig, FetchFails, ApplyPolicy, ApplyProfiles, Lock, StartJob,
     StopJob, LeavesJob, Request
<1>7. Rest'
  <2> USE <1>1 DEF Rest, bootVars, managerVars
  <2>1. CASE \/ FetchConfig(h) \/ FetchFails(h)
             \/ \E kind \in {"start", "stop", "update"}, s \in Streams : Request(h, kind, s)
    BY <2>1 DEF FetchConfig, FetchFails, Request
  <2>2. CASE ApplyPolicy(h) \/ ApplyProfiles(h)
    BY <2>2 DEF ApplyPolicy, ApplyProfiles, HandlerState
  <2>3. CASE Lock(h) \/ LeavesJob(h)
    BY <2>3 DEF Lock, LeavesJob, Unlock
  <2>4. CASE StartJob(h)
    <3>1. job' \in JobState /\ jobs' \in 0..MaxJobs
      BY <2>4, ServiceAssumption DEF StartJob, HandlerState, JobState
    <3> QED
      BY <2>4, <3>1 DEF StartJob, Unlock
  <2>5. CASE StopJob(h)
    <3>1. job' \in JobState
      <4>1. NoJob \in JobState
        BY ServiceAssumption DEF NoJob, JobState
      <4> QED
        BY <2>5, <4>1, StoppedTyped DEF StopJob
    <3> QED
      BY <2>5, <3>1 DEF StopJob, Unlock
  <2> QED
    BY <2>1, <2>2, <2>3, <2>4, <2>5 DEF HandlerStep
<1>8. LockInv'
  <2>1. CASE Lock(h)
    <3>1. lifecycle = None /\ lifecycle' = h
      BY <2>1 DEF Lock
    <3> QED
      BY <1>1, <1>3, <3>1, ServiceAssumption DEF LockInv
  <2>2. CASE StartJob(h) \/ StopJob(h) \/ LeavesJob(h)
    <3>1. handler[h].step = "locked" /\ handler'[h].step = "idle"
      BY <1>1, <2>2 DEF StartJob, StopJob, LeavesJob, Unlock, Return, Idle
    <3> QED
      BY <1>1, <1>3, <3>1 DEF LockInv
  <2>3. CASE \/ FetchConfig(h) \/ FetchFails(h) \/ ApplyPolicy(h) \/ ApplyProfiles(h)
             \/ \E kind \in {"start", "stop", "update"}, s \in Streams : Request(h, kind, s)
    <3>1. lifecycle' = lifecycle
      BY <2>3 DEF FetchConfig, FetchFails, ApplyPolicy, ApplyProfiles, Request, managerVars
    <3>2. handler'[h].step # "locked"
      <4>1. CASE FetchFails(h) \/ ApplyPolicy(h) \/ ApplyProfiles(h)
        BY <1>1, <4>1 DEF FetchFails, ApplyPolicy, ApplyProfiles, Return, Go, Idle, HandlerState
      <4>3. CASE FetchConfig(h)
        BY <1>1, <4>3 DEF FetchConfig, HandlerState
      <4>2. CASE \E kind \in {"start", "stop", "update"}, s \in Streams : Request(h, kind, s)
        BY <1>1, <4>2 DEF Request, Idle
      <4> QED
        BY <2>3, <4>1, <4>2, <4>3
    <3> QED
      BY <1>1, <1>3, <3>1, <3>2 DEF LockInv
  <2> QED
    BY <2>1, <2>2, <2>3 DEF HandlerStep
<1> QED
  BY <1>1, <1>3, <1>5, <1>6, <1>7, <1>8
     DEF TypeOK, MainState, HandlerState, JobState, Rest, LockInv
-----------------------------------------------------------------------------
(* The invariant.                                                           *)

\* The identity is bound once and compared before the process registers.
LEMMA IdentityStep ==
  ASSUME ProcessInv, [Next]_vars
  PROVE  IdentityInv'
<1> USE ServiceAssumption DEF ProcessInv, IdentityInv, Served, TypeOK, bootVars
<1>1. CASE ReadConfig
  BY <1>1 DEF ReadConfig, Step
<1>2. CASE ResolveIdentity
  BY <1>2 DEF ResolveIdentity, Identifies, Resolves, Step
<1>3. CASE MatchIdentity
  BY <1>3 DEF MatchIdentity, Identifies, Resolves, Matches, Step
<1>4. CASE Register \/ BootConfig
  BY <1>4 DEF Register, BootConfig, Step
<1>5. CASE StartsWithoutPanel
  BY <1>5 DEF StartsWithoutPanel, WithoutPanel, Step
<1>6. CASE Listen
  BY <1>6 DEF Listen, Identifies, Resolves, Step
<1>7. CASE CloseBegins \/ Signal
  <2>1. main.step \in {"close", "serve"} /\ main'.step \in {"close", "stop", "drain"}
    <3>1. main \in MainState
      BY DEF MainState
    <3>2. CASE CloseBegins
      BY <3>1, <3>2 DEF CloseBegins, CloseFinds, MainState
    <3>3. CASE Signal
      BY <3>3 DEF Signal
    <3> QED
      BY <1>7, <3>2, <3>3
  <2>2. UNCHANGED <<bootVars, answered>>
    BY <1>7 DEF CloseBegins, Signal
  <2> QED
    BY <2>1, <2>2
<1>8. CASE CloseStops \/ ShutdownEnds
  BY <1>8 DEF CloseStops, ShutdownEnds, Step
<1>9. CASE UpdaterVersion
  BY <1>9 DEF UpdaterVersion, Serving, Resolves
<1>10. CASE \/ PanelReassigns \/ JobFails
            \/ \E new \in Files : ConfigReplaced(new)
            \/ \E h \in Handlers : HandlerStep(h)
                 \/ \E kind \in {"start", "stop", "update"}, s \in Streams : Request(h, kind, s)
            \/ UNCHANGED vars
  <2>1. UNCHANGED <<main, bootVars, answered>>
    BY <1>10 DEF PanelReassigns, JobFails, ConfigReplaced, HandlerStep, FetchConfig, FetchFails,
       ApplyPolicy, ApplyProfiles, Lock, StartJob, StopJob, LeavesJob, Request, vars
  <2> QED
    BY <2>1
<1> QED
  BY <1>1, <1>2, <1>3, <1>4, <1>5, <1>6, <1>7, <1>8, <1>9, <1>10 DEF Next, MainStep

\* Assignments, once there are some, are replaced and never dropped.
LEMMA PanelStep ==
  ASSUME ProcessInv, [Next]_vars
  PROVE  PanelInv'
<1> USE ServiceAssumption DEF ProcessInv, PanelInv, Served, TypeOK
<1>1. CASE ReadConfig
  BY <1>1 DEF ReadConfig, Step, managerVars
<1>2. CASE ResolveIdentity \/ MatchIdentity \/ Listen
  BY <1>2 DEF ResolveIdentity, MatchIdentity, Listen, Identifies, Step, managerVars
<1>3. CASE Register
  BY <1>3, NodeOf DEF Register, Step, managerVars
<1>4. CASE StartsWithoutPanel
  BY <1>4 DEF StartsWithoutPanel, WithoutPanel, Step, managerVars, bootVars
<1>5. CASE BootConfig
  <2>1. main.step = "config" /\ main'.step = "listen" /\ UNCHANGED <<registered, handler>>
    BY <1>5 DEF BootConfig, Step, bootVars
  <2>2. policy' \in RuntimeConfig
    BY <1>5, <2>1, NodeOf, FetchedTyped DEF BootConfig
  <2> QED
    BY <2>1, <2>2
<1>6. CASE CloseBegins \/ Signal
  BY <1>6 DEF CloseBegins, CloseFinds, Signal, managerVars, bootVars
<1>7. CASE CloseStops \/ ShutdownEnds
  BY <1>7 DEF CloseStops, ShutdownEnds, Step, managerVars, bootVars
<1>8. CASE \/ PanelReassigns \/ UpdaterVersion \/ JobFails
           \/ \E new \in Files : ConfigReplaced(new)
           \/ UNCHANGED vars
  BY <1>8 DEF PanelReassigns, UpdaterVersion, JobFails, ConfigReplaced, vars, bootVars, managerVars
<1>9. ASSUME NEW h \in Handlers,
             \/ HandlerStep(h)
             \/ \E kind \in {"start", "stop", "update"}, s \in Streams : Request(h, kind, s)
      PROVE  PanelInv'
  <2>1. UNCHANGED <<main, registered>> /\ \A g \in Handlers : g # h => handler'[g] = handler[g]
    <3>1. UNCHANGED <<main, registered>>
      BY <1>9 DEF HandlerStep, FetchConfig, FetchFails, ApplyPolicy, ApplyProfiles, Lock, StartJob,
         StopJob, LeavesJob, Request, bootVars
    <3> QED
      BY <1>9, <3>1, HandlerTypes
  <2>2. policy' = policy \/ policy' # None
    BY <1>9 DEF HandlerStep, FetchConfig, FetchFails, ApplyPolicy, ApplyProfiles,
       Lock, StartJob, StopJob, LeavesJob, Request, managerVars
  <2>3. handler'[h].step \in {"policy", "profiles"} => handler'[h].config # None
    <3>1. CASE FetchConfig(h)
      <4>1. handler'[h].config = [node |-> file.node, version |-> panel]
        BY <3>1 DEF FetchConfig
      <4>2. handler'[h].config \in RuntimeConfig
        BY <3>1, <4>1 DEF FetchConfig, Config, RuntimeConfig
      <4> QED
        BY <4>2
    <3>2. CASE ApplyPolicy(h) \/ ApplyProfiles(h) \/ Lock(h)
      BY <3>2 DEF ApplyPolicy, ApplyProfiles, Lock, Go
    <3>3. CASE FetchFails(h) \/ StartJob(h) \/ StopJob(h) \/ LeavesJob(h)
      BY <3>3 DEF FetchFails, StartJob, StopJob, LeavesJob, Unlock, Return, Idle
    <3>4. CASE \E kind \in {"start", "stop", "update"}, s \in Streams : Request(h, kind, s)
      BY <3>4 DEF Request, Idle
    <3> QED
      BY <1>9, <3>1, <3>2, <3>3, <3>4 DEF HandlerStep
  <2> QED
    BY <2>1, <2>2, <2>3
<1> QED
  BY <1>1, <1>2, <1>3, <1>4, <1>5, <1>6, <1>7, <1>8, <1>9 DEF Next, MainStep

\* A number names one job, so that the stream Close found is that of the job
\* that ran when the signal came, unless that job is gone.
LEMMA JobStep ==
  ASSUME ProcessInv, [Next]_vars
  PROVE  JobInv'
<1> USE ServiceAssumption DEF ProcessInv, JobInv, TypeOK
<1>1. job \in JobState /\ NoJob.number = 0 /\ None \notin Streams
  BY DEF JobState, NoJob
<1>2. CASE ReadConfig \/ Register \/ BootConfig
  BY <1>2 DEF ReadConfig, Register, BootConfig, Step, managerVars
<1>3. CASE ResolveIdentity \/ MatchIdentity \/ Listen
  BY <1>3 DEF ResolveIdentity, MatchIdentity, Listen, Identifies, Step, managerVars
<1>4. CASE StartsWithoutPanel \/ ShutdownEnds
  BY <1>4 DEF StartsWithoutPanel, WithoutPanel, ShutdownEnds, Step, managerVars
<1>5. CASE CloseBegins
  BY <1>5 DEF CloseBegins, CloseFinds, managerVars, NoJob
<1>6. CASE CloseStops
  <2>1. /\ main.step = "stop" /\ main'.step = "drain" /\ main'.job = main.job
        /\ UNCHANGED <<jobs, handler>>
    BY <1>6 DEF CloseStops, Step
  <2>2. CASE job.stream = main.found
    <3>1. job # NoJob
      BY <1>1, <2>1, <2>2 DEF NoJob
    <3>2. \/ job' = NoJob
          \/ job'.number = job.number /\ job'.stream = job.stream /\ job'.stopping
      BY <1>1, <1>6, <2>2, StoppedTyped DEF CloseStops
    <3> QED
      BY <1>1, <2>1, <3>1, <3>2
  <2>3. CASE job.stream # main.found
    BY <1>6, <2>1, <2>3 DEF CloseStops
  <2> QED
    BY <2>2, <2>3
<1>7. CASE Signal
  BY <1>7 DEF Signal, managerVars
<1>8. CASE JobFails
  BY <1>1, <1>8 DEF JobFails
<1>9. CASE \/ PanelReassigns \/ UpdaterVersion \/ UNCHANGED vars
           \/ \E new \in Files : ConfigReplaced(new)
  BY <1>9 DEF PanelReassigns, UpdaterVersion, ConfigReplaced, vars, managerVars
<1>10. ASSUME NEW h \in Handlers,
              \/ HandlerStep(h)
              \/ \E kind \in {"start", "stop", "update"}, s \in Streams : Request(h, kind, s)
       PROVE  JobInv'
  <2>1. main' = main /\ \A g \in Handlers : g # h => handler'[g] = handler[g]
    <3>1. main' = main
      BY <1>10 DEF HandlerStep, FetchConfig, FetchFails, ApplyPolicy, ApplyProfiles, Lock,
         StartJob, StopJob, LeavesJob, Request
    <3> QED
      BY <1>10, <3>1, HandlerTypes
  <2>2. handler'[h].step # "idle" => handler'[h].stream \in Streams
    <3>1. CASE FetchConfig(h)
      BY <3>1 DEF FetchConfig
    <3>4. CASE ApplyPolicy(h) \/ ApplyProfiles(h) \/ Lock(h)
      BY <3>4 DEF ApplyPolicy, ApplyProfiles, Lock, Go
    <3>2. CASE FetchFails(h) \/ StartJob(h) \/ StopJob(h) \/ LeavesJob(h)
      BY <3>2 DEF FetchFails, StartJob, StopJob, LeavesJob, Unlock, Return, Idle
    <3>3. CASE \E kind \in {"start", "stop", "update"}, s \in Streams : Request(h, kind, s)
      BY <3>3 DEF Request, Idle
    <3> QED
      BY <1>10, <3>1, <3>2, <3>3, <3>4 DEF HandlerStep
  <2>3. CASE StartJob(h)
    <3>1. /\ job'.number = jobs + 1 /\ jobs' = jobs + 1 /\ job'.stream \in Streams
      BY <2>3 DEF StartJob
    <3>2. job' # NoJob
      BY <1>1, <3>1
    <3> QED
      BY <2>1, <2>2, <3>1, <3>2
  <2>4. CASE StopJob(h)
    <3>1. /\ jobs' = jobs /\ job # NoJob
          /\ \/ job' = NoJob
             \/ job'.number = job.number /\ job'.stream = job.stream /\ job'.stopping
      BY <1>1, <2>4, StoppedTyped DEF StopJob
    <3>2. CASE job' = NoJob
      BY <1>1, <2>1, <2>2, <3>1, <3>2
    <3>3. CASE job'.number = job.number /\ job'.stream = job.stream /\ job'.stopping
      BY <1>1, <2>1, <2>2, <3>1, <3>3
    <3> QED
      BY <3>1, <3>2, <3>3
  <2>5. CASE UNCHANGED <<job, jobs>>
    BY <2>1, <2>2, <2>5
  <2> QED
    BY <1>10, <2>3, <2>4, <2>5 DEF HandlerStep, FetchConfig, FetchFails, ApplyPolicy,
       ApplyProfiles, Lock, LeavesJob, Request, managerVars
<1> QED
  BY <1>2, <1>3, <1>4, <1>5, <1>6, <1>7, <1>8, <1>9, <1>10 DEF Next, MainStep

\* ProcessInv is inductive.
LEMMA ProcessInit == Init => ProcessInv
<1> SUFFICES ASSUME Init PROVE ProcessInv
  OBVIOUS
<1>1. main \in MainState /\ main.step = "read" /\ main.job = 0
  BY ServiceAssumption DEF Init, MainState, MainSteps
<1>2. job \in JobState /\ job = NoJob /\ job.number = 0 /\ jobs = 0
  BY ServiceAssumption DEF Init, JobState, NoJob
<1>3. /\ handler \in [Handlers -> HandlerState]
      /\ \A h \in Handlers : handler[h].step = "idle"
  BY ServiceAssumption DEF Init, HandlerState, Idle
<1>4. Rest
  <2>1. 1 \in Versions /\ 0 \in 0..MaxJobs
    BY ServiceAssumption DEF Versions
  <2> QED
    BY <1>2, <2>1 DEF Init, Rest
<1>5. TypeOK
  BY <1>1, <1>3, <1>4, TypeParts DEF LockInv
<1>6. IdentityInv /\ PanelInv
  BY <1>1, <1>3 DEF Init, IdentityInv, PanelInv, Served
<1>7. JobInv
  BY <1>1, <1>2, <1>3 DEF JobInv
<1> QED
  BY <1>5, <1>6, <1>7 DEF ProcessInv

\* A step preserves ProcessInv.
LEMMA ProcessNext == ProcessInv /\ [Next]_vars => ProcessInv'
<1> SUFFICES ASSUME ProcessInv, [Next]_vars PROVE ProcessInv'
  OBVIOUS
<1>1. TypeOK'
  BY MainTypes, HandlerTypes DEF Next
<1> QED
  BY <1>1, IdentityStep, PanelStep, JobStep DEF ProcessInv

\* For any number of requests, nodes and streams: the updater is told one
\* identity, the one main compared and registered; a process that needs the
\* Control Panel serves only when it is registered and enforces assignments;
\* and the job that ran at the signal is stopped when the process exits
\* (ResolveFromEnv, requireMatchingUpdaterIdentity, main, Close).
THEOREM ServiceIsSafe == Spec => []ServiceInv
<1>1. ProcessInv => ServiceInv
  <2> SUFFICES ASSUME ProcessInv PROVE ServiceInv
    OBVIOUS
  <2>1. Cardinality(answered) <= 1
    <3>1. CASE answered = {}
      BY <3>1, FS_EmptySet
    <3>2. CASE answered = {latch}
      BY <3>2, FS_Singleton
    <3> QED
      BY <3>1, <3>2 DEF ProcessInv, IdentityInv
  <2>2. IdentityAgrees
    <3> SUFFICES ASSUME compared, NEW c \in answered, registered # None PROVE c.node = registered
      BY <2>1 DEF IdentityAgrees
    <3> QED
      BY DEF ProcessInv, IdentityInv, Served
  <2>3. ProductionEnforces
    BY DEF ProcessInv, PanelInv, ProductionEnforces, Serving, Served
  <2>4. SignalledJobStops
    BY DEF ProcessInv, JobInv, SignalledJobStops
  <2> QED
    BY <2>2, <2>3, <2>4 DEF ProcessInv, ServiceInv
<1> QED
  BY <1>1, ProcessInit, ProcessNext, PTL DEF Spec
-----------------------------------------------------------------------------
(* One request at a time.                                                   *)

\* FetchInv of one request.
Fetched(h) ==
  /\ handler[h].step = "fetch" => handler[h].since <= panel
  /\ handler[h].step # "idle" => handler[h].kind \in {"start", "stop", "update"}
  /\ handler[h].step \in Fetching /\ handler[h].kind # "stop" =>
       /\ handler[h].config \in RuntimeConfig
       /\ handler[h].config.version \in handler[h].since..panel
  /\ handler[h].step \in {"profiles", "call", "locked"} /\ handler[h].kind # "stop" =>
       policy = handler[h].config

\* A step of the request itself.
LEMMA FetchedStep ==
  ASSUME ProcessInv, FetchInv, NEW h \in Handlers,
         \/ HandlerStep(h)
         \/ \E kind \in {"start", "stop", "update"}, s \in Streams : Request(h, kind, s)
  PROVE  Fetched(h)'
<1>1. /\ handler \in [Handlers -> HandlerState] /\ handler[h] \in HandlerState /\ Rest
      /\ panel \in Nat
  BY TypeParts, ServiceAssumption DEF ProcessInv, Rest, Versions
<1>2. Fetched(h)
  BY DEF FetchInv, Fetched
<1>3. CASE FetchConfig(h)
  <2>1. /\ handler[h].step = "fetch" /\ handler'[h].step = "policy"
        /\ handler'[h].config = [node |-> file.node, version |-> panel]
        /\ handler'[h].since = handler[h].since /\ handler'[h].kind = handler[h].kind
        /\ file \in Config /\ UNCHANGED panel
    BY <1>1, <1>3 DEF FetchConfig, HandlerState
  <2>2. handler'[h].config \in RuntimeConfig /\ handler'[h].config.version = panel
    BY <1>1, <2>1 DEF Config, RuntimeConfig, Rest
  <2>3. handler[h].since \in Nat
    BY <1>1, ServiceAssumption DEF HandlerState
  <2> QED
    BY <1>1, <1>2, <2>1, <2>2, <2>3 DEF Fetched, Fetching
<1>4. CASE ApplyPolicy(h) \/ ApplyProfiles(h) \/ Lock(h)
  <2>1. PICK x \in {"profiles", "call", "locked"} :
          /\ handler'[h].step = x
          /\ handler'[h].config = handler[h].config /\ handler'[h].kind = handler[h].kind
          /\ handler'[h].since = handler[h].since
    BY <1>1, <1>4 DEF ApplyPolicy, ApplyProfiles, Lock, Go, HandlerState
  <2>2. handler[h].step \in {"policy", "profiles", "call"}
    BY <1>4 DEF ApplyPolicy, ApplyProfiles, Lock
  <2>3. /\ UNCHANGED panel
        /\ \/ policy' = handler[h].config
           \/ policy' = policy /\ handler[h].step \in {"profiles", "call"}
    <3>1. CASE ApplyPolicy(h)
      BY <3>1 DEF ApplyPolicy
    <3>2. CASE ApplyProfiles(h) \/ Lock(h)
      BY <3>2 DEF ApplyProfiles, Lock
    <3> QED
      BY <1>4, <3>1, <3>2
  <2> QED
    BY <1>2, <2>1, <2>2, <2>3 DEF Fetched, Fetching
<1>5. CASE FetchFails(h) \/ StartJob(h) \/ StopJob(h) \/ LeavesJob(h)
  <2>1. handler'[h].step = "idle"
    BY <1>1, <1>5 DEF FetchFails, StartJob, StopJob, LeavesJob, Unlock, Return, Idle
  <2> QED
    BY <2>1 DEF Fetched, Fetching
<1>6. ASSUME NEW kind \in {"start", "stop", "update"}, NEW s \in Streams, Request(h, kind, s)
      PROVE  Fetched(h)'
  <2>1. /\ handler'[h].step = (IF kind = "stop" THEN "call" ELSE "fetch")
        /\ handler'[h].kind = kind /\ handler'[h].since = panel /\ panel' = panel
    BY <1>1, <1>6 DEF Request, Idle
  <2> QED
    BY <1>1, <2>1 DEF Fetched, Fetching
<1> QED
  BY <1>3, <1>4, <1>5, <1>6 DEF HandlerStep

\* With one request at a time nothing else replaces what it applied.
LEMMA FetchStep ==
  ASSUME Single, ProcessInv, FetchInv, [Next]_vars
  PROVE  FetchInv'
<1>1. panel \in Nat /\ panel' \in Nat /\ panel <= panel'
  <2>1. panel \in Nat
    BY ServiceAssumption DEF ProcessInv, TypeOK, Versions
  <2>2. panel' = panel \/ PanelReassigns
    BY DEF Next, MainStep, ReadConfig, ResolveIdentity, MatchIdentity, Register,
       StartsWithoutPanel, BootConfig, Listen, CloseBegins, CloseStops, ShutdownEnds, Signal,
       UpdaterVersion, JobFails, ConfigReplaced, HandlerStep, FetchConfig, FetchFails,
       ApplyPolicy, ApplyProfiles, Lock, StartJob, StopJob, LeavesJob, Request, vars
  <2> QED
    BY <2>1, <2>2 DEF PanelReassigns
<1>2. \A h \in Handlers : handler[h].since \in Nat
  BY ServiceAssumption DEF ProcessInv, TypeOK
<1>3. ASSUME UNCHANGED <<policy, handler>>, main.step \in Served => main'.step \in Served
      PROVE  FetchInv'
  <2>1. ASSUME NEW h \in Handlers PROVE Fetched(h)'
    <3>1. Fetched(h) /\ handler'[h] = handler[h] /\ policy' = policy
      BY <1>3 DEF FetchInv, Fetched
    <3>2. handler[h].config \in RuntimeConfig => handler[h].config.version \in Nat
      BY ServiceAssumption DEF RuntimeConfig, Versions
    <3> QED
      BY <1>1, <1>2, <3>1, <3>2 DEF Fetched, Fetching
  <2> QED
    BY <1>3, <2>1 DEF FetchInv, Fetched
<1>4. CASE \/ ReadConfig \/ ResolveIdentity \/ MatchIdentity \/ Register \/ StartsWithoutPanel
           \/ Listen \/ CloseBegins \/ CloseStops \/ ShutdownEnds \/ Signal
  <2>1. UNCHANGED <<policy, handler>>
    BY <1>4 DEF ReadConfig, ResolveIdentity, MatchIdentity, Register, StartsWithoutPanel, Listen,
       CloseBegins, CloseStops, ShutdownEnds, Signal, managerVars
  <2>2. main.step \in Served => main'.step \in Served
    <3>1. main \in MainState
      BY TypeParts DEF ProcessInv
    <3> QED
      <4>1. CASE \/ ReadConfig \/ ResolveIdentity \/ MatchIdentity \/ Register
                 \/ StartsWithoutPanel \/ Listen
        <5>1. main.step \in {"read", "resolve", "match", "register", "config", "listen"}
          BY <4>1 DEF ReadConfig, ResolveIdentity, MatchIdentity, Register, StartsWithoutPanel,
             Listen, Step, Identifies
        <5> QED
          BY <5>1 DEF Served
      <4>2. CASE CloseBegins
        BY <3>1, <4>2 DEF CloseBegins, CloseFinds, Served, MainState
      <4>3. CASE CloseStops \/ ShutdownEnds
        BY <3>1, <4>3 DEF CloseStops, ShutdownEnds, Step, Served, MainState
      <4>4. CASE Signal
        BY <4>4 DEF Signal, Served
      <4> QED
        BY <1>4, <4>1, <4>2, <4>3, <4>4
  <2> QED
    BY <1>3, <2>1, <2>2
<1>5. CASE \/ PanelReassigns \/ UpdaterVersion \/ JobFails \/ UNCHANGED vars
           \/ \E new \in Files : ConfigReplaced(new)
  BY <1>3, <1>5 DEF PanelReassigns, UpdaterVersion, JobFails, ConfigReplaced, vars, managerVars
<1>6. CASE BootConfig
  <2>1. main.step = "config" /\ handler' = handler
    BY <1>6 DEF BootConfig, Step
  <2>2. \A h \in Handlers : handler'[h].step = "idle"
    BY <2>1 DEF FetchInv, Served
  <2> QED
    BY <2>2 DEF FetchInv, Fetching
<1>7. ASSUME NEW h \in Handlers,
             \/ HandlerStep(h)
             \/ \E kind \in {"start", "stop", "update"}, s \in Streams : Request(h, kind, s)
      PROVE  FetchInv'
  <2>1. Fetched(h)'
    BY <1>7, FetchedStep
  <2>2. \A g \in Handlers : g = h
    BY DEF Single
  <2>3. main' = main /\ main.step \in Served
    <3>1. CASE HandlerStep(h)
      BY <3>1 DEF FetchInv, HandlerStep, FetchConfig, FetchFails, ApplyPolicy, ApplyProfiles, Lock,
         StartJob, StopJob, LeavesJob
    <3>2. CASE \E kind \in {"start", "stop", "update"}, s \in Streams : Request(h, kind, s)
      BY <3>2 DEF Request, Serving, Served
    <3> QED
      BY <1>7, <3>1, <3>2
  <2> QED
    BY <2>1, <2>2, <2>3 DEF FetchInv, Fetched
<1> QED
  BY <1>4, <1>5, <1>6, <1>7 DEF Next, MainStep

\* With one request at a time, a stream is started only if the node the request
\* asked about had it as primary between the arrival of the request and the
\* start, whatever the Control Panel and the file do meanwhile (startJob,
\* ApplyRuntimeConfig, streamAssignedLocked).
THEOREM StartsAssigned ==
  ASSUME Single
  PROVE  Spec => StartsOnlyAssigned
<1> DEFINE Good == job'.number > job.number /\ policy # None =>
                     \E v \in handler[lifecycle].since..panel :
                       job'.stream \in Assigned[policy.node][v]
<1>1. Init => FetchInv
  BY DEF Init, FetchInv, Idle, Served, Fetching
<1>2. ProcessInv /\ FetchInv /\ [Next]_vars => FetchInv'
  BY FetchStep
<1>3. ProcessInv /\ FetchInv /\ [Next]_vars => [Good]_vars
  <2> SUFFICES ASSUME ProcessInv, FetchInv, Next, job'.number > job.number, policy # None
               PROVE  \E v \in handler[lifecycle].since..panel :
                        job'.stream \in Assigned[policy.node][v]
    OBVIOUS
  <2>1. job \in JobState
    BY TypeParts DEF ProcessInv, Rest
  <2>2. job' # job /\ job' # NoJob /\ ~(job' \in Stopped)
    <3>1. job.number \in Nat /\ NoJob.number = 0
      BY <2>1, ServiceAssumption DEF JobState, NoJob
    <3> QED
      BY <2>1, <3>1, StoppedTyped
  <2>3. PICK h \in Handlers : StartJob(h)
    BY <2>2 DEF Next, MainStep, ReadConfig,
       ResolveIdentity, MatchIdentity, Register, StartsWithoutPanel, BootConfig, Listen,
       CloseBegins, CloseStops, ShutdownEnds, Signal, PanelReassigns, UpdaterVersion, JobFails,
       ConfigReplaced, HandlerStep, FetchConfig, FetchFails, ApplyPolicy, ApplyProfiles, Lock,
       StopJob, LeavesJob, Request, managerVars
  <2>4. /\ handler[h].step = "locked" /\ handler[h].kind = "start" /\ lifecycle = h
        /\ job'.stream \in Assigned[policy.node][policy.version]
    BY <2>3 DEF StartJob, StreamAssigned, ProcessInv, TypeOK
  <2>5. policy.version \in handler[h].since..panel
    BY <2>4 DEF FetchInv, Fetching
  <2> QED
    BY <2>4, <2>5
<1> QED
  BY <1>1, <1>2, <1>3, ProcessInit, ProcessNext, PTL DEF Spec, StartsOnlyAssigned
=============================================================================
