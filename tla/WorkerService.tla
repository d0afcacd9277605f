--------------------------- MODULE WorkerService ---------------------------
(***************************************************************************)
(* The Worker process around its job manager: start-up, the identity latch, *)
(* the requests that fetch a runtime configuration before they act, and the *)
(* shutdown (cmd/worker/main.go, internal/httpapi, internal/control).       *)
(*                                                                          *)
(* The Control Panel moves streams between workers and the node             *)
(* configuration file is replaced (by rename) at any time; neither waits    *)
(* for the Worker.  A request is a goroutine: it reads the file, asks the   *)
(* Control Panel, applies what it got in separate critical sections, then   *)
(* calls the manager.  Of the manager only the current job and lifecycleMu  *)
(* are kept; JobLifecycle has the rest.                                     *)
(***************************************************************************)
EXTENDS Naturals, FiniteSets

CONSTANTS
  Handlers,      \* goroutines of the HTTP server
  Streams,
  Nodes,         \* service ids
  None,          \* no value
  Invalid, Missing, \* a file that cannot be used, or is not there
  Assigned,      \* Assigned[n][v]: streams of node n as primary, version v of the Panel
  MaxVersion,    \* bound: versions of the assignments
  MaxRevision,   \* bound: revisions of the node configuration
  MaxJobs,       \* bound: jobs
  Required       \* requireControlPanelRuntimeConfig()

Versions == 1..MaxVersion

\* What the configuration file and the listener credential hold together.
Config == [node : Nodes, revision : 1..MaxRevision]
Files == Config \cup {Invalid, Missing}
RuntimeConfig == [node : Nodes, version : Versions]

ASSUME ServiceAssumption ==
  /\ MaxVersion \in Nat \ {0} /\ MaxRevision \in Nat /\ MaxJobs \in Nat /\ Required \in BOOLEAN
  /\ Assigned \in [Nodes -> [Versions -> SUBSET Streams]]
  /\ None \notin Nodes \cup Streams \cup Handlers \cup Config \cup RuntimeConfig
  /\ Invalid \notin Config /\ Missing \notin Config

VARIABLES
  file,        \* the node configuration
  panel,       \* version of the assignments
  main,        \* the step of main()
  boot,        \* controlClient.Config, read once at start-up
  latch,       \* UpdaterIdentityLatch: None until bound
  registered,  \* the node the Control Panel knows this process as
  compared,    \* history: main compared the node with the file and found it
  policy,      \* m.assignments: a RuntimeConfig; None does not enforce anything
  profiles,    \* m.captionProfiles
  lifecycle,   \* who holds m.lifecycleMu
  job,         \* the current job; stopping: it is stopped but for its receipt
  jobs,        \* jobs so far
  handler,     \* the locals of a request
  answered     \* history: the identities /updater/version gave

managerVars == <<policy, profiles, lifecycle, job, jobs>>
bootVars == <<boot, latch, registered, compared>>
vars == <<file, panel, main, bootVars, managerVars, handler, answered>>

NoJob == [number |-> 0, stream |-> None, stopping |-> FALSE]
Idle == [step |-> "idle", kind |-> "none", stream |-> None, config |-> None, since |-> 0]
MainSteps == {"read", "resolve", "match", "register", "config", "listen", "serve",
              "close", "stop", "drain", "exited", "fatal"}

TypeOK ==
  /\ file \in Files /\ panel \in Versions
  /\ main \in [step : MainSteps, job : 0..MaxJobs, found : Streams \cup {None}]
  /\ boot \in Config \cup {None} /\ latch \in Config \cup {None}
  /\ registered \in Nodes \cup {None} /\ compared \in BOOLEAN
  /\ policy \in RuntimeConfig \cup {None} /\ profiles \in RuntimeConfig \cup {None}
  /\ lifecycle \in Handlers \cup {None}
  /\ job \in [number : 0..MaxJobs, stream : Streams \cup {None}, stopping : BOOLEAN]
  /\ jobs \in 0..MaxJobs
  /\ handler \in [Handlers -> [step : {"idle", "fetch", "policy", "profiles", "call", "locked"},
                               kind : {"none", "start", "stop", "update"},
                               stream : Streams \cup {None}, config : RuntimeConfig \cup {None},
                               since : 0..MaxVersion]]
  \* lifecycleMu is held by the request that is inside Start, Stop or the update.
  /\ \A h \in Handlers : handler[h].step = "locked" => lifecycle = h
  /\ answered \subseteq Config

Init ==
  /\ file \in Files /\ panel = 1
  /\ main = [step |-> "read", job |-> 0, found |-> None]
  /\ boot = None /\ latch = None /\ registered = None /\ compared = FALSE
  /\ policy = None /\ profiles = None /\ lifecycle = None /\ job = NoJob /\ jobs = 0
  /\ handler = [h \in Handlers |-> Idle]
  /\ answered = {}
-----------------------------------------------------------------------------
(* The environment.                                                         *)

\* Streams are assigned anew.
PanelReassigns ==
  /\ panel < MaxVersion /\ panel' = panel + 1
  /\ UNCHANGED <<file, main, bootVars, managerVars, handler, answered>>

\* `configure` renames a whole file into place (writeNodeConfigFile); an
\* operator may also remove it.
ConfigReplaced(new) ==
  /\ file # new /\ file' = new
  /\ UNCHANGED <<panel, main, bootVars, managerVars, handler, answered>>

Running == main.step \notin {"exited", "fatal"}
-----------------------------------------------------------------------------
(* Start-up.                                                                *)

Step(from, to) == main.step = from /\ main' = [main EXCEPT !.step = to]

\* ConfigFromEnv; without a configuration there is no bind address.
ReadConfig ==
  /\ Step("read", IF file \in Config THEN "resolve" ELSE "fatal")
  /\ boot' = IF file \in Config THEN file ELSE None
  /\ UNCHANGED <<file, panel, latch, registered, compared, managerVars, handler, answered>>

\* ResolveFromEnv binds the first identity it reads and accepts no other.
Resolves == file \in Config /\ latch \in {None, file}

\* What main makes of ResolveFromEnv: a missing file is pending, which is
\* tolerated; once an identity is bound it is drift, unless the file goes
\* between the two looks ResolveFromEnv takes at it.
Identifies(from, to, matches) ==
  \/ /\ Resolves /\ latch' = file
     /\ Step(from, IF matches THEN to ELSE "fatal")
  \/ /\ file = Missing /\ UNCHANGED latch
     /\ Step(from, to)
  \/ /\ ~Resolves /\ (file # Missing \/ latch # None) /\ UNCHANGED latch
     /\ Step(from, "fatal")

ResolveIdentity ==
  /\ Identifies("resolve", "match", TRUE)
  /\ UNCHANGED <<file, panel, boot, registered, compared, managerVars, handler, answered>>

\* Mutant: the identity in the file is not compared with the one in use.
MatchesItself == file # Invalid

\* requireMatchingUpdaterIdentity.
Matches == file # Invalid /\ boot.node = file.node

MatchIdentity ==
  /\ Identifies("match", "register", Matches)
  /\ compared' = (file # Missing)
  /\ UNCHANGED <<file, panel, boot, registered, managerVars, handler, answered>>

Register ==
  /\ Step("register", "config")
  /\ registered' = boot.node
  /\ UNCHANGED <<file, panel, boot, latch, compared, managerVars, handler, answered>>

\* Mutant: production goes on without the Control Panel.
GoesOn == "listen"

\* A failed registration or runtime configuration ends a process that needs
\* it; another one listens without.
WithoutPanel == IF Required THEN "fatal" ELSE "listen"

StartsWithoutPanel ==
  /\ Step("register", WithoutPanel) \/ Step("config", WithoutPanel)
  /\ UNCHANGED <<file, panel, bootVars, managerVars, handler, answered>>

BootConfig ==
  /\ Step("config", "listen")
  /\ policy' = [node |-> boot.node, version |-> panel] /\ profiles' = policy'
  /\ UNCHANGED <<file, panel, bootVars, lifecycle, job, jobs, handler, answered>>

\* NewServerWithRuntimeConfigAndUpdaterIdentity resolves the identity again.
Listen ==
  /\ Identifies("listen", "serve", TRUE)
  /\ UNCHANGED <<file, panel, boot, registered, compared, managerVars, handler, answered>>
-----------------------------------------------------------------------------
(* Requests.  The listener is open until server.Shutdown.                   *)

Serving == main.step \in {"serve", "close", "stop"}

Return(h) == handler' = [handler EXCEPT ![h] = Idle]
Go(h, step) == handler' = [handler EXCEPT ![h].step = step]

\* A request with the service token: one that changes a job, or one that asks
\* for a caption profile.  A stop needs no configuration.
Request(h, kind, s) ==
  /\ Serving /\ handler[h].step = "idle"
  /\ handler' = [handler EXCEPT ![h] =
       [Idle EXCEPT !.step = IF kind = "stop" THEN "call" ELSE "fetch",
                    !.kind = kind, !.stream = s, !.since = panel]]
  /\ UNCHANGED <<file, panel, main, bootVars, managerVars, answered>>

\* GET /updater/version.
UpdaterVersion ==
  /\ Serving /\ Resolves
  /\ latch' = file
  /\ answered' = answered \cup {file}
  /\ UNCHANGED <<file, panel, main, boot, registered, compared, managerVars, handler>>

\* The node a request asks the Control Panel about is the one in the file.
FetchConfig(h) ==
  /\ Running /\ handler[h].step = "fetch" /\ file \in Config
  /\ handler' = [handler EXCEPT ![h] =
       [@ EXCEPT !.step = "policy", !.config = [node |-> file.node, version |-> panel]]]
  /\ UNCHANGED <<file, panel, main, bootVars, managerVars, answered>>

FetchFails(h) ==
  /\ Running /\ handler[h].step = "fetch"
  /\ Return(h)
  /\ UNCHANGED <<file, panel, main, bootVars, managerVars, answered>>

\* ApplyRuntimeConfig: the assignments and the profiles one after the other.
ApplyPolicy(h) ==
  /\ Running /\ handler[h].step = "policy"
  /\ policy' = handler[h].config
  /\ Go(h, "profiles")
  /\ UNCHANGED <<file, panel, main, bootVars, profiles, lifecycle, job, jobs, answered>>

ApplyProfiles(h) ==
  /\ Running /\ handler[h].step = "profiles"
  /\ profiles' = handler[h].config
  /\ Go(h, "call")
  /\ UNCHANGED <<file, panel, main, bootVars, policy, lifecycle, job, jobs, answered>>

\* Mutant: the calls do not exclude each other.
LockNothing(h) ==
  /\ Running /\ handler[h].step = "call"
  /\ Go(h, "locked")
  /\ UNCHANGED <<file, panel, main, bootVars, managerVars, answered>>

\* Start, Stop and UpdateCaptionRuntimeSettings hold lifecycleMu throughout.
Lock(h) ==
  /\ Running /\ handler[h].step = "call" /\ lifecycle = None
  /\ lifecycle' = h
  /\ Go(h, "locked")
  /\ UNCHANGED <<file, panel, main, bootVars, policy, profiles, job, jobs, answered>>

\* Mutant: the assignments are not looked at.
AssignedAnyway(s) == TRUE

\* streamAssignedLocked.
StreamAssigned(s) == policy = None \/ s \in Assigned[policy.node][policy.version]

\* Mutant: an early return forgets the lock.
ReturnLocked(h) == UNCHANGED lifecycle /\ Return(h)

Unlock(h) == lifecycle' = None /\ Return(h)

StartJob(h) ==
  /\ Running /\ handler[h].step = "locked" /\ handler[h].kind = "start"
  /\ job = NoJob /\ StreamAssigned(handler[h].stream)
  /\ jobs < MaxJobs /\ jobs' = jobs + 1
  /\ job' = [number |-> jobs + 1, stream |-> handler[h].stream, stopping |-> FALSE]
  /\ Unlock(h)
  /\ UNCHANGED <<file, panel, main, bootVars, policy, profiles, answered>>

\* Stop: a job whose receipt cannot be written is kept.
Stopped == {NoJob, [job EXCEPT !.stopping = TRUE]}

StopJob(h) ==
  /\ Running /\ handler[h].step = "locked" /\ handler[h].kind = "stop"
  /\ job # NoJob /\ job.stream = handler[h].stream
  /\ job' \in Stopped
  /\ Unlock(h)
  /\ UNCHANGED <<file, panel, main, bootVars, policy, profiles, jobs, answered>>

\* Refused, failed, or a new caption session for the same job.
LeavesJob(h) ==
  /\ Running /\ handler[h].step = "locked"
  /\ Unlock(h)
  /\ UNCHANGED <<file, panel, main, bootVars, policy, profiles, job, jobs, answered>>

\* The video output fails: HandleVideoOutputFailure, once it has lifecycleMu.
JobFails ==
  /\ Running /\ lifecycle = None
  /\ job # NoJob /\ ~job.stopping /\ job' = NoJob
  /\ UNCHANGED <<file, panel, main, bootVars, policy, profiles, lifecycle, jobs, handler, answered>>
-----------------------------------------------------------------------------
(* Shutdown.                                                                *)

\* The signal, or the listener failed; main.job is the job that runs then.
Signal ==
  /\ main.step = "serve"
  /\ main' = [step |-> "close", job |-> job.number, found |-> None]
  /\ UNCHANGED <<file, panel, bootVars, managerVars, handler, answered>>

\* Mutant: a job that is being changed by a request is left to it.
CloseFindsUnlessBusy == IF job = NoJob \/ lifecycle # None THEN "drain" ELSE "stop"

\* Manager.Close looks at the current stream, and takes lifecycleMu only if
\* there is one.
CloseFinds == IF job = NoJob THEN "drain" ELSE "stop"

CloseBegins ==
  /\ main.step = "close"
  /\ main' = [main EXCEPT !.step = CloseFinds, !.found = job.stream]
  /\ UNCHANGED <<file, panel, bootVars, managerVars, handler, answered>>

\* Stop of the stream that was found: one critical section of lifecycleMu.
CloseStops ==
  /\ Step("stop", "drain") /\ lifecycle = None
  /\ IF job.stream = main.found THEN job' \in Stopped ELSE UNCHANGED job
  /\ UNCHANGED <<file, panel, bootVars, policy, profiles, lifecycle, jobs, handler, answered>>

\* server.Shutdown returns when the requests are answered, or when its time
\* is up.
ShutdownEnds ==
  /\ Step("drain", "exited")
  /\ UNCHANGED <<file, panel, bootVars, managerVars, handler, answered>>
-----------------------------------------------------------------------------
HandlerStep(h) ==
  \/ FetchConfig(h) \/ FetchFails(h) \/ ApplyPolicy(h) \/ ApplyProfiles(h)
  \/ Lock(h) \/ StartJob(h) \/ StopJob(h) \/ LeavesJob(h)

MainStep ==
  \/ ReadConfig \/ ResolveIdentity \/ MatchIdentity \/ Register \/ StartsWithoutPanel
  \/ BootConfig \/ Listen \/ CloseBegins \/ CloseStops \/ ShutdownEnds

Next ==
  \/ MainStep \/ Signal
  \/ PanelReassigns \/ UpdaterVersion \/ JobFails
  \/ \E new \in Files : ConfigReplaced(new)
  \/ \E h \in Handlers : HandlerStep(h)
                         \/ \E kind \in {"start", "stop", "update"}, s \in Streams : Request(h, kind, s)

Spec == Init /\ [][Next]_vars

\* Goroutines run; the Control Panel answers or its connection breaks; a
\* goroutine that waits for a mutex gets it (sync.Mutex hands it over to the
\* one that waits longest).
Fairness ==
  /\ WF_vars(MainStep) /\ SF_vars(CloseStops)
  /\ \A h \in Handlers : WF_vars(HandlerStep(h))

FairSpec == Spec /\ Fairness
-----------------------------------------------------------------------------
(* Properties.                                                              *)

\* The updater is told one identity for the life of the process, and it is
\* the one the Control Panel knows the process by, whenever the file is
\* replaced or removed (ResolveFromEnv, requireMatchingUpdaterIdentity,
\* Register).  Without compared it fails: main tolerates that the file is away
\* when it compares, and any node may be bound before or after.
IdentityAgrees ==
  /\ Cardinality(answered) <= 1
  /\ compared => \A c \in answered : registered = None \/ c.node = registered

\* Where the Control Panel is required, requests are served only by a process
\* that is registered and has assignments to enforce (main).
ProductionEnforces == Required /\ Serving => registered # None /\ policy # None

\* With one request at a time, a stream is started only if it was assigned, as
\* primary, to the node the request asked about, at some time between the
\* arrival of the request and the start of the job, although assignments and
\* file change meanwhile (startJob, ApplyRuntimeConfig, streamAssignedLocked).
\* With two requests it fails: the one that fetched first may apply last.
StartsOnlyAssigned ==
  [][job'.number > job.number /\ policy # None =>
       \E v \in handler[lifecycle].since..panel : job'.stream \in Assigned[policy.node][v]]_vars

\* Does not hold once the file names another node while the process runs: the
\* assignments that are enforced are those of the node this process is
\* registered as (controlRuntimeConfigFromEnv, AssignmentPolicyFromRuntimeConfig).
OwnAssignments == policy # None => policy.node = boot.node

\* The job that ran when the signal came was stopped when the process exits,
\* whatever requests came in between (Close, Stop).
SignalledJobStops ==
  main.step = "exited" /\ main.job # 0 => job.number # main.job \/ job.stopping

\* After a signal the process exits, also when requests hold lifecycleMu
\* (Close, Shutdown).
ShutdownCompletes == (main.step = "close") ~> (main.step = "exited")

\* Types and the single holder of lifecycleMu, and what the process has decided
\* for good when it serves and when it exits: its identity, its enforcement of
\* assignments, the end of its job (main).
ServiceInv == TypeOK /\ IdentityAgrees /\ ProductionEnforces /\ SignalledJobStops
=============================================================================
