---------------------------- MODULE AvatarCache ----------------------------
(***************************************************************************)
(* The avatar cache of the scene (internal/scene/avatar.go).                *)
(*                                                                          *)
(* Renderers call Lookup, event handlers and the refresh ticker Prefetch;   *)
(* every download is a goroutine.  An action is one critical section of     *)
(* avatarCache.mu or one step of a download.  The time a caller or a        *)
(* download works with is read before the lock is taken and may be old      *)
(* when it is used.  Of a picture only its presence is kept: a failed       *)
(* download is remembered as an entry without one.                          *)
(***************************************************************************)
EXTENDS Naturals, FiniteSets

CONSTANTS
  URLs,           \* avatar addresses
  Allowed,        \* those validateAvatarURL accepts
  Callers,        \* goroutines that call Lookup and Prefetch
  Loaders,        \* goroutines that run load
  MaxEntries, MaxConcurrent, SuccessTTL, FailureTTL,  \* AvatarConfig
  MaxTime         \* bound: the clock

ASSUME AvatarAssumption ==
  /\ URLs # {} /\ Allowed \subseteq URLs
  /\ MaxEntries \in Nat \ {0} /\ MaxConcurrent \in Nat \ {0}
  /\ Cardinality(Loaders) >= MaxEntries
  /\ SuccessTTL \in Nat \ {0} /\ FailureTTL \in Nat \ {0} /\ MaxTime \in Nat

VARIABLES
  now,       \* time.Now()
  entries,   \* c.entries: picture known, expiresAt, lastUsed
  inflight,  \* c.inflight
  caller,    \* the next step of a caller, its address and its time
  loader,    \* the step of a download, its address, its result and its time
  failed     \* history: when the download of an address failed, as long as
             \* its entry was not evicted or replaced; 0 for none, else 1 + the time

vars == <<now, entries, inflight, caller, loader, failed>>

Time == 0..MaxTime
Avatar == [ok : BOOLEAN, expires : 0..(MaxTime + SuccessTTL + FailureTTL), used : Time]
NoURL == CHOOSE u \in URLs : TRUE
IdleCaller == [step |-> "idle", url |-> NoURL, at |-> 0]
IdleLoader == [step |-> "idle", url |-> NoURL, ok |-> FALSE, at |-> 0]

Fetching == {l \in Loaders : loader[l].step = "fetch"}
Running == {l \in Loaders : loader[l].step # "idle"}

\* The limits of the cache hold: entries after every eviction, and downloads
\* that are talking to the network at the same time.
TypeOK ==
  /\ now \in Time
  /\ DOMAIN entries \subseteq Allowed /\ \A u \in DOMAIN entries : entries[u] \in Avatar
  /\ Cardinality(DOMAIN entries) <= MaxEntries
  /\ inflight \subseteq Allowed
  /\ caller \in [Callers -> [step : {"idle", "lookup", "prefetch"}, url : URLs, at : Time]]
  /\ loader \in [Loaders -> [step : {"idle", "wait", "fetch", "fetched", "store"}, url : URLs,
                             ok : BOOLEAN, at : Time]]
  /\ Cardinality(Fetching) <= MaxConcurrent
  /\ failed \in [URLs -> 0..(MaxTime + 1)]

Init ==
  /\ now = 0 /\ entries = [u \in {} |-> 0] /\ inflight = {}
  /\ caller = [c \in Callers |-> IdleCaller]
  /\ loader = [l \in Loaders |-> IdleLoader]
  /\ failed = [u \in URLs |-> 0]

Tick ==
  /\ now < MaxTime /\ now' = now + 1
  /\ UNCHANGED <<entries, inflight, caller, loader, failed>>
-----------------------------------------------------------------------------
(* Lookup and Prefetch.                                                     *)

\* Mutant: Prefetch and Lookup see no entry of a failure.
FreshPicture(u, t) == u \in DOMAIN entries /\ entries[u].ok /\ entries[u].expires > t

FreshAt(u, t) == u \in DOMAIN entries /\ entries[u].expires > t

Touched(u, t) == [entries EXCEPT ![u].used = t]

Finish(c) == caller' = [caller EXCEPT ![c] = IdleCaller]

\* A caller reads the clock; addresses that are not allowed are dropped by
\* Prefetch, after Lookup found nothing under them.
Call(c, step, u) ==
  /\ caller[c].step = "idle"
  /\ step = "prefetch" => u \in Allowed
  /\ caller' = [caller EXCEPT ![c] = [step |-> step, url |-> u, at |-> now]]
  /\ UNCHANGED <<now, entries, inflight, loader, failed>>

LookupHit(c) ==
  /\ caller[c].step = "lookup" /\ FreshAt(caller[c].url, caller[c].at)
  /\ entries' = Touched(caller[c].url, caller[c].at)
  /\ Finish(c)
  /\ UNCHANGED <<now, inflight, loader, failed>>

LookupMiss(c) ==
  LET u == caller[c].url IN
  /\ caller[c].step = "lookup" /\ ~FreshAt(u, caller[c].at)
  /\ entries' = [v \in DOMAIN entries \ {u} |-> entries[v]]
  /\ IF u \in Allowed
     THEN caller' = [caller EXCEPT ![c] = [step |-> "prefetch", url |-> u, at |-> now]]
     ELSE Finish(c)
  /\ UNCHANGED <<now, inflight, loader, failed>>

PrefetchHit(c) ==
  /\ caller[c].step = "prefetch" /\ FreshAt(caller[c].url, caller[c].at)
  /\ entries' = Touched(caller[c].url, caller[c].at)
  /\ Finish(c)
  /\ UNCHANGED <<now, inflight, loader, failed>>

\* Mutant: the downloads in progress are only counted.
MayLoadAgain(u) == Cardinality(inflight) < MaxEntries

MayLoad(u) == u \notin inflight /\ Cardinality(inflight) < MaxEntries

PrefetchRefused(c) ==
  /\ caller[c].step = "prefetch" /\ ~FreshAt(caller[c].url, caller[c].at)
  /\ ~MayLoad(caller[c].url)
  /\ Finish(c)
  /\ UNCHANGED <<now, entries, inflight, loader, failed>>

\* go c.load(rawURL).
PrefetchLoads(c) ==
  LET u == caller[c].url IN
  /\ caller[c].step = "prefetch" /\ ~FreshAt(u, caller[c].at)
  /\ MayLoad(u)
  /\ inflight' = inflight \cup {u}
  /\ \E l \in Loaders \ Running :
       loader' = [loader EXCEPT ![l] = [IdleLoader EXCEPT !.step = "wait", !.url = u]]
  /\ Finish(c)
  /\ UNCHANGED <<now, entries, failed>>
-----------------------------------------------------------------------------
(* load.                                                                    *)

LoadStep(l, from, to, ok, at) ==
  /\ loader[l].step = from
  /\ loader' = [loader EXCEPT ![l] = [@ EXCEPT !.step = to, !.ok = ok, !.at = at]]
  /\ UNCHANGED <<now, entries, inflight, caller, failed>>

\* Mutant: a download does not wait for a place.
LoadBeginsAtOnce(l) == LoadStep(l, "wait", "fetch", FALSE, 0)

\* The semaphore of MaxConcurrent places.
LoadBegins(l) == Cardinality(Fetching) < MaxConcurrent /\ LoadStep(l, "wait", "fetch", FALSE, 0)

\* fetch: the answer is checked, measured and decoded, or refused.  The HTTP
\* client has a timeout of its own.
Fetch(l, ok) == LoadStep(l, "fetch", "fetched", ok, 0)

LoadReadsClock(l) == LoadStep(l, "fetched", "store", loader[l].ok, now)

\* Mutant: the place a new entry takes is not counted.
EvictedLate(es) ==
  IF Cardinality(DOMAIN es) <= MaxEntries + 1 THEN {es}
  ELSE {[u \in keep |-> es[u]] : keep \in SUBSET DOMAIN es}

\* evictLocked: what is left is the most recently used; ties are broken in no
\* particular order.
Evicted(es) ==
  IF Cardinality(DOMAIN es) <= MaxEntries THEN {es}
  ELSE {[u \in keep |-> es[u]] : keep \in
         {k \in SUBSET DOMAIN es :
            /\ Cardinality(k) = MaxEntries
            /\ \A u \in k, v \in DOMAIN es \ k : es[u].used >= es[v].used}}

\* Mutant: the address stays in flight when the download failed.
EndsIfLoaded(l) == IF loader[l].ok THEN inflight \ {loader[l].url} ELSE inflight

Ends(l) == inflight \ {loader[l].url}

\* Mutant: a failure is stored as if it had expired already.
ForgetsFailure(ok, t) == [ok |-> ok, expires |-> IF ok THEN t + SuccessTTL ELSE t, used |-> t]

Loaded(ok, t) ==
  [ok |-> ok, expires |-> t + (IF ok THEN SuccessTTL ELSE FailureTTL), used |-> t]

With(u, e) == [v \in DOMAIN entries \cup {u} |-> IF v = u THEN e ELSE entries[v]]

LoadStores(l) ==
  LET r == loader[l] IN
  /\ r.step = "store"
  /\ inflight' = Ends(l)
  /\ entries' \in Evicted(With(r.url, Loaded(r.ok, r.at)))
  /\ loader' = [loader EXCEPT ![l] = IdleLoader]
  /\ failed' = [u \in URLs |->
       IF u \in (DOMAIN entries \cup {r.url}) \ DOMAIN entries' THEN 0
       ELSE IF u = r.url THEN (IF r.ok THEN 0 ELSE r.at + 1) ELSE failed[u]]
  /\ UNCHANGED <<now, caller>>
-----------------------------------------------------------------------------
CallerStep(c) == LookupHit(c) \/ LookupMiss(c) \/ PrefetchHit(c) \/ PrefetchRefused(c) \/ PrefetchLoads(c)

LoaderStep(l) ==
  LoadBegins(l) \/ (\E ok \in BOOLEAN : Fetch(l, ok)) \/ LoadReadsClock(l) \/ LoadStores(l)

Next ==
  \/ Tick
  \/ \E c \in Callers : CallerStep(c) \/ \E step \in {"lookup", "prefetch"}, u \in URLs : Call(c, step, u)
  \/ \E l \in Loaders : LoaderStep(l)

Spec == Init /\ [][Next]_vars

\* The scheduler runs every goroutine, a download ends by its timeout at the
\* latest, and a place of the semaphore goes to each one that waits for it.
Fairness ==
  \A l \in Loaders :
    /\ SF_vars(LoadBegins(l))
    /\ WF_vars((\E ok \in BOOLEAN : Fetch(l, ok)) \/ LoadReadsClock(l) \/ LoadStores(l))

FairSpec == Spec /\ Fairness
-----------------------------------------------------------------------------
(* Properties.                                                              *)

\* The addresses in flight are those of the downloads that run, and no two
\* run for one address (Prefetch, load): Lookup is called for every avatar in
\* every frame, and Prefetch by every event.
OneLoadPerURL ==
  /\ inflight = {loader[l].url : l \in Running}
  /\ \A l, k \in Running : l # k => loader[l].url # loader[k].url

\* While a download runs there is no entry of its address that any caller
\* would take, so the picture a caller saw is not replaced before it expires,
\* and a failure is not asked again before its TTL (Prefetch, load).
FreshNotLoading == \A u \in inflight \cap DOMAIN entries : entries[u].expires <= now

\* An address that failed is not asked again within FailureTTL, by whatever
\* mix of Lookup and Prefetch, unless other pictures drove its entry out
\* (load, Prefetch, Lookup).
FailureRemembered ==
  [][\A u \in inflight' \ inflight : failed[u] = 0 \/ now >= failed[u] - 1 + FailureTTL]_vars

\* Every download leaves the addresses in flight, whatever it ended with: an
\* avatar that failed to load can be asked for again (load).
LoadsEnd == \A u \in Allowed : (u \in inflight) ~> (u \notin inflight)

\* Types and limits of the cache, and downloads only where one is needed: one
\* per address, none while its entry is fresh (Prefetch, load, evictLocked).
CacheInv == TypeOK /\ OneLoadPerURL /\ FreshNotLoading
=============================================================================
