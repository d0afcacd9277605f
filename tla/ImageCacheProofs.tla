-------------------------- MODULE ImageCacheProofs --------------------------
(***************************************************************************)
(* Proofs about the two caches of images: AvatarCache, for any number of    *)
(* addresses, callers and downloads, and SceneAppearance, for any number of *)
(* Starts, streams, pictures and images; any limits and times to live.      *)
(*                                                                          *)
(* Cache and bindings of the appearance are sequences in the order of use,  *)
(* so its part first says what becomes of the places of a sequence when an  *)
(* element is removed, moved to the end or pushed out; then it counts the   *)
(* bytes of a set of entries; then come the actions, and at last what the   *)
(* bindings remember.                                                       *)
(***************************************************************************)
EXTENDS AvatarCache, SceneAppearance,
        FiniteSetTheorems, NaturalsInduction, SequenceTheorems, TLAPS

-----------------------------------------------------------------------------
(* AvatarCache.                                                             *)

\* The locals of a caller.
CallerState == [step : {"idle", "lookup", "prefetch"}, url : URLs, at : Time]

\* The locals of a download.
LoaderState == [step : {"idle", "wait", "fetch", "fetched", "store"}, url : URLs, ok : BOOLEAN,
                at : Time]

\* TypeOK, with the finiteness that counting needs.
Types ==
  /\ now \in Time
  /\ DOMAIN entries \subseteq Allowed /\ entries \in [DOMAIN entries -> Avatar]
  /\ IsFiniteSet(DOMAIN entries) /\ Cardinality(DOMAIN entries) <= MaxEntries
  /\ inflight \subseteq Allowed
  /\ caller \in [Callers -> CallerState] /\ loader \in [Loaders -> LoaderState]
  /\ failed \in [URLs -> 0..(MaxTime + 1)]

\* The downloads that hold a place of the semaphore.
PlaceInv == IsFiniteSet(Fetching) /\ Cardinality(Fetching) <= MaxConcurrent

\* The time of a caller is not ahead of the clock, and Prefetch has an allowed address.
CallerInv ==
  \A c \in Callers :
    /\ caller[c].at <= now
    /\ caller[c].step = "prefetch" => caller[c].url \in Allowed

\* Until a failure may be forgotten, its entry says so.
FailInv ==
  \A u \in URLs : failed[u] # 0 =>
    \/ now >= failed[u] - 1 + FailureTTL
    \/ u \in DOMAIN entries /\ entries[u].expires = failed[u] - 1 + FailureTTL

\* The inductive invariant.
AvatarInv == Types /\ PlaceInv /\ CallerInv /\ OneLoadPerURL /\ FreshNotLoading /\ FailInv
-----------------------------------------------------------------------------
\* Callers and downloads at rest.
LEMMA Rest ==
  /\ IdleCaller \in CallerState /\ IdleCaller.step = "idle" /\ IdleCaller.at = 0
  /\ IdleLoader \in LoaderState /\ IdleLoader.step = "idle"
<1>1. NoURL \in URLs
  BY AvatarAssumption DEF NoURL
<1>2. 0 \in Time
  BY AvatarAssumption DEF Time
<1> QED
  BY <1>1, <1>2 DEF IdleCaller, IdleLoader, CallerState, LoaderState

\* The clock.
LEMMA Times == Time \subseteq Nat /\ MaxTime \in Nat /\ FailureTTL \in Nat /\ SuccessTTL \in Nat
BY AvatarAssumption DEF Time

\* AvatarInv holds at first.
LEMMA InitAvatar == Init => AvatarInv
<1> SUFFICES ASSUME Init PROVE AvatarInv
  OBVIOUS
<1>1. /\ now = 0 /\ entries = [u \in {} |-> 0] /\ inflight = {}
      /\ caller = [c \in Callers |-> IdleCaller] /\ loader = [l \in Loaders |-> IdleLoader]
      /\ failed = [u \in URLs |-> 0]
  BY DEF Init
<1>2. DOMAIN entries = {} /\ IsFiniteSet({}) /\ Cardinality({}) = 0
  BY <1>1, FS_EmptySet
<1>3. Fetching = {} /\ Running = {}
  BY <1>1, Rest DEF Fetching, Running
<1>4. Types
  <2>1. 0 \in Time /\ 0 \in 0..(MaxTime + 1) /\ 0 <= MaxEntries
    BY AvatarAssumption DEF Time
  <2>2. entries \in [DOMAIN entries -> Avatar]
    BY <1>1, <1>2
  <2> QED
    BY <1>1, <1>2, <2>1, <2>2, Rest DEF Types
<1>5. PlaceInv
  BY <1>2, <1>3, AvatarAssumption DEF PlaceInv
<1>6. CallerInv
  BY <1>1, Rest DEF CallerInv
<1>7. OneLoadPerURL /\ FreshNotLoading /\ FailInv
  BY <1>1, <1>3 DEF OneLoadPerURL, FreshNotLoading, FailInv
<1> QED
  BY <1>4, <1>5, <1>6, <1>7 DEF AvatarInv
-----------------------------------------------------------------------------
(* Steps of callers.                                                        *)

\* One caller moves, and its time is not ahead of the clock.
CallerMoves(c, x) ==
  caller' = [caller EXCEPT ![c] = x] /\ x \in CallerState /\ x.at <= now
  /\ (x.step = "prefetch" => x.url \in Allowed)

\* What a step keeps that moves one caller, and at most refreshes or removes entries.
LEMMA CallerKeeps ==
  ASSUME AvatarInv, NEW c \in Callers, NEW x, CallerMoves(c, x), UNCHANGED <<now, loader, failed>>,
         DOMAIN entries' \subseteq DOMAIN entries, entries' \in [DOMAIN entries' -> Avatar],
         \A u \in DOMAIN entries' : entries'[u].expires = entries[u].expires,
         \A u \in DOMAIN entries \ DOMAIN entries' : entries[u].expires <= now,
         UNCHANGED inflight
  PROVE  AvatarInv'
<1>1. caller' \in [Callers -> CallerState] /\ CallerInv'
  BY DEF AvatarInv, Types, CallerInv, CallerMoves
<1>2. IsFiniteSet(DOMAIN entries') /\ Cardinality(DOMAIN entries') <= MaxEntries
  <2>1. /\ IsFiniteSet(DOMAIN entries) /\ Cardinality(DOMAIN entries) <= MaxEntries
    BY DEF AvatarInv, Types
  <2>2. /\ IsFiniteSet(DOMAIN entries')
        /\ Cardinality(DOMAIN entries') <= Cardinality(DOMAIN entries)
    BY <2>1, FS_Subset
  <2>3. Cardinality(DOMAIN entries) \in Nat /\ Cardinality(DOMAIN entries') \in Nat
    BY <2>1, <2>2, FS_CardinalityType
  <2> QED
    BY <2>1, <2>2, <2>3, AvatarAssumption
<1>3. Types'
  BY <1>1, <1>2 DEF AvatarInv, Types
<1>4. PlaceInv' /\ OneLoadPerURL'
  BY DEF AvatarInv, PlaceInv, Fetching, OneLoadPerURL, Running
<1>5. FreshNotLoading'
  BY DEF AvatarInv, FreshNotLoading
<1>6. FailInv'
  <2> SUFFICES ASSUME NEW u \in URLs, failed[u] # 0
               PROVE  \/ now >= failed[u] - 1 + FailureTTL
                      \/ u \in DOMAIN entries' /\ entries'[u].expires = failed[u] - 1 + FailureTTL
    BY DEF FailInv
  <2>1. \/ now >= failed[u] - 1 + FailureTTL
        \/ u \in DOMAIN entries /\ entries[u].expires = failed[u] - 1 + FailureTTL
    BY DEF AvatarInv, FailInv
  <2>2. CASE u \in DOMAIN entries'
    BY <2>1, <2>2
  <2>3. CASE u \in DOMAIN entries \ DOMAIN entries'
    <3>1. entries[u].expires <= now /\ now \in Nat /\ failed[u] \in Nat
      BY <2>3, Times DEF AvatarInv, Types
    <3> QED
      BY <2>1, <3>1, Times
  <2> QED
    BY <2>1, <2>2, <2>3
<1> QED
  BY <1>1, <1>3, <1>4, <1>5, <1>6 DEF AvatarInv

\* Finish ends the call.
LEMMA Finishes ==
  ASSUME AvatarInv, NEW c \in Callers, Finish(c)
  PROVE  CallerMoves(c, IdleCaller)
<1>1. now \in Nat
  BY Times DEF AvatarInv, Types
<1> QED
  BY <1>1, Rest DEF Finish, CallerMoves

\* A hit refreshes the entry.
LEMMA Touches ==
  ASSUME AvatarInv, NEW c \in Callers, FreshAt(caller[c].url, caller[c].at),
         entries' = Touched(caller[c].url, caller[c].at)
  PROVE  /\ DOMAIN entries' = DOMAIN entries /\ entries' \in [DOMAIN entries' -> Avatar]
         /\ \A u \in DOMAIN entries' : entries'[u].expires = entries[u].expires
<1>1. PICK u, t : u = caller[c].url /\ t = caller[c].at
  OBVIOUS
<1>2. u \in DOMAIN entries /\ t \in Time /\ entries \in [DOMAIN entries -> Avatar]
  BY <1>1 DEF AvatarInv, Types, FreshAt, CallerState
<1> DEFINE e == [entries[u] EXCEPT !.used = t]
<1>3. e \in Avatar /\ e.expires = entries[u].expires
  BY <1>2 DEF Avatar
<1>4. entries' = [entries EXCEPT ![u] = e]
  BY <1>1, <1>2 DEF Touched
<1> HIDE DEF e
<1> QED
  BY <1>2, <1>3, <1>4

\* A step of Lookup or Prefetch that starts no download.
LEMMA CallSteps ==
  ASSUME AvatarInv, NEW c \in Callers,
         \/ LookupHit(c) \/ LookupMiss(c) \/ PrefetchHit(c) \/ PrefetchRefused(c)
         \/ \E step \in {"lookup", "prefetch"}, u \in URLs : Call(c, step, u)
  PROVE  AvatarInv'
<1>1. entries \in [DOMAIN entries -> Avatar] /\ now \in Time /\ now \in Nat /\ now <= now
  BY Times DEF AvatarInv, Types
<1>2. CASE LookupHit(c) \/ PrefetchHit(c)
  <2>1. /\ FreshAt(caller[c].url, caller[c].at) /\ entries' = Touched(caller[c].url, caller[c].at)
        /\ Finish(c) /\ UNCHANGED <<now, inflight, loader, failed>>
    BY <1>2 DEF LookupHit, PrefetchHit
  <2>2. CallerMoves(c, IdleCaller)
    BY <2>1, Finishes
  <2>3. /\ DOMAIN entries' = DOMAIN entries /\ entries' \in [DOMAIN entries' -> Avatar]
        /\ \A u \in DOMAIN entries' : entries'[u].expires = entries[u].expires
    BY <2>1, Touches
  <2> QED
    BY <2>1, <2>2, <2>3, CallerKeeps
<1>3. CASE LookupMiss(c)
  <2>1. PICK u : u = caller[c].url
    OBVIOUS
  <2>2. /\ ~FreshAt(u, caller[c].at) /\ entries' = [v \in DOMAIN entries \ {u} |-> entries[v]]
        /\ UNCHANGED <<now, inflight, loader, failed>>
        /\ \/ /\ u \in Allowed
              /\ caller' = [caller EXCEPT ![c] = [step |-> "prefetch", url |-> u, at |-> now]]
           \/ Finish(c)
    BY <1>3, <2>1 DEF LookupMiss
  <2>3. PICK x : CallerMoves(c, x)
    <3>1. CASE Finish(c)
      BY <3>1, Finishes
    <3>2. CASE /\ u \in Allowed
               /\ caller' = [caller EXCEPT ![c] = [step |-> "prefetch", url |-> u, at |-> now]]
      <4>1. PICK y : y = [step |-> "prefetch", url |-> u, at |-> now]
        OBVIOUS
      <4>2. u \in URLs
        BY <3>2, AvatarAssumption
      <4>3. y \in CallerState /\ y.url = u /\ y.at = now
        BY <1>1, <4>1, <4>2 DEF CallerState
      <4> QED
        BY <1>1, <3>2, <4>1, <4>3 DEF CallerMoves
    <3> QED
      BY <2>2, <3>1, <3>2
  <2>4. /\ DOMAIN entries' \subseteq DOMAIN entries /\ entries' \in [DOMAIN entries' -> Avatar]
        /\ \A v \in DOMAIN entries' : entries'[v].expires = entries[v].expires
        /\ \A v \in DOMAIN entries \ DOMAIN entries' : v = u
    BY <1>1, <2>2
  <2>5. u \in DOMAIN entries => entries[u].expires <= now
    <3>1. SUFFICES ASSUME u \in DOMAIN entries PROVE entries[u].expires <= now
      OBVIOUS
    <3>2. ~(entries[u].expires > caller[c].at)
      BY <2>2, <3>1 DEF FreshAt
    <3>3. caller[c].at <= now /\ caller[c].at \in Nat
      BY Times DEF AvatarInv, CallerInv, Types, CallerState
    <3>4. entries[u].expires \in Nat
      BY <1>1, <3>1, Times DEF Avatar
    <3> QED
      BY <1>1, <3>2, <3>3, <3>4
  <2> QED
    BY <2>2, <2>3, <2>4, <2>5, CallerKeeps
<1>4. CASE PrefetchRefused(c)
  <2>1. Finish(c) /\ UNCHANGED <<now, entries, inflight, loader, failed>>
    BY <1>4 DEF PrefetchRefused
  <2>2. CallerMoves(c, IdleCaller)
    BY <2>1, Finishes
  <2> QED
    BY <1>1, <2>1, <2>2, CallerKeeps
<1>5. ASSUME NEW step \in {"lookup", "prefetch"}, NEW u \in URLs, Call(c, step, u)
      PROVE  AvatarInv'
  <2>1. /\ step = "prefetch" => u \in Allowed
        /\ caller' = [caller EXCEPT ![c] = [step |-> step, url |-> u, at |-> now]]
        /\ UNCHANGED <<now, entries, inflight, loader, failed>>
    BY <1>5 DEF Call
  <2>2. [step |-> step, url |-> u, at |-> now] \in CallerState
    BY <1>1 DEF CallerState
  <2>3. CallerMoves(c, [step |-> step, url |-> u, at |-> now])
    BY <1>1, <2>1, <2>2 DEF CallerMoves
  <2> QED
    BY <1>1, <2>1, <2>3, CallerKeeps
<1> QED
  BY <1>2, <1>3, <1>4, <1>5

\* Prefetch starts a download: no other runs for the address, and no entry of it is
\* fresh.
LEMMA LoadsStep ==
  ASSUME AvatarInv, NEW c \in Callers, PrefetchLoads(c)
  PROVE  AvatarInv'
<1>1. PICK u : u = caller[c].url
  OBVIOUS
<1>2. PICK l \in Loaders \ Running :
        loader' = [loader EXCEPT ![l] = [IdleLoader EXCEPT !.step = "wait", !.url = u]]
  BY <1>1 DEF PrefetchLoads
<1>3. /\ caller[c].step = "prefetch" /\ ~FreshAt(u, caller[c].at) /\ u \notin inflight
      /\ inflight' = inflight \cup {u} /\ Finish(c) /\ UNCHANGED <<now, entries, failed>>
  BY <1>1 DEF PrefetchLoads, MayLoad
<1>4. u \in Allowed /\ u \in URLs
  BY <1>1, <1>3, AvatarAssumption DEF AvatarInv, CallerInv
<1> DEFINE x == [IdleLoader EXCEPT !.step = "wait", !.url = u]
<1>5. x \in LoaderState /\ x.step = "wait" /\ x.url = u
  BY <1>4, Rest DEF LoaderState
<1>6. /\ loader' \in [Loaders -> LoaderState] /\ loader'[l].step = "wait" /\ loader'[l].url = u
      /\ loader[l].step = "idle" /\ \A k \in Loaders : k # l => loader'[k] = loader[k]
  <2>1. loader \in [Loaders -> LoaderState] /\ loader' = [loader EXCEPT ![l] = x]
    BY <1>2 DEF AvatarInv, Types
  <2> HIDE DEF x
  <2> QED
    BY <1>5, <2>1 DEF Running
<1>7. Fetching' = Fetching /\ Running' = Running \cup {l} /\ l \notin Running
  BY <1>6 DEF Fetching, Running
<1>8. CallerMoves(c, IdleCaller)
  BY <1>3, Finishes
<1>9. caller' \in [Callers -> CallerState] /\ CallerInv'
  BY <1>3, <1>8 DEF AvatarInv, Types, CallerInv, CallerMoves
<1>10. Types' /\ PlaceInv'
  BY <1>3, <1>4, <1>6, <1>7, <1>9 DEF AvatarInv, Types, PlaceInv
<1>11. OneLoadPerURL'
  <2>1. \A k \in Running : loader'[k] = loader[k] /\ loader[k].url \in inflight
    BY <1>6, <1>7 DEF AvatarInv, OneLoadPerURL, Running
  <2>2. inflight' = {loader'[k].url : k \in Running'}
    BY <1>3, <1>6, <1>7, <2>1 DEF AvatarInv, OneLoadPerURL
  <2>3. \A j, k \in Running' : j # k => loader'[j].url # loader'[k].url
    BY <1>3, <1>6, <1>7, <2>1 DEF AvatarInv, OneLoadPerURL
  <2> QED
    BY <2>2, <2>3 DEF OneLoadPerURL
<1>12. FreshNotLoading'
  <2>1. u \in DOMAIN entries => entries[u].expires <= now
    <3>1. SUFFICES ASSUME u \in DOMAIN entries PROVE entries[u].expires <= now
      OBVIOUS
    <3>2. ~(entries[u].expires > caller[c].at)
      BY <1>3, <3>1 DEF FreshAt
    <3>3. caller[c].at <= now /\ caller[c].at \in Nat /\ now \in Nat
      BY Times DEF AvatarInv, CallerInv, Types, CallerState
    <3>4. entries[u].expires \in Nat
      BY <3>1, Times DEF AvatarInv, Types, Avatar
    <3> QED
      BY <3>2, <3>3, <3>4
  <2> QED
    BY <1>3, <2>1 DEF AvatarInv, FreshNotLoading
<1>13. FailInv'
  BY <1>3 DEF AvatarInv, FailInv
<1> QED
  BY <1>9, <1>10, <1>11, <1>12, <1>13 DEF AvatarInv
-----------------------------------------------------------------------------
(* Steps of downloads.                                                      *)

\* A download goes on.
LEMMA LoadGoesOn ==
  ASSUME AvatarInv, NEW l \in Loaders,
         NEW from \in {"wait", "fetch", "fetched"}, NEW to \in {"fetch", "fetched", "store"},
         NEW ok \in BOOLEAN, NEW at \in Time, LoadStep(l, from, to, ok, at),
         to = "fetch" => Cardinality(Fetching) < MaxConcurrent
  PROVE  AvatarInv'
<1>1. /\ loader[l].step = from
      /\ loader' = [loader EXCEPT ![l] = [loader[l] EXCEPT !.step = to, !.ok = ok, !.at = at]]
      /\ UNCHANGED <<now, entries, inflight, caller, failed>>
  BY DEF LoadStep
<1> DEFINE x == [loader[l] EXCEPT !.step = to, !.ok = ok, !.at = at]
<1>2. loader \in [Loaders -> LoaderState] /\ loader[l] \in LoaderState
  BY DEF AvatarInv, Types
<1>3. x \in LoaderState /\ x.step = to /\ x.url = loader[l].url
  BY <1>2 DEF LoaderState
<1>4. loader' = [loader EXCEPT ![l] = x]
  BY <1>1
<1> HIDE DEF x
<1>5. /\ loader' \in [Loaders -> LoaderState] /\ loader'[l].step = to
      /\ loader'[l].url = loader[l].url /\ \A k \in Loaders : k # l => loader'[k] = loader[k]
  BY <1>2, <1>3, <1>4
<1>6. Running' = Running /\ \A k \in Running : loader'[k].url = loader[k].url
  BY <1>1, <1>5 DEF Running
<1>7. PlaceInv'
  <2>1. /\ IsFiniteSet(Fetching) /\ Cardinality(Fetching) <= MaxConcurrent
        /\ Cardinality(Fetching) \in Nat
    BY FS_CardinalityType DEF AvatarInv, PlaceInv
  <2>2. CASE to = "fetch"
    <3>1. Fetching' \subseteq Fetching \cup {l}
      BY <1>5 DEF Fetching
    <3>2. /\ IsFiniteSet(Fetching \cup {l})
          /\ Cardinality(Fetching \cup {l}) <= Cardinality(Fetching) + 1
      <4>1. /\ IsFiniteSet(Fetching \cup {l})
            /\ Cardinality(Fetching \cup {l})
                 = IF l \in Fetching THEN Cardinality(Fetching) ELSE Cardinality(Fetching) + 1
        BY <2>1, FS_AddElement
      <4> QED
        BY <2>1, <4>1
    <3>3. /\ IsFiniteSet(Fetching') /\ Cardinality(Fetching') <= Cardinality(Fetching \cup {l})
      BY <3>1, <3>2, FS_Subset
    <3>4. Cardinality(Fetching') \in Nat /\ Cardinality(Fetching \cup {l}) \in Nat
      BY <3>2, <3>3, FS_CardinalityType
    <3> QED
      BY <2>1, <2>2, <3>2, <3>3, <3>4, AvatarAssumption DEF PlaceInv
  <2>3. CASE to # "fetch"
    <3>1. Fetching' \subseteq Fetching
      BY <1>5, <2>3 DEF Fetching
    <3>2. IsFiniteSet(Fetching') /\ Cardinality(Fetching') <= Cardinality(Fetching)
      BY <2>1, <3>1, FS_Subset
    <3>3. Cardinality(Fetching') \in Nat
      BY <3>2, FS_CardinalityType
    <3> QED
      BY <2>1, <3>2, <3>3, AvatarAssumption DEF PlaceInv
  <2> QED
    BY <2>2, <2>3
<1>8. Types'
  BY <1>1, <1>5 DEF AvatarInv, Types
<1>9. OneLoadPerURL'
  BY <1>1, <1>6 DEF AvatarInv, OneLoadPerURL
<1>10. CallerInv' /\ FreshNotLoading' /\ FailInv'
  BY <1>1 DEF AvatarInv, CallerInv, FreshNotLoading, FailInv
<1> QED
  BY <1>7, <1>8, <1>9, <1>10 DEF AvatarInv

\* What evictLocked leaves.
LEMMA Evicting ==
  ASSUME NEW D, IsFiniteSet(D), NEW es \in [D -> Avatar], NEW r \in Evicted(es)
  PROVE  /\ DOMAIN r \subseteq D /\ r \in [DOMAIN r -> Avatar] /\ \A u \in DOMAIN r : r[u] = es[u]
         /\ IsFiniteSet(DOMAIN r) /\ Cardinality(DOMAIN r) <= MaxEntries
<1>1. DOMAIN es = D
  OBVIOUS
<1>2. CASE Cardinality(D) <= MaxEntries
  BY <1>1, <1>2 DEF Evicted
<1>3. CASE ~(Cardinality(D) <= MaxEntries)
  <2>1. PICK k \in SUBSET D : Cardinality(k) = MaxEntries /\ r = [u \in k |-> es[u]]
    BY <1>1, <1>3 DEF Evicted
  <2>2. IsFiniteSet(k) /\ MaxEntries <= MaxEntries
    BY FS_Subset, AvatarAssumption
  <2> QED
    BY <2>1, <2>2
<1> QED
  BY <1>2, <1>3

\* A download ends: its entry is new, entries are evicted.
LEMMA AvatarStored ==
  ASSUME AvatarInv, NEW l \in Loaders, LoadStores(l)
  PROVE  AvatarInv'
<1>1. PICK u, ok, at : u = loader[l].url /\ ok = loader[l].ok /\ at = loader[l].at
  OBVIOUS
<1>2. PICK e, es : e = Loaded(ok, at) /\ es = With(u, e)
  OBVIOUS
<1>3. /\ loader[l].step = "store" /\ inflight' = inflight \ {u} /\ entries' \in Evicted(es)
      /\ loader' = [loader EXCEPT ![l] = IdleLoader]
      /\ failed' = [v \in URLs |->
           IF v \in (DOMAIN entries \cup {u}) \ DOMAIN entries' THEN 0
           ELSE IF v = u THEN (IF ok THEN 0 ELSE at + 1) ELSE failed[v]]
      /\ UNCHANGED <<now, caller>>
  BY <1>1, <1>2 DEF LoadStores, Ends
<1>4. /\ loader \in [Loaders -> LoaderState] /\ u \in URLs /\ ok \in BOOLEAN /\ at \in Time
      /\ entries \in [DOMAIN entries -> Avatar] /\ now \in Nat /\ at \in Nat
  BY <1>1, Times DEF AvatarInv, Types, LoaderState
<1>5. l \in Running /\ u \in inflight /\ u \in Allowed
  BY <1>1, <1>3 DEF AvatarInv, OneLoadPerURL, Running, Types
<1>6. e \in Avatar /\ (~ok => e.expires = at + FailureTTL)
  <2>1. at + SuccessTTL \in 0..(MaxTime + SuccessTTL + FailureTTL)
    BY <1>4, Times DEF Time
  <2>2. at + FailureTTL \in 0..(MaxTime + SuccessTTL + FailureTTL)
    BY <1>4, Times DEF Time
  <2> QED
    BY <1>2, <1>4, <2>1, <2>2 DEF Loaded, Avatar
<1>7. /\ es \in [DOMAIN entries \cup {u} -> Avatar] /\ es[u] = e
      /\ \A v \in DOMAIN entries : v # u => es[v] = entries[v]
  BY <1>2, <1>4, <1>6 DEF With
<1>8. IsFiniteSet(DOMAIN entries \cup {u}) /\ DOMAIN entries \cup {u} \subseteq Allowed
  <2>1. IsFiniteSet(DOMAIN entries) /\ DOMAIN entries \subseteq Allowed
    BY DEF AvatarInv, Types
  <2> QED
    BY <1>5, <2>1, FS_AddElement
<1>9. /\ DOMAIN entries' \subseteq DOMAIN entries \cup {u}
      /\ entries' \in [DOMAIN entries' -> Avatar]
      /\ \A v \in DOMAIN entries' : entries'[v] = es[v]
      /\ IsFiniteSet(DOMAIN entries') /\ Cardinality(DOMAIN entries') <= MaxEntries
  BY <1>3, <1>7, <1>8, Evicting
<1>10. /\ loader' \in [Loaders -> LoaderState] /\ loader'[l].step = "idle"
       /\ \A k \in Loaders : k # l => loader'[k] = loader[k]
  BY <1>3, <1>4, Rest
<1>11. failed' \in [URLs -> 0..(MaxTime + 1)]
  <2>1. at + 1 \in 0..(MaxTime + 1) /\ 0 \in 0..(MaxTime + 1)
    BY <1>4, Times DEF Time
  <2>2. failed \in [URLs -> 0..(MaxTime + 1)]
    BY DEF AvatarInv, Types
  <2> QED
    BY <1>3, <2>1, <2>2
<1>12. Types'
  BY <1>3, <1>8, <1>9, <1>10, <1>11 DEF AvatarInv, Types
<1>13. PlaceInv'
  <2>1. Fetching' \subseteq Fetching
    BY <1>3, <1>10 DEF Fetching
  <2>2. /\ IsFiniteSet(Fetching) /\ Cardinality(Fetching) <= MaxConcurrent
        /\ Cardinality(Fetching) \in Nat
    BY FS_CardinalityType DEF AvatarInv, PlaceInv
  <2>3. IsFiniteSet(Fetching') /\ Cardinality(Fetching') <= Cardinality(Fetching)
    BY <2>1, <2>2, FS_Subset
  <2>4. Cardinality(Fetching') \in Nat
    BY <2>3, FS_CardinalityType
  <2> QED
    BY <2>2, <2>3, <2>4, AvatarAssumption DEF PlaceInv
<1>14. CallerInv'
  BY <1>3 DEF AvatarInv, CallerInv
<1>15. OneLoadPerURL'
  <2>1. Running' = Running \ {l} /\ \A k \in Running' : loader'[k] = loader[k]
    BY <1>10 DEF Running
  <2>2. \A k \in Running' : loader[k].url # u
    BY <1>1, <1>5, <2>1 DEF AvatarInv, OneLoadPerURL
  <2>3. inflight' = {loader'[k].url : k \in Running'}
    BY <1>1, <1>3, <2>1, <2>2 DEF AvatarInv, OneLoadPerURL
  <2>4. \A j, k \in Running' : j # k => loader'[j].url # loader'[k].url
    BY <2>1 DEF AvatarInv, OneLoadPerURL
  <2> QED
    BY <2>3, <2>4 DEF OneLoadPerURL
<1>16. \A v \in DOMAIN entries' : v # u => v \in DOMAIN entries /\ entries'[v] = entries[v]
  BY <1>7, <1>9
<1>17. FreshNotLoading'
  BY <1>3, <1>16 DEF AvatarInv, FreshNotLoading
<1>18. FailInv'
  <2> SUFFICES ASSUME NEW v \in URLs, failed'[v] # 0
               PROVE  \/ now >= failed'[v] - 1 + FailureTTL
                      \/ /\ v \in DOMAIN entries'
                         /\ entries'[v].expires = failed'[v] - 1 + FailureTTL
    BY <1>3 DEF FailInv
  <2>1. CASE v = u
    <3>1. v \in DOMAIN entries' /\ ~ok /\ failed'[v] = at + 1
      BY <1>3, <2>1
    <3>2. entries'[v].expires = at + FailureTTL
      BY <1>6, <1>7, <1>9, <2>1, <3>1
    <3>3. failed'[v] - 1 + FailureTTL = at + FailureTTL
      BY <1>4, <3>1, Times
    <3> QED
      BY <1>3, <3>1, <3>2, <3>3
  <2>2. CASE v # u
    <3>1. failed'[v] = failed[v] /\ (v \in DOMAIN entries => v \in DOMAIN entries')
      BY <1>3, <2>2
    <3>2. \/ now >= failed[v] - 1 + FailureTTL
          \/ v \in DOMAIN entries /\ entries[v].expires = failed[v] - 1 + FailureTTL
      BY <3>1 DEF AvatarInv, FailInv
    <3> QED
      BY <1>16, <2>2, <3>1, <3>2
  <2> QED
    BY <2>1, <2>2
<1> QED
  BY <1>12, <1>13, <1>14, <1>15, <1>17, <1>18 DEF AvatarInv

\* Time passes.
LEMMA TickStep ==
  ASSUME AvatarInv, Tick
  PROVE  AvatarInv'
<1>1. now < MaxTime /\ now' = now + 1 /\ UNCHANGED <<entries, inflight, caller, loader, failed>>
  BY DEF Tick
<1>2. now \in Nat /\ now' \in Time /\ now' \in Nat
  BY <1>1, Times DEF AvatarInv, Types, Time
<1>3. Types'
  BY <1>1, <1>2 DEF AvatarInv, Types
<1>4. PlaceInv' /\ OneLoadPerURL'
  BY <1>1 DEF AvatarInv, PlaceInv, Fetching, OneLoadPerURL, Running
<1>5. CallerInv'
  <2>1. \A c \in Callers : caller[c].at \in Nat
    BY Times DEF AvatarInv, Types, CallerState
  <2> QED
    BY <1>1, <1>2, <2>1 DEF AvatarInv, CallerInv
<1>6. FreshNotLoading'
  <2>1. \A u \in DOMAIN entries : entries[u].expires \in Nat
    BY Times DEF AvatarInv, Types, Avatar
  <2> QED
    BY <1>1, <1>2, <2>1 DEF AvatarInv, FreshNotLoading
<1>7. FailInv'
  <2>1. \A u \in URLs : failed[u] \in Nat
    BY Times DEF AvatarInv, Types
  <2>2. \A u \in URLs : now >= failed[u] - 1 + FailureTTL => now' >= failed[u] - 1 + FailureTTL
    BY <1>1, <1>2, <2>1, Times
  <2> QED
    BY <1>1, <2>2 DEF AvatarInv, FailInv
<1> QED
  BY <1>3, <1>4, <1>5, <1>6, <1>7 DEF AvatarInv

\* Every step keeps AvatarInv.
LEMMA NextAvatar == AvatarInv /\ [Next]_vars => AvatarInv'
<1> SUFFICES ASSUME AvatarInv, [Next]_vars PROVE AvatarInv'
  OBVIOUS
<1>1. ASSUME NEW l \in Loaders, LoaderStep(l) PROVE AvatarInv'
  <2>1. 0 \in Time /\ now \in Time /\ loader[l].ok \in BOOLEAN
    BY AvatarAssumption DEF AvatarInv, Types, LoaderState, Time
  <2>2. CASE LoadBegins(l)
    BY <2>1, <2>2, LoadGoesOn DEF LoadBegins
  <2>3. ASSUME NEW ok \in BOOLEAN, Fetch(l, ok) PROVE AvatarInv'
    BY <2>1, <2>3, LoadGoesOn DEF Fetch
  <2>4. CASE LoadReadsClock(l)
    BY <2>1, <2>4, LoadGoesOn DEF LoadReadsClock
  <2> QED
    BY <1>1, <2>2, <2>3, <2>4, AvatarStored DEF LoaderStep
<1>2. CASE UNCHANGED vars
  BY <1>2 DEF vars, AvatarInv, Types, PlaceInv, Fetching, CallerInv, OneLoadPerURL, Running,
              FreshNotLoading, FailInv
<1>3. ASSUME NEW c \in Callers,
             CallerStep(c) \/ \E step \in {"lookup", "prefetch"}, u \in URLs : Call(c, step, u)
      PROVE  AvatarInv'
  BY <1>3, CallSteps, LoadsStep DEF CallerStep
<1> QED
  BY <1>1, <1>2, <1>3, TickStep DEF Next

\* The inductive invariant of the cache holds.
THEOREM AvatarInvHolds == Spec => []AvatarInv
BY InitAvatar, NextAvatar, PTL DEF Spec

\* With any number of renderers and event handlers: the cache stays within its limits, an
\* address has at most one download, and none while its entry is fresh (Prefetch, Lookup,
\* load, evictLocked).
THEOREM CacheIsSafe == Spec => []CacheInv
<1>1. AvatarInv => CacheInv
  BY DEF AvatarInv, Types, PlaceInv, CallerState, LoaderState, CacheInv, TypeOK
<1> QED
  BY <1>1, AvatarInvHolds, PTL

\* An address that failed is not asked again within FailureTTL, unless its entry was
\* evicted, although callers work with times they read before they took the lock
\* (Prefetch, Lookup, load).
THEOREM FailuresRemembered == Spec => FailureRemembered
<1>1. ASSUME AvatarInv, [Next]_vars
      PROVE  [\A u \in inflight' \ inflight :
                failed[u] = 0 \/ now >= failed[u] - 1 + FailureTTL]_vars
  <2>1. ASSUME NEW c \in Callers, PrefetchLoads(c), NEW u \in inflight' \ inflight
        PROVE  failed[u] = 0 \/ now >= failed[u] - 1 + FailureTTL
    <3>1. u \in inflight' /\ u \in Allowed /\ u \in URLs /\ UNCHANGED <<now, entries, failed>>
      <4>1. AvatarInv'
        BY <2>1, <1>1, LoadsStep
      <4>2. inflight' \subseteq Allowed
        BY <4>1 DEF AvatarInv, Types
      <4> QED
        BY <2>1, <4>2, AvatarAssumption DEF PrefetchLoads
    <3>2. FreshNotLoading'
      BY <1>1, <2>1, LoadsStep DEF AvatarInv
    <3>3. u \in DOMAIN entries => entries[u].expires <= now
      BY <3>1, <3>2 DEF FreshNotLoading
    <3>4. now \in Nat /\ failed[u] \in Nat
      BY <1>1, <3>1, Times DEF AvatarInv, Types
    <3>5. failed[u] # 0 =>
            \/ now >= failed[u] - 1 + FailureTTL
            \/ u \in DOMAIN entries /\ entries[u].expires = failed[u] - 1 + FailureTTL
      BY <1>1, <3>1 DEF AvatarInv, FailInv
    <3> QED
      BY <3>3, <3>4, <3>5, Times
  <2>2. ASSUME inflight' \subseteq inflight
        PROVE  \A u \in inflight' \ inflight : failed[u] = 0 \/ now >= failed[u] - 1 + FailureTTL
    BY <2>2
  <2>3. ASSUME NEW l \in Loaders, LoaderStep(l) PROVE inflight' \subseteq inflight
    BY <2>3 DEF LoaderStep, LoadBegins, Fetch, LoadReadsClock, LoadStep, LoadStores, Ends
  <2>4. ASSUME NEW c \in Callers,
               CallerStep(c) \/ \E step \in {"lookup", "prefetch"}, u \in URLs : Call(c, step, u),
               ~PrefetchLoads(c)
        PROVE  inflight' \subseteq inflight
    BY <2>4 DEF CallerStep, LookupHit, LookupMiss, PrefetchHit, PrefetchRefused, Call
  <2> QED
    BY <1>1, <2>1, <2>2, <2>3, <2>4 DEF Next, Tick
<1> QED
  BY <1>1, AvatarInvHolds, PTL DEF Spec, FailureRemembered
-----------------------------------------------------------------------------
(* SceneAppearance.                                                         *)

\* One Start at a time prepares an appearance, and only while there is no job
\* (lifecycleMu).
StartInv ==
  /\ \A a, b \in Starts : start[a].step # "idle" /\ start[b].step # "idle" => a = b
  /\ \A a \in Starts : start[a].step # "idle" =>
       scene = NoScene /\ start[a].stream \in Streams /\ start[a].snapshot \in Snapshot
  /\ \A a \in Starts : start[a].step \in {"cached", "fetch", "decoded"} =>
       start[a].snapshot.background \in Pictures

\* What the Start that prepares has in hand: an image that is not cached yet,
\* then one that only Close may zero.
HandInv ==
  /\ \A a \in Starts : start[a].step = "decoded" =>
       /\ start[a].image \in Images /\ start[a].image \notin ImagesOf(ToSet(cache))
       /\ heap[start[a].image] = start[a].snapshot.background
  /\ \A a \in Starts : start[a].step = "prepared" /\ start[a].snapshot.background # Default =>
       /\ start[a].image \in Images
       /\ \/ heap[start[a].image] = start[a].snapshot.background
          \/ closed /\ heap[start[a].image] = "wiped"

\* No two entries share an image.
OneImage(seq) == \A i, j \in DOMAIN seq : seq[i].image = seq[j].image => i = j

\* The inductive invariant.
RuntimeInv == AppearanceInv /\ StartInv /\ HandInv /\ OneImage(cache)

\* What is left of a stream's binding: nothing was bound, or the binding is
\* there and every stream used after it was bound since, or enough were.
Remembered(s) ==
  \/ fence[s].generation = 0
  \/ \E k \in DOMAIN bindings :
       /\ bindings[k].stream = s /\ bindings[k].generation = fence[s].generation
       /\ bindings[k].background = fence[s].background
       /\ \A j \in DOMAIN bindings : j > k => bindings[j].stream \in fence[s].others
  \/ Cardinality(fence[s].others) >= MaxBindings

\* The bindings remember every stream while the runtime is open.
FenceInv ==
  /\ \A s \in Streams : IsFiniteSet(fence[s].others)
  /\ ~closed => \A s \in Streams : Remembered(s)
-----------------------------------------------------------------------------
(* The sequences.                                                           *)

\* A part of a sequence up to its end.
LEMMA SuffixParts ==
  ASSUME NEW S, NEW q \in Seq(S), NEW d \in 0..Len(q)
  PROVE  LET r == SubSeq(q, d + 1, Len(q)) IN
         /\ r \in Seq(S) /\ Len(r) = Len(q) - d
         /\ \A i \in 1..Len(r) : i + d \in 1..Len(q) /\ r[i] = q[i + d]
<1>1. Len(q) \in Nat
  OBVIOUS
<1>2. d \in Int /\ d + 1 \in Int /\ Len(q) \in Int /\ d <= Len(q) /\ d >= 0
  BY <1>1
<1>3. \A i \in d + 1..Len(q) : q[i] \in S
  BY <1>1, <1>2
<1> DEFINE r == SubSeq(q, d + 1, Len(q))
<1>4. /\ r \in Seq(S)
      /\ Len(r) = IF d + 1 <= Len(q) THEN Len(q) - (d + 1) + 1 ELSE 0
      /\ \A i \in 1..Len(q) - (d + 1) + 1 : r[i] = q[d + 1 + i - 1]
  <2> HIDE DEF r
  <2> QED
    BY <1>2, <1>3, SubSeqProperties DEF r
<1> HIDE DEF r
<1>5. Len(r) = Len(q) - d
  BY <1>2, <1>4
<1>6. \A i \in 1..Len(r) : i + d \in 1..Len(q) /\ r[i] = q[i + d]
  <2> SUFFICES ASSUME NEW i \in 1..Len(r)
               PROVE  i + d \in 1..Len(q) /\ r[i] = q[i + d]
    OBVIOUS
  <2>1. i \in 1..Len(q) - (d + 1) + 1 /\ d + 1 + i - 1 = i + d /\ i + d \in 1..Len(q)
    BY <1>2, <1>5
  <2> QED
    BY <1>4, <2>1
<1> QED
  BY <1>4, <1>5, <1>6 DEF r

\* A sequence without one of its elements.
LEMMA RemovedParts ==
  ASSUME NEW S, NEW q \in Seq(S), NEW k \in 1..Len(q)
  PROVE  LET r == RemoveAt(q, k) IN
         /\ r \in Seq(S) /\ Len(r) = Len(q) - 1
         /\ \A i \in 1..Len(r) : r[i] = IF i < k THEN q[i] ELSE q[i + 1]
<1> DEFINE before == SubSeq(q, 1, k - 1)  after == SubSeq(q, k + 1, Len(q))
<1>1. Len(q) \in Nat /\ k \in Nat
  OBVIOUS
<1>2. before \in Seq(S) /\ Len(before) = k - 1 /\ \A i \in 1..k - 1 : before[i] = q[i]
  <2>1. \A i \in 1..k - 1 : q[i] \in S
    BY <1>1
  <2> QED
    BY <1>1, <2>1, SubSeqProperties
<1>3. after \in Seq(S) /\ Len(after) = Len(q) - k /\ \A i \in 1..Len(q) - k : after[i] = q[i + k]
  BY <1>1, SuffixParts
<1>4. RemoveAt(q, k) = before \o after
  BY DEF RemoveAt
<1> HIDE DEF before, after
<1>5. /\ before \o after \in Seq(S) /\ Len(before \o after) = Len(q) - 1
      /\ \A i \in 1..Len(q) - 1 :
           (before \o after)[i] = IF i <= k - 1 THEN before[i] ELSE after[i - (k - 1)]
  <2>1. Len(before) + Len(after) = Len(q) - 1
    BY <1>1, <1>2, <1>3
  <2>2. /\ before \o after \in Seq(S) /\ Len(before \o after) = Len(before) + Len(after)
        /\ \A i \in 1..Len(before) + Len(after) :
             (before \o after)[i] = IF i <= Len(before) THEN before[i] ELSE after[i - Len(before)]
    BY <1>2, <1>3, ConcatProperties
  <2> QED
    BY <1>2, <2>1, <2>2, Zenon
<1>6. ASSUME NEW i \in 1..Len(q) - 1
      PROVE  (before \o after)[i] = IF i < k THEN q[i] ELSE q[i + 1]
  <2>1. CASE i < k
    BY <1>1, <1>2, <1>5, <2>1
  <2>2. CASE ~(i < k)
    <3> DEFINE j == i - (k - 1)
    <3>1. j \in 1..Len(q) - k /\ j + k = i + 1 /\ ~(i <= k - 1)
      BY <1>1, <2>2
    <3>2. (before \o after)[i] = after[j]
      BY <1>5, <3>1
    <3> HIDE DEF j
    <3>3. after[j] = q[j + k]
      BY <1>3, <3>1
    <3>4. after[j] = q[i + 1]
      BY <3>1, <3>3
    <3> QED
      BY <2>2, <3>2, <3>4, Zenon
  <2> QED
    BY <2>1, <2>2
<1> QED
  BY <1>4, <1>5, <1>6

\* The place in the sequence before k was removed.
Skip(k, i) == IF i < k THEN i ELSE i + 1

\* The place that is removed, or the one after the last.
Gone(seq, P) == IF P = {} THEN Len(seq) + 1 ELSE CHOOSE k \in P : TRUE

\* Without a place, if there is one, the order stays.
LEMMA WithoutParts ==
  ASSUME NEW S, NEW q \in Seq(S), NEW P \in SUBSET (1..Len(q)), \A i, j \in P : i = j
  PROVE  LET k == Gone(q, P) IN
         /\ Without(q, P) \in Seq(S) /\ k \in 1..(Len(q) + 1)
         /\ Len(Without(q, P)) = IF k <= Len(q) THEN Len(q) - 1 ELSE Len(q)
         /\ \A i \in 1..Len(Without(q, P)) : Without(q, P)[i] = q[Skip(k, i)]
         /\ \A i \in 1..Len(q) : i \in P <=> i = k
<1> DEFINE k == Gone(q, P)
<1>1. Len(q) \in Nat
  OBVIOUS
<1>2. CASE P = {}
  <2>1. Without(q, P) = q /\ k = Len(q) + 1
    BY <1>2 DEF Without, Gone
  <2> HIDE DEF k
  <2>2. k \in 1..(Len(q) + 1) /\ ~(k <= Len(q)) /\ \A i \in 1..Len(q) : i < k /\ i # k
    BY <1>1, <2>1
  <2> QED
    BY <1>2, <2>1, <2>2 DEF Skip, k
<1>3. CASE P # {}
  <2>0. (CHOOSE j \in P : TRUE) \in P
    BY <1>3
  <2>1. k \in P /\ Without(q, P) = RemoveAt(q, k)
    BY <1>3, <2>0 DEF Without, Gone
  <2> HIDE DEF k
  <2>2. k \in 1..Len(q) /\ k \in 1..(Len(q) + 1) /\ k <= Len(q)
    BY <1>1, <2>1
  <2>3. \A i \in 1..Len(q) : i \in P <=> i = k
    BY <2>1
  <2>4. \A i \in 1..Len(RemoveAt(q, k)) : RemoveAt(q, k)[i] = q[Skip(k, i)]
    BY <2>2, RemovedParts DEF Skip
  <2>5. RemoveAt(q, k) \in Seq(S) /\ Len(RemoveAt(q, k)) = Len(q) - 1
    BY <2>2, RemovedParts
  <2> QED
    BY <2>1, <2>2, <2>3, <2>4, <2>5 DEF k
<1> QED
  BY <1>2, <1>3

\* The range of a sequence is finite.
LEMMA RangeFinite ==
  ASSUME NEW S, NEW q \in Seq(S)
  PROVE  IsFiniteSet(ToSet(q)) /\ ToSet(q) \subseteq S
<1>1. q \in Surjection(1..Len(q), ToSet(q))
  BY DEF Surjection, ToSet
<1> QED
  BY <1>1, FS_Surjection, FS_Interval DEF ToSet

\* An element is appended.
LEMMA AppendParts ==
  ASSUME NEW S, NEW q \in Seq(S), NEW x \in S
  PROVE  /\ Append(q, x) \in Seq(S) /\ Len(Append(q, x)) = Len(q) + 1
         /\ \A i \in 1..Len(q) : Append(q, x)[i] = q[i]
         /\ Append(q, x)[Len(q) + 1] = x
OBVIOUS

\* A hit moves an entry to the end and changes nothing else.
LEMMA UsedParts ==
  ASSUME cache \in Seq(Entry), OnePerStream(cache), OneImage(cache), NEW k \in DOMAIN cache
  PROVE  /\ Used(k) \in Seq(Entry) /\ Len(Used(k)) = Len(cache)
         /\ ToSet(Used(k)) = ToSet(cache)
         /\ OnePerStream(Used(k)) /\ OneImage(Used(k))
<1> DEFINE n == Len(cache)  r == RemoveAt(cache, k)
           f == [i \in 1..n |-> IF i = n THEN k ELSE IF i < k THEN i ELSE i + 1]
<1>1. n \in Nat /\ DOMAIN cache = 1..n /\ k \in 1..n /\ cache[k] \in Entry
  OBVIOUS
<1>2. r \in Seq(Entry) /\ Len(r) = n - 1
      /\ \A i \in 1..Len(r) : r[i] = IF i < k THEN cache[i] ELSE cache[i + 1]
  BY <1>1, RemovedParts
<1>3. /\ Used(k) \in Seq(Entry) /\ Len(Used(k)) = Len(r) + 1
      /\ \A i \in 1..Len(r) : Used(k)[i] = r[i]
      /\ Used(k)[Len(r) + 1] = cache[k]
  BY <1>1, <1>2, AppendParts DEF Used
<1> HIDE DEF n, r
<1>4. f \in [1..n -> 1..n] /\ \A i, j \in 1..n : f[i] = f[j] => i = j
  BY <1>1
<1>5. \A j \in 1..n : \E i \in 1..n : f[i] = j
  <2> TAKE j \in 1..n
  <2>1. CASE j = k
    BY <1>1, <2>1
  <2>2. CASE j < k
    BY <1>1, <2>2
  <2>3. CASE j > k
    <3>1. j - 1 \in 1..n /\ f[j - 1] = j
      BY <1>1, <2>3
    <3> QED
      BY <3>1
  <2> QED
    BY <1>1, <2>1, <2>2, <2>3
<1>6. Len(Used(k)) = n /\ DOMAIN Used(k) = 1..n
  BY <1>1, <1>2, <1>3
<1>7. \A i \in 1..n : Used(k)[i] = cache[f[i]]
  <2> TAKE i \in 1..n
  <2>1. CASE i = n
    BY <1>1, <1>2, <1>3, <2>1
  <2>2. CASE i # n
    <3>1. i \in 1..Len(r)
      BY <1>1, <1>2, <2>2
    <3> QED
      BY <1>1, <1>2, <1>3, <2>2, <3>1
  <2> QED
    BY <2>1, <2>2
<1> HIDE DEF f
<1> DEFINE u == Used(k)
<1> HIDE DEF u
<1>8. ToSet(u) = ToSet(cache)
  <2>1. \A i \in 1..n : f[i] \in 1..n
    BY <1>4
  <2>2. \A i \in DOMAIN u : u[i] = cache[f[i]]
    BY <1>6, <1>7 DEF u
  <2>3. ToSet(u) \subseteq ToSet(cache)
    BY <1>1, <1>6, <2>1, <2>2 DEF ToSet, u
  <2>4. ASSUME NEW j \in 1..n PROVE \E i \in DOMAIN u : u[i] = cache[j]
    <3>1. PICK i \in 1..n : f[i] = j
      BY <1>5
    <3>2. i \in DOMAIN u
      BY <1>6 DEF u
    <3> QED
      BY <2>2, <3>1, <3>2
  <2> QED
    BY <1>1, <2>3, <2>4 DEF ToSet
<1>9. OnePerStream(u) /\ OneImage(u)
  <2> SUFFICES ASSUME NEW i \in 1..n, NEW j \in 1..n,
                      u[i].stream = u[j].stream \/ u[i].image = u[j].image
               PROVE  i = j
    BY <1>6 DEF OnePerStream, OneImage, u
  <2>1. f[i] \in DOMAIN cache /\ f[j] \in DOMAIN cache /\ u[i] = cache[f[i]] /\ u[j] = cache[f[j]]
    BY <1>1, <1>4, <1>7 DEF u
  <2>2. f[i] = f[j]
    BY <2>1 DEF OnePerStream, OneImage
  <2> QED
    BY <1>4, <2>2
<1> QED
  BY <1>3, <1>6, <1>8, <1>9 DEF n, u

\* The place afterwards.
Back(k, j) == IF j < k THEN j ELSE j - 1

\* The places of a sequence of length n around the place k, or all of them.
LEMMA Around ==
  ASSUME NEW n \in Nat, NEW m \in Nat, NEW k \in Nat, k >= 1,
         (k <= n /\ m = n - 1) \/ (k = n + 1 /\ m = n)
  PROVE  /\ \A i \in 1..m : Skip(k, i) \in 1..n /\ Skip(k, i) # k
         /\ \A i, j \in 1..m : i < j => Skip(k, i) < Skip(k, j)
BY DEF Skip

\* ... and back.
LEMMA AroundBack ==
  ASSUME NEW n \in Nat, NEW m \in Nat, NEW k \in Nat, k >= 1,
         (k <= n /\ m = n - 1) \/ (k = n + 1 /\ m = n)
  PROVE  /\ \A j \in 1..n : j # k => Back(k, j) \in 1..m
         /\ \A j \in 1..n : j # k => Skip(k, Back(k, j)) = j
BY DEF Skip, Back

\* The sequence q, without the stream of x, and then x.
LEMMA ReplacedParts ==
  ASSUME NEW S, NEW q \in Seq(S), OnePerStream(q), NEW x \in S,
         NEW P \in SUBSET (1..Len(q)), \A i \in 1..Len(q) : i \in P <=> q[i].stream = x.stream
  PROVE  LET r == Append(Without(q, P), x)  k == Gone(q, P) IN
         /\ r \in Seq(S) /\ Len(r) \in 1..(Len(q) + 1) /\ r[Len(r)] = x
         /\ OnePerStream(r)
         /\ \A i \in 1..(Len(r) - 1) : Skip(k, i) \in 1..Len(q) /\ r[i] = q[Skip(k, i)]
         /\ \A i, j \in 1..(Len(r) - 1) : i < j => Skip(k, i) < Skip(k, j)
         /\ \A j \in 1..Len(q) : q[j].stream # x.stream =>
                   Back(k, j) \in 1..(Len(r) - 1) /\ Skip(k, Back(k, j)) = j
<1> DEFINE w == Without(q, P)  r == Append(w, x)  k == Gone(q, P)
<1>1. Len(q) \in Nat /\ DOMAIN q = 1..Len(q)
  OBVIOUS
<1>0. P \in SUBSET (1..Len(q)) /\ (\A i, j \in P : i = j)
      /\ \A i \in 1..Len(q) : i \in P <=> q[i].stream = x.stream
  BY <1>1 DEF OnePerStream
<1>2. w \in Seq(S)
  BY <1>0, WithoutParts
<1>3. /\ k \in 1..(Len(q) + 1)
      /\ Len(w) = IF k <= Len(q) THEN Len(q) - 1 ELSE Len(q)
      /\ \A i \in 1..Len(w) : w[i] = q[Skip(k, i)]
      /\ \A i \in 1..Len(q) : i \in P <=> i = k
  BY <1>0, WithoutParts
<1> HIDE DEF w, k
<1>4. \A i \in 1..Len(q) : q[i].stream = x.stream <=> i = k
  BY <1>0, <1>1, <1>3
<1>5. /\ r \in Seq(S) /\ Len(r) = Len(w) + 1
      /\ \A i \in 1..Len(w) : r[i] = w[i]
      /\ r[Len(w) + 1] = x
  BY <1>2, AppendParts
<1> HIDE DEF r
<1> DEFINE m == Len(w)
<1> HIDE DEF m
<1>6. /\ m \in Nat /\ Len(q) \in Nat /\ k \in Nat /\ k >= 1 /\ k <= Len(q) + 1
      /\ k <= Len(q) => m = Len(q) - 1
      /\ k > Len(q) => m = Len(q)
      /\ Len(r) = m + 1 /\ Len(r) - 1 = m
  <2>1. m \in Nat
    BY <1>2 DEF m
  <2>2. Len(r) = m + 1 /\ Len(r) - 1 = m
    BY <1>5, <2>1 DEF m
  <2>3. (k <= Len(q) => m = Len(q) - 1) /\ (~(k <= Len(q)) => m = Len(q))
    BY <1>3 DEF m
  <2>4. k \in Nat /\ k >= 1 /\ k <= Len(q) + 1
    <3>1. k \in 1..(Len(q) + 1)
      BY <1>3
    <3> QED
      BY <1>1, <3>1
  <2>5. k > Len(q) <=> ~(k <= Len(q))
    BY <1>1, <2>4
  <2> QED
    BY <1>1, <2>1, <2>2, <2>3, <2>4, <2>5
<1>7. /\ \A i \in 1..m : Skip(k, i) \in 1..Len(q) /\ Skip(k, i) # k
      /\ \A i, j \in 1..m : i < j => Skip(k, i) < Skip(k, j)
      /\ \A j \in 1..Len(q) : j # k => Back(k, j) \in 1..m /\ Skip(k, Back(k, j)) = j
  <2>1. (k <= Len(q) /\ m = Len(q) - 1) \/ (k = Len(q) + 1 /\ m = Len(q))
    BY <1>6
  <2>2. m \in Nat
    BY <1>6
  <2>3. k \in Nat
    BY <1>6
  <2>4. Len(q) \in Nat
    BY <1>6
  <2>5. k >= 1
    BY <1>6
  <2>6. /\ \A i \in 1..m : Skip(k, i) \in 1..Len(q) /\ Skip(k, i) # k
        /\ \A i, j \in 1..m : i < j => Skip(k, i) < Skip(k, j)
    BY <2>1, <2>2, <2>3, <2>4, <2>5, Around, Zenon
  <2>7. \A j \in 1..Len(q) : j # k => Back(k, j) \in 1..m
    BY <2>1, <2>2, <2>3, <2>4, <2>5, AroundBack, Zenon
  <2>8. \A j \in 1..Len(q) : j # k => Skip(k, Back(k, j)) = j
    BY <2>1, <2>2, <2>3, <2>4, <2>5, AroundBack, Zenon
  <2> QED
    BY <2>6, <2>7, <2>8
<1>8. \A i \in 1..m : r[i] = q[Skip(k, i)]
  BY <1>3, <1>5, <1>7 DEF m
<1>9. \A j \in 1..Len(q) : q[j].stream # x.stream => Back(k, j) \in 1..m /\ Skip(k, Back(k, j)) = j
  BY <1>4, <1>7
<1>11. OnePerStream(r)
  <2> SUFFICES ASSUME NEW i \in 1..(m + 1), NEW j \in 1..(m + 1), r[i].stream = r[j].stream
               PROVE  i = j
    BY <1>5, <1>6 DEF OnePerStream
  <2>1. CASE i \in 1..m /\ j \in 1..m
    <3>0. Skip(k, i) \in DOMAIN q /\ Skip(k, j) \in DOMAIN q
      BY <1>1, <1>7, <2>1
    <3>1. Skip(k, i) = Skip(k, j)
      BY <1>8, <2>1, <3>0 DEF OnePerStream
    <3>2. ~(Skip(k, i) < Skip(k, j)) /\ ~(Skip(k, j) < Skip(k, i))
      <4>1. Skip(k, i) \in 1..Len(q) /\ Skip(k, j) \in 1..Len(q)
        BY <1>7, <2>1
      <4> QED
        BY <1>6, <3>1, <4>1
    <3>3. ~(i < j) /\ ~(j < i)
      BY <1>7, <2>1, <3>2
    <3> QED
      BY <1>6, <3>3
  <2>2. ASSUME NEW l \in 1..m PROVE r[l].stream # x.stream
    BY <1>4, <1>7, <1>8
  <2>3. r[m + 1] = x
    BY <1>5 DEF m
  <2> QED
    BY <1>6, <2>1, <2>2, <2>3
<1>12. r[Len(r)] = x /\ Len(r) \in 1..(Len(q) + 1)
  BY <1>5, <1>6 DEF m
<1> QED
  BY <1>5, <1>6, <1>7, <1>8, <1>9, <1>11, <1>12 DEF r, w, k

\* The last elements of a sequence.
LEMMA LastParts ==
  ASSUME NEW S, NEW q \in Seq(S), NEW n \in Nat \ {0}, Len(q) >= 1
  PROVE  LET r == LastOf(q, n) IN
         \E d \in 0..(Len(q) - 1) :
           /\ r \in Seq(S) /\ Len(r) = Len(q) - d /\ Len(r) <= n
           /\ \A i \in 1..Len(r) : i + d \in 1..Len(q) /\ r[i] = q[i + d]
           /\ d = 0 \/ d = Len(q) - n
<1>1. Len(q) \in Nat
  OBVIOUS
<1>2. CASE Len(q) <= n
  <2>1. LastOf(q, n) = q
    BY <1>2 DEF LastOf
  <2>2. 0 \in 0..(Len(q) - 1) /\ Len(q) = Len(q) - 0 /\ \A i \in 1..Len(q) : i + 0 = i
    BY <1>1
  <2> QED
    BY <1>2, <2>1, <2>2
<1>3. CASE ~(Len(q) <= n)
  <2> DEFINE d == Len(q) - n
  <2>1. d \in 0..(Len(q) - 1) /\ d \in 0..Len(q) /\ Len(q) - d <= n
    BY <1>1, <1>3
  <2>2. LastOf(q, n) = SubSeq(q, d + 1, Len(q))
    BY <1>3 DEF LastOf
  <2>3. d = Len(q) - n
    OBVIOUS
  <2> HIDE DEF d
  <2>4. /\ LastOf(q, n) \in Seq(S) /\ Len(LastOf(q, n)) = Len(q) - d
        /\ \A i \in 1..Len(LastOf(q, n)) : i + d \in 1..Len(q) /\ LastOf(q, n)[i] = q[i + d]
    BY <2>1, <2>2, SuffixParts
  <2> QED
    BY <2>1, <2>3, <2>4
<1> QED
  BY <1>2, <1>3

\* What a stream is bound to is used last; another binding keeps its place in
\* the order, or it goes when the limit is reached and it was used least.
LEMMA BoundParts ==
  ASSUME bindings \in Seq(Binding), OnePerStream(bindings), Len(bindings) <= MaxBindings,
         NEW s \in Streams, NEW snapshot \in Snapshot, bindings' = Bound(s, snapshot)
  PROVE  LET r == bindings' IN
         /\ r \in Seq(Binding) /\ Len(r) \in 1..MaxBindings /\ OnePerStream(r)
         /\ r[Len(r)] = [stream |-> s, generation |-> snapshot.generation,
                         background |-> snapshot.background]
         /\ \A p \in DOMAIN bindings : bindings[p].stream # s =>
              \/ \E i \in 1..(Len(r) - 1) :
                   /\ r[i] = bindings[p]
                   /\ \A j \in 1..(Len(r) - 1) : j > i =>
                        \E l \in DOMAIN bindings : l > p /\ r[j] = bindings[l]
              \/ /\ Len(r) = MaxBindings
                 /\ \A j \in 1..(Len(r) - 1) :
                      \E l \in DOMAIN bindings : l > p /\ r[j] = bindings[l]
<1> DEFINE x == [stream |-> s, generation |-> snapshot.generation,
                 background |-> snapshot.background]
           e == Append(Without(bindings, BoundAt(s)), x)
           n == Len(bindings)
<1>1. x \in Binding /\ x.stream = s
  BY DEF Snapshot, Binding
<1>2. Bound(s, snapshot) = LastOf(e, MaxBindings)
  BY DEF Bound
<1>3. BoundAt(s) = {k \in DOMAIN bindings : bindings[k].stream = x.stream}
  BY DEF BoundAt
<1>4. n \in Nat /\ DOMAIN bindings = 1..n /\ MaxBindings \in Nat \ {0} /\ n <= MaxBindings
  BY AppearanceAssumption
<1> HIDE DEF x
<1>0. /\ BoundAt(s) \in SUBSET (1..n)
      /\ \A i \in 1..n : i \in BoundAt(s) <=> bindings[i].stream = x.stream
  BY <1>3, <1>4
<1>5. /\ e \in Seq(Binding) /\ Len(e) \in 1..(n + 1) /\ e[Len(e)] = x /\ OnePerStream(e)
  BY <1>0, <1>1, ReplacedParts
<1> DEFINE k == Gone(bindings, BoundAt(s))
<1>6. /\ \A i \in 1..(Len(e) - 1) : Skip(k, i) \in 1..n /\ e[i] = bindings[Skip(k, i)]
      /\ \A i, j \in 1..(Len(e) - 1) : i < j => Skip(k, i) < Skip(k, j)
      /\ \A j \in 1..n : bindings[j].stream # s =>
           Back(k, j) \in 1..(Len(e) - 1) /\ Skip(k, Back(k, j)) = j
  BY <1>0, <1>1, ReplacedParts
<1> HIDE DEF e, k
<1> DEFINE r == LastOf(e, MaxBindings)
<1>15. Len(e) >= 1
  BY <1>4, <1>5
<1>7. PICK d \in 0..(Len(e) - 1) :
        /\ r \in Seq(Binding) /\ Len(r) = Len(e) - d /\ Len(r) <= MaxBindings
        /\ \A i \in 1..Len(r) : i + d \in 1..Len(e) /\ r[i] = e[i + d]
        /\ d = 0 \/ d = Len(e) - MaxBindings
  BY <1>4, <1>5, <1>15, LastParts
<1> HIDE DEF r
<1>8. /\ Len(e) \in Nat /\ d \in Nat /\ Len(r) \in 1..MaxBindings /\ d <= 1
      /\ Len(r) + d = Len(e) /\ (d = 1 => Len(r) = MaxBindings)
      /\ \A i \in 1..(Len(r) - 1) : i + d \in 1..(Len(e) - 1) /\ i \in 1..Len(r)
  BY <1>4, <1>5, <1>7
<1>9. r[Len(r)] = x
  BY <1>5, <1>7, <1>8
<1>10. OnePerStream(r)
  <2>0. DOMAIN r = 1..Len(r)
    BY <1>7
  <2> SUFFICES ASSUME NEW i \in 1..Len(r), NEW j \in 1..Len(r), r[i].stream = r[j].stream
               PROVE  i = j
    BY <2>0 DEF OnePerStream
  <2>1. i + d \in DOMAIN e /\ j + d \in DOMAIN e
    BY <1>5, <1>7
  <2>2. i + d = j + d
    BY <1>5, <1>7, <2>1 DEF OnePerStream
  <2> QED
    BY <1>8, <2>2
<1>11. ASSUME NEW p \in DOMAIN bindings, bindings[p].stream # s
       PROVE  \/ \E i \in 1..(Len(r) - 1) :
                   /\ r[i] = bindings[p]
                   /\ \A j \in 1..(Len(r) - 1) : j > i =>
                        \E l \in DOMAIN bindings : l > p /\ r[j] = bindings[l]
              \/ /\ Len(r) = MaxBindings
                 /\ \A j \in 1..(Len(r) - 1) :
                      \E l \in DOMAIN bindings : l > p /\ r[j] = bindings[l]
  <2>1. PICK i \in 1..(Len(e) - 1) : Skip(k, i) = p
    BY <1>4, <1>6, <1>11
  <2>2. ASSUME NEW j \in 1..(Len(r) - 1), j + d > i
        PROVE  \E l \in DOMAIN bindings : l > p /\ r[j] = bindings[l]
    <3>1. j + d \in 1..(Len(e) - 1) /\ r[j] = e[j + d]
      BY <1>7, <1>8
    <3>2. /\ Skip(k, j + d) \in 1..n /\ e[j + d] = bindings[Skip(k, j + d)]
          /\ Skip(k, i) < Skip(k, j + d)
      BY <1>6, <1>8, <2>2, <3>1
    <3>3. Skip(k, j + d) > p
      BY <1>4, <2>1, <3>2
    <3> QED
      BY <1>4, <3>1, <3>2, <3>3
  <2>3. CASE i > d
    <3> DEFINE h == i - d
    <3>1. h \in 1..(Len(r) - 1) /\ h + d = i /\ h \in 1..Len(r)
      BY <1>8, <2>3
    <3>2. r[h] = bindings[p]
      BY <1>6, <1>7, <2>1, <3>1
    <3>3. \A j \in 1..(Len(r) - 1) : j > h => j + d > i
      BY <1>8, <3>1
    <3> HIDE DEF h
    <3> QED
      BY <2>2, <3>1, <3>2, <3>3
  <2>4. CASE ~(i > d)
    <3>1. d = 1 /\ Len(r) = MaxBindings /\ \A j \in 1..(Len(r) - 1) : j + d > i
      BY <1>8, <2>4
    <3> QED
      BY <2>2, <3>1
  <2> QED
    BY <2>3, <2>4
<1>12. r = bindings'
  BY <1>2 DEF r
<1>13. \A p \in DOMAIN bindings : bindings[p].stream # s =>
              \/ \E i \in 1..(Len(r) - 1) :
                   /\ r[i] = bindings[p]
                   /\ \A j \in 1..(Len(r) - 1) : j > i =>
                        \E l \in DOMAIN bindings : l > p /\ r[j] = bindings[l]
              \/ /\ Len(r) = MaxBindings
                 /\ \A j \in 1..(Len(r) - 1) :
                      \E l \in DOMAIN bindings : l > p /\ r[j] = bindings[l]
  BY <1>11
<1>14. /\ r \in Seq(Binding) /\ Len(r) \in 1..MaxBindings /\ OnePerStream(r)
       /\ r[Len(r)] = [stream |-> s, generation |-> snapshot.generation,
                       background |-> snapshot.background]
  BY <1>7, <1>8, <1>9, <1>10 DEF x
<1> QED
  BY <1>12, <1>13, <1>14
-----------------------------------------------------------------------------
(* The bytes of the cache.                                                  *)

\* The bytes of an entry.
LEMMA BytesOfOne ==
  ASSUME NEW e \in Entry
  PROVE  IsFiniteSet(BytesOf(e)) /\ Cardinality(BytesOf(e)) = SizeOf[e.picture]
         /\ SizeOf[e.picture] \in Nat \ {0}
<1>1. SizeOf[e.picture] \in Nat \ {0}
  BY AppearanceAssumption DEF Entry
<1>2. IsFiniteSet({e.image}) /\ Cardinality({e.image}) = 1
  BY FS_Singleton
<1>3. IsFiniteSet(1..SizeOf[e.picture]) /\ Cardinality(1..SizeOf[e.picture]) = SizeOf[e.picture]
  <2>1. PICK b \in Int : b = SizeOf[e.picture]
    BY <1>1
  <2>2. IsFiniteSet(1..b) /\ Cardinality(1..b) = IF 1 > b THEN 0 ELSE b - 1 + 1
    BY FS_Interval
  <2>3. Cardinality(1..b) = b
    BY <1>1, <2>1, <2>2
  <2> QED
    BY <2>1, <2>2, <2>3
<1>4. /\ IsFiniteSet({e.image} \X (1..SizeOf[e.picture]))
      /\ Cardinality({e.image} \X (1..SizeOf[e.picture]))
           = Cardinality({e.image}) * Cardinality(1..SizeOf[e.picture])
  BY <1>2, <1>3, FS_Product
<1> QED
  BY <1>1, <1>2, <1>3, <1>4 DEF BytesOf

\* A finite set of entries has finitely many bytes.
LEMMA BytesFinite ==
  ASSUME NEW E, E \subseteq Entry, IsFiniteSet(E)
  PROVE  IsFiniteSet(UNION {BytesOf(e) : e \in E}) /\ Bytes(E) \in Nat
<1> DEFINE T == {BytesOf(e) : e \in E}  f == [e \in E |-> BytesOf(e)]
<1>1. f \in Surjection(E, T)
  BY DEF Surjection
<1>2. IsFiniteSet(T)
  BY <1>1, FS_Surjection
<1>3. \A t \in T : IsFiniteSet(t)
  BY BytesOfOne
<1>4. IsFiniteSet(UNION T)
  BY <1>2, <1>3, FS_UNION
<1> QED
  BY <1>4, FS_CardinalityType DEF Bytes

\* Entries of different images have their bytes apart.
LEMMA BytesAdd ==
  ASSUME NEW E, E \subseteq Entry, IsFiniteSet(E), NEW F, F \subseteq Entry, IsFiniteSet(F),
         \A e \in E, f \in F : e.image # f.image
  PROVE  Bytes(E \cup F) = Bytes(E) + Bytes(F)
<1> DEFINE H == UNION {BytesOf(e) : e \in E}  I == UNION {BytesOf(e) : e \in F}
<1>1. IsFiniteSet(H) /\ IsFiniteSet(I)
  BY BytesFinite
<1>2. H \cap I = {}
  <2> SUFFICES ASSUME NEW x \in H, x \in I PROVE FALSE
    OBVIOUS
  <2>1. PICK e \in E : x \in BytesOf(e)
    OBVIOUS
  <2>2. PICK f \in F : x \in BytesOf(f)
    OBVIOUS
  <2>3. x[1] = e.image /\ x[1] = f.image
    BY <2>1, <2>2 DEF BytesOf
  <2> QED
    BY <2>3
<1>3. UNION {BytesOf(e) : e \in E \cup F} = H \cup I
  OBVIOUS
<1>4. Cardinality(H \cup I) = Cardinality(H) + Cardinality(I) - Cardinality({})
  BY <1>1, <1>2, FS_Union
<1>5. Cardinality(H) \in Nat /\ Cardinality(I) \in Nat /\ Cardinality({}) = 0
  BY <1>1, FS_CardinalityType, FS_EmptySet
<1> QED
  <2>1. Bytes(E \cup F) = Cardinality(H \cup I)
    BY <1>3 DEF Bytes
  <2>2. Cardinality(H \cup I) = Cardinality(H) + Cardinality(I)
    BY <1>4, <1>5
  <2>3. Bytes(E) = Cardinality(H) /\ Bytes(F) = Cardinality(I)
    BY DEF Bytes
  <2> HIDE DEF H, I
  <2> QED
    BY <2>1, <2>2, <2>3

\* One entry.
LEMMA BytesSingle ==
  ASSUME NEW e \in Entry
  PROVE  Bytes({e}) = SizeOf[e.picture] /\ IsFiniteSet({e})
<1>1. UNION {BytesOf(f) : f \in {e}} = BytesOf(e)
  OBVIOUS
<1> QED
  BY <1>1, BytesOfOne, FS_Singleton DEF Bytes

\* The least number of a set.
LEMMA Smallest ==
  ASSUME NEW T \in SUBSET Nat, T # {}
  PROVE  \E x \in T : \A y \in T : x <= y
<1>1. PICK x \in T : \A y \in T : ~ (<<y, x>> \in OpToRel(<, Nat))
  BY NatLessThanWellFounded, WFMin
<1>2. \A y \in T : ~(y < x)
  BY <1>1 DEF OpToRel
<1> QED
  BY <1>2

\* What is kept fits, ends with the new entry, and is a part of what there was.
LEMMA KeptParts ==
  ASSUME NEW q \in Seq(Entry), Len(q) >= 1, SizeOf[q[Len(q)].picture] <= MaxCacheBytes
  PROVE  \E d \in 0..(Len(q) - 1) :
           /\ Kept(q) \in Seq(Entry) /\ Len(Kept(q)) = Len(q) - d /\ Fits(Kept(q))
           /\ \A i \in 1..Len(Kept(q)) : i + d \in 1..Len(q) /\ Kept(q)[i] = q[i + d]
<1> DEFINE ends == {n \in 1..Len(q) : Fits(SubSeq(q, n, Len(q)))}  l == Len(q)
<1>1. l \in Nat /\ l >= 1 /\ q[l] \in Entry
  OBVIOUS
<1>2. l \in ends
  <2> DEFINE r == SubSeq(q, (l - 1) + 1, l)
  <2>1. l - 1 \in 0..l /\ (l - 1) + 1 = l /\ l - (l - 1) = 1
    BY <1>1
  <2>2. r \in Seq(Entry) /\ Len(r) = 1 /\ \A i \in 1..1 : r[i] = q[i + (l - 1)]
    BY <2>1, SuffixParts
  <2> HIDE DEF r
  <2>3. r[1] = q[l]
    BY <1>1, <2>2
  <2>4. ToSet(r) = {q[l]}
    BY <2>2, <2>3 DEF ToSet
  <2>5. Bytes(ToSet(r)) <= MaxCacheBytes
    BY <1>1, <2>4, BytesSingle
  <2>6. Fits(r)
    BY <2>2, <2>5, AppearanceAssumption DEF Fits
  <2>7. r = SubSeq(q, l, Len(q))
    BY <2>1 DEF r
  <2> QED
    BY <1>1, <2>6, <2>7
<1>3. ends \in SUBSET Nat /\ ends # {}
  BY <1>1, <1>2
<1>4. \E n \in ends : \A m \in ends : n <= m
  BY <1>3, Smallest
<1> DEFINE n == CHOOSE n \in ends : \A m \in ends : n <= m
<1>5. n \in ends
  BY <1>4
<1>6. Kept(q) = SubSeq(q, n, Len(q))
  BY DEF Kept
<1>7. Fits(Kept(q)) /\ n \in 1..l
  BY <1>5, <1>6
<1> HIDE DEF n, ends
<1> DEFINE d == n - 1
<1>8. d \in 0..(l - 1) /\ d \in 0..l /\ d + 1 = n
  BY <1>1, <1>7
<1> HIDE DEF d
<1>9. /\ Kept(q) \in Seq(Entry) /\ Len(Kept(q)) = Len(q) - d
      /\ \A i \in 1..Len(Kept(q)) : i + d \in 1..Len(q) /\ Kept(q)[i] = q[i + d]
  <2>1. Kept(q) = SubSeq(q, d + 1, Len(q)) /\ d \in 0..Len(q)
    BY <1>6, <1>8
  <2> QED
    BY <2>1, SuffixParts
<1> QED
  BY <1>7, <1>8, <1>9

\* The step of Store that puts a new entry: what is left is within the limits,
\* one entry per stream and image, and what is gone is what was removed.
LEMMA StoredParts ==
  ASSUME cache \in Seq(Entry), OnePerStream(cache), OneImage(cache), NEW x \in Entry,
         \A i \in DOMAIN cache : cache[i].image # x.image,
         SizeOf[x.picture] <= MaxCacheBytes,
         cache' = Kept(Append(Without(cache, StreamAt(x.stream)), x))
  PROVE  /\ cache' \in Seq(Entry) /\ Fits(cache')
         /\ OnePerStream(cache') /\ OneImage(cache')
         /\ x \in ToSet(cache') /\ ToSet(cache') \subseteq ToSet(cache) \cup {x}
<1> DEFINE e == Append(Without(cache, StreamAt(x.stream)), x)  n == Len(cache)
           k == Gone(cache, StreamAt(x.stream))
<1>1. n \in Nat /\ DOMAIN cache = 1..n
  OBVIOUS
<1>2. /\ StreamAt(x.stream) \in SUBSET (1..n)
      /\ \A i \in 1..n : i \in StreamAt(x.stream) <=> cache[i].stream = x.stream
  BY <1>1 DEF StreamAt
<1>3. /\ e \in Seq(Entry) /\ Len(e) \in 1..(n + 1) /\ e[Len(e)] = x /\ OnePerStream(e)
  BY <1>2, ReplacedParts
<1>4. /\ \A i \in 1..(Len(e) - 1) : Skip(k, i) \in 1..n /\ e[i] = cache[Skip(k, i)]
      /\ \A i, j \in 1..(Len(e) - 1) : i < j => Skip(k, i) < Skip(k, j)
  BY <1>2, ReplacedParts
<1>5. cache' = Kept(e)
  OBVIOUS
<1> HIDE DEF e, k
<1>6. PICK d \in 0..(Len(e) - 1) :
        /\ Kept(e) \in Seq(Entry) /\ Len(Kept(e)) = Len(e) - d /\ Fits(Kept(e))
        /\ \A i \in 1..Len(Kept(e)) : i + d \in 1..Len(e) /\ Kept(e)[i] = e[i + d]
  <2>1. Len(e) >= 1 /\ SizeOf[e[Len(e)].picture] <= MaxCacheBytes
    BY <1>1, <1>3
  <2> QED
    BY <1>3, <2>1, KeptParts
<1>7. /\ cache' \in Seq(Entry) /\ Len(cache') = Len(e) - d /\ Fits(cache')
      /\ \A i \in 1..Len(cache') : i + d \in 1..Len(e) /\ cache'[i] = e[i + d]
      /\ DOMAIN cache' = 1..Len(cache')
  BY <1>5, <1>6
<1>8. Len(e) \in Nat /\ d \in Nat /\ Len(cache') \in Nat /\ Len(cache') >= 1 /\ DOMAIN e = 1..Len(e)
  BY <1>1, <1>3, <1>6, <1>7
<1>9. ASSUME NEW i \in 1..Len(e), i # Len(e)
      PROVE  /\ i \in 1..(Len(e) - 1) /\ Skip(k, i) \in DOMAIN cache
             /\ e[i] = cache[Skip(k, i)] /\ e[i].image # x.image
  <2>0. Len(e) \in Nat
    BY <1>8
  <2>1. i \in 1..(Len(e) - 1)
    BY <1>9, <2>0
  <2>2. Skip(k, i) \in DOMAIN cache /\ e[i] = cache[Skip(k, i)]
    BY <1>1, <1>4, <2>1
  <2> QED
    BY <2>1, <2>2
<1>10. \A i, j \in 1..Len(e) : e[i].image = e[j].image => i = j
  <2> SUFFICES ASSUME NEW i \in 1..Len(e), NEW j \in 1..Len(e), e[i].image = e[j].image
               PROVE  i = j
    OBVIOUS
  <2>1. CASE i = Len(e) \/ j = Len(e)
    BY <1>3, <1>9, <2>1
  <2>2. CASE i # Len(e) /\ j # Len(e)
    <3>1. Skip(k, i) = Skip(k, j)
      BY <1>9, <2>2 DEF OneImage
    <3>2. /\ i \in 1..(Len(e) - 1) /\ j \in 1..(Len(e) - 1)
          /\ Skip(k, i) \in 1..n /\ Skip(k, j) \in 1..n
      BY <1>1, <1>9, <2>2
    <3>3. ~(Skip(k, i) < Skip(k, j)) /\ ~(Skip(k, j) < Skip(k, i))
      BY <1>1, <3>1, <3>2
    <3>4. ~(i < j) /\ ~(j < i)
      BY <1>4, <3>2, <3>3
    <3> QED
      BY <1>8, <3>4
  <2> QED
    BY <2>1, <2>2
<1>11. OneImage(cache')
  <2> SUFFICES ASSUME NEW i \in DOMAIN cache', NEW j \in DOMAIN cache',
                      cache'[i].image = cache'[j].image
               PROVE  i = j
    BY DEF OneImage
  <2>0. i + d \in 1..Len(e) /\ j + d \in 1..Len(e) /\ e[i + d].image = e[j + d].image
    BY <1>7
  <2>1. i + d = j + d
    BY <1>10, <2>0
  <2> QED
    BY <1>7, <1>8, <2>1
<1>12. OnePerStream(cache')
  <2> SUFFICES ASSUME NEW i \in DOMAIN cache', NEW j \in DOMAIN cache',
                      cache'[i].stream = cache'[j].stream
               PROVE  i = j
    BY DEF OnePerStream
  <2>1. i + d \in DOMAIN e /\ j + d \in DOMAIN e /\ e[i + d].stream = e[j + d].stream
    BY <1>7, <1>8
  <2>2. i + d = j + d
    BY <1>3, <2>1 DEF OnePerStream
  <2> QED
    BY <1>7, <1>8, <2>2
<1>13. x \in ToSet(cache')
  <2>1. Len(cache') \in DOMAIN cache' /\ Len(cache') + d = Len(e)
    BY <1>7, <1>8
  <2>2. cache'[Len(cache')] = x
    BY <1>3, <1>7, <2>1
  <2> QED
    BY <2>1, <2>2 DEF ToSet
<1>14. ASSUME NEW i \in DOMAIN cache' PROVE cache'[i] \in ToSet(cache) \cup {x}
  <2>1. i + d \in 1..Len(e) /\ cache'[i] = e[i + d]
    BY <1>7
  <2>2. e[i + d] \in ToSet(cache) \cup {x}
    BY <1>3, <1>9, <2>1 DEF ToSet
  <2> QED
    BY <2>1, <2>2
<1> QED
  BY <1>7, <1>11, <1>12, <1>13, <1>14 DEF ToSet
-----------------------------------------------------------------------------
(* The parts of the inductive invariant.                                    *)

\* The cache, within its limits and with its images.
CacheHeld ==
  /\ cache \in Seq(Entry) /\ OnePerStream(cache) /\ OneImage(cache)
  /\ Len(cache) <= MaxCacheEntries /\ cacheBytes \in 0..MaxCacheBytes
  /\ \A i \in DOMAIN cache : heap[cache[i].image] = cache[i].picture
  /\ cacheBytes = Bytes(ToSet(cache))

\* The bindings, within their limit.
BindingsHeld ==
  bindings \in Seq(Binding) /\ OnePerStream(bindings) /\ Len(bindings) <= MaxBindings

\* The locals of Start and Prepare.
StartState == [step : {"idle", "bind", "cached", "fetch", "decoded", "prepared"},
               stream : Streams \cup {None}, snapshot : Snapshot \cup {None},
               image : 0..MaxImages]

\* The rest of the types.
OtherTypes ==
  /\ closed \in BOOLEAN /\ heap \in [Images -> Pictures \cup {None, "wiped"}]
  /\ scene \in [stream : Streams \cup {None}, asked : Pictures \cup {Default, None},
                shown : Pictures \cup {Default, None, "wiped"}]

\* What the properties remember of the bindings.
FenceTypes ==
  fence \in [Streams -> [generation : 0..MaxGeneration, background : Pictures \cup {Default, None},
                         others : SUBSET Streams]]

\* An image that holds a picture is cached or in hand.
NoneLost ==
  \A i \in Images : heap[i] \in Pictures =>
    \/ i \in ImagesOf(ToSet(cache))
    \/ \E a \in Starts : start[a].step = "decoded" /\ start[a].image = i

\* RuntimeInv by its parts.
LEMMA RuntimeParts ==
  RuntimeInv <=> /\ CacheHeld /\ BindingsHeld /\ start \in [Starts -> StartState]
                 /\ OtherTypes /\ FenceTypes /\ StartInv /\ HandInv /\ NoneLost /\ ShownIsAsked
BY DEF RuntimeInv, AppearanceInv, AppearanceTypeOK, ImagesAccounted, CacheHeld, BindingsHeld,
   StartState, OtherTypes, FenceTypes, NoneLost

\* ... and after a step.
LEMMA RuntimePartsNext ==
  ASSUME CacheHeld', BindingsHeld', (start \in [Starts -> StartState])',
         OtherTypes', FenceTypes', StartInv', HandInv', NoneLost', ShownIsAsked'
  PROVE  RuntimeInv'
BY DEF RuntimeInv, AppearanceInv, AppearanceTypeOK, ImagesAccounted, CacheHeld, BindingsHeld,
   StartState, OtherTypes, FenceTypes, NoneLost

\* No other Start is on its way.
LEMMA OthersIdle ==
  ASSUME StartInv, NEW a \in Starts, start[a].step # "idle", NEW b \in Starts, b # a
  PROVE  start[b].step = "idle"
BY DEF StartInv

\* A Start that ends leaves none on its way.
LEMMA Ended ==
  ASSUME start \in [Starts -> StartState], StartInv, NEW a \in Starts,
         start[a].step # "idle", Fail(a)
  PROVE  /\ (start \in [Starts -> StartState])' /\ StartInv' /\ HandInv'
         /\ \A b \in Starts : start'[b].step = "idle"
<1>1. Idle \in StartState /\ Idle.step = "idle"
  BY AppearanceAssumption DEF Idle, StartState
<1>2. start' = [start EXCEPT ![a] = Idle]
  BY DEF Fail
<1>3. \A b \in Starts : start'[b].step = "idle"
  BY <1>1, <1>2, OthersIdle
<1>4. (start \in [Starts -> StartState])'
  BY <1>1, <1>2
<1> QED
  BY <1>3, <1>4 DEF StartInv, HandInv

\* A Start that goes on.
LEMMA GoesOn ==
  ASSUME start \in [Starts -> StartState], StartInv, NEW a \in Starts,
         start[a].step # "idle", NEW i \in 0..MaxImages, scene' = scene,
         NEW step \in {"cached", "fetch", "decoded", "prepared"}, Goto(a, step, i),
         step # "prepared" => start[a].snapshot.background \in Pictures
  PROVE  /\ (start \in [Starts -> StartState])' /\ StartInv'
         /\ start'[a].step = step /\ start'[a].image = i
         /\ start'[a].snapshot = start[a].snapshot /\ start'[a].stream = start[a].stream
         /\ \A b \in Starts : b # a => start'[b] = start[b] /\ start'[b].step = "idle"
<1> DEFINE to == [start[a] EXCEPT !.step = step, !.image = i]
<1>1. start' = [start EXCEPT ![a] = to]
  BY DEF Goto
<1>2. start[a] \in StartState
  OBVIOUS
<1>3. /\ to \in StartState /\ to.step = step /\ to.image = i
      /\ to.snapshot = start[a].snapshot /\ to.stream = start[a].stream
  BY <1>2 DEF StartState
<1> HIDE DEF to
<1>4. start'[a] = to /\ \A b \in Starts : b # a => start'[b] = start[b]
  BY <1>1
<1>5. \A b \in Starts : b # a => start'[b].step = "idle"
  BY <1>4, OthersIdle
<1>6. (start \in [Starts -> StartState])'
  BY <1>1, <1>3
<1>7. scene = NoScene /\ start[a].stream \in Streams /\ start[a].snapshot \in Snapshot
  BY DEF StartInv
<1>8. NoScene' = NoScene
  BY DEF NoScene
<1>9. StartInv'
  <2>1. \A b, c \in Starts : start'[b].step # "idle" /\ start'[c].step # "idle" => b = c
    BY <1>5
  <2>2. \A b \in Starts : start'[b].step # "idle" =>
          scene' = NoScene /\ start'[b].stream \in Streams /\ start'[b].snapshot \in Snapshot
    BY <1>3, <1>4, <1>5, <1>7
  <2>3. \A b \in Starts : start'[b].step \in {"cached", "fetch", "decoded"} =>
          start'[b].snapshot.background \in Pictures
    BY <1>3, <1>4, <1>5
  <2> QED
    BY <2>1, <2>2, <2>3 DEF StartInv, NoScene, Snapshot
<1> QED
  BY <1>3, <1>4, <1>5, <1>6, <1>9
-----------------------------------------------------------------------------
(* The steps.                                                               *)

\* The entries keep what they hold.
LEMMA CacheStays ==
  ASSUME CacheHeld, UNCHANGED <<cache, cacheBytes>>,
         \A i \in DOMAIN cache : heap'[cache[i].image] = heap[cache[i].image]
  PROVE  CacheHeld'
<1>1. Bytes(ToSet(cache))' = Bytes(ToSet(cache))
  BY DEF Bytes, BytesOf, ToSet
<1> QED
  BY <1>1 DEF CacheHeld, OnePerStream, OneImage

\* The bindings and what is remembered of them.
LEMMA BindingsStay ==
  ASSUME BindingsHeld, FenceTypes, UNCHANGED <<bindings, fence>>
  PROVE  BindingsHeld' /\ FenceTypes'
BY DEF BindingsHeld, FenceTypes, OnePerStream

\* A Start that fails without an image in hand.
LEMMA FailStep ==
  ASSUME RuntimeInv, NEW a \in Starts, start[a].step \notin {"idle", "decoded"}, Fail(a),
         UNCHANGED <<closed, cache, cacheBytes, bindings, heap, scene, fence>>
  PROVE  RuntimeInv'
<1>1. /\ CacheHeld /\ BindingsHeld /\ start \in [Starts -> StartState] /\ OtherTypes
      /\ FenceTypes /\ StartInv /\ HandInv /\ NoneLost /\ ShownIsAsked
  BY RuntimeParts
<1>2. /\ (start \in [Starts -> StartState])' /\ StartInv' /\ HandInv'
      /\ \A b \in Starts : start'[b].step = "idle"
  BY <1>1, Ended
<1>3. CacheHeld' /\ BindingsHeld' /\ FenceTypes'
  BY <1>1, CacheStays, BindingsStay
<1>4. OtherTypes' /\ ShownIsAsked'
  BY <1>1 DEF OtherTypes, ShownIsAsked
<1>5. \A b \in Starts : start[b].step # "decoded"
  BY <1>1, OthersIdle
<1>6. NoneLost'
  BY <1>1, <1>5 DEF NoneLost, ImagesOf, ToSet
<1> QED
  BY <1>2, <1>3, <1>4, <1>6, RuntimePartsNext

\* Prepare begins.
LEMMA PrepareStep ==
  ASSUME RuntimeInv, NEW a \in Starts, NEW s \in Streams, NEW snapshot \in Snapshot,
         PrepareBegins(a, s, snapshot)
  PROVE  RuntimeInv'
<1>1. /\ CacheHeld /\ BindingsHeld /\ start \in [Starts -> StartState] /\ OtherTypes
      /\ FenceTypes /\ StartInv /\ HandInv /\ NoneLost /\ ShownIsAsked
  BY RuntimeParts
<1> DEFINE to == [step |-> "bind", stream |-> s, snapshot |-> snapshot, image |-> 0]
<1>2. /\ start' = [start EXCEPT ![a] = to] /\ scene = NoScene
      /\ \A b \in Starts : start[b].step = "idle"
      /\ UNCHANGED <<closed, cache, cacheBytes, bindings, heap, scene, fence>>
  BY DEF PrepareBegins, MayStart
<1>3. /\ to \in StartState /\ to.step = "bind" /\ to.stream = s /\ to.snapshot = snapshot
  BY AppearanceAssumption DEF StartState
<1> HIDE DEF to
<1>4. start'[a] = to /\ \A b \in Starts : b # a => start'[b].step = "idle"
  BY <1>1, <1>2
<1>5. (start \in [Starts -> StartState])'
  BY <1>1, <1>2, <1>3
<1>6. StartInv' /\ HandInv'
  BY <1>2, <1>3, <1>4 DEF StartInv, HandInv, NoScene, Snapshot
<1>7. CacheHeld' /\ BindingsHeld' /\ FenceTypes'
  BY <1>1, <1>2, CacheStays, BindingsStay
<1>8. OtherTypes' /\ ShownIsAsked'
  BY <1>1, <1>2 DEF OtherTypes, ShownIsAsked
<1>9. NoneLost'
  BY <1>1, <1>2 DEF NoneLost, ImagesOf, ToSet
<1> QED
  BY <1>5, <1>6, <1>7, <1>8, <1>9, RuntimePartsNext

\* The generation is bound.
LEMMA BindStep ==
  ASSUME RuntimeInv, NEW a \in Starts, BindGeneration(a)
  PROVE  RuntimeInv'
<1>1. /\ CacheHeld /\ BindingsHeld /\ start \in [Starts -> StartState] /\ OtherTypes
      /\ FenceTypes /\ StartInv /\ HandInv /\ NoneLost /\ ShownIsAsked
  BY RuntimeParts
<1> DEFINE s == start[a].stream  snapshot == start[a].snapshot
           step == IF snapshot.background = Default THEN "prepared" ELSE "cached"
<1>2. /\ start[a].step = "bind" /\ ~closed /\ bindings' = Bound(s, snapshot) /\ Goto(a, step, 0)
      /\ fence' = [t \in Streams |->
           IF t = s THEN [generation |-> snapshot.generation, background |-> snapshot.background,
                          others |-> {}]
           ELSE [fence[t] EXCEPT !.others = @ \cup {s}]]
      /\ UNCHANGED <<closed, cache, cacheBytes, heap, scene>>
  BY DEF BindGeneration
<1>3. s \in Streams /\ snapshot \in Snapshot
  BY <1>1, <1>2 DEF StartInv
<1>4. snapshot.background \in Pictures \cup {Default} /\ snapshot.generation \in 1..MaxGeneration
  BY <1>3 DEF Snapshot
<1>5. /\ step \in {"cached", "fetch", "decoded", "prepared"}
      /\ step # "prepared" => snapshot.background \in Pictures
      /\ step # "decoded" /\ (step = "prepared" => snapshot.background = Default)
  BY <1>4
<1> HIDE DEF step
<1>6. 0 \in 0..MaxImages
  BY AppearanceAssumption
<1>7. /\ (start \in [Starts -> StartState])' /\ StartInv'
      /\ start'[a].step = step /\ start'[a].snapshot = snapshot
      /\ \A b \in Starts : b # a => start'[b] = start[b] /\ start'[b].step = "idle"
  BY <1>1, <1>2, <1>5, <1>6, GoesOn
<1>8. CacheHeld'
  BY <1>1, <1>2, CacheStays
<1>9. BindingsHeld'
  <2>1. bindings \in Seq(Binding) /\ OnePerStream(bindings) /\ Len(bindings) <= MaxBindings
    BY <1>1 DEF BindingsHeld
  <2>2. bindings' = Bound(s, snapshot)
    BY <1>2
  <2> HIDE DEF s, snapshot
  <2>3. bindings' \in Seq(Binding) /\ Len(bindings') \in 1..MaxBindings /\ OnePerStream(bindings')
    BY <1>3, <2>1, <2>2, BoundParts
  <2>4. Len(bindings') <= MaxBindings
    BY <2>3, AppearanceAssumption
  <2> QED
    BY <2>3, <2>4 DEF BindingsHeld, OnePerStream
<1>10. FenceTypes'
  BY <1>1, <1>2, <1>3, <1>4 DEF FenceTypes
<1>11. OtherTypes' /\ ShownIsAsked'
  BY <1>1, <1>2 DEF OtherTypes, ShownIsAsked
<1>12. HandInv'
  BY <1>5, <1>7 DEF HandInv
<1>13. \A b \in Starts : start[b].step # "decoded"
  BY <1>1, <1>2, OthersIdle
<1>14. NoneLost'
  BY <1>1, <1>2, <1>13 DEF NoneLost, ImagesOf, ToSet
<1> QED
  BY <1>7, <1>8, <1>9, <1>10, <1>11, <1>12, <1>14, RuntimePartsNext

\* The picture is not cached.
LEMMA MissStep ==
  ASSUME RuntimeInv, NEW a \in Starts, CacheMiss(a)
  PROVE  RuntimeInv'
<1>1. /\ CacheHeld /\ BindingsHeld /\ start \in [Starts -> StartState] /\ OtherTypes
      /\ FenceTypes /\ StartInv /\ HandInv /\ NoneLost /\ ShownIsAsked
  BY RuntimeParts
<1>2. /\ start[a].step = "cached" /\ Goto(a, "fetch", 0)
      /\ UNCHANGED <<closed, cache, cacheBytes, bindings, heap, scene, fence>>
  BY DEF CacheMiss
<1>3. start[a].snapshot.background \in Pictures
  BY <1>1, <1>2 DEF StartInv
<1>4. 0 \in 0..MaxImages
  BY AppearanceAssumption
<1>5. /\ (start \in [Starts -> StartState])' /\ StartInv' /\ start'[a].step = "fetch"
      /\ \A b \in Starts : b # a => start'[b] = start[b] /\ start'[b].step = "idle"
  BY <1>1, <1>2, <1>3, <1>4, GoesOn
<1>6. CacheHeld' /\ BindingsHeld' /\ FenceTypes'
  BY <1>1, <1>2, CacheStays, BindingsStay
<1>7. OtherTypes' /\ ShownIsAsked'
  BY <1>1, <1>2 DEF OtherTypes, ShownIsAsked
<1>8. HandInv'
  BY <1>5 DEF HandInv
<1>9. \A b \in Starts : start[b].step # "decoded"
  BY <1>1, <1>2, OthersIdle
<1>10. NoneLost'
  BY <1>1, <1>2, <1>9 DEF NoneLost, ImagesOf, ToSet
<1> QED
  BY <1>5, <1>6, <1>7, <1>8, <1>10, RuntimePartsNext

\* The cache is rebuilt.
LEMMA CacheMade ==
  ASSUME cache' \in Seq(Entry), OnePerStream(cache'), OneImage(cache'),
         Len(cache') <= MaxCacheEntries, cacheBytes' \in 0..MaxCacheBytes,
         \A e \in ToSet(cache') : heap'[e.image] = e.picture,
         cacheBytes' = Bytes(ToSet(cache'))
  PROVE  CacheHeld'
<1>1. \A i \in DOMAIN cache' : cache'[i] \in ToSet(cache')
  BY DEF ToSet
<1>2. \A i \in DOMAIN cache' : heap'[cache'[i].image] = cache'[i].picture
  BY <1>1
<1> QED
  BY <1>2 DEF CacheHeld, OnePerStream, OneImage, Bytes, BytesOf, ToSet

\* What the cache holds, by its entries.
LEMMA HeldEntries ==
  ASSUME CacheHeld
  PROVE  /\ ToSet(cache) \subseteq Entry /\ IsFiniteSet(ToSet(cache))
         /\ \A e \in ToSet(cache) : /\ e.image \in Images /\ e.picture \in Pictures
                                   /\ heap[e.image] = e.picture
                                   /\ e.image \in ImagesOf(ToSet(cache))
         /\ \A e, f \in ToSet(cache) : e.image = f.image => e = f
<1>1. ToSet(cache) \subseteq Entry /\ IsFiniteSet(ToSet(cache))
  BY RangeFinite DEF CacheHeld
<1>2. \A e \in ToSet(cache) : \E i \in DOMAIN cache : e = cache[i]
  BY DEF ToSet
<1>3. \A e \in ToSet(cache) : heap[e.image] = e.picture
  BY <1>2 DEF CacheHeld
<1>4. \A e, f \in ToSet(cache) : e.image = f.image => e = f
  BY <1>2 DEF CacheHeld, OneImage
<1> QED
  BY <1>1, <1>3, <1>4 DEF Entry, ImagesOf

\* An image that is in hand no more is zeroed; nothing else is touched.
LEMMA Discarded ==
  ASSUME CacheHeld, OtherTypes, StartInv, HandInv, NoneLost,
         NEW a \in Starts, start[a].step = "decoded", heap' = Discard(a)
  PROVE  /\ heap' \in [Images -> Pictures \cup {None, "wiped"}]
         /\ \A i \in ImagesOf(ToSet(cache)) : heap'[i] = heap[i]
         /\ \A i \in Images : heap'[i] \in Pictures => i \in ImagesOf(ToSet(cache))
<1>1. heap' = [i \in Images |-> IF i = start[a].image THEN "wiped" ELSE heap[i]]
  BY DEF Discard, Wiped
<1>2. start[a].image \notin ImagesOf(ToSet(cache)) /\ ImagesOf(ToSet(cache)) \subseteq Images
  BY HeldEntries DEF HandInv, ImagesOf
<1>3. "wiped" \notin Pictures
  BY AppearanceAssumption
<1>4. ASSUME NEW i \in Images, i # start[a].image, heap[i] \in Pictures
      PROVE  i \in ImagesOf(ToSet(cache))
  BY <1>4, OthersIdle DEF NoneLost
<1> QED
  BY <1>1, <1>2, <1>3, <1>4 DEF OtherTypes

\* Before there is an image in hand there is nothing to zero.
LEMMA NothingInHand ==
  ASSUME CacheHeld, StartInv, NoneLost,
         NEW a \in Starts, start[a].step \notin {"idle", "decoded"}
  PROVE  \A i \in Images : heap[i] \in Pictures => i \in ImagesOf(ToSet(cache))
<1>1. \A b \in Starts : start[b].step # "decoded"
  BY OthersIdle
<1> QED
  BY <1>1 DEF NoneLost

\* An entry of the cache is given and used last.
LEMMA UsedStep ==
  ASSUME RuntimeInv, NEW a \in Starts, start[a].step # "idle", NEW k \in EntryAt(a),
         SameIdentity(cache[k], a), cache' = Used(k), Goto(a, "prepared", cache[k].image),
         UNCHANGED <<closed, cacheBytes, bindings, scene, fence>>,
         heap' \in [Images -> Pictures \cup {None, "wiped"}],
         \A i \in ImagesOf(ToSet(cache)) : heap'[i] = heap[i],
         \A i \in Images : heap'[i] \in Pictures => i \in ImagesOf(ToSet(cache))
  PROVE  RuntimeInv'
<1>1. /\ CacheHeld /\ BindingsHeld /\ start \in [Starts -> StartState] /\ OtherTypes
      /\ FenceTypes /\ StartInv /\ HandInv /\ NoneLost /\ ShownIsAsked
  BY RuntimeParts
<1>2. k \in DOMAIN cache /\ cache[k] \in ToSet(cache)
  BY DEF EntryAt, ToSet
<1>3. /\ cache[k].image \in Images /\ cache[k].image \in ImagesOf(ToSet(cache))
      /\ heap[cache[k].image] = cache[k].picture
  BY <1>1, <1>2, HeldEntries
<1>4. heap'[cache[k].image] = start[a].snapshot.background
  BY <1>3 DEF SameIdentity
<1>5. cache[k].image \in 0..MaxImages
  BY <1>3, AppearanceAssumption DEF Images
<1>6. /\ (start \in [Starts -> StartState])' /\ StartInv' /\ start'[a].step = "prepared"
      /\ start'[a].image = cache[k].image /\ start'[a].snapshot = start[a].snapshot
      /\ \A b \in Starts : b # a => start'[b] = start[b] /\ start'[b].step = "idle"
  BY <1>1, <1>5, GoesOn
<1>7. /\ cache' \in Seq(Entry) /\ Len(cache') = Len(cache) /\ ToSet(cache') = ToSet(cache)
      /\ OnePerStream(cache') /\ OneImage(cache')
  BY <1>1, <1>2, UsedParts DEF CacheHeld
<1>8. CacheHeld'
  <2>1. \A e \in ToSet(cache') : heap'[e.image] = e.picture
    BY <1>1, <1>7, HeldEntries
  <2>2. /\ cacheBytes' = Bytes(ToSet(cache')) /\ Len(cache') <= MaxCacheEntries
        /\ cacheBytes' \in 0..MaxCacheBytes
    BY <1>1, <1>7 DEF CacheHeld
  <2> QED
    BY <1>7, <2>1, <2>2, CacheMade
<1>9. BindingsHeld' /\ FenceTypes'
  BY <1>1, BindingsStay
<1>10. OtherTypes' /\ ShownIsAsked'
  BY <1>1 DEF OtherTypes, ShownIsAsked
<1>11. HandInv'
  BY <1>3, <1>4, <1>6 DEF HandInv, Images
<1>12. NoneLost'
  <2>1. ImagesOf(ToSet(cache))' = ImagesOf(ToSet(cache))
    BY <1>7 DEF ImagesOf, ToSet
  <2> QED
    BY <2>1 DEF NoneLost, Images
<1> QED
  BY <1>6, <1>8, <1>9, <1>10, <1>11, <1>12, RuntimePartsNext

\* The picture is cached.
LEMMA HitStep ==
  ASSUME RuntimeInv, NEW a \in Starts, CacheHit(a)
  PROVE  RuntimeInv'
<1>1. CacheHeld /\ OtherTypes /\ StartInv /\ NoneLost
  BY RuntimeParts
<1>2. PICK k \in EntryAt(a) :
        /\ start[a].step = "cached" /\ SameIdentity(cache[k], a) /\ cache' = Used(k)
        /\ Goto(a, "prepared", cache[k].image)
        /\ UNCHANGED <<closed, cacheBytes, bindings, heap, scene, fence>>
  BY DEF CacheHit
<1>3. \A i \in Images : heap'[i] \in Pictures => i \in ImagesOf(ToSet(cache))
  BY <1>1, <1>2, NothingInHand
<1>4. heap' \in [Images -> Pictures \cup {None, "wiped"}]
  BY <1>1, <1>2 DEF OtherTypes
<1> QED
  BY <1>2, <1>3, <1>4, UsedStep

\* The picture is fetched into an image that was free.
LEMMA FetchedStep ==
  ASSUME RuntimeInv, NEW a \in Starts, NEW picture \in Pictures, Fetched(a, picture)
  PROVE  RuntimeInv'
<1>1. /\ CacheHeld /\ BindingsHeld /\ start \in [Starts -> StartState] /\ OtherTypes
      /\ FenceTypes /\ StartInv /\ HandInv /\ NoneLost /\ ShownIsAsked
  BY RuntimeParts
<1>2. PICK i \in Images :
        /\ start[a].step = "fetch" /\ picture = start[a].snapshot.background
        /\ heap[i] = None /\ heap' = [heap EXCEPT ![i] = picture] /\ Goto(a, "decoded", i)
        /\ UNCHANGED <<closed, cache, cacheBytes, bindings, scene, fence>>
  BY DEF Fetched, FreeImages, Verified
<1>3. i \in 0..MaxImages
  BY AppearanceAssumption DEF Images
<1>4. start[a].snapshot.background \in Pictures
  BY <1>2
<1>5. /\ (start \in [Starts -> StartState])' /\ StartInv' /\ start'[a].step = "decoded"
      /\ start'[a].image = i /\ start'[a].snapshot = start[a].snapshot
      /\ \A b \in Starts : b # a => start'[b] = start[b] /\ start'[b].step = "idle"
  BY <1>1, <1>2, <1>3, <1>4, GoesOn
<1>6. heap' \in [Images -> Pictures \cup {None, "wiped"}] /\ heap'[i] = picture
      /\ \A j \in Images : j # i => heap'[j] = heap[j]
  BY <1>1, <1>2 DEF OtherTypes
<1>7. i \notin ImagesOf(ToSet(cache))
  <2>1. \A e \in ToSet(cache) : heap[e.image] \in Pictures
    BY <1>1, HeldEntries
  <2> QED
    BY <1>2, <2>1, AppearanceAssumption DEF ImagesOf
<1>8. CacheHeld'
  <2>1. \A k \in DOMAIN cache : cache[k] \in ToSet(cache)
    BY DEF ToSet
  <2>2. \A k \in DOMAIN cache : cache[k].image \in Images /\ cache[k].image # i
    BY <1>1, <1>7, <2>1, HeldEntries
  <2>3. \A k \in DOMAIN cache : heap'[cache[k].image] = heap[cache[k].image]
    BY <1>6, <2>2
  <2> QED
    BY <1>1, <1>2, <2>3, CacheStays
<1>9. BindingsHeld' /\ FenceTypes'
  BY <1>1, <1>2, BindingsStay
<1>10. OtherTypes' /\ ShownIsAsked'
  BY <1>1, <1>2, <1>6 DEF OtherTypes, ShownIsAsked
<1>11. ImagesOf(ToSet(cache))' = ImagesOf(ToSet(cache))
  BY <1>2 DEF ImagesOf, ToSet
<1>12. HandInv'
  BY <1>2, <1>5, <1>6, <1>7, <1>11 DEF HandInv, Images
<1>13. NoneLost'
  <2>1. \A j \in Images : heap[j] \in Pictures => j \in ImagesOf(ToSet(cache))
    BY <1>1, <1>2, NothingInHand
  <2> QED
    BY <1>5, <1>6, <1>11, <2>1 DEF NoneLost, Images
<1> QED
  BY <1>5, <1>8, <1>9, <1>10, <1>12, <1>13, RuntimePartsNext

\* The image is not stored: it is zeroed.
LEMMA RefusedStep ==
  ASSUME RuntimeInv, NEW a \in Starts, StoreRefused(a)
  PROVE  RuntimeInv'
<1>1. /\ CacheHeld /\ BindingsHeld /\ start \in [Starts -> StartState] /\ OtherTypes
      /\ FenceTypes /\ StartInv /\ HandInv /\ NoneLost /\ ShownIsAsked
  BY RuntimeParts
<1>2. /\ start[a].step = "decoded" /\ heap' = Discard(a) /\ Fail(a)
      /\ UNCHANGED <<closed, cache, cacheBytes, bindings, scene, fence>>
  BY DEF StoreRefused
<1>3. /\ heap' \in [Images -> Pictures \cup {None, "wiped"}]
      /\ \A i \in ImagesOf(ToSet(cache)) : heap'[i] = heap[i]
      /\ \A i \in Images : heap'[i] \in Pictures => i \in ImagesOf(ToSet(cache))
  BY <1>1, <1>2, Discarded
<1>4. (start \in [Starts -> StartState])' /\ StartInv' /\ HandInv'
  BY <1>1, <1>2, Ended
<1>5. CacheHeld'
  <2>1. \A k \in DOMAIN cache : cache[k].image \in ImagesOf(ToSet(cache))
    BY DEF ToSet, ImagesOf
  <2>2. \A k \in DOMAIN cache : heap'[cache[k].image] = heap[cache[k].image]
    BY <1>3, <2>1
  <2> QED
    BY <1>1, <1>2, <2>2, CacheStays
<1>6. BindingsHeld' /\ FenceTypes'
  BY <1>1, <1>2, BindingsStay
<1>7. OtherTypes' /\ ShownIsAsked'
  BY <1>1, <1>2, <1>3 DEF OtherTypes, ShownIsAsked
<1>8. NoneLost'
  <2>1. ImagesOf(ToSet(cache))' = ImagesOf(ToSet(cache))
    BY <1>2 DEF ImagesOf, ToSet
  <2> QED
    BY <1>3, <2>1 DEF NoneLost, Images
<1> QED
  BY <1>4, <1>5, <1>6, <1>7, <1>8, RuntimePartsNext

\* The new entry is stored.
LEMMA NewStep ==
  ASSUME RuntimeInv, NEW a \in Starts, Store(a), EntryAt(a) = {}
  PROVE  RuntimeInv'
<1>1. /\ CacheHeld /\ BindingsHeld /\ start \in [Starts -> StartState] /\ OtherTypes
      /\ FenceTypes /\ StartInv /\ HandInv /\ NoneLost /\ ShownIsAsked
  BY RuntimeParts
<1> DEFINE new == [stream |-> start[a].stream, generation |-> start[a].snapshot.generation,
                   picture |-> start[a].snapshot.background, image |-> start[a].image]
           kept == Kept(Append(Without(cache, StreamAt(new.stream)), new))
           removed == ToSet(cache) \ ToSet(kept)
<1>2. /\ start[a].step = "decoded" /\ ~TooLarge(a) /\ cache' = kept
      /\ cacheBytes' = BytesWithout(cacheBytes + SizeOf[new.picture], Bytes(removed))
      /\ heap' = Wiped(ImagesOf(removed)) /\ Goto(a, "prepared", new.image)
      /\ UNCHANGED <<closed, bindings, scene, fence>>
  BY DEF Store
<1>3. /\ start[a].stream \in Streams /\ start[a].snapshot \in Snapshot
      /\ start[a].snapshot.background \in Pictures /\ start[a].image \in Images
      /\ start[a].image \notin ImagesOf(ToSet(cache))
      /\ heap[start[a].image] = start[a].snapshot.background
  BY <1>1, <1>2 DEF StartInv, HandInv
<1>4. /\ new \in Entry /\ new.image = start[a].image
      /\ new.picture = start[a].snapshot.background
  BY <1>3 DEF Entry, Snapshot
<1>5. SizeOf[new.picture] <= MaxCacheBytes
  <2>1. SizeOf[new.picture] \in Nat /\ ~(SizeOf[new.picture] > MaxCacheBytes)
    BY <1>2, <1>3, <1>4, AppearanceAssumption DEF TooLarge
  <2> QED
    BY <2>1, AppearanceAssumption
<1> HIDE DEF new
<1>6. \A i \in DOMAIN cache : cache[i].image # new.image
  BY <1>3, <1>4 DEF ToSet, ImagesOf
<1>7. /\ cache' \in Seq(Entry) /\ Fits(cache')
      /\ OnePerStream(cache') /\ OneImage(cache')
      /\ new \in ToSet(cache') /\ ToSet(cache') \subseteq ToSet(cache) \cup {new}
  BY <1>1, <1>2, <1>4, <1>5, <1>6, StoredParts DEF CacheHeld
<1>8. removed = ToSet(cache) \ ToSet(cache')
  BY <1>2
<1> HIDE DEF kept, removed
<1>9. /\ ToSet(cache) \subseteq Entry /\ IsFiniteSet(ToSet(cache))
      /\ \A e \in ToSet(cache) : /\ e.image \in Images /\ heap[e.image] = e.picture
                                /\ e.picture \in Pictures
                                /\ e.image \in ImagesOf(ToSet(cache)) /\ e.image # new.image
      /\ \A e, f \in ToSet(cache) : e.image = f.image => e = f
  BY <1>1, <1>3, <1>4, HeldEntries
<1>10. /\ heap' = [i \in Images |-> IF i \in ImagesOf(removed) THEN "wiped" ELSE heap[i]]
       /\ heap' \in [Images -> Pictures \cup {None, "wiped"}]
  BY <1>1, <1>2 DEF Wiped, OtherTypes
<1>11. \A e \in ToSet(cache') : e.image \in Images /\ e.image \notin ImagesOf(removed)
  <2>1. ASSUME NEW e \in ToSet(cache'), NEW f \in removed PROVE e.image # f.image
    BY <1>7, <1>8, <1>9
  <2> QED
    BY <1>3, <1>4, <1>7, <1>9, <2>1 DEF ImagesOf
<1>12. \A e \in ToSet(cache') : heap'[e.image] = e.picture
  BY <1>3, <1>4, <1>7, <1>9, <1>10, <1>11
<1>13. cacheBytes' = Bytes(ToSet(cache')) /\ Len(cache') <= MaxCacheEntries
       /\ cacheBytes' \in 0..MaxCacheBytes
  <2>1. /\ removed \subseteq Entry /\ IsFiniteSet(removed)
        /\ ToSet(cache') \subseteq Entry /\ IsFiniteSet(ToSet(cache'))
    BY <1>7, <1>8, <1>9, RangeFinite, FS_Subset
  <2>2. \A e \in removed, f \in ToSet(cache') : e.image # f.image
    BY <1>7, <1>8, <1>9
  <2>3. Bytes(removed \cup ToSet(cache')) = Bytes(removed) + Bytes(ToSet(cache'))
    BY <2>1, <2>2, BytesAdd
  <2>4. removed \cup ToSet(cache') = ToSet(cache) \cup {new}
    BY <1>7, <1>8
  <2>5. Bytes(ToSet(cache) \cup {new}) = Bytes(ToSet(cache)) + Bytes({new})
    <3>1. {new} \subseteq Entry /\ \A e \in ToSet(cache), f \in {new} : e.image # f.image
      BY <1>4, <1>9
    <3> QED
      BY <1>4, <1>9, <3>1, BytesSingle, BytesAdd
  <2>6. Bytes(ToSet(cache)) = cacheBytes /\ Bytes({new}) = SizeOf[new.picture]
    BY <1>1, <1>4, BytesSingle DEF CacheHeld
  <2>7. Bytes(removed) \in Nat /\ Bytes(ToSet(cache')) \in Nat
    BY <2>1, BytesFinite
  <2>8. cacheBytes + SizeOf[new.picture] = Bytes(removed) + Bytes(ToSet(cache'))
    BY <2>3, <2>4, <2>5, <2>6
  <2>9. cacheBytes' = Bytes(ToSet(cache'))
    BY <1>2, <2>7, <2>8 DEF BytesWithout
  <2>10. Bytes(ToSet(cache')) <= MaxCacheBytes /\ Len(cache') <= MaxCacheEntries
    BY <1>7 DEF Fits
  <2> QED
    BY <2>7, <2>9, <2>10, AppearanceAssumption
<1>14. CacheHeld'
  BY <1>7, <1>12, <1>13, CacheMade
<1>15. new.image \in 0..MaxImages
  BY <1>3, <1>4, AppearanceAssumption DEF Images
<1>16. /\ (start \in [Starts -> StartState])' /\ StartInv' /\ start'[a].step = "prepared"
       /\ start'[a].image = new.image /\ start'[a].snapshot = start[a].snapshot
       /\ \A b \in Starts : b # a => start'[b] = start[b] /\ start'[b].step = "idle"
  BY <1>1, <1>2, <1>15, GoesOn
<1>17. BindingsHeld' /\ FenceTypes'
  BY <1>1, <1>2, BindingsStay
<1>18. OtherTypes' /\ ShownIsAsked'
  BY <1>1, <1>2, <1>10 DEF OtherTypes, ShownIsAsked
<1>19. HandInv'
  BY <1>3, <1>4, <1>7, <1>12, <1>16 DEF HandInv, Images
<1>20. NoneLost'
  <2>1. ASSUME NEW i \in Images, heap'[i] \in Pictures
        PROVE  \E e \in ToSet(cache') : e.image = i
    <3>1. i \notin ImagesOf(removed) /\ heap'[i] = heap[i]
      BY <1>10, <2>1, AppearanceAssumption
    <3>2. CASE i = new.image
      BY <1>7, <3>2
    <3>3. CASE i # new.image
      <4>1. i \in ImagesOf(ToSet(cache))
        BY <1>1, <1>2, <1>4, <2>1, <3>1, <3>3, OthersIdle DEF NoneLost
      <4>2. PICK e \in ToSet(cache) : e.image = i
        BY <4>1 DEF ImagesOf
      <4>3. e \notin removed
        BY <3>1, <4>2 DEF ImagesOf
      <4> QED
        BY <1>8, <4>2, <4>3
    <3> QED
      BY <3>2, <3>3
  <2>2. \A i \in Images : heap'[i] \in Pictures => i \in ImagesOf(ToSet(cache'))
    BY <2>1 DEF ImagesOf
  <2> QED
    BY <2>2 DEF NoneLost, Images, ImagesOf, ToSet
<1> QED
  BY <1>14, <1>16, <1>17, <1>18, <1>19, <1>20, RuntimePartsNext

\* The image is stored, or the entry that came meanwhile is given.
LEMMA StoreStep ==
  ASSUME RuntimeInv, NEW a \in Starts, Store(a)
  PROVE  RuntimeInv'
<1>1. CASE EntryAt(a) = {}
  BY <1>1, NewStep
<1>2. CASE EntryAt(a) # {}
  <2>1. CacheHeld /\ OtherTypes /\ StartInv /\ HandInv /\ NoneLost
    BY RuntimeParts
  <2>2. PICK k \in EntryAt(a) :
          /\ start[a].step = "decoded" /\ SameIdentity(cache[k], a) /\ cache' = Used(k)
          /\ Goto(a, "prepared", cache[k].image) /\ heap' = Discard(a)
          /\ UNCHANGED <<closed, cacheBytes, bindings, scene, fence>>
    BY <1>2 DEF Store
  <2>3. /\ heap' \in [Images -> Pictures \cup {None, "wiped"}]
        /\ \A i \in ImagesOf(ToSet(cache)) : heap'[i] = heap[i]
        /\ \A i \in Images : heap'[i] \in Pictures => i \in ImagesOf(ToSet(cache))
    BY <2>1, <2>2, Discarded
  <2> QED
    BY <2>2, <2>3, UsedStep
<1> QED
  BY <1>1, <1>2

\* The scene gets what was prepared.
LEMMA ConfigureStep ==
  ASSUME RuntimeInv, NEW a \in Starts, ConfigureAppearance(a)
  PROVE  RuntimeInv'
<1>1. /\ CacheHeld /\ BindingsHeld /\ start \in [Starts -> StartState] /\ OtherTypes
      /\ FenceTypes /\ StartInv /\ HandInv /\ NoneLost /\ ShownIsAsked
  BY RuntimeParts
<1> DEFINE asked == start[a].snapshot.background
           shown == IF asked = Default THEN Default ELSE heap[start[a].image]
<1>2. /\ start[a].step = "prepared" /\ Fail(a)
      /\ scene' = [stream |-> start[a].stream, asked |-> asked, shown |-> shown]
      /\ UNCHANGED <<closed, cache, cacheBytes, bindings, heap, fence>>
  BY DEF ConfigureAppearance
<1>3. start[a].stream \in Streams /\ asked \in Pictures \cup {Default}
  BY <1>1, <1>2 DEF StartInv, Snapshot
<1>4. shown = asked \/ (closed /\ shown = "wiped")
  BY <1>1, <1>2 DEF HandInv
<1> HIDE DEF asked, shown
<1>5. /\ (start \in [Starts -> StartState])' /\ StartInv' /\ HandInv'
  BY <1>1, <1>2, Ended
<1>6. CacheHeld' /\ BindingsHeld' /\ FenceTypes'
  BY <1>1, <1>2, CacheStays, BindingsStay
<1>7. OtherTypes' /\ ShownIsAsked'
  BY <1>1, <1>2, <1>3, <1>4 DEF OtherTypes, ShownIsAsked
<1>8. \A i \in Images : heap[i] \in Pictures => i \in ImagesOf(ToSet(cache))
  BY <1>1, <1>2, NothingInHand
<1>9. NoneLost'
  BY <1>2, <1>8 DEF NoneLost, ImagesOf, ToSet
<1> QED
  BY <1>5, <1>6, <1>7, <1>9, RuntimePartsNext

\* The job ends.
LEMMA JobEndsStep ==
  ASSUME RuntimeInv, JobEnds
  PROVE  RuntimeInv'
<1>1. /\ CacheHeld /\ BindingsHeld /\ start \in [Starts -> StartState] /\ OtherTypes
      /\ FenceTypes /\ StartInv /\ HandInv /\ NoneLost /\ ShownIsAsked
  BY RuntimeParts
<1>2. /\ scene # NoScene /\ scene' = NoScene
      /\ UNCHANGED <<closed, cache, cacheBytes, bindings, heap, start, fence>>
  BY DEF JobEnds
<1>3. \A b \in Starts : start[b].step = "idle"
  BY <1>1, <1>2 DEF StartInv
<1>4. StartInv' /\ HandInv' /\ (start \in [Starts -> StartState])'
  BY <1>1, <1>2, <1>3 DEF StartInv, HandInv
<1>5. CacheHeld' /\ BindingsHeld' /\ FenceTypes'
  BY <1>1, <1>2, CacheStays, BindingsStay
<1>6. OtherTypes' /\ ShownIsAsked'
  BY <1>1, <1>2 DEF OtherTypes, ShownIsAsked, NoScene
<1>7. NoneLost'
  BY <1>1, <1>2 DEF NoneLost, ImagesOf, ToSet
<1> QED
  BY <1>2, <1>1, <1>4, <1>5, <1>6, <1>7, RuntimePartsNext

\* The runtime is closed: what it holds is zeroed, what is in hand is not.
LEMMA CloseStep ==
  ASSUME RuntimeInv, Close
  PROVE  RuntimeInv'
<1>1. /\ CacheHeld /\ BindingsHeld /\ start \in [Starts -> StartState] /\ OtherTypes
      /\ FenceTypes /\ StartInv /\ HandInv /\ NoneLost /\ ShownIsAsked
  BY RuntimeParts
<1>2. /\ ~closed /\ closed' = TRUE /\ heap' = Wiped(ImagesOf(ToSet(cache)))
      /\ cache' = <<>> /\ bindings' = <<>> /\ cacheBytes' = 0
      /\ UNCHANGED <<start, scene, fence>>
  BY DEF Close
<1>3. heap' = [i \in Images |-> IF i \in ImagesOf(ToSet(cache)) THEN "wiped" ELSE heap[i]]
  BY <1>2 DEF Wiped
<1>4. (start \in [Starts -> StartState])' /\ StartInv' /\ FenceTypes'
  BY <1>1, <1>2 DEF StartInv, FenceTypes, NoScene, Snapshot
<1>5. ToSet(cache') = {}
  BY <1>2 DEF ToSet
<1>6. CacheHeld'
  <2>1. UNION {BytesOf(e) : e \in {}} = {}
    OBVIOUS
  <2>2. Bytes(ToSet(cache')) = 0
    BY <1>5, <2>1, FS_EmptySet DEF Bytes
  <2>3. /\ cache' \in Seq(Entry) /\ OnePerStream(cache') /\ OneImage(cache')
        /\ Len(cache') <= MaxCacheEntries /\ cacheBytes' \in 0..MaxCacheBytes
    BY <1>2, AppearanceAssumption DEF OnePerStream, OneImage
  <2> QED
    BY <1>2, <1>5, <2>2, <2>3, CacheMade
<1>7. BindingsHeld'
  BY <1>2, AppearanceAssumption DEF BindingsHeld, OnePerStream
<1>8. OtherTypes' /\ ShownIsAsked'
  BY <1>1, <1>2, <1>3 DEF OtherTypes, ShownIsAsked
<1>9. ImagesOf(ToSet(cache))' = {}
  BY <1>2 DEF ImagesOf, ToSet
<1>10. HandInv'
  BY <1>1, <1>2, <1>3, <1>9 DEF HandInv, Images
<1>11. NoneLost'
  BY <1>1, <1>2, <1>3, <1>9, AppearanceAssumption DEF NoneLost, Images
<1> QED
  BY <1>4, <1>6, <1>7, <1>8, <1>10, <1>11, RuntimePartsNext

\* A step that changes nothing.
LEMMA AppearanceStutters ==
  ASSUME RuntimeInv, UNCHANGED appearanceVars
  PROVE  RuntimeInv'
<1>1. /\ CacheHeld /\ BindingsHeld /\ start \in [Starts -> StartState] /\ OtherTypes
      /\ FenceTypes /\ StartInv /\ HandInv /\ NoneLost /\ ShownIsAsked
  BY RuntimeParts
<1>2. CacheHeld' /\ BindingsHeld' /\ FenceTypes'
  BY <1>1, CacheStays, BindingsStay DEF appearanceVars
<1>3. (start \in [Starts -> StartState])' /\ OtherTypes' /\ ShownIsAsked' /\ StartInv'
  BY <1>1 DEF OtherTypes, ShownIsAsked, StartInv, NoScene, Snapshot, appearanceVars
<1>4. HandInv' /\ NoneLost'
  BY <1>1 DEF HandInv, NoneLost, ImagesOf, ToSet, Images, appearanceVars
<1> QED
  BY <1>2, <1>3, <1>4, RuntimePartsNext

\* The runtime as it is made.
LEMMA AppearanceStarts ==
  ASSUME AppearanceInit
  PROVE  RuntimeInv
<1>1. /\ closed = FALSE /\ cache = <<>> /\ cacheBytes = 0 /\ bindings = <<>>
      /\ heap = [i \in Images |-> None] /\ start = [a \in Starts |-> Idle]
      /\ scene = NoScene /\ fence = [s \in Streams |-> Unbound]
  BY DEF AppearanceInit
<1>2. ToSet(cache) = {}
  BY <1>1 DEF ToSet
<1>3. CacheHeld
  <2>1. UNION {BytesOf(e) : e \in {}} = {}
    OBVIOUS
  <2>2. Bytes(ToSet(cache)) = 0
    BY <1>2, <2>1, FS_EmptySet DEF Bytes
  <2> QED
    BY <1>1, <2>2, AppearanceAssumption DEF CacheHeld, OnePerStream, OneImage
<1>4. BindingsHeld /\ OtherTypes /\ ShownIsAsked
  <2>1. BindingsHeld
    BY <1>1, AppearanceAssumption DEF BindingsHeld, OnePerStream
  <2>2. heap \in [Images -> Pictures \cup {None, "wiped"}]
    BY <1>1
  <2> QED
    BY <1>1, <2>1, <2>2 DEF OtherTypes, ShownIsAsked, NoScene
<1>5. FenceTypes
  BY <1>1, AppearanceAssumption DEF FenceTypes, Unbound
<1>6. start \in [Starts -> StartState] /\ \A a \in Starts : start[a].step = "idle"
  BY <1>1, AppearanceAssumption DEF StartState, Idle
<1>7. StartInv /\ HandInv
  BY <1>6 DEF StartInv, HandInv
<1>8. NoneLost
  BY <1>1, AppearanceAssumption DEF NoneLost
<1> QED
  BY <1>3, <1>4, <1>5, <1>6, <1>7, <1>8, RuntimeParts

\* Every step keeps the invariant.
LEMMA AppearanceKept ==
  ASSUME RuntimeInv, [AppearanceNext]_appearanceVars
  PROVE  RuntimeInv'
<1>1. ASSUME NEW a \in Starts, StartStep(a) PROVE RuntimeInv'
  <2>1. CASE BindRefused(a) \/ CacheRefuses(a) \/ FetchFails(a) \/ StartFails(a)
    <3>1. /\ start[a].step \notin {"idle", "decoded"} /\ Fail(a)
          /\ UNCHANGED <<closed, cache, cacheBytes, bindings, heap, scene, fence>>
      BY <2>1 DEF BindRefused, CacheRefuses, FetchFails, StartFails
    <3> QED
      BY <3>1, FailStep
  <2>2. CASE BindGeneration(a)
    BY <2>2, BindStep
  <2>3. CASE CacheHit(a)
    BY <2>3, HitStep
  <2>4. CASE CacheMiss(a)
    BY <2>4, MissStep
  <2>5. ASSUME NEW picture \in Pictures, Fetched(a, picture) PROVE RuntimeInv'
    BY <2>5, FetchedStep
  <2>6. CASE StoreRefused(a)
    BY <2>6, RefusedStep
  <2>7. CASE Store(a)
    BY <2>7, StoreStep
  <2>8. CASE ConfigureAppearance(a)
    BY <2>8, ConfigureStep
  <2> QED
    BY <1>1, <2>1, <2>2, <2>3, <2>4, <2>5, <2>6, <2>7, <2>8 DEF StartStep
<1>2. ASSUME NEW a \in Starts, NEW s \in Streams, NEW snapshot \in Snapshot,
             PrepareBegins(a, s, snapshot)
      PROVE  RuntimeInv'
  BY <1>2, PrepareStep
<1>3. CASE JobEnds
  BY <1>3, JobEndsStep
<1>4. CASE Close
  BY <1>4, CloseStep
<1>5. CASE UNCHANGED appearanceVars
  BY <1>5, AppearanceStutters
<1> QED
  BY <1>1, <1>2, <1>3, <1>4, <1>5 DEF AppearanceNext

\* The inductive invariant of the runtime holds.
THEOREM RuntimeHolds == AppearanceSpec => []RuntimeInv
BY AppearanceStarts, AppearanceKept, PTL DEF AppearanceSpec

\* The cache keeps its limits and its images, every decoded image is
\* accounted for, and the scene shows the background that its job asked for,
\* with any number of Starts, streams and pictures and at any limits
\* (Prepare, store, removeLocked, Close, ConfigureAppearance).
THEOREM AppearanceIsSafe == AppearanceSpec => []AppearanceInv
<1>1. RuntimeInv => AppearanceInv
  BY DEF RuntimeInv
<1> QED
  BY <1>1, RuntimeHolds, PTL
-----------------------------------------------------------------------------
(* The bindings.                                                            *)

\* What a stream keeps of its binding when another stream is bound.
LEMMA StillRemembered ==
  ASSUME BindingsHeld, NEW s \in Streams, NEW snapshot \in Snapshot,
         bindings' = Bound(s, snapshot),
         NEW t \in Streams, t # s, Remembered(t), IsFiniteSet(fence[t].others),
         fence'[t].others = fence[t].others \cup {s},
         fence'[t].generation = fence[t].generation, fence'[t].background = fence[t].background
  PROVE  Remembered(t)' /\ IsFiniteSet(fence'[t].others)
<1> DEFINE r == bindings'  others == fence[t].others  n == Len(r)
<1>1. bindings \in Seq(Binding) /\ OnePerStream(bindings) /\ Len(bindings) <= MaxBindings
  BY DEF BindingsHeld
<1>2. /\ r \in Seq(Binding) /\ n \in 1..MaxBindings /\ OnePerStream(r)
      /\ r[n] = [stream |-> s, generation |-> snapshot.generation,
                 background |-> snapshot.background]
  BY <1>1, BoundParts
<1>3. \A p \in DOMAIN bindings : bindings[p].stream # s =>
        \/ \E i \in 1..(n - 1) :
             /\ r[i] = bindings[p]
             /\ \A j \in 1..(n - 1) :
                  j > i => \E l \in DOMAIN bindings : l > p /\ r[j] = bindings[l]
        \/ /\ n = MaxBindings
           /\ \A j \in 1..(n - 1) : \E l \in DOMAIN bindings : l > p /\ r[j] = bindings[l]
  BY <1>1, BoundParts
<1>4. n \in Nat /\ n >= 1 /\ DOMAIN r = 1..n /\ MaxBindings \in Nat
  BY <1>2, AppearanceAssumption
<1>5. r[n].stream = s
  BY <1>2
<1>6. IsFiniteSet(fence'[t].others) /\ IsFiniteSet(others \cup {s})
  BY FS_AddElement
<1> HIDE DEF r, n, others
<1>7. CASE fence[t].generation = 0
  BY <1>6, <1>7 DEF Remembered
<1>8. CASE Cardinality(others) >= MaxBindings
  <2>1. /\ Cardinality(others) <= Cardinality(others \cup {s})
        /\ Cardinality(others) \in Nat /\ Cardinality(others \cup {s}) \in Nat
    BY <1>6, FS_Subset, FS_CardinalityType
  <2>2. Cardinality(fence'[t].others) >= MaxBindings
    BY <1>4, <1>8, <2>1 DEF others
  <2> QED
    BY <1>6, <2>2 DEF Remembered
<1>9. CASE \E k \in DOMAIN bindings :
             /\ bindings[k].stream = t /\ bindings[k].generation = fence[t].generation
             /\ bindings[k].background = fence[t].background
             /\ \A j \in DOMAIN bindings : j > k => bindings[j].stream \in others
  <2>1. PICK p \in DOMAIN bindings :
          /\ bindings[p].stream = t /\ bindings[p].generation = fence[t].generation
          /\ bindings[p].background = fence[t].background
          /\ \A j \in DOMAIN bindings : j > p => bindings[j].stream \in others
    BY <1>9
  <2>2. \/ \E i \in 1..(n - 1) :
             /\ r[i] = bindings[p]
             /\ \A j \in 1..(n - 1) :
                  j > i => \E l \in DOMAIN bindings : l > p /\ r[j] = bindings[l]
        \/ /\ n = MaxBindings
           /\ \A j \in 1..(n - 1) : \E l \in DOMAIN bindings : l > p /\ r[j] = bindings[l]
    BY <1>3, <2>1
  <2>3. CASE \E i \in 1..(n - 1) :
               /\ r[i] = bindings[p]
               /\ \A j \in 1..(n - 1) :
                  j > i => \E l \in DOMAIN bindings : l > p /\ r[j] = bindings[l]
    <3>1. PICK i \in 1..(n - 1) :
               /\ r[i] = bindings[p]
               /\ \A j \in 1..(n - 1) :
                  j > i => \E l \in DOMAIN bindings : l > p /\ r[j] = bindings[l]
      BY <2>3
    <3>2. ASSUME NEW j \in DOMAIN r, j > i PROVE r[j].stream \in others \cup {s}
      <4>1. CASE j = n
        BY <1>5, <4>1
      <4>2. CASE j # n
        <5>1. j \in 1..(n - 1)
          BY <1>4, <4>2
        <5> QED
          BY <2>1, <3>1, <3>2, <5>1
      <4> QED
        BY <4>1, <4>2
    <3>3. i \in DOMAIN r /\ r[i].stream = t
      BY <1>4, <2>1, <3>1
    <3> QED
      BY <1>6, <2>1, <3>1, <3>2, <3>3 DEF Remembered, r, others
  <2>4. CASE /\ n = MaxBindings
             /\ \A j \in 1..(n - 1) : \E l \in DOMAIN bindings : l > p /\ r[j] = bindings[l]
    <3> DEFINE f == [j \in 1..n |-> r[j].stream]
    <3>1. \A j \in 1..n : r[j].stream \in others \cup {s}
      <4> TAKE j \in 1..n
      <4>1. CASE j = n
        BY <1>5, <4>1
      <4>2. CASE j # n
        <5>1. j \in 1..(n - 1)
          BY <1>4, <4>2
        <5> QED
          BY <2>1, <2>4, <5>1
      <4> QED
        BY <4>1, <4>2
    <3>2. f \in Injection(1..n, others \cup {s})
      <4>1. f \in [1..n -> others \cup {s}]
        BY <3>1
      <4>2. \A i, j \in 1..n : f[i] = f[j] => i = j
        BY <1>2, <1>4 DEF OnePerStream
      <4> HIDE DEF f
      <4> QED
        BY <4>1, <4>2 DEF Injection, IsInjective
    <3>3. Cardinality(1..n) <= Cardinality(others \cup {s})
      BY <1>6, <3>2, FS_Injection
    <3>4. Cardinality(1..n) = n
      <4>1. 1 \in Int /\ n \in Int
        BY <1>4
      <4>2. Cardinality(1..n) = IF 1 > n THEN 0 ELSE n - 1 + 1
        BY <4>1, FS_Interval
      <4> QED
        BY <1>4, <4>2
    <3>5. Cardinality(others \cup {s}) \in Nat
      BY <1>6, FS_CardinalityType
    <3>6. Cardinality(fence'[t].others) >= MaxBindings
      BY <1>4, <2>4, <3>3, <3>4, <3>5 DEF others
    <3> QED
      BY <1>6, <3>6 DEF Remembered
  <2> QED
    BY <2>2, <2>3, <2>4
<1> QED
  BY <1>7, <1>8, <1>9 DEF Remembered, others

\* The bindings remember what the streams were bound to.
LEMMA FenceBinds ==
  ASSUME RuntimeInv, FenceInv, NEW a \in Starts, BindGeneration(a)
  PROVE  /\ FenceInv'
         /\ \A t \in Streams :
              \/ fence'[t].generation > fence[t].generation
              \/ /\ fence'[t].generation = fence[t].generation
                 /\ fence'[t].background = fence[t].background
              \/ Cardinality(fence[t].others) >= MaxBindings
<1>1. BindingsHeld /\ FenceTypes /\ StartInv
  BY RuntimeParts
<1>0. PICK s \in Streams, snapshot \in Snapshot :
        s = start[a].stream /\ snapshot = start[a].snapshot /\ start[a].step = "bind"
  BY <1>1 DEF BindGeneration, StartInv
<1>2. /\ ~closed /\ Binds(s, snapshot)
      /\ bindings' = Bound(s, snapshot) /\ UNCHANGED closed
      /\ fence' = [t \in Streams |->
           IF t = s THEN [generation |-> snapshot.generation, background |-> snapshot.background,
                          others |-> {}]
           ELSE [fence[t] EXCEPT !.others = @ \cup {s}]]
  BY <1>0 DEF BindGeneration
<1>3. snapshot.generation \in 1..MaxGeneration
  BY DEF Snapshot
<1>4. /\ fence'[s] = [generation |-> snapshot.generation, background |-> snapshot.background,
                      others |-> {}]
  BY <1>2, <1>3
<1>5. ASSUME NEW t \in Streams, t # s
      PROVE  /\ fence'[t].others = fence[t].others \cup {s}
             /\ fence'[t].generation = fence[t].generation
             /\ fence'[t].background = fence[t].background
  <2>1. fence[t] \in [generation : 0..MaxGeneration, background : Pictures \cup {Default, None},
                      others : SUBSET Streams]
    BY <1>1 DEF FenceTypes
  <2>2. fence'[t] = [fence[t] EXCEPT !.others = @ \cup {s}]
    BY <1>2, <1>5
  <2> QED
    BY <2>1, <2>2
<1>6. \A t \in Streams : Remembered(t) /\ IsFiniteSet(fence[t].others)
  BY <1>2 DEF FenceInv
<1>7. Remembered(s)' /\ IsFiniteSet(fence'[s].others)
  <2> DEFINE n == Len(bindings')
  <2>1. /\ bindings' \in Seq(Binding) /\ n \in 1..MaxBindings
        /\ bindings'[n] = [stream |-> s, generation |-> snapshot.generation,
                           background |-> snapshot.background]
    BY <1>1, <1>2, <1>3, BoundParts DEF BindingsHeld
  <2>2. n \in DOMAIN bindings' /\ \A j \in DOMAIN bindings' : ~(j > n)
    BY <2>1, AppearanceAssumption
  <2> HIDE DEF n
  <2>3. /\ bindings'[n].stream = s /\ bindings'[n].generation = fence'[s].generation
        /\ bindings'[n].background = fence'[s].background
    BY <1>4, <2>1
  <2>4. IsFiniteSet(fence'[s].others)
    BY <1>4, FS_EmptySet
  <2> QED
    BY <2>2, <2>3, <2>4 DEF Remembered
<1>8. ASSUME NEW t \in Streams, t # s PROVE Remembered(t)' /\ IsFiniteSet(fence'[t].others)
  BY <1>1, <1>2, <1>3, <1>5, <1>6, <1>8, StillRemembered
<1>9. FenceInv'
  <2>1. \A t \in Streams : IsFiniteSet(fence'[t].others)
    BY <1>7, <1>8
  <2>2. \A t \in Streams : Remembered(t)'
    BY <1>7, <1>8
  <2> QED
    BY <2>1, <2>2 DEF FenceInv
<1>10. \/ fence'[s].generation > fence[s].generation
       \/ /\ fence'[s].generation = fence[s].generation
          /\ fence'[s].background = fence[s].background
       \/ Cardinality(fence[s].others) >= MaxBindings
  <2>1. CASE fence[s].generation = 0
    BY <1>3, <1>4, <2>1, AppearanceAssumption
  <2>2. CASE \E k \in DOMAIN bindings :
               /\ bindings[k].stream = s /\ bindings[k].generation = fence[s].generation
               /\ bindings[k].background = fence[s].background
    BY <1>2, <1>4, <2>2 DEF Binds, BoundAt
  <2> QED
    BY <1>3, <1>6, <2>1, <2>2 DEF Remembered
<1> QED
  BY <1>5, <1>9, <1>10

\* Every other step leaves the bindings, or closes the runtime.
LEMMA FenceKept ==
  ASSUME RuntimeInv, FenceInv, [AppearanceNext]_appearanceVars
  PROVE  /\ FenceInv'
         /\ \A t \in Streams :
              \/ fence'[t].generation > fence[t].generation
              \/ /\ fence'[t].generation = fence[t].generation
                 /\ fence'[t].background = fence[t].background
              \/ Cardinality(fence[t].others) >= MaxBindings
<1>1. CASE \E a \in Starts : BindGeneration(a)
  BY <1>1, FenceBinds
<1>2. CASE UNCHANGED <<closed, bindings, fence>>
  <2>1. \A t \in Streams : Remembered(t)' = Remembered(t)
    BY <1>2 DEF Remembered
  <2> QED
    BY <1>2, <2>1 DEF FenceInv
<1>3. CASE Close
  BY <1>3 DEF Close, FenceInv
<1> QED
  BY <1>1, <1>2, <1>3 DEF AppearanceNext, StartStep, BindRefused, CacheRefuses, CacheHit, CacheMiss,
     FetchFails, Fetched, StoreRefused, Store, StartFails, ConfigureAppearance, PrepareBegins,
     JobEnds, appearanceVars

\* A stream never goes back to an older snapshot, nor to another of the same
\* generation, unless as many streams were bound since as the table may hold
\* (bindGeneration and its eviction).
THEOREM NeverOlderHolds == AppearanceSpec => NeverOlder
<1>1. AppearanceInit => FenceInv
  <2> SUFFICES ASSUME AppearanceInit, NEW s \in Streams
               PROVE  IsFiniteSet(fence[s].others) /\ Remembered(s)
    BY DEF FenceInv
  <2>1. fence[s].generation = 0 /\ fence[s].others = {}
    BY DEF AppearanceInit, Unbound
  <2> QED
    BY <2>1, FS_EmptySet DEF Remembered
<1>2. RuntimeInv /\ FenceInv /\ [AppearanceNext]_appearanceVars => FenceInv'
  BY FenceKept
<1>3. RuntimeInv /\ FenceInv /\ [AppearanceNext]_appearanceVars =>
        [\A s \in Streams :
           LET old == fence[s]  new == fence'[s] IN
           \/ new.generation > old.generation
           \/ new.generation = old.generation /\ new.background = old.background
           \/ Cardinality(old.others) >= MaxBindings]_appearanceVars
  BY FenceKept
<1> QED
  BY <1>1, <1>2, <1>3, RuntimeHolds, PTL DEF AppearanceSpec, NeverOlder
=============================================================================
