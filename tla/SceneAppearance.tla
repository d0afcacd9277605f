-------------------------- MODULE SceneAppearance --------------------------
(***************************************************************************)
(* The scene appearance runtime (internal/sceneappearance/runtime.go) as    *)
(* Manager.Start uses it: Prepare fetches, verifies and caches a stream's   *)
(* background, ConfigureAppearance scales it into the scene.                *)
(*                                                                          *)
(* An action is one critical section of Runtime.mu or one call outside it.  *)
(* Start holds lifecycleMu from Prepare to ConfigureAppearance; Close comes *)
(* from the end of the process and waits for no one.  lastUsed is the place *)
(* in the sequences cache and bindings, least recently used first.  A       *)
(* picture stands for what descriptorIdentity compares.                     *)
(***************************************************************************)
EXTENDS Naturals, Sequences, SequencesExt, FiniteSets

CONSTANTS
  Starts,          \* goroutines that call Manager.Start
  Streams,
  Pictures,        \* descriptorIdentity of the backgrounds
  AssetOf,         \* asset, variant and revision of a picture: not all it is
  SizeOf,          \* bytes of a decoded picture
  Default,         \* the snapshot asks for no background image
  None,
  MaxGeneration,   \* bound: generations of a snapshot
  MaxCacheEntries, MaxCacheBytes,  \* Options.MaxEntries and MaxCacheBytes
  MaxBindings,     \* maxGenerationBindings
  MaxImages        \* bound: decoded images

ASSUME AppearanceAssumption ==
  /\ \A p \in Pictures : SizeOf[p] \in Nat \ {0}
  /\ MaxCacheEntries \in Nat \ {0} /\ MaxCacheBytes \in Nat /\ MaxBindings \in Nat \ {0}
  /\ MaxGeneration \in Nat /\ MaxImages \in Nat
  /\ Default \notin Pictures /\ None \notin Pictures \cup {Default}
  /\ "wiped" \notin Pictures \cup {Default, None}

Images == 1..MaxImages
Snapshot == [generation : 1..MaxGeneration, background : Pictures \cup {Default}]
Entry == [stream : Streams, generation : 1..MaxGeneration, picture : Pictures, image : Images]
Binding == [stream : Streams, generation : 1..MaxGeneration, background : Pictures \cup {Default}]

VARIABLES
  closed,      \* r.closed
  cache,       \* r.cache
  cacheBytes,  \* r.cacheBytes
  bindings,    \* r.bindings
  heap,        \* decoded images: the picture they hold, "wiped" once zeroed
  start,       \* locals of Start and Prepare
  scene,       \* the appearance of the current job, what was asked and what is shown
  fence        \* history: what a stream was bound to last, and which other
               \* streams were bound since

appearanceVars == <<closed, cache, cacheBytes, bindings, heap, start, scene, fence>>

Idle == [step |-> "idle", stream |-> None, snapshot |-> None, image |-> 0]
NoScene == [stream |-> None, asked |-> None, shown |-> None]
Unbound == [generation |-> 0, background |-> None, others |-> {}]

BytesOf(e) == {e.image} \X (1..SizeOf[e.picture])

\* The entries are one per image.
Bytes(E) == Cardinality(UNION {BytesOf(e) : e \in E})

\* Both are maps by stream: bindings by its key, cache because store leaves no
\* other entry of a stream.
OnePerStream(seq) == \A i, j \in DOMAIN seq : seq[i].stream = seq[j].stream => i = j

\* seq without the one place of P, if there is one.
Without(seq, P) == IF P = {} THEN seq ELSE RemoveAt(seq, CHOOSE k \in P : TRUE)

\* The limits of the runtime hold between its critical sections.
AppearanceTypeOK ==
  /\ closed \in BOOLEAN
  /\ cache \in Seq(Entry) /\ OnePerStream(cache)
  /\ Len(cache) <= MaxCacheEntries /\ cacheBytes \in 0..MaxCacheBytes
  /\ bindings \in Seq(Binding) /\ OnePerStream(bindings) /\ Len(bindings) <= MaxBindings
  /\ heap \in [Images -> Pictures \cup {None, "wiped"}]
  /\ start \in [Starts -> [step : {"idle", "bind", "cached", "fetch", "decoded", "prepared"},
                           stream : Streams \cup {None}, snapshot : Snapshot \cup {None},
                           image : 0..MaxImages]]
  /\ scene \in [stream : Streams \cup {None}, asked : Pictures \cup {Default, None},
                shown : Pictures \cup {Default, None, "wiped"}]
  /\ fence \in [Streams -> [generation : 0..MaxGeneration,
                            background : Pictures \cup {Default, None},
                            others : SUBSET Streams]]

AppearanceInit ==
  /\ closed = FALSE /\ cache = <<>> /\ cacheBytes = 0 /\ bindings = <<>>
  /\ heap = [i \in Images |-> None]
  /\ start = [a \in Starts |-> Idle]
  /\ scene = NoScene
  /\ fence = [s \in Streams |-> Unbound]
-----------------------------------------------------------------------------
Fail(a) == start' = [start EXCEPT ![a] = Idle]
Goto(a, step, i) == start' = [start EXCEPT ![a] = [@ EXCEPT !.step = step, !.image = i]]

\* Mutant: Start does not take lifecycleMu.
MayStartAnyway(a) == scene = NoScene

\* lifecycleMu is free and there is no job.
MayStart(a) == scene = NoScene /\ \A b \in Starts : start[b].step = "idle"

\* Prepare looks at closed; a snapshot that is not ready, of another
\* capability or badly described is refused here and is not in Snapshot.
PrepareBegins(a, s, snapshot) ==
  /\ start[a].step = "idle" /\ MayStart(a) /\ ~closed
  /\ start' = [start EXCEPT ![a] =
       [step |-> "bind", stream |-> s, snapshot |-> snapshot, image |-> 0]]
  /\ UNCHANGED <<closed, cache, cacheBytes, bindings, heap, scene, fence>>

-----------------------------------------------------------------------------
(* bindGeneration.                                                          *)

BoundAt(s) == {k \in DOMAIN bindings : bindings[k].stream = s}

\* Mutant: a generation may be bound again with another background.
BindsAgain(s, snapshot) ==
  \A k \in BoundAt(s) : snapshot.generation >= bindings[k].generation

Binds(s, snapshot) ==
  \A k \in BoundAt(s) :
    LET existing == bindings[k] IN
    \/ snapshot.generation > existing.generation
    \/ snapshot.generation = existing.generation /\ snapshot.background = existing.background

LastOf(seq, n) == IF Len(seq) <= n THEN seq ELSE SubSeq(seq, Len(seq) - n + 1, Len(seq))

\* The stream is used last; the streams used least recently go.
Bound(s, snapshot) ==
  LastOf(Append(Without(bindings, BoundAt(s)),
                [stream |-> s, generation |-> snapshot.generation,
                 background |-> snapshot.background]), MaxBindings)

BindRefused(a) ==
  /\ start[a].step = "bind"
  /\ closed \/ ~Binds(start[a].stream, start[a].snapshot)
  /\ Fail(a)
  /\ UNCHANGED <<closed, cache, cacheBytes, bindings, heap, scene, fence>>

BindGeneration(a) ==
  LET s == start[a].stream  snapshot == start[a].snapshot IN
  /\ start[a].step = "bind" /\ ~closed /\ Binds(s, snapshot)
  /\ bindings' = Bound(s, snapshot)
  /\ Goto(a, IF snapshot.background = Default THEN "prepared" ELSE "cached", 0)
  /\ fence' = [t \in Streams |->
       IF t = s
       THEN [generation |-> snapshot.generation, background |-> snapshot.background, others |-> {}]
       ELSE [fence[t] EXCEPT !.others = @ \cup {s}]]
  /\ UNCHANGED <<closed, cache, cacheBytes, heap, scene>>
-----------------------------------------------------------------------------
(* cached, the fetch and store.                                             *)

\* cacheKey: the asset but not its digest and dimensions.
SameKey(e, a) ==
  /\ e.stream = start[a].stream /\ e.generation = start[a].snapshot.generation
  /\ AssetOf[e.picture] = AssetOf[start[a].snapshot.background]

EntryAt(a) == {k \in DOMAIN cache : SameKey(cache[k], a)}
Used(k) == Append(RemoveAt(cache, k), cache[k])

SameIdentity(e, a) == e.picture = start[a].snapshot.background

CacheRefuses(a) ==
  /\ start[a].step = "cached"
  /\ closed \/ \E k \in EntryAt(a) : ~SameIdentity(cache[k], a)
  /\ Fail(a)
  /\ UNCHANGED <<closed, cache, cacheBytes, bindings, heap, scene, fence>>

CacheHit(a) ==
  /\ start[a].step = "cached" /\ ~closed
  /\ \E k \in EntryAt(a) :
       /\ SameIdentity(cache[k], a)
       /\ cache' = Used(k)
       /\ Goto(a, "prepared", cache[k].image)
  /\ UNCHANGED <<closed, cacheBytes, bindings, heap, scene, fence>>

CacheMiss(a) ==
  /\ start[a].step = "cached" /\ ~closed /\ EntryAt(a) = {}
  /\ Goto(a, "fetch", 0)
  /\ UNCHANGED <<closed, cache, cacheBytes, bindings, heap, scene, fence>>

FreeImages == {i \in Images : heap[i] = None}

\* validateAndDecode: the answer is the picture that was asked for.
Verified(a, picture) == picture = start[a].snapshot.background

\* The fetch fails, times out, or brings something else.
FetchFails(a) ==
  /\ start[a].step = "fetch"
  /\ Fail(a)
  /\ UNCHANGED <<closed, cache, cacheBytes, bindings, heap, scene, fence>>

Fetched(a, picture) ==
  /\ start[a].step = "fetch" /\ Verified(a, picture)
  /\ \E i \in FreeImages :
       /\ \A j \in FreeImages : i <= j
       /\ heap' = [heap EXCEPT ![i] = picture]
       /\ Goto(a, "decoded", i)
  /\ UNCHANGED <<closed, cache, cacheBytes, bindings, scene, fence>>

Wiped(images) == [i \in Images |-> IF i \in images THEN "wiped" ELSE heap[i]]

\* Mutant: the image of a Prepare that found the runtime closed is kept.
DiscardKeeps(a) == heap

Discard(a) == Wiped({start[a].image})

\* The time is up after the decode, the runtime was closed, or the picture
\* alone is more than the cache may hold.
StoreRefused(a) ==
  /\ start[a].step = "decoded"
  /\ heap' = Discard(a)
  /\ Fail(a)
  /\ UNCHANGED <<closed, cache, cacheBytes, bindings, scene, fence>>

TooLarge(a) == SizeOf[start[a].snapshot.background] > MaxCacheBytes

\* Mutant: entries are only counted.
FitsInNumber(entries) == Len(entries) <= MaxCacheEntries

Fits(entries) == Len(entries) <= MaxCacheEntries /\ Bytes(ToSet(entries)) <= MaxCacheBytes

\* What is left when the least recently used entries are removed until the
\* rest fits; the new entry is the last one.
Kept(entries) ==
  LET ends == {n \in 1..Len(entries) : Fits(SubSeq(entries, n, Len(entries)))} IN
  SubSeq(entries, CHOOSE n \in ends : \A m \in ends : n <= m, Len(entries))

\* removeLocked subtracts what an entry added.
BytesWithout(bytes, removed) == IF removed > bytes THEN 0 ELSE bytes - removed

ImagesOf(E) == {e.image : e \in E}

StreamAt(s) == {k \in DOMAIN cache : cache[k].stream = s}

\* The other entry of the stream goes, then the new one comes, then the least
\* recently used ones go; what goes is zeroed.  An entry of the same key
\* would be given instead of the new image.
Store(a) ==
  LET new == [stream |-> start[a].stream, generation |-> start[a].snapshot.generation,
              picture |-> start[a].snapshot.background, image |-> start[a].image]
      kept == Kept(Append(Without(cache, StreamAt(new.stream)), new))
      removed == ToSet(cache) \ ToSet(kept) IN
  /\ start[a].step = "decoded" /\ ~closed
  /\ IF EntryAt(a) # {}
     THEN /\ \E k \in EntryAt(a) :
               /\ SameIdentity(cache[k], a)
               /\ cache' = Used(k)
               /\ Goto(a, "prepared", cache[k].image)
          /\ heap' = Discard(a)
          /\ UNCHANGED cacheBytes
     ELSE /\ ~TooLarge(a)
          /\ cache' = kept
          /\ cacheBytes' = BytesWithout(cacheBytes + SizeOf[new.picture], Bytes(removed))
          /\ heap' = Wiped(ImagesOf(removed))
          /\ Goto(a, "prepared", new.image)
  /\ UNCHANGED <<closed, bindings, scene, fence>>
-----------------------------------------------------------------------------
(* The rest of Start, the end of the job and the end of the process.        *)

\* Start fails after Prepare: captions, assignment, receipts, capabilities.
StartFails(a) ==
  /\ start[a].step = "prepared"
  /\ Fail(a)
  /\ UNCHANGED <<closed, cache, cacheBytes, bindings, heap, scene, fence>>

\* ConfigureAppearance scales the picture, whatever it holds by now, into
\* backgrounds of its own.
ConfigureAppearance(a) ==
  LET asked == start[a].snapshot.background IN
  /\ start[a].step = "prepared" /\ scene = NoScene
  /\ scene' = [stream |-> start[a].stream, asked |-> asked,
               shown |-> IF asked = Default THEN Default ELSE heap[start[a].image]]
  /\ Fail(a)
  /\ UNCHANGED <<closed, cache, cacheBytes, bindings, heap, fence>>

\* Stop, or the failure of the video output: Scene.Clear.
JobEnds ==
  /\ scene # NoScene /\ scene' = NoScene
  /\ UNCHANGED <<closed, cache, cacheBytes, bindings, heap, start, fence>>

Close ==
  /\ ~closed /\ closed' = TRUE
  /\ heap' = Wiped(ImagesOf(ToSet(cache)))
  /\ cache' = <<>> /\ bindings' = <<>> /\ cacheBytes' = 0
  /\ UNCHANGED <<start, scene, fence>>

StartStep(a) ==
  \/ BindRefused(a) \/ BindGeneration(a)
  \/ CacheRefuses(a) \/ CacheHit(a) \/ CacheMiss(a)
  \/ FetchFails(a) \/ \E picture \in Pictures : Fetched(a, picture)
  \/ StoreRefused(a) \/ Store(a)
  \/ StartFails(a) \/ ConfigureAppearance(a)

AppearanceNext ==
  \/ \E a \in Starts :
       StartStep(a) \/ \E s \in Streams, snapshot \in Snapshot : PrepareBegins(a, s, snapshot)
  \/ JobEnds \/ Close

AppearanceSpec == AppearanceInit /\ [][AppearanceNext]_appearanceVars
-----------------------------------------------------------------------------
(* Properties.                                                              *)

\* The scene shows the background its job asked for, of this digest and no
\* other: not one that another Prepare evicted and zeroed in between, not one
\* that is only called the same.  Only the end of the process may blacken it
\* (Prepare, store, removeLocked, ConfigureAppearance).
ShownIsAsked == scene.shown = scene.asked \/ (closed /\ scene.shown = "wiped")

\* A stream never goes back to an older snapshot, nor to another one of the
\* same generation, unless MaxBindings other streams were bound since
\* (bindGeneration, its eviction).
NeverOlder ==
  [][\A s \in Streams :
       LET old == fence[s]  new == fence'[s] IN
       \/ new.generation > old.generation
       \/ new.generation = old.generation /\ new.background = old.background
       \/ Cardinality(old.others) >= MaxBindings]_appearanceVars

\* The cache holds no zeroed image, cacheBytes is the size of what it holds,
\* and every decoded image that it does not hold and no Prepare has in hand
\* was zeroed, also when the runtime was closed meanwhile (store,
\* removeLocked, Close).
ImagesAccounted ==
  /\ \A i \in DOMAIN cache : heap[cache[i].image] = cache[i].picture
  /\ cacheBytes = Bytes(ToSet(cache))
  /\ \A i \in Images : heap[i] \in Pictures =>
       \/ i \in ImagesOf(ToSet(cache))
       \/ \E a \in Starts : start[a].step = "decoded" /\ start[a].image = i

\* Types and limits of the cache, its images and what the scene made of them
\* (Prepare, store, removeLocked, ConfigureAppearance).
AppearanceInv == AppearanceTypeOK /\ ImagesAccounted /\ ShownIsAsked
=============================================================================
