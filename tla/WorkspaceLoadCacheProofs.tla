----------------------- MODULE WorkspaceLoadCacheProofs -----------------------
(***************************************************************************)
(* Proofs about WorkspaceLoadCache, for any owners, groups and bounds: the *)
(* cache stays within its bound, no request joins a dead promise, and      *)
(* neither invalidated nor discarded data comes back.                      *)
(*                                                                         *)
(* The argument is the one the code's comments sketch: generations only    *)
(* grow, so a load whose generation its entry still carries was begun      *)
(* after the entry was last created, reloaded or invalidated.              *)
(***************************************************************************)
EXTENDS WorkspaceLoadCache, FiniteSetTheorems, TLAPS

(* No load or entry carries a generation not yet given out, and no two     *)
(* loads of a key carry the same.                                          *)
Numbered ==
    /\ \A k \in Cached : entries[k].generation <= generation
    /\ \A l \in loads : l.generation <= generation
    /\ \A l, m \in loads : l.key = m.key /\ l.generation = m.generation => l = m

(* Nothing is newer than the server, and what the current load of an entry *)
(* has read is as new as all that happened to the entry.                   *)
Ordered ==
    /\ \A k \in Cached : entries[k].version <= server[k]
    /\ \A k \in Keys : invalidated[k] <= server[k] /\ discarded[k] <= server[k]
    /\ \A l \in loads : l.read <= server[l.key]
    /\ \A l \in loads : Current(l) /\ l.read # NoData =>
          /\ l.read >= entries[l.key].version
          /\ l.read >= invalidated[l.key]
          /\ l.read >= discarded[l.key]

Small == IsFiniteSet(Cached) /\ Bounded

IInv ==
    /\ TypeOK /\ Small /\ Numbered /\ Ordered
    /\ PromisesAreLive /\ LoadedSinceInvalidation /\ DiscardedStaysGone

LEMMA InitIInv == Init => IInv
<1> SUFFICES ASSUME Init PROVE IInv
  OBVIOUS
<1>1. Cached = {}
  BY DEF Init, Cached
<1>2. IsFiniteSet(Cached) /\ Cardinality(Cached) = 0
  BY <1>1, FS_EmptySet
<1>3. entries \in [Cached -> Entry]
  BY <1>1 DEF Init, Cached
<1>4. TypeOK
  BY <1>1, <1>3, CacheAssumption DEF Init, TypeOK, Keys, Versions, Load
<1>5. Small
  BY <1>2, CacheAssumption DEF Small, Bounded
<1> QED
  BY <1>1, <1>4, <1>5, CacheAssumption
  DEF Init, IInv, Numbered, Ordered, PromisesAreLive, LoadedSinceInvalidation,
      DiscardedStaysGone, NoData, Keys

(* The bound survives a step that adds no entry ...                        *)
LEMMA SmallerStaysSmall == ASSUME Small, Cached' \subseteq Cached PROVE Small'
<1>1. IsFiniteSet(Cached') /\ Cardinality(Cached') <= Cardinality(Cached)
  BY FS_Subset DEF Small
<1>2. Cardinality(Cached) \in Nat /\ Cardinality(Cached') \in Nat
  BY <1>1, FS_CardinalityType DEF Small
<1> QED  BY <1>1, <1>2, CacheAssumption DEF Small, Bounded

(* ... and a miss, which evicts when the cache is full.                    *)
LEMMA MissStaysSmall == ASSUME IInv, NEW k \in Keys, Miss(k) PROVE Small'
<1>0. /\ IsFiniteSet(Cached) /\ Cardinality(Cached) <= MaxEntries /\ k \notin Cached
      /\ Cardinality(Cached) \in Nat /\ MaxEntries \in Nat \ {0}
  BY FS_CardinalityType, CacheAssumption DEF IInv, Small, Bounded, Miss
<1>1. CASE Cardinality(Cached) < MaxEntries /\ Create(k, Cached \cup {k})
  <2>1. Cached' = Cached \cup {k}
    BY <1>1 DEF Create, Cached
  <2>2. IsFiniteSet(Cached') /\ Cardinality(Cached') = Cardinality(Cached) + 1
    BY <1>0, <2>1, FS_AddElement
  <2> QED  BY <1>0, <1>1, <2>2 DEF Small, Bounded
<1>2. CASE \E v \in Cached : Oldest(v) /\ Create(k, (Cached \ {v}) \cup {k})
  <2>1. PICK v \in Cached : Create(k, (Cached \ {v}) \cup {k})
    BY <1>2
  <2>2. Cached' = (Cached \ {v}) \cup {k}
    BY <2>1 DEF Create, Cached
  <2>3. IsFiniteSet(Cached \ {v}) /\ Cardinality(Cached \ {v}) = Cardinality(Cached) - 1
    BY <1>0, FS_RemoveElement
  <2>4. IsFiniteSet(Cached') /\ Cardinality(Cached') = Cardinality(Cached) - 1 + 1
    BY <1>0, <2>2, <2>3, FS_AddElement
  <2> QED  BY <1>0, <2>4 DEF Small, Bounded
<1> QED  BY <1>1, <1>2 DEF Miss
-----------------------------------------------------------------------------
(* What may be assumed of a state that satisfies the invariant.            *)
LEMMA EntryTyped ==
    ASSUME IInv, NEW k \in Cached
    PROVE  /\ k \in Keys /\ entries[k] \in Entry
           /\ entries[k].state \in {"loading", "loaded", "stale"}
           /\ entries[k].version \in 0..MaxVersion
           /\ entries[k].generation \in 0..MaxGeneration
           /\ entries[k].pending \in BOOLEAN
  BY DEF IInv, TypeOK, Entry

LEMMA TouchTyped ==
    ASSUME IInv, NEW k \in Keys, NEW D \in SUBSET Keys, Touch(k, D)
    PROVE  newer' \in [Keys -> SUBSET Keys]
  BY DEF IInv, TypeOK, Touch

LEMMA ForgetTyped ==
    ASSUME IInv, NEW D \in SUBSET Keys, Forget(D)
    PROVE  newer' \in [Keys -> SUBSET Keys]
  BY DEF IInv, TypeOK, Forget

LEMMA GetIInv == ASSUME IInv, NEW k \in Keys, Get(k) PROVE IInv'
<1>1. PICK seen \in {"stale", entries[k].state} :
          /\ entries[k].state # "loaded" => seen = entries[k].state
          /\ entries' = [entries EXCEPT ![k].state = seen]
  BY DEF Get
<1>2. /\ k \in Cached /\ Touch(k, Cached)
      /\ UNCHANGED <<generation, loads, server, invalidated, discarded>>
  BY DEF Get
<1>3. /\ Cached' = Cached
      /\ \A j \in Cached : /\ entries'[j].version = entries[j].version
                           /\ entries'[j].generation = entries[j].generation
                           /\ entries'[j].pending = entries[j].pending
                           /\ entries'[j].state \in {entries[j].state, "stale"}
                           /\ (entries'[j].state = "loading") = (entries[j].state = "loading")
                           /\ entries'[j] \in Entry
  BY <1>1, <1>2, EntryTyped DEF Cached, Entry, IInv, TypeOK
<1>4. newer' \in [Keys -> SUBSET Keys]
  BY <1>2, TouchTyped DEF IInv, TypeOK
<1>5. entries' \in [Cached' -> Entry]
  BY <1>1, <1>2, <1>3 DEF Cached, IInv, TypeOK
<1>6. TypeOK'
  BY <1>2, <1>3, <1>4, <1>5 DEF IInv, TypeOK, Cached
<1>7. Small'
  BY <1>3, SmallerStaysSmall DEF IInv
<1>8. Numbered'
  BY <1>2, <1>3 DEF IInv, Numbered
<1>9. Ordered'
  BY <1>2, <1>3 DEF IInv, Ordered, Current
<1>10. PromisesAreLive'
  BY <1>2, <1>3 DEF IInv, PromisesAreLive
<1>11. LoadedSinceInvalidation' /\ DiscardedStaysGone'
  BY <1>2, <1>3 DEF IInv, LoadedSinceInvalidation, DiscardedStaysGone
<1> QED  BY <1>6, <1>7, <1>8, <1>9, <1>10, <1>11 DEF IInv

LEMMA JoinOrHitIInv == ASSUME IInv, NEW k \in Keys, JoinOrHit(k) PROVE IInv'
<1>1. /\ Touch(k, Cached)
      /\ UNCHANGED <<entries, generation, loads, server, invalidated, discarded>>
  BY DEF JoinOrHit
<1>2. newer' \in [Keys -> SUBSET Keys]
  BY <1>1, TouchTyped DEF IInv, TypeOK
<1> QED
  BY <1>1, <1>2
  DEF IInv, TypeOK, Small, Bounded, Numbered, Ordered, Current, Cached, PromisesAreLive,
      LoadedSinceInvalidation, DiscardedStaysGone

LEMMA ServerWritesIInv == ASSUME IInv, NEW k \in Keys, ServerWrites(k) PROVE IInv'
<1>1. /\ server[k] < MaxVersion /\ server' = [server EXCEPT ![k] = @ + 1]
      /\ UNCHANGED <<entries, newer, generation, loads, invalidated, discarded>>
  BY DEF ServerWrites
<1>2. /\ server \in [Keys -> Versions] /\ server' \in [Keys -> Versions]
      /\ \A j \in Keys : server[j] <= server'[j]
  BY <1>1, CacheAssumption DEF IInv, TypeOK, Versions
<1>3. TypeOK' /\ Small' /\ Numbered' /\ PromisesAreLive' /\ LoadedSinceInvalidation'
      /\ DiscardedStaysGone'
  BY <1>1, <1>2 DEF IInv, TypeOK, Small, Bounded, Numbered, Cached, PromisesAreLive,
                    LoadedSinceInvalidation, DiscardedStaysGone
<1>4. Ordered'
  <2>1. \A j \in Cached : entries[j].version <= server'[j]
    BY <1>2, EntryTyped, CacheAssumption DEF IInv, Ordered, Versions
  <2>2. \A j \in Keys : invalidated[j] <= server'[j] /\ discarded[j] <= server'[j]
    BY <1>2, CacheAssumption DEF IInv, TypeOK, Ordered, Versions
  <2>3. \A l \in loads : l.read <= server'[l.key]
    BY <1>2, CacheAssumption DEF IInv, TypeOK, Ordered, Versions, Load
  <2> QED  BY <1>1, <2>1, <2>2, <2>3 DEF IInv, Ordered, Current, Cached
<1> QED  BY <1>3, <1>4 DEF IInv
-----------------------------------------------------------------------------
(* A load begins: its generation is new, so it is no other's, and nothing  *)
(* it could contradict was read by it yet.                                 *)
LEMMA BegunIsTyped ==
    ASSUME IInv, generation < MaxGeneration, NEW v \in 0..MaxVersion
    PROVE  /\ Begun(v) \in Entry /\ Begun(v).version = v /\ Begun(v).pending
           /\ Begun(v).generation = generation + 1 /\ Begun(v).state # "loaded"
           /\ (Begun(v).state = "loading") = (v = NoData)
  BY CacheAssumption DEF Begun, Entry, IInv, TypeOK

LEMMA LoadBegins ==
    ASSUME IInv, NEW k \in Keys, StartLoad(k),
           newer' \in [Keys -> SUBSET Keys],
           k \in Cached', Cached' \subseteq Cached \cup {k}, Small',
           entries' \in [Cached' -> Entry],
           \A j \in Cached' \ {k} : entries'[j] = entries[j],
           NEW v \in 0..MaxVersion, entries'[k] = Begun(v),
           v = NoData \/ (k \in Cached /\ v = entries[k].version)
    PROVE  IInv'
<1> DEFINE new == [key |-> k, generation |-> generation + 1, read |-> NoData]
<1>1. /\ generation < MaxGeneration /\ generation' = generation + 1
      /\ loads' = loads \cup {new}
      /\ UNCHANGED <<server, invalidated, discarded>>
      /\ generation \in Nat /\ MaxGeneration \in Nat /\ MaxVersion \in Nat
  BY CacheAssumption DEF StartLoad, IInv, TypeOK
<1>2. /\ entries'[k].version = v /\ entries'[k].pending
      /\ entries'[k].generation = generation + 1 /\ entries'[k].state # "loaded"
      /\ (entries'[k].state = "loading") = (v = NoData)
  BY <1>1, BegunIsTyped
<1>3. new \in Load /\ new.key = k /\ new.generation = generation + 1 /\ new.read = NoData
  BY <1>1 DEF Load, NoData
<1>4. TypeOK'
  BY <1>1, <1>2, <1>3 DEF IInv, TypeOK, Cached
<1>5. Numbered'
  <2>1. \A j \in Cached' : entries'[j].generation <= generation'
    BY <1>1, <1>2, EntryTyped DEF IInv, Numbered, Cached
  <2>2. \A l \in loads : l.generation <= generation /\ l.generation \in Nat
    BY <1>1 DEF IInv, Numbered, TypeOK, Load
  <2>3. \A l \in loads' : l.generation <= generation'
    BY <1>1, <1>3, <2>2
  <2>4. \A l, m \in loads' : l.key = m.key /\ l.generation = m.generation => l = m
    BY <1>1, <1>3, <2>2 DEF IInv, Numbered
  <2> QED  BY <2>1, <2>3, <2>4 DEF Numbered, Cached
<1>6. Ordered'
  <2>1. \A j \in Cached' : entries'[j].version <= server'[j]
    BY <1>1, <1>2, CacheAssumption DEF IInv, Ordered, TypeOK, NoData, Versions
  <2>2. \A l \in loads' : l.read <= server'[l.key]
    BY <1>1, <1>3, CacheAssumption DEF IInv, Ordered, TypeOK, NoData, Versions
  <2>3. ASSUME NEW l \in loads', Current(l)', l.read # NoData
        PROVE  /\ l.read >= entries'[l.key].version
               /\ l.read >= invalidated'[l.key] /\ l.read >= discarded'[l.key]
    <3>1. l \in loads /\ l.generation <= generation /\ l.generation \in Nat
      BY <1>1, <1>3, <2>3 DEF IInv, Numbered, TypeOK, Load
    <3>2. l.key # k
      BY <1>1, <1>2, <2>3, <3>1 DEF Current
    <3>3. l.key \in Cached /\ entries'[l.key] = entries[l.key] /\ Current(l)
      BY <2>3, <3>2 DEF Current, Cached
    <3> QED  BY <1>1, <2>3, <3>1, <3>3 DEF IInv, Ordered
  <2>4. \A j \in Keys : invalidated'[j] <= server'[j] /\ discarded'[j] <= server'[j]
    BY <1>1 DEF IInv, Ordered
  <2> QED  BY <2>1, <2>2, <2>3, <2>4 DEF Ordered, Cached
<1>7. PromisesAreLive'
  <2> SUFFICES ASSUME NEW j \in Cached'
               PROVE /\ entries'[j].version = NoData => entries'[j].pending
                     /\ entries'[j].pending => \E l \in loads' :
                           l.key = j /\ l.generation = entries'[j].generation
    BY DEF PromisesAreLive, Cached
  <2>1. CASE j = k
    BY <1>1, <1>2, <1>3, <2>1
  <2>2. CASE j # k
    BY <1>1, <2>2 DEF IInv, PromisesAreLive
  <2> QED  BY <2>1, <2>2
<1>8. LoadedSinceInvalidation'
  BY <1>1, <1>2 DEF IInv, LoadedSinceInvalidation, Cached
<1>9. DiscardedStaysGone'
  BY <1>1, <1>2 DEF IInv, DiscardedStaysGone, Cached
<1> QED  BY <1>4, <1>5, <1>6, <1>7, <1>8, <1>9 DEF IInv

LEMMA ReloadIInv == ASSUME IInv, NEW k \in Keys, Reload(k) PROVE IInv'
<1>1. /\ k \in Cached /\ StartLoad(k) /\ generation < MaxGeneration
      /\ entries' = [entries EXCEPT ![k] = Begun(entries[k].version)]
      /\ Touch(k, Cached)
  BY DEF Reload, StartLoad
<1>2. entries[k].version \in 0..MaxVersion /\ Begun(entries[k].version) \in Entry
  BY <1>1, EntryTyped, BegunIsTyped
<1>3. /\ Cached' = Cached /\ entries' \in [Cached' -> Entry]
      /\ entries'[k] = Begun(entries[k].version)
      /\ \A j \in Cached' \ {k} : entries'[j] = entries[j]
  BY <1>1, <1>2 DEF Cached, IInv, TypeOK
<1>4. newer' \in [Keys -> SUBSET Keys]
  BY <1>1, TouchTyped DEF IInv, TypeOK
<1>5. Small'
  BY <1>3, SmallerStaysSmall DEF IInv
<1> QED  BY <1>1, <1>2, <1>3, <1>4, <1>5, LoadBegins

LEMMA MissIInv == ASSUME IInv, NEW k \in Keys, Miss(k) PROVE IInv'
<1>1. k \notin Cached /\ StartLoad(k) /\ generation < MaxGeneration /\ Small'
  BY MissStaysSmall DEF Miss, StartLoad
<1>2. PICK D \in SUBSET (Cached \cup {k}) : k \in D /\ Create(k, D)
  BY DEF Miss
<1>3. NoData \in 0..MaxVersion /\ Begun(NoData) \in Entry
  BY <1>1, BegunIsTyped, CacheAssumption DEF NoData
<1>4. /\ Cached' = D /\ entries'[k] = Begun(NoData)
      /\ \A j \in D \ {k} : entries'[j] = entries[j]
      /\ entries' \in [D -> Entry]
  BY <1>2, <1>3 DEF Create, Cached, IInv, TypeOK
<1>5. newer' \in [Keys -> SUBSET Keys]
  BY <1>2, TouchTyped DEF IInv, TypeOK, Create
<1> QED  BY <1>1, <1>2, <1>3, <1>4, <1>5, LoadBegins

LEMMA LoaderReadsIInv == ASSUME IInv, NEW l \in loads, LoaderReads(l) PROVE IInv'
<1> DEFINE answered == [l EXCEPT !.read = server[l.key]]
<1>1. /\ l.read = NoData /\ loads' = (loads \ {l}) \cup {answered}
      /\ UNCHANGED <<entries, newer, generation, server, invalidated, discarded>>
  BY DEF LoaderReads
<1>2. l \in Load /\ l.key \in Keys /\ server[l.key] \in Versions
  BY DEF IInv, TypeOK, Load
<1>3. /\ answered \in Load /\ answered.key = l.key
      /\ answered.generation = l.generation /\ answered.read = server[l.key]
  BY <1>2, CacheAssumption DEF Load, Versions
<1> HIDE DEF answered
<1>4. TypeOK' /\ Small' /\ LoadedSinceInvalidation' /\ DiscardedStaysGone'
  BY <1>1, <1>3 DEF IInv, TypeOK, Small, Bounded, Cached, LoadedSinceInvalidation,
                    DiscardedStaysGone
<1>5. Numbered'
  BY <1>1, <1>3 DEF IInv, Numbered, Cached
<1>6. PromisesAreLive'
  BY <1>1, <1>3 DEF IInv, PromisesAreLive, Cached
<1>7. Ordered'
  <2>1. \A m \in loads' : m.read <= server'[m.key]
    BY <1>1, <1>2, <1>3, CacheAssumption DEF IInv, Ordered, Versions
  <2>2. ASSUME NEW m \in loads', Current(m)', m.read # NoData
        PROVE  /\ m.read >= entries'[m.key].version
               /\ m.read >= invalidated'[m.key] /\ m.read >= discarded'[m.key]
    <3>1. CASE m = answered
      BY <1>1, <1>2, <1>3, <2>2, <3>1 DEF IInv, Ordered, Current, Cached
    <3>2. CASE m # answered
      BY <1>1, <2>2, <3>2 DEF IInv, Ordered, Current, Cached
    <3> QED  BY <3>1, <3>2
  <2> QED  BY <1>1, <2>1, <2>2 DEF IInv, Ordered, Cached
<1> QED  BY <1>4, <1>5, <1>6, <1>7 DEF IInv
-----------------------------------------------------------------------------
(* A load ends.  No other load of its key is one its entry waits for.      *)
LEMMA OnlyOneIsCurrent ==
    ASSUME IInv, NEW l \in loads, NEW m \in loads, Current(l), Current(m), l.key = m.key
    PROVE  l = m
  BY DEF IInv, Numbered, Current

LEMMA LoadTyped ==
    ASSUME IInv, NEW l \in loads
    PROVE  /\ l \in Load /\ l.key \in Keys
           /\ l.generation \in 0..MaxGeneration /\ l.read \in 0..MaxVersion
  BY DEF IInv, TypeOK, Load

(* The promise of a load nothing waits for settles without effect.         *)
LEMMA StaleLoadEnds ==
    ASSUME IInv, NEW l \in loads, ~Current(l), loads' = loads \ {l},
           UNCHANGED <<entries, newer, generation, server, invalidated, discarded>>
    PROVE  IInv'
<1>1. PromisesAreLive'
  BY DEF IInv, PromisesAreLive, Cached, Current
<1> QED
  BY <1>1 DEF IInv, TypeOK, Small, Bounded, Numbered, Ordered, Current, Cached,
              LoadedSinceInvalidation, DiscardedStaysGone

(* The load an entry waits for ends, and leaves the entry with what it     *)
(* read, or with what it had.                                              *)
LEMMA CurrentLoadEnds ==
    ASSUME IInv, NEW l \in loads, Current(l), loads' = loads \ {l}, Touch(l.key, Cached),
           UNCHANGED <<generation, server, invalidated, discarded>>,
           NEW s \in {"loaded", "stale"}, NEW v \in 1..MaxVersion,
           entries' = [entries EXCEPT ![l.key] =
                          [@ EXCEPT !.state = s, !.version = v, !.pending = FALSE]],
           s = "loaded" => v = l.read,
           s = "stale" => v = entries[l.key].version
    PROVE  IInv'
<1> DEFINE k == l.key
<1>1. /\ k \in Cached /\ k \in Keys /\ entries[k] \in Entry /\ l.read \in 0..MaxVersion
      /\ entries[k].generation = l.generation /\ v # NoData /\ v \in Nat
      /\ MaxVersion \in Nat
  BY LoadTyped, EntryTyped, CacheAssumption DEF Current, NoData
<1> HIDE DEF k
<1>2. /\ Cached' = Cached
      /\ entries' \in [Cached -> Entry]
      /\ \A j \in Cached \ {k} : entries'[j] = entries[j]
      /\ entries'[k].state = s /\ entries'[k].version = v /\ entries'[k].pending = FALSE
      /\ entries'[k].generation = entries[k].generation
  BY <1>1 DEF IInv, TypeOK, Entry, Cached, k
<1>3. newer' \in [Keys -> SUBSET Keys]
  BY <1>1, TouchTyped DEF IInv, TypeOK, k
<1>4. TypeOK'
  BY <1>1, <1>2, <1>3 DEF IInv, TypeOK, Cached
<1>5. Small'
  BY <1>2, SmallerStaysSmall DEF IInv
<1>6. Numbered'
  BY <1>1, <1>2 DEF IInv, Numbered
<1>7. /\ v <= server[k]
      /\ s = "loaded" => v >= invalidated[k]
      /\ v >= discarded[k]
  BY <1>1 DEF IInv, Ordered, DiscardedStaysGone, k
<1>8. Ordered'
  <2>1. ASSUME NEW m \in loads', Current(m)', m.read # NoData
        PROVE  /\ m.read >= entries'[m.key].version
               /\ m.read >= invalidated'[m.key] /\ m.read >= discarded'[m.key]
    <3>1. m \in loads /\ m # l /\ m.key \in Cached /\ Current(m)
      BY <1>2, <2>1 DEF Current
    <3>2. m.key # k
      BY <3>1, OnlyOneIsCurrent DEF k
    <3> QED  BY <1>2, <2>1, <3>1, <3>2 DEF IInv, Ordered
  <2> QED  BY <1>1, <1>2, <1>7, <2>1 DEF IInv, Ordered
<1>9. PromisesAreLive'
  <2> SUFFICES ASSUME NEW j \in Cached
               PROVE /\ entries'[j].version = NoData => entries'[j].pending
                     /\ entries'[j].pending => \E m \in loads' :
                           m.key = j /\ m.generation = entries'[j].generation
    BY <1>2 DEF PromisesAreLive
  <2>1. CASE j = k
    BY <1>1, <1>2, <2>1
  <2>2. CASE j # k
    BY <1>2, <2>2 DEF IInv, PromisesAreLive, k
  <2> QED  BY <2>1, <2>2
<1>10. LoadedSinceInvalidation' /\ DiscardedStaysGone'
  BY <1>1, <1>2, <1>7 DEF IInv, LoadedSinceInvalidation, DiscardedStaysGone
<1> QED  BY <1>4, <1>5, <1>6, <1>8, <1>9, <1>10 DEF IInv

LEMMA SucceedsIInv == ASSUME IInv, NEW l \in loads, Succeeds(l) PROVE IInv'
<1>1. CASE ~Current(l)
  BY <1>1, StaleLoadEnds DEF Succeeds
<1>2. CASE Current(l)
  <2>1. l.read \in 1..MaxVersion
    BY LoadTyped, CacheAssumption DEF Succeeds, NoData
  <2>2. entries' = [entries EXCEPT ![l.key] =
                       [@ EXCEPT !.state = "loaded", !.version = l.read, !.pending = FALSE]]
    BY <1>2 DEF Succeeds
  <2> QED  BY <1>2, <2>1, <2>2, CurrentLoadEnds DEF Succeeds
<1> QED  BY <1>1, <1>2

(* Entries go, with the loads they wait for; the rest is as it was.        *)
LEMMA EntriesGo ==
    ASSUME IInv, NEW D \in SUBSET Cached, entries' = [k \in D |-> entries[k]], Forget(D),
           UNCHANGED server, generation' \in 0..MaxGeneration, generation <= generation',
           loads' \subseteq loads, \A l \in loads : Current(l) /\ l.key \in D => l \in loads',
           invalidated' \in [Keys -> 0..MaxVersion], discarded' \in [Keys -> 0..MaxVersion],
           \A k \in D : invalidated'[k] = invalidated[k] /\ discarded'[k] = discarded[k],
           \A k \in Keys : invalidated'[k] <= server[k] /\ discarded'[k] <= server[k]
    PROVE  IInv'
<1>1. Cached' = D /\ \A k \in D : entries'[k] = entries[k] /\ k \in Cached
  BY DEF Cached
<1>2. newer' \in [Keys -> SUBSET Keys]
  BY ForgetTyped DEF IInv, TypeOK
<1>3. entries' \in [D -> Entry]
  BY EntryTyped
<1>4. TypeOK'
  BY <1>1, <1>2, <1>3 DEF IInv, TypeOK, Cached
<1>5. Small'
  BY <1>1, SmallerStaysSmall DEF IInv
<1>6. Numbered'
  <2>1. \A k \in D : entries[k].generation <= generation'
    BY <1>1, EntryTyped, CacheAssumption DEF IInv, Numbered, TypeOK
  <2>2. \A l \in loads : l.generation <= generation'
    BY LoadTyped, CacheAssumption DEF IInv, Numbered, TypeOK
  <2> QED  BY <1>1, <2>1, <2>2 DEF IInv, Numbered
<1>7. Ordered'
  BY <1>1 DEF IInv, Ordered, Current
<1>8. PromisesAreLive'
  <2> SUFFICES ASSUME NEW k \in D
               PROVE /\ entries[k].version = NoData => entries[k].pending
                     /\ entries[k].pending => \E l \in loads' :
                           l.key = k /\ l.generation = entries[k].generation
    BY <1>1 DEF PromisesAreLive
  <2> QED  BY <1>1 DEF IInv, PromisesAreLive, Current
<1>9. LoadedSinceInvalidation' /\ DiscardedStaysGone'
  BY <1>1 DEF IInv, LoadedSinceInvalidation, DiscardedStaysGone
<1> QED  BY <1>4, <1>5, <1>6, <1>7, <1>8, <1>9 DEF IInv

LEMMA FailsIInv == ASSUME IInv, NEW l \in loads, Fails(l) PROVE IInv'
<1>1. /\ loads' = loads \ {l} /\ UNCHANGED <<generation, server, invalidated, discarded>>
  BY DEF Fails
<1>2. CASE ~Current(l)
  BY <1>1, <1>2, StaleLoadEnds DEF Fails
<1>3. CASE /\ Current(l) /\ entries[l.key].version # NoData
           /\ entries' = [entries EXCEPT ![l.key] =
                             [@ EXCEPT !.state = "stale", !.pending = FALSE]]
           /\ Touch(l.key, Cached)
  <2>1. l.key \in Cached /\ entries[l.key] \in Entry /\ entries[l.key].version \in 1..MaxVersion
    BY <1>3, EntryTyped, CacheAssumption DEF Current, NoData
  <2>2. [entries[l.key] EXCEPT !.state = "stale", !.pending = FALSE]
          = [entries[l.key] EXCEPT !.state = "stale", !.version = entries[l.key].version,
                                   !.pending = FALSE]
    BY <2>1 DEF Entry
  <2>3. entries' = [entries EXCEPT ![l.key] =
                       [@ EXCEPT !.state = "stale", !.version = entries[l.key].version,
                                 !.pending = FALSE]]
    BY <1>3, <2>2
  <2> QED  BY <1>1, <1>3, <2>1, <2>3, CurrentLoadEnds
<1>4. CASE /\ Current(l) /\ entries' = [k \in Cached \ {l.key} |-> entries[k]]
           /\ Forget(Cached \ {l.key})
  <2>1. /\ invalidated \in [Keys -> 0..MaxVersion] /\ discarded \in [Keys -> 0..MaxVersion]
        /\ \A k \in Keys : invalidated[k] <= server[k] /\ discarded[k] <= server[k]
        /\ generation \in 0..MaxGeneration /\ generation <= generation
    BY CacheAssumption DEF IInv, TypeOK, Ordered
  <2> QED  BY <1>1, <1>4, <2>1, EntriesGo
<1> QED  BY <1>2, <1>3, <1>4 DEF Fails

LEMMA MarkedTyped ==
    ASSUME IInv, NEW history \in [Keys -> 0..MaxVersion], NEW ks \in SUBSET Keys,
           \A k \in Keys : history[k] <= server[k]
    PROVE  /\ Marked(history, ks) \in [Keys -> 0..MaxVersion]
           /\ \A k \in Keys : Marked(history, ks)[k] <= server[k]
           /\ \A k \in Keys \ ks : Marked(history, ks)[k] = history[k]
  BY CacheAssumption DEF IInv, TypeOK, Versions, Marked

LEMMA DiscardOwnersIInv ==
    ASSUME IInv, NEW owners \in SUBSET Owners, DiscardOwners(owners) PROVE IInv'
<1> DEFINE gone == {k \in Keys : k[1] \in owners}
<1>1. /\ generation < MaxGeneration
      /\ generation' = IF Cached \cap gone = {} THEN generation ELSE generation + 1
      /\ entries' = [k \in Cached \ gone |-> entries[k]]
      /\ Forget(Cached \ gone)
      /\ invalidated' = Marked(invalidated, gone) /\ discarded' = Marked(discarded, gone)
      /\ UNCHANGED <<loads, server>>
  BY DEF DiscardOwners
<1>2. gone \in SUBSET Keys /\ Cached \subseteq Keys
  BY DEF IInv, TypeOK
<1> HIDE DEF gone
<1>3. /\ invalidated \in [Keys -> 0..MaxVersion] /\ discarded \in [Keys -> 0..MaxVersion]
      /\ \A k \in Keys : invalidated[k] <= server[k] /\ discarded[k] <= server[k]
  BY DEF IInv, TypeOK, Ordered
<1>4. /\ invalidated' \in [Keys -> 0..MaxVersion] /\ discarded' \in [Keys -> 0..MaxVersion]
      /\ \A k \in Keys : invalidated'[k] <= server[k] /\ discarded'[k] <= server[k]
      /\ \A k \in Cached \ gone :
            invalidated'[k] = invalidated[k] /\ discarded'[k] = discarded[k]
  BY <1>1, <1>2, <1>3, MarkedTyped
<1>5. generation' \in 0..MaxGeneration /\ generation <= generation'
  BY <1>1, CacheAssumption DEF IInv, TypeOK
<1> QED  BY <1>1, <1>4, <1>5, EntriesGo

(* Invalidation gives what it keeps a new generation: no load begun before *)
(* is current any more, and none of what it keeps counts as loaded.        *)
LEMMA InvalidateIInv ==
    ASSUME IInv, NEW g \in Groups, NEW owners \in SUBSET Owners, NEW discard \in BOOLEAN,
           Invalidate(g, owners, discard)
    PROVE  IInv'
<1> DEFINE scope == Of(g, owners)
           matched == scope \cap Cached
           gone == {k \in matched : discard \/ entries[k].version = NoData}
           kept == matched \ gone
           left == Cached \ gone
<1>1. /\ generation < MaxGeneration
      /\ generation' = IF matched = {} THEN generation ELSE generation + 1
      /\ entries' = [k \in left |->
            IF k \in kept
            THEN [entries[k] EXCEPT !.state = "stale", !.pending = FALSE,
                                    !.generation = generation + 1]
            ELSE entries[k]]
      /\ invalidated' = Marked(invalidated, scope)
      /\ discarded' = IF discard THEN Marked(discarded, scope) ELSE discarded
      /\ UNCHANGED <<loads, server>>
  BY DEF Invalidate
<1>2. newer' \in [Keys -> SUBSET Keys]
  <2>1. PICK turn \in [kept -> 1..Cardinality(kept)] :
           newer' = [j \in Keys |->
              IF j \in kept THEN {k \in kept : turn[k] > turn[j]}
              ELSE IF j \in left THEN (newer[j] \cap left) \cup kept ELSE {}]
    BY DEF Invalidate
  <2>2. kept \in SUBSET Keys
    BY DEF IInv, TypeOK
  <2> HIDE DEF kept, left
  <2> QED  BY <2>1, <2>2 DEF IInv, TypeOK
<1>3. /\ scope \in SUBSET Keys /\ left \subseteq Cached /\ kept \subseteq left /\ Cached \subseteq Keys
      /\ \A k \in left \ kept : k \notin scope
      /\ \A k \in kept : k \in matched /\ ~discard /\ entries[k].version # NoData
      /\ kept \subseteq matched
      /\ discard => left \cap scope = {}
  BY DEF IInv, TypeOK, Of
<1> HIDE DEF scope, matched, gone, kept, left
<1>4. /\ invalidated' \in [Keys -> 0..MaxVersion] /\ discarded' \in [Keys -> 0..MaxVersion]
      /\ \A k \in Keys : invalidated'[k] <= server[k] /\ discarded'[k] <= server[k]
      /\ \A k \in left \ kept : invalidated'[k] = invalidated[k]
      /\ \A k \in left : discarded'[k] = discarded[k]
  <2>1. /\ invalidated \in [Keys -> 0..MaxVersion] /\ discarded \in [Keys -> 0..MaxVersion]
        /\ \A k \in Keys : invalidated[k] <= server[k] /\ discarded[k] <= server[k]
    BY DEF IInv, TypeOK, Ordered
  <2>2. /\ Marked(invalidated, scope) \in [Keys -> 0..MaxVersion]
        /\ \A k \in Keys : Marked(invalidated, scope)[k] <= server[k]
        /\ \A k \in Keys \ scope : Marked(invalidated, scope)[k] = invalidated[k]
    BY <1>3, <2>1, MarkedTyped
  <2>3. /\ Marked(discarded, scope) \in [Keys -> 0..MaxVersion]
        /\ \A k \in Keys : Marked(discarded, scope)[k] <= server[k]
        /\ \A k \in Keys \ scope : Marked(discarded, scope)[k] = discarded[k]
    BY <1>3, <2>1, MarkedTyped
  <2> QED  BY <1>1, <1>3, <2>1, <2>2, <2>3
<1>5. generation' \in 0..MaxGeneration /\ generation <= generation' /\ generation \in Nat
      /\ MaxGeneration \in Nat /\ MaxVersion \in Nat
  <2>1. generation < MaxGeneration /\ generation' \in {generation, generation + 1}
    BY <1>1
  <2> QED  BY <2>1, CacheAssumption DEF IInv, TypeOK
<1>6. /\ Cached' = left
      /\ \A k \in left \ kept : entries'[k] = entries[k] /\ entries[k] \in Entry
      /\ \A k \in kept : /\ entries'[k].state = "stale" /\ entries'[k].pending = FALSE
                         /\ entries'[k].version = entries[k].version
                         /\ entries'[k].version # NoData
                         /\ entries'[k].generation = generation + 1
                         /\ generation' = generation + 1
                         /\ entries'[k] \in Entry
  <2>1. Cached' = left
    BY <1>1 DEF Cached
  <2>2. \A k \in left \ kept : entries'[k] = entries[k] /\ entries[k] \in Entry
    BY <1>1, <1>3, EntryTyped
  <2>3. ASSUME NEW k \in kept
        PROVE  /\ entries'[k].state = "stale" /\ entries'[k].pending = FALSE
               /\ entries'[k].version = entries[k].version
               /\ entries'[k].version # NoData
               /\ entries'[k].generation = generation + 1
               /\ generation' = generation + 1 /\ entries'[k] \in Entry
    <3>1. k \in left /\ entries[k] \in Entry /\ entries[k].version # NoData /\ matched # {}
      BY <1>3, EntryTyped
    <3>2. entries'[k] = [entries[k] EXCEPT !.state = "stale", !.pending = FALSE,
                                           !.generation = generation + 1]
      BY <1>1, <3>1
    <3>3. generation + 1 \in 0..MaxGeneration /\ generation' = generation + 1
      BY <1>1, <1>5, <3>1
    <3> QED  BY <3>1, <3>2, <3>3 DEF Entry
  <2> QED  BY <2>1, <2>2, <2>3
<1>7. entries' \in [left -> Entry]
  BY <1>1, <1>6
<1>8. TypeOK'
  <2>1. \A k \in left : /\ (entries'[k].state = "loading") = (entries'[k].version = NoData)
                        /\ entries'[k].state = "loaded" => ~entries'[k].pending
    BY <1>3, <1>6 DEF IInv, TypeOK
  <2> QED  BY <1>1, <1>2, <1>3, <1>4, <1>5, <1>6, <1>7, <2>1 DEF IInv, TypeOK, Cached
<1>9. Small'
  BY <1>3, <1>6, SmallerStaysSmall DEF IInv
<1>10. Numbered'
  <2>1. \A k \in left : entries'[k].generation <= generation'
    BY <1>3, <1>5, <1>6, EntryTyped DEF IInv, Numbered
  <2>2. \A l \in loads : l.generation <= generation'
    BY <1>5, LoadTyped DEF IInv, Numbered
  <2> QED  BY <1>1, <1>6, <2>1, <2>2 DEF IInv, Numbered
<1>11. ASSUME NEW l \in loads, Current(l)'
       PROVE  l.key \in left \ kept /\ Current(l)
  <2>1. l.generation # generation + 1
    BY <1>5, LoadTyped DEF IInv, Numbered
  <2> QED  BY <1>3, <1>6, <1>11, <2>1 DEF Current
<1>12. Ordered'
  <2>1. \A k \in left : entries'[k].version <= server[k]
    BY <1>3, <1>6 DEF IInv, Ordered
  <2>2. ASSUME NEW l \in loads, Current(l)', l.read # NoData
        PROVE  /\ l.read >= entries'[l.key].version
               /\ l.read >= invalidated'[l.key] /\ l.read >= discarded'[l.key]
    BY <1>4, <1>6, <1>11, <2>2 DEF IInv, Ordered
  <2> QED  BY <1>1, <1>4, <1>6, <2>1, <2>2 DEF IInv, Ordered
<1>13. PromisesAreLive'
  <2>1. loads' = loads
    BY <1>1
  <2> SUFFICES ASSUME NEW k \in left
               PROVE /\ entries'[k].version = NoData => entries'[k].pending
                     /\ entries'[k].pending => \E l \in loads :
                           l.key = k /\ l.generation = entries'[k].generation
    BY <1>6, <2>1 DEF PromisesAreLive
  <2>2. CASE k \in kept
    BY <1>6, <2>2
  <2>3. CASE k \notin kept
    BY <1>3, <1>6, <2>3 DEF IInv, PromisesAreLive
  <2> QED  BY <2>2, <2>3
<1>14. LoadedSinceInvalidation' /\ DiscardedStaysGone'
  BY <1>3, <1>4, <1>6 DEF IInv, LoadedSinceInvalidation, DiscardedStaysGone
<1> QED  BY <1>8, <1>9, <1>10, <1>12, <1>13, <1>14 DEF IInv
-----------------------------------------------------------------------------
LEMMA NextIInv == ASSUME IInv, [Next]_vars PROVE IInv'
<1>1. ASSUME NEW k \in Keys, Get(k) PROVE IInv'
  BY <1>1, GetIInv
<1>2. ASSUME NEW k \in Keys, JoinOrHit(k) PROVE IInv'
  BY <1>2, JoinOrHitIInv
<1>3. ASSUME NEW k \in Keys, Reload(k) PROVE IInv'
  BY <1>3, ReloadIInv
<1>4. ASSUME NEW k \in Keys, Miss(k) PROVE IInv'
  BY <1>4, MissIInv
<1>5. ASSUME NEW k \in Keys, ServerWrites(k) PROVE IInv'
  BY <1>5, ServerWritesIInv
<1>6. ASSUME NEW l \in loads, LoaderReads(l) PROVE IInv'
  BY <1>6, LoaderReadsIInv
<1>7. ASSUME NEW l \in loads, Succeeds(l) PROVE IInv'
  BY <1>7, SucceedsIInv
<1>8. ASSUME NEW l \in loads, Fails(l) PROVE IInv'
  BY <1>8, FailsIInv
<1>9. ASSUME NEW g \in Groups, NEW owners \in SUBSET Owners, NEW discard \in BOOLEAN,
             Invalidate(g, owners, discard)
      PROVE  IInv'
  BY <1>9, InvalidateIInv
<1>10. ASSUME NEW o \in Owners, InvalidateCompany(o) PROVE IInv'
  BY <1>10, DiscardOwnersIInv DEF InvalidateCompany
<1>11. CASE Clear
  BY <1>11, DiscardOwnersIInv DEF Clear
<1>12. CASE UNCHANGED vars
  BY <1>12 DEF vars, IInv, TypeOK, Small, Bounded, Numbered, Ordered, Current, Cached,
               PromisesAreLive, LoadedSinceInvalidation, DiscardedStaysGone
<1> QED
  BY <1>1, <1>2, <1>3, <1>4, <1>5, <1>6, <1>7, <1>8, <1>9, <1>10, <1>11, <1>12 DEF Next

LEMMA AlwaysIInv == Spec => []IInv
<1>1. Init => IInv
  BY InitIInv
<1>2. IInv /\ [Next]_vars => IInv'
  BY NextIInv
<1> QED  BY <1>1, <1>2, PTL DEF Spec

(* The cache of src/src/lib/workspaceLoadCache.ts never holds more entries *)
(* than maxEntries, and its state is well formed.                          *)
THEOREM CacheBounded == Spec => []Bounded
<1>1. IInv => Bounded
  BY DEF IInv, Small
<1> QED  BY <1>1, AlwaysIInv, PTL

THEOREM CacheTypeCorrect == Spec => []TypeOK
<1>1. IInv => TypeOK
  BY DEF IInv
<1> QED  BY <1>1, AlwaysIInv, PTL

(* getOrLoad() only joins a load in flight whose answer will be accepted.  *)
THEOREM PromisesStayLive == Spec => []PromisesAreLive
<1>1. IInv => PromisesAreLive
  BY DEF IInv
<1> QED  BY <1>1, AlwaysIInv, PTL

(* What the cache presents as loaded was read after the last invalidation  *)
(* of its key, and no discarded data is presented at all.                  *)
THEOREM LoadedDataIsCurrent == Spec => []LoadedSinceInvalidation
<1>1. IInv => LoadedSinceInvalidation
  BY DEF IInv
<1> QED  BY <1>1, AlwaysIInv, PTL

THEOREM DiscardedDataIsGone == Spec => []DiscardedStaysGone
<1>1. IInv => DiscardedStaysGone
  BY DEF IInv
<1> QED  BY <1>1, AlwaysIInv, PTL

(* Data of an entry that stays cached is only ever replaced by newer data: *)
(* the load it waits for read the server after that data was read.         *)
THEOREM DataOnlyMovesForward == Spec => DataMovesForward
<1> DEFINE Forward == \A k \in Cached : k \in Cached' => entries'[k].version >= entries[k].version
<1>1. ASSUME IInv, [Next]_vars PROVE [Forward]_vars
  <2>0. \A k \in Cached : entries[k].version \in Nat
    BY <1>1, EntryTyped, CacheAssumption
  <2>1. ASSUME NEW k \in Keys, Get(k) PROVE Forward
    <3>1. PICK seen : entries' = [entries EXCEPT ![k].state = seen]
      BY <2>1 DEF Get
    <3>2. \A j \in Cached : entries'[j].version = entries[j].version
      BY <1>1, <3>1, EntryTyped DEF Cached, Entry
    <3> QED  BY <2>0, <3>2
  <2>2. ASSUME NEW k \in Keys, Reload(k) PROVE Forward
    <3>1. k \in Cached /\ entries' = [entries EXCEPT ![k] = Begun(entries[k].version)]
      BY <2>2 DEF Reload
    <3>2. \A j \in Cached : entries'[j].version = entries[j].version
      BY <1>1, <3>1 DEF Cached, Begun
    <3> QED  BY <2>0, <3>2
  <2>3. ASSUME NEW k \in Keys, Miss(k) PROVE Forward
    <3>1. k \notin Cached
      BY <2>3 DEF Miss
    <3>2. PICK D : entries' = [j \in D |-> IF j = k THEN Begun(NoData) ELSE entries[j]]
      BY <2>3 DEF Miss, Create
    <3>3. \A j \in Cached : j \in Cached' => entries'[j] = entries[j]
      BY <3>1, <3>2 DEF Cached
    <3> QED  BY <2>0, <3>3
  <2>4. ASSUME NEW l \in loads, Succeeds(l) PROVE Forward
    <3>1. CASE ~Current(l)
      BY <2>0, <2>4, <3>1 DEF Succeeds
    <3>2. CASE Current(l)
      <4>1. /\ l.read # NoData /\ l.key \in Cached
            /\ entries' = [entries EXCEPT ![l.key] =
                  [@ EXCEPT !.state = "loaded", !.version = l.read, !.pending = FALSE]]
        BY <2>4, <3>2 DEF Succeeds, Current
      <4>2. l.read >= entries[l.key].version /\ entries[l.key] \in Entry
        BY <1>1, <3>2, <4>1, EntryTyped DEF IInv, Ordered
      <4>3. /\ entries'[l.key].version = l.read
            /\ \A j \in Cached \ {l.key} : entries'[j] = entries[j]
        BY <4>1, <4>2 DEF Cached, Entry
      <4> QED  BY <2>0, <4>2, <4>3
    <3> QED  BY <3>1, <3>2
  <2>5. ASSUME NEW l \in loads, Fails(l) PROVE Forward
    <3>1. CASE UNCHANGED entries
      BY <2>0, <3>1
    <3>2. CASE entries' = [entries EXCEPT ![l.key] = [@ EXCEPT !.state = "stale", !.pending = FALSE]]
      <4>1. \A j \in Cached : entries'[j].version = entries[j].version
        BY <1>1, <3>2, EntryTyped DEF Cached, Entry
      <4> QED  BY <2>0, <4>1
    <3>3. CASE entries' = [k \in Cached \ {l.key} |-> entries[k]]
      <4>1. \A j \in Cached : j \in Cached' => entries'[j] = entries[j]
        BY <3>3 DEF Cached
      <4> QED  BY <2>0, <4>1
    <3> QED  BY <2>5, <3>1, <3>2, <3>3 DEF Fails
  <2>6. ASSUME NEW g \in Groups, NEW owners \in SUBSET Owners, NEW discard \in BOOLEAN,
               Invalidate(g, owners, discard)
        PROVE  Forward
    <3> DEFINE matched == Of(g, owners) \cap Cached
               gone == {k \in matched : discard \/ entries[k].version = NoData}
               kept == matched \ gone
               left == Cached \ gone
    <3>1. entries' = [k \in left |->
              IF k \in kept
              THEN [entries[k] EXCEPT !.state = "stale", !.pending = FALSE,
                                      !.generation = generation + 1]
              ELSE entries[k]]
      BY <2>6 DEF Invalidate
    <3> HIDE DEF kept, left
    <3>2. ASSUME NEW j \in Cached, j \in Cached' PROVE entries'[j].version = entries[j].version
      <4>1. j \in left /\ entries[j] \in Entry
        BY <1>1, <3>1, <3>2, EntryTyped DEF Cached
      <4>2. CASE j \in kept
        <5>1. entries'[j] = [entries[j] EXCEPT !.state = "stale", !.pending = FALSE,
                                               !.generation = generation + 1]
          BY <3>1, <4>1, <4>2
        <5> QED  BY <4>1, <5>1 DEF Entry
      <4>3. CASE j \notin kept
        BY <3>1, <4>1, <4>3
      <4> QED  BY <4>2, <4>3
    <3> QED  BY <2>0, <3>2
  <2>7. ASSUME NEW owners, DiscardOwners(owners) PROVE Forward
    <3>1. PICK D : entries' = [k \in D |-> entries[k]]
      BY <2>7 DEF DiscardOwners
    <3>2. \A j \in Cached : j \in Cached' => entries'[j] = entries[j]
      BY <3>1 DEF Cached
    <3> QED  BY <2>0, <3>2
  <2>8. ASSUME UNCHANGED entries PROVE Forward
    BY <2>0, <2>8
  <2> HIDE DEF Forward
  <2> QED
    BY <1>1, <2>1, <2>2, <2>3, <2>4, <2>5, <2>6, <2>7, <2>8
    DEF Next, JoinOrHit, ServerWrites, LoaderReads, InvalidateCompany, Clear
<1>2. Spec => [][Forward]_vars
  BY <1>1, AlwaysIInv, PTL DEF Spec
<1> QED  BY <1>2 DEF DataMovesForward
=============================================================================
