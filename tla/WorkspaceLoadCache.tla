-------------------------- MODULE WorkspaceLoadCache --------------------------
(***************************************************************************)
(* createWorkspaceLoadCache of src/src/lib/workspaceLoadCache.ts: the      *)
(* bounded stale-while-revalidate cache between the workspace and its      *)
(* loaders, keyed by user, company and group.                              *)
(*                                                                         *)
(* A call of the cache runs to its end before any other callback, so it is *)
(* one action; a loader is two more: it reads the server at some moment,   *)
(* and its promise settles later.  Loads of one key overlap when the key   *)
(* was invalidated, evicted or cleared while one was in flight.            *)
(*                                                                         *)
(* Data is the version of the server's data that it shows.  accessSequence *)
(* is modelled by the order it puts on entries; the clock by letting any   *)
(* loaded entry be found expired.                                          *)
(***************************************************************************)
EXTENDS Naturals, FiniteSets

CONSTANTS
    Owners,         \* pairs of a user and a company
    Groups,         \* refresh groups
    MaxEntries,
    MaxVersion,     \* bound on the server's writes
    MaxGeneration   \* bound on loads and invalidations

ASSUME CacheAssumption ==
    /\ MaxEntries \in Nat \ {0}
    /\ MaxVersion \in Nat \ {0} /\ MaxGeneration \in Nat

Keys == Owners \X Groups
NoData == 0         \* hasData = FALSE, or a loader that has read nothing yet

VARIABLES
    entries,        \* the cached entries, a function on some of the keys
    newer,          \* for each entry, those accessed after it
    generation,     \* generationSequence
    loads,          \* loaders in flight
    server,         \* version of the data of each key on the server
    invalidated,    \* history: that version when the key was last invalidated
    discarded       \* history: and when its data was last discarded

vars == <<entries, newer, generation, loads, server, invalidated, discarded>>

Versions == 1..MaxVersion
Entry == [state : {"loading", "loaded", "stale"}, version : 0..MaxVersion,
          generation : 0..MaxGeneration, pending : BOOLEAN]
Load == [key : Keys, generation : 0..MaxGeneration, read : 0..MaxVersion]
Cached == DOMAIN entries

TypeOK ==
    /\ Cached \subseteq Keys /\ entries \in [Cached -> Entry]
    /\ \A k \in Cached : /\ (entries[k].state = "loading") = (entries[k].version = NoData)
                         /\ entries[k].state = "loaded" => ~entries[k].pending
    /\ newer \in [Keys -> SUBSET Keys]
    /\ generation \in 0..MaxGeneration
    /\ loads \subseteq Load
    /\ server \in [Keys -> Versions]
    /\ invalidated \in [Keys -> 0..MaxVersion]
    /\ discarded \in [Keys -> 0..MaxVersion]

Init ==
    /\ entries = [k \in {} |-> {}]
    /\ newer = [k \in Keys |-> {}]
    /\ generation = 0
    /\ loads = {}
    /\ server = [k \in Keys |-> 1]
    /\ invalidated = [k \in Keys |-> 0]
    /\ discarded = [k \in Keys |-> 0]
-----------------------------------------------------------------------------
(* touch(): k becomes the entry accessed last among those of D.            *)
Touch(k, D) ==
    newer' = [j \in Keys |-> IF j \in D \ {k} THEN (newer[j] \cap D) \cup {k} ELSE {}]

Forget(D) == newer' = [j \in Keys |-> IF j \in D THEN newer[j] \cap D ELSE {}]

Oldest(k) == k \in Cached /\ Cached \ {k} \subseteq newer[k]

(* get(): an expired entry turns stale.                                    *)
Get(k) ==
    /\ k \in Cached
    /\ \E seen \in {"stale", entries[k].state} :
          /\ entries[k].state # "loaded" => seen = entries[k].state
          /\ entries' = [entries EXCEPT ![k].state = seen]
    /\ Touch(k, Cached)
    /\ UNCHANGED <<generation, loads, server, invalidated, discarded>>

(***************************************************************************)
(* getOrLoad(): join the load in flight, forced or not; answer from a      *)
(* fresh entry; reload an entry that is stale, expired or forced; or       *)
(* create the entry, evicting the oldest one if there are too many.        *)
(***************************************************************************)
JoinOrHit(k) ==
    /\ k \in Cached
    /\ entries[k].pending \/ entries[k].state = "loaded"
    /\ Touch(k, Cached)
    /\ UNCHANGED <<entries, generation, loads, server, invalidated, discarded>>

Begun(version) ==
    [state |-> IF version = NoData THEN "loading" ELSE "stale", version |-> version,
     generation |-> generation + 1, pending |-> TRUE]

StartLoad(k) ==
    /\ generation < MaxGeneration
    /\ generation' = generation + 1
    /\ loads' = loads \cup {[key |-> k, generation |-> generation + 1, read |-> NoData]}
    /\ UNCHANGED <<server, invalidated, discarded>>

Reload(k) ==
    /\ k \in Cached /\ ~entries[k].pending
    /\ StartLoad(k)
    /\ entries' = [entries EXCEPT ![k] = Begun(entries[k].version)]
    /\ Touch(k, Cached)

Create(k, D) ==
    /\ entries' = [j \in D |-> IF j = k THEN Begun(NoData) ELSE entries[j]]
    /\ Touch(k, D)

Miss(k) ==
    /\ k \notin Cached
    /\ StartLoad(k)
    /\ \/ Cardinality(Cached) < MaxEntries /\ Create(k, Cached \cup {k})
       \/ /\ Cardinality(Cached) >= MaxEntries
          /\ \E v \in Cached : Oldest(v) /\ Create(k, (Cached \ {v}) \cup {k})
-----------------------------------------------------------------------------
(* The loader's query is answered ...                                      *)
LoaderReads(l) ==
    /\ l \in loads /\ l.read = NoData
    /\ loads' = (loads \ {l}) \cup {[l EXCEPT !.read = server[l.key]]}
    /\ UNCHANGED <<entries, newer, generation, server, invalidated, discarded>>

(* ... and its promise settles.  Only the load an entry waits for counts;  *)
(* trim() has nothing to do then, no entry was added.                      *)
CurrentByIdentity(l) == l.key \in Cached

Current(l) == l.key \in Cached /\ entries[l.key].generation = l.generation

SucceedsKeepingPromise(l) ==
    /\ l \in loads /\ l.read # NoData
    /\ loads' = loads \ {l}
    /\ IF Current(l)
       THEN /\ entries' = [entries EXCEPT ![l.key] =
                             [@ EXCEPT !.state = "loaded", !.version = l.read]]
            /\ Touch(l.key, Cached)
       ELSE UNCHANGED <<entries, newer>>
    /\ UNCHANGED <<generation, server, invalidated, discarded>>

Succeeds(l) ==
    /\ l \in loads /\ l.read # NoData
    /\ loads' = loads \ {l}
    /\ IF Current(l)
       THEN /\ entries' = [entries EXCEPT ![l.key] =
                             [@ EXCEPT !.state = "loaded", !.version = l.read, !.pending = FALSE]]
            /\ Touch(l.key, Cached)
       ELSE UNCHANGED <<entries, newer>>
    /\ UNCHANGED <<generation, server, invalidated, discarded>>

Fails(l) ==
    /\ l \in loads
    /\ loads' = loads \ {l}
    /\ \/ ~Current(l) /\ UNCHANGED <<entries, newer>>
       \/ /\ Current(l) /\ entries[l.key].version # NoData
          /\ entries' = [entries EXCEPT ![l.key] = [@ EXCEPT !.state = "stale", !.pending = FALSE]]
          /\ Touch(l.key, Cached)
       \/ /\ Current(l) /\ entries[l.key].version = NoData
          /\ entries' = [k \in Cached \ {l.key} |-> entries[k]]
          /\ Forget(Cached \ {l.key})
    /\ UNCHANGED <<generation, server, invalidated, discarded>>
-----------------------------------------------------------------------------
Of(g, owners) == {k \in Keys : k[1] \in owners /\ k[2] = g}

Marked(history, ks) == [k \in Keys |-> IF k \in ks THEN server[k] ELSE history[k]]

(* invalidateGroup(group, scope, {discard}): matching entries lose their   *)
(* load, and with discard, or without data, go.  The rest is touched, in   *)
(* the order of the map, which is left open.                               *)
Invalidate(g, owners, discard) ==
    LET matched == Of(g, owners) \cap Cached
        gone == {k \in matched : discard \/ entries[k].version = NoData}
        kept == matched \ gone
        left == Cached \ gone
    IN  /\ generation < MaxGeneration
        /\ generation' = IF matched = {} THEN generation ELSE generation + 1
        /\ entries' = [k \in left |->
              IF k \in kept
              THEN [entries[k] EXCEPT !.state = "stale", !.pending = FALSE,
                                      !.generation = generation + 1]
              ELSE entries[k]]
        /\ \E turn \in [kept -> 1..Cardinality(kept)] :
              /\ \A j, k \in kept : j # k => turn[j] # turn[k]
              /\ newer' = [j \in Keys |->
                    IF j \in kept THEN {k \in kept : turn[k] > turn[j]}
                    ELSE IF j \in left THEN (newer[j] \cap left) \cup kept ELSE {}]
        /\ invalidated' = Marked(invalidated, Of(g, owners))
        /\ discarded' = IF discard THEN Marked(discarded, Of(g, owners)) ELSE discarded
        /\ UNCHANGED <<loads, server>>

(* invalidateCompany(scope), and clear() for all owners.  Loads in flight  *)
(* find their entry gone.                                                  *)
DiscardOwners(owners) ==
    LET gone == {k \in Keys : k[1] \in owners}
    IN  /\ generation < MaxGeneration
        /\ generation' = IF Cached \cap gone = {} THEN generation ELSE generation + 1
        /\ entries' = [k \in Cached \ gone |-> entries[k]]
        /\ Forget(Cached \ gone)
        /\ invalidated' = Marked(invalidated, gone)
        /\ discarded' = Marked(discarded, gone)
        /\ UNCHANGED <<loads, server>>

InvalidateCompany(o) == DiscardOwners({o})
Clear == Cached # {} /\ DiscardOwners(Owners)

(* The server's data changes.                                              *)
ServerWrites(k) ==
    /\ server[k] < MaxVersion
    /\ server' = [server EXCEPT ![k] = @ + 1]
    /\ UNCHANGED <<entries, newer, generation, loads, invalidated, discarded>>
-----------------------------------------------------------------------------
Next ==
    \/ \E k \in Keys : Get(k) \/ JoinOrHit(k) \/ Reload(k) \/ Miss(k) \/ ServerWrites(k)
    \/ \E l \in loads : LoaderReads(l) \/ Succeeds(l) \/ Fails(l)
    \/ \E g \in Groups, owners \in SUBSET Owners, discard \in BOOLEAN :
          Invalidate(g, owners, discard)
    \/ \E o \in Owners : InvalidateCompany(o)
    \/ Clear

Spec == Init /\ [][Next]_vars
-----------------------------------------------------------------------------
(* The cache never holds more entries than it was told to.                 *)
Bounded == Cardinality(Cached) <= MaxEntries

(* No request joins a dead promise: an entry that claims a load in flight  *)
(* has one, whose completion will be accepted; and an entry without data   *)
(* always has such a load, so it is filled or removed.                     *)
PromisesAreLive ==
    \A k \in Cached :
       /\ entries[k].version = NoData => entries[k].pending
       /\ entries[k].pending =>
             \E l \in loads : l.key = k /\ l.generation = entries[k].generation

(* What is presented as loaded is as new as the key's last invalidation,   *)
(* however late loads begun before it complete.                            *)
LoadedSinceInvalidation ==
    \A k \in Cached : entries[k].state = "loaded" => entries[k].version >= invalidated[k]

(* Discarded data does not come back: not by a load begun before an        *)
(* identity change, an eviction or a clear.                                *)
DiscardedStaysGone ==
    \A k \in Cached : entries[k].version # NoData => entries[k].version >= discarded[k]

(* While an entry stays cached its data never goes back to an older one.   *)
DataMovesForward ==
    [][\A k \in Cached : k \in Cached' => entries'[k].version >= entries[k].version]_vars
=============================================================================
