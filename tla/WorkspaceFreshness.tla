-------------------------- MODULE WorkspaceFreshness --------------------------
(***************************************************************************)
(* How the workspace on the screen follows the database: the realtime      *)
(* channel, the browser's focus and online signals, the session controller *)
(* (src/src/lib/workspaceSync.ts), the first load, the refresh handler and *)
(* the loads they share (App.tsx and lib/workspaceLoadCache.ts).           *)
(*                                                                         *)
(* The scheduler between requests and refreshes is RefreshQueue, which     *)
(* WorkspaceSyncScheduler implements.  Of the load cache only the sharing  *)
(* of loads in flight matters: every load but the first is forced, and the *)
(* cache is cleared at sign-out.  The indicator of the sync status, which  *)
(* decides nothing, is left out.                                           *)
(*                                                                         *)
(* One user signs in and out.  The data of a group is a version number: a  *)
(* load, whose queries may be answered one after the other, shows at least *)
(* the version it found when the first was.                                *)
(***************************************************************************)
EXTENDS RefreshQueue, Naturals

CONSTANTS
    MaxVersion,     \* bound on changes of the data of a group
    MaxGeneration,  \* bound on sign-outs
    Saves           \* whether handlers that saved something refresh directly

ASSUME FreshnessAssumption ==
    MaxVersion \in Nat \ {0} /\ MaxGeneration \in Nat /\ Saves \in BOOLEAN

VARIABLES
    server,         \* version of each group in the database
    view,           \* version of each group on the screen, 0 for none
    generation,     \* workspaceGenerationRef
    online,         \* navigator.onLine
    onlineSignal,   \* the browser's online event is due
    subscribed,     \* the realtime channel delivers
    events,         \* realtime events on their way
    fallback,       \* the state of createWorkspaceSyncFallback
    initial,        \* the first load: "profile", "loading" or "done"
    handler,        \* the refresh handler: "idle", "waiting" or "running"
    loads,          \* loads in flight
    due             \* history: for each group the version that the client was told of
                    \* and neither shows nor failed to load, 0 for none

net == <<server, online, onlineSignal, subscribed, events>>
session == <<view, generation, due>>
work == <<initial, handler, loads>>
vars == <<queueVars, net, session, work, fallback>>

Versions == 0..MaxVersion
Load == [group : Groups, generation : 0..MaxGeneration, read : Versions,
         waits : SUBSET {"initial", "refresh", "save"}]
Mine(l) == l.generation = generation

TypeOK ==
    /\ QueueTypeOK
    /\ server \in [Groups -> 1..MaxVersion]
    /\ view \in [Groups -> Versions] /\ due \in [Groups -> Versions]
    /\ generation \in 0..MaxGeneration
    /\ online \in BOOLEAN /\ onlineSignal \in BOOLEAN
    /\ subscribed \in BOOLEAN /\ events \subseteq Groups \X Versions
    /\ fallback \in [pendingReasons : BOOLEAN, cooling : BOOLEAN, scheduled : BOOLEAN]
    /\ initial \in {"profile", "loading", "done"}
    /\ handler \in {"idle", "waiting", "running"} /\ (handler = "idle") = (active = {})
    /\ loads \subseteq Load

Blank == [g \in Groups |-> 0]
Rested == [pendingReasons |-> FALSE, cooling |-> FALSE, scheduled |-> FALSE]

(* Nobody has signed in: the workspace is closed.                          *)
Init ==
    /\ owed = {} /\ active = {} /\ closed = TRUE
    /\ server = [g \in Groups |-> 1]
    /\ view = Blank /\ due = Blank /\ generation = 0
    /\ online = TRUE /\ onlineSignal = FALSE
    /\ subscribed = FALSE /\ events = {}
    /\ fallback = Rested
    /\ initial = "done" /\ handler = "idle" /\ loads = {}

(* The client is told that there is version v of group g.                  *)
Told(g, v) == IF v > view[g] /\ v > due[g] THEN v ELSE due[g]

Request(gs) == owed' = owed \cup gs /\ Ask
-----------------------------------------------------------------------------
(* The network: changes, by whomever, with their events; the channel; the  *)
(* browser's connection.                                                   *)
ServerChanges(g) ==
    /\ server[g] < MaxVersion
    /\ server' = [server EXCEPT ![g] = @ + 1]
    /\ events' = IF subscribed THEN events \cup {<<g, server[g] + 1>>} ELSE events
    /\ UNCHANGED <<queueVars, session, work, fallback, online, onlineSignal, subscribed>>

(* onStatus.  Nothing is asked for when the channel is back, and events of *)
(* a channel that went down are lost.                                      *)
ChannelStatus ==
    /\ ~closed
    /\ subscribed' = ~subscribed
    /\ events' = {}
    /\ UNCHANGED <<queueVars, session, work, fallback, server, online, onlineSignal>>

(* onTableChange and the controller's requestRefresh: offline, it is       *)
(* forgotten.                                                              *)
Deliver(g, v) ==
    /\ ~closed
    /\ <<g, v>> \in events
    /\ events' = events \ {<<g, v>>}
    /\ due' = [due EXCEPT ![g] = Told(g, v)]
    /\ IF online THEN Request({g}) ELSE UNCHANGED queueVars
    /\ UNCHANGED <<work, view, generation, fallback, server, online, onlineSignal, subscribed>>

GoOffline ==
    /\ online
    /\ online' = FALSE
    /\ UNCHANGED <<queueVars, session, work, fallback, server, onlineSignal, subscribed, events>>

GoOnline ==
    /\ ~online
    /\ online' = TRUE
    /\ onlineSignal' = ~closed
    /\ UNCHANGED <<queueVars, session, work, fallback, server, subscribed, events>>
-----------------------------------------------------------------------------
(* createWorkspaceSyncFallback.  trigger(): a signal refreshes everything, *)
(* at once or when the cooldown since the last one ends.                   *)
Dispatch ==
    /\ fallback' = [pendingReasons |-> FALSE, cooling |-> TRUE, scheduled |-> FALSE]
    /\ Request(Groups)

Trigger ==
    /\ due' = [g \in Groups |-> Told(g, server[g])]
    /\ \/ ~fallback.cooling /\ Dispatch
       \/ /\ fallback.cooling
          /\ fallback' = [fallback EXCEPT !.pendingReasons = TRUE, !.scheduled = TRUE]
          /\ UNCHANGED queueVars

(* The window is focused or the document shown; offline that is ignored.   *)
FocusSignal ==
    /\ ~closed /\ online
    /\ Trigger
    /\ UNCHANGED <<net, work, view, generation>>

(* The browser's online event, which may come when it is offline again.    *)
OnlineSignal ==
    /\ ~closed /\ onlineSignal
    /\ onlineSignal' = FALSE
    /\ IF online THEN Trigger ELSE UNCHANGED <<queueVars, due, fallback>>
    /\ UNCHANGED <<work, view, generation, server, online, subscribed, events>>

CooldownEnds ==
    /\ fallback.cooling
    /\ fallback' = [fallback EXCEPT !.cooling = FALSE]
    /\ UNCHANGED <<queueVars, net, session, work>>

(* The timer of scheduleDispatch(): offline, the reasons stay pending.     *)
TimerFires ==
    /\ ~closed /\ fallback.scheduled /\ ~fallback.cooling
    /\ IF online /\ fallback.pendingReasons
       THEN Dispatch
       ELSE fallback' = [fallback EXCEPT !.scheduled = FALSE] /\ UNCHANGED queueVars
    /\ UNCHANGED <<net, session, work>>
-----------------------------------------------------------------------------
(* refreshWorkspaceGroups(): one getOrLoad per group, which joins the load *)
(* of the group in flight or starts one.                                   *)
InFlight(g) == {l \in loads : l.group = g /\ Mine(l)}

Started(g, caller) ==
    [group |-> g, generation |-> generation, read |-> 0, waits |-> {caller}]

WithUnshared(gs, caller) == loads \cup {Started(g, caller) : g \in gs}

With(gs, caller) ==
    {IF l.group \in gs /\ Mine(l) THEN [l EXCEPT !.waits = @ \cup {caller}] ELSE l : l \in loads}
      \cup {Started(g, caller) : g \in {h \in gs : InFlight(h) = {}}}

Awaited(caller) == \E l \in loads : Mine(l) /\ caller \in l.waits

(* loadWorkspaceGuarded(): the profile, then every group; a failure of     *)
(* either is reported and not retried.                                     *)
ProfileAnswers ==
    /\ initial = "profile"
    /\ \/ initial' = "loading" /\ loads' = With(Groups, "initial")
       \/ initial' = "done" /\ UNCHANGED loads
    /\ UNCHANGED <<queueVars, net, session, fallback, handler>>

InitialEnds ==
    /\ initial = "loading" /\ ~Awaited("initial")
    /\ initial' = "done"
    /\ UNCHANGED <<queueVars, net, session, fallback, handler, loads>>

(* The scheduler calls the controller's refresh, which does nothing while  *)
(* offline, and otherwise the handler of App.tsx, which first awaits the   *)
(* first load.                                                             *)
RefreshBegins ==
    /\ Begin
    /\ handler' = IF online THEN "waiting" ELSE "running"
    /\ UNCHANGED <<net, session, fallback, initial, loads>>

HandlerLoadsAtOnce ==
    /\ handler = "waiting"
    /\ handler' = "running"
    /\ loads' = IF closed THEN loads ELSE With(active, "refresh")
    /\ UNCHANGED <<queueVars, net, session, fallback, initial>>

HandlerLoads ==
    /\ handler = "waiting" /\ initial = "done"
    /\ handler' = "running"
    /\ loads' = IF closed THEN loads ELSE With(active, "refresh")
    /\ UNCHANGED <<queueVars, net, session, fallback, initial>>

RefreshEnds ==
    /\ handler = "running" /\ ~Awaited("refresh")
    /\ End
    /\ handler' = "idle"
    /\ UNCHANGED <<net, session, fallback, initial, loads>>

(* A handler that has saved something refreshes its group by itself.  The  *)
(* user can save once the first load has ended (workspaceLoading).         *)
DirectRefresh(g) ==
    /\ Saves /\ ~closed /\ initial = "done"
    /\ loads' = With({g}, "save")
    /\ UNCHANGED <<queueVars, net, session, fallback, initial, handler>>
-----------------------------------------------------------------------------
LoadReads(l) ==
    /\ l.read = 0
    /\ loads' = (loads \ {l}) \cup {[l EXCEPT !.read = server[l.group]]}
    /\ UNCHANGED <<queueVars, net, session, fallback, initial, handler>>

(* canApplyWorkspaceResult(): not after sign-out, nor in a later session.  *)
AppliesAnyTime(l) == TRUE

AppliesInAnySession(l) == ~closed

Applies(l) == ~closed /\ Mine(l)

LoadSucceeds(l) ==
    /\ l.read # 0
    /\ loads' = loads \ {l}
    /\ view' = IF Applies(l) THEN [view EXCEPT ![l.group] = l.read] ELSE view
    /\ due' = IF Applies(l) /\ l.read >= due[l.group] THEN [due EXCEPT ![l.group] = 0] ELSE due
    /\ UNCHANGED <<queueVars, net, generation, fallback, initial, handler>>

LoadFails(l) ==
    /\ loads' = loads \ {l}
    /\ due' = IF Applies(l) THEN [due EXCEPT ![l.group] = 0] ELSE due
    /\ UNCHANGED <<queueVars, net, view, generation, fallback, initial, handler>>
-----------------------------------------------------------------------------
(* The session effect: a new controller, its channel and its first load.   *)
SignIn ==
    /\ closed
    /\ closed' = FALSE /\ owed' = {} /\ active' = {}
    /\ fallback' = Rested
    /\ initial' = "profile" /\ handler' = "idle"
    /\ UNCHANGED <<net, session, loads>>

(* handleSignOut, with the cleanup of the session effect: the controller   *)
(* is disposed and the workspace emptied; loads in flight go on, and who   *)
(* waits for them will find the session gone.  A session that ends without *)
(* handleSignOut, which would keep its generation, is not modelled.        *)
SignOut ==
    /\ ~closed /\ generation < MaxGeneration
    /\ Close
    /\ generation' = generation + 1
    /\ view' = Blank /\ due' = Blank
    /\ subscribed' = FALSE /\ events' = {} /\ onlineSignal' = FALSE
    /\ fallback' = Rested
    /\ initial' = "done"
    /\ loads' = {[l EXCEPT !.waits = {}] : l \in loads}
    /\ UNCHANGED <<server, online, handler>>
-----------------------------------------------------------------------------
Next ==
    \/ \E g \in Groups : ServerChanges(g) \/ DirectRefresh(g)
    \/ \E e \in events : Deliver(e[1], e[2])
    \/ ChannelStatus \/ GoOffline \/ GoOnline
    \/ FocusSignal \/ OnlineSignal \/ CooldownEnds \/ TimerFires
    \/ ProfileAnswers \/ InitialEnds \/ RefreshBegins \/ HandlerLoads \/ RefreshEnds
    \/ \E l \in loads : LoadReads(l) \/ LoadSucceeds(l) \/ LoadFails(l)
    \/ SignIn \/ SignOut

Spec == Init /\ [][Next]_vars

Progress(g) == \E l \in loads : l.group = g /\ (LoadReads(l) \/ LoadSucceeds(l) \/ LoadFails(l))

(* Calls are answered or fail, timers and due events fire, and the         *)
(* scheduler, whose debounce is shorter than the cooldown between signals, *)
(* gets to its refresh.  Nobody owes a change, a signal or a connection.   *)
FairSpec ==
    /\ Spec
    /\ WF_vars(RefreshBegins) /\ WF_vars(HandlerLoads) /\ WF_vars(RefreshEnds)
    /\ WF_vars(ProfileAnswers) /\ WF_vars(InitialEnds)
    /\ WF_vars(OnlineSignal) /\ WF_vars(CooldownEnds) /\ WF_vars(TimerFires)
    /\ \A g \in Groups : WF_vars(Progress(g))
-----------------------------------------------------------------------------
(* Callers share loads: a session never has two of one group in flight,    *)
(* which could settle in the wrong order.                                  *)
OneLoadPerGroup == \A g \in Groups : \A l, m \in InFlight(g) : l = m

(* After sign-out no load that was in flight brings data back.             *)
SignedOutIsEmpty == closed => view = Blank

(* During a session the screen never goes back to older data, though loads *)
(* of the start, of refreshes, of saves and of earlier sessions settle in  *)
(* any order.  Sessions end by handleSignOut, which counts up generation.  *)
ViewMovesForward ==
    [][closed \/ closed' \/ \A g \in Groups : view'[g] >= view[g]]_vars

(* Whatever the client was told of, by an event or by being woken up, even *)
(* when it could do nothing about it while offline, is on the screen in    *)
(* the end, unless the load of the group fails, the user signs out, or a   *)
(* refresh shares the load that a save began, which may have read before   *)
(* the change it is to show.                                               *)
Shared == \E l \in loads : {"refresh", "save"} \subseteq l.waits

RequestsAreServed ==
    \A g \in Groups : (<>[]online /\ []~Shared) => (due[g] # 0 ~> due[g] = 0)
=============================================================================
