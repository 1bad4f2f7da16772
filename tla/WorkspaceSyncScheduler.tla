----------------------- MODULE WorkspaceSyncScheduler -----------------------
(***************************************************************************)
(* createWorkspaceSyncScheduler of src/src/lib/workspaceSync.ts: the       *)
(* debounced, coalescing scheduler behind every background refresh of the  *)
(* client's workspace.                                                     *)
(*                                                                         *)
(* JavaScript runs one callback at a time, so an action is one callback:   *)
(* a call of request, flush, whenIdle, cancel or dispose up to its first   *)
(* await, the timer's callback, the settling of the refresh promise (the   *)
(* finally block), or the resumption of one awaiting flush.  Resumptions   *)
(* are microtasks: the debounce timer cannot fire while one is ready.      *)
(*                                                                         *)
(* Reasons, timestamps and error texts label what happens and decide       *)
(* nothing here; they are left out.  A refresh handler is asynchronous, as *)
(* the one the controller passes is.                                       *)
(***************************************************************************)
EXTENDS Integers, FiniteSets

CONSTANTS
    Groups,         \* refresh groups a caller may name
    Flushers,       \* concurrent callers of flush()
    Waiters,        \* concurrent callers of whenIdle()
    Debounce        \* debounceMs, in ticks of the modelled clock

ASSUME DebounceAssumption == Debounce \in Nat

VARIABLES
    pendingGroups,  \* groups requested and not handed to a refresh
    timer,          \* ticks until the debounce timer fires, or NoTimer
    running,        \* groups of the refresh in flight
    refreshing,     \* a refresh is in flight; activePromise is its promise
    disposed,
    flusher,        \* per flush() caller: "idle", "awaiting" or "ready"
    waiter          \* per whenIdle() caller: "idle", "waiting" or "resolved"

vars == <<pendingGroups, timer, running, refreshing, disposed, flusher, waiter>>

NoTimer == Debounce + 1

FlushStates == {"idle", "awaiting", "ready"}
WaitStates  == {"idle", "waiting", "resolved"}

TypeOK ==
    /\ pendingGroups \subseteq Groups
    /\ timer \in 0..NoTimer
    /\ running \subseteq Groups
    /\ refreshing \in BOOLEAN
    /\ disposed \in BOOLEAN
    /\ flusher \in [Flushers -> FlushStates]
    /\ waiter \in [Waiters -> WaitStates]

Init ==
    /\ pendingGroups = {}
    /\ timer = NoTimer
    /\ running = {}
    /\ refreshing = FALSE
    /\ disposed = FALSE
    /\ flusher = [f \in Flushers |-> "idle"]
    /\ waiter = [w \in Waiters |-> "idle"]

(***************************************************************************)
(* emitState: the waiters of whenIdle are resolved whenever the state that *)
(* is published is idle.                                                   *)
(***************************************************************************)
EmitStateDeaf == waiter' = waiter

EmitState ==
    waiter' = IF ~refreshing' /\ timer' = NoTimer /\ pendingGroups' = {}
              THEN [w \in Waiters |-> IF waiter[w] = "waiting" THEN "resolved" ELSE waiter[w]]
              ELSE waiter

(* schedule(): arm the timer afresh, postponing one that was armed.        *)
ArmedTimer ==
    IF disposed' \/ refreshing' \/ pendingGroups' = {} THEN timer ELSE Debounce

(* runPending(): hand every pending group to one refresh.                  *)
RunPendingKeepingGroups ==
    /\ running' = pendingGroups
    /\ pendingGroups' = pendingGroups
    /\ refreshing' = TRUE
    /\ timer' = NoTimer

RunPending ==
    /\ running' = pendingGroups
    /\ pendingGroups' = {}
    /\ refreshing' = TRUE
    /\ timer' = NoTimer
-----------------------------------------------------------------------------
(* request(groups, reason).                                                *)
Request(gs) ==
    /\ ~disposed
    /\ pendingGroups' = pendingGroups \cup gs
    /\ UNCHANGED <<running, refreshing, disposed, flusher>>
    /\ timer' = ArmedTimer
    /\ EmitState

Quiet == \A f \in Flushers : flusher[f] # "ready"

(* One tick of the clock while the debounce timer is armed.                *)
Tick ==
    /\ Quiet
    /\ timer \in 1..Debounce
    /\ timer' = timer - 1
    /\ UNCHANGED <<pendingGroups, running, refreshing, disposed, flusher, waiter>>

(* The timer's callback.                                                   *)
TimerFires ==
    /\ Quiet
    /\ timer = 0
    /\ ~disposed /\ ~refreshing /\ pendingGroups # {}
    /\ RunPending
    /\ UNCHANGED <<disposed, flusher>>
    /\ EmitState

(* The refresh promise settles, fulfilled or rejected: the finally block.  *)
(* The groups of a rejected refresh are not put back.                      *)
RefreshSettlesForgettingFollowUp ==
    /\ refreshing
    /\ refreshing' = FALSE
    /\ running' = {}
    /\ UNCHANGED <<pendingGroups, disposed, timer>>
    /\ flusher' = [f \in Flushers |-> IF flusher[f] = "awaiting" THEN "ready" ELSE flusher[f]]
    /\ EmitState

RefreshSettles ==
    /\ refreshing
    /\ refreshing' = FALSE
    /\ running' = {}
    /\ UNCHANGED <<pendingGroups, disposed>>
    /\ timer' = ArmedTimer
    /\ flusher' = [f \in Flushers |-> IF flusher[f] = "awaiting" THEN "ready" ELSE flusher[f]]
    /\ EmitState

(***************************************************************************)
(* The body of flush(), entered by the call and by each resumption: clear  *)
(* the timer, then join the refresh in flight, report idleness, or run     *)
(* what is pending and await it.                                           *)
(***************************************************************************)
FlushBody(f) ==
    /\ UNCHANGED disposed
    /\ \/ /\ refreshing
          /\ timer' = NoTimer
          /\ flusher' = [flusher EXCEPT ![f] = "awaiting"]
          /\ UNCHANGED <<pendingGroups, running, refreshing, waiter>>
       \/ /\ ~refreshing /\ pendingGroups = {}
          /\ timer' = NoTimer
          /\ flusher' = [flusher EXCEPT ![f] = "idle"]
          /\ UNCHANGED <<pendingGroups, running, refreshing>>
          /\ EmitState
       \/ /\ ~refreshing /\ pendingGroups # {}
          /\ RunPending
          /\ flusher' = [flusher EXCEPT ![f] = "awaiting"]
          /\ EmitState

Flush(f) == flusher[f] = "idle" /\ ~disposed /\ FlushBody(f)

(* An awaited promise resolved: flush again what was requested meanwhile.  *)
FlushResumes(f) ==
    /\ flusher[f] = "ready"
    /\ IF ~disposed /\ pendingGroups # {}
       THEN FlushBody(f)
       ELSE /\ flusher' = [flusher EXCEPT ![f] = "idle"]
            /\ UNCHANGED <<pendingGroups, timer, running, refreshing, disposed, waiter>>

(* whenIdle(): resolved at once when idle or disposed.                     *)
WhenIdle(w) ==
    /\ waiter[w] # "waiting"
    /\ waiter' = [waiter EXCEPT ![w] =
          IF disposed \/ (~refreshing /\ timer = NoTimer /\ pendingGroups = {})
          THEN "resolved" ELSE "waiting"]
    /\ UNCHANGED <<pendingGroups, timer, running, refreshing, disposed, flusher>>

(* cancel(): forget what is pending; a refresh in flight goes on.          *)
Cancel ==
    /\ timer' = NoTimer
    /\ pendingGroups' = {}
    /\ UNCHANGED <<running, refreshing, disposed, flusher>>
    /\ EmitState

(* dispose(): as cancel, and for good.                                     *)
Dispose ==
    /\ ~disposed
    /\ disposed' = TRUE
    /\ timer' = NoTimer
    /\ pendingGroups' = {}
    /\ UNCHANGED <<running, refreshing, flusher>>
    /\ EmitState
-----------------------------------------------------------------------------
Next ==
    \/ \E gs \in SUBSET Groups : Request(gs)
    \/ Tick
    \/ TimerFires
    \/ RefreshSettles
    \/ \E f \in Flushers : Flush(f) \/ FlushResumes(f)
    \/ \E w \in Waiters : WhenIdle(w)
    \/ Cancel
    \/ Dispose

(***************************************************************************)
(* Fairness: the browser's clock advances, an expired timer's callback and *)
(* a ready continuation run, and a refresh settles (each of its requests   *)
(* ends in an answer or an error).  Nothing obliges callers to call.       *)
(***************************************************************************)
Spec == Init /\ [][Next]_vars

FairSpec ==
    /\ Spec
    /\ WF_vars(Tick)
    /\ WF_vars(TimerFires)
    /\ WF_vars(RefreshSettles)
    /\ \A f \in Flushers : WF_vars(FlushResumes(f))
-----------------------------------------------------------------------------
(* Requested groups are never stranded: while the scheduler is live and no *)
(* refresh runs, a pending group has an armed timer to start its refresh,  *)
(* whatever mix of flush, cancel and request led here.                     *)
NoStrandedGroups ==
    pendingGroups # {} /\ ~disposed /\ ~refreshing => timer # NoTimer

(* The timer is armed only for pending groups of an idle scheduler, so its *)
(* callback never finds its guard false and no two refreshes can overlap.  *)
TimerHasWork ==
    timer # NoTimer => pendingGroups # {} /\ ~refreshing /\ ~disposed

(* A caller of whenIdle() waits only while there is something to wait for: *)
(* no path to idleness forgets to wake it (emitState).                     *)
NoLostWakeup ==
    (\E w \in Waiters : waiter[w] = "waiting") =>
        refreshing \/ timer # NoTimer \/ pendingGroups # {}

(* When callers stop requesting and flushing, every requested group is     *)
(* taken up: only an endless stream of requests, each re-arming the        *)
(* debounce, can postpone a refresh for ever.                              *)
NoMoreRequests == <>[][\A gs \in SUBSET Groups : ~Request(gs)]_vars

RequestedIsTakenUp ==
    NoMoreRequests => \A g \in Groups : (g \in pendingGroups) ~> (g \notin pendingGroups)

(* When requests stop, every flush() returns: re-entering it for what was  *)
(* requested meanwhile does not go on for ever.                            *)
FlushReturns ==
    NoMoreRequests => \A f \in Flushers : (flusher[f] # "idle") ~> (flusher[f] = "idle")

(* The scheduler implements the refresh queue its callers rely on.         *)
Queue == INSTANCE RefreshQueue WITH
    owed <- pendingGroups, active <- running, closed <- disposed

ImplementsRefreshQueue == Queue!QueueSpec
=============================================================================
