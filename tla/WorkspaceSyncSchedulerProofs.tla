-------------------- MODULE WorkspaceSyncSchedulerProofs --------------------
(***************************************************************************)
(* The safety invariants of WorkspaceSyncScheduler for every set of        *)
(* groups, of callers and every debounce, and the step simulation by which *)
(* it implements RefreshQueue.                                             *)
(***************************************************************************)
EXTENDS WorkspaceSyncScheduler, TLAPS

(* The inductive invariant.  NoStrandedGroups, TimerHasWork and            *)
(* NoLostWakeup are about the scheduler at rest; to be preserved they need *)
(* to know that a refresh in flight has groups and that disposal leaves    *)
(* nothing pending.                                                        *)
RunningIsRefreshing == refreshing <=> running # {}

DisposedIsEmpty == disposed => pendingGroups = {}

IInv ==
    /\ TypeOK
    /\ NoStrandedGroups
    /\ TimerHasWork
    /\ NoLostWakeup
    /\ RunningIsRefreshing
    /\ DisposedIsEmpty

(* EmitState keeps waiter a function into WaitStates, and after it nobody  *)
(* waits in an idle state unless somebody waited in an idle state that was *)
(* not published.                                                          *)
LEMMA EmitStateWakes ==
    ASSUME TypeOK, EmitState
    PROVE  /\ waiter' \in [Waiters -> WaitStates]
           /\ NoLostWakeup'
  <1>1. CASE ~refreshing' /\ timer' = NoTimer /\ pendingGroups' = {}
    <2>1. waiter' = [w \in Waiters |-> IF waiter[w] = "waiting" THEN "resolved" ELSE waiter[w]]
      BY <1>1 DEF EmitState
    <2>2. \A w \in Waiters : waiter'[w] \in WaitStates /\ waiter'[w] # "waiting"
      BY <2>1 DEF TypeOK, WaitStates
    <2> QED BY <2>1, <2>2 DEF NoLostWakeup
  <1>2. CASE ~(~refreshing' /\ timer' = NoTimer /\ pendingGroups' = {})
    <2>1. waiter' = waiter BY <1>2 DEF EmitState
    <2> QED BY <1>2, <2>1 DEF TypeOK, NoLostWakeup, NoTimer
  <1> QED BY <1>1, <1>2

LEMMA InitEstablishes == Init => IInv
  <1> SUFFICES ASSUME Init PROVE IInv OBVIOUS
  <1>1. TypeOK
    <2>1. timer \in 0..NoTimer
      BY DebounceAssumption DEF Init, NoTimer
    <2>2. flusher \in [Flushers -> FlushStates] /\ waiter \in [Waiters -> WaitStates]
      BY DEF Init, FlushStates, WaitStates
    <2> QED BY <2>1, <2>2 DEF Init, TypeOK
  <1>2. NoLostWakeup
    BY DEF Init, NoLostWakeup
  <1> QED
    BY <1>1, <1>2 DEF Init, IInv, NoStrandedGroups, TimerHasWork, RunningIsRefreshing,
                      DisposedIsEmpty

LEMMA RunPendingPreserves ==
    ASSUME IInv, pendingGroups # {}, ~disposed, RunPending, UNCHANGED disposed, EmitState,
           flusher' \in [Flushers -> FlushStates]
    PROVE  IInv'
  <1>1. waiter' \in [Waiters -> WaitStates] /\ NoLostWakeup'
    BY EmitStateWakes DEF IInv
  <1>2. TypeOK'
    BY <1>1, DebounceAssumption DEF IInv, TypeOK, RunPending, NoTimer
  <1> QED
    BY <1>1, <1>2 DEF IInv, RunPending, NoStrandedGroups, TimerHasWork,
                      RunningIsRefreshing, DisposedIsEmpty

LEMMA FlushBodyPreserves ==
    ASSUME IInv, ~disposed, NEW f \in Flushers, FlushBody(f)
    PROVE  IInv'
  <1>0. [flusher EXCEPT ![f] = "awaiting"] \in [Flushers -> FlushStates]
        /\ [flusher EXCEPT ![f] = "idle"] \in [Flushers -> FlushStates]
    BY DEF IInv, TypeOK, FlushStates
  <1>1. CASE refreshing
    <2>1. timer' = NoTimer /\ flusher' \in [Flushers -> FlushStates]
          /\ UNCHANGED <<pendingGroups, running, refreshing, disposed, waiter>>
      BY <1>0, <1>1 DEF FlushBody
    <2> QED
      BY <1>1, <2>1, DebounceAssumption
      DEF IInv, TypeOK, NoStrandedGroups, TimerHasWork, NoLostWakeup,
          RunningIsRefreshing, DisposedIsEmpty, NoTimer
  <1>2. CASE ~refreshing /\ pendingGroups = {}
    <2>1. timer' = NoTimer /\ flusher' \in [Flushers -> FlushStates] /\ EmitState
          /\ UNCHANGED <<pendingGroups, running, refreshing, disposed>>
      BY <1>0, <1>2 DEF FlushBody
    <2>2. waiter' \in [Waiters -> WaitStates] /\ NoLostWakeup'
      BY <2>1, EmitStateWakes DEF IInv
    <2> QED
      BY <1>2, <2>1, <2>2, DebounceAssumption
      DEF IInv, TypeOK, NoStrandedGroups, TimerHasWork, RunningIsRefreshing,
          DisposedIsEmpty, NoTimer
  <1>3. CASE ~refreshing /\ pendingGroups # {}
    <2>1. RunPending /\ flusher' \in [Flushers -> FlushStates] /\ EmitState /\ UNCHANGED disposed
      BY <1>0, <1>3 DEF FlushBody
    <2> QED BY <1>3, <2>1, RunPendingPreserves
  <1> QED BY <1>1, <1>2, <1>3

LEMMA StepPreserves == IInv /\ [Next]_vars => IInv'
  <1> SUFFICES ASSUME IInv, [Next]_vars PROVE IInv' OBVIOUS
  <1> USE DebounceAssumption
  <1>1. ASSUME NEW gs \in SUBSET Groups, Request(gs) PROVE IInv'
    <2>1. EmitState /\ timer' = ArmedTimer /\ pendingGroups' = pendingGroups \cup gs /\ ~disposed
          /\ UNCHANGED <<running, refreshing, disposed, flusher>>
      BY <1>1 DEF Request
    <2>2. waiter' \in [Waiters -> WaitStates] /\ NoLostWakeup'
      BY <2>1, EmitStateWakes DEF IInv
    <2>3. timer' \in 0..NoTimer
      BY <2>1 DEF ArmedTimer, NoTimer, IInv, TypeOK
    <2> QED
      BY <2>1, <2>2, <2>3
      DEF IInv, TypeOK, NoStrandedGroups, TimerHasWork, RunningIsRefreshing,
          DisposedIsEmpty, ArmedTimer, NoTimer
  <1>2. CASE Tick
    BY <1>2 DEF Tick, IInv, TypeOK, NoStrandedGroups, TimerHasWork, NoLostWakeup,
                RunningIsRefreshing, DisposedIsEmpty, NoTimer
  <1>3. CASE TimerFires
    <2>1. flusher' \in [Flushers -> FlushStates]
      BY <1>3 DEF TimerFires, IInv, TypeOK
    <2> QED BY <1>3, <2>1, RunPendingPreserves DEF TimerFires
  <1>4. CASE RefreshSettles
    <2>1. waiter' \in [Waiters -> WaitStates] /\ NoLostWakeup'
      BY <1>4, EmitStateWakes DEF IInv, RefreshSettles
    <2>2. flusher' \in [Flushers -> FlushStates]
      BY <1>4 DEF RefreshSettles, IInv, TypeOK, FlushStates
    <2>3. timer' \in 0..NoTimer
      BY <1>4 DEF RefreshSettles, ArmedTimer, NoTimer, IInv, TypeOK
    <2>4. TypeOK'
      BY <1>4, <2>1, <2>2, <2>3 DEF RefreshSettles, IInv, TypeOK
    <2>5. timer' = IF disposed \/ pendingGroups = {} THEN timer ELSE Debounce
      BY <1>4 DEF RefreshSettles, ArmedTimer
    <2>6. timer = NoTimer
      BY <1>4 DEF RefreshSettles, IInv, TimerHasWork
    <2>7. NoStrandedGroups' /\ TimerHasWork'
      BY <1>4, <2>5, <2>6 DEF RefreshSettles, NoStrandedGroups, TimerHasWork, NoTimer
    <2> QED
      BY <1>4, <2>1, <2>4, <2>7 DEF RefreshSettles, IInv, RunningIsRefreshing, DisposedIsEmpty
  <1>5. ASSUME NEW f \in Flushers, Flush(f) PROVE IInv'
    BY <1>5, FlushBodyPreserves DEF Flush
  <1>6. ASSUME NEW f \in Flushers, FlushResumes(f) PROVE IInv'
    <2>1. CASE ~disposed /\ pendingGroups # {}
      BY <1>6, <2>1, FlushBodyPreserves DEF FlushResumes
    <2>2. CASE ~(~disposed /\ pendingGroups # {})
      BY <1>6, <2>2
      DEF FlushResumes, IInv, TypeOK, FlushStates, NoStrandedGroups, TimerHasWork,
          NoLostWakeup, RunningIsRefreshing, DisposedIsEmpty
    <2> QED BY <2>1, <2>2
  <1>7. ASSUME NEW w \in Waiters, WhenIdle(w) PROVE IInv'
    BY <1>7 DEF WhenIdle, IInv, TypeOK, WaitStates, NoStrandedGroups, TimerHasWork,
                NoLostWakeup, RunningIsRefreshing, DisposedIsEmpty
  <1>8. CASE Cancel
    <2>1. waiter' \in [Waiters -> WaitStates] /\ NoLostWakeup'
      BY <1>8, EmitStateWakes DEF IInv, Cancel
    <2> QED
      BY <1>8, <2>1 DEF Cancel, IInv, TypeOK, NoStrandedGroups, TimerHasWork,
                        RunningIsRefreshing, DisposedIsEmpty, NoTimer
  <1>9. CASE Dispose
    <2>1. waiter' \in [Waiters -> WaitStates] /\ NoLostWakeup'
      BY <1>9, EmitStateWakes DEF IInv, Dispose
    <2> QED
      BY <1>9, <2>1 DEF Dispose, IInv, TypeOK, NoStrandedGroups, TimerHasWork,
                        RunningIsRefreshing, DisposedIsEmpty, NoTimer
  <1>10. CASE UNCHANGED vars
    BY <1>10 DEF vars, IInv, TypeOK, NoStrandedGroups, TimerHasWork, NoLostWakeup,
                 RunningIsRefreshing, DisposedIsEmpty
  <1> QED BY <1>1, <1>2, <1>3, <1>4, <1>5, <1>6, <1>7, <1>8, <1>9, <1>10 DEF Next

LEMMA SpecInvariant == Spec => []IInv
  BY InitEstablishes, StepPreserves, PTL DEF Spec

(* No requested group is stranded, for any callers and any debounce: the   *)
(* schedule/flush/finally paths of createWorkspaceSyncScheduler always     *)
(* leave a timer behind for what is pending.                               *)
THEOREM NothingStranded == Spec => []NoStrandedGroups
  BY SpecInvariant, PTL DEF IInv

(* An armed timer always has work and an idle scheduler to do it, so two   *)
(* refreshes never overlap and runPending never returns early.             *)
THEOREM TimerAlwaysHasWork == Spec => []TimerHasWork
  BY SpecInvariant, PTL DEF IInv

(* Every path of createWorkspaceSyncScheduler to idleness resolves the     *)
(* promises whenIdle() handed out.                                         *)
THEOREM WakeupsAreNotLost == Spec => []NoLostWakeup
  BY SpecInvariant, PTL DEF IInv

(* The variables keep their types.                                         *)
THEOREM TypeCorrect == Spec => []TypeOK
  BY SpecInvariant, PTL DEF IInv
-----------------------------------------------------------------------------
(* Refinement: each step of the scheduler is a step of RefreshQueue or     *)
(* leaves the queue alone.                                                 *)
LEMMA QueueInitRefined == Init => Queue!QueueInit
  BY DEF Init, Queue!QueueInit

LEMMA QueueStepRefined == IInv /\ [Next]_vars => [Queue!QueueNext]_Queue!queueVars
  <1> SUFFICES ASSUME IInv, [Next]_vars PROVE [Queue!QueueNext]_Queue!queueVars OBVIOUS
  <1> USE DEF Queue!QueueNext, Queue!queueVars
  <1>1. ASSUME NEW gs \in SUBSET Groups, Request(gs) PROVE Queue!Ask
    BY <1>1 DEF Request, Queue!Ask
  <1>2. ASSUME pendingGroups # {}, ~refreshing, RunPending, UNCHANGED disposed PROVE Queue!Begin
    BY <1>2 DEF RunPending, Queue!Begin, IInv, RunningIsRefreshing
  <1>3. CASE RefreshSettles
    BY <1>3 DEF RefreshSettles, Queue!End, IInv, RunningIsRefreshing
  <1>4. CASE Cancel
    BY <1>4 DEF Cancel, Queue!Drop
  <1>5. CASE Dispose
    BY <1>5 DEF Dispose, Queue!Close
  <1>6. CASE TimerFires
    BY <1>6, <1>2 DEF TimerFires
  <1>7. ASSUME NEW f \in Flushers, FlushBody(f) PROVE [Queue!QueueNext]_Queue!queueVars
    <2>1. CASE ~refreshing /\ pendingGroups # {}
      BY <1>7, <2>1, <1>2 DEF FlushBody
    <2>2. CASE ~(~refreshing /\ pendingGroups # {})
      BY <1>7, <2>2 DEF FlushBody
    <2> QED BY <2>1, <2>2
  <1>8. ASSUME NEW f \in Flushers, Flush(f) \/ FlushResumes(f)
        PROVE  [Queue!QueueNext]_Queue!queueVars
    <2>1. CASE FlushBody(f) BY <1>7, <2>1
    <2>2. CASE ~FlushBody(f) BY <1>8, <2>2 DEF Flush, FlushResumes
    <2> QED BY <2>1, <2>2
  <1>9. CASE Tick \/ (\E w \in Waiters : WhenIdle(w)) \/ UNCHANGED vars
    BY <1>9 DEF Tick, WhenIdle, vars
  <1> QED BY <1>1, <1>3, <1>4, <1>5, <1>6, <1>8, <1>9 DEF Next

(* The scheduler implements the safety part of RefreshQueue: groups are    *)
(* owed until a refresh of all that is owed begins, one refresh at a time. *)
THEOREM SchedulerRefinesQueue ==
    Spec => Queue!QueueInit /\ [][Queue!QueueNext]_Queue!queueVars
  BY SpecInvariant, QueueInitRefined, QueueStepRefined, PTL DEF Spec
=============================================================================
