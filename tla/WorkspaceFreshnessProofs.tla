----------------------- MODULE WorkspaceFreshnessProofs -----------------------
(***************************************************************************)
(* Proofs about WorkspaceFreshness, for any groups and bounds: loads are   *)
(* shared, nothing comes back after sign-out, and the screen never goes    *)
(* back to older data during a session.                                    *)
(*                                                                         *)
(* The last rests on the first two: what the only load of a group of this  *)
(* session has read is at least what is shown, because nothing else can    *)
(* change what is shown before it settles.                                 *)
(***************************************************************************)
EXTENDS WorkspaceFreshness, TLAPS

(* Nothing is newer than the database, no load is of a session to come,    *)
(* and those of this session bring nothing older than what is shown.       *)
LoadsAreNew ==
    /\ \A g \in Groups : view[g] <= server[g]
    /\ \A l \in loads : /\ l.read <= server[l.group]
                        /\ l.generation <= generation
                        /\ Mine(l) /\ l.read # 0 => view[l.group] <= l.read

IInv == TypeOK /\ OneLoadPerGroup /\ SignedOutIsEmpty /\ LoadsAreNew

LEMMA Constants ==
    /\ MaxVersion \in Nat \ {0} /\ MaxGeneration \in Nat
    /\ Blank \in [Groups -> Versions]
    /\ Rested \in [pendingReasons : BOOLEAN, cooling : BOOLEAN, scheduled : BOOLEAN]
<1>1. MaxVersion \in Nat \ {0} /\ MaxGeneration \in Nat
  BY FreshnessAssumption
<1>2. 0 \in Versions
  BY <1>1 DEF Versions
<1>3. Rested \in [pendingReasons : BOOLEAN, cooling : BOOLEAN, scheduled : BOOLEAN]
  BY DEF Rested
<1> QED  BY <1>1, <1>2, <1>3 DEF Blank

LEMMA InitIInv == Init => IInv
<1> SUFFICES ASSUME Init PROVE IInv
  OBVIOUS
<1>1. server \in [Groups -> 1..MaxVersion] /\ generation \in 0..MaxGeneration
  BY Constants DEF Init
<1>2. TypeOK
  BY <1>1, Constants DEF Init, TypeOK, QueueTypeOK
<1>3. OneLoadPerGroup /\ SignedOutIsEmpty
  BY DEF Init, OneLoadPerGroup, InFlight, SignedOutIsEmpty
<1>4. LoadsAreNew
  BY <1>1, Constants DEF Init, LoadsAreNew, Blank
<1> QED  BY <1>2, <1>3, <1>4 DEF IInv
-----------------------------------------------------------------------------
(* getOrLoad answers every caller with a load, and only a caller that      *)
(* finds none in flight begins one.                                        *)
Copies(x, l) == x.group = l.group /\ x.generation = l.generation /\ x.read = l.read

LEMMA WithLoads ==
    ASSUME TypeOK, NEW gs \in SUBSET Groups, NEW caller \in {"initial", "refresh", "save"},
           NEW x \in With(gs, caller)
    PROVE  /\ x \in Load
           /\ \/ \E l \in loads : /\ Copies(x, l)
                                  /\ x = IF l.group \in gs /\ Mine(l)
                                         THEN [l EXCEPT !.waits = @ \cup {caller}] ELSE l
              \/ x = Started(x.group, caller) /\ InFlight(x.group) = {}
<1>1. CASE \E l \in loads : x = IF l.group \in gs /\ Mine(l)
                                THEN [l EXCEPT !.waits = @ \cup {caller}] ELSE l
  <2>1. PICK l \in loads : x = IF l.group \in gs /\ Mine(l)
                               THEN [l EXCEPT !.waits = @ \cup {caller}] ELSE l
    BY <1>1
  <2>2. l \in Load
    BY DEF TypeOK
  <2>3. x \in Load /\ Copies(x, l)
    BY <2>1, <2>2 DEF Load, Copies
  <2> QED  BY <2>1, <2>3
<1>2. CASE \E g \in gs : InFlight(g) = {} /\ x = Started(g, caller)
  <2>1. PICK g \in gs : InFlight(g) = {} /\ x = Started(g, caller)
    BY <1>2
  <2>2. x.group = g /\ x \in Load
    BY <2>1, FreshnessAssumption DEF Started, Load, TypeOK, Versions
  <2> QED  BY <2>1, <2>2
<1> QED  BY <1>1, <1>2 DEF With

LEMMA WithIsShared ==
    ASSUME TypeOK, OneLoadPerGroup,
           NEW gs \in SUBSET Groups, NEW caller \in {"initial", "refresh", "save"},
           NEW x \in With(gs, caller), NEW y \in With(gs, caller),
           Mine(x), Mine(y), x.group = y.group
    PROVE  x = y
<1> DEFINE Joined(l) == IF l.group \in gs /\ Mine(l)
                        THEN [l EXCEPT !.waits = @ \cup {caller}] ELSE l
<1>1. /\ (\E l \in loads : Copies(x, l) /\ x = Joined(l))
          \/ (x = Started(x.group, caller) /\ InFlight(x.group) = {})
      /\ (\E l \in loads : Copies(y, l) /\ y = Joined(l))
          \/ (y = Started(y.group, caller) /\ InFlight(y.group) = {})
  BY WithLoads
<1>2. ASSUME NEW l \in loads, NEW m \in loads, Copies(x, l), Copies(y, m) PROVE l = m
  <2>1. l \in InFlight(x.group) /\ m \in InFlight(x.group) /\ x.group \in Groups
    BY <1>2 DEF Copies, InFlight, Mine, TypeOK, Load
  <2> QED  BY <2>1 DEF OneLoadPerGroup
<1>3. ASSUME NEW l \in loads, Copies(x, l) \/ Copies(y, l) PROVE InFlight(x.group) # {}
  BY <1>3 DEF Copies, InFlight, Mine
<1> QED  BY <1>1, <1>2, <1>3
-----------------------------------------------------------------------------
(* What steps do to the loads, the screen and the session.                 *)
Idle == /\ UNCHANGED <<loads, view, generation, closed>>
        /\ \A g \in Groups : server[g] <= server'[g]

Joins == /\ UNCHANGED <<view, generation, closed, server>>
         /\ \E gs \in SUBSET Groups, c \in {"initial", "refresh", "save"} : loads' = With(gs, c)

LEMMA Shapes ==
    ASSUME TypeOK, [Next]_vars
    PROVE  \/ Idle \/ Joins \/ SignIn \/ SignOut
           \/ \E l \in loads : LoadReads(l) \/ LoadSucceeds(l) \/ LoadFails(l)
<1>0. server \in [Groups -> 1..MaxVersion] /\ MaxVersion \in Nat /\ active \subseteq Groups
  BY FreshnessAssumption DEF TypeOK, QueueTypeOK
<1>1. ASSUME NEW g \in Groups, ServerChanges(g) PROVE Idle
  BY <1>0, <1>1 DEF ServerChanges, Idle, queueVars, session, work
<1>2. ASSUME NEW g \in Groups, DirectRefresh(g) PROVE Joins
  BY <1>2 DEF DirectRefresh, Joins, queueVars, session, net
<1>3. ASSUME NEW e \in events, Deliver(e[1], e[2]) PROVE Idle
  BY <1>0, <1>3 DEF Deliver, Request, Ask, Idle, queueVars, work
<1>4. CASE ChannelStatus \/ GoOffline \/ GoOnline \/ CooldownEnds
  BY <1>0, <1>4 DEF ChannelStatus, GoOffline, GoOnline, CooldownEnds, Idle, queueVars, session,
                    work, net
<1>5. CASE FocusSignal \/ OnlineSignal \/ TimerFires
  BY <1>0, <1>5 DEF FocusSignal, OnlineSignal, TimerFires, Trigger, Dispatch, Request, Ask, Idle,
                    queueVars, session, work, net
<1>6. CASE ProfileAnswers
  BY <1>0, <1>6 DEF ProfileAnswers, Joins, Idle, queueVars, session, net
<1>7. CASE HandlerLoads
  BY <1>0, <1>7 DEF HandlerLoads, Joins, Idle, queueVars, session, net
<1>8. CASE InitialEnds \/ RefreshBegins \/ RefreshEnds
  BY <1>0, <1>8 DEF InitialEnds, RefreshBegins, RefreshEnds, Begin, End, Idle, queueVars, session,
                    net
<1>9. CASE UNCHANGED vars
  BY <1>0, <1>9 DEF vars, Idle, queueVars, session, work, net
<1> QED  BY <1>1, <1>2, <1>3, <1>4, <1>5, <1>6, <1>7, <1>8, <1>9 DEF Next
-----------------------------------------------------------------------------
LEMMA TypedStep == ASSUME TypeOK, [Next]_vars PROVE TypeOK'
<1>0. MaxVersion \in Nat \ {0} /\ MaxGeneration \in Nat
  BY FreshnessAssumption
<1> USE DEF TypeOK, QueueTypeOK, Versions
<1>1. ASSUME NEW g \in Groups, ServerChanges(g) PROVE TypeOK'
  BY <1>0, <1>1 DEF ServerChanges, queueVars, session, work
<1>2. ASSUME NEW g \in Groups, DirectRefresh(g) PROVE TypeOK'
  <2>1. loads' \subseteq Load
    BY <1>2, WithLoads DEF DirectRefresh
  <2> QED  BY <1>2, <2>1 DEF DirectRefresh, queueVars, session, net
<1>3. ASSUME NEW e \in events, Deliver(e[1], e[2]) PROVE TypeOK'
  <2>1. e[1] \in Groups /\ e[2] \in Versions
    OBVIOUS
  <2>2. due' \in [Groups -> Versions]
    BY <1>3, <2>1 DEF Deliver, Told
  <2>3. owed' \subseteq Groups /\ UNCHANGED <<active, closed>>
    BY <1>3, <2>1 DEF Deliver, Request, Ask, queueVars
  <2> QED  BY <1>3, <2>1, <2>2, <2>3 DEF Deliver, work
<1>4. CASE ChannelStatus \/ GoOffline \/ GoOnline \/ CooldownEnds
  BY <1>4 DEF ChannelStatus, GoOffline, GoOnline, CooldownEnds, queueVars, session, work, net
<1>5. CASE FocusSignal \/ OnlineSignal \/ TimerFires
  <2>1. /\ due' = due \/ due' = [g \in Groups |-> Told(g, server[g])]
        /\ owed' = owed \/ owed' = owed \cup Groups
        /\ UNCHANGED <<active, closed, work, view, generation, server, online, subscribed, events>>
        /\ onlineSignal' = onlineSignal \/ onlineSignal' = FALSE
    BY <1>5 DEF FocusSignal, OnlineSignal, TimerFires, Trigger, Dispatch, Request, Ask, queueVars,
                session, net
  <2>2. fallback' \in [pendingReasons : BOOLEAN, cooling : BOOLEAN, scheduled : BOOLEAN]
    <3>1. CASE Dispatch
      BY <3>1 DEF Dispatch
    <3>2. CASE fallback' = [fallback EXCEPT !.pendingReasons = TRUE, !.scheduled = TRUE]
      BY <3>2
    <3>3. CASE fallback' = [fallback EXCEPT !.scheduled = FALSE] \/ UNCHANGED fallback
      BY <3>3
    <3> QED  BY <1>5, <3>1, <3>2, <3>3 DEF FocusSignal, OnlineSignal, TimerFires, Trigger
  <2>3. due' \in [Groups -> Versions]
    BY <1>0, <2>1 DEF Told
  <2> QED  BY <2>1, <2>2, <2>3 DEF work
<1>6. CASE ProfileAnswers
  <2>1. loads' \subseteq Load
    BY <1>6, WithLoads DEF ProfileAnswers
  <2> QED  BY <1>6, <2>1 DEF ProfileAnswers, queueVars, session, net
<1>7. CASE HandlerLoads
  <2>1. loads' \subseteq Load
    BY <1>7, WithLoads DEF HandlerLoads
  <2> QED  BY <1>7, <2>1 DEF HandlerLoads, queueVars, session, net
<1>8. CASE InitialEnds \/ RefreshBegins \/ RefreshEnds
  BY <1>8 DEF InitialEnds, RefreshBegins, RefreshEnds, Begin, End, queueVars, session, net
<1>9. ASSUME NEW l \in loads, LoadReads(l) \/ LoadSucceeds(l) \/ LoadFails(l) PROVE TypeOK'
  <2>1. l \in Load /\ server[l.group] \in Versions /\ l.group \in Groups /\ l.read \in Versions
    BY <1>0 DEF Load
  <2>2. loads' \subseteq Load
    BY <1>9, <2>1 DEF LoadReads, LoadSucceeds, LoadFails, Load
  <2>3. view' \in [Groups -> Versions] /\ due' \in [Groups -> Versions]
    BY <1>0, <1>9, <2>1 DEF LoadReads, LoadSucceeds, LoadFails, session
  <2> QED  BY <1>9, <2>2, <2>3 DEF LoadReads, LoadSucceeds, LoadFails, queueVars, session, net
<1>10. CASE SignIn
  BY <1>10, Constants DEF SignIn, session, net
<1>11. CASE SignOut
  <2>1. loads' \subseteq Load
    BY <1>11 DEF SignOut, Load
  <2>2. generation' \in 0..MaxGeneration
    BY <1>0, <1>11 DEF SignOut
  <2> QED  BY <1>11, <2>1, <2>2, Constants DEF SignOut, Close
<1>12. CASE UNCHANGED vars
  BY <1>12 DEF vars, queueVars, session, work, net
<1> QED
  BY <1>1, <1>2, <1>3, <1>4, <1>5, <1>6, <1>7, <1>8, <1>9, <1>10, <1>11, <1>12 DEF Next
-----------------------------------------------------------------------------
(* What is needed of the types below.                                      *)
LEMMA Typed ==
    ASSUME TypeOK
    PROVE  /\ loads \subseteq Load /\ active \subseteq Groups
           /\ \A l \in Load : l.group \in Groups /\ l.generation \in Nat /\ l.read \in Nat
           /\ server \in [Groups -> Nat] /\ view \in [Groups -> Nat] /\ generation \in Nat
<1>1. Versions \subseteq Nat /\ 1..MaxVersion \subseteq Nat /\ 0..MaxGeneration \subseteq Nat
  BY Constants DEF Versions
<1> QED  BY <1>1 DEF TypeOK, QueueTypeOK, Load

(* Loads begun before a sign-out are of an earlier session for good.       *)
LEMMA SignOutStep ==
    ASSUME TypeOK, LoadsAreNew, SignOut
    PROVE  /\ UNCHANGED server /\ view' = Blank /\ generation' = generation + 1
           /\ \A x \in loads' : \E l \in loads : Copies(x, l) /\ x.generation < generation'
<1>1. ASSUME NEW x \in loads' PROVE \E l \in loads : Copies(x, l) /\ x.generation < generation + 1
  <2>1. PICK l \in loads : x = [l EXCEPT !.waits = {}]
    BY DEF SignOut
  <2>2. l \in Load
    BY Typed
  <2>3. Copies(x, l)
    BY <2>1, <2>2 DEF Load, Copies
  <2>4. l.generation <= generation
    BY DEF LoadsAreNew
  <2> QED  BY <2>2, <2>3, <2>4, Typed DEF Copies
<1> QED  BY <1>1 DEF SignOut

LEMMA SharedStep ==
    ASSUME TypeOK, OneLoadPerGroup, LoadsAreNew, [Next]_vars
    PROVE  OneLoadPerGroup'
<1> SUFFICES ASSUME NEW x \in loads', NEW y \in loads', x.group \in Groups, x.group = y.group,
                    x.generation = generation', y.generation = generation'
             PROVE  x = y
  BY DEF OneLoadPerGroup, InFlight, Mine
<1>0. \A l, m \in loads : l.group \in Groups /\ l.group = m.group /\ Mine(l) /\ Mine(m) => l = m
  BY DEF OneLoadPerGroup, InFlight
<1>1. CASE Idle
  BY <1>0, <1>1 DEF Idle, Mine
<1>2. CASE Joins
  BY <1>2, WithIsShared DEF Joins, Mine
<1>3. CASE SignIn
  BY <1>0, <1>3 DEF SignIn, session, Mine
<1>4. CASE SignOut
  <2>1. x.generation < generation' /\ x.generation \in Nat
    BY <1>4, SignOutStep, Typed DEF Copies
  <2> QED  BY <2>1
<1>5. ASSUME NEW l \in loads, LoadReads(l) PROVE x = y
  <2>1. l \in Load
    BY Typed
  <2>2. \A z \in loads' : (z \in loads /\ z # l) \/ z = [l EXCEPT !.read = server[l.group]]
    BY <1>5 DEF LoadReads
  <2>3. UNCHANGED generation
    BY <1>5 DEF LoadReads, session
  <2>4. ASSUME NEW z \in loads', z = [l EXCEPT !.read = server[l.group]]
        PROVE  z.group = l.group /\ z.generation = l.generation
    BY <2>1, <2>4 DEF Load
  <2> QED  BY <1>0, <2>2, <2>3, <2>4 DEF Mine
<1>6. ASSUME NEW l \in loads, LoadSucceeds(l) \/ LoadFails(l) PROVE x = y
  BY <1>0, <1>6 DEF LoadSucceeds, LoadFails, Mine
<1> QED  BY <1>1, <1>2, <1>3, <1>4, <1>5, <1>6, Shapes

LEMMA EmptyStep == ASSUME SignedOutIsEmpty, TypeOK, [Next]_vars PROVE SignedOutIsEmpty'
<1> USE DEF SignedOutIsEmpty
<1>1. CASE Idle \/ Joins
  BY <1>1 DEF Idle, Joins
<1>2. CASE SignIn \/ SignOut
  BY <1>2 DEF SignIn, SignOut, Blank
<1>3. ASSUME NEW l \in loads, LoadReads(l) \/ LoadSucceeds(l) \/ LoadFails(l) PROVE SignedOutIsEmpty'
  BY <1>3 DEF LoadReads, LoadSucceeds, LoadFails, Applies, queueVars, session, Blank
<1> QED  BY <1>1, <1>2, <1>3, Shapes

(* Loads, the screen and the database move on together: what is left in    *)
(* flight for this session is newer than what is shown.                    *)
LEMMA NewStep == ASSUME TypeOK, OneLoadPerGroup, LoadsAreNew, [Next]_vars PROVE LoadsAreNew'
<1>0. /\ \A g \in Groups : view[g] \in Nat /\ server[g] \in Nat /\ view[g] <= server[g]
      /\ generation \in Nat
      /\ \A l \in loads : /\ l \in Load
                          /\ l.group \in Groups /\ l.generation \in Nat /\ l.read \in Nat
                          /\ l.read <= server[l.group] /\ l.generation <= generation
                          /\ l.generation = generation /\ l.read # 0 => view[l.group] <= l.read
  BY Typed DEF LoadsAreNew, Mine
<1>1. CASE Idle
  <2>1. \A g \in Groups : server'[g] \in Nat /\ server[g] <= server'[g]
    BY <1>1, TypedStep, Constants DEF Idle, TypeOK
  <2> QED  BY <1>0, <1>1, <2>1 DEF Idle, LoadsAreNew, Mine
<1>2. CASE Joins
  <2>1. PICK gs \in SUBSET Groups, c \in {"initial", "refresh", "save"} : loads' = With(gs, c)
    BY <1>2 DEF Joins
  <2>2. ASSUME NEW x \in loads'
        PROVE  (\E l \in loads : Copies(x, l)) \/ (x.read = 0 /\ x.generation = generation)
    <3>1. (\E l \in loads : Copies(x, l)) \/ x = Started(x.group, c)
      BY <2>1, WithLoads
    <3>2. x = Started(x.group, c) => x.read = 0 /\ x.generation = generation
      BY DEF Started
    <3> QED  BY <3>1, <3>2
  <2>3. \A x \in loads' : x.group \in Groups
    BY TypedStep, Typed DEF TypeOK, Load
  <2> QED  BY <1>0, <1>2, <2>2, <2>3 DEF Joins, LoadsAreNew, Mine, Copies
<1>3. CASE SignIn
  BY <1>0, <1>3 DEF SignIn, net, session, LoadsAreNew, Mine
<1>4. CASE SignOut
  <2>1. \A x \in loads' : /\ x.read <= server[x.group]
                          /\ x.generation < generation + 1 /\ x.generation \in Nat
    BY <1>0, <1>4, SignOutStep DEF Copies
  <2>2. \A g \in Groups : Blank[g] <= server[g]
    BY <1>0 DEF Blank
  <2> QED  BY <1>0, <1>4, <2>1, <2>2, SignOutStep DEF LoadsAreNew, Mine
<1>5. ASSUME NEW l \in loads, LoadReads(l) PROVE LoadsAreNew'
  <2>1. UNCHANGED <<view, generation, server>>
    BY <1>5 DEF LoadReads, session, net
  <2>2. \A x \in loads' : x \in loads \/ x = [l EXCEPT !.read = server[l.group]]
    BY <1>5 DEF LoadReads
  <2>3. ASSUME NEW x, x = [l EXCEPT !.read = server[l.group]]
        PROVE  x.group = l.group /\ x.generation = l.generation /\ x.read = server[l.group]
    BY <1>0, <2>3 DEF Load
  <2> QED  BY <1>0, <2>1, <2>2, <2>3 DEF LoadsAreNew, Mine
<1>6. ASSUME NEW l \in loads, LoadSucceeds(l) \/ LoadFails(l) PROVE LoadsAreNew'
  <2>1. /\ loads' = loads \ {l} /\ UNCHANGED <<generation, server>>
        /\ \/ UNCHANGED view
           \/ Mine(l) /\ view' = [view EXCEPT ![l.group] = l.read]
    BY <1>6 DEF LoadSucceeds, LoadFails, Applies, net
  <2>2. CASE UNCHANGED view
    BY <1>0, <2>1, <2>2 DEF LoadsAreNew, Mine
  <2>3. CASE Mine(l) /\ view' = [view EXCEPT ![l.group] = l.read]
    <3>1. \A g \in Groups : view'[g] = IF g = l.group THEN l.read ELSE view[g]
      BY <2>3, Typed
    <3>2. ASSUME NEW m \in loads', Mine(m) PROVE m.group # l.group
      BY <1>0, <2>1, <2>3, <3>2 DEF OneLoadPerGroup, InFlight
    <3> QED  BY <1>0, <2>1, <3>1, <3>2 DEF LoadsAreNew, Mine
  <2> QED  BY <2>1, <2>2, <2>3
<1> QED  BY <1>1, <1>2, <1>3, <1>4, <1>5, <1>6, Shapes
-----------------------------------------------------------------------------
LEMMA Inductive == IInv /\ [Next]_vars => IInv'
  BY TypedStep, SharedStep, EmptyStep, NewStep DEF IInv

LEMMA AlwaysIInv == Spec => []IInv
  BY InitIInv, Inductive, PTL DEF Spec

(* The session, the fallback, the handler and the loads are well formed.   *)
THEOREM FreshnessTypeCorrect == Spec => []TypeOK
<1>1. IInv => TypeOK
  BY DEF IInv
<1> QED  BY <1>1, AlwaysIInv, PTL

(* The first load, refreshes and saves never load a group twice at once.   *)
THEOREM LoadsAreShared == Spec => []OneLoadPerGroup
<1>1. IInv => OneLoadPerGroup
  BY DEF IInv
<1> QED  BY <1>1, AlwaysIInv, PTL

(* However late a load settles, the workspace stays empty after sign-out.  *)
THEOREM NothingAfterSignOut == Spec => []SignedOutIsEmpty
<1>1. IInv => SignedOutIsEmpty
  BY DEF IInv
<1> QED  BY <1>1, AlwaysIInv, PTL

(* In whatever order loads settle, the screen never goes back to older     *)
(* data during a session.                                                  *)
THEOREM ScreenMovesForward == Spec => ViewMovesForward
<1> DEFINE Step == closed \/ closed' \/ \A g \in Groups : view'[g] >= view[g]
<1>1. IInv /\ [Next]_vars => [Step]_vars
  <2> SUFFICES ASSUME IInv, [Next]_vars PROVE Step
    OBVIOUS
  <2>0. TypeOK /\ LoadsAreNew /\ \A g \in Groups : view[g] \in Nat
    BY Typed DEF IInv
  <2>1. CASE Idle \/ Joins \/ SignIn \/ SignOut
    BY <2>0, <2>1 DEF Idle, Joins, SignIn, SignOut, Close
  <2>2. ASSUME NEW l \in loads, LoadReads(l) \/ LoadSucceeds(l) \/ LoadFails(l) PROVE Step
    <3>1. /\ l.read \in Nat /\ l.group \in Groups /\ view \in [Groups -> Nat]
          /\ Mine(l) /\ l.read # 0 => view[l.group] <= l.read
      BY <2>0, Typed DEF LoadsAreNew
    <3>2. \/ UNCHANGED view
          \/ Mine(l) /\ l.read # 0 /\ view' = [view EXCEPT ![l.group] = l.read]
      BY <2>2 DEF LoadReads, LoadSucceeds, LoadFails, Applies, session
    <3> QED  BY <2>0, <3>1, <3>2
  <2> QED  BY <2>0, <2>1, <2>2, Shapes
<1> QED  BY <1>1, AlwaysIInv, PTL DEF Spec, ViewMovesForward
=============================================================================
