---------------------------- MODULE RefreshQueue ----------------------------
(***************************************************************************)
(* What the workspace refresh scheduler promises its callers, with timers, *)
(* promises, flush calls and idle waiters left out.                        *)
(*                                                                         *)
(* Callers ask for refreshes of groups of tables.  At most one refresh     *)
(* runs at a time, it covers every group asked for since the previous one  *)
(* began, and a group asked for while it runs is owed a later refresh.     *)
(* Groups stop being owed only because a refresh of them begins, because   *)
(* the caller cancels, or because the queue is closed.                     *)
(***************************************************************************)
EXTENDS FiniteSets

CONSTANT Groups     \* the refresh groups: invoices, engineering, payroll, ...

VARIABLES
    owed,           \* groups asked for and not yet covered by a refresh
    active,         \* groups of the refresh that is running, {} when none is
    closed          \* the queue takes no more requests

queueVars == <<owed, active, closed>>

QueueTypeOK == owed \subseteq Groups /\ active \subseteq Groups /\ closed \in BOOLEAN

QueueInit == owed = {} /\ active = {} /\ closed = FALSE

Ask == /\ ~closed
       /\ \E gs \in SUBSET Groups : owed' = owed \cup gs
       /\ UNCHANGED <<active, closed>>

Begin == /\ active = {}
         /\ owed # {}
         /\ active' = owed
         /\ owed' = {}
         /\ UNCHANGED closed

End == /\ active # {}
       /\ active' = {}
       /\ UNCHANGED <<owed, closed>>

Drop == /\ owed' = {}
        /\ UNCHANGED <<active, closed>>

Close == /\ closed' = TRUE
         /\ owed' = {}
         /\ UNCHANGED active

QueueNext == Ask \/ Begin \/ End \/ Drop \/ Close

QueueSpec == QueueInit /\ [][QueueNext]_queueVars /\ WF_queueVars(End)

=============================================================================
