--------------------------- MODULE InvoiceEditing ---------------------------
(***************************************************************************)
(* Editing an invoice in the browser while other sessions edit it too.     *)
(*                                                                         *)
(* A keystroke makes a draft and arms a timer (App.tsx handleUpdateInvoice)*)
(* that queues a save; a user may also save at once (flushInvoiceSave).    *)
(* Saves of one invoice run one after another (enqueueSerializedSave), and *)
(* each compares the row's updated_at with the last version the session    *)
(* persisted or loaded (updateInvoiceInSupabase), first in a read and then *)
(* in the conditional update.  Background refreshes read all rows and      *)
(* later replace what the session shows (applyInvoicesForWorkspace).       *)
(*                                                                         *)
(* A row's content is the set of edits it includes: Own(n) is the n-th     *)
(* edit made here, Remote(n) the n-th made in other sessions.  updated_at  *)
(* is the index of the write in committed, the history of all writes.      *)
(***************************************************************************)
EXTENDS Naturals, FiniteSets, Sequences

CONSTANTS
    Invoices,
    None,           \* null: no invoice open, no timer armed, nothing read
    MaxEdits,       \* bound on edits made here of each invoice
    MaxRemote,      \* bound on edits made in other sessions
    MaxRefreshes,   \* bound on background refreshes applied
    MaxFlushes,     \* bound on explicit saves
    UserNavigates,  \* the user may leave an invoice by the browser's history
    CallsFail       \* requests may fail, also after the row was written

ASSUME BoundsAssumption ==
    /\ IsFiniteSet(Invoices) /\ None \notin Invoices
    /\ {MaxEdits, MaxRemote, MaxRefreshes, MaxFlushes} \subseteq Nat
    /\ {UserNavigates, CallsFail} \subseteq BOOLEAN

VARIABLES
    committed,      \* history of row writes and of who made them
    rows,           \* updated_at of each row: an index into committed
    local,          \* invoicesRef: what the session shows of each invoice
    persisted,      \* the maps lastPersistedRef has held; the last is current
    timer,          \* updateTimersRef: the draft the debounce timer will save
    revision,       \* editRevisionRef
    queue,          \* savePromisesRef: saves of each invoice, oldest first
    saveState,
    selected,       \* selectedInvoice, the invoice open in the editor
    loading,        \* rows read by a refresh and not yet applied, or None
    flushes

vars == <<committed, rows, local, persisted, timer, revision, queue,
          saveState, selected, loading, flushes>>

Own(n) == <<"own", n>>
Remote(n) == <<"remote", n>>
Contents == SUBSET ({Own(n) : n \in 1..MaxEdits} \cup {Remote(n) : n \in 1..MaxRemote})
Versions == 1..Len(committed)

(* What a row, an entry of invoicesRef or a draft holds: its content and   *)
(* the updated_at it carries.                                              *)
Records == [content : Contents, version : Versions]
Row(i) == [content |-> committed[rows[i]].content, version |-> rows[i]]

Edits == {e \in UNION {committed[v].content : v \in Versions} : e[1] = "remote"}

TypeOK ==
    /\ committed \in Seq([invoice : Invoices, content : Contents, remote : BOOLEAN,
                          revision : 0..MaxEdits])
    /\ rows \in [Invoices -> Versions]
    /\ local \in [Invoices -> Records]
    /\ persisted \in Seq([Invoices -> Versions])
    /\ timer \in [Invoices -> {None} \cup [draft : Records, revision : 1..MaxEdits]]
    /\ revision \in [Invoices -> 0..MaxEdits]
    /\ \A i \in Invoices : \A k \in DOMAIN queue[i] :
          /\ queue[i][k].draft \in Records
          /\ queue[i][k].map \in DOMAIN persisted
          /\ queue[i][k].phase \in {"queued", "reading", "writing", "finishing"}
          /\ queue[i][k].phase # "queued" => k = 1
    /\ saveState \in {"saved", "saving", "unsaved", "error"}
    /\ selected \in Invoices \cup {None}
    /\ loading \in {None} \cup [Invoices -> Records]
    /\ flushes \in 0..MaxFlushes

(* Every invoice was loaded once, none is open, nothing is being saved.    *)
Init ==
    \E order \in [1..Cardinality(Invoices) -> Invoices] :
       /\ \A i \in Invoices : \E v \in DOMAIN order : order[v] = i
       /\ committed = [v \in DOMAIN order |->
                          [invoice |-> order[v], content |-> {}, remote |-> TRUE, revision |-> 0]]
       /\ rows = [i \in Invoices |-> CHOOSE v \in DOMAIN order : order[v] = i]
       /\ local = [i \in Invoices |-> [content |-> {}, version |-> rows[i]]]
       /\ persisted = <<rows>>
       /\ timer = [i \in Invoices |-> None]
       /\ revision = [i \in Invoices |-> 0]
       /\ queue = [i \in Invoices |-> <<>>]
       /\ saveState = "saved"
       /\ selected \in Invoices
       /\ loading = None
       /\ flushes = 0
-----------------------------------------------------------------------------
(* handleUpdateInvoice: the edit shows at once and will be saved when the  *)
(* timer, re-armed by every edit, fires.                                   *)
Edit(i) ==
    /\ selected = i
    /\ revision[i] < MaxEdits
    /\ LET next == revision[i] + 1
           draft == [local[i] EXCEPT !.content = @ \cup {Own(next)}]
       IN  /\ revision' = [revision EXCEPT ![i] = next]
           /\ local' = [local EXCEPT ![i] = draft]
           /\ timer' = [timer EXCEPT ![i] = [draft |-> draft, revision |-> next]]
    /\ saveState' = "unsaved"
    /\ UNCHANGED <<committed, rows, persisted, queue, selected, loading, flushes>>

(* persistInvoice up to its await: the save is chained behind the saves of *)
(* the same invoice and holds on to the current lastPersistedRef map.      *)
Save(draft, rev) ==
    [draft |-> draft, revision |-> rev, map |-> Len(persisted),
     phase |-> "queued", expected |-> 0, landed |-> 0]

EnqueueFirst(i, save) == queue' = [queue EXCEPT ![i] = <<save>> \o @]

Enqueue(i, save) == queue' = [queue EXCEPT ![i] = Append(@, save)]

TimerFires(i) ==
    /\ timer[i] # None
    /\ timer' = [timer EXCEPT ![i] = None]
    /\ Enqueue(i, Save(timer[i].draft, timer[i].revision))
    /\ UNCHANGED <<committed, rows, local, persisted, revision, saveState,
                   selected, loading, flushes>>

(* flushInvoiceSave of the open invoice: save what is shown, now.          *)
Flush(i) ==
    /\ selected = i
    /\ flushes < MaxFlushes
    /\ flushes' = flushes + 1
    /\ timer' = [timer EXCEPT ![i] = None]
    /\ Enqueue(i, Save(local[i], revision[i]))
    /\ UNCHANGED <<committed, rows, local, persisted, revision, saveState,
                   selected, loading>>

Oldest(i) == queue[i][1]
SetHead(i, save) == queue' = [queue EXCEPT ![i] = <<save>> \o Tail(@)]
Pop(i) == queue' = [queue EXCEPT ![i] = Tail(@)]

(* A queued save starts when all earlier ones of its invoice have settled, *)
(* and only now reads the version it expects from the map it was given.    *)
StartSave(i) ==
    /\ queue[i] # <<>> /\ Oldest(i).phase = "queued"
    /\ SetHead(i, [Oldest(i) EXCEPT !.phase = "reading",
                                   !.expected = persisted[Oldest(i).map][i]])
    /\ saveState' = "saving"
    /\ UNCHANGED <<committed, rows, local, persisted, timer, revision, selected,
                   loading, flushes>>

(* A failed save is reported if it is the latest; an invoice never edited  *)
(* here has no entry in editRevisionRef (0), and undefined is no revision. *)
RejectSilently(i) ==
    /\ Pop(i)
    /\ UNCHANGED <<committed, rows, local, persisted, timer, revision, saveState, selected,
                   loading, flushes>>

Reject(i) ==
    /\ Pop(i)
    /\ saveState' = IF revision[i] # 0 /\ revision[i] = Oldest(i).revision
                    THEN "error" ELSE saveState
    /\ UNCHANGED <<committed, rows, local, persisted, timer, revision, selected,
                   loading, flushes>>

(* updateInvoiceInSupabase, the read: refuse to go on from a stale row.    *)
CheckRow(i) ==
    /\ queue[i] # <<>> /\ Oldest(i).phase = "reading"
    /\ rows[i] = Oldest(i).expected
    /\ SetHead(i, [Oldest(i) EXCEPT !.phase = "writing"])
    /\ UNCHANGED <<committed, rows, local, persisted, timer, revision, saveState,
                   selected, loading, flushes>>

Written(i) == [invoice |-> i, content |-> Oldest(i).draft.content,
               remote |-> FALSE, revision |-> Oldest(i).revision]

(* ... and the update of the row if it still has the expected updated_at.  *)
WriteRowUnconditionally(i) ==
    /\ queue[i] # <<>> /\ Oldest(i).phase = "writing"
    /\ committed' = Append(committed, Written(i))
    /\ rows' = [rows EXCEPT ![i] = Len(committed')]
    /\ SetHead(i, [Oldest(i) EXCEPT !.phase = "finishing", !.landed = Len(committed')])
    /\ UNCHANGED <<local, persisted, timer, revision, saveState, selected, loading, flushes>>

WriteRow(i) ==
    /\ queue[i] # <<>> /\ Oldest(i).phase = "writing"
    /\ rows[i] = Oldest(i).expected
    /\ committed' = Append(committed, Written(i))
    /\ rows' = [rows EXCEPT ![i] = Len(committed')]
    /\ SetHead(i, [Oldest(i) EXCEPT !.phase = "finishing", !.landed = Len(committed')])
    /\ UNCHANGED <<local, persisted, timer, revision, saveState, selected, loading, flushes>>

(* Either check finds another version: "changed in another session".       *)
Conflict(i) ==
    /\ queue[i] # <<>> /\ Oldest(i).phase \in {"reading", "writing"}
    /\ rows[i] # Oldest(i).expected
    /\ Reject(i)

(* A request fails; after the row is written it is the line items or the   *)
(* review events that fail, and the row stays written.                     *)
SaveFails(i) ==
    /\ CallsFail
    /\ queue[i] # <<>> /\ Oldest(i).phase # "queued"
    /\ Reject(i)

(* The save is recorded in its map; it is shown and reported only when no  *)
(* edit was made since it was requested.                                   *)
FinishSaveOfAnyRevision(i) ==
    /\ queue[i] # <<>> /\ Oldest(i).phase = "finishing"
    /\ LET save == Oldest(i)
       IN  /\ persisted' = [persisted EXCEPT ![save.map][i] = save.landed]
           /\ saveState' = "saved"
           /\ UNCHANGED local
    /\ Pop(i)
    /\ UNCHANGED <<committed, rows, timer, revision, selected, loading, flushes>>

FinishSave(i) ==
    /\ queue[i] # <<>> /\ Oldest(i).phase = "finishing"
    /\ LET save == Oldest(i)
           shown == [content |-> save.draft.content, version |-> save.landed]
       IN  /\ persisted' = [persisted EXCEPT ![save.map][i] = save.landed]
           /\ IF revision[i] = save.revision
              THEN local' = [local EXCEPT ![i] = shown] /\ saveState' = "saved"
              ELSE UNCHANGED <<local, saveState>>
    /\ Pop(i)
    /\ UNCHANGED <<committed, rows, timer, revision, selected, loading, flushes>>
-----------------------------------------------------------------------------
(* Another session saves an edit of the row as it is.                      *)
RemoteEdit(i) ==
    /\ Cardinality(Edits) < MaxRemote
    /\ committed' = Append(committed,
          [invoice |-> i, remote |-> TRUE, revision |-> 0,
           content |-> Row(i).content \cup {Remote(Cardinality(Edits) + 1)}])
    /\ rows' = [rows EXCEPT ![i] = Len(committed')]
    /\ UNCHANGED <<local, persisted, timer, revision, queue, saveState, selected,
                   loading, flushes>>

(* A refresh reads the rows ...                                            *)
RefreshReads ==
    /\ loading = None
    /\ Len(persisted) <= MaxRefreshes
    /\ loading' = [i \in Invoices |-> Row(i)]
    /\ UNCHANGED <<committed, rows, local, persisted, timer, revision, queue,
                   saveState, selected, flushes>>

(* ... and later applies them.  decideRemoteInvoiceRefresh defers a row    *)
(* only for the invoice selectedInvoiceRef names; nothing ever assigns     *)
(* that ref, so it names none and every row is applied.                    *)
SelectedInvoiceRef == None

Defers(i) ==
    i = SelectedInvoiceRef /\ saveState \in {"unsaved", "saving", "error"}

RefreshApplies ==
    /\ loading # None
    /\ local' = [i \in Invoices |-> IF Defers(i) THEN local[i] ELSE loading[i]]
    /\ persisted' = Append(persisted, [i \in Invoices |-> loading[i].version])
    /\ loading' = None
    /\ UNCHANGED <<committed, rows, timer, revision, queue, saveState, selected, flushes>>

(* The browser's back button closes the invoice; opening one from a list   *)
(* declares it saved (openInvoice, startReview), the forward button not.   *)
Leave ==
    /\ UserNavigates
    /\ selected # None
    /\ selected' = None
    /\ UNCHANGED <<committed, rows, local, persisted, timer, revision, queue,
                   saveState, loading, flushes>>

Open(i) ==
    /\ selected = None
    /\ selected' = i
    /\ saveState' \in {"saved", saveState}
    /\ UNCHANGED <<committed, rows, local, persisted, timer, revision, queue,
                   loading, flushes>>
-----------------------------------------------------------------------------
SaveStep(i) ==
    \/ StartSave(i) \/ CheckRow(i) \/ WriteRow(i) \/ Conflict(i) \/ FinishSave(i)

Next ==
    \/ \E i \in Invoices :
          \/ Edit(i) \/ TimerFires(i) \/ Flush(i) \/ SaveStep(i) \/ SaveFails(i)
          \/ RemoteEdit(i) \/ Open(i)
    \/ RefreshReads \/ RefreshApplies \/ Leave

(* Timers fire, and a save's requests are answered or fail.                *)
Spec == Init /\ [][Next]_vars

FairSpec ==
    Spec /\ \A i \in Invoices : WF_vars(TimerFires(i)) /\ WF_vars(SaveStep(i))
-----------------------------------------------------------------------------
(* However timers, explicit saves, failures and refreshes interleave, the  *)
(* row is never overwritten by a save requested at an older revision of    *)
(* the draft than one already written.                                     *)
RevisionsInOrder ==
    [][\A i \in Invoices : rows'[i] # rows[i] /\ ~committed'[rows'[i]].remote =>
          \A v \in Versions :
             committed[v].invoice = i => committed[v].revision <= Oldest(i).revision]_vars

(* An edit another session makes while a save is on its way, after the     *)
(* save fixed the version it expects, is never overwritten by that save.   *)
NoRaceOverwrite ==
    [][\A i \in Invoices : rows'[i] # rows[i] /\ ~committed'[rows'[i]].remote =>
          \A v \in Versions :
             committed[v].invoice = i /\ committed[v].remote => v <= Oldest(i).expected]_vars

(* When the save of the open invoice turns the indicator to "saved", that  *)
(* is the truth: what the editor shows is in the row at the version shown, *)
(* and no later edit waits for its timer or in the queue.                  *)
SavedIsDurable ==
    [][\A i \in Invoices :
          i = selected /\ FinishSave(i) /\ saveState # "saved" /\ saveState' = "saved" =>
             /\ local'[i].content = committed'[local'[i].version].content
             /\ timer'[i] = None
             /\ \A k \in DOMAIN queue'[i] : queue'[i][k].revision <= Oldest(i).revision]_vars

(* Every edit comes to rest: for an invoice that was edited here, the      *)
(* indicator does not stay at "unsaved" or "saving" once the user stops.   *)
SavingSettles ==
    (selected # None /\ revision[selected] # 0 /\ saveState \in {"unsaved", "saving"})
        ~> (saveState \in {"saved", "error"})

(* A draft made before another session's edit was seen is not saved over   *)
(* that edit.                                                              *)
NoSilentOverwrite ==
    [][\A i \in Invoices :
          {e \in Row(i).content : e[1] = "remote"} \subseteq Row(i)'.content]_vars
=============================================================================
